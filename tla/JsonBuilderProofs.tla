------------------------- MODULE JsonBuilderProofs -------------------------
(***************************************************************************)
(* The builder keeps its pointers valid for every set of keys and values   *)
(* and any number of calls.  The invariant that carries the proof orders   *)
(* addresses: what an open container holds is newer than the container and *)
(* than everything the containers around it hold.  Growing the innermost   *)
(* container, which frees the addresses of its own elements at most,       *)
(* therefore touches no other open container and nothing these hold.       *)
(*                                                                         *)
(* The second half proves that the builder makes the document.  Memory is  *)
(* a forest: no node is held twice, and nothing holds the outermost open   *)
(* container.  A node that is put into the innermost container changes the *)
(* trees of the open containers only, and of these every one but the       *)
(* innermost leaves out the very element or member that has changed.       *)
(***************************************************************************)
EXTENDS JsonBuilder, SequenceTheorems, WellFoundedInduction, TLAPS

Children(node) ==
  CASE node.kind = "array" -> {node.elements[k] : k \in DOMAIN node.elements}
    [] node.kind = "dict"  -> {node.members[k] : k \in DOMAIN node.members}
    [] OTHER -> {}

Open(i) == heap[node_stack[i]]

(* Every open container is there, with all it holds.                       *)
OpenAndWhole ==
  \A i \in 1 .. Depth : /\ node_stack[i] \in DOMAIN heap
                        /\ Open(i).kind \in {"array", "dict"}
                        /\ Children(Open(i)) \subseteq DOMAIN heap

(* Addresses grow inwards.                                                 *)
Newer ==
  \A i \in 1 .. Depth :
    \A c \in Children(Open(i)) :
      /\ c > node_stack[i]
      /\ \A j \in 1 .. i - 1 :
           c > node_stack[j] /\ \A d \in Children(Open(j)) : c > d

IInv == TypeOK /\ NoDanglingPointer /\ OpenAndWhole /\ Newer /\ GrammarIsEnough

-----------------------------------------------------------------------------
(* Memory.                                                                 *)

(* What is well formed below a bound is so below a larger one.             *)
LEMMA BoundGrows ==
  ASSUME NEW node, NEW m \in Nat, NEW n \in Nat, m <= n, NodeOK(node, m)
  PROVE  NodeOK(node, n)
<1>1. CASE node.kind = "leaf"
  BY <1>1 DEF NodeOK
<1>2. CASE IsArray(node) /\ node.elements \in Seq(1 .. m)
  <2>1. node.elements \in Seq(1 .. n)
    BY <1>2
  <2> QED
    BY <1>2, <2>1 DEF NodeOK
<1>3. CASE /\ IsDict(node) /\ DOMAIN node.members \subseteq Keys
           /\ node.members \in [DOMAIN node.members -> 1 .. m]
  <2>1. node.members \in [DOMAIN node.members -> 1 .. n]
    BY <1>3
  <2> QED
    BY <1>3, <2>1 DEF NodeOK
<1> QED
  BY <1>1, <1>2, <1>3 DEF NodeOK

(* What placing a node must achieve: h is memory afterwards, bound the     *)
(* last address then, at the place of the node.                            *)
Tidy(h, bound) ==
  /\ bound \in Nat /\ bound >= last
  /\ DOMAIN h \subseteq 1 .. bound
  /\ \A a \in DOMAIN h : NodeOK(h[a], bound)

OthersStay(h) ==
  \A i \in 1 .. Depth - 1 : /\ node_stack[i] \in DOMAIN h
                            /\ h[node_stack[i]] = Open(i)
                            /\ Children(Open(i)) \subseteq DOMAIN h

TopGrows(h) ==
  Depth > 0 => /\ Top \in DOMAIN h
               /\ h[Top].kind = heap[Top].kind
               /\ Children(h[Top]) \subseteq DOMAIN h
               /\ \A c \in Children(h[Top]) : c \in Children(heap[Top]) \/ c > last

Holds(h, at, node) ==
  /\ at \in DOMAIN h /\ h[at] = node
  /\ Depth > 0 /\ heap[Top].kind = "array" =>
       /\ Len(h[Top].elements) > 0
       /\ h[Top].elements[Len(h[Top].elements)] = at
  /\ Depth > 0 /\ heap[Top].kind = "dict" =>
       \E k \in DOMAIN h[Top].members : h[Top].members[k] = at

Placed(h, bound, at, node) ==
  Tidy(h, bound) /\ OthersStay(h) /\ TopGrows(h) /\ Holds(h, at, node)

(* The node at the top of the stack and the containers around it.          *)
LEMMA StackFacts ==
  ASSUME IInv
  PROVE  /\ Depth \in Nat
         /\ \A i \in 1 .. Depth : node_stack[i] \in 1 .. last
         /\ Depth > 0 => Top \in DOMAIN heap /\ Top = node_stack[Depth]
BY DEF IInv, TypeOK, Depth, Top, OpenAndWhole

(* Where a sequence is defined, and what it consists of.                   *)
LEMMA SeqFacts ==
  ASSUME NEW S, NEW s \in Seq(S)
  PROVE  /\ Len(s) \in Nat /\ DOMAIN s = 1 .. Len(s)
         /\ \A k \in 1 .. Len(s) : s[k] \in S
OBVIOUS

(* A function on the first m numbers is a sequence.                        *)
LEMMA FunctionIsSeq ==
  ASSUME NEW S, NEW m \in Nat, NEW f \in [1 .. m -> S]
  PROVE  f \in Seq(S) /\ Len(f) = m
OBVIOUS

(* What a container holds is in the heap, so below the next address.       *)
LEMMA ChildrenAreAddresses ==
  ASSUME TypeOK, NEW a \in DOMAIN heap
  PROVE  Children(heap[a]) \subseteq 1 .. last
<1>1. CASE heap[a].kind = "array"
  <2>1. heap[a].elements \in Seq(1 .. last)
    BY <1>1 DEF TypeOK, NodeOK, IsDict
  <2>2. \A k \in DOMAIN heap[a].elements : heap[a].elements[k] \in 1 .. last
    BY <2>1, SeqFacts
  <2>3. Children(heap[a]) = {heap[a].elements[k] : k \in DOMAIN heap[a].elements}
    BY <1>1 DEF Children
  <2> QED
    BY <2>2, <2>3
<1>2. CASE heap[a].kind = "dict"
  <2>1. heap[a].members \in [DOMAIN heap[a].members -> 1 .. last]
    BY <1>2 DEF TypeOK, NodeOK, IsArray
  <2> QED
    BY <1>2, <2>1 DEF Children
<1>3. CASE heap[a].kind \notin {"array", "dict"}
  BY <1>3 DEF Children
<1> QED
  BY <1>1, <1>2, <1>3

(* The container around an open one holds it.                              *)
LEMMA HeldByParent ==
  ASSUME IInv, NEW i \in 1 .. Depth, i > 1
  PROVE  node_stack[i] \in Children(Open(i - 1))
<1>1. /\ i - 1 \in 1 .. Depth - 1 /\ i - 1 \in 1 .. Depth /\ (i - 1) + 1 = i
      /\ node_stack[i - 1] \in DOMAIN heap
  BY StackFacts DEF IInv, OpenAndWhole
<1>2. IsLastElement(node_stack[i], node_stack[i - 1])
        \/ IsMember(node_stack[i], node_stack[i - 1])
  BY <1>1 DEF IInv, NoDanglingPointer
<1>3. CASE IsLastElement(node_stack[i], node_stack[i - 1])
  <2>1. heap[node_stack[i - 1]].elements \in Seq(1 .. last)
    BY <1>1, <1>3 DEF IInv, TypeOK, NodeOK, IsLastElement, IsDict
  <2>2. Len(heap[node_stack[i - 1]].elements) \in DOMAIN heap[node_stack[i - 1]].elements
    BY <2>1, <1>3 DEF IsLastElement
  <2> QED
    BY <2>2, <1>3 DEF IsLastElement, Children, Open
<1>4. CASE IsMember(node_stack[i], node_stack[i - 1])
  BY <1>4 DEF IsMember, Children, Open
<1> QED
  BY <1>2, <1>3, <1>4

(* A container that is open is held by the one around it, so its address   *)
(* is below those of what the innermost container holds.                   *)
LEMMA OthersOlder ==
  ASSUME IInv, NEW i \in 1 .. Depth - 1
  PROVE  /\ node_stack[i] # Top
         /\ node_stack[i] \notin Children(heap[Top])
         /\ Top \notin Children(heap[Top])
         /\ \A d \in Children(Open(i)) : d \notin Children(heap[Top])
<1>1. /\ Depth \in Nat /\ Depth > 0 /\ Top = node_stack[Depth] /\ Depth \in 1 .. Depth
      /\ i \in 1 .. Depth /\ i + 1 \in 1 .. Depth
  BY StackFacts
<1>2. \A c \in Children(heap[Top]) :
        c > Top /\ c > node_stack[i] /\ \A d \in Children(Open(i)) : c > d
  BY <1>1 DEF IInv, Newer, Open
<1>3. node_stack[i] < Top
  <2>1. CASE i + 1 = Depth
    <3>1. node_stack[Depth] \in Children(Open(i))
      BY <1>1, <2>1, HeldByParent
    <3> QED
      BY <1>1, <3>1 DEF IInv, Newer
  <2>2. CASE i + 1 < Depth
    <3>1. /\ node_stack[Depth] \in Children(Open(Depth - 1))
          /\ Depth - 1 \in 1 .. Depth /\ i \in 1 .. (Depth - 1) - 1
      BY <1>1, <2>2, HeldByParent
    <3> QED
      BY <1>1, <3>1 DEF IInv, Newer
  <2> QED
    BY <1>1, <2>1, <2>2
<1>4. /\ Top \in Nat /\ node_stack[i] \in Nat
      /\ Top \in DOMAIN heap /\ node_stack[i] \in DOMAIN heap /\ TypeOK
  BY <1>1, StackFacts DEF IInv, TypeOK, OpenAndWhole
<1>5. Children(heap[Top]) \subseteq Nat /\ Children(Open(i)) \subseteq Nat
  BY <1>4, ChildrenAreAddresses DEF Open, TypeOK
<1> QED
  BY <1>2, <1>3, <1>4, <1>5

-----------------------------------------------------------------------------
(* Placing a node.                                                         *)

(* A node outside any container.                                           *)
LEMMA StorePlaces ==
  ASSUME IInv, Depth = 0, NEW node, \A n \in Nat : NodeOK(node, n)
  PROVE  Placed(Store(last + 1, node), last + 1, last + 1, node)
<1> DEFINE h == Store(last + 1, node)
<1>1. /\ last \in Nat /\ last + 1 \in Nat
      /\ DOMAIN h = DOMAIN heap \cup {last + 1} /\ h[last + 1] = node
      /\ \A a \in DOMAIN heap : a # last + 1 /\ h[a] = heap[a] /\ NodeOK(heap[a], last)
      /\ DOMAIN heap \subseteq 1 .. last
  BY DEF Store, IInv, TypeOK
<1>2. Tidy(h, last + 1)
  <2>1. \A a \in DOMAIN heap : NodeOK(heap[a], last + 1)
    BY <1>1, BoundGrows
  <2> QED
    BY <1>1, <2>1 DEF Tidy
<1>3. OthersStay(h) /\ TopGrows(h) /\ Holds(h, last + 1, node)
  BY <1>1 DEF OthersStay, TopGrows, Holds
<1> QED
  BY <1>2, <1>3 DEF Placed

(* An array that has taken a node behind its elements: where these are now,*)
(* and what memory holds.                                                  *)
GrownArray(h, elements, gone, moved, node) ==
  /\ elements \in Seq(1 .. NewElement) /\ Len(elements) = Len(Elements) + 1
  /\ DOMAIN elements = 1 .. Len(Elements) + 1
  /\ elements[Len(Elements) + 1] = NewElement
  /\ ~ moved => \A k \in 1 .. Len(Elements) : elements[k] = Elements[k]
  /\ moved => \A k \in 1 .. Len(Elements) : elements[k] = last + k
  /\ DOMAIN h = ((DOMAIN heap) \ gone) \cup {elements[k] : k \in DOMAIN elements}
  /\ Top \notin gone /\ Top # NewElement
  /\ Top \in DOMAIN h /\ NewElement \in DOMAIN h
  /\ h[Top] = [kind |-> "array", elements |-> elements] /\ h[NewElement] = node
  /\ \A a \in (DOMAIN heap) \ gone : a \in DOMAIN h /\ (a # Top => h[a] = heap[a])
  /\ \A a \in DOMAIN h :
       \/ a = Top
       \/ a = NewElement
       \/ a \in DOMAIN heap /\ h[a] = heap[a]
       \/ \E k \in 1 .. Len(Elements) : a = last + k /\ h[a] = heap[Elements[k]]

(* What emplace_back leaves behind, whether the elements move or not.      *)
LEMMA ElementNodes ==
  ASSUME IInv, TopIs("array"), NEW node, NEW moved \in MayMove
  PROVE  GrownArray(WithElement(node, moved), AfterEmplaceBack(moved),
                    IF moved THEN Children(heap[Top]) ELSE {}, moved, node)
<1> DEFINE h == WithElement(node, moved)
           elements == AfterEmplaceBack(moved)
           gone == IF moved THEN Children(heap[Top]) ELSE {}
           added == {elements[k] : k \in DOMAIN elements}
           n == Len(Elements)
<1>1. /\ Depth \in Nat /\ Depth > 0 /\ Top = node_stack[Depth] /\ Depth \in 1 .. Depth
      /\ Top \in DOMAIN heap /\ heap[Top].kind = "array"
      /\ last \in Nat /\ DOMAIN heap \subseteq 1 .. last /\ Top \in 1 .. last
  BY StackFacts DEF IInv, TypeOK, TopIs
<1>m. moved \in BOOLEAN
  <2>1. MayMove \subseteq BOOLEAN
    BY DEF MayMove
  <2> QED
    BY <2>1
<1>2. /\ Elements \in Seq(1 .. last) /\ n \in Nat /\ DOMAIN Elements = 1 .. n
      /\ \A k \in 1 .. n : Elements[k] \in 1 .. last
  <2>1. Elements \in Seq(1 .. last)
    BY <1>1 DEF IInv, TypeOK, NodeOK, IsDict, Elements
  <2> QED
    BY <2>1, SeqFacts
<1>3. Children(heap[Top]) = {Elements[k] : k \in 1 .. n}
  BY <1>1, <1>2 DEF Children, Elements
<1>4. Children(heap[Top]) \subseteq DOMAIN heap
  BY <1>1 DEF IInv, OpenAndWhole, Open
<1>5. NewElement = last + n + 1 /\ NewElement \in Nat /\ NewElement > last
  BY <1>1, <1>2 DEF NewElement
<1>6. /\ elements \in Seq(1 .. NewElement) /\ Len(elements) = n + 1
      /\ DOMAIN elements = 1 .. n + 1
      /\ elements[n + 1] = NewElement
      /\ ~ moved => \A k \in 1 .. n : elements[k] = Elements[k]
      /\ moved => \A k \in 1 .. n : elements[k] = last + k
  <2>1. CASE moved
    <3>1. elements = [k \in 1 .. n + 1 |-> last + k]
      BY <2>1 DEF AfterEmplaceBack
    <3>2. \A k \in 1 .. n + 1 : last + k \in 1 .. NewElement
      BY <1>1, <1>2, <1>5
    <3> HIDE DEF elements, n
    <3>3. elements \in [1 .. n + 1 -> 1 .. NewElement]
      BY <3>1, <3>2
    <3>4. n \in Nat /\ n + 1 \in Nat /\ last \in Nat
      BY <1>1, <1>2
    <3>5. elements \in Seq(1 .. NewElement) /\ Len(elements) = n + 1
      BY <3>3, <3>4, FunctionIsSeq
    <3>6. elements[n + 1] = NewElement /\ \A k \in 1 .. n : elements[k] = last + k
      BY <3>1, <3>4, <1>5 DEF n
    <3> QED
      BY <2>1, <3>1, <3>5, <3>6
  <2>2. CASE ~ moved
    <3>1. Elements \in Seq(1 .. NewElement) /\ NewElement \in 1 .. NewElement
      BY <1>1, <1>2, <1>5
    <3>2. elements = Append(Elements, NewElement)
      BY <2>2 DEF AfterEmplaceBack
    <3> HIDE DEF elements
    <3>3. /\ elements \in Seq(1 .. NewElement) /\ Len(elements) = n + 1
          /\ elements[n + 1] = NewElement
          /\ \A k \in 1 .. n : elements[k] = Elements[k]
      BY <3>1, <3>2, <1>2
    <3> QED
      BY <2>2, <3>3, SeqFacts
  <2> QED
    BY <2>1, <2>2
<1>7. /\ DOMAIN h = ((DOMAIN heap) \ gone) \cup added
      /\ Top \in DOMAIN h => h[Top] = [kind |-> "array", elements |-> elements]
      /\ NewElement \in DOMAIN h /\ NewElement # Top => h[NewElement] = node
      /\ \A a \in DOMAIN h : a # Top /\ a # NewElement /\ a > last =>
           h[a] = heap[Elements[a - last]]
      /\ \A a \in DOMAIN h : a # Top /\ a # NewElement /\ ~ (a > last) =>
           h[a] = heap[a]
  BY <1>2, <1>3 DEF WithElement
<1>8. Top \notin gone /\ Top # NewElement
  <2>1. \A c \in Children(heap[Top]) : c > Top
    BY <1>1 DEF IInv, Newer, Open
  <2> QED
    BY <2>1, <1>1, <1>5
<1>9. /\ Top \in DOMAIN h /\ NewElement \in DOMAIN h
      /\ h[Top] = [kind |-> "array", elements |-> elements] /\ h[NewElement] = node
  <2>1. NewElement \in added
    BY <1>2, <1>6
  <2>2. Top \in DOMAIN h /\ NewElement \in DOMAIN h
    BY <2>1, <1>1, <1>7, <1>8
  <2> QED
    BY <2>2, <1>7, <1>8
<1>10. \A a \in (DOMAIN heap) \ gone : a \in DOMAIN h /\ (a # Top => h[a] = heap[a])
  BY <1>1, <1>5, <1>7
<1> HIDE DEF h, elements, added
<1>11. \A a \in DOMAIN h :
         \/ a = Top
         \/ a = NewElement
         \/ a \in DOMAIN heap /\ h[a] = heap[a]
         \/ \E k \in 1 .. n : a = last + k /\ h[a] = heap[Elements[k]]
  <2> TAKE a \in DOMAIN h
  <2>1. CASE a \in DOMAIN heap
    <3>1. ~ (a > last) /\ a # NewElement
      BY <2>1, <1>1, <1>5
    <3> QED
      BY <2>1, <3>1, <1>7
  <2>2. CASE a \notin DOMAIN heap /\ a # NewElement
    <3>1. PICK k \in 1 .. n + 1 : a = elements[k]
      BY <2>2, <1>6, <1>7 DEF added
    <3>2. moved /\ k \in 1 .. n /\ a = last + k
      BY <3>1, <2>2, <1>2, <1>3, <1>4, <1>6
    <3>3. a > last /\ a - last = k /\ a # Top
      BY <3>2, <1>1, <1>2
    <3>4. h[a] = heap[Elements[k]]
      BY <2>2, <3>3, <1>7
    <3> QED
      BY <3>2, <3>4
  <2>3. CASE a = NewElement
    BY <2>3
  <2> QED
    BY <2>1, <2>2, <2>3
<1> QED
  BY <1>6, <1>7, <1>8, <1>9, <1>10, <1>11 DEF GrownArray, h, elements, added

(* A node behind the last element of an array, whether the elements move   *)
(* or not.                                                                 *)
LEMMA ElementPlaces ==
  ASSUME IInv, TopIs("array"), NEW node, \A n \in Nat : NodeOK(node, n),
         NEW moved \in MayMove
  PROVE  Placed(WithElement(node, moved), NewElement, NewElement, node)
<1> DEFINE h == WithElement(node, moved)
           elements == AfterEmplaceBack(moved)
           gone == IF moved THEN Children(heap[Top]) ELSE {}
           added == {elements[k] : k \in DOMAIN elements}
           n == Len(Elements)
<1>1. /\ Depth \in Nat /\ Depth > 0 /\ Top = node_stack[Depth] /\ Depth \in 1 .. Depth
      /\ Top \in DOMAIN heap /\ heap[Top].kind = "array"
      /\ last \in Nat /\ DOMAIN heap \subseteq 1 .. last /\ Top \in 1 .. last
  BY StackFacts DEF IInv, TypeOK, TopIs
<1>2. /\ Elements \in Seq(1 .. last) /\ n \in Nat /\ DOMAIN Elements = 1 .. n
      /\ \A k \in 1 .. n : Elements[k] \in 1 .. last
  <2>1. Elements \in Seq(1 .. last)
    BY <1>1 DEF IInv, TypeOK, NodeOK, IsDict, Elements
  <2> QED
    BY <2>1, SeqFacts
<1>3. Children(heap[Top]) = {Elements[k] : k \in 1 .. n}
  BY <1>1, <1>2 DEF Children, Elements
<1>4. Children(heap[Top]) \subseteq DOMAIN heap
  BY <1>1 DEF IInv, OpenAndWhole, Open
<1>5. NewElement = last + n + 1 /\ NewElement \in Nat /\ NewElement > last
  BY <1>1, <1>2 DEF NewElement
<1> HIDE DEF h, elements, gone, added
<1>g. GrownArray(h, elements, gone, moved, node)
  BY ElementNodes DEF h, elements, gone
<1>6. /\ elements \in Seq(1 .. NewElement) /\ Len(elements) = n + 1
      /\ DOMAIN elements = 1 .. n + 1
      /\ elements[n + 1] = NewElement
      /\ ~ moved => \A k \in 1 .. n : elements[k] = Elements[k]
      /\ moved => \A k \in 1 .. n : elements[k] = last + k
  BY <1>g DEF GrownArray
<1>7. DOMAIN h = ((DOMAIN heap) \ gone) \cup added
  BY <1>g DEF GrownArray, added
<1>9. /\ Top \in DOMAIN h /\ NewElement \in DOMAIN h
      /\ h[Top] = [kind |-> "array", elements |-> elements] /\ h[NewElement] = node
  BY <1>g DEF GrownArray
<1>10. \A a \in (DOMAIN heap) \ gone : a \in DOMAIN h /\ (a # Top => h[a] = heap[a])
  BY <1>g DEF GrownArray
<1>11. \A a \in DOMAIN h :
         \/ a = Top
         \/ a = NewElement
         \/ a \in DOMAIN heap /\ h[a] = heap[a]
         \/ \E k \in 1 .. n : a = last + k /\ h[a] = heap[Elements[k]]
  BY <1>g DEF GrownArray
<1>12. Tidy(h, NewElement)
  <2>1. DOMAIN h \subseteq 1 .. NewElement
    BY <1>1, <1>2, <1>5, <1>11
  <2>2. \A a \in DOMAIN heap : NodeOK(heap[a], NewElement)
    <3>1. \A a \in DOMAIN heap : NodeOK(heap[a], last)
      BY DEF IInv, TypeOK
    <3>2. last \in Nat /\ NewElement \in Nat /\ last <= NewElement
      BY <1>1, <1>5
    <3> QED
      BY <3>1, <3>2, BoundGrows
  <2>3. NodeOK(h[Top], NewElement) /\ NodeOK(h[NewElement], NewElement)
    BY <1>5, <1>6, <1>9 DEF NodeOK, IsArray
  <2>4. \A k \in 1 .. n : Elements[k] \in DOMAIN heap
    BY <1>3, <1>4
  <2>5. \A a \in DOMAIN h : NodeOK(h[a], NewElement)
    BY <1>11, <2>2, <2>3, <2>4
  <2> QED
    BY <2>1, <2>5, <1>1, <1>5 DEF Tidy
<1>13. OthersStay(h)
  <2> SUFFICES ASSUME NEW i \in 1 .. Depth - 1
               PROVE  /\ node_stack[i] \in DOMAIN h
                      /\ h[node_stack[i]] = Open(i)
                      /\ Children(Open(i)) \subseteq DOMAIN h
    BY DEF OthersStay
  <2>1. node_stack[i] \in DOMAIN heap /\ Children(Open(i)) \subseteq DOMAIN heap
    BY <1>1 DEF IInv, OpenAndWhole
  <2>2. /\ node_stack[i] # Top /\ node_stack[i] \notin gone
        /\ \A d \in Children(Open(i)) : d \notin gone
    BY OthersOlder DEF gone
  <2> QED
    BY <1>10, <2>1, <2>2 DEF Open
<1>14. TopGrows(h)
  <2>1. Children(h[Top]) = {elements[k] : k \in 1 .. n + 1}
    BY <1>6, <1>9 DEF Children
  <2>2. \A k \in 1 .. n + 1 : elements[k] \in DOMAIN h
    BY <1>6, <1>7 DEF added
  <2>3. \A k \in 1 .. n + 1 : elements[k] \in Children(heap[Top]) \/ elements[k] > last
    <3>1. elements[n + 1] > last
      BY <1>5, <1>6
    <3>2. ASSUME NEW k \in 1 .. n
          PROVE  elements[k] \in Children(heap[Top]) \/ elements[k] > last
      <4>1. CASE moved
        BY <4>1, <1>1, <1>2, <1>6
      <4>2. CASE ~ moved
        BY <4>2, <1>3, <1>6
      <4> QED
        BY <4>1, <4>2
    <3>3. \A k \in 1 .. n + 1 : k \in 1 .. n \/ k = n + 1
      BY <1>2
    <3> QED
      BY <3>1, <3>2, <3>3
  <2> QED
    BY <1>1, <1>9, <2>1, <2>2, <2>3 DEF TopGrows
<1>15. Holds(h, NewElement, node)
  BY <1>1, <1>2, <1>6, <1>9 DEF Holds
<1> QED
  BY <1>12, <1>13, <1>14, <1>15 DEF Placed, h

(* A dictionary that has taken a node at a key.                            *)
GrownDict(h, members, k, at, node) ==
  /\ at = last + 1 \/ at \in Children(heap[Top])
  /\ at \in 1 .. last + 1 /\ at # Top
  /\ DOMAIN h = DOMAIN heap \cup {at}
  /\ h[Top] = [kind |-> "dict", members |-> members]
  /\ h[at] = node
  /\ \A a \in DOMAIN heap : a # Top /\ a # at => h[a] = heap[a]
  /\ members \in [DOMAIN Members \cup {k} -> 1 .. last + 1] /\ members[k] = at
  /\ \A m \in DOMAIN Members : m # k => members[m] = Members[m]

(* What the assignment to a key leaves behind, whether the key was there   *)
(* or not.                                                                 *)
LEMMA MemberNodes ==
  ASSUME IInv, TopIs("dict"), NEW k \in Keys, NEW node
  PROVE  GrownDict(WithMember(k, node),
                   [m \in DOMAIN Members \cup {k} |->
                      IF m = k THEN MemberAddress(k) ELSE Members[m]],
                   k, MemberAddress(k), node)
<1> DEFINE h == WithMember(k, node)
           at == MemberAddress(k)
           members == [m \in DOMAIN Members \cup {k} |->
                         IF m = k THEN at ELSE Members[m]]
<1>1. /\ Depth \in Nat /\ Depth > 0 /\ Top = node_stack[Depth] /\ Depth \in 1 .. Depth
      /\ Top \in DOMAIN heap /\ heap[Top].kind = "dict"
      /\ last \in Nat /\ DOMAIN heap \subseteq 1 .. last /\ Top \in 1 .. last
  BY StackFacts DEF IInv, TypeOK, TopIs
<1>2. /\ DOMAIN Members \subseteq Keys
      /\ Members \in [DOMAIN Members -> 1 .. last]
  BY <1>1 DEF IInv, TypeOK, NodeOK, IsArray, Members
<1>3. Children(heap[Top]) = {Members[m] : m \in DOMAIN Members}
  BY <1>1 DEF Children, Members
<1>4. Children(heap[Top]) \subseteq DOMAIN heap /\ \A c \in Children(heap[Top]) : c > Top
  BY <1>1 DEF IInv, OpenAndWhole, Newer, Open
<1>5. at = last + 1 \/ at \in Children(heap[Top])
  BY <1>3 DEF MemberAddress
<1>6. at \in 1 .. last + 1 /\ at # Top
  BY <1>1, <1>4, <1>5
<1>7. /\ DOMAIN h = DOMAIN heap \cup {at}
      /\ h[Top] = [kind |-> "dict", members |-> members]
      /\ h[at] = node
      /\ \A a \in DOMAIN heap : a # Top /\ a # at => h[a] = heap[a]
  BY <1>1, <1>6 DEF WithMember
<1>8. /\ members \in [DOMAIN Members \cup {k} -> 1 .. last + 1] /\ members[k] = at
      /\ \A m \in DOMAIN Members : m # k => members[m] = Members[m]
  BY <1>1, <1>2, <1>6
<1> QED
  BY <1>5, <1>6, <1>7, <1>8 DEF GrownDict

(* A node at a key of a dictionary, whether the key is there or not.       *)
LEMMA MemberPlaces ==
  ASSUME IInv, TopIs("dict"), NEW k \in Keys, NEW node,
         \A n \in Nat : NodeOK(node, n)
  PROVE  Placed(WithMember(k, node), last + 1, MemberAddress(k), node)
<1> DEFINE h == WithMember(k, node)
           at == MemberAddress(k)
           members == [m \in DOMAIN Members \cup {k} |->
                         IF m = k THEN at ELSE Members[m]]
<1>1. /\ Depth \in Nat /\ Depth > 0 /\ Top = node_stack[Depth] /\ Depth \in 1 .. Depth
      /\ Top \in DOMAIN heap /\ heap[Top].kind = "dict"
      /\ last \in Nat /\ DOMAIN heap \subseteq 1 .. last /\ Top \in 1 .. last
  BY StackFacts DEF IInv, TypeOK, TopIs
<1>2. /\ DOMAIN Members \subseteq Keys
      /\ Members \in [DOMAIN Members -> 1 .. last]
  BY <1>1 DEF IInv, TypeOK, NodeOK, IsArray, Members
<1>3. Children(heap[Top]) = {Members[m] : m \in DOMAIN Members}
  BY <1>1 DEF Children, Members
<1>4. Children(heap[Top]) \subseteq DOMAIN heap /\ \A c \in Children(heap[Top]) : c > Top
  BY <1>1 DEF IInv, OpenAndWhole, Newer, Open
<1> HIDE DEF h, members, at
<1>g. GrownDict(h, members, k, at, node)
  BY MemberNodes DEF h, members, at
<1>5. at = last + 1 \/ at \in Children(heap[Top])
  BY <1>g DEF GrownDict
<1>6. at \in 1 .. last + 1 /\ at # Top
  BY <1>g DEF GrownDict
<1>7. /\ DOMAIN h = DOMAIN heap \cup {at}
      /\ h[Top] = [kind |-> "dict", members |-> members]
      /\ h[at] = node
      /\ \A a \in DOMAIN heap : a # Top /\ a # at => h[a] = heap[a]
  BY <1>g DEF GrownDict
<1>8. /\ members \in [DOMAIN Members \cup {k} -> 1 .. last + 1] /\ members[k] = at
      /\ \A m \in DOMAIN Members : m # k => members[m] = Members[m]
  BY <1>g DEF GrownDict
<1>9. Tidy(h, last + 1)
  <2>1. \A a \in DOMAIN heap : NodeOK(heap[a], last + 1)
    BY <1>1, BoundGrows DEF IInv, TypeOK
  <2>2. NodeOK(h[Top], last + 1)
    BY <1>2, <1>7, <1>8 DEF NodeOK, IsDict
  <2>3. NodeOK(h[at], last + 1)
    BY <1>1, <1>7
  <2> QED
    BY <1>1, <1>6, <1>7, <2>1, <2>2, <2>3 DEF Tidy
<1>10. OthersStay(h)
  <2> SUFFICES ASSUME NEW i \in 1 .. Depth - 1
               PROVE  /\ node_stack[i] \in DOMAIN h
                      /\ h[node_stack[i]] = Open(i)
                      /\ Children(Open(i)) \subseteq DOMAIN h
    BY DEF OthersStay
  <2>1. node_stack[i] \in DOMAIN heap /\ Children(Open(i)) \subseteq DOMAIN heap
    BY <1>1 DEF IInv, OpenAndWhole
  <2>2. node_stack[i] # Top /\ node_stack[i] # at
    BY <1>1, <1>5, <2>1, OthersOlder
  <2> QED
    BY <1>7, <2>1, <2>2 DEF Open
<1>11. TopGrows(h)
  <2>1. Children(h[Top]) = {members[m] : m \in DOMAIN Members \cup {k}}
    BY <1>7, <1>8 DEF Children
  <2>2. \A m \in DOMAIN Members \cup {k} :
          members[m] \in Children(heap[Top]) \/ members[m] = at
    BY <1>3, <1>8
  <2> QED
    BY <1>1, <1>4, <1>5, <1>7, <2>1, <2>2 DEF TopGrows
<1>12. Holds(h, at, node)
  BY <1>1, <1>7, <1>8 DEF Holds
<1> QED
  BY <1>9, <1>10, <1>11, <1>12 DEF Placed, h, at

(* What ValueLogic and the Start functions do to memory.                   *)
LEMMA NodePlaced ==
  ASSUME IInv, NEW node, \A n \in Nat : NodeOK(node, n),
         NEW moved \in MayMove, PlaceNode(node, moved)
  PROVE  Placed(heap', last', Slot, node)
<1>1. CASE Depth = 0
  BY <1>1, StorePlaces DEF PlaceNode, Slot, TopIs
<1>2. CASE TopIs("array")
  BY <1>2, StackFacts, ElementPlaces DEF PlaceNode, Slot, TopIs
<1>3. CASE TopIs("dict")
  <2>1. ~ TopIs("array") /\ Depth # 0 /\ key \in Keys
    BY <1>3, StackFacts DEF TopIs, IInv, TypeOK
  <2>2. Placed(WithMember(key, node), last + 1, MemberAddress(key), node)
    BY <1>3, <2>1, MemberPlaces
  <2> QED
    BY <2>1, <2>2 DEF PlaceNode, Slot
<1> QED
  <2>1. Depth \in Nat
    BY StackFacts
  <2>2. Depth > 0 => heap[Top].kind \in {"array", "dict"}
    <3>1. Depth > 0 => Depth \in 1 .. Depth
      BY <2>1
    <3> QED
      BY <3>1 DEF IInv, OpenAndWhole, Open, Top
  <2> QED
    BY <1>1, <1>2, <1>3, <2>1, <2>2 DEF TopIs

-----------------------------------------------------------------------------
(* The stack.                                                              *)

(* Growing the innermost container.                                        *)
LEMMA StayKeeps ==
  ASSUME IInv, Tidy(heap', last'), OthersStay(heap'), TopGrows(heap'),
         UNCHANGED node_stack, Depth > 0 => root_ptr' = root_ptr
  PROVE  NoDanglingPointer' /\ OpenAndWhole' /\ Newer'
<1>1. /\ Depth \in Nat /\ Depth' = Depth /\ last \in Nat
      /\ \A i \in 1 .. Depth : node_stack[i] \in 1 .. last
      /\ \A i \in 1 .. Depth : i = Depth \/ i \in 1 .. Depth - 1
      /\ \A i \in 1 .. Depth - 1 : i \in 1 .. Depth
  BY StackFacts DEF Depth, IInv, TypeOK
<1>2. \A i \in 1 .. Depth - 1 :
        /\ node_stack[i] \in DOMAIN heap'
        /\ heap'[node_stack[i]] = heap[node_stack[i]]
        /\ Children(heap[node_stack[i]]) \subseteq DOMAIN heap'
  BY DEF OthersStay, Open
<1>3. Depth > 0 =>
        /\ node_stack[Depth] \in DOMAIN heap'
        /\ heap'[node_stack[Depth]].kind = heap[node_stack[Depth]].kind
        /\ Children(heap'[node_stack[Depth]]) \subseteq DOMAIN heap'
        /\ \A c \in Children(heap'[node_stack[Depth]]) :
              c \in Children(heap[node_stack[Depth]]) \/ c > last
  BY DEF TopGrows, Top
<1>4. OpenAndWhole'
  <2>1. \A i \in 1 .. Depth : heap[node_stack[i]].kind \in {"array", "dict"}
    BY DEF IInv, OpenAndWhole, Open
  <2> QED
    BY <1>1, <1>2, <1>3, <2>1 DEF OpenAndWhole, Open
<1>5. NoDanglingPointer'
  <2>1. \A i \in 1 .. Depth - 1 :
          \/ IsLastElement(node_stack[i + 1], node_stack[i])
          \/ IsMember(node_stack[i + 1], node_stack[i])
    BY DEF IInv, NoDanglingPointer
  <2>2. \A i \in 1 .. Depth - 1 :
          \/ IsLastElement(node_stack[i + 1], node_stack[i])'
          \/ IsMember(node_stack[i + 1], node_stack[i])'
    BY <1>2, <2>1 DEF IsLastElement, IsMember
  <2>3. Depth > 0 => root_ptr' = node_stack[1]
    BY DEF IInv, NoDanglingPointer
  <2> QED
    BY <1>1, <1>4, <2>2, <2>3 DEF NoDanglingPointer, OpenAndWhole, Open
<1>6. Newer'
  <2> SUFFICES ASSUME NEW i \in 1 .. Depth, NEW c \in Children(heap'[node_stack[i]])
               PROVE  /\ c > node_stack[i]
                      /\ \A j \in 1 .. i - 1 :
                           /\ c > node_stack[j]
                           /\ \A d \in Children(heap'[node_stack[j]]) : c > d
    BY <1>1 DEF Newer, Open
  <2>1. \A j \in 1 .. i - 1 :
          j \in 1 .. Depth /\ heap'[node_stack[j]] = heap[node_stack[j]]
    BY <1>1, <1>2
  <2>2. CASE c \in Children(heap[node_stack[i]])
    BY <2>1, <2>2 DEF IInv, Newer, Open
  <2>3. CASE c > last /\ c \in DOMAIN heap'
    <3>1. c \in Nat
      BY <2>3 DEF Tidy
    <3>2. \A j \in 1 .. Depth : Children(heap[node_stack[j]]) \subseteq 1 .. last
      BY ChildrenAreAddresses DEF IInv, OpenAndWhole
    <3>3. \A j \in 1 .. i - 1 : \A d \in Children(heap'[node_stack[j]]) : d \in 1 .. last
      BY <2>1, <3>2
    <3> QED
      BY <1>1, <2>1, <2>3, <3>1, <3>3
  <2> QED
    BY <1>1, <1>2, <1>3, <2>2, <2>3
<1> QED
  BY <1>4, <1>5, <1>6

Contains(h, parent, child) ==
  \/ /\ h[parent].kind = "array" /\ Len(h[parent].elements) > 0
     /\ h[parent].elements[Len(h[parent].elements)] = child
  \/ /\ h[parent].kind = "dict"
     /\ \E k \in DOMAIN h[parent].members : h[parent].members[k] = child

(* Opening a container inside the innermost one.                           *)
LEMMA PushKeeps ==
  ASSUME IInv, NEW node, Placed(heap', last', Slot, node),
         node.kind \in {"array", "dict"}, Children(node) = {},
         node_stack' = Append(node_stack, Slot),
         root_ptr' = IF Depth = 0 THEN Slot ELSE root_ptr
  PROVE  NoDanglingPointer' /\ OpenAndWhole' /\ Newer'
<1>1. /\ Depth \in Nat /\ Depth' = Depth + 1 /\ last \in Nat
      /\ \A i \in 1 .. Depth : node_stack[i] \in 1 .. last
      /\ \A i \in 1 .. Depth : node_stack'[i] = node_stack[i]
      /\ node_stack'[Depth + 1] = Slot
  BY StackFacts DEF Depth, IInv, TypeOK
<1>2. /\ \A i \in 1 .. Depth + 1 : i \in 1 .. Depth \/ i = Depth + 1
      /\ \A i \in 1 .. Depth : i \in 1 .. Depth - 1 \/ i = Depth
      /\ \A i \in 1 .. Depth - 1 : i \in 1 .. Depth /\ i + 1 \in 1 .. Depth
  BY <1>1
<1>3. /\ Tidy(heap', last') /\ OthersStay(heap') /\ TopGrows(heap')
      /\ Holds(heap', Slot, node)
  BY DEF Placed
<1>4. \A i \in 1 .. Depth - 1 :
        /\ node_stack[i] \in DOMAIN heap'
        /\ heap'[node_stack[i]] = heap[node_stack[i]]
        /\ Children(heap[node_stack[i]]) \subseteq DOMAIN heap'
  BY <1>3 DEF OthersStay, Open
<1>5. Depth > 0 =>
        /\ node_stack[Depth] \in DOMAIN heap'
        /\ heap'[node_stack[Depth]].kind = heap[node_stack[Depth]].kind
        /\ Children(heap'[node_stack[Depth]]) \subseteq DOMAIN heap'
        /\ \A c \in Children(heap'[node_stack[Depth]]) :
              c \in Children(heap[node_stack[Depth]]) \/ c > last
  BY <1>3 DEF TopGrows, Top
<1>6. Slot \in DOMAIN heap' /\ heap'[Slot] = node
  BY <1>3 DEF Holds
<1>7. OpenAndWhole'
  <2>1. \A i \in 1 .. Depth : heap[node_stack[i]].kind \in {"array", "dict"}
    BY DEF IInv, OpenAndWhole, Open
  <2>2. \A i \in 1 .. Depth :
          /\ node_stack[i] \in DOMAIN heap'
          /\ heap'[node_stack[i]].kind \in {"array", "dict"}
          /\ Children(heap'[node_stack[i]]) \subseteq DOMAIN heap'
    BY <1>2, <1>4, <1>5, <2>1
  <2> QED
    BY <1>1, <1>2, <1>6, <2>2 DEF OpenAndWhole, Open
<1>8. NoDanglingPointer'
  <2>1. \A i \in 1 .. Depth - 1 : Contains(heap', node_stack'[i], node_stack'[i + 1])
    <3>1. \A i \in 1 .. Depth - 1 : Contains(heap, node_stack[i], node_stack[i + 1])
      BY DEF IInv, NoDanglingPointer, IsLastElement, IsMember, Contains
    <3>2. \A i \in 1 .. Depth - 1 :
            node_stack'[i] = node_stack[i] /\ node_stack'[i + 1] = node_stack[i + 1]
      BY <1>1, <1>2
    <3>3. \A i \in 1 .. Depth - 1 : Contains(heap', node_stack[i], node_stack[i + 1])
      BY <1>4, <3>1 DEF Contains
    <3> QED
      BY <3>2, <3>3
  <2>2. Depth > 0 => Contains(heap', node_stack'[Depth], node_stack'[Depth + 1])
    <3> SUFFICES ASSUME Depth > 0
                 PROVE  Contains(heap', Top, Slot)
      <4> HIDE DEF Depth
      <4>1. Depth > 0 => Depth \in 1 .. Depth
        BY <1>1
      <4>2. Depth > 0 => node_stack'[Depth] = Top
        BY <1>1, <4>1 DEF Top
      <4> QED
        BY <1>1, <4>2
    <3>1. heap[Top].kind \in {"array", "dict"} /\ heap'[Top].kind = heap[Top].kind
      <4>1. Depth \in 1 .. Depth
        BY <1>1
      <4> QED
        BY <1>5, <4>1 DEF IInv, OpenAndWhole, Open, Top
    <3> QED
      BY <1>3, <3>1 DEF Holds, Contains
  <2>3. \A i \in 1 .. Depth' - 1 : \/ IsLastElement(node_stack[i + 1], node_stack[i])'
                                  \/ IsMember(node_stack[i + 1], node_stack[i])'
    <3>1. \A i \in 1 .. Depth' - 1 : Contains(heap', node_stack'[i], node_stack'[i + 1])
      <4>1. \A i \in 1 .. Depth' - 1 : i \in 1 .. Depth - 1 \/ (i = Depth /\ Depth > 0)
        BY <1>1
      <4> QED
        BY <4>1, <2>1, <2>2
    <3> QED
      BY <3>1 DEF Contains, IsLastElement, IsMember
  <2>4. root_ptr' = node_stack'[1]
    <3>1. CASE Depth = 0
      BY <3>1, <1>1
    <3>2. CASE Depth > 0
      BY <3>2, <1>1 DEF IInv, NoDanglingPointer
    <3> QED
      BY <1>1, <3>1, <3>2
  <2> QED
    BY <1>7, <2>3, <2>4 DEF NoDanglingPointer, OpenAndWhole, Open
<1>9. Newer'
  <2>1. \A i \in 1 .. Depth : Children(heap[node_stack[i]]) \subseteq 1 .. last
    BY ChildrenAreAddresses DEF IInv, OpenAndWhole
  <2>2. \A i \in 1 .. Depth : \A c \in Children(heap'[node_stack[i]]) :
          /\ c > node_stack[i]
          /\ \A j \in 1 .. i - 1 :
               /\ c > node_stack[j]
               /\ \A d \in Children(heap'[node_stack[j]]) : c > d
    <3> SUFFICES ASSUME NEW i \in 1 .. Depth, NEW c \in Children(heap'[node_stack[i]])
                 PROVE  /\ c > node_stack[i]
                        /\ \A j \in 1 .. i - 1 :
                             /\ c > node_stack[j]
                             /\ \A d \in Children(heap'[node_stack[j]]) : c > d
      OBVIOUS
    <3>1. \A j \in 1 .. i - 1 :
            j \in 1 .. Depth /\ heap'[node_stack[j]] = heap[node_stack[j]]
      BY <1>1, <1>4
    <3>2. CASE c \in Children(heap[node_stack[i]])
      BY <3>1, <3>2 DEF IInv, Newer, Open
    <3>3. CASE c > last /\ c \in DOMAIN heap'
      <4>1. c \in Nat
        BY <3>3, <1>3 DEF Tidy
      <4>2. \A j \in 1 .. i - 1 : \A d \in Children(heap'[node_stack[j]]) : d \in 1 .. last
        BY <3>1, <2>1
      <4>3. \A n \in 1 .. last : c > n
        BY <1>1, <3>3, <4>1
      <4>4. node_stack[i] \in 1 .. last /\ \A j \in 1 .. i - 1 : node_stack[j] \in 1 .. last
        BY <1>1, <3>1
      <4> QED
        BY <4>2, <4>3, <4>4
    <3>4. c \in Children(heap[node_stack[i]]) \/ (c > last /\ c \in DOMAIN heap')
      BY <1>1, <1>4, <1>5
    <3> QED
      BY <3>2, <3>3, <3>4
  <2>3. Children(heap'[Slot]) = {}
    BY <1>6
  <2>4. \A i \in 1 .. Depth' : \A c \in Children(heap'[node_stack'[i]]) :
          i \in 1 .. Depth /\ node_stack'[i] = node_stack[i]
            /\ \A j \in 1 .. i - 1 : node_stack'[j] = node_stack[j]
    <3> SUFFICES ASSUME NEW i \in 1 .. Depth', NEW c \in Children(heap'[node_stack'[i]])
                 PROVE  i \in 1 .. Depth /\ node_stack'[i] = node_stack[i]
                          /\ \A j \in 1 .. i - 1 : node_stack'[j] = node_stack[j]
      OBVIOUS
    <3>1. i # Depth + 1
      BY <1>1, <2>3
    <3>2. i \in 1 .. Depth /\ \A j \in 1 .. i - 1 : j \in 1 .. Depth
      BY <1>1, <3>1
    <3> QED
      BY <1>1, <3>2
  <2>5. ASSUME NEW i \in 1 .. Depth', NEW c \in Children(heap'[node_stack'[i]])
        PROVE  /\ i \in 1 .. Depth /\ node_stack'[i] = node_stack[i]
               /\ c \in Children(heap'[node_stack[i]])
               /\ \A j \in 1 .. i - 1 : node_stack'[j] = node_stack[j]
    BY <2>4
  <2>6. \A i \in 1 .. Depth' : \A c \in Children(heap'[node_stack'[i]]) :
          /\ c > node_stack'[i]
          /\ \A j \in 1 .. i - 1 :
               /\ c > node_stack'[j]
               /\ \A d \in Children(heap'[node_stack'[j]]) : c > d
    <3> SUFFICES ASSUME NEW i \in 1 .. Depth', NEW c \in Children(heap'[node_stack'[i]])
                 PROVE  /\ c > node_stack'[i]
                        /\ \A j \in 1 .. i - 1 :
                             /\ c > node_stack'[j]
                             /\ \A d \in Children(heap'[node_stack'[j]]) : c > d
      OBVIOUS
    <3>1. /\ i \in 1 .. Depth /\ node_stack'[i] = node_stack[i]
          /\ c \in Children(heap'[node_stack[i]])
          /\ \A j \in 1 .. i - 1 : node_stack'[j] = node_stack[j]
      BY <2>5
    <3> QED
      BY <2>2, <3>1
  <2> QED
    BY <2>6 DEF Newer, Open
<1> QED
  BY <1>7, <1>8, <1>9

(* The stack without its top.                                              *)
LEMMA FrontFacts ==
  ASSUME NEW S, NEW s \in Seq(S), Len(s) > 0
  PROVE  /\ SubSeq(s, 1, Len(s) - 1) \in Seq(S)
         /\ Len(SubSeq(s, 1, Len(s) - 1)) = Len(s) - 1
         /\ \A i \in 1 .. Len(s) - 1 : SubSeq(s, 1, Len(s) - 1)[i] = s[i]
<1>1. /\ 1 \in Int /\ Len(s) - 1 \in Int /\ Len(s) \in Nat
      /\ \A i \in 1 .. Len(s) - 1 : s[i] \in S
  OBVIOUS
<1>2. /\ SubSeq(s, 1, Len(s) - 1) \in Seq(S)
      /\ Len(SubSeq(s, 1, Len(s) - 1)) =
           IF 1 <= Len(s) - 1 THEN (Len(s) - 1) - 1 + 1 ELSE 0
      /\ \A i \in 1 .. (Len(s) - 1) - 1 + 1 : SubSeq(s, 1, Len(s) - 1)[i] = s[1 + i - 1]
  BY <1>1, SubSeqProperties
<1>3. /\ (Len(s) - 1) - 1 + 1 = Len(s) - 1
      /\ \A i \in 1 .. Len(s) - 1 : 1 + i - 1 = i
  BY <1>1
<1>4. \A i \in 1 .. Len(s) - 1 : SubSeq(s, 1, Len(s) - 1)[i] = s[i]
  BY <1>2, <1>3
<1>5. CASE Len(s) = 1
  <2>1. ~ (1 <= Len(s) - 1) /\ Len(s) - 1 = 0
    BY <1>5
  <2> QED
    BY <1>2, <1>4, <2>1, Zenon
<1>6. CASE Len(s) > 1
  <2>1. 1 <= Len(s) - 1 /\ (Len(s) - 1) - 1 + 1 = Len(s) - 1
    BY <1>1, <1>6
  <2> QED
    BY <1>2, <1>4, <2>1, Zenon
<1>7. Len(s) = 1 \/ Len(s) > 1
  <2>1. \A n \in Nat : n > 0 => n = 1 \/ n > 1
    OBVIOUS
  <2> QED
    BY <1>1, <2>1, Zenon
<1> QED
  BY <1>5, <1>6, <1>7, Zenon

(* Closing the innermost container.                                        *)
LEMMA PopKeeps ==
  ASSUME IInv, Depth > 0, node_stack' = Popped, UNCHANGED <<heap, root_ptr>>
  PROVE  NoDanglingPointer' /\ OpenAndWhole' /\ Newer'
<1>1. /\ Depth \in Nat /\ Depth' = Depth - 1
      /\ \A i \in 1 .. Depth' : node_stack'[i] = node_stack[i] /\ i \in 1 .. Depth
  <2>1. node_stack \in Seq(1 .. last) /\ Len(node_stack) \in Nat /\ Len(node_stack) > 0
    BY StackFacts DEF Depth, IInv, TypeOK
  <2>2. /\ Len(SubSeq(node_stack, 1, Len(node_stack) - 1)) = Len(node_stack) - 1
        /\ \A i \in 1 .. Len(node_stack) - 1 :
             SubSeq(node_stack, 1, Len(node_stack) - 1)[i] = node_stack[i]
    BY <2>1, FrontFacts
  <2> QED
    BY <2>1, <2>2 DEF Depth, Popped
<1>2. OpenAndWhole'
  BY <1>1 DEF IInv, OpenAndWhole, Open
<1>3. NoDanglingPointer'
  <2>1. \A i \in 1 .. Depth' - 1 :
          /\ i \in 1 .. Depth - 1
          /\ node_stack'[i] = node_stack[i] /\ node_stack'[i + 1] = node_stack[i + 1]
    BY <1>1
  <2>2. \A i \in 1 .. Depth - 1 : Contains(heap, node_stack[i], node_stack[i + 1])
    BY DEF IInv, NoDanglingPointer, IsLastElement, IsMember, Contains
  <2>3. \A i \in 1 .. Depth' - 1 : Contains(heap', node_stack'[i], node_stack'[i + 1])
    BY <2>1, <2>2
  <2>4. \A i \in 1 .. Depth' - 1 : \/ IsLastElement(node_stack[i + 1], node_stack[i])'
                                  \/ IsMember(node_stack[i + 1], node_stack[i])'
    BY <2>3 DEF Contains, IsLastElement, IsMember
  <2>5. Depth' > 0 => root_ptr' = node_stack'[1]
    BY <1>1 DEF IInv, NoDanglingPointer
  <2> QED
    BY <1>2, <2>4, <2>5 DEF NoDanglingPointer, OpenAndWhole, Open
<1>4. Newer'
  <2>1. \A i \in 1 .. Depth' : \A j \in 1 .. i - 1 : j \in 1 .. Depth'
    BY <1>1
  <2> QED
    BY <1>1, <2>1 DEF IInv, Newer, Open
<1> QED
  BY <1>2, <1>3, <1>4
-----------------------------------------------------------------------------
(* The invariant.                                                          *)

(* A new builder.                                                          *)
LEMMA InitIInv == Init => IInv
<1> SUFFICES ASSUME Init PROVE IInv
  OBVIOUS
<1>1. Depth = 0 /\ node_stack = <<>> /\ 1 .. Depth = {} /\ 1 .. Depth - 1 = {}
  BY DEF Init, Depth
<1>2. TypeOK
  <2>1. heap = [a \in {} |-> Leaf(Null)] /\ DOMAIN heap = {} /\ last = 0
    BY DEF Init
  <2>2. calls \in 0 .. MaxCalls /\ key \in Keys /\ node_stack \in Seq(1 .. last)
    BY BuilderAssumption DEF Init
  <2>3. DOMAIN heap \subseteq 1 .. last /\ \A a \in DOMAIN heap : NodeOK(heap[a], last)
    BY <2>1
  <2>4. /\ is_previous_key = FALSE /\ root_ptr = NoAddress /\ status = "ok"
        /\ phase = "building"
    BY DEF Init
  <2> QED
    BY <2>1, <2>2, <2>3, <2>4 DEF TypeOK
<1>3. NoDanglingPointer /\ OpenAndWhole /\ Newer /\ GrammarIsEnough
  BY <1>1 DEF Init, NoDanglingPointer, OpenAndWhole, Newer, GrammarIsEnough
<1> QED
  BY <1>2, <1>3 DEF IInv

(* A node that is placed: a value, or an empty container.                  *)
LEMMA NewNodes ==
  /\ \A value, n : NodeOK(Leaf(value), n)
  /\ \A n \in Nat : NodeOK(NewArray, n) /\ NodeOK(NewDict, n)
  /\ Children(NewArray) = {} /\ Children(NewDict) = {}
<1>1. \A value, n : NodeOK(Leaf(value), n)
  BY DEF NodeOK, Leaf
<1>2. \A n \in Nat : NodeOK(NewArray, n) /\ NodeOK(NewDict, n)
  BY DEF NodeOK, NewArray, NewDict, IsArray, IsDict
<1>3. Children(NewArray) = {} /\ Children(NewDict) = {}
  BY DEF Children, NewArray, NewDict
<1> QED
  BY <1>1, <1>2, <1>3

(* A key changes nothing but the dictionary at the top, if that.           *)
LEMMA KeyStep ==
  ASSUME IInv, NEW k \in Keys, KeyLogic(k)
  PROVE  IInv'
<1>1. last \in Nat /\ calls' \in 0 .. MaxCalls /\ UNCHANGED <<node_stack, root_ptr>>
  BY BuilderAssumption DEF IInv, TypeOK, KeyLogic, Call
<1>2. CASE ~ TopIs("dict")
  <2>1. UNCHANGED <<heap, last>> /\ status' \in {"threw", "undefined"} /\ phase' = "broken"
    BY <1>2 DEF KeyLogic, Judge, MayKey
  <2> QED
    BY <1>1, <1>2, <2>1
       DEF IInv, TypeOK, NoDanglingPointer, OpenAndWhole, Newer, GrammarIsEnough, KeyLogic,
           Open, Depth, IsLastElement, IsMember
<1>3. CASE TopIs("dict")
  <2>1. heap' = InsertMember(k) /\ last' = last + 1 /\ UNCHANGED status
    BY <1>3 DEF KeyLogic
  <2>2. Tidy(heap', last') /\ OthersStay(heap') /\ TopGrows(heap')
    <3>1. CASE k \in DOMAIN Members
      <4>1. heap' = heap
        BY <2>1, <3>1 DEF InsertMember
      <4>2. Tidy(heap, last + 1)
        BY <1>1, BoundGrows DEF Tidy, IInv, TypeOK
      <4>3. Depth \in Nat /\ (Depth > 0 => Top \in DOMAIN heap /\ Depth \in 1 .. Depth)
        BY StackFacts
      <4>4. OthersStay(heap)
        BY <4>3 DEF OthersStay, Open, IInv, OpenAndWhole
      <4>5. TopGrows(heap)
        BY <4>3 DEF TopGrows, Open, Top, IInv, OpenAndWhole
      <4> QED
        BY <2>1, <4>1, <4>2, <4>4, <4>5
    <3>2. CASE k \notin DOMAIN Members
      <4>1. Placed(WithMember(k, Leaf(Null)), last + 1, MemberAddress(k), Leaf(Null))
        BY <1>3, NewNodes, MemberPlaces
      <4> QED
        BY <2>1, <3>2, <4>1 DEF Placed, InsertMember
    <3> QED
      BY <3>1, <3>2
  <2>3. NoDanglingPointer' /\ OpenAndWhole' /\ Newer'
    BY <1>1, <2>2, StayKeeps
  <2>4. TypeOK'
    <3>1. node_stack \in Seq(1 .. last') /\ root_ptr \in (1 .. last') \cup {NoAddress}
      BY <1>1, <2>1 DEF IInv, TypeOK
    <3> QED
      BY <1>1, <2>1, <2>2, <3>1 DEF IInv, TypeOK, Tidy, KeyLogic, Judge
  <2>5. GrammarIsEnough'
    <3>1. TopIs("dict")'
      BY <1>1, <1>3, <2>2 DEF TopGrows, TopIs, Depth, Top
    <3> QED
      BY <1>1, <1>3, <2>1, <3>1
         DEF IInv, GrammarIsEnough, KeyLogic, Judge, MayKey, Depth, TopIs
  <2> QED
    BY <2>3, <2>4, <2>5 DEF IInv
<1> QED
  BY <1>2, <1>3

(* A value, at the top level or inside a container.                        *)
LEMMA ValueStep ==
  ASSUME IInv, NEW value \in Values, ValueLogic(value)
  PROVE  IInv'
<1>1. /\ last \in Nat /\ calls' \in 0 .. MaxCalls /\ Depth \in Nat
      /\ UNCHANGED <<node_stack, key, status>> /\ is_previous_key' = FALSE
      /\ status = "ok"
  BY BuilderAssumption, StackFacts DEF IInv, TypeOK, ValueLogic, Call
<1>2. PICK moved \in MayMove : PlaceNode(Leaf(value), moved)
  BY DEF ValueLogic
<1>3. Placed(heap', last', Slot, Leaf(value))
  BY <1>2, NewNodes, NodePlaced
<1>4. Tidy(heap', last') /\ OthersStay(heap') /\ TopGrows(heap') /\ Slot \in 1 .. last'
  BY <1>3 DEF Placed, Holds, Tidy
<1>5. root_ptr' = IF Depth = 0 THEN Slot ELSE root_ptr
  BY DEF ValueLogic
<1>6. NoDanglingPointer' /\ OpenAndWhole' /\ Newer'
  BY <1>1, <1>4, <1>5, StayKeeps
<1>7. TypeOK'
  <2>1. /\ node_stack \in Seq(1 .. last')
        /\ root_ptr' \in (1 .. last') \cup {NoAddress}
    BY <1>1, <1>4, <1>5 DEF IInv, TypeOK, Tidy
  <2>2. phase' \in {"building", "done", "broken"}
    BY DEF IInv, TypeOK, ValueLogic, Judge
  <2> QED
    BY <1>1, <1>4, <2>1, <2>2 DEF IInv, TypeOK, Tidy
<1>8. GrammarIsEnough'
  <2>1. phase' = "done" => Depth = 0
    BY <1>1 DEF ValueLogic, Judge, IInv, GrammarIsEnough
  <2> QED
    BY <1>1, <2>1 DEF GrammarIsEnough, Depth
<1> QED
  BY <1>6, <1>7, <1>8 DEF IInv

(* Opening an array or a dictionary.                                       *)
LEMMA StartStep ==
  ASSUME IInv, NEW container \in {NewArray, NewDict}, StartLogic(container)
  PROVE  IInv'
<1>1. /\ last \in Nat /\ calls' \in 0 .. MaxCalls /\ Depth \in Nat
      /\ node_stack' = Append(node_stack, Slot)
      /\ UNCHANGED <<key, root, status>> /\ is_previous_key' = FALSE
      /\ status = "ok" /\ node_stack \in Seq(1 .. last)
  BY BuilderAssumption, StackFacts DEF IInv, TypeOK, StartLogic, Call, Opened
<1>2. PICK moved \in MayMove : PlaceNode(container, moved)
  BY DEF StartLogic
<1>3. /\ \A n \in Nat : NodeOK(container, n)
      /\ Children(container) = {} /\ container.kind \in {"array", "dict"}
  BY NewNodes DEF NewArray, NewDict
<1>4. Placed(heap', last', Slot, container)
  BY <1>2, <1>3, NodePlaced
<1>5. Tidy(heap', last') /\ Slot \in 1 .. last'
  BY <1>4 DEF Placed, Holds, Tidy
<1>6. root_ptr' = IF Depth = 0 THEN Slot ELSE root_ptr
  BY DEF StartLogic, Opened
<1>7. NoDanglingPointer' /\ OpenAndWhole' /\ Newer'
  BY <1>1, <1>3, <1>4, <1>6, PushKeeps
<1>8. TypeOK'
  <2>1. /\ node_stack' \in Seq(1 .. last')
        /\ root_ptr' \in (1 .. last') \cup {NoAddress}
    <3>1. node_stack \in Seq(1 .. last')
      BY <1>1, <1>5 DEF Tidy
    <3>2. root_ptr \in (1 .. last') \cup {NoAddress}
      BY <1>1, <1>5 DEF IInv, TypeOK, Tidy
    <3> QED
      BY <1>1, <1>5, <1>6, <3>1, <3>2
  <2>2. phase' \in {"building", "done", "broken"}
    BY DEF IInv, TypeOK, StartLogic, Judge
  <2> QED
    BY <1>1, <1>5, <2>1, <2>2 DEF IInv, TypeOK, Tidy
<1>9. GrammarIsEnough'
  <2>1. phase' # "done"
    BY <1>1 DEF StartLogic, Judge, IInv, GrammarIsEnough, MayValue, TopIs
  <2> QED
    BY <1>1, <2>1 DEF GrammarIsEnough
<1> QED
  BY <1>7, <1>8, <1>9 DEF IInv

(* Closing a container, or closing when none is open.                      *)
LEMMA EndStep ==
  ASSUME IInv, NEW kind \in {"array", "dict"}, EndLogic(kind)
  PROVE  IInv'
<1>1. /\ last \in Nat /\ calls' \in 0 .. MaxCalls /\ Depth \in Nat
      /\ UNCHANGED <<heap, last, key, is_previous_key, root_ptr>>
      /\ status = "ok" /\ node_stack \in Seq(1 .. last)
      /\ phase' \in {"building", "done", "broken"}
  BY BuilderAssumption, StackFacts DEF IInv, TypeOK, EndLogic, Call, Judge
<1>2. CASE Depth = 0
  <2>1. /\ status' = "undefined" /\ UNCHANGED node_stack /\ phase' = "broken"
    BY <1>2 DEF EndLogic, Judge, MayEnd, TopIs
  <2> QED
    BY <1>1, <2>1
       DEF IInv, TypeOK, NoDanglingPointer, OpenAndWhole, Newer, GrammarIsEnough, Open,
           Depth, IsLastElement, IsMember
<1>3. CASE Depth > 0
  <2>1. node_stack' = Popped /\ UNCHANGED status
    BY <1>3 DEF EndLogic
  <2>2. NoDanglingPointer' /\ OpenAndWhole' /\ Newer'
    BY <1>1, <1>3, <2>1, PopKeeps
  <2>3. node_stack' \in Seq(1 .. last) /\ Depth' = Depth - 1
    BY <1>1, <1>3, <2>1, FrontFacts DEF Popped, Depth
  <2>4. TypeOK'
    BY <1>1, <2>1, <2>3 DEF IInv, TypeOK
  <2>5. GrammarIsEnough'
    <3>1. phase' # "broken" => ~ is_previous_key
      BY DEF EndLogic, Judge, MayEnd
    <3>2. phase' = "done" => Depth = 1
      BY <1>3 DEF EndLogic, Judge, IInv, GrammarIsEnough
    <3> QED
      BY <1>1, <2>1, <2>3, <3>1, <3>2 DEF GrammarIsEnough
  <2> QED
    BY <2>2, <2>4, <2>5 DEF IInv
<1> QED
  BY <1>1, <1>2, <1>3

(* Nothing changes.                                                        *)
LEMMA StutterStep ==
  ASSUME IInv, UNCHANGED vars
  PROVE  IInv'
BY DEF IInv, vars, TypeOK, NoDanglingPointer, OpenAndWhole, Newer, GrammarIsEnough, Open,
       Depth, IsLastElement, IsMember, TopIs, Top

(* Whatever is called, the inductive invariant is kept.                    *)
LEMMA NextIInv == IInv /\ [Next]_vars => IInv'
<1> SUFFICES ASSUME IInv, [Next]_vars PROVE IInv'
  OBVIOUS
<1>1. ASSUME NEW k \in Keys, KeyLogic(k) PROVE IInv'
  BY <1>1, KeyStep
<1>2. ASSUME NEW value \in Values, ValueLogic(value) PROVE IInv'
  BY <1>2, ValueStep
<1>3. CASE StartArray
  BY <1>3, StartStep DEF StartArray
<1>4. CASE StartDict
  BY <1>4, StartStep DEF StartDict
<1>5. CASE EndArray
  BY <1>5, EndStep DEF EndArray
<1>6. CASE EndDict
  BY <1>6, EndStep DEF EndDict
<1>7. CASE UNCHANGED vars
  BY <1>7, StutterStep
<1> QED
  BY <1>1, <1>2, <1>3, <1>4, <1>5, <1>6, <1>7 DEF Next

(* It holds of every builder that can be reached.                          *)
LEMMA IInvHolds == Spec => []IInv
<1>1. Init => IInv
  BY InitIInv
<1>2. IInv /\ [Next]_vars => IInv'
  BY NextIInv
<1> QED
  BY <1>1, <1>2, PTL DEF Spec

(* Memory, the stack and the members of the builder keep their types,      *)
(* whatever is called.                                                     *)
THEOREM TypeCorrect == Spec => []TypeOK
<1>1. IInv => TypeOK
  BY DEF IInv
<1> QED
  BY <1>1, IInvHolds, PTL

(* node_stack_ never holds a pointer to a container that has moved or that *)
(* was freed, for any caller and any number of calls.                      *)
THEOREM PointersStayValid == Spec => []NoDanglingPointer
<1>1. IInv => NoDanglingPointer
  BY DEF IInv
<1> QED
  BY <1>1, IInvHolds, PTL

(* A caller who keeps to the grammar of JSON meets neither an exception    *)
(* nor undefined behaviour.                                                *)
THEOREM GrammarSuffices == Spec => []GrammarIsEnough
<1>1. IInv => GrammarIsEnough
  BY DEF IInv
<1> QED
  BY <1>1, IInvHolds, PTL

-----------------------------------------------------------------------------
(* The trees of memory.  Tree is a recursive function, so it is one only   *)
(* if what a node holds is deeper than the node: for some bounded depth.   *)

LessThan == {p \in Nat \X Nat : p[1] < p[2]}

(* A set of naturals with 0 and the successor of each of its members holds *)
(* them all.                                                               *)
LEMMA SetInduction ==
  ASSUME NEW S \in SUBSET Nat, 0 \in S, \A n \in S : n + 1 \in S
  PROVE  S = Nat
<1> SUFFICES ASSUME Nat \ S # {} PROVE FALSE
  OBVIOUS
<1>1. IsWellFoundedOn(LessThan, Nat)
  BY NatLessThanWellFounded DEF OpToRel, LessThan
<1>2. PICK x \in Nat \ S : \A y \in Nat \ S : ~ (<<y, x>> \in LessThan)
  BY <1>1, WFMin
<1>3. x - 1 \in Nat /\ <<x - 1, x>> \in LessThan
  BY DEF LessThan
<1> QED
  BY <1>2, <1>3

NodeOf(node, trees) ==
  CASE node.kind = "leaf" -> node
    [] node.kind = "array" ->
         [kind |-> "array",
          elements |-> [k \in DOMAIN node.elements |-> trees[node.elements[k]]]]
    [] OTHER ->
         [kind |-> "dict",
          members |-> [k \in DOMAIN node.members |-> trees[node.members[k]]]]

Shows(h, trees) == trees = [a \in DOMAIN h |-> NodeOf(h[a], trees)]
Trees(h) == CHOOSE trees : Shows(h, trees)

Kinds(h) == \A a \in DOMAIN h : h[a].kind \in {"leaf", "array", "dict"}

Inward(h, d, M) ==
  /\ M \in Nat /\ d \in [DOMAIN h -> 0 .. M]
  /\ \A a \in DOMAIN h : /\ Children(h[a]) \subseteq DOMAIN h
                         /\ \A c \in Children(h[a]) : d[c] > d[a]

Nested(h) == Kinds(h) /\ \E M, d : Inward(h, d, M)

(* The model's Tree is a tree of memory, before and after a step.          *)
LEMMA TreeIs == \A at : Tree(at) = Trees(heap)[at]
<1> TAKE at
<1> DEFINE Body(h, tree) ==
        [a \in DOMAIN h |->
          CASE h[a].kind = "leaf" -> h[a]
            [] h[a].kind = "array" ->
                 [kind |-> "array",
                  elements |-> [k \in DOMAIN h[a].elements |-> tree[h[a].elements[k]]]]
            [] OTHER ->
                 [kind |-> "dict",
                  members |-> [k \in DOMAIN h[a].members |-> tree[h[a].members[k]]]]]
<1>1. Tree(at) = (CHOOSE tree : tree = Body(heap, tree))[at]
  BY DEF Tree
<1>2. Trees(heap) = (CHOOSE tree : tree = Body(heap, tree))
  BY DEF Trees, Shows, NodeOf
<1> HIDE DEF Body
<1> QED
  BY <1>1, <1>2

(* A node shows no more of the trees than those of its children.           *)
LEMMA SameParts ==
  ASSUME NEW node, NEW t, NEW u, node.kind \in {"leaf", "array", "dict"},
         \A c \in Children(node) : t[c] = u[c]
  PROVE  NodeOf(node, t) = NodeOf(node, u)
<1>1. CASE node.kind = "leaf"
  BY <1>1 DEF NodeOf
<1>2. CASE node.kind = "array"
  <2>1. \A k \in DOMAIN node.elements : t[node.elements[k]] = u[node.elements[k]]
    BY <1>2 DEF Children
  <2>2. [k \in DOMAIN node.elements |-> t[node.elements[k]]]
          = [k \in DOMAIN node.elements |-> u[node.elements[k]]]
    BY <2>1
  <2> QED
    BY <1>2, <2>2 DEF NodeOf
<1>3. CASE node.kind = "dict"
  <2>1. \A k \in DOMAIN node.members : t[node.members[k]] = u[node.members[k]]
    BY <1>3 DEF Children
  <2>2. [k \in DOMAIN node.members |-> t[node.members[k]]]
          = [k \in DOMAIN node.members |-> u[node.members[k]]]
    BY <2>1
  <2> QED
    BY <1>3, <2>2 DEF NodeOf
<1> QED
  BY <1>1, <1>2, <1>3

(* Trees that are right from some depth on.                                *)
RightBelow(h, d, M, n, t) ==
  \A a \in DOMAIN h : d[a] + n > M => t[a] = NodeOf(h[a], t)

(* Memory that is nested has trees: the deepest nodes are leaves, and the  *)
(* tree of a node follows from those of the deeper ones.                   *)
LEMMA TreesExist ==
  ASSUME NEW h, Nested(h)
  PROVE  Shows(h, Trees(h))
<1>1. PICK M, d : Inward(h, d, M)
  BY DEF Nested
<1>2. M \in Nat /\ \A a \in DOMAIN h : d[a] \in 0 .. M
  BY <1>1 DEF Inward
<1> DEFINE S == {n \in Nat : \E t : RightBelow(h, d, M, n, t)}
<1>3. 0 \in S
  <2>1. \A t : RightBelow(h, d, M, 0, t)
    BY <1>2 DEF RightBelow
  <2> QED
    BY <2>1
<1>4. ASSUME NEW n \in S PROVE n + 1 \in S
  <2>1. PICK t : RightBelow(h, d, M, n, t)
    BY <1>4
  <2> DEFINE u == [a \in DOMAIN h |-> NodeOf(h[a], t)]
  <2>2. ASSUME NEW a \in DOMAIN h, d[a] + (n + 1) > M PROVE u[a] = NodeOf(h[a], u)
    <3>1. \A c \in Children(h[a]) : t[c] = u[c]
      <4> TAKE c \in Children(h[a])
      <4>1. c \in DOMAIN h /\ d[c] > d[a]
        BY <1>1 DEF Inward
      <4>2. d[c] \in Nat /\ d[a] \in Nat /\ n \in Nat
        BY <1>2, <4>1
      <4>3. d[c] + n > M
        BY <1>2, <2>2, <4>1, <4>2
      <4>4. t[c] = NodeOf(h[c], t)
        BY <2>1, <4>1, <4>3 DEF RightBelow
      <4> QED
        BY <4>1, <4>4
    <3>2. h[a].kind \in {"leaf", "array", "dict"}
      BY DEF Nested, Kinds
    <3> HIDE DEF u
    <3>3. NodeOf(h[a], t) = NodeOf(h[a], u)
      BY <3>1, <3>2, SameParts
    <3> QED
      BY <3>3 DEF u
  <2> HIDE DEF u
  <2>3. RightBelow(h, d, M, n + 1, u)
    BY <2>2 DEF RightBelow
  <2> QED
    BY <2>3, <1>4
<1>5. S = Nat
  <2>1. S \in SUBSET Nat
    OBVIOUS
  <2> HIDE DEF S
  <2> QED
    BY <1>3, <1>4, <2>1, SetInduction
<1>6. PICK t : RightBelow(h, d, M, M + 1, t)
  <2>1. M + 1 \in S
    BY <1>2, <1>5
  <2> QED
    BY <2>1
<1> DEFINE u == [a \in DOMAIN h |-> t[a]]
<1>7. ASSUME NEW a \in DOMAIN h PROVE u[a] = NodeOf(h[a], u)
  <2>1. t[a] = NodeOf(h[a], t)
    <3>1. d[a] + (M + 1) > M
      BY <1>2
    <3> QED
      BY <1>6, <3>1 DEF RightBelow
  <2>2. \A c \in Children(h[a]) : t[c] = u[c]
    BY <1>1 DEF Inward
  <2>3. h[a].kind \in {"leaf", "array", "dict"}
    BY DEF Nested, Kinds
  <2>4. u[a] = t[a]
    OBVIOUS
  <2> HIDE DEF u
  <2>5. NodeOf(h[a], t) = NodeOf(h[a], u)
    BY <2>2, <2>3, SameParts
  <2> QED
    BY <2>1, <2>4, <2>5
<1>8. u = [a \in DOMAIN h |-> u[a]]
  OBVIOUS
<1> HIDE DEF u
<1>9. [a \in DOMAIN h |-> u[a]] = [a \in DOMAIN h |-> NodeOf(h[a], u)]
  BY <1>7
<1>10. Shows(h, u)
  BY <1>8, <1>9 DEF Shows
<1> QED
  BY <1>10 DEF Trees

(* So a node's tree is what the node shows of the trees.                   *)
LEMMA TreeUnfolds ==
  ASSUME NEW h, Nested(h), NEW a \in DOMAIN h
  PROVE  Trees(h)[a] = NodeOf(h[a], Trees(h))
<1>1. Trees(h) = [b \in DOMAIN h |-> NodeOf(h[b], Trees(h))]
  BY TreesExist DEF Shows
<1> QED
  BY <1>1

-----------------------------------------------------------------------------
(* Memory is a forest: no node is held twice, and nothing holds the first  *)
(* of the containers that are open.                                        *)

Owned(h) ==
  \A a, b \in DOMAIN h : \A c \in Children(h[a]) : c \in Children(h[b]) => a = b

Apart(node) ==
  /\ node.kind = "array" =>
       \A j, k \in DOMAIN node.elements : node.elements[j] = node.elements[k] => j = k
  /\ node.kind = "dict" =>
       \A j, k \in DOMAIN node.members : node.members[j] = node.members[k] => j = k

Forest(h) == Nested(h) /\ Owned(h) /\ \A a \in DOMAIN h : Apart(h[a])

RootFree(h, stack) ==
  Len(stack) > 0 => \A a \in DOMAIN h : stack[1] \notin Children(h[a])

(* The open containers, each held by the one before it.                    *)
Line(h, stack) ==
  /\ Len(stack) \in Nat
  /\ \A i \in 1 .. Len(stack) : stack[i] \in DOMAIN h
  /\ \A i, j \in 1 .. Len(stack) : stack[i] = stack[j] => i = j
  /\ \A i \in 1 .. Len(stack) - 1 : stack[i + 1] \in Children(h[stack[i]])
  /\ RootFree(h, stack)

OnStack(stack) == {stack[i] : i \in 1 .. Len(stack)}

(* An open container is held by the one around it and by nothing else.     *)
HeldInLine(h, stack) ==
  \A a \in DOMAIN h, i \in 1 .. Len(stack) :
    stack[i] \in Children(h[a])
      => i > 1 /\ i - 1 \in 1 .. Len(stack) /\ a = stack[i - 1]

LEMMA HolderOfOpen ==
  ASSUME NEW h, NEW stack, Owned(h), Line(h, stack)
  PROVE  HeldInLine(h, stack)
<1> SUFFICES ASSUME NEW a \in DOMAIN h, NEW i \in 1 .. Len(stack), stack[i] \in Children(h[a])
             PROVE  i > 1 /\ i - 1 \in 1 .. Len(stack) /\ a = stack[i - 1]
  BY DEF HeldInLine
<1>1. Len(stack) \in Nat
  BY DEF Line
<1>2. i # 1
  BY <1>1 DEF Line, RootFree
<1>3. i > 1 /\ i - 1 \in 1 .. Len(stack) - 1 /\ i - 1 \in 1 .. Len(stack) /\ (i - 1) + 1 = i
  BY <1>1, <1>2
<1>4. stack[i] \in Children(h[stack[i - 1]]) /\ stack[i - 1] \in DOMAIN h
  BY <1>3 DEF Line
<1>5. a = stack[i - 1]
  BY <1>4 DEF Owned
<1> QED
  BY <1>3, <1>5

(* Memory h has become g by a node put at the address at, and by growth of *)
(* the node at the address box, whose children may have moved: from says   *)
(* where a node of g was in h.                                             *)
Regrown(h, g, box, at, node, from) ==
  /\ at \in DOMAIN g /\ at # box /\ g[at] = node
  /\ from \in [(DOMAIN g) \ {at} -> DOMAIN h]
  /\ \A a, b \in (DOMAIN g) \ {at} : from[a] = from[b] => a = b
  /\ \A a \in (DOMAIN g) \ {at, box} : from[a] # box /\ g[a] = h[from[a]]
  /\ \A c \in DOMAIN h :
       (box \in DOMAIN h => c \notin Children(h[box]))
         => c \in DOMAIN g /\ c # at /\ from[c] = c
  /\ box \in DOMAIN g => box \in DOMAIN h
  /\ box \in DOMAIN h =>
       /\ g[box].kind = h[box].kind
       /\ Children(g[box]) \subseteq DOMAIN g
       /\ \A c \in Children(g[box]) : c # at => from[c] \in Children(h[box])

(* Nothing holds itself.                                                   *)
LEMMA NotOwnChild ==
  ASSUME NEW h, Nested(h), NEW a \in DOMAIN h
  PROVE  a \notin Children(h[a])
<1>1. PICK M, d : Inward(h, d, M)
  BY DEF Nested
<1>2. d[a] \in Nat
  BY <1>1 DEF Inward
<1> QED
  BY <1>1, <1>2 DEF Inward

(* Where the nodes of g and what they hold were.                           *)
LEMMA RegrownNodes ==
  ASSUME NEW h, NEW g, NEW box, NEW at, NEW node, NEW from,
         Forest(h), Regrown(h, g, box, at, node, from)
  PROVE  /\ box \in DOMAIN h => box \in DOMAIN g /\ from[box] = box
         /\ \A a \in (DOMAIN g) \ {at, box} :
              /\ from[a] \in DOMAIN h
              /\ \A c \in Children(g[a]) :
                   /\ c \in Children(h[from[a]]) /\ c \in DOMAIN h
                   /\ c \in DOMAIN g /\ c # at /\ from[c] = c
                   /\ box \in DOMAIN h => c \notin Children(h[box])
<1>1. box \in DOMAIN h => box \notin Children(h[box])
  BY NotOwnChild DEF Forest
<1>2. box \in DOMAIN h => box \in DOMAIN g /\ from[box] = box
  BY <1>1 DEF Regrown
<1>3. ASSUME NEW a \in (DOMAIN g) \ {at, box}
      PROVE  /\ from[a] \in DOMAIN h
             /\ \A c \in Children(g[a]) :
                  /\ c \in Children(h[from[a]]) /\ c \in DOMAIN h
                  /\ c \in DOMAIN g /\ c # at /\ from[c] = c
                  /\ box \in DOMAIN h => c \notin Children(h[box])
  <2>1. from[a] \in DOMAIN h /\ from[a] # box /\ g[a] = h[from[a]]
    BY <1>3 DEF Regrown
  <2>2. ASSUME NEW c \in Children(g[a])
        PROVE  /\ c \in Children(h[from[a]]) /\ c \in DOMAIN h
               /\ c \in DOMAIN g /\ c # at /\ from[c] = c
               /\ box \in DOMAIN h => c \notin Children(h[box])
    <3>1. c \in Children(h[from[a]])
      BY <2>1
    <3>2. c \in DOMAIN h
      BY <2>1, <3>1 DEF Forest, Nested, Inward
    <3>3. box \in DOMAIN h => c \notin Children(h[box])
      BY <2>1, <3>1 DEF Forest, Owned
    <3>4. c \in DOMAIN g /\ c # at /\ from[c] = c
      BY <3>2, <3>3 DEF Regrown
    <3> QED
      BY <3>1, <3>2, <3>3, <3>4
  <2> QED
    BY <2>1, <2>2
<1> QED
  BY <1>2, <1>3

(* It is a forest still.                                                   *)
LEMMA RegrownForest ==
  ASSUME NEW h, NEW g, NEW box, NEW at, NEW node, NEW from,
         Forest(h), Regrown(h, g, box, at, node, from),
         node.kind \in {"leaf", "array", "dict"}, Children(node) = {}, Apart(node),
         box \in DOMAIN h => Apart(g[box])
  PROVE  Forest(g)
<1> DEFINE Moved == (DOMAIN g) \ {at, box}
<1>1. /\ box \in DOMAIN h => box \in DOMAIN g /\ from[box] = box
      /\ \A a \in Moved :
           /\ from[a] \in DOMAIN h
           /\ \A c \in Children(g[a]) :
                /\ c \in Children(h[from[a]]) /\ c \in DOMAIN h
                /\ c \in DOMAIN g /\ c # at /\ from[c] = c
                /\ box \in DOMAIN h => c \notin Children(h[box])
  BY RegrownNodes
<1>2. \A a \in Moved : g[a] = h[from[a]]
  BY DEF Regrown
<1>3. g[at] = node /\ at \in DOMAIN g /\ at # box
  BY DEF Regrown
<1>4. box \in DOMAIN g =>
        /\ box \in DOMAIN h /\ g[box].kind = h[box].kind
        /\ Children(g[box]) \subseteq DOMAIN g
        /\ \A c \in Children(g[box]) : c # at => from[c] \in Children(h[box])
  BY DEF Regrown
<1> HIDE DEF Moved
<1>5. \A a \in DOMAIN g : a = at \/ a = box \/ a \in Moved
  BY DEF Moved
<1>6. Kinds(g)
  <2>1. \A a \in DOMAIN h : h[a].kind \in {"leaf", "array", "dict"}
    BY DEF Forest, Nested, Kinds
  <2>2. \A a \in DOMAIN g : g[a].kind \in {"leaf", "array", "dict"}
    BY <1>1, <1>2, <1>3, <1>4, <1>5, <2>1
  <2> QED
    BY <2>2 DEF Kinds
<1>7. \A a \in DOMAIN g : Apart(g[a])
  <2>1. \A a \in DOMAIN h : Apart(h[a])
    BY DEF Forest
  <2> QED
    BY <1>1, <1>2, <1>3, <1>4, <1>5, <2>1
<1>8. Owned(g)
  <2> SUFFICES ASSUME NEW a \in DOMAIN g, NEW b \in DOMAIN g,
                      NEW c \in Children(g[a]), c \in Children(g[b])
               PROVE  a = b
    BY DEF Owned
  <2>1. a # at /\ b # at
    BY <1>3
  <2>2. \A u, v \in DOMAIN h : \A e \in Children(h[u]) : e \in Children(h[v]) => u = v
    BY DEF Forest, Owned
  <2>3. CASE a \in Moved /\ b \in Moved
    <3>1. c \in Children(h[from[a]]) /\ c \in Children(h[from[b]])
          /\ from[a] \in DOMAIN h /\ from[b] \in DOMAIN h
      BY <1>1, <2>3
    <3>2. from[a] = from[b]
      BY <2>2, <3>1
    <3> QED
      BY <2>1, <3>2 DEF Regrown
  <2>4. ASSUME NEW x \in Moved, box \in DOMAIN g, NEW e \in Children(g[x])
        PROVE  e \notin Children(g[box])
    <3>1. e # at /\ from[e] = e /\ e \notin Children(h[box])
      BY <1>1, <1>4, <2>4
    <3> QED
      BY <1>4, <2>4, <3>1
  <2> QED
    BY <1>5, <2>1, <2>3, <2>4
<1>9. \E M, d : Inward(g, d, M)
  <2>1. PICK M, d : Inward(h, d, M)
    BY DEF Forest, Nested
  <2>2. M \in Nat /\ \A a \in DOMAIN h : d[a] \in 0 .. M
    BY <2>1 DEF Inward
  <2>3. \A a \in DOMAIN h : \A c \in Children(h[a]) : c \in DOMAIN h /\ d[c] > d[a]
    BY <2>1 DEF Inward
  <2> DEFINE e == [a \in DOMAIN g |->
                    IF a = at THEN IF box \in DOMAIN h THEN d[box] + 1 ELSE 0
                    ELSE d[from[a]]]
  <2>4. \A a \in DOMAIN g : a # at => from[a] \in DOMAIN h
    BY DEF Regrown
  <2>5. \A a \in DOMAIN g : a # at => e[a] = d[from[a]]
    OBVIOUS
  <2>6. box \in DOMAIN h => e[at] = d[box] + 1
    BY <1>3
  <2>7. M + 1 \in Nat /\ e \in [DOMAIN g -> 0 .. M + 1]
    <3>1. \A a \in DOMAIN g : a # at => d[from[a]] \in 0 .. M + 1
      BY <2>2, <2>4
    <3>2. box \in DOMAIN h => d[box] + 1 \in 0 .. M + 1
      BY <2>2
    <3>3. M + 1 \in Nat /\ 0 \in 0 .. M + 1
      BY <2>2
    <3> QED
      BY <3>1, <3>2, <3>3
  <2> HIDE DEF e
  <2>8. ASSUME NEW a \in DOMAIN g, NEW c \in Children(g[a])
        PROVE  c \in DOMAIN g /\ e[c] > e[a]
    <3>1. CASE a = at
      BY <1>3, <3>1, <2>8
    <3>2. CASE a \in Moved
      <4>1. a # at
        BY <3>2 DEF Moved
      <4>2. /\ c \in Children(h[from[a]]) /\ c \in DOMAIN g /\ c # at /\ from[c] = c
            /\ from[a] \in DOMAIN h
        BY <1>1, <2>8, <3>2
      <4>3. e[c] = d[c] /\ e[a] = d[from[a]]
        BY <2>5, <4>1, <4>2
      <4> QED
        BY <2>3, <4>2, <4>3
    <3>3. CASE a = box
      <4>1. box \in DOMAIN h /\ from[box] = box /\ box # at
        BY <1>1, <1>3, <1>4, <3>3
      <4>2. e[box] = d[box] /\ c \in DOMAIN g
        BY <2>5, <2>8, <3>3, <4>1, <1>4
      <4>3. CASE c = at
        <5>1. d[box] + 1 > d[box]
          BY <2>2, <4>1
        <5> QED
          BY <2>6, <3>3, <4>1, <4>2, <4>3, <5>1
      <4>4. CASE c # at
        <5>1. from[c] \in Children(h[box]) /\ e[c] = d[from[c]]
          BY <1>4, <2>5, <2>8, <3>3, <4>2, <4>4
        <5> QED
          BY <2>3, <3>3, <4>1, <4>2, <5>1
      <4> QED
        BY <4>3, <4>4
    <3> QED
      BY <1>5, <3>1, <3>2, <3>3
  <2>9. Inward(g, e, M + 1)
    BY <2>7, <2>8 DEF Inward
  <2> QED
    BY <2>9
<1> QED
  BY <1>6, <1>7, <1>8, <1>9 DEF Forest, Nested

InnermostIs(h, stack, box) ==
  box \in DOMAIN h /\ Len(stack) > 0 /\ box = stack[Len(stack)]

(* The open containers stay where they are, and all of them but the        *)
(* innermost stay as they are.                                             *)
LEMMA OpenStays ==
  ASSUME NEW h, NEW g, NEW box, NEW at, NEW node, NEW from, NEW stack,
         Forest(h), Regrown(h, g, box, at, node, from), Line(h, stack),
         InnermostIs(h, stack, box)
  PROVE  \A i \in 1 .. Len(stack) :
           /\ stack[i] \in DOMAIN g /\ stack[i] # at /\ from[stack[i]] = stack[i]
           /\ i # Len(stack) => g[stack[i]] = h[stack[i]]
<1> TAKE i \in 1 .. Len(stack)
<1>1. /\ stack[i] \in DOMAIN h /\ Len(stack) \in Nat /\ Len(stack) \in 1 .. Len(stack)
      /\ \A j, k \in 1 .. Len(stack) : stack[j] = stack[k] => j = k
  BY DEF Line
<1>0. box \in DOMAIN h /\ Len(stack) > 0 /\ box = stack[Len(stack)]
  BY DEF InnermostIs
<1>2. stack[i] \notin Children(h[box])
  <2>1. SUFFICES ASSUME stack[i] \in Children(h[box]) PROVE FALSE
    OBVIOUS
  <2>2. Owned(h)
    BY DEF Forest
  <2>3. i > 1 /\ i - 1 \in 1 .. Len(stack) /\ box = stack[i - 1]
    BY <1>0, <2>1, <2>2, HolderOfOpen DEF HeldInLine
  <2>4. i - 1 = Len(stack)
    BY <1>0, <1>1, <2>3
  <2> QED
    BY <1>1, <2>4
<1>3. stack[i] \in DOMAIN g /\ stack[i] # at /\ from[stack[i]] = stack[i]
  BY <1>1, <1>2 DEF Regrown
<1>4. ASSUME i # Len(stack) PROVE g[stack[i]] = h[stack[i]]
  <2>1. stack[i] # box
    BY <1>0, <1>1, <1>4
  <2> QED
    BY <1>3, <2>1 DEF Regrown
<1> QED
  BY <1>3, <1>4

(* What is neither open nor new shows the tree it showed.                  *)
LEMMA RegrownTrees ==
  ASSUME NEW h, NEW g, NEW box, NEW at, NEW node, NEW from, NEW stack,
         Forest(h), Forest(g), Regrown(h, g, box, at, node, from),
         Line(h, stack), InnermostIs(h, stack, box),
         NEW b \in (DOMAIN g) \ ({at, box} \cup OnStack(stack))
  PROVE  from[b] \in DOMAIN h /\ Trees(g)[b] = Trees(h)[from[b]]
<1> DEFINE C == (DOMAIN g) \ ({at, box} \cup OnStack(stack))
           t == Trees(h)
           u == Trees(g)
<1>1. /\ box \in DOMAIN h => box \in DOMAIN g /\ from[box] = box
      /\ \A a \in (DOMAIN g) \ {at, box} :
           /\ from[a] \in DOMAIN h
           /\ \A c \in Children(g[a]) :
                /\ c \in Children(h[from[a]]) /\ c \in DOMAIN h
                /\ c \in DOMAIN g /\ c # at /\ from[c] = c
                /\ box \in DOMAIN h => c \notin Children(h[box])
  BY RegrownNodes
<1>2. \A i \in 1 .. Len(stack) :
        stack[i] \in DOMAIN g /\ stack[i] # at /\ from[stack[i]] = stack[i]
  BY OpenStays
<1>3. ASSUME NEW a \in C
      PROVE  /\ from[a] \in DOMAIN h /\ g[a] = h[from[a]]
             /\ \A c \in Children(g[a]) : c \in C /\ from[c] = c
  <2>1. a \in (DOMAIN g) \ {at, box} /\ a \notin OnStack(stack)
    OBVIOUS
  <2>2. from[a] \in DOMAIN h /\ g[a] = h[from[a]]
    BY <2>1, <1>1 DEF Regrown
  <2>3. ASSUME NEW c \in Children(g[a]) PROVE c \in C /\ from[c] = c
    <3>1. /\ c \in Children(h[from[a]]) /\ c \in DOMAIN h
          /\ c \in DOMAIN g /\ c # at /\ from[c] = c
      BY <2>1, <1>1
    <3>2. c \notin OnStack(stack)
      <4>1. SUFFICES ASSUME NEW i \in 1 .. Len(stack), c = stack[i] PROVE FALSE
        BY DEF OnStack
      <4>2. Owned(h) /\ stack[i] \in Children(h[from[a]])
        BY <3>1, <4>1 DEF Forest
      <4>3. i > 1 /\ i - 1 \in 1 .. Len(stack) /\ from[a] = stack[i - 1]
        BY <2>2, <4>2, HolderOfOpen DEF HeldInLine
      <4>4. /\ stack[i - 1] \in DOMAIN g /\ stack[i - 1] # at
            /\ from[stack[i - 1]] = stack[i - 1]
        BY <1>2, <4>3
      <4>5. a = stack[i - 1]
        BY <2>1, <4>3, <4>4 DEF Regrown
      <4> QED
        BY <2>1, <4>3, <4>5 DEF OnStack
    <3>3. c # box
      <4>1. SUFFICES ASSUME c = box PROVE FALSE
        OBVIOUS
      <4>2. box \in DOMAIN h /\ box = stack[Len(stack)] /\ Len(stack) > 0
        BY <3>1, <4>1 DEF InnermostIs
      <4>3. Len(stack) \in 1 .. Len(stack)
        BY <4>2 DEF Line
      <4> QED
        BY <3>2, <4>1, <4>2, <4>3 DEF OnStack
    <3> QED
      BY <3>1, <3>2, <3>3
  <2> QED
    BY <2>2, <2>3
<1>4. PICK M, d : Inward(g, d, M)
  BY DEF Forest, Nested
<1>5. M \in Nat /\ \A a \in DOMAIN g : d[a] \in 0 .. M
  BY <1>4 DEF Inward
<1>6. \A a \in DOMAIN h : t[a] = NodeOf(h[a], t)
  BY TreeUnfolds DEF Forest
<1>7. \A a \in DOMAIN g : u[a] = NodeOf(g[a], u) /\ g[a].kind \in {"leaf", "array", "dict"}
  BY TreeUnfolds DEF Forest, Nested, Kinds
<1>8. \A a \in C : a \in DOMAIN g
  OBVIOUS
<1>9. b \in C
  OBVIOUS
<1> HIDE DEF C, t, u
<1> DEFINE S == {n \in Nat : \A a \in C : d[a] + n > M => u[a] = t[from[a]]}
<1>10. 0 \in S
  BY <1>5, <1>8
<1>11. ASSUME NEW n \in S PROVE n + 1 \in S
  <2>1. n \in Nat /\ \A a \in C : d[a] + n > M => u[a] = t[from[a]]
    OBVIOUS
  <2>2. ASSUME NEW a \in C, d[a] + (n + 1) > M PROVE u[a] = t[from[a]]
    <3>1. \A c \in Children(g[a]) : u[c] = t[c]
      <4> TAKE c \in Children(g[a])
      <4>1. c \in C /\ from[c] = c
        BY <1>3
      <4>2. d[c] > d[a] /\ d[c] \in Nat /\ d[a] \in Nat
        BY <1>4, <1>5, <1>8, <4>1 DEF Inward
      <4>3. d[c] + n > M
        BY <1>5, <2>1, <2>2, <4>2
      <4> QED
        BY <2>1, <4>1, <4>3
    <3>2. NodeOf(g[a], u) = NodeOf(g[a], t)
      BY <1>7, <1>8, <3>1, SameParts
    <3>3. g[a] = h[from[a]] /\ from[a] \in DOMAIN h
      BY <1>3
    <3> QED
      BY <1>6, <1>7, <1>8, <3>2, <3>3
  <2> QED
    BY <2>1, <2>2
<1>12. S = Nat
  <2>1. S \in SUBSET Nat
    OBVIOUS
  <2> HIDE DEF S
  <2> QED
    BY <1>10, <1>11, <2>1, SetInduction
<1>13. M + 1 \in Nat /\ d[b] + (M + 1) > M
  BY <1>5, <1>8, <1>9
<1>14. M + 1 \in S
  <2> HIDE DEF S
  <2> QED
    BY <1>12, <1>13
<1> QED
  BY <1>3, <1>9, <1>13, <1>14 DEF t, u

-----------------------------------------------------------------------------
(* The builder's memory is a forest.                                       *)

Box == IF Depth = 0 THEN 0 ELSE Top

FInv == Forest(heap) /\ RootFree(heap, node_stack)

(* The stack is a line of containers.                                      *)
LEMMA StackIsLine ==
  ASSUME IInv, FInv
  PROVE  /\ Line(heap, node_stack)
         /\ Box \in DOMAIN heap <=> Depth > 0
         /\ Depth > 0 => Box = node_stack[Depth]
<1>1. /\ Depth \in Nat /\ Depth = Len(node_stack) /\ last \in Nat
      /\ \A i \in 1 .. Depth : node_stack[i] \in 1 .. last /\ node_stack[i] \in DOMAIN heap
      /\ Depth > 0 => Top \in DOMAIN heap /\ Top = node_stack[Depth]
  BY StackFacts DEF Depth, IInv, OpenAndWhole, TypeOK
<1>2. ASSUME NEW i \in 1 .. Depth, NEW j \in 1 .. Depth, i < j
      PROVE  node_stack[i] # node_stack[j]
  <2>1. j > 1 /\ j - 1 \in 1 .. Depth /\ (i = j - 1 \/ i \in 1 .. (j - 1) - 1)
    BY <1>1, <1>2
  <2>2. node_stack[j] \in Children(Open(j - 1))
    BY <2>1, HeldByParent
  <2>3. node_stack[j] > node_stack[i]
    BY <2>1, <2>2 DEF IInv, Newer
  <2> QED
    BY <1>1, <2>3
<1>3. \A i, j \in 1 .. Depth : node_stack[i] = node_stack[j] => i = j
  <2> TAKE i, j \in 1 .. Depth
  <2>1. i < j \/ j < i \/ i = j
    BY <1>1
  <2> QED
    BY <1>2, <2>1
<1>4. ASSUME NEW i \in 1 .. Depth - 1
      PROVE  node_stack[i + 1] \in Children(heap[node_stack[i]])
  <2>1. i + 1 \in 1 .. Depth /\ i + 1 > 1 /\ (i + 1) - 1 = i
    BY <1>1
  <2> QED
    BY <2>1, HeldByParent DEF Open
<1>5. Line(heap, node_stack)
  BY <1>1, <1>3, <1>4 DEF Line, FInv
<1>6. 0 \notin DOMAIN heap
  BY <1>1 DEF IInv, TypeOK
<1> QED
  BY <1>1, <1>5, <1>6 DEF Box

(* How the elements of an array that has taken a node compare to the old.  *)
ArrayFits(old, new, at, from) ==
  /\ new.kind = "array" /\ old.kind = "array"
  /\ \E n \in Nat : /\ DOMAIN old.elements = 1 .. n
                    /\ new.elements = [k \in 1 .. n + 1 |-> new.elements[k]]
                    /\ new.elements[n + 1] = at
                    /\ \A k \in 1 .. n : /\ new.elements[k] # at
                                         /\ from[new.elements[k]] = old.elements[k]

(* The same for a dictionary that has taken a node at a key.               *)
DictFits(old, new, k, at, from) ==
  /\ new.kind = "dict" /\ old.kind = "dict"
  /\ DOMAIN new.members = DOMAIN old.members \cup {k}
  /\ new.members[k] = at
  /\ \A m \in DOMAIN old.members \ {k} :
       /\ new.members[m] = old.members[m]
       /\ old.members[m] # at /\ from[old.members[m]] = old.members[m]

(* A node outside any container.                                           *)
LEMMA StoreRegrows ==
  ASSUME IInv, FInv, Depth = 0, NEW node
  PROVE  \E from : Regrown(heap, Store(last + 1, node), Box, last + 1, node, from)
<1> DEFINE g == Store(last + 1, node)
           from == [a \in DOMAIN heap |-> a]
<1>1. last \in Nat /\ DOMAIN heap \subseteq 1 .. last /\ Box = 0
  BY DEF IInv, TypeOK, Box
<1>2. last + 1 \notin DOMAIN heap /\ Box \notin DOMAIN heap /\ Box # last + 1
  BY <1>1
<1>3. /\ DOMAIN g = DOMAIN heap \cup {last + 1} /\ g[last + 1] = node
      /\ \A a \in DOMAIN heap : g[a] = heap[a]
  BY <1>2 DEF Store
<1>4. /\ from \in [DOMAIN heap -> DOMAIN heap]
      /\ \A a \in DOMAIN heap : from[a] = a
  OBVIOUS
<1> HIDE DEF g, from
<1>5. (DOMAIN g) \ {last + 1} = DOMAIN heap
  BY <1>2, <1>3
<1>6. Regrown(heap, g, Box, last + 1, node, from)
  BY <1>2, <1>3, <1>4, <1>5 DEF Regrown
<1> QED
  BY <1>6 DEF g

(* A node behind the last element of an array.                             *)
LEMMA ElementRegrows ==
  ASSUME IInv, FInv, TopIs("array"), NEW node, NEW moved \in MayMove
  PROVE  \E from : /\ Regrown(heap, WithElement(node, moved), Box, NewElement, node, from)
                   /\ Apart(WithElement(node, moved)[Top])
                   /\ ArrayFits(heap[Top], WithElement(node, moved)[Top], NewElement, from)
<1> DEFINE g == WithElement(node, moved)
           elements == AfterEmplaceBack(moved)
           gone == IF moved THEN Children(heap[Top]) ELSE {}
           n == Len(Elements)
           at == NewElement
           from == [a \in (DOMAIN g) \ {at} |->
                      IF a \in DOMAIN heap THEN a ELSE Elements[a - last]]
<1>1. /\ Depth \in Nat /\ Depth > 0 /\ Top \in DOMAIN heap /\ heap[Top].kind = "array"
      /\ last \in Nat /\ DOMAIN heap \subseteq 1 .. last /\ Box = Top
  BY StackFacts DEF IInv, TypeOK, TopIs, Box
<1>2. /\ Elements \in Seq(1 .. last) /\ n \in Nat /\ DOMAIN Elements = 1 .. n
      /\ \A k \in 1 .. n : Elements[k] \in 1 .. last
  <2>1. Elements \in Seq(1 .. last)
    BY <1>1 DEF IInv, TypeOK, NodeOK, IsDict, Elements
  <2> QED
    BY <2>1, SeqFacts
<1>3. Children(heap[Top]) = {Elements[k] : k \in 1 .. n}
  BY <1>1, <1>2 DEF Children, Elements
<1>4. \A k \in 1 .. n : Elements[k] \in DOMAIN heap
  <2>1. Children(heap[Top]) \subseteq DOMAIN heap
    BY StackFacts, <1>1 DEF IInv, OpenAndWhole, Open
  <2> QED
    BY <1>3, <2>1
<1>5. at = last + n + 1 /\ at \in Nat /\ at > last /\ at \notin DOMAIN heap
  BY <1>1, <1>2 DEF NewElement
<1>6. \A j, k \in 1 .. n : Elements[j] = Elements[k] => j = k
  BY <1>1, <1>2 DEF FInv, Forest, Apart, Elements
<1>7. GrownArray(g, elements, gone, moved, node)
  BY ElementNodes
<1>8. moved \in BOOLEAN
  <2>1. MayMove \subseteq BOOLEAN
    BY DEF MayMove
  <2> QED
    BY <2>1
<1>9. gone = IF moved THEN Children(heap[Top]) ELSE {}
  OBVIOUS
<1>10. \A a \in (DOMAIN g) \ {at} : from[a] = IF a \in DOMAIN heap THEN a ELSE Elements[a - last]
  OBVIOUS
<1>11. DOMAIN from = (DOMAIN g) \ {at} /\ from = [a \in (DOMAIN g) \ {at} |-> from[a]]
  OBVIOUS
<1> HIDE DEF g, elements, gone, n, at, from
<1>12. /\ DOMAIN elements = 1 .. n + 1 /\ elements[n + 1] = at
       /\ elements = [k \in 1 .. n + 1 |-> elements[k]]
  BY <1>7, <1>2 DEF GrownArray, n, at
<1>13. \A k \in 1 .. n : k \in 1 .. n + 1 /\ k \in DOMAIN elements
  BY <1>2, <1>12
<1>14. \A k \in 1 .. n : elements[k] \in DOMAIN g
  BY <1>7, <1>13 DEF GrownArray
<1>15. /\ at \in DOMAIN g /\ Top \in DOMAIN g /\ at # Top /\ g[at] = node
       /\ g[Top] = [kind |-> "array", elements |-> elements]
  BY <1>7 DEF GrownArray, at
(* Where a node that is not the new one was.                               *)
<1>16. ASSUME NEW a \in (DOMAIN g) \ {at}
       PROVE  \/ a \in DOMAIN heap /\ a \notin gone /\ from[a] = a
              \/ \E k \in 1 .. n : /\ moved /\ a = last + k /\ a \notin DOMAIN heap
                                   /\ from[a] = Elements[k] /\ (a # Top => g[a] = heap[Elements[k]])
  <2>1. CASE a \in DOMAIN heap
    <3>1. a \notin gone
      <4>1. SUFFICES ASSUME a \in gone PROVE FALSE
        OBVIOUS
      <4>2. moved /\ a \in Children(heap[Top])
        BY <4>1, <1>9
      <4>3. PICK k \in 1 .. n + 1 : a = elements[k]
        BY <1>7, <1>12, <4>1 DEF GrownArray
      <4>4. k \in 1 .. n \/ k = n + 1
        BY <1>2
      <4>5. k \in 1 .. n => a = last + k
        BY <1>7, <4>2, <4>3 DEF GrownArray, n
      <4>6. k = n + 1 => a = at
        BY <1>12, <4>3
      <4>7. a \in 1 .. last
        BY <1>1, <2>1
      <4> QED
        BY <1>1, <1>16, <4>4, <4>5, <4>6, <4>7
    <3> QED
      BY <1>10, <2>1, <3>1
  <2>2. CASE a \notin DOMAIN heap
    <3>1. a # Top
      BY <1>1, <2>2
    <3>2. PICK k \in 1 .. n : a = last + k /\ g[a] = heap[Elements[k]]
      BY <1>7, <1>16, <2>2, <3>1 DEF GrownArray, n, at
    <3>3. a - last = k
      BY <1>1, <1>2, <3>2
    <3>4. from[a] = Elements[k]
      BY <1>10, <2>2, <3>3
    <3>5. moved
      <4>1. SUFFICES ASSUME ~ moved PROVE FALSE
        BY <1>8
      <4>2. PICK j \in 1 .. n + 1 : a = elements[j]
        BY <1>7, <1>12, <1>16, <2>2 DEF GrownArray
      <4>3. j \in 1 .. n
        BY <1>2, <1>12, <1>16, <4>2
      <4>4. a = Elements[j]
        BY <1>7, <4>1, <4>2, <4>3 DEF GrownArray, n
      <4> QED
        BY <1>4, <2>2, <4>3, <4>4
    <3> QED
      BY <2>2, <3>2, <3>4, <3>5
  <2> QED
    BY <2>1, <2>2
<1>17. \A a \in (DOMAIN g) \ {at} : from[a] \in DOMAIN heap
  BY <1>4, <1>16
<1>18. from \in [(DOMAIN g) \ {at} -> DOMAIN heap]
  BY <1>11, <1>17
<1>19. ASSUME NEW a \in (DOMAIN g) \ {at}, NEW b \in (DOMAIN g) \ {at}, from[a] = from[b]
       PROVE  a = b
  <2>1. \A k \in 1 .. n : moved => Elements[k] \in gone
    BY <1>3, <1>9
  <2>2. CASE a \in DOMAIN heap
    <3>1. a \notin gone /\ from[a] = a
      BY <1>16, <2>2
    <3>2. b \in DOMAIN heap /\ from[b] = b
      BY <1>16, <1>19, <2>1, <3>1
    <3> QED
      BY <1>19, <3>1, <3>2
  <2>3. CASE a \notin DOMAIN heap
    <3>1. PICK j \in 1 .. n : moved /\ a = last + j /\ from[a] = Elements[j]
      BY <1>16, <2>3
    <3>2. b \notin DOMAIN heap
      BY <1>16, <1>19, <2>1, <3>1
    <3>3. PICK k \in 1 .. n : b = last + k /\ from[b] = Elements[k]
      BY <1>16, <3>2
    <3> QED
      BY <1>6, <1>19, <3>1, <3>3
  <2> QED
    BY <2>2, <2>3
<1>20. Top \notin Children(heap[Top])
  BY <1>1, NotOwnChild DEF FInv, Forest
<1>21. \A a \in (DOMAIN g) \ {at, Top} : from[a] # Top /\ g[a] = heap[from[a]]
  <2> TAKE a \in (DOMAIN g) \ {at, Top}
  <2>1. CASE a \in DOMAIN heap
    <3>1. a \notin gone /\ from[a] = a
      BY <1>16, <2>1
    <3> QED
      BY <1>7, <2>1, <3>1 DEF GrownArray
  <2>2. CASE a \notin DOMAIN heap
    BY <1>3, <1>16, <1>20, <2>2
  <2> QED
    BY <2>1, <2>2
<1>22. \A c \in DOMAIN heap :
         c \notin Children(heap[Top]) => c \in DOMAIN g /\ c # at /\ from[c] = c
  <2> TAKE c \in DOMAIN heap
  <2>1. SUFFICES ASSUME c \notin Children(heap[Top])
                 PROVE  c \in DOMAIN g /\ c # at /\ from[c] = c
    OBVIOUS
  <2>2. c \notin gone
    BY <1>9, <2>1
  <2>3. c \in DOMAIN g /\ c # at
    BY <1>5, <1>7, <2>2 DEF GrownArray
  <2> QED
    BY <1>10, <2>3
<1>23. \A k \in 1 .. n : elements[k] # at /\ from[elements[k]] = Elements[k]
  <2> TAKE k \in 1 .. n
  <2>1. CASE moved
    <3>1. elements[k] = last + k
      BY <1>7, <2>1 DEF GrownArray, n
    <3>2. last + k # at /\ last + k \notin DOMAIN heap /\ (last + k) - last = k
      BY <1>1, <1>2, <1>5
    <3> QED
      BY <1>10, <1>14, <3>1, <3>2
  <2>2. CASE ~ moved
    <3>1. elements[k] = Elements[k]
      BY <1>7, <2>2 DEF GrownArray, n
    <3>2. Elements[k] # at
      BY <1>4, <1>5
    <3> QED
      BY <1>4, <1>10, <1>14, <3>1, <3>2
  <2> QED
    BY <1>8, <2>1, <2>2
<1>24. Children(g[Top]) = {elements[k] : k \in 1 .. n + 1}
  BY <1>12, <1>15 DEF Children
<1>25. \A k \in 1 .. n + 1 : k \in 1 .. n \/ k = n + 1
  BY <1>2
<1>26. \A c \in Children(g[Top]) : c \in DOMAIN g /\ (c # at => from[c] \in Children(heap[Top]))
  BY <1>3, <1>12, <1>14, <1>15, <1>23, <1>24, <1>25
<1>27. Regrown(heap, g, Box, at, node, from)
  <2>1. g[Top].kind = heap[Top].kind
    BY <1>1, <1>15
  <2> QED
    BY <1>1, <1>15, <1>18, <1>19, <1>21, <1>22, <1>26, <2>1 DEF Regrown
<1>28. Apart(g[Top])
  <2>1. \A j, k \in 1 .. n + 1 : elements[j] = elements[k] => j = k
    <3> TAKE j, k \in 1 .. n + 1
    <3>1. SUFFICES ASSUME elements[j] = elements[k] PROVE j = k
      OBVIOUS
    <3>2. CASE j = n + 1 \/ k = n + 1
      BY <1>12, <1>23, <1>25, <3>1, <3>2
    <3>3. CASE j \in 1 .. n /\ k \in 1 .. n
      BY <1>6, <1>23, <3>1, <3>3
    <3> QED
      BY <1>25, <3>2, <3>3
  <2> QED
    BY <1>12, <1>15, <2>1 DEF Apart
<1>29. ArrayFits(heap[Top], g[Top], at, from)
  <2>1. /\ n \in Nat /\ DOMAIN heap[Top].elements = 1 .. n
        /\ \A k \in 1 .. n : elements[k] # at /\ from[elements[k]] = heap[Top].elements[k]
    BY <1>2, <1>23 DEF Elements
  <2>2. g[Top].elements = elements /\ g[Top].kind = "array"
    BY <1>15
  <2>3. g[Top].elements = [k \in 1 .. n + 1 |-> g[Top].elements[k]]
    BY <1>12, <2>2
  <2> QED
    BY <1>1, <1>12, <2>1, <2>2, <2>3 DEF ArrayFits
<1> QED
  BY <1>27, <1>28, <1>29 DEF g, at

(* A node at a key of a dictionary.                                        *)
LEMMA MemberRegrows ==
  ASSUME IInv, FInv, TopIs("dict"), NEW k \in Keys, NEW node
  PROVE  \E from : /\ Regrown(heap, WithMember(k, node), Box, MemberAddress(k), node, from)
                   /\ Apart(WithMember(k, node)[Top])
                   /\ DictFits(heap[Top], WithMember(k, node)[Top], k, MemberAddress(k), from)
<1> DEFINE g == WithMember(k, node)
           at == MemberAddress(k)
           members == [m \in DOMAIN Members \cup {k} |->
                         IF m = k THEN at ELSE Members[m]]
           from == [a \in (DOMAIN heap) \ {at} |-> a]
<1>1. /\ Depth \in Nat /\ Depth > 0 /\ Top \in DOMAIN heap /\ heap[Top].kind = "dict"
      /\ last \in Nat /\ DOMAIN heap \subseteq 1 .. last /\ Box = Top
  BY StackFacts DEF IInv, TypeOK, TopIs, Box
<1>2. GrownDict(g, members, k, at, node)
  BY MemberNodes
<1>3. Children(heap[Top]) = {Members[m] : m \in DOMAIN Members}
  BY <1>1 DEF Children, Members
<1>4. Children(heap[Top]) \subseteq DOMAIN heap
  BY StackFacts, <1>1 DEF IInv, OpenAndWhole, Open
<1>5. \A j, m \in DOMAIN Members : Members[j] = Members[m] => j = m
  BY <1>1 DEF FInv, Forest, Apart, Members
<1>6. IF k \in DOMAIN Members THEN at = Members[k] ELSE at = last + 1
  BY DEF MemberAddress
<1>7. /\ from \in [(DOMAIN heap) \ {at} -> DOMAIN heap]
      /\ \A a \in (DOMAIN heap) \ {at} : from[a] = a
  OBVIOUS
<1> HIDE DEF g, at, members, from
<1>8. /\ at = last + 1 \/ at \in Children(heap[Top])
      /\ at # Top /\ DOMAIN g = DOMAIN heap \cup {at}
      /\ g[Top] = [kind |-> "dict", members |-> members] /\ g[at] = node
      /\ \A a \in DOMAIN heap : a # Top /\ a # at => g[a] = heap[a]
      /\ DOMAIN members = DOMAIN Members \cup {k} /\ members[k] = at
      /\ \A m \in DOMAIN Members : m # k => members[m] = Members[m]
  BY <1>2 DEF GrownDict
<1>9. (DOMAIN g) \ {at} = (DOMAIN heap) \ {at}
  BY <1>8
<1>10. \A c \in DOMAIN heap : c # last + 1
  BY <1>1
<1>11. \A m \in DOMAIN Members \ {k} : Members[m] # at
  BY <1>3, <1>4, <1>5, <1>6, <1>10
<1>12. Children(g[Top]) = {members[m] : m \in DOMAIN Members \cup {k}}
  BY <1>8 DEF Children
<1>13. \A c \in Children(g[Top]) : c \in DOMAIN g /\ (c # at => from[c] \in Children(heap[Top]))
  <2> TAKE c \in Children(g[Top])
  <2>1. PICK m \in DOMAIN Members \cup {k} : c = members[m]
    BY <1>12
  <2>2. CASE m = k
    BY <1>8, <2>1, <2>2
  <2>3. CASE m # k
    <3>1. c = Members[m] /\ c \in Children(heap[Top])
      BY <1>3, <1>8, <2>1, <2>3
    <3> QED
      BY <1>4, <1>7, <1>8, <3>1
  <2> QED
    BY <2>2, <2>3
<1>14. Regrown(heap, g, Box, at, node, from)
  <2>1. /\ from \in [(DOMAIN g) \ {at} -> DOMAIN heap]
        /\ \A a, b \in (DOMAIN g) \ {at} : from[a] = from[b] => a = b
        /\ \A a \in (DOMAIN g) \ {at, Top} : from[a] # Top /\ g[a] = heap[from[a]]
    BY <1>7, <1>8, <1>9
  <2>2. \A c \in DOMAIN heap : c \notin Children(heap[Top])
          => c \in DOMAIN g /\ c # at /\ from[c] = c
    BY <1>7, <1>8, <1>10
  <2>3. g[Top].kind = heap[Top].kind /\ at \in DOMAIN g
    BY <1>1, <1>8
  <2> QED
    BY <1>1, <1>8, <1>13, <2>1, <2>2, <2>3 DEF Regrown
<1>15. Apart(g[Top])
  <2>1. \A j, m \in DOMAIN Members \cup {k} : members[j] = members[m] => j = m
    BY <1>5, <1>8, <1>11
  <2> QED
    BY <1>8, <2>1 DEF Apart
<1>16. DictFits(heap[Top], g[Top], k, at, from)
  <2>1. \A m \in DOMAIN Members \ {k} : Members[m] # at /\ from[Members[m]] = Members[m]
    BY <1>3, <1>4, <1>7, <1>11
  <2> QED
    BY <1>1, <1>8, <2>1 DEF DictFits, Members
<1> QED
  BY <1>14, <1>15, <1>16 DEF g, at

(* Nothing comes to hold the first open container.                         *)
LEMMA RegrownRootFree ==
  ASSUME NEW h, NEW g, NEW box, NEW at, NEW node, NEW from, NEW stack,
         Forest(h), Regrown(h, g, box, at, node, from), Line(h, stack),
         InnermostIs(h, stack, box), Children(node) = {}
  PROVE  RootFree(g, stack)
<1>1. \A i \in 1 .. Len(stack) :
        stack[i] \in DOMAIN g /\ stack[i] # at /\ from[stack[i]] = stack[i]
  BY OpenStays
<1>2. box \in DOMAIN h /\ Len(stack) \in Nat /\ 1 \in 1 .. Len(stack)
  BY DEF InnermostIs, Line
<1>3. \A a \in DOMAIN h : stack[1] \notin Children(h[a])
  BY <1>2 DEF Line, RootFree
<1>4. stack[1] # at /\ from[stack[1]] = stack[1]
  BY <1>1, <1>2
<1>5. \A a \in (DOMAIN g) \ {at, box} :
        from[a] \in DOMAIN h /\ \A c \in Children(g[a]) : c \in Children(h[from[a]])
  BY RegrownNodes
<1>6. g[at] = node /\ \A c \in Children(g[box]) : c # at => from[c] \in Children(h[box])
  BY <1>2 DEF Regrown
<1>7. ASSUME NEW a \in DOMAIN g PROVE stack[1] \notin Children(g[a])
  <2>1. CASE a = at
    BY <1>6, <2>1
  <2>2. CASE a = box
    BY <1>2, <1>3, <1>4, <1>6, <2>2
  <2>3. CASE a \notin {at, box}
    BY <1>3, <1>5, <2>3
  <2> QED
    BY <2>1, <2>2, <2>3
<1> QED
  BY <1>7 DEF RootFree

(* A step that puts a node into memory, at a key if into a dictionary.     *)
Grows(h, g, stack, box, at, node, k, from) ==
  /\ Regrown(h, g, box, at, node, from) /\ Forest(g)
  /\ Len(stack) > 0 =>
       /\ InnermostIs(h, stack, box) /\ RootFree(g, stack)
       /\ h[box].kind = "array" => ArrayFits(h[box], g[box], at, from)
       /\ h[box].kind = "dict" => DictFits(h[box], g[box], k, at, from)
  /\ Len(stack) = 0 => \A a \in DOMAIN g : at \notin Children(g[a])

IsFresh(node) ==
  node.kind \in {"leaf", "array", "dict"} /\ Children(node) = {} /\ Apart(node)

LEMMA FreshNodes ==
  (\A value : IsFresh(Leaf(value))) /\ IsFresh(NewArray) /\ IsFresh(NewDict)
<1>1. \A value : IsFresh(Leaf(value))
  BY DEF IsFresh, Leaf, Children, Apart
<1>2. IsFresh(NewArray)
  <2>1. NewArray.kind = "array" /\ NewArray.elements = <<>>
    BY DEF NewArray
  <2> QED
    BY <2>1, NewNodes DEF IsFresh, Apart
<1>3. IsFresh(NewDict)
  <2>1. NewDict.kind = "dict" /\ DOMAIN NewDict.members = {}
    BY DEF NewDict
  <2> QED
    BY <2>1, NewNodes DEF IsFresh, Apart
<1> QED
  BY <1>1, <1>2, <1>3

(* Memory that has grown in one of the three ways has grown this way.      *)
LEMMA GrowsFrom ==
  ASSUME IInv, FInv, NEW g, NEW at, NEW node, NEW k, NEW from, IsFresh(node),
         Regrown(heap, g, Box, at, node, from),
         Depth > 0 => /\ Apart(g[Top])
                      /\ TopIs("array") => ArrayFits(heap[Top], g[Top], at, from)
                      /\ TopIs("dict") => DictFits(heap[Top], g[Top], k, at, from)
  PROVE  Grows(heap, g, node_stack, Box, at, node, k, from)
<1>1. /\ Line(heap, node_stack) /\ (Box \in DOMAIN heap <=> Depth > 0)
      /\ Depth > 0 => Box = node_stack[Depth]
      /\ Forest(heap) /\ Depth = Len(node_stack) /\ Depth \in Nat
  BY StackIsLine, StackFacts DEF FInv, Depth
<1>2. Depth > 0 => Box = Top
  BY DEF Box
<1>3. node.kind \in {"leaf", "array", "dict"} /\ Children(node) = {} /\ Apart(node)
  BY DEF IsFresh
<1>4. Box \in DOMAIN heap => Apart(g[Box])
  BY <1>1, <1>2
<1>5. Forest(g)
  BY <1>1, <1>3, <1>4, RegrownForest
<1>6. CASE Depth > 0
  <2>1. InnermostIs(heap, node_stack, Box)
    BY <1>1, <1>6 DEF InnermostIs
  <2>2. RootFree(g, node_stack)
    BY <1>1, <1>3, <2>1, RegrownRootFree
  <2>3. /\ heap[Box].kind = "array" => ArrayFits(heap[Box], g[Box], at, from)
        /\ heap[Box].kind = "dict" => DictFits(heap[Box], g[Box], k, at, from)
    BY <1>2, <1>6 DEF TopIs
  <2> QED
    BY <1>1, <1>5, <1>6, <2>1, <2>2, <2>3 DEF Grows
<1>7. CASE Depth = 0
  <2>1. Box \notin DOMAIN heap /\ Box \notin DOMAIN g /\ g[at] = node
    BY <1>1, <1>7 DEF Regrown
  <2>2. \A a \in (DOMAIN g) \ {at, Box} : at \notin Children(g[a])
    BY <1>1, RegrownNodes
  <2>3. \A a \in DOMAIN g : at \notin Children(g[a])
    BY <1>3, <2>1, <2>2
  <2> QED
    BY <1>1, <1>5, <1>7, <2>3 DEF Grows
<1> QED
  BY <1>1, <1>6, <1>7

(* What ValueLogic and the Start functions do to memory.                   *)
LEMMA NodeGrows ==
  ASSUME IInv, FInv, NEW node, IsFresh(node), NEW moved \in MayMove, PlaceNode(node, moved)
  PROVE  \E from : Grows(heap, heap', node_stack, Box, Slot, node, key, from)
<1>1. key \in Keys /\ Depth \in Nat
  BY StackFacts DEF IInv, TypeOK
<1>2. CASE Depth = 0
  <2>1. heap' = Store(last + 1, node) /\ Slot = last + 1
    BY <1>2 DEF PlaceNode, Slot
  <2>2. PICK from : Regrown(heap, heap', Box, Slot, node, from)
    BY <1>2, <2>1, StoreRegrows
  <2> QED
    BY <1>2, <2>2, GrowsFrom
<1>3. CASE TopIs("array")
  <2>1. heap' = WithElement(node, moved) /\ Slot = NewElement
    BY <1>3 DEF PlaceNode, Slot, TopIs
  <2>2. PICK from : /\ Regrown(heap, heap', Box, Slot, node, from)
                    /\ Apart(heap'[Top])
                    /\ ArrayFits(heap[Top], heap'[Top], Slot, from)
    BY <1>3, <2>1, ElementRegrows
  <2>3. ~ TopIs("dict")
    BY <1>3 DEF TopIs
  <2> QED
    BY <2>2, <2>3, GrowsFrom
<1>4. CASE TopIs("dict")
  <2>1. ~ TopIs("array")
    BY <1>4 DEF TopIs
  <2>2. heap' = WithMember(key, node) /\ Slot = MemberAddress(key)
    BY <1>4, <2>1 DEF PlaceNode, Slot, TopIs
  <2>3. PICK from : /\ Regrown(heap, heap', Box, Slot, node, from)
                    /\ Apart(heap'[Top])
                    /\ DictFits(heap[Top], heap'[Top], key, Slot, from)
    BY <1>1, <1>4, <2>2, MemberRegrows
  <2> QED
    BY <2>1, <2>3, GrowsFrom
<1>5. Depth > 0 => TopIs("array") \/ TopIs("dict")
  <2>1. Depth > 0 => Depth \in 1 .. Depth
    BY <1>1
  <2> QED
    BY <2>1 DEF IInv, OpenAndWhole, Open, Top, TopIs
<1> QED
  BY <1>1, <1>2, <1>3, <1>4, <1>5

(* What KeyLogic does to memory when the key is new.                       *)
LEMMA KeyGrows ==
  ASSUME IInv, FInv, TopIs("dict"), NEW k \in Keys, NEW g, g = WithMember(k, Leaf(Null))
  PROVE  \E from : Grows(heap, g, node_stack, Box, MemberAddress(k), Leaf(Null), k, from)
<1>1. PICK from : /\ Regrown(heap, g, Box, MemberAddress(k), Leaf(Null), from)
                  /\ Apart(g[Top])
                  /\ DictFits(heap[Top], g[Top], k, MemberAddress(k), from)
  BY MemberRegrows
<1>2. ~ TopIs("array")
  BY DEF TopIs
<1> QED
  BY <1>1, <1>2, FreshNodes, GrowsFrom

(* Growing memory under the same stack, or under one container more.       *)
LEMMA GrownFInv ==
  ASSUME IInv, FInv, NEW at, NEW node, NEW k, NEW from,
         Grows(heap, heap', node_stack, Box, at, node, k, from),
         node_stack' = node_stack \/ node_stack' = Append(node_stack, at)
  PROVE  FInv'
<1>1. Depth \in Nat /\ Depth = Len(node_stack) /\ node_stack \in Seq(1 .. last)
  BY StackFacts DEF Depth, IInv, TypeOK
<1>2. Forest(heap')
  BY DEF Grows
<1>3. CASE Len(node_stack) > 0
  <2>1. \A a \in DOMAIN heap' : node_stack[1] \notin Children(heap'[a])
    BY <1>3 DEF Grows, RootFree
  <2>2. node_stack'[1] = node_stack[1]
    BY <1>1, <1>3
  <2> QED
    BY <1>2, <2>1, <2>2 DEF FInv, RootFree
<1>4. CASE Len(node_stack) = 0
  <2>1. \A a \in DOMAIN heap' : at \notin Children(heap'[a])
    BY <1>4 DEF Grows
  <2>2. Len(node_stack') = 0 \/ node_stack'[1] = at
    BY <1>1, <1>4
  <2> QED
    BY <1>2, <2>1, <2>2 DEF FInv, RootFree
<1> QED
  BY <1>1, <1>3, <1>4

LEMMA InitFInv == Init => FInv
<1> SUFFICES ASSUME Init PROVE FInv
  OBVIOUS
<1>1. DOMAIN heap = {} /\ Len(node_stack) = 0
  BY DEF Init
<1>2. Inward(heap, [a \in {} |-> 0], 0)
  BY <1>1 DEF Inward
<1>3. Nested(heap)
  BY <1>1, <1>2 DEF Nested, Kinds
<1> QED
  BY <1>1, <1>3 DEF FInv, Forest, Owned, RootFree

(* A key.                                                                  *)
LEMMA KeyFInv ==
  ASSUME IInv, FInv, NEW k \in Keys, KeyLogic(k)
  PROVE  FInv'
<1>1. node_stack' = node_stack
  BY DEF KeyLogic
<1>2. CASE heap' = heap
  BY <1>1, <1>2 DEF FInv, RootFree
<1>3. CASE TopIs("dict") /\ heap' = WithMember(k, Leaf(Null))
  BY <1>1, <1>3, KeyGrows, GrownFInv
<1> QED
  BY <1>2, <1>3 DEF KeyLogic, InsertMember

(* A value, or an empty container.                                         *)
LEMMA ValueFInv ==
  ASSUME IInv, FInv, NEW value \in Values, ValueLogic(value)
  PROVE  FInv'
<1>1. PICK moved \in MayMove : PlaceNode(Leaf(value), moved)
  BY DEF ValueLogic
<1>2. node_stack' = node_stack
  BY DEF ValueLogic
<1>3. PICK from : Grows(heap, heap', node_stack, Box, Slot, Leaf(value), key, from)
  BY <1>1, FreshNodes, NodeGrows
<1> QED
  BY <1>2, <1>3, GrownFInv

LEMMA StartFInv ==
  ASSUME IInv, FInv, NEW container \in {NewArray, NewDict}, StartLogic(container)
  PROVE  FInv'
<1>1. PICK moved \in MayMove : PlaceNode(container, moved)
  BY DEF StartLogic
<1>2. node_stack' = Append(node_stack, Slot)
  BY DEF StartLogic, Opened
<1>3. PICK from : Grows(heap, heap', node_stack, Box, Slot, container, key, from)
  BY <1>1, FreshNodes, NodeGrows
<1> QED
  BY <1>2, <1>3, GrownFInv

(* Closing a container.                                                    *)
LEMMA EndFInv ==
  ASSUME IInv, FInv, NEW kind, EndLogic(kind)
  PROVE  FInv'
<1>1. heap' = heap
  BY DEF EndLogic
<1>2. CASE node_stack' = node_stack
  BY <1>1, <1>2 DEF FInv, RootFree
<1>3. CASE Depth > 0 /\ node_stack' = Popped
  <2>1. node_stack \in Seq(1 .. last) /\ Len(node_stack) > 0 /\ Len(node_stack) \in Nat
    BY <1>3 DEF IInv, TypeOK, Depth
  <2>2. /\ Len(node_stack') = Len(node_stack) - 1
        /\ \A i \in 1 .. Len(node_stack) - 1 : node_stack'[i] = node_stack[i]
    BY <1>3, <2>1, FrontFacts DEF Popped, Depth
  <2>3. Len(node_stack') > 0 => node_stack'[1] = node_stack[1]
    BY <2>1, <2>2
  <2> QED
    BY <1>1, <2>1, <2>3 DEF FInv, RootFree
<1>4. Depth > 0 \/ Depth = 0
  BY StackFacts
<1> QED
  BY <1>2, <1>3, <1>4 DEF EndLogic

LEMMA NextFInv == IInv /\ FInv /\ [Next]_vars => FInv'
<1> SUFFICES ASSUME IInv, FInv, [Next]_vars PROVE FInv'
  OBVIOUS
<1>1. ASSUME NEW k \in Keys, KeyLogic(k) PROVE FInv'
  BY <1>1, KeyFInv
<1>2. ASSUME NEW value \in Values, ValueLogic(value) PROVE FInv'
  BY <1>2, ValueFInv
<1>3. CASE StartArray \/ StartDict
  BY <1>3, StartFInv DEF StartArray, StartDict
<1>4. CASE EndArray \/ EndDict
  BY <1>4, EndFInv DEF EndArray, EndDict
<1>5. CASE UNCHANGED vars
  BY <1>5 DEF vars, FInv, RootFree
<1> QED
  BY <1>1, <1>2, <1>3, <1>4, <1>5 DEF Next

(* Memory is a forest whatever is called.                                  *)
LEMMA ForestHolds == Spec => [](IInv /\ FInv)
<1>1. Init => FInv
  BY InitFInv
<1>2. IInv /\ FInv /\ [Next]_vars => FInv'
  BY NextFInv
<1> QED
  BY <1>1, <1>2, IInvHolds, PTL DEF Spec

-----------------------------------------------------------------------------
(* What memory and the stack show of the document: OpenContainer with its  *)
(* variables as parameters.                                                *)

PendingOf(h, stack, prev, k, i) ==
  IF h[stack[i]].kind # "dict" THEN {}
  ELSE IF i = Len(stack) THEN IF prev THEN {k} ELSE {}
  ELSE {m \in DOMAIN h[stack[i]].members : h[stack[i]].members[m] = stack[i + 1]}

ContainerOf(h, stack, prev, k, i) ==
  LET node == Trees(h)[stack[i]]
  IN  IF node.kind = "array"
        THEN [node |-> IF i = Len(stack) THEN node
                       ELSE [node EXCEPT !.elements = SubSeq(@, 1, Len(@) - 1)],
              key |-> NoAddress]
        ELSE [node |-> [node EXCEPT !.members =
                          [m \in (DOMAIN @) \ PendingOf(h, stack, prev, k, i) |-> @[m]]],
              key |-> IF PendingOf(h, stack, prev, k, i) = {} THEN NoAddress
                      ELSE CHOOSE m \in PendingOf(h, stack, prev, k, i) : TRUE]

LEMMA ContainerNow ==
  \A i : OpenContainer(i) = ContainerOf(heap, node_stack, is_previous_key, key, i)
BY TreeIs, ZenonT(30) DEF OpenContainer, PendingKey, Depth, ContainerOf, PendingOf

LEMMA TreeNext == \A at : Tree(at)' = Trees(heap')[at]
<1> TAKE at
<1> DEFINE Body(h, tree) ==
        [a \in DOMAIN h |->
          CASE h[a].kind = "leaf" -> h[a]
            [] h[a].kind = "array" ->
                 [kind |-> "array",
                  elements |-> [k \in DOMAIN h[a].elements |-> tree[h[a].elements[k]]]]
            [] OTHER ->
                 [kind |-> "dict",
                  members |-> [k \in DOMAIN h[a].members |-> tree[h[a].members[k]]]]]
<1>1. Tree(at)' = (CHOOSE tree : tree = Body(heap', tree))[at]
  BY DEF Tree
<1>2. Trees(heap') = (CHOOSE tree : tree = Body(heap', tree))
  BY DEF Trees, Shows, NodeOf
<1> HIDE DEF Body
<1> QED
  BY <1>1, <1>2

LEMMA ContainerNext ==
  \A i : OpenContainer(i)' = ContainerOf(heap', node_stack', is_previous_key', key', i)
<1> TAKE i
<1>1. Tree(node_stack[i])' = Trees(heap')[node_stack'[i]]
  BY TreeNext
<1> QED
  BY <1>1 DEF OpenContainer, PendingKey, Depth, ContainerOf, PendingOf

ShownArray(elements, m, t) ==
  [node |-> [kind |-> "array", elements |-> [j \in 1 .. m |-> t[elements[j]]]],
   key |-> NoAddress]

ShownDict(members, keys, t, k) ==
  [node |-> [kind |-> "dict", members |-> [m \in keys |-> t[members[m]]]], key |-> k]

(* Functions on the first numbers as sequences.                            *)
LEMMA RowFront ==
  ASSUME NEW s, NEW n \in Nat, n > 0, s = [j \in 1 .. n |-> s[j]]
  PROVE  Len(s) = n /\ SubSeq(s, 1, Len(s) - 1) = [j \in 1 .. n - 1 |-> s[j]]
<1> DEFINE R == {s[j] : j \in 1 .. n}
           f == SubSeq(s, 1, Len(s) - 1)
           e == [j \in 1 .. n - 1 |-> s[j]]
<1>1. s \in [1 .. n -> R]
  <2>1. \A j \in 1 .. n : s[j] \in R
    OBVIOUS
  <2> QED
    BY <2>1
<1>2. s \in Seq(R) /\ Len(s) = n
  BY <1>1, FunctionIsSeq
<1>3. /\ f \in Seq(R) /\ Len(f) = Len(s) - 1
      /\ \A j \in 1 .. Len(s) - 1 : f[j] = s[j]
  BY <1>2, FrontFacts
<1>4. f = [j \in 1 .. n - 1 |-> f[j]]
  <2>1. DOMAIN f = 1 .. n - 1
    BY <1>2, <1>3, SeqFacts
  <2>2. f = [j \in DOMAIN f |-> f[j]]
    BY <1>3
  <2> QED
    BY <2>1, <2>2
<1>5. \A j \in 1 .. n - 1 : f[j] = s[j]
  BY <1>2, <1>3
<1> HIDE DEF f, R
<1>6. f = [j \in 1 .. n - 1 |-> s[j]]
  BY <1>4, <1>5
<1> QED
  BY <1>2, <1>6 DEF f

LEMMA RowAppend ==
  ASSUME NEW s, NEW n \in Nat, s = [j \in 1 .. n |-> s[j]], NEW x
  PROVE  Append(s, x) = [j \in 1 .. n + 1 |-> IF j = n + 1 THEN x ELSE s[j]]
<1> DEFINE R == {s[j] : j \in 1 .. n} \cup {x}
           f == Append(s, x)
<1>1. s \in [1 .. n -> R]
  <2>1. \A j \in 1 .. n : s[j] \in R
    OBVIOUS
  <2> QED
    BY <2>1
<1>2. s \in Seq(R) /\ Len(s) = n /\ x \in R
  BY <1>1, FunctionIsSeq
<1>3. /\ f \in Seq(R) /\ Len(f) = n + 1 /\ f[n + 1] = x
      /\ \A j \in 1 .. n : f[j] = s[j]
  BY <1>2
<1>4. f = [j \in 1 .. n + 1 |-> f[j]]
  <2>1. DOMAIN f = 1 .. n + 1
    BY <1>3, SeqFacts
  <2>2. f = [j \in DOMAIN f |-> f[j]]
    BY <1>3
  <2> QED
    BY <2>1, <2>2
<1>5. \A j \in 1 .. n + 1 : f[j] = IF j = n + 1 THEN x ELSE s[j]
  <2>1. \A j \in 1 .. n + 1 : j # n + 1 => j \in 1 .. n
    OBVIOUS
  <2> QED
    BY <1>3, <2>1
<1> HIDE DEF f, R
<1>6. f = [j \in 1 .. n + 1 |-> IF j = n + 1 THEN x ELSE s[j]]
  BY <1>4, <1>5
<1> QED
  BY <1>6 DEF f

(* An array shows the trees of its elements, the last one apart if it is   *)
(* still being built.                                                      *)
LEMMA ArrayContainer ==
  ASSUME NEW h, NEW stack, NEW prev, NEW k, NEW i, Nested(h), stack[i] \in DOMAIN h,
         h[stack[i]].kind = "array", NEW n \in Nat,
         DOMAIN h[stack[i]].elements = 1 .. n, i # Len(stack) => n > 0
  PROVE  ContainerOf(h, stack, prev, k, i)
           = ShownArray(h[stack[i]].elements, IF i = Len(stack) THEN n ELSE n - 1, Trees(h))
<1> DEFINE t == Trees(h)
           el == h[stack[i]].elements
           s == [j \in 1 .. n |-> t[el[j]]]
<1>1. t[stack[i]] = [kind |-> "array", elements |-> s]
  <2>1. t[stack[i]] = NodeOf(h[stack[i]], t)
    BY TreeUnfolds
  <2>2. NodeOf(h[stack[i]], t) = [kind |-> "array", elements |-> [j \in DOMAIN el |-> t[el[j]]]]
    BY DEF NodeOf
  <2>3. [j \in DOMAIN el |-> t[el[j]]] = s
    OBVIOUS
  <2> HIDE DEF t, s
  <2> QED
    BY <2>1, <2>2, <2>3
<1>2. CASE i = Len(stack)
  BY <1>1, <1>2 DEF ContainerOf, ShownArray
<1>3. CASE i # Len(stack)
  <2>1. s = [j \in 1 .. n |-> s[j]]
    OBVIOUS
  <2>2. \A j \in 1 .. n - 1 : s[j] = t[el[j]]
    OBVIOUS
  <2> HIDE DEF s, t, el
  <2>3. SubSeq(s, 1, Len(s) - 1) = [j \in 1 .. n - 1 |-> s[j]]
    BY <1>3, <2>1, RowFront
  <2>4. SubSeq(s, 1, Len(s) - 1) = [j \in 1 .. n - 1 |-> t[el[j]]]
    BY <2>2, <2>3
  <2>5. ContainerOf(h, stack, prev, k, i)
          = [node |-> [t[stack[i]] EXCEPT !.elements = SubSeq(@, 1, Len(@) - 1)],
             key |-> NoAddress]
    BY <1>1, <1>3, SMTT(30) DEF ContainerOf, t
  <2>6. [t[stack[i]] EXCEPT !.elements = SubSeq(@, 1, Len(@) - 1)]
          = [kind |-> "array", elements |-> SubSeq(s, 1, Len(s) - 1)]
    <3>1. t[stack[i]].elements = s
      BY <1>1
    <3>2. \A q : [t[stack[i]] EXCEPT !.elements = q] = [kind |-> "array", elements |-> q]
      BY <1>1
    <3> QED
      BY <3>1, <3>2
  <2> QED
    BY <1>3, <2>4, <2>5, <2>6 DEF ShownArray, t, el
<1> QED
  BY <1>2, <1>3

KeyAmong(P) == IF P = {} THEN NoAddress ELSE CHOOSE m \in P : TRUE

(* A dictionary shows the trees of its members, but for a key whose value  *)
(* is still to come.                                                       *)
LEMMA DictContainer ==
  ASSUME NEW h, NEW stack, NEW prev, NEW k, NEW i, Nested(h), stack[i] \in DOMAIN h,
         h[stack[i]].kind = "dict"
  PROVE  ContainerOf(h, stack, prev, k, i)
           = ShownDict(h[stack[i]].members,
                       (DOMAIN h[stack[i]].members) \ PendingOf(h, stack, prev, k, i),
                       Trees(h), KeyAmong(PendingOf(h, stack, prev, k, i)))
<1> DEFINE P == PendingOf(h, stack, prev, k, i)
           t == Trees(h)
           mb == h[stack[i]].members
           s == [m \in DOMAIN mb |-> t[mb[m]]]
<1>1. t[stack[i]] = [kind |-> "dict", members |-> s]
  BY TreeUnfolds, ZenonT(30) DEF NodeOf
<1>2. DOMAIN s = DOMAIN mb /\ \A m \in DOMAIN mb : s[m] = t[mb[m]]
  OBVIOUS
<1> HIDE DEF s, t, mb, P
<1>3. [m \in (DOMAIN s) \ P |-> s[m]] = [m \in (DOMAIN mb) \ P |-> t[mb[m]]]
  BY <1>2
<1>4. [t[stack[i]] EXCEPT !.members = [m \in (DOMAIN @) \ P |-> @[m]]]
        = [kind |-> "dict", members |-> [m \in (DOMAIN s) \ P |-> s[m]]]
  BY <1>1
<1>5. ContainerOf(h, stack, prev, k, i)
        = [node |-> [t[stack[i]] EXCEPT !.members = [m \in (DOMAIN @) \ P |-> @[m]]],
           key |-> KeyAmong(P)]
  BY <1>1 DEF ContainerOf, KeyAmong, t, P
<1> QED
  BY <1>3, <1>4, <1>5 DEF ShownDict, t, mb, P

(* Arrays are rows, and an open container is the last element or a member  *)
(* of the one before it.                                                   *)
Shaped(h, stack) ==
  \A i \in 1 .. Len(stack) :
    /\ h[stack[i]].kind \in {"array", "dict"}
    /\ h[stack[i]].kind = "array" =>
         \E n \in Nat : /\ DOMAIN h[stack[i]].elements = 1 .. n
                        /\ i # Len(stack) => n > 0 /\ h[stack[i]].elements[n] = stack[i + 1]
    /\ h[stack[i]].kind = "dict" /\ i # Len(stack) =>
         \E m \in DOMAIN h[stack[i]].members : h[stack[i]].members[m] = stack[i + 1]

LEMMA StackShaped ==
  ASSUME IInv
  PROVE  Shaped(heap, node_stack)
<1> SUFFICES ASSUME NEW i \in 1 .. Len(node_stack)
    PROVE  /\ heap[node_stack[i]].kind \in {"array", "dict"}
           /\ heap[node_stack[i]].kind = "array" =>
                \E n \in Nat : /\ DOMAIN heap[node_stack[i]].elements = 1 .. n
                               /\ i # Len(node_stack) =>
                                    /\ n > 0
                                    /\ heap[node_stack[i]].elements[n] = node_stack[i + 1]
           /\ heap[node_stack[i]].kind = "dict" /\ i # Len(node_stack) =>
                \E m \in DOMAIN heap[node_stack[i]].members :
                  heap[node_stack[i]].members[m] = node_stack[i + 1]
  BY DEF Shaped
<1>1. /\ Len(node_stack) \in Nat /\ node_stack[i] \in DOMAIN heap
      /\ heap[node_stack[i]].kind \in {"array", "dict"}
      /\ NodeOK(heap[node_stack[i]], last)
  BY StackFacts DEF IInv, OpenAndWhole, Open, Depth, TypeOK
<1>2. i # Len(node_stack) => \/ IsLastElement(node_stack[i + 1], node_stack[i])
                             \/ IsMember(node_stack[i + 1], node_stack[i])
  <2>1. i # Len(node_stack) => i \in 1 .. Depth - 1
    BY <1>1 DEF Depth
  <2> QED
    BY <2>1 DEF IInv, NoDanglingPointer
<1>3. CASE heap[node_stack[i]].kind = "array"
  <2>1. heap[node_stack[i]].elements \in Seq(1 .. last)
    BY <1>1, <1>3 DEF NodeOK, IsDict
  <2> DEFINE n == Len(heap[node_stack[i]].elements)
  <2>2. n \in Nat /\ DOMAIN heap[node_stack[i]].elements = 1 .. n
    BY <2>1, SeqFacts
  <2>3. i # Len(node_stack) => n > 0 /\ heap[node_stack[i]].elements[n] = node_stack[i + 1]
    BY <1>2, <1>3 DEF IsLastElement, IsMember
  <2> HIDE DEF n
  <2> QED
    BY <1>3, <2>2, <2>3
<1>4. CASE heap[node_stack[i]].kind = "dict"
  BY <1>2, <1>4 DEF IsLastElement, IsMember
<1> QED
  BY <1>1, <1>3, <1>4

(* Memory h has grown into g with a container open.                        *)
Setting(h, g, stack, box, at, node, k, from) ==
  /\ Forest(h) /\ Line(h, stack) /\ Shaped(h, stack) /\ Len(stack) > 0
  /\ Grows(h, g, stack, box, at, node, k, from)

LEMMA SettingFacts ==
  ASSUME NEW h, NEW g, NEW stack, NEW box, NEW at, NEW node, NEW k, NEW from,
         Setting(h, g, stack, box, at, node, k, from)
  PROVE  /\ Forest(h) /\ Forest(g) /\ Nested(h) /\ Nested(g) /\ Owned(h) /\ Line(h, stack)
         /\ Shaped(h, stack) /\ Regrown(h, g, box, at, node, from)
         /\ InnermostIs(h, stack, box) /\ box \in DOMAIN h /\ box = stack[Len(stack)]
         /\ box \in DOMAIN g /\ box # at
         /\ Len(stack) \in Nat /\ Len(stack) \in 1 .. Len(stack)
         /\ \A i \in 1 .. Len(stack) :
              /\ stack[i] \in DOMAIN h /\ stack[i] \in DOMAIN g /\ stack[i] # at
              /\ from[stack[i]] = stack[i]
              /\ i # Len(stack) => g[stack[i]] = h[stack[i]]
<1>1. /\ Forest(h) /\ Forest(g) /\ Line(h, stack) /\ Shaped(h, stack)
      /\ Regrown(h, g, box, at, node, from) /\ InnermostIs(h, stack, box)
  BY DEF Setting, Grows
<1>2. Nested(h) /\ Nested(g) /\ Owned(h)
  BY <1>1 DEF Forest
<1>3. /\ box \in DOMAIN h /\ box = stack[Len(stack)]
      /\ Len(stack) \in Nat /\ Len(stack) \in 1 .. Len(stack)
  BY <1>1 DEF InnermostIs, Line
<1>4. \A i \in 1 .. Len(stack) :
        /\ stack[i] \in DOMAIN g /\ stack[i] # at /\ from[stack[i]] = stack[i]
        /\ i # Len(stack) => g[stack[i]] = h[stack[i]]
  BY <1>1, OpenStays
<1>5. \A i \in 1 .. Len(stack) : stack[i] \in DOMAIN h
  BY <1>1 DEF Line
<1> QED
  BY <1>1, <1>2, <1>3, <1>4, <1>5

(* What the innermost container holds is not open.                         *)
LEMMA TopChild ==
  ASSUME NEW h, NEW g, NEW stack, NEW box, NEW at, NEW node, NEW k, NEW from,
         Setting(h, g, stack, box, at, node, k, from),
         NEW c \in DOMAIN g, c # at, from[c] \in Children(h[box])
  PROVE  Trees(g)[c] = Trees(h)[from[c]]
<1>1. /\ Forest(h) /\ Forest(g) /\ Owned(h) /\ Line(h, stack)
      /\ Regrown(h, g, box, at, node, from) /\ InnermostIs(h, stack, box)
      /\ box \in DOMAIN h /\ box = stack[Len(stack)]
      /\ Len(stack) \in Nat /\ Len(stack) \in 1 .. Len(stack)
      /\ \A i \in 1 .. Len(stack) : from[stack[i]] = stack[i]
  BY SettingFacts
<1>2. c \notin OnStack(stack)
  <2>1. SUFFICES ASSUME NEW i \in 1 .. Len(stack), c = stack[i] PROVE FALSE
    BY DEF OnStack
  <2>2. stack[i] \in Children(h[box])
    BY <1>1, <2>1
  <2>3. i - 1 \in 1 .. Len(stack) /\ box = stack[i - 1]
    <3>1. Owned(h) /\ Line(h, stack) /\ box \in DOMAIN h
      BY <1>1
    <3>2. HeldInLine(h, stack)
      BY <3>1, HolderOfOpen
    <3> QED
      BY <2>2, <3>1, <3>2 DEF HeldInLine
  <2>4. i - 1 = Len(stack)
    BY <1>1, <2>3 DEF Line
  <2> QED
    BY <1>1, <2>4
<1>3. c # box
  BY <1>1, <1>2 DEF OnStack
<1>4. c \in (DOMAIN g) \ ({at, box} \cup OnStack(stack))
  BY <1>2, <1>3
<1> QED
  BY <1>1, <1>4, RegrownTrees

(* What another open container holds is not open either, but for the next  *)
(* open one.                                                               *)
LEMMA LowerChild ==
  ASSUME NEW h, NEW g, NEW stack, NEW box, NEW at, NEW node, NEW k, NEW from,
         Setting(h, g, stack, box, at, node, k, from),
         NEW i \in 1 .. Len(stack) - 1, NEW c \in Children(h[stack[i]]), c # stack[i + 1]
  PROVE  Trees(g)[c] = Trees(h)[c]
<1>1. /\ Forest(h) /\ Forest(g) /\ Owned(h) /\ Line(h, stack)
      /\ Regrown(h, g, box, at, node, from) /\ InnermostIs(h, stack, box)
      /\ box \in DOMAIN h /\ box = stack[Len(stack)]
      /\ Len(stack) \in Nat /\ Len(stack) \in 1 .. Len(stack)
      /\ \A j \in 1 .. Len(stack) : stack[j] \in DOMAIN h /\ from[stack[j]] = stack[j]
  BY SettingFacts
<1>2. i \in 1 .. Len(stack) /\ i # Len(stack) /\ stack[i] \in DOMAIN h
  BY <1>1
<1>3. \A j, m \in 1 .. Len(stack) : stack[j] = stack[m] => j = m
  BY <1>1 DEF Line
<1>4. c \notin OnStack(stack)
  <2>1. SUFFICES ASSUME NEW j \in 1 .. Len(stack), c = stack[j] PROVE FALSE
    BY DEF OnStack
  <2>2. stack[j] \in Children(h[stack[i]])
    BY <2>1
  <2>3. j - 1 \in 1 .. Len(stack) /\ stack[i] = stack[j - 1]
    BY <1>1, <1>2, <2>2, HolderOfOpen DEF HeldInLine
  <2>4. i = j - 1
    BY <1>2, <1>3, <2>3
  <2>5. i + 1 = j
    BY <1>2, <2>4
  <2> QED
    BY <2>1, <2>5
<1>5. c \in DOMAIN h
  BY <1>1, <1>2 DEF Forest, Nested, Inward
<1>6. c \notin Children(h[box])
  BY <1>1, <1>2, <1>3 DEF Owned
<1>7. c \in DOMAIN g /\ c # at /\ from[c] = c
  BY <1>1, <1>5, <1>6 DEF Regrown
<1>8. c # box
  BY <1>1, <1>4 DEF OnStack
<1>9. c \in (DOMAIN g) \ ({at, box} \cup OnStack(stack))
  BY <1>4, <1>7, <1>8
<1>10. Trees(g)[c] = Trees(h)[from[c]]
  BY <1>1, <1>9, RegrownTrees
<1> QED
  BY <1>7, <1>10

(* So the containers around the innermost one stay the same part of the    *)
(* document, whatever is pushed on them.                                   *)
LEMMA LowerContainer ==
  ASSUME NEW h, NEW g, NEW stack, NEW box, NEW at, NEW node, NEW k, NEW from,
         Setting(h, g, stack, box, at, node, k, from), NEW stack2,
         Len(stack2) \in Nat, Len(stack2) >= Len(stack),
         \A j \in 1 .. Len(stack) : stack2[j] = stack[j],
         NEW prev, NEW key1, NEW prev2, NEW key2, NEW i \in 1 .. Len(stack) - 1
  PROVE  ContainerOf(g, stack2, prev2, key2, i) = ContainerOf(h, stack, prev, key1, i)
<1>1. /\ Forest(h) /\ Nested(h) /\ Nested(g) /\ Shaped(h, stack) /\ Len(stack) \in Nat
      /\ \A j \in 1 .. Len(stack) :
           /\ stack[j] \in DOMAIN h /\ stack[j] \in DOMAIN g
           /\ j # Len(stack) => g[stack[j]] = h[stack[j]]
  BY SettingFacts
<1>2. /\ i \in 1 .. Len(stack) /\ i # Len(stack) /\ i + 1 \in 1 .. Len(stack)
      /\ i # Len(stack2) /\ stack2[i] = stack[i] /\ stack2[i + 1] = stack[i + 1]
  BY <1>1
<1>3. /\ stack[i] \in DOMAIN h /\ stack[i] \in DOMAIN g /\ g[stack[i]] = h[stack[i]]
      /\ Apart(h[stack[i]])
  BY <1>1, <1>2 DEF Forest
<1>4. h[stack[i]].kind \in {"array", "dict"}
  BY <1>1, <1>2 DEF Shaped
<1> DEFINE t == Trees(h)
           u == Trees(g)
<1>5. CASE h[stack[i]].kind = "array"
  <2> DEFINE el == h[stack[i]].elements
  <2>1. PICK n \in Nat : DOMAIN el = 1 .. n /\ n > 0 /\ el[n] = stack[i + 1]
    BY <1>1, <1>2, <1>5 DEF Shaped
  <2>2. \A j \in 1 .. n - 1 : el[j] \in Children(h[stack[i]]) /\ el[j] # stack[i + 1]
    <3> TAKE j \in 1 .. n - 1
    <3>1. j \in 1 .. n /\ n \in 1 .. n /\ j # n
      BY <2>1
    <3>2. el[j] # el[n]
      BY <1>3, <1>5, <2>1, <3>1 DEF Apart
    <3>3. el[j] \in Children(h[stack[i]])
      BY <1>5, <2>1, <3>1 DEF Children
    <3> QED
      BY <2>1, <3>2, <3>3
  <2>3. \A j \in 1 .. n - 1 : u[el[j]] = t[el[j]]
    BY <2>2, LowerChild
  <2>4. ContainerOf(h, stack, prev, key1, i) = ShownArray(el, n - 1, t)
    BY <1>1, <1>2, <1>3, <1>5, <2>1, ArrayContainer
  <2>5. ContainerOf(g, stack2, prev2, key2, i) = ShownArray(el, n - 1, u)
    <3>1. /\ g[stack2[i]].kind = "array" /\ DOMAIN g[stack2[i]].elements = 1 .. n
          /\ stack2[i] \in DOMAIN g /\ g[stack2[i]].elements = el
      BY <1>2, <1>3, <1>5, <2>1
    <3> HIDE DEF el
    <3>2. ContainerOf(g, stack2, prev2, key2, i)
            = ShownArray(g[stack2[i]].elements, IF i = Len(stack2) THEN n ELSE n - 1, Trees(g))
      BY <1>1, <2>1, <3>1, ArrayContainer
    <3> QED
      BY <1>2, <3>1, <3>2
  <2> HIDE DEF el, t, u
  <2>6. [j \in 1 .. n - 1 |-> u[el[j]]] = [j \in 1 .. n - 1 |-> t[el[j]]]
    BY <2>3
  <2>7. ShownArray(el, n - 1, u) = ShownArray(el, n - 1, t)
    BY <2>6 DEF ShownArray
  <2> QED
    BY <2>4, <2>5, <2>7
<1>6. CASE h[stack[i]].kind = "dict"
  <2> DEFINE mb == h[stack[i]].members
             P == {m \in DOMAIN mb : mb[m] = stack[i + 1]}
             pend == KeyAmong(P)
  <2>1. PendingOf(h, stack, prev, key1, i) = P
    BY <1>2, <1>6 DEF PendingOf
  <2>2. PendingOf(g, stack2, prev2, key2, i) = P
    BY <1>2, <1>3, <1>6 DEF PendingOf
  <2>3. \A m \in (DOMAIN mb) \ P : mb[m] \in Children(h[stack[i]]) /\ mb[m] # stack[i + 1]
    BY <1>6 DEF Children
  <2>4. \A m \in (DOMAIN mb) \ P : u[mb[m]] = t[mb[m]]
    BY <2>3, LowerChild
  <2>5. g[stack2[i]].kind = "dict" /\ stack2[i] \in DOMAIN g /\ g[stack2[i]].members = mb
    BY <1>2, <1>3, <1>6
  <2> HIDE DEF P
  <2>6. ContainerOf(h, stack, prev, key1, i) = ShownDict(mb, (DOMAIN mb) \ P, t, pend)
    <3>1. /\ Nested(h) /\ stack[i] \in DOMAIN h /\ h[stack[i]].kind = "dict"
          /\ h[stack[i]].members = mb
      BY <1>1, <1>3, <1>6
    <3> HIDE DEF mb
    <3> QED
      BY <2>1, <3>1, DictContainer
  <2> HIDE DEF mb
  <2>7. ContainerOf(g, stack2, prev2, key2, i) = ShownDict(mb, (DOMAIN mb) \ P, u, pend)
    BY <1>1, <2>2, <2>5, DictContainer
  <2> HIDE DEF t, u, pend
  <2>8. [m \in (DOMAIN mb) \ P |-> u[mb[m]]] = [m \in (DOMAIN mb) \ P |-> t[mb[m]]]
    BY <2>4
  <2>9. ShownDict(mb, (DOMAIN mb) \ P, u, pend) = ShownDict(mb, (DOMAIN mb) \ P, t, pend)
    BY <2>8 DEF ShownDict
  <2> QED
    BY <2>6, <2>7, <2>9
<1> QED
  BY <1>4, <1>5, <1>6

(* A new node shows itself.                                                *)
LEMMA NewTree ==
  ASSUME NEW h, NEW g, NEW box, NEW at, NEW node, NEW from, Forest(g),
         Regrown(h, g, box, at, node, from)
  PROVE  Trees(g)[at] = NodeOf(node, Trees(g))
<1>1. at \in DOMAIN g /\ g[at] = node /\ Nested(g)
  BY DEF Regrown, Forest
<1> QED
  BY <1>1, TreeUnfolds

LEMMA FreshTree ==
  ASSUME NEW t
  PROVE  /\ \A value : NodeOf(Leaf(value), t) = Document!Leaf(value)
         /\ NodeOf(NewArray, t) = Document!EmptyContainer("array")
         /\ NodeOf(NewDict, t) = Document!EmptyContainer("dict")
<1>1. \A value : NodeOf(Leaf(value), t) = Document!Leaf(value)
  BY DEF NodeOf, Leaf, Document!Leaf
<1>2. NodeOf(NewArray, t) = Document!EmptyContainer("array")
  <2>1. NewArray.elements = <<>> /\ NewArray.kind = "array"
    BY DEF NewArray
  <2>2. [k \in DOMAIN <<>> |-> t[<<>>[k]]] = <<>>
    OBVIOUS
  <2>3. [k \in DOMAIN NewArray.elements |-> t[NewArray.elements[k]]] = <<>>
    BY <2>1, <2>2
  <2> QED
    BY <2>1, <2>3 DEF NodeOf, Document!EmptyContainer
<1>3. NodeOf(NewDict, t) = Document!EmptyContainer("dict")
  <2>1. NewDict.kind = "dict" /\ DOMAIN NewDict.members = {}
    BY DEF NewDict
  <2>2. [k \in DOMAIN NewDict.members |-> t[NewDict.members[k]]] = [k \in {} |-> Null]
    BY <2>1
  <2> QED
    BY <2>1, <2>2 DEF NodeOf, Document!EmptyContainer
<1> QED
  BY <1>1, <1>2, <1>3

(* What the document says of a container that receives a node.             *)
ShownLonger(el, n, t, x) ==
  [node |-> [kind |-> "array",
             elements |-> [j \in 1 .. n + 1 |-> IF j = n + 1 THEN x ELSE t[el[j]]]],
   key |-> NoAddress]

LEMMA PutShownArray ==
  ASSUME NEW el, NEW n \in Nat, NEW t, NEW x
  PROVE  Document!Put(ShownArray(el, n, t), x)
           = ShownLonger(el, n, t, x)
<1> DEFINE s == [j \in 1 .. n |-> t[el[j]]]
           r == [kind |-> "array", elements |-> s]
<1>1. s = [j \in 1 .. n |-> s[j]] /\ \A j \in 1 .. n : s[j] = t[el[j]]
  OBVIOUS
<1>2. ShownArray(el, n, t).node = r /\ r.kind = "array" /\ r.elements = s
  BY DEF ShownArray
<1>3. \A q : [r EXCEPT !.elements = q] = [kind |-> "array", elements |-> q]
  <2> HIDE DEF s
  <2> QED
    OBVIOUS
<1> HIDE DEF s, r
<1>4. Append(s, x) = [j \in 1 .. n + 1 |-> IF j = n + 1 THEN x ELSE s[j]]
  BY <1>1, RowAppend
<1>5. [j \in 1 .. n + 1 |-> IF j = n + 1 THEN x ELSE s[j]]
        = [j \in 1 .. n + 1 |-> IF j = n + 1 THEN x ELSE t[el[j]]]
  <2>1. \A j \in 1 .. n + 1 : j # n + 1 => j \in 1 .. n
    OBVIOUS
  <2> QED
    BY <1>1, <2>1
<1>6. Document!Put(ShownArray(el, n, t), x)
        = [node |-> [r EXCEPT !.elements = Append(@, x)], key |-> NoAddress]
  BY <1>2 DEF Document!Put
<1>7. [r EXCEPT !.elements = Append(@, x)] = [kind |-> "array", elements |-> Append(s, x)]
  BY <1>2, <1>3
<1> QED
  BY <1>4, <1>5, <1>6, <1>7 DEF ShownLonger

ShownWith(mb, K, t, k, x) ==
  [node |-> [kind |-> "dict",
             members |-> [m \in K \cup {k} |-> IF m = k THEN x ELSE t[mb[m]]]],
   key |-> NoAddress]

LEMMA PutShownDict ==
  ASSUME NEW mb, NEW K, NEW t, NEW k, NEW x, k \notin K
  PROVE  Document!Put(ShownDict(mb, K, t, k), x) = ShownWith(mb, K, t, k, x)
<1> DEFINE s == [m \in K |-> t[mb[m]]]
           r == [kind |-> "dict", members |-> s]
<1>1. DOMAIN s = K /\ \A m \in K : s[m] = t[mb[m]]
  OBVIOUS
<1>2. /\ ShownDict(mb, K, t, k).node = r /\ ShownDict(mb, K, t, k).key = k
      /\ r.kind = "dict" /\ r.members = s
  BY DEF ShownDict
<1>3. \A q : [r EXCEPT !.members = q] = [kind |-> "dict", members |-> q]
  <2> HIDE DEF s
  <2> QED
    OBVIOUS
<1> HIDE DEF s, r
<1>4. [m \in DOMAIN s \cup {k} |-> IF m = k THEN x ELSE s[m]]
        = [m \in K \cup {k} |-> IF m = k THEN x ELSE t[mb[m]]]
  BY <1>1
<1>5. Document!Put(ShownDict(mb, K, t, k), x)
        = [node |-> [r EXCEPT !.members =
                       [m \in DOMAIN @ \cup {k} |-> IF m = k THEN x ELSE @[m]]],
           key |-> NoAddress]
  BY <1>2 DEF Document!Put
<1>6. [r EXCEPT !.members = [m \in DOMAIN @ \cup {k} |-> IF m = k THEN x ELSE @[m]]]
        = [kind |-> "dict",
           members |-> [m \in DOMAIN s \cup {k} |-> IF m = k THEN x ELSE s[m]]]
  BY <1>2, <1>3
<1> QED
  BY <1>4, <1>5, <1>6 DEF ShownWith

(* The elements of an array that has grown: all but the last show what     *)
(* they showed.                                                            *)
LEMMA GrownElements ==
  ASSUME NEW h, NEW g, NEW stack, NEW box, NEW at, NEW node, NEW k, NEW from,
         Setting(h, g, stack, box, at, node, k, from), h[box].kind = "array"
  PROVE  /\ g[box].kind = "array"
         /\ \E n \in Nat :
              /\ DOMAIN h[box].elements = 1 .. n
              /\ DOMAIN g[box].elements = 1 .. n + 1
              /\ g[box].elements[n + 1] = at
              /\ \A j \in 1 .. n : Trees(g)[g[box].elements[j]] = Trees(h)[h[box].elements[j]]
<1>1. /\ box \in DOMAIN h /\ box \in DOMAIN g /\ Regrown(h, g, box, at, node, from)
  BY SettingFacts
<1>2. ArrayFits(h[box], g[box], at, from)
  BY DEF Setting, Grows
<1>3. PICK n \in Nat :
        /\ DOMAIN h[box].elements = 1 .. n
        /\ g[box].elements = [j \in 1 .. n + 1 |-> g[box].elements[j]]
        /\ g[box].elements[n + 1] = at
        /\ \A j \in 1 .. n : /\ g[box].elements[j] # at
                             /\ from[g[box].elements[j]] = h[box].elements[j]
  BY <1>2 DEF ArrayFits
<1>4. g[box].kind = "array" /\ DOMAIN g[box].elements = 1 .. n + 1
  BY <1>2, <1>3 DEF ArrayFits
<1>5. ASSUME NEW j \in 1 .. n
      PROVE  Trees(g)[g[box].elements[j]] = Trees(h)[h[box].elements[j]]
  <2>1. j \in DOMAIN g[box].elements /\ j \in DOMAIN h[box].elements
    BY <1>3, <1>4
  <2>2. g[box].elements[j] \in Children(g[box]) /\ h[box].elements[j] \in Children(h[box])
    BY <1>4, <2>1 DEF Children
  <2>3. g[box].elements[j] \in DOMAIN g
    BY <1>1, <2>2 DEF Regrown
  <2>4. /\ g[box].elements[j] # at
        /\ from[g[box].elements[j]] = h[box].elements[j]
    BY <1>3
  <2>5. from[g[box].elements[j]] \in Children(h[box])
    BY <2>2, <2>4
  <2>6. Trees(g)[g[box].elements[j]] = Trees(h)[from[g[box].elements[j]]]
    BY <2>3, <2>4, <2>5, TopChild
  <2> QED
    BY <2>4, <2>6
<1> QED
  BY <1>3, <1>4, <1>5

(* The same for a dictionary.                                              *)
LEMMA GrownMembers ==
  ASSUME NEW h, NEW g, NEW stack, NEW box, NEW at, NEW node, NEW k, NEW from,
         Setting(h, g, stack, box, at, node, k, from), h[box].kind = "dict"
  PROVE  /\ g[box].kind = "dict"
         /\ DOMAIN g[box].members = (DOMAIN h[box].members) \cup {k}
         /\ g[box].members[k] = at
         /\ \A m \in (DOMAIN h[box].members) \ {k} :
              /\ g[box].members[m] # at
              /\ Trees(g)[g[box].members[m]] = Trees(h)[h[box].members[m]]
<1>1. /\ box \in DOMAIN h /\ box \in DOMAIN g /\ Regrown(h, g, box, at, node, from)
  BY SettingFacts
<1>2. DictFits(h[box], g[box], k, at, from)
  BY DEF Setting, Grows
<1>3. /\ g[box].kind = "dict"
      /\ DOMAIN g[box].members = (DOMAIN h[box].members) \cup {k}
      /\ g[box].members[k] = at
      /\ \A m \in (DOMAIN h[box].members) \ {k} :
           /\ g[box].members[m] = h[box].members[m]
           /\ h[box].members[m] # at /\ from[h[box].members[m]] = h[box].members[m]
  BY <1>2 DEF DictFits
<1>4. ASSUME NEW m \in (DOMAIN h[box].members) \ {k}
      PROVE  Trees(g)[h[box].members[m]] = Trees(h)[h[box].members[m]]
  <2>1. h[box].members[m] \in Children(g[box])
    BY <1>3 DEF Children
  <2>2. h[box].members[m] \in Children(h[box])
    BY DEF Children
  <2>3. h[box].members[m] \in DOMAIN g
    BY <1>1, <2>1 DEF Regrown
  <2>4. /\ h[box].members[m] # at
        /\ from[h[box].members[m]] = h[box].members[m]
    BY <1>3
  <2>5. from[h[box].members[m]] \in Children(h[box])
    BY <2>2, <2>4
  <2>6. Trees(g)[h[box].members[m]] = Trees(h)[from[h[box].members[m]]]
    BY <2>3, <2>4, <2>5, TopChild
  <2> QED
    BY <2>4, <2>6
<1> QED
  BY <1>3, <1>4

(* The innermost container, before a step and after it.                    *)
LEMMA TopDict ==
  ASSUME NEW h, NEW stack, NEW box, InnermostIs(h, stack, box), Nested(h),
         h[box].kind = "dict"
  PROVE  \A k :
           /\ ContainerOf(h, stack, TRUE, k, Len(stack))
                = ShownDict(h[box].members, (DOMAIN h[box].members) \ {k}, Trees(h), k)
           /\ ContainerOf(h, stack, FALSE, k, Len(stack))
                = ShownDict(h[box].members, DOMAIN h[box].members, Trees(h), NoAddress)
<1> TAKE k
<1> DEFINE i == Len(stack)
<1>0. /\ box = stack[i] /\ stack[i] \in DOMAIN h /\ h[stack[i]].kind = "dict"
      /\ i = Len(stack)
  BY DEF InnermostIs
<1>1. PendingOf(h, stack, TRUE, k, i) = {k} /\ PendingOf(h, stack, FALSE, k, i) = {}
  BY <1>0 DEF PendingOf
<1>2. KeyAmong({k}) = k /\ KeyAmong({}) = NoAddress
  BY DEF KeyAmong
<1> HIDE DEF i
<1>3. ContainerOf(h, stack, TRUE, k, i)
        = ShownDict(h[stack[i]].members, (DOMAIN h[stack[i]].members) \ {k}, Trees(h), k)
  <2>1. ContainerOf(h, stack, TRUE, k, i)
          = ShownDict(h[stack[i]].members,
                      (DOMAIN h[stack[i]].members) \ PendingOf(h, stack, TRUE, k, i),
                      Trees(h), KeyAmong(PendingOf(h, stack, TRUE, k, i)))
    BY <1>0, DictContainer
  <2> QED
    BY <1>1, <1>2, <2>1
<1>4. ContainerOf(h, stack, FALSE, k, i)
        = ShownDict(h[stack[i]].members, DOMAIN h[stack[i]].members, Trees(h), NoAddress)
  <2>1. ContainerOf(h, stack, FALSE, k, i)
          = ShownDict(h[stack[i]].members,
                      (DOMAIN h[stack[i]].members) \ PendingOf(h, stack, FALSE, k, i),
                      Trees(h), KeyAmong(PendingOf(h, stack, FALSE, k, i)))
    BY <1>0, DictContainer
  <2>2. (DOMAIN h[stack[i]].members) \ {} = DOMAIN h[stack[i]].members
    OBVIOUS
  <2> QED
    BY <1>1, <1>2, <2>1, <2>2
<1> QED
  BY <1>0, <1>3, <1>4

LEMMA TopArray ==
  ASSUME NEW h, NEW stack, NEW box, InnermostIs(h, stack, box), Nested(h),
         h[box].kind = "array", NEW n \in Nat, DOMAIN h[box].elements = 1 .. n
  PROVE  \A prev, k : ContainerOf(h, stack, prev, k, Len(stack))
                        = ShownArray(h[box].elements, n, Trees(h))
<1> TAKE prev, k
<1> DEFINE i == Len(stack)
<1>0. /\ box = stack[i] /\ stack[i] \in DOMAIN h /\ h[stack[i]].kind = "array"
      /\ DOMAIN h[stack[i]].elements = 1 .. n /\ i = Len(stack)
  BY DEF InnermostIs
<1> HIDE DEF i
<1>1. ContainerOf(h, stack, prev, k, i)
        = ShownArray(h[stack[i]].elements, IF i = Len(stack) THEN n ELSE n - 1, Trees(h))
  BY <1>0, ArrayContainer
<1> QED
  BY <1>0, <1>1

(* The same told of a flag.                                                *)
IsTrue(p) == p = TRUE
IsFalse(p) == p = FALSE

ShownBut(members, t, k) == ShownDict(members, (DOMAIN members) \ {k}, t, k)
ShownAll(members, t) == ShownDict(members, DOMAIN members, t, NoAddress)

LEMMA TopDictBy ==
  ASSUME NEW h, NEW stack, NEW box, InnermostIs(h, stack, box), Nested(h),
         h[box].kind = "dict"
  PROVE  \A p, k :
           /\ IsTrue(p) =>
                ContainerOf(h, stack, p, k, Len(stack))
                  = ShownBut(h[box].members, Trees(h), k)
           /\ IsFalse(p) =>
                ContainerOf(h, stack, p, k, Len(stack))
                  = ShownAll(h[box].members, Trees(h))
<1>1. \A k :
        /\ ContainerOf(h, stack, TRUE, k, Len(stack))
             = ShownBut(h[box].members, Trees(h), k)
        /\ ContainerOf(h, stack, FALSE, k, Len(stack))
             = ShownAll(h[box].members, Trees(h))
  BY TopDict DEF ShownBut, ShownAll
<1>2. \A p, k :
        /\ IsTrue(p) => ContainerOf(h, stack, p, k, Len(stack))
                          = ContainerOf(h, stack, TRUE, k, Len(stack))
        /\ IsFalse(p) => ContainerOf(h, stack, p, k, Len(stack))
                           = ContainerOf(h, stack, FALSE, k, Len(stack))
  BY Zenon DEF IsTrue, IsFalse
<1> QED
  BY <1>1, <1>2, Zenon

(* Whether a container may take a value.                                   *)
MayTake(kind, prev) == kind = "array" \/ (kind = "dict" /\ IsTrue(prev))

(* A value goes behind the last element, or to the pending key.            *)
LEMMA ValueTop ==
  ASSUME NEW h, NEW g, NEW stack, NEW box, NEW at, NEW node, NEW k, NEW from,
         Setting(h, g, stack, box, at, node, k, from),
         NEW prev, MayTake(h[box].kind, prev), NEW key2, NEW flag, IsFalse(flag)
  PROVE  ContainerOf(g, stack, flag, key2, Len(stack))
           = Document!Put(ContainerOf(h, stack, prev, k, Len(stack)), Trees(g)[at])
<1> DEFINE i == Len(stack)
           t == Trees(h)
           u == Trees(g)
           x == u[at]
<1>1. /\ Nested(h) /\ Nested(g) /\ box = stack[Len(stack)]
      /\ InnermostIs(h, stack, box) /\ InnermostIs(g, stack, box)
  BY SettingFacts DEF InnermostIs
<1>2. CASE h[box].kind = "array"
  <2>1. PICK n \in Nat :
          /\ DOMAIN h[box].elements = 1 .. n
          /\ DOMAIN g[box].elements = 1 .. n + 1
          /\ g[box].elements[n + 1] = at
          /\ \A j \in 1 .. n : u[g[box].elements[j]] = t[h[box].elements[j]]
    BY <1>2, GrownElements
  <2>2. g[box].kind = "array"
    BY <1>2, GrownElements
  <2> DEFINE el == h[box].elements
             el2 == g[box].elements
  <2>3. ContainerOf(h, stack, prev, k, i) = ShownArray(el, n, t)
    BY <1>1, <1>2, <2>1, TopArray
  <2>4. ContainerOf(g, stack, flag, key2, i) = ShownArray(el2, n + 1, u)
    <3> DEFINE N == n + 1
    <3>1. N \in Nat /\ DOMAIN g[box].elements = 1 .. N
      BY <2>1
    <3> HIDE DEF N, el2, u, i
    <3>2. ContainerOf(g, stack, flag, key2, Len(stack)) = ShownArray(g[box].elements, N, Trees(g))
      BY <1>1, <2>2, <3>1, TopArray
    <3> QED
      BY <3>2 DEF N, el2, u, i
  <2>5. \A j \in 1 .. n + 1 : u[el2[j]] = IF j = n + 1 THEN x ELSE t[el[j]]
    <3>1. \A j \in 1 .. n + 1 : j # n + 1 => j \in 1 .. n
      OBVIOUS
    <3> QED
      BY <2>1, <3>1
  <2> HIDE DEF el, el2, t, u, x, i
  <2>6. [j \in 1 .. n + 1 |-> u[el2[j]]]
          = [j \in 1 .. n + 1 |-> IF j = n + 1 THEN x ELSE t[el[j]]]
    BY <2>5
  <2>7. Document!Put(ShownArray(el, n, t), x) = ShownArray(el2, n + 1, u)
    <3>1. Document!Put(ShownArray(el, n, t), x)
            = ShownLonger(el, n, t, x)
      BY PutShownArray
    <3> QED
      BY <2>6, <3>1 DEF ShownArray, ShownLonger
  <2> QED
    BY <2>3, <2>4, <2>7 DEF i, x, u
<1>3. CASE h[box].kind = "dict"
  <2>1. /\ g[box].kind = "dict"
        /\ DOMAIN g[box].members = (DOMAIN h[box].members) \cup {k}
        /\ g[box].members[k] = at
        /\ \A m \in (DOMAIN h[box].members) \ {k} :
             u[g[box].members[m]] = t[h[box].members[m]]
    BY <1>3, GrownMembers
  <2> DEFINE mb == h[box].members
             mb2 == g[box].members
  <2>2. IsTrue(prev)
    BY <1>3 DEF MayTake
  <2>3. ContainerOf(h, stack, prev, k, i) = ShownDict(mb, (DOMAIN mb) \ {k}, t, k)
    BY <1>1, <1>3, <2>2, TopDictBy DEF ShownBut
  <2>4. ContainerOf(g, stack, flag, key2, i) = ShownDict(mb2, DOMAIN mb2, u, NoAddress)
    <3>1. \A e : ContainerOf(g, stack, flag, e, Len(stack))
                  = ShownAll(g[box].members, Trees(g))
      <4>1. InnermostIs(g, stack, box) /\ Nested(g) /\ g[box].kind = "dict"
        BY <1>1, <2>1
      <4> HIDE DEF mb2, u, i
      <4> QED
        BY <4>1, TopDictBy
    <3> QED
      BY <3>1 DEF ShownAll
  <2>5. \A m \in (DOMAIN mb) \cup {k} : u[mb2[m]] = IF m = k THEN x ELSE t[mb[m]]
    BY <2>1
  <2>6. DOMAIN mb2 = ((DOMAIN mb) \ {k}) \cup {k} /\ k \notin (DOMAIN mb) \ {k}
    BY <2>1
  <2> HIDE DEF mb, mb2, t, u, x, i
  <2>7. [m \in DOMAIN mb2 |-> u[mb2[m]]]
          = [m \in ((DOMAIN mb) \ {k}) \cup {k} |-> IF m = k THEN x ELSE t[mb[m]]]
    BY <2>5, <2>6
  <2>8. Document!Put(ShownDict(mb, (DOMAIN mb) \ {k}, t, k), x)
          = ShownDict(mb2, DOMAIN mb2, u, NoAddress)
    <3> DEFINE K == (DOMAIN mb) \ {k}
    <3>1. k \notin K
      OBVIOUS
    <3> HIDE DEF K
    <3>2. Document!Put(ShownDict(mb, K, t, k), x) = ShownWith(mb, K, t, k, x)
      BY <3>1, PutShownDict
    <3> QED
      BY <2>7, <3>2 DEF ShownDict, ShownWith, K
  <2> QED
    BY <2>3, <2>4, <2>8 DEF i, x, u
<1> QED
  BY <1>2, <1>3 DEF MayTake

(* Opening a container changes nothing the document says of the one around *)
(* it: the new one is the part that is still being built.                  *)
LEMMA StartTop ==
  ASSUME NEW h, NEW g, NEW stack, NEW box, NEW at, NEW node, NEW k, NEW from,
         Setting(h, g, stack, box, at, node, k, from),
         NEW prev, MayTake(h[box].kind, prev),
         NEW stack2, Len(stack2) = Len(stack) + 1, stack2[Len(stack)] = box,
         stack2[Len(stack) + 1] = at, NEW prev2, NEW key2
  PROVE  ContainerOf(g, stack2, prev2, key2, Len(stack))
           = ContainerOf(h, stack, prev, k, Len(stack))
<1> DEFINE i == Len(stack)
           t == Trees(h)
           u == Trees(g)
<1>1. /\ Nested(h) /\ Nested(g) /\ box \in DOMAIN h /\ box \in DOMAIN g /\ box = stack[i]
      /\ i \in Nat /\ Apart(g[box]) /\ InnermostIs(h, stack, box)
  BY SettingFacts DEF Forest
<1>2. i # Len(stack2) /\ stack2[i] = box /\ stack2[i + 1] = at
  BY <1>1
<1>3. CASE h[box].kind = "array"
  <2>1. PICK n \in Nat :
          /\ DOMAIN h[box].elements = 1 .. n
          /\ DOMAIN g[box].elements = 1 .. n + 1
          /\ \A j \in 1 .. n : u[g[box].elements[j]] = t[h[box].elements[j]]
    BY <1>3, GrownElements
  <2>2. g[box].kind = "array"
    BY <1>3, GrownElements
  <2> DEFINE el == h[box].elements
             el2 == g[box].elements
  <2>3. ContainerOf(h, stack, prev, k, i) = ShownArray(el, n, t)
    BY <1>1, <1>3, <2>1, TopArray
  <2>4. ContainerOf(g, stack2, prev2, key2, i) = ShownArray(el2, n, u)
    <3>1. n + 1 \in Nat /\ n + 1 > 0 /\ (n + 1) - 1 = n
      OBVIOUS
    <3>2. stack2[i] \in DOMAIN g /\ g[stack2[i]].kind = "array"
          /\ DOMAIN g[stack2[i]].elements = 1 .. n + 1
      BY <1>1, <1>2, <2>1, <2>2
    <3> HIDE DEF i
    <3>3. ContainerOf(g, stack2, prev2, key2, i)
            = ShownArray(g[stack2[i]].elements,
                         IF i = Len(stack2) THEN n + 1 ELSE (n + 1) - 1, Trees(g))
      BY <1>1, <3>1, <3>2, ArrayContainer
    <3> QED
      BY <1>2, <3>1, <3>3
  <2>5. \A j \in 1 .. n : u[el2[j]] = t[el[j]]
    BY <2>1
  <2> HIDE DEF el, el2, t, u, i
  <2>6. [j \in 1 .. n |-> u[el2[j]]] = [j \in 1 .. n |-> t[el[j]]]
    BY <2>5
  <2> QED
    BY <2>3, <2>4, <2>6 DEF i, ShownArray
<1>4. CASE h[box].kind = "dict"
  <2>1. /\ g[box].kind = "dict"
        /\ DOMAIN g[box].members = (DOMAIN h[box].members) \cup {k}
        /\ g[box].members[k] = at
        /\ \A m \in (DOMAIN h[box].members) \ {k} :
             /\ g[box].members[m] # at
             /\ u[g[box].members[m]] = t[h[box].members[m]]
    BY <1>4, GrownMembers
  <2> DEFINE mb == h[box].members
             mb2 == g[box].members
  <2>2. IsTrue(prev)
    BY <1>4 DEF MayTake
  <2>3. ContainerOf(h, stack, prev, k, i) = ShownDict(mb, (DOMAIN mb) \ {k}, t, k)
    <3>1. InnermostIs(h, stack, box) /\ Nested(h) /\ h[box].kind = "dict"
      BY <1>1, <1>4
    <3>2. ContainerOf(h, stack, prev, k, Len(stack))
            = ShownBut(h[box].members, Trees(h), k)
      <4> HIDE DEF i, t, u, mb, mb2
      <4> QED
        BY <2>2, <3>1, TopDictBy
    <3> QED
      BY <3>2 DEF ShownBut
  <2>4. PendingOf(g, stack2, prev2, key2, i) = {k}
    <3>1. PendingOf(g, stack2, prev2, key2, i) = {m \in DOMAIN mb2 : mb2[m] = at}
      BY <1>2, <2>1 DEF PendingOf
    <3> QED
      BY <2>1, <3>1
  <2>5. ContainerOf(g, stack2, prev2, key2, i)
          = ShownDict(mb2, (DOMAIN mb2) \ {k}, u, k)
    <3>1. KeyAmong({k}) = k
      BY DEF KeyAmong
    <3>2. stack2[i] \in DOMAIN g /\ g[stack2[i]].kind = "dict" /\ g[stack2[i]].members = mb2
      BY <1>1, <1>2, <2>1
    <3> HIDE DEF i, mb2
    <3>3. ContainerOf(g, stack2, prev2, key2, i)
            = ShownDict(g[stack2[i]].members,
                        (DOMAIN g[stack2[i]].members) \ PendingOf(g, stack2, prev2, key2, i),
                        Trees(g), KeyAmong(PendingOf(g, stack2, prev2, key2, i)))
      BY <1>1, <3>2, DictContainer
    <3> QED
      BY <2>4, <3>1, <3>2, <3>3
  <2>6. (DOMAIN mb2) \ {k} = (DOMAIN mb) \ {k}
    BY <2>1
  <2>7. \A m \in (DOMAIN mb) \ {k} : u[mb2[m]] = t[mb[m]]
    BY <2>1
  <2> HIDE DEF mb, mb2, t, u, i
  <2>8. [m \in (DOMAIN mb2) \ {k} |-> u[mb2[m]]] = [m \in (DOMAIN mb) \ {k} |-> t[mb[m]]]
    BY <2>6, <2>7
  <2> QED
    BY <2>3, <2>5, <2>8 DEF i, ShownDict
<1> QED
  BY <1>3, <1>4 DEF MayTake

(* A new key hides nothing but itself.                                     *)
LEMMA KeyTop ==
  ASSUME NEW h, NEW g, NEW stack, NEW box, NEW at, NEW node, NEW k, NEW from,
         Setting(h, g, stack, box, at, node, k, from), h[box].kind = "dict", NEW p, IsTrue(p)
  PROVE  ContainerOf(g, stack, p, k, Len(stack))
           = ShownBut(h[box].members, Trees(h), k)
<1> DEFINE i == Len(stack)
           t == Trees(h)
           u == Trees(g)
           mb == h[box].members
           mb2 == g[box].members
<1>1. /\ Nested(h) /\ Nested(g) /\ box = stack[Len(stack)]
      /\ InnermostIs(h, stack, box) /\ InnermostIs(g, stack, box)
  BY SettingFacts DEF InnermostIs
<1>2. /\ g[box].kind = "dict"
      /\ DOMAIN mb2 = (DOMAIN mb) \cup {k}
      /\ \A m \in (DOMAIN mb) \ {k} : u[mb2[m]] = t[mb[m]]
  BY GrownMembers
<1>3. ContainerOf(g, stack, TRUE, k, i) = ShownDict(mb2, (DOMAIN mb2) \ {k}, u, k)
  <2>1. InnermostIs(g, stack, box) /\ Nested(g) /\ g[box].kind = "dict"
    BY <1>1, <1>2
  <2> QED
    BY <2>1, TopDict
<1>4. (DOMAIN mb2) \ {k} = (DOMAIN mb) \ {k}
  BY <1>2
<1> HIDE DEF i, t, u, mb, mb2
<1>6. ContainerOf(g, stack, p, k, i) = ContainerOf(g, stack, TRUE, k, i)
  BY Zenon DEF IsTrue
<1>5. [m \in (DOMAIN mb2) \ {k} |-> u[mb2[m]]] = [m \in (DOMAIN mb) \ {k} |-> t[mb[m]]]
  BY <1>2, <1>4
<1> QED
  BY <1>3, <1>5, <1>6 DEF ShownDict, ShownBut, i, t, mb

(* Closing the innermost container makes it the last element or the        *)
(* pending member of the one around it.                                    *)
LEMMA EndTop ==
  ASSUME NEW h, NEW stack, Forest(h), Line(h, stack), Shaped(h, stack), Len(stack) > 1,
         NEW stack2, Len(stack2) = Len(stack) - 1,
         \A j \in 1 .. Len(stack) - 1 : stack2[j] = stack[j],
         NEW prev, NEW key1, NEW key2, NEW flag, IsFalse(flag)
  PROVE  ContainerOf(h, stack2, flag, key2, Len(stack2))
           = Document!Put(ContainerOf(h, stack, prev, key1, Len(stack2)),
                          Trees(h)[stack[Len(stack)]])
<1> DEFINE i == Len(stack2)
           t == Trees(h)
           c == stack[Len(stack)]
           b == stack[i]
           x == t[c]
<1>1. /\ Len(stack) \in Nat /\ i \in 1 .. Len(stack) - 1 /\ i \in 1 .. Len(stack)
      /\ i + 1 = Len(stack) /\ i # Len(stack) /\ i > 0 /\ stack2[i] = b
  BY DEF Line
<1>2. b \in DOMAIN h /\ Nested(h) /\ Apart(h[b]) /\ stack[i + 1] = c /\ stack[i] = b
  BY <1>1 DEF Line, Forest
<1>3. InnermostIs(h, stack2, b)
  BY <1>1, <1>2 DEF InnermostIs
<1>4. h[b].kind \in {"array", "dict"}
  BY <1>1, <1>2 DEF Shaped
<1>5. CASE h[b].kind = "array"
  <2> DEFINE el == h[b].elements
  <2>1. PICK n \in Nat : DOMAIN el = 1 .. n /\ n > 0 /\ el[n] = c
    BY <1>1, <1>2, <1>5 DEF Shaped
  <2> DEFINE m == n - 1
  <2>2. m \in Nat /\ m + 1 = n
    BY <2>1
  <2> HIDE DEF i, t, x, b, c, m
  <2>3. ContainerOf(h, stack, prev, key1, i) = ShownArray(el, m, t)
    <3>1. ContainerOf(h, stack, prev, key1, i)
            = ShownArray(h[stack[i]].elements, IF i = Len(stack) THEN n ELSE n - 1, Trees(h))
      <4>1. stack[i] \in DOMAIN h /\ h[stack[i]].kind = "array"
        BY <1>2, <1>5
      <4>2. DOMAIN h[stack[i]].elements = 1 .. n /\ n > 0 /\ n \in Nat
        BY <1>2, <2>1
      <4>3. Nested(h)
        BY <1>2
      <4> QED
        BY <4>1, <4>2, <4>3, ArrayContainer
    <3> QED
      BY <1>1, <1>2, <3>1 DEF t, m
  <2>4. ContainerOf(h, stack2, flag, key2, i) = ShownArray(el, n, t)
    <3>1. DOMAIN h[b].elements = 1 .. n /\ n \in Nat
      BY <2>1
    <3>2. \A q, k : ContainerOf(h, stack2, q, k, Len(stack2))
                     = ShownArray(h[b].elements, n, Trees(h))
      BY <1>2, <1>3, <1>5, <3>1, TopArray
    <3> QED
      BY <3>2 DEF t, i
  <2> HIDE DEF el
  <2>5. Document!Put(ShownArray(el, m, t), x)
          = ShownLonger(el, m, t, x)
    BY <2>2, PutShownArray
  <2>6. [j \in 1 .. m + 1 |-> IF j = m + 1 THEN x ELSE t[el[j]]] = [j \in 1 .. n |-> t[el[j]]]
    BY <2>1, <2>2 DEF x
  <2>7. Document!Put(ShownArray(el, m, t), x) = ShownArray(el, n, t)
    BY <2>5, <2>6 DEF ShownArray, ShownLonger
  <2> QED
    BY <2>3, <2>4, <2>7 DEF i, x, t, c
<1>6. CASE h[b].kind = "dict"
  <2> DEFINE mb == h[b].members
  <2>1. PICK p \in DOMAIN mb : mb[p] = c
    BY <1>1, <1>2, <1>6 DEF Shaped
  <2>2. \A m \in DOMAIN mb : mb[m] = c => m = p
    BY <1>2, <1>6, <2>1 DEF Apart
  <2>3. PendingOf(h, stack, prev, key1, i) = {p}
    <3>1. PendingOf(h, stack, prev, key1, i) = {m \in DOMAIN mb : mb[m] = c}
      BY <1>1, <1>2, <1>6 DEF PendingOf
    <3> QED
      BY <2>1, <2>2, <3>1
  <2>4. KeyAmong({p}) = p
    BY DEF KeyAmong
  <2> HIDE DEF i, t, x, b, c
  <2>5. ContainerOf(h, stack, prev, key1, i) = ShownDict(mb, (DOMAIN mb) \ {p}, t, p)
    <3>1. stack[i] \in DOMAIN h /\ h[stack[i]].kind = "dict" /\ h[stack[i]].members = mb
      BY <1>2, <1>6
    <3> HIDE DEF mb
    <3>2. ContainerOf(h, stack, prev, key1, i)
            = ShownDict(h[stack[i]].members,
                        (DOMAIN h[stack[i]].members) \ PendingOf(h, stack, prev, key1, i),
                        Trees(h), KeyAmong(PendingOf(h, stack, prev, key1, i)))
      BY <1>2, <3>1, DictContainer
    <3> QED
      BY <2>3, <2>4, <3>1, <3>2 DEF t
  <2>6. ContainerOf(h, stack2, flag, key2, i) = ShownDict(mb, DOMAIN mb, t, NoAddress)
    <3>1. ContainerOf(h, stack2, flag, key2, Len(stack2))
            = ShownDict(h[b].members, DOMAIN h[b].members, Trees(h), NoAddress)
      <4>1. \A k : ContainerOf(h, stack2, flag, k, Len(stack2))
                     = ShownAll(h[b].members, Trees(h))
        <5>1. InnermostIs(h, stack2, b) /\ Nested(h) /\ h[b].kind = "dict"
          BY <1>2, <1>3, <1>6
        <5> HIDE DEF mb
        <5> QED
          BY <5>1, TopDictBy
      <4> QED
        BY <4>1 DEF ShownAll
    <3> QED
      BY <3>1 DEF t, i
  <2> HIDE DEF mb
  <2> DEFINE K == (DOMAIN mb) \ {p}
  <2>7. p \notin K /\ K \cup {p} = DOMAIN mb
    BY <2>1
  <2> HIDE DEF K
  <2>8. Document!Put(ShownDict(mb, K, t, p), x) = ShownWith(mb, K, t, p, x)
    BY <2>7, PutShownDict
  <2>9. [m \in K \cup {p} |-> IF m = p THEN x ELSE t[mb[m]]] = [m \in DOMAIN mb |-> t[mb[m]]]
    BY <2>1, <2>7 DEF x
  <2>10. ShownWith(mb, K, t, p, x) = ShownDict(mb, DOMAIN mb, t, NoAddress)
    BY <2>9 DEF ShownWith, ShownDict
  <2> QED
    BY <2>5, <2>6, <2>8, <2>10 DEF i, x, t, c, K
<1> QED
  BY <1>4, <1>5, <1>6

(* What the innermost container says of itself.                            *)
Says(now, keyed, kind, tree, k) ==
  /\ kind \in {"array", "dict"}
  /\ now.node = tree /\ now.node.kind = kind /\ now.key = NoAddress
  /\ keyed.node.kind = kind
  /\ keyed.key = IF kind = "dict" THEN k ELSE NoAddress

LEMMA TopSays ==
  ASSUME NEW h, NEW stack, NEW box, InnermostIs(h, stack, box), Nested(h), Shaped(h, stack),
         Len(stack) \in Nat
  PROVE  \A k : Says(ContainerOf(h, stack, FALSE, k, Len(stack)),
                     ContainerOf(h, stack, TRUE, k, Len(stack)),
                     h[box].kind, Trees(h)[box], k)
<1> SUFFICES ASSUME NEW k
             PROVE  Says(ContainerOf(h, stack, FALSE, k, Len(stack)),
                         ContainerOf(h, stack, TRUE, k, Len(stack)),
                         h[box].kind, Trees(h)[box], k)
  OBVIOUS
<1> DEFINE now == ContainerOf(h, stack, FALSE, k, Len(stack))
           keyed == ContainerOf(h, stack, TRUE, k, Len(stack))
<1>1. box \in DOMAIN h /\ Len(stack) \in 1 .. Len(stack) /\ box = stack[Len(stack)]
  BY DEF InnermostIs
<1>2. h[box].kind \in {"array", "dict"}
  BY <1>1 DEF Shaped
<1>3. Trees(h)[box] = NodeOf(h[box], Trees(h))
  BY <1>1, TreeUnfolds
<1>4. CASE h[box].kind = "array"
  <2>1. PICK n \in Nat : DOMAIN h[box].elements = 1 .. n
    BY <1>1, <1>4 DEF Shaped
  <2>2. /\ now = ShownArray(h[box].elements, n, Trees(h))
        /\ keyed = ShownArray(h[box].elements, n, Trees(h))
    BY <1>4, <2>1, TopArray
  <2>3. Trees(h)[box]
          = [kind |-> "array", elements |-> [j \in 1 .. n |-> Trees(h)[h[box].elements[j]]]]
    BY <1>3, <1>4, <2>1 DEF NodeOf
  <2> HIDE DEF now, keyed
  <2>4. now.node = Trees(h)[box] /\ now.node.kind = "array" /\ now.key = NoAddress
    BY <2>2, <2>3 DEF ShownArray
  <2>5. keyed.node.kind = "array" /\ keyed.key = NoAddress
    BY <2>2 DEF ShownArray
  <2> QED
    BY <1>4, <2>4, <2>5 DEF now, keyed, Says
<1>5. CASE h[box].kind = "dict"
  <2>1. keyed = ShownDict(h[box].members, (DOMAIN h[box].members) \ {k}, Trees(h), k)
    BY <1>5, TopDict, Zenon
  <2>2. now = ShownDict(h[box].members, DOMAIN h[box].members, Trees(h), NoAddress)
    BY <1>5, TopDict, Zenon
  <2>3. Trees(h)[box]
          = [kind |-> "dict",
             members |-> [m \in DOMAIN h[box].members |-> Trees(h)[h[box].members[m]]]]
    BY <1>3, <1>5 DEF NodeOf
  <2> HIDE DEF now, keyed
  <2>4. now.node = Trees(h)[box] /\ now.node.kind = "dict" /\ now.key = NoAddress
    BY <2>2, <2>3 DEF ShownDict
  <2>5. keyed.node.kind = "dict" /\ keyed.key = k
    BY <2>1 DEF ShownDict
  <2> QED
    BY <1>5, <2>4, <2>5 DEF now, keyed, Says
<1> QED
  BY <1>2, <1>4, <1>5

(* What is not innermost does not depend on the key that is pending.       *)
LEMMA LowerSame ==
  ASSUME NEW h, NEW stack, NEW stack2, NEW i, i # Len(stack), i # Len(stack2),
         stack2[i] = stack[i], stack2[i + 1] = stack[i + 1]
  PROVE  \A prev, key1, prev2, key2 :
           ContainerOf(h, stack2, prev2, key2, i) = ContainerOf(h, stack, prev, key1, i)
<1>1. \A prev, key1, prev2, key2 :
        PendingOf(h, stack2, prev2, key2, i) = PendingOf(h, stack, prev, key1, i)
  BY DEF PendingOf
<1> QED
  BY <1>1, ZenonT(30) DEF ContainerOf

-----------------------------------------------------------------------------
(* The row of open containers.                                             *)

Row(h, stack, prev, k) == [i \in 1 .. Len(stack) |-> ContainerOf(h, stack, prev, k, i)]

IsRow(s, n) == s = [i \in 1 .. n |-> s[i]]

LEMMA RowIsRow ==
  ASSUME NEW h, NEW stack, NEW prev, NEW k, Len(stack) \in Nat
  PROVE  /\ IsRow(Row(h, stack, prev, k), Len(stack))
         /\ Len(Row(h, stack, prev, k)) = Len(stack)
         /\ Len(stack) = 0 => Row(h, stack, prev, k) = <<>>
         /\ Len(stack) > 0 => Row(h, stack, prev, k) # <<>>
         /\ \A i \in 1 .. Len(stack) :
              Row(h, stack, prev, k)[i] = ContainerOf(h, stack, prev, k, i)
<1> DEFINE s == Row(h, stack, prev, k)
           n == Len(stack)
<1>1. IsRow(s, n) /\ \A i \in 1 .. n : s[i] = ContainerOf(h, stack, prev, k, i)
  BY DEF Row, IsRow
<1> HIDE DEF s
<1>2. s \in Seq({s[i] : i \in 1 .. n}) /\ Len(s) = n
  BY <1>1 DEF IsRow
<1> QED
  BY <1>1, <1>2 DEF s

LEMMA FrontIsRow ==
  ASSUME NEW s, NEW n \in Nat, n > 0, IsRow(s, n)
  PROVE  /\ IsRow(Document!Front(s), n - 1) /\ Len(s) = n /\ Len(Document!Front(s)) = n - 1
         /\ \A i \in 1 .. n - 1 : Document!Front(s)[i] = s[i]
         /\ n = 1 => Document!Front(s) = <<>>
         /\ n > 1 => Document!Front(s) # <<>>
<1> DEFINE f == Document!Front(s)
<1>1. Len(s) = n /\ f = [j \in 1 .. n - 1 |-> s[j]]
  BY RowFront DEF Document!Front, IsRow
<1> HIDE DEF f
<1>2. n - 1 \in Nat /\ Len(f) = n - 1
  BY <1>1
<1>3. IsRow(f, n - 1) /\ \A i \in 1 .. n - 1 : f[i] = s[i]
  BY <1>1 DEF IsRow
<1> QED
  BY <1>1, <1>2, <1>3 DEF f

(* A row that differs in its last container, and one with one more.        *)
LEMMA RowReplaced ==
  ASSUME NEW s, NEW s2, NEW n \in Nat, n > 0, IsRow(s, n), IsRow(s2, n),
         \A i \in 1 .. n - 1 : s2[i] = s[i]
  PROVE  s2 = Append(Document!Front(s), s2[n])
<1> DEFINE f == Document!Front(s)
           m == n - 1
<1>1. IsRow(f, m) /\ \A i \in 1 .. m : f[i] = s[i]
  BY FrontIsRow
<1>2. m \in Nat /\ m + 1 = n
  OBVIOUS
<1> HIDE DEF f, m
<1>3. Append(f, s2[n]) = [j \in 1 .. m + 1 |-> IF j = m + 1 THEN s2[n] ELSE f[j]]
  BY <1>1, <1>2, RowAppend DEF IsRow
<1>4. \A j \in 1 .. n : s2[j] = IF j = n THEN s2[n] ELSE f[j]
  BY <1>1, <1>2 DEF m
<1>5. s2 = [j \in 1 .. n |-> IF j = n THEN s2[n] ELSE f[j]]
  BY <1>4 DEF IsRow
<1> QED
  BY <1>2, <1>3, <1>5 DEF f

LEMMA RowLonger ==
  ASSUME NEW s, NEW s2, NEW n \in Nat, IsRow(s, n), IsRow(s2, n + 1),
         \A i \in 1 .. n : s2[i] = s[i]
  PROVE  s2 = Append(s, s2[n + 1])
<1>1. Append(s, s2[n + 1]) = [j \in 1 .. n + 1 |-> IF j = n + 1 THEN s2[n + 1] ELSE s[j]]
  BY RowAppend DEF IsRow
<1>2. \A j \in 1 .. n + 1 : s2[j] = IF j = n + 1 THEN s2[n + 1] ELSE s[j]
  OBVIOUS
<1>3. s2 = [j \in 1 .. n + 1 |-> IF j = n + 1 THEN s2[n + 1] ELSE s[j]]
  BY <1>2 DEF IsRow
<1> QED
  BY <1>1, <1>3

-----------------------------------------------------------------------------
(* The document that the builder's state stands for.                       *)

Containers == IF phase = "broken" THEN <<>> ELSE [i \in 1 .. Depth |-> OpenContainer(i)]

RowNow == Row(heap, node_stack, is_previous_key, key)
RowNext == Row(heap', node_stack', is_previous_key', key')

LEMMA ContainersNow == phase # "broken" => Containers = RowNow
BY ContainerNow DEF Containers, RowNow, Row, Depth

LEMMA ContainersNext == phase' # "broken" => Containers' = RowNext
BY ContainerNext DEF Containers, RowNext, Row, Depth

(* The steps of the document, told of the containers.                      *)
LEMMA DocumentBreaks == phase' = "broken" => Document!BreakGrammar
BY DEF Document!BreakGrammar, Document!Leaf, Leaf

LEMMA DocumentKey ==
  ASSUME NEW k, phase = "building", phase' = "building", root' = root, Containers # <<>>,
         NEW top, top = Containers[Len(Containers)], top.node.kind = "dict",
         top.key = NoAddress,
         Containers' = Append(Document!Front(Containers),
                              [node |-> [top.node EXCEPT !.members = Document!Without(@, k)],
                               key |-> k])
  PROVE  Document!Key(k)
BY DEF Document!Key, Document!MayKey, Document!Takes, Document!Top, Containers

MayReceive ==
  /\ phase = "building"
  /\ \/ Containers = <<>>
     \/ /\ Containers # <<>>
        /\ \/ Containers[Len(Containers)].node.kind = "array"
           \/ /\ Containers[Len(Containers)].node.kind = "dict"
              /\ Containers[Len(Containers)].key # NoAddress

LEMMA DocumentFirstValue ==
  ASSUME NEW value, MayReceive, Containers = <<>>, phase' = "done", root' = Leaf(value),
         Containers' = <<>>
  PROVE  Document!Value(value)
BY DEF MayReceive, Document!Value, Document!MayValue, Document!Takes, Document!Top,
       Document!Receive, Document!Leaf, Leaf, Containers

LEMMA DocumentValue ==
  ASSUME NEW value, MayReceive, Containers # <<>>, phase' = "building", root' = root,
         Containers' = Append(Document!Front(Containers),
                              Document!Put(Containers[Len(Containers)], Document!Leaf(value)))
  PROVE  Document!Value(value)
BY DEF MayReceive, Document!Value, Document!MayValue, Document!Takes, Document!Top,
       Document!Receive, Containers

LEMMA DocumentStart ==
  ASSUME NEW kind, MayReceive, phase' = "building", root' = root,
         Containers' = Append(Containers,
                              [node |-> Document!EmptyContainer(kind), key |-> NoAddress])
  PROVE  Document!Start(kind)
BY DEF MayReceive, Document!Start, Document!MayValue, Document!Takes, Document!Top,
       Containers

MayClose(kind) ==
  /\ phase = "building" /\ Containers # <<>>
  /\ Containers[Len(Containers)].node.kind = kind
  /\ Containers[Len(Containers)].key = NoAddress

LEMMA DocumentLastEnd ==
  ASSUME NEW kind, MayClose(kind), Document!Front(Containers) = <<>>, phase' = "done",
         root' = Containers[Len(Containers)].node, Containers' = <<>>
  PROVE  Document!End(kind)
BY DEF MayClose, Document!End, Document!MayEnd, Document!Takes, Document!Top,
       Document!Receive, Document!Front, Containers

LEMMA DocumentEnd ==
  ASSUME NEW kind, MayClose(kind), phase' = "building", root' = root,
         NEW front, front = Document!Front(Containers), front # <<>>,
         Containers' = Append(Document!Front(front),
                              Document!Put(front[Len(front)],
                                           Containers[Len(Containers)].node))
  PROVE  Document!End(kind)
BY DEF MayClose, Document!End, Document!MayEnd, Document!Takes, Document!Top,
       Document!Receive, Containers

-----------------------------------------------------------------------------
(* Every call is a step of the document.                                   *)

(* Memory that has grown while a container is open.                        *)
LEMMA SettingNow ==
  ASSUME IInv, FInv, Depth > 0, NEW g, NEW at, NEW node, NEW k, NEW from,
         Grows(heap, g, node_stack, Box, at, node, k, from)
  PROVE  Setting(heap, g, node_stack, Box, at, node, k, from)
<1>1. Forest(heap) /\ Line(heap, node_stack) /\ Shaped(heap, node_stack)
  BY StackIsLine, StackShaped DEF FInv
<1> QED
  BY <1>1 DEF Setting, Depth

(* The innermost container and the row, as long as the grammar is kept.    *)
LEMMA Innermost ==
  ASSUME IInv, FInv, Depth > 0
  PROVE  /\ Forest(heap) /\ Nested(heap) /\ Line(heap, node_stack) /\ Shaped(heap, node_stack)
         /\ InnermostIs(heap, node_stack, Box) /\ Box = Top
         /\ Depth \in Nat /\ Depth = Len(node_stack)
<1>1. /\ Line(heap, node_stack) /\ Shaped(heap, node_stack)
      /\ Box \in DOMAIN heap /\ Box = node_stack[Depth]
  BY StackIsLine, StackShaped
<1> QED
  BY <1>1 DEF InnermostIs, FInv, Forest, Line, Depth, Top

LEMMA RowIs ==
  ASSUME IInv, FInv, phase # "broken"
  PROVE  /\ Containers = RowNow /\ IsRow(RowNow, Depth) /\ Len(RowNow) = Depth
         /\ Depth \in Nat /\ Depth = Len(node_stack)
         /\ Depth = 0 <=> RowNow = <<>>
         /\ \A i \in 1 .. Depth :
              RowNow[i] = ContainerOf(heap, node_stack, is_previous_key, key, i)
<1>1. Len(node_stack) \in Nat
  BY StackIsLine DEF Line
<1> QED
  BY <1>1, ContainersNow, RowIsRow DEF RowNow, Depth

LEMMA RowIsNext ==
  ASSUME Len(node_stack') \in Nat, phase' # "broken"
  PROVE  /\ Containers' = RowNext /\ IsRow(RowNext, Len(node_stack'))
         /\ Len(RowNext) = Len(node_stack')
         /\ Len(node_stack') = 0 <=> RowNext = <<>>
         /\ \A i \in 1 .. Len(node_stack') :
              RowNext[i] = ContainerOf(heap', node_stack', is_previous_key', key', i)
BY ContainersNext, RowIsRow DEF RowNext

(* What Judge says of a call that keeps to the grammar.                    *)
LEMMA Judged ==
  ASSUME IInv, NEW allowed \in BOOLEAN, NEW completes \in BOOLEAN,
         Judge(allowed, completes), phase' # "broken"
  PROVE  /\ phase # "broken" /\ allowed
         /\ completes => phase' = "done"
         /\ ~ completes => phase' = phase
         /\ phase = "done" => Depth = 0
         /\ Depth > 0 => phase = "building"
         /\ is_previous_key => TopIs("dict")
BY DEF Judge, IInv, GrammarIsEnough, TypeOK

(* The last container of the row.                                          *)
LEMMA LastSays ==
  ASSUME IInv, FInv, phase # "broken", Depth > 0
  PROVE  /\ heap[Box].kind \in {"array", "dict"} /\ Containers # <<>>
         /\ Len(Containers) = Depth
         /\ Containers[Depth] = ContainerOf(heap, node_stack, is_previous_key, key, Depth)
         /\ Containers[Depth].node.kind = heap[Box].kind
         /\ ~ is_previous_key => /\ Containers[Depth].key = NoAddress
                                 /\ Containers[Depth].node = Trees(heap)[Box]
         /\ is_previous_key /\ heap[Box].kind = "dict" => Containers[Depth].key = key
<1> DEFINE c(p) == ContainerOf(heap, node_stack, p, key, Depth)
<1>1. /\ Containers # <<>> /\ Len(Containers) = Depth
      /\ Containers[Depth] = c(is_previous_key)
  BY RowIs
<1>2. /\ heap[Box].kind \in {"array", "dict"}
      /\ c(FALSE).node = Trees(heap)[Box] /\ c(FALSE).node.kind = heap[Box].kind
      /\ c(FALSE).key = NoAddress
      /\ c(TRUE).node.kind = heap[Box].kind
      /\ c(TRUE).key = IF heap[Box].kind = "dict" THEN key ELSE NoAddress
  <2>1. /\ InnermostIs(heap, node_stack, Box) /\ Nested(heap) /\ Shaped(heap, node_stack)
        /\ Len(node_stack) \in Nat /\ Depth = Len(node_stack)
    BY Innermost
  <2>2. \A k : Says(ContainerOf(heap, node_stack, FALSE, k, Len(node_stack)),
                    ContainerOf(heap, node_stack, TRUE, k, Len(node_stack)),
                    heap[Box].kind, Trees(heap)[Box], k)
    BY <2>1, TopSays
  <2>3. Says(c(FALSE), c(TRUE), heap[Box].kind, Trees(heap)[Box], key)
    BY <2>1, <2>2
  <2> HIDE DEF c
  <2> QED
    BY <2>3 DEF Says
<1> HIDE DEF c
<1>3. is_previous_key \in BOOLEAN
  BY DEF IInv, TypeOK
<1>4. CASE is_previous_key = TRUE
  BY <1>1, <1>2, <1>4 DEF c
<1>5. CASE is_previous_key = FALSE
  BY <1>1, <1>2, <1>5 DEF c
<1> QED
  BY <1>3, <1>4, <1>5

LEMMA NoKeyIsKey == IInv => key # NoAddress
BY BuilderAssumption DEF IInv, TypeOK

(* The caller may give a value, and the document receives it.              *)
LEMMA ReceivesValue ==
  ASSUME IInv, FInv, phase # "broken", MayValue, Depth > 0 => phase = "building"
  PROVE  /\ MayReceive
         /\ Depth > 0 => \/ heap[Box].kind = "array"
                         \/ heap[Box].kind = "dict" /\ is_previous_key = TRUE
<1>1. is_previous_key \in BOOLEAN /\ (Depth > 0 => Box = Top)
  BY DEF IInv, TypeOK, Box
<1>2. CASE Depth > 0
  <2>1. \/ heap[Box].kind = "array"
        \/ heap[Box].kind = "dict" /\ is_previous_key = TRUE
    BY <1>1, <1>2 DEF MayValue, TopIs
  <2> QED
    BY <1>2, <2>1, LastSays, NoKeyIsKey DEF MayReceive
<1>3. CASE ~ (Depth > 0)
  <2>1. Depth = 0 /\ Containers = <<>>
    BY <1>3, RowIs
  <2> QED
    BY <1>3, <2>1 DEF MayReceive, MayValue, TopIs
<1> QED
  BY <1>2, <1>3

(* A dictionary without a key.                                             *)
LEMMA WithoutShown ==
  ASSUME NEW mb, NEW D, NEW t, NEW k, NEW e
  PROVE  [node |-> [ShownDict(mb, D, t, e).node EXCEPT !.members = Document!Without(@, k)],
          key |-> k] = ShownDict(mb, D \ {k}, t, k)
<1> DEFINE f == [m \in D |-> t[mb[m]]]
           r == [kind |-> "dict", members |-> f]
<1>1. Document!Without(f, k) = [m \in D \ {k} |-> t[mb[m]]]
  BY DEF Document!Without
<1> HIDE DEF f
<1>2. [r EXCEPT !.members = Document!Without(@, k)]
        = [kind |-> "dict", members |-> Document!Without(f, k)]
  OBVIOUS
<1>3. ShownDict(mb, D, t, e).node = r
  BY DEF ShownDict, f
<1> QED
  BY <1>1, <1>2, <1>3 DEF ShownDict

(* After a key.                                                            *)
LEMMA RowAfterKey ==
  ASSUME IInv, FInv, NEW k \in Keys, TopIs("dict"), NEW g, g = InsertMember(k),
         phase # "broken",
         NEW p, IsTrue(p)
  PROVE  /\ ContainerOf(g, node_stack, p, k, Depth)
              = ShownBut(heap[Box].members, Trees(heap), k)
         /\ \A i \in 1 .. Depth - 1 :
              ContainerOf(g, node_stack, p, k, i)
                = ContainerOf(heap, node_stack, is_previous_key, key, i)
<1>1. /\ Depth > 0 /\ Box = Top /\ Depth = Len(node_stack) /\ Depth \in Nat
      /\ heap[Box].kind = "dict"
      /\ InnermostIs(heap, node_stack, Box) /\ Nested(heap)
  BY Innermost DEF TopIs
<1>2. CASE k \in DOMAIN Members
  <2>1. g = heap
    BY <1>2 DEF InsertMember
  <2>2. ContainerOf(heap, node_stack, p, k, Depth)
          = ShownBut(heap[Box].members, Trees(heap), k)
    <3>1. \A e : ContainerOf(heap, node_stack, TRUE, e, Len(node_stack))
                   = ShownDict(heap[Box].members, (DOMAIN heap[Box].members) \ {e},
                               Trees(heap), e)
      BY <1>1, TopDict
    <3>2. ContainerOf(heap, node_stack, p, k, Len(node_stack))
            = ContainerOf(heap, node_stack, TRUE, k, Len(node_stack))
      BY Zenon DEF IsTrue
    <3> QED
      BY <1>1, <3>1, <3>2 DEF ShownBut
  <2>3. ASSUME NEW i \in 1 .. Depth - 1
        PROVE  ContainerOf(heap, node_stack, p, k, i)
                 = ContainerOf(heap, node_stack, is_previous_key, key, i)
    <3>1. i # Len(node_stack)
      BY <1>1
    <3> QED
      BY <3>1, LowerSame
  <2> QED
    BY <2>1, <2>2, <2>3
<1>3. CASE k \notin DOMAIN Members
  <2>1. PICK from : Grows(heap, g, node_stack, Box, MemberAddress(k), Leaf(Null), k, from)
    BY <1>3, KeyGrows DEF InsertMember
  <2>2. Setting(heap, g, node_stack, Box, MemberAddress(k), Leaf(Null), k, from)
    BY <1>1, <2>1, SettingNow
  <2>3. ContainerOf(g, node_stack, p, k, Depth)
          = ShownBut(heap[Box].members, Trees(heap), k)
    <3>1. ContainerOf(g, node_stack, p, k, Len(node_stack))
            = ShownBut(heap[Box].members, Trees(heap), k)
      BY <1>1, <2>2, KeyTop
    <3> QED
      BY <1>1, <3>1
  <2>4. ASSUME NEW i \in 1 .. Depth - 1
        PROVE  ContainerOf(g, node_stack, p, k, i)
                 = ContainerOf(heap, node_stack, is_previous_key, key, i)
    <3>1. i \in 1 .. Len(node_stack) - 1 /\ Len(node_stack) \in Nat
      BY <1>1
    <3> QED
      BY <2>2, <3>1, LowerContainer
  <2> QED
    BY <2>3, <2>4
<1> QED
  BY <1>2, <1>3

LEMMA KeyIsKey ==
  ASSUME IInv, FInv, NEW k \in Keys, KeyLogic(k), phase' # "broken"
  PROVE  Document!Key(k)
<1>1. /\ Judge(MayKey, FALSE) /\ is_previous_key' = TRUE /\ key' = k
      /\ node_stack' = node_stack /\ root' = root
  BY DEF KeyLogic
<1>2. /\ phase # "broken" /\ TopIs("dict") /\ is_previous_key = FALSE /\ phase' = phase
      /\ Depth > 0 /\ phase = "building"
  <2>1. MayKey \in BOOLEAN /\ is_previous_key \in BOOLEAN
    BY DEF MayKey, TopIs, IInv, TypeOK
  <2>2. phase # "broken" /\ MayKey /\ phase' = phase /\ (Depth > 0 => phase = "building")
    BY <1>1, <2>1, Judged
  <2> QED
    BY <2>1, <2>2 DEF MayKey, TopIs
<1>3. heap' = InsertMember(k)
  BY <1>2 DEF KeyLogic
<1> DEFINE mb == heap[Box].members
           t == Trees(heap)
           now == ShownDict(mb, DOMAIN mb, t, NoAddress)
           then == ShownBut(mb, t, k)
<1>4. /\ Containers = RowNow /\ IsRow(RowNow, Depth) /\ Len(RowNow) = Depth /\ RowNow # <<>>
      /\ Depth \in Nat /\ Depth = Len(node_stack)
      /\ \A i \in 1 .. Depth :
           RowNow[i] = ContainerOf(heap, node_stack, is_previous_key, key, i)
  BY <1>2, RowIs
<1>5. RowNow[Depth] = now
  <2>1. /\ InnermostIs(heap, node_stack, Box) /\ Nested(heap) /\ heap[Box].kind = "dict"
    BY <1>2, Innermost DEF TopIs
  <2>2. \A e : ContainerOf(heap, node_stack, FALSE, e, Len(node_stack))
                 = ShownDict(heap[Box].members, DOMAIN heap[Box].members, Trees(heap),
                             NoAddress)
    BY <2>1, TopDict
  <2> HIDE DEF now
  <2>3. RowNow[Depth] = ContainerOf(heap, node_stack, is_previous_key, key, Len(node_stack))
    BY <1>2, <1>4
  <2>4. ContainerOf(heap, node_stack, is_previous_key, key, Len(node_stack))
          = ContainerOf(heap, node_stack, FALSE, key, Len(node_stack))
    BY <1>2, Zenon
  <2> QED
    BY <2>2, <2>3, <2>4 DEF now
<1>6. /\ Containers' = RowNext /\ IsRow(RowNext, Depth)
      /\ \A i \in 1 .. Depth : RowNext[i] = ContainerOf(heap', node_stack, is_previous_key', k, i)
  BY <1>1, <1>2, <1>4, RowIsNext
<1>7. RowNext[Depth] = then /\ \A i \in 1 .. Depth - 1 : RowNext[i] = RowNow[i]
  <2>1. /\ ContainerOf(heap', node_stack, is_previous_key', k, Depth) = then
        /\ \A i \in 1 .. Depth - 1 :
              ContainerOf(heap', node_stack, is_previous_key', k, i)
                = ContainerOf(heap, node_stack, is_previous_key, key, i)
    <3>1. IsTrue(is_previous_key')
      BY <1>1 DEF IsTrue
    <3> QED
      BY <1>2, <1>3, <3>1, RowAfterKey
  <2> HIDE DEF then
  <2> QED
    BY <1>2, <1>4, <1>6, <2>1
<1>8. RowNext = Append(Document!Front(RowNow), RowNext[Depth])
  BY <1>2, <1>4, <1>6, <1>7, RowReplaced
<1>9. then = [node |-> [now.node EXCEPT !.members = Document!Without(@, k)], key |-> k]
  BY WithoutShown DEF ShownBut
<1>10. now.node.kind = "dict" /\ now.key = NoAddress
  BY DEF ShownDict
<1> HIDE DEF mb, t, now, then
<1>11. /\ now = Containers[Len(Containers)] /\ Containers # <<>>
       /\ Containers' = Append(Document!Front(Containers),
                               [node |-> [now.node EXCEPT !.members = Document!Without(@, k)],
                                key |-> k])
  BY <1>4, <1>5, <1>6, <1>7, <1>8, <1>9
<1> QED
  BY <1>1, <1>2, <1>10, <1>11, DocumentKey

(* A container that has just been opened.                                  *)
LEMMA FreshContainer ==
  ASSUME NEW g, NEW stack, NEW at, InnermostIs(g, stack, at), Nested(g),
         NEW flag, IsFalse(flag), NEW k
  PROVE  /\ g[at] = NewArray =>
              ContainerOf(g, stack, flag, k, Len(stack))
                = [node |-> Document!EmptyContainer("array"), key |-> NoAddress]
         /\ g[at] = NewDict =>
              ContainerOf(g, stack, flag, k, Len(stack))
                = [node |-> Document!EmptyContainer("dict"), key |-> NoAddress]
<1>1. ASSUME g[at] = NewArray
      PROVE  ContainerOf(g, stack, flag, k, Len(stack))
               = [node |-> Document!EmptyContainer("array"), key |-> NoAddress]
  <2>1. g[at].kind = "array" /\ DOMAIN g[at].elements = 1 .. 0 /\ 0 \in Nat
    BY <1>1 DEF NewArray
  <2>2. ContainerOf(g, stack, flag, k, Len(stack)) = ShownArray(g[at].elements, 0, Trees(g))
    BY <2>1, TopArray
  <2>3. \A el, t : ShownArray(el, 0, t)
                     = [node |-> Document!EmptyContainer("array"), key |-> NoAddress]
    BY DEF ShownArray, Document!EmptyContainer
  <2> QED
    BY <2>2, <2>3
<1>2. ASSUME g[at] = NewDict
      PROVE  ContainerOf(g, stack, flag, k, Len(stack))
               = [node |-> Document!EmptyContainer("dict"), key |-> NoAddress]
  <2>1. g[at].kind = "dict" /\ DOMAIN g[at].members = {}
    BY <1>2 DEF NewDict
  <2>2. ContainerOf(g, stack, flag, k, Len(stack)) = ShownAll(g[at].members, Trees(g))
    BY <2>1, TopDictBy
  <2>3. \A mb, t : ShownDict(mb, {}, t, NoAddress)
                     = [node |-> Document!EmptyContainer("dict"), key |-> NoAddress]
    BY DEF ShownDict, Document!EmptyContainer
  <2> QED
    BY <2>1, <2>2, <2>3 DEF ShownAll
<1> QED
  BY <1>1, <1>2

(* After a value.                                                          *)
LEMMA RowAfterValue ==
  ASSUME IInv, FInv, Depth > 0, NEW g, NEW at, NEW node, NEW from,
         Grows(heap, g, node_stack, Box, at, node, key, from),
         MayTake(heap[Box].kind, is_previous_key), NEW flag, IsFalse(flag)
  PROVE  /\ ContainerOf(g, node_stack, flag, key, Depth)
              = Document!Put(ContainerOf(heap, node_stack, is_previous_key, key, Depth),
                             Trees(g)[at])
         /\ \A i \in 1 .. Depth - 1 :
              ContainerOf(g, node_stack, flag, key, i)
                = ContainerOf(heap, node_stack, is_previous_key, key, i)
<1>1. Depth = Len(node_stack) /\ Depth \in Nat
  BY Innermost
<1>2. Setting(heap, g, node_stack, Box, at, node, key, from)
  BY SettingNow
<1>3. ContainerOf(g, node_stack, flag, key, Len(node_stack))
        = Document!Put(ContainerOf(heap, node_stack, is_previous_key, key, Len(node_stack)),
                       Trees(g)[at])
  BY <1>2, ValueTop
<1>4. ASSUME NEW i \in 1 .. Depth - 1
      PROVE  ContainerOf(g, node_stack, flag, key, i)
               = ContainerOf(heap, node_stack, is_previous_key, key, i)
  <2>1. i \in 1 .. Len(node_stack) - 1 /\ Len(node_stack) \in Nat
    BY <1>1
  <2> QED
    BY <1>2, <2>1, LowerContainer
<1> QED
  BY <1>1, <1>3, <1>4

(* After the start of a container.                                         *)
LEMMA RowAfterStart ==
  ASSUME IInv, FInv, Depth > 0, NEW g, NEW at, NEW node, NEW from,
         Grows(heap, g, node_stack, Box, at, node, key, from),
         MayTake(heap[Box].kind, is_previous_key), NEW flag,
         NEW stack2, Len(stack2) = Depth + 1, stack2[Depth + 1] = at,
         \A j \in 1 .. Depth : stack2[j] = node_stack[j]
  PROVE  \A i \in 1 .. Depth :
           ContainerOf(g, stack2, flag, key, i)
             = ContainerOf(heap, node_stack, is_previous_key, key, i)
<1>1. Depth = Len(node_stack) /\ Depth \in Nat /\ Box = node_stack[Depth]
  BY Innermost DEF Top
<1>2. Setting(heap, g, node_stack, Box, at, node, key, from)
  BY SettingNow
<1>3. ContainerOf(g, stack2, flag, key, Len(node_stack))
        = ContainerOf(heap, node_stack, is_previous_key, key, Len(node_stack))
  <2>1. /\ Len(stack2) = Len(node_stack) + 1 /\ stack2[Len(node_stack)] = Box
        /\ stack2[Len(node_stack) + 1] = at
    BY <1>1
  <2> QED
    BY <1>2, <2>1, StartTop
<1>4. ASSUME NEW i \in 1 .. Depth - 1
      PROVE  ContainerOf(g, stack2, flag, key, i)
               = ContainerOf(heap, node_stack, is_previous_key, key, i)
  <2>1. /\ i \in 1 .. Len(node_stack) - 1 /\ Len(stack2) \in Nat
        /\ Len(stack2) >= Len(node_stack)
        /\ \A j \in 1 .. Len(node_stack) : stack2[j] = node_stack[j]
    BY <1>1
  <2> QED
    BY <1>2, <2>1, LowerContainer
<1>5. \A i \in 1 .. Depth : i = Depth \/ i \in 1 .. Depth - 1
  BY <1>1
<1> QED
  BY <1>1, <1>3, <1>4, <1>5

(* A value.                                                                *)
LEMMA ValueIsValue ==
  ASSUME IInv, FInv, NEW value \in Values, ValueLogic(value), phase' # "broken"
  PROVE  Document!Value(value)
<1>1. /\ Judge(MayValue, Depth = 0) /\ is_previous_key' = FALSE /\ node_stack' = node_stack
      /\ key' = key
  BY DEF ValueLogic
<1>2. /\ phase # "broken" /\ MayValue /\ (Depth > 0 => phase = "building")
      /\ Depth = 0 => phase' = "done"
      /\ Depth # 0 => phase' = phase
  <2>1. MayValue \in BOOLEAN /\ (Depth = 0) \in BOOLEAN
    BY DEF MayValue, TopIs, IInv, TypeOK
  <2> QED
    BY <1>1, <2>1, Judged
<1>3. MayReceive
  BY <1>2, ReceivesValue
<1>4. /\ Containers = RowNow /\ IsRow(RowNow, Depth) /\ Len(RowNow) = Depth
      /\ Depth \in Nat /\ Depth = Len(node_stack)
      /\ Depth = 0 <=> RowNow = <<>>
      /\ \A i \in 1 .. Depth :
           RowNow[i] = ContainerOf(heap, node_stack, is_previous_key, key, i)
  BY <1>2, RowIs
<1>5. /\ Containers' = RowNext /\ IsRow(RowNext, Depth)
      /\ Depth = 0 <=> RowNext = <<>>
      /\ \A i \in 1 .. Depth :
           RowNext[i] = ContainerOf(heap', node_stack, is_previous_key', key, i)
  BY <1>1, <1>4, RowIsNext
<1>6. CASE Depth = 0
  <2>1. root' = Leaf(value)
    BY <1>6 DEF ValueLogic
  <2> QED
    BY <1>2, <1>3, <1>4, <1>5, <1>6, <2>1, DocumentFirstValue
<1>7. CASE Depth # 0
  <2>1. Depth > 0 /\ phase = "building" /\ phase' = "building" /\ root' = root
    BY <1>2, <1>4, <1>7 DEF ValueLogic
  <2>2. MayTake(heap[Box].kind, is_previous_key)
    BY <1>2, <2>1, ReceivesValue DEF MayTake, IsTrue
  <2>3. PICK moved \in MayMove : PlaceNode(Leaf(value), moved)
    BY DEF ValueLogic
  <2>4. PICK from : Grows(heap, heap', node_stack, Box, Slot, Leaf(value), key, from)
    BY <2>3, FreshNodes, NodeGrows
  <2>5. Trees(heap')[Slot] = Document!Leaf(value)
    <3>1. Forest(heap) /\ Forest(heap') /\ Regrown(heap, heap', Box, Slot, Leaf(value), from)
      BY <2>4 DEF FInv, Grows
    <3>2. Trees(heap')[Slot] = NodeOf(Leaf(value), Trees(heap'))
      BY <3>1, NewTree
    <3> QED
      BY <3>2, FreshTree
  <2>6. IsFalse(is_previous_key')
    BY <1>1 DEF IsFalse
  <2>7. /\ ContainerOf(heap', node_stack, is_previous_key', key, Depth)
             = Document!Put(ContainerOf(heap, node_stack, is_previous_key, key, Depth),
                            Trees(heap')[Slot])
        /\ \A i \in 1 .. Depth - 1 :
             ContainerOf(heap', node_stack, is_previous_key', key, i)
               = ContainerOf(heap, node_stack, is_previous_key, key, i)
    BY <2>1, <2>2, <2>4, <2>6, RowAfterValue
  <2>8. /\ RowNext[Depth] = Document!Put(RowNow[Depth], Document!Leaf(value))
        /\ \A i \in 1 .. Depth - 1 : RowNext[i] = RowNow[i]
    BY <1>4, <1>5, <2>1, <2>5, <2>7
  <2>9. RowNext = Append(Document!Front(RowNow), RowNext[Depth])
    BY <1>4, <1>5, <2>1, <2>8, RowReplaced
  <2>10. /\ Containers # <<>>
         /\ Containers' = Append(Document!Front(Containers),
                                 Document!Put(Containers[Len(Containers)],
                                              Document!Leaf(value)))
    BY <1>4, <1>5, <1>7, <2>8, <2>9
  <2> QED
    BY <1>3, <2>1, <2>10, DocumentValue
<1> QED
  BY <1>6, <1>7

(* The start of a container.                                               *)
LEMMA StartIsStart ==
  ASSUME IInv, FInv, phase' # "broken", NEW container, NEW kind,
         \/ container = NewArray /\ kind = "array"
         \/ container = NewDict /\ kind = "dict",
         StartLogic(container)
  PROVE  Document!Start(kind)
<1>1. /\ Judge(MayValue, FALSE) /\ is_previous_key' = FALSE
      /\ node_stack' = Append(node_stack, Slot) /\ key' = key /\ root' = root
  BY DEF StartLogic, Opened
<1>2. /\ phase # "broken" /\ MayValue /\ (Depth > 0 => phase = "building")
      /\ phase' = phase
  <2>1. MayValue \in BOOLEAN
    BY DEF MayValue, TopIs, IInv, TypeOK
  <2> QED
    BY <1>1, <2>1, Judged
<1>3. MayReceive /\ phase' = "building"
  BY <1>2, ReceivesValue DEF MayReceive
<1>4. /\ Containers = RowNow /\ IsRow(RowNow, Depth)
      /\ Depth \in Nat /\ Depth = Len(node_stack)
      /\ \A i \in 1 .. Depth :
           RowNow[i] = ContainerOf(heap, node_stack, is_previous_key, key, i)
  BY <1>2, RowIs
<1> DEFINE stack2 == Append(node_stack, Slot)
<1>5. /\ Len(stack2) = Depth + 1 /\ stack2[Depth + 1] = Slot
      /\ \A j \in 1 .. Depth : stack2[j] = node_stack[j]
  <2>1. node_stack \in Seq(1 .. last)
    BY DEF IInv, TypeOK
  <2> QED
    BY <1>4, <2>1
<1> HIDE DEF stack2
<1>6. node_stack' = stack2
  BY <1>1 DEF stack2
<1>7. /\ Containers' = RowNext /\ IsRow(RowNext, Depth + 1)
      /\ \A i \in 1 .. Depth + 1 :
           RowNext[i] = ContainerOf(heap', stack2, is_previous_key', key, i)
  BY <1>1, <1>2, <1>4, <1>5, <1>6, RowIsNext
<1>8. PICK moved \in MayMove : PlaceNode(container, moved)
  BY DEF StartLogic
<1>9. IsFresh(container)
  BY FreshNodes
<1>10. PICK from : Grows(heap, heap', node_stack, Box, Slot, container, key, from)
  BY <1>8, <1>9, NodeGrows
<1>11. Nested(heap') /\ Slot \in DOMAIN heap' /\ heap'[Slot] = container
  BY <1>10 DEF Grows, Regrown, Forest
<1>12. RowNext[Depth + 1] = [node |-> Document!EmptyContainer(kind), key |-> NoAddress]
  <2>1. InnermostIs(heap', stack2, Slot)
    BY <1>4, <1>5, <1>11 DEF InnermostIs
  <2>2. IsFalse(is_previous_key')
    BY <1>1 DEF IsFalse
  <2>3. /\ heap'[Slot] = NewArray =>
             ContainerOf(heap', stack2, is_previous_key', key, Len(stack2))
               = [node |-> Document!EmptyContainer("array"), key |-> NoAddress]
        /\ heap'[Slot] = NewDict =>
             ContainerOf(heap', stack2, is_previous_key', key, Len(stack2))
               = [node |-> Document!EmptyContainer("dict"), key |-> NoAddress]
    BY <1>11, <2>1, <2>2, FreshContainer
  <2>4. Depth + 1 \in 1 .. Depth + 1
    BY <1>4
  <2> QED
    BY <1>5, <1>7, <1>11, <2>3, <2>4
<1>13. \A i \in 1 .. Depth : RowNext[i] = RowNow[i]
  <2>1. CASE Depth > 0
    <3>1. MayTake(heap[Box].kind, is_previous_key)
      BY <1>2, <2>1, ReceivesValue DEF MayTake, IsTrue
    <3>2. \A i \in 1 .. Depth :
            ContainerOf(heap', stack2, is_previous_key', key, i)
              = ContainerOf(heap, node_stack, is_previous_key, key, i)
      BY <1>5, <1>10, <2>1, <3>1, RowAfterStart
    <3>3. \A i \in 1 .. Depth : i \in 1 .. Depth + 1
      BY <1>4
    <3> QED
      BY <1>4, <1>7, <3>2, <3>3
  <2>2. CASE Depth = 0
    BY <2>2
  <2> QED
    BY <1>4, <2>1, <2>2
<1>14. RowNext = Append(RowNow, RowNext[Depth + 1])
  BY <1>4, <1>7, <1>13, RowLonger
<1> QED
  BY <1>1, <1>3, <1>4, <1>7, <1>12, <1>14, DocumentStart

(* The end of a container.                                                 *)
LEMMA EndIsEnd ==
  ASSUME IInv, FInv, phase' # "broken", NEW kind, EndLogic(kind)
  PROVE  Document!End(kind)
<1>1. /\ Judge(MayEnd(kind), Depth = 1) /\ is_previous_key' = is_previous_key
      /\ key' = key /\ heap' = heap
  BY DEF EndLogic
<1>2. /\ phase # "broken" /\ TopIs(kind) /\ is_previous_key = FALSE
      /\ Depth > 0 /\ phase = "building"
      /\ Depth = 1 => phase' = "done"
      /\ Depth # 1 => phase' = phase
  <2>1. MayEnd(kind) \in BOOLEAN /\ (Depth = 1) \in BOOLEAN /\ is_previous_key \in BOOLEAN
    BY DEF MayEnd, TopIs, IInv, TypeOK
  <2>2. /\ phase # "broken" /\ MayEnd(kind) /\ (Depth > 0 => phase = "building")
        /\ Depth = 1 => phase' = "done"
        /\ Depth # 1 => phase' = phase
    BY <1>1, <2>1, Judged
  <2> QED
    BY <2>1, <2>2 DEF MayEnd, TopIs
<1>3. /\ Containers = RowNow /\ IsRow(RowNow, Depth) /\ Len(RowNow) = Depth
      /\ Depth \in Nat /\ Depth = Len(node_stack)
      /\ \A i \in 1 .. Depth :
           RowNow[i] = ContainerOf(heap, node_stack, is_previous_key, key, i)
  BY <1>2, RowIs
<1>4. /\ Forest(heap) /\ Line(heap, node_stack) /\ Shaped(heap, node_stack)
      /\ Box = Top /\ Box = node_stack[Depth]
  BY <1>2, Innermost DEF Top
<1>5. /\ MayClose(kind) /\ Len(Containers) = Depth
      /\ Containers[Len(Containers)].node = Trees(heap)[Box]
  BY <1>2, <1>4, LastSays DEF MayClose, TopIs
<1>6. /\ Len(node_stack') = Depth - 1 /\ Len(node_stack') \in Nat
      /\ \A j \in 1 .. Depth - 1 : node_stack'[j] = node_stack[j]
  <2>1. node_stack \in Seq(1 .. last)
    BY DEF IInv, TypeOK
  <2>2. node_stack' = SubSeq(node_stack, 1, Len(node_stack) - 1)
    BY <1>2, <1>3 DEF EndLogic, Popped
  <2>3. /\ Len(SubSeq(node_stack, 1, Len(node_stack) - 1)) = Len(node_stack) - 1
        /\ \A j \in 1 .. Len(node_stack) - 1 :
             SubSeq(node_stack, 1, Len(node_stack) - 1)[j] = node_stack[j]
    BY <1>2, <1>3, <2>1
  <2> QED
    BY <1>2, <1>3, <2>2, <2>3
<1>7. /\ Containers' = RowNext /\ IsRow(RowNext, Len(node_stack'))
      /\ Len(node_stack') = 0 <=> RowNext = <<>>
      /\ \A i \in 1 .. Len(node_stack') :
           RowNext[i] = ContainerOf(heap, node_stack', is_previous_key', key', i)
  BY <1>1, <1>6, RowIsNext
<1> DEFINE front == Document!Front(RowNow)
<1>8. /\ IsRow(front, Depth - 1) /\ Len(front) = Depth - 1
      /\ \A i \in 1 .. Depth - 1 : front[i] = RowNow[i]
      /\ Depth = 1 => front = <<>>
      /\ Depth > 1 => front # <<>>
  BY <1>2, <1>3, FrontIsRow
<1> HIDE DEF front
<1>9. CASE Depth = 1
  <2>1. root' = Trees(heap)[Box]
    <3>1. root_ptr = Box
      BY <1>4, <1>9 DEF IInv, NoDanglingPointer
    <3>2. root' = Tree(root_ptr)
      BY <1>9 DEF EndLogic
    <3> QED
      BY <3>1, <3>2, TreeIs
  <2>2. Containers' = <<>> /\ phase' = "done"
    BY <1>2, <1>6, <1>7, <1>9
  <2>3. Document!Front(Containers) = <<>>
    BY <1>3, <1>8, <1>9 DEF front
  <2> QED
    BY <1>5, <2>1, <2>2, <2>3, DocumentLastEnd
<1>10. CASE Depth # 1
  <2> DEFINE n == Depth - 1
  <2>1. /\ n \in Nat /\ n > 0 /\ Depth > 1 /\ n = Len(node_stack') /\ n \in 1 .. n
        /\ root' = root /\ phase' = "building"
    BY <1>2, <1>3, <1>6, <1>10 DEF EndLogic
  <2>2. RowNext[n] = Document!Put(front[n], Trees(heap)[Box])
    <3>1. IsFalse(is_previous_key')
      BY <1>1, <1>2 DEF IsFalse
    <3>2. /\ Len(node_stack) > 1 /\ Len(node_stack') = Len(node_stack) - 1
          /\ \A j \in 1 .. Len(node_stack) - 1 : node_stack'[j] = node_stack[j]
      BY <1>3, <1>6, <2>1
    <3>3. ContainerOf(heap, node_stack', is_previous_key', key', Len(node_stack'))
            = Document!Put(ContainerOf(heap, node_stack, is_previous_key, key,
                                       Len(node_stack')),
                           Trees(heap)[node_stack[Len(node_stack)]])
      BY <1>4, <3>1, <3>2, EndTop
    <3>4. n \in 1 .. Depth
      BY <1>3, <2>1
    <3> HIDE DEF n
    <3> QED
      BY <1>3, <1>4, <1>7, <1>8, <2>1, <3>3, <3>4 DEF n
  <2>3. ASSUME NEW i \in 1 .. n - 1
        PROVE  RowNext[i] = front[i]
    <3>1. /\ i # Len(node_stack) /\ i # Len(node_stack')
          /\ node_stack'[i] = node_stack[i] /\ node_stack'[i + 1] = node_stack[i + 1]
      BY <1>3, <1>6, <2>1
    <3>2. ContainerOf(heap, node_stack', is_previous_key', key', i)
            = ContainerOf(heap, node_stack, is_previous_key, key, i)
      BY <3>1, LowerSame
    <3>3. i \in 1 .. Len(node_stack') /\ i \in 1 .. Depth - 1 /\ i \in 1 .. Depth
      BY <1>3, <1>6, <2>1
    <3> QED
      BY <1>3, <1>7, <1>8, <3>2, <3>3
  <2>4. IsRow(RowNext, n) /\ IsRow(front, n) /\ Len(front) = n
    BY <1>7, <1>8, <2>1
  <2> HIDE DEF n
  <2>5. RowNext = Append(Document!Front(front), RowNext[n])
    BY <2>1, <2>3, <2>4, RowReplaced
  <2>6. Containers' = Append(Document!Front(front),
                             Document!Put(front[Len(front)],
                                          Containers[Len(Containers)].node))
    BY <1>5, <1>7, <2>2, <2>4, <2>5
  <2>7. front = Document!Front(Containers) /\ front # <<>>
    BY <1>3, <1>8, <2>1 DEF front
  <2> QED
    BY <1>5, <2>1, <2>6, <2>7, DocumentEnd
<1> QED
  BY <1>9, <1>10

(* Every step of the builder.                                              *)
LEMMA NextIsNext ==
  ASSUME IInv, FInv, [Next]_vars
  PROVE  [Document!Next]_(Document!vars)
<1>1. CASE phase' = "broken"
  BY <1>1, DocumentBreaks DEF Document!Next
<1>2. CASE phase' # "broken" /\ Next
  <2>1. ASSUME NEW k \in Keys, KeyLogic(k)
        PROVE  Document!Next
    <3>1. Document!Key(k)
      BY <1>2, <2>1, KeyIsKey
    <3> QED
      BY <3>1 DEF Document!Next
  <2>2. ASSUME NEW value \in Values, ValueLogic(value)
        PROVE  Document!Next
    <3>1. Document!Value(value)
      BY <1>2, <2>2, ValueIsValue
    <3> QED
      BY <3>1 DEF Document!Next
  <2>3. CASE StartArray
    <3>1. Document!Start("array")
      BY <1>2, <2>3, StartIsStart DEF StartArray
    <3> QED
      BY <3>1 DEF Document!Next
  <2>4. CASE StartDict
    <3>1. Document!Start("dict")
      BY <1>2, <2>4, StartIsStart DEF StartDict
    <3> QED
      BY <3>1 DEF Document!Next
  <2>5. CASE EndArray
    <3>1. Document!End("array")
      BY <1>2, <2>5, EndIsEnd DEF EndArray
    <3> QED
      BY <3>1 DEF Document!Next
  <2>6. CASE EndDict
    <3>1. Document!End("dict")
      BY <1>2, <2>6, EndIsEnd DEF EndDict
    <3> QED
      BY <3>1 DEF Document!Next
  <2> QED
    BY <1>2, <2>1, <2>2, <2>3, <2>4, <2>5, <2>6 DEF Next
<1>3. CASE phase' # "broken" /\ UNCHANGED vars
  <2>1. /\ heap' = heap /\ node_stack' = node_stack /\ key' = key
        /\ is_previous_key' = is_previous_key /\ root' = root /\ phase' = phase
    BY <1>3 DEF vars
  <2>2. Containers' = Containers
    BY <1>3, <2>1, ContainersNow, ContainersNext DEF RowNow, RowNext
  <2> QED
    BY <2>1, <2>2 DEF Document!vars, Containers
<1> QED
  BY <1>1, <1>2, <1>3

(* A caller who keeps to the grammar gets from Build the document that the *)
(* calls describe, however long it is and however deep.                    *)
THEOREM BuilderMakesTheDocument == Spec => BuildsTheDocument
<1>1. Init => Document!Init
  BY DEF Init, Document!Init, Document!Leaf, Leaf, Depth
<1>2. IInv /\ FInv /\ [Next]_vars => [Document!Next]_(Document!vars)
  BY NextIsNext
<1>3. Spec => [](IInv /\ FInv)
  BY ForestHolds
<1> QED
  BY <1>1, <1>2, <1>3, PTL DEF Spec, BuildsTheDocument, Document!Spec
=============================================================================
