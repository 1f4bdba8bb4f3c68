----------------------- MODULE ResponseBuilderProofs -----------------------
(***************************************************************************)
(* Proofs about ResponseBuilder, for every pair of documents.  The calls   *)
(* of an answer are composed as the code composes them: Leads says that a  *)
(* row of calls is one the grammar allows, and which state of the builder  *)
(* it ends in; there is a rule for each way of putting rows together, and  *)
(* a lemma for each kind of answer.  The invariant then says where the     *)
(* calls that are still to be made will lead.                              *)
(***************************************************************************)
EXTENDS ResponseBuilder, JSONReaderProofs, FiniteSetTheorems

-----------------------------------------------------------------------------
(* States of the builder, of which these are met: between two members of a *)
(* dictionary, after a key, between two elements of an array, and outside. *)

Builder == [open |-> open, root |-> root, phase |-> phase]

Building(o) == [open |-> o, root |-> Answer!Leaf(Null), phase |-> "building"]
DictOf(m)  == [kind |-> "dict", members |-> m]
ArrayOf(e) == [kind |-> "array", elements |-> e]

InDictOf(o, m)       == Building(Append(o, [node |-> DictOf(m), key |-> NoKey]))
AfterKey(o, m, key)  == Building(Append(o, [node |-> DictOf(Answer!Without(m, key)), key |-> key]))
InArrayOf(o, e)      == Building(Append(o, [node |-> ArrayOf(e), key |-> NoKey]))
Complete(node)       == [open |-> <<>>, root |-> node, phase |-> "done"]

NoMembers == [k \in {} |-> Null]
WithMember(m, key, node) ==
  [k \in DOMAIN m \cup {key} |-> IF k = key THEN node ELSE m[k]]

(* A node may be placed in state b, which leads to state d.                *)
Fills(b, node, d) ==
  \/ \E o, m, key : /\ IsRow(o) /\ key # NoKey
                    /\ b = AfterKey(o, m, key)
                    /\ d = InDictOf(o, WithMember(m, key, node))
  \/ \E o, e : /\ IsRow(o)
               /\ b = InArrayOf(o, e) /\ d = InArrayOf(o, Append(e, node))
  \/ b = Building(<<>>) /\ d = Complete(node)

OpensIn(b, d, kind) ==
  \/ kind = "dict" /\ d = InDictOf(b.open, NoMembers)
  \/ kind = "array" /\ d = InArrayOf(b.open, <<>>)

(* A call may be made in state b, and leads to state d.                    *)
Step(b, c, d) ==
  \/ \E o, m, key : /\ IsRow(o) /\ key # NoKey
                    /\ c = KeyCall(key)
                    /\ b = InDictOf(o, m) /\ d = AfterKey(o, m, key)
  \/ \E value : c = ValueCall(value) /\ Fills(b, Answer!Leaf(value), d)
  \/ \E kind, node, e : c = StartCall(kind) /\ Fills(b, node, e) /\ OpensIn(b, d, kind)
  \/ \E a, m : /\ c = EndCall("dict") /\ Fills(a, DictOf(m), d)
               /\ b = InDictOf(a.open, m)
  \/ \E a, e : /\ c = EndCall("array") /\ Fills(a, ArrayOf(e), d)
               /\ b = InArrayOf(a.open, e)

(* The row of calls s may be made in state b, and leads to state d.        *)
Leads(b, s, d) ==
  /\ IsRow(s)
  /\ \E t : /\ t[0] = b /\ t[Len(s)] = d
            /\ \A k \in 1 .. Len(s) : Step(t[k - 1], s[k], t[k])

LEMMA Containers ==
  ASSUME NEW o, IsRow(o), NEW c
  PROVE  /\ IsRow(Append(o, c)) /\ Append(o, c) # <<>>
         /\ Append(o, c)[Len(Append(o, c))] = c
         /\ Answer!Front(Append(o, c)) = o
<1>1. Len(Append(o, c)) = Len(o) + 1 /\ Len(o) \in Nat
  BY RowAppended, RowFacts
<1>2. Len(Append(o, c)) - 1 = Len(o)
  BY <1>1
<1> QED
  BY <1>1, <1>2, RowAppended DEF Answer!Front

(* What may be filled is a place where JsonTree takes a value, and         *)
(* receiving it leads where Fills says.                                    *)
LEMMA FilledPlace ==
  ASSUME NEW a, NEW node, NEW d, Fills(a, node, d)
  PROVE  /\ a = Building(a.open) /\ IsRow(a.open)
         /\ \/ a.open = <<>>
            \/ a.open[Len(a.open)].node.kind = "array"
            \/ /\ a.open[Len(a.open)].node.kind = "dict"
               /\ a.open[Len(a.open)].key # NoKey
         /\ (Answer!Receive(a.open, node) /\ root = Answer!Leaf(Null) /\ phase = "building")
              => Builder' = d
<1> DEFINE there == a.open
<1>1. CASE \E o, m, key : /\ IsRow(o) /\ key # NoKey
                          /\ a = AfterKey(o, m, key)
                          /\ d = InDictOf(o, WithMember(m, key, node))
  <2>1. PICK o, m, key : /\ IsRow(o) /\ key # NoKey
                         /\ a = AfterKey(o, m, key)
                         /\ d = InDictOf(o, WithMember(m, key, node))
    BY <1>1
  <2> DEFINE c == [node |-> DictOf(Answer!Without(m, key)), key |-> key]
             e == [node |-> DictOf(WithMember(m, key, node)), key |-> NoKey]
  <2>2. there = Append(o, c) /\ a = Building(Append(o, c))
    BY <2>1 DEF AfterKey, Building
  <2>3. c.key # NoKey /\ c.node.kind = "dict"
    BY <2>1 DEF DictOf
  <2>4. Answer!Put(c, node) = e
    <3>1. [c.node EXCEPT !.members =
             [k \in DOMAIN @ \cup {c.key} |-> IF k = c.key THEN node ELSE @[k]]]
            = DictOf([k \in DOMAIN Answer!Without(m, key) \cup {key} |->
                        IF k = key THEN node ELSE Answer!Without(m, key)[k]])
      BY DEF DictOf
    <3>2. [k \in DOMAIN Answer!Without(m, key) \cup {key} |->
             IF k = key THEN node ELSE Answer!Without(m, key)[k]] = WithMember(m, key, node)
      BY DEF Answer!Without, WithMember
    <3>3. c.node.kind # "array"
      BY DEF DictOf
    <3> QED
      BY <3>1, <3>2, <3>3 DEF Answer!Put
  <2>5. d = Building(Append(o, e))
    BY <2>1 DEF InDictOf
  <2> HIDE DEF c, e, there
  <2>6. IsRow(there) /\ there # <<>> /\ there[Len(there)] = c /\ Answer!Front(there) = o
    BY <2>1, <2>2, Containers
  <2>7. ASSUME Answer!Receive(there, node), root = Answer!Leaf(Null), phase = "building"
        PROVE  Builder' = d
    <3>1. open' = Append(o, e) /\ root' = root /\ phase' = phase
      BY <2>4, <2>6, <2>7 DEF Answer!Receive
    <3> QED
      BY <2>5, <2>7, <3>1 DEF Builder, Building
  <2> QED
    BY <2>2, <2>3, <2>6, <2>7 DEF there
<1>2. CASE \E o, e : /\ IsRow(o)
                     /\ a = InArrayOf(o, e) /\ d = InArrayOf(o, Append(e, node))
  <2>1. PICK o, e : /\ IsRow(o)
                    /\ a = InArrayOf(o, e) /\ d = InArrayOf(o, Append(e, node))
    BY <1>2
  <2> DEFINE c == [node |-> ArrayOf(e), key |-> NoKey]
             f == [node |-> ArrayOf(Append(e, node)), key |-> NoKey]
  <2>2. there = Append(o, c) /\ a = Building(Append(o, c))
    BY <2>1 DEF InArrayOf, Building
  <2>3. c.node.kind = "array"
    BY DEF ArrayOf
  <2>4. Answer!Put(c, node) = f
    BY DEF ArrayOf, Answer!Put
  <2>5. d = Building(Append(o, f))
    BY <2>1 DEF InArrayOf
  <2> HIDE DEF c, f, there
  <2>6. IsRow(there) /\ there # <<>> /\ there[Len(there)] = c /\ Answer!Front(there) = o
    BY <2>1, <2>2, Containers
  <2>7. ASSUME Answer!Receive(there, node), root = Answer!Leaf(Null), phase = "building"
        PROVE  Builder' = d
    <3>1. open' = Append(o, f) /\ root' = root /\ phase' = phase
      BY <2>4, <2>6, <2>7 DEF Answer!Receive
    <3> QED
      BY <2>5, <2>7, <3>1 DEF Builder, Building
  <2> QED
    BY <2>2, <2>3, <2>6, <2>7 DEF there
<1>3. CASE a = Building(<<>>) /\ d = Complete(node)
  <2>1. a.open = <<>>
    BY <1>3 DEF Building
  <2>2. Answer!Receive(a.open, node) => Builder' = d
    BY <1>3, <2>1 DEF Answer!Receive, Builder, Complete
  <2> QED
    BY <1>3, <2>1, <2>2, RowOfNone
<1> QED
  BY <1>1, <1>2, <1>3 DEF Fills

(* Hence a value may be given to it.                                       *)
LEMMA ValueFits ==
  ASSUME NEW node, NEW d, Fills(Builder, node, d)
  PROVE  /\ Answer!MayValue /\ phase = "building" /\ root = Answer!Leaf(Null)
         /\ Answer!Receive(open, node) => Builder' = d
<1>1. PICK a : a = Builder /\ a.open = open /\ a.root = root /\ a.phase = phase
  BY DEF Builder
<1>2. a = Building(open)
  BY <1>1, FilledPlace
<1>3. root = Answer!Leaf(Null) /\ phase = "building"
  BY <1>1, <1>2 DEF Building
<1>4. Answer!MayValue
  BY <1>1, <1>3, FilledPlace DEF Answer!MayValue, Answer!Takes, Answer!Top
<1>5. Answer!Receive(open, node) => Builder' = d
  BY <1>1, <1>3, FilledPlace
<1> QED
  BY <1>3, <1>4, <1>5

(* Closing the innermost container puts it into the one below.             *)
LEMMA ClosedContainer ==
  ASSUME NEW a, NEW x, NEW d, NEW c, Fills(a, x.node, d), x.key = NoKey,
         Builder = Building(Append(a.open, x)), c.call = "End", c.kind = x.node.kind
  PROVE  Allowed(c) /\ (Make(c) => Builder' = d)
<1>1. /\ open = Append(a.open, x) /\ root = Answer!Leaf(Null) /\ phase = "building"
  BY DEF Builder, Building
<1>2. IsRow(a.open)
  BY FilledPlace
<1>3. open # <<>> /\ open[Len(open)] = x /\ Answer!Front(open) = a.open
  BY <1>1, <1>2, Containers
<1>4. Answer!MayEnd(c.kind)
  BY <1>1, <1>3 DEF Answer!MayEnd, Answer!Takes, Answer!Top
<1>5. Allowed(c)
  BY <1>4 DEF Allowed
<1>6. ASSUME Make(c) PROVE Builder' = d
  <2>1. Answer!Receive(a.open, x.node)
    BY <1>3, <1>6 DEF Make, Answer!End, Answer!Top
  <2> QED
    BY <1>1, <2>1, FilledPlace
<1> QED
  BY <1>5, <1>6

(* A call that may be made is one JsonTree allows, and making it leads     *)
(* where the rules say.                                                    *)
LEMMA StepIsMade ==
  ASSUME NEW c, NEW d, Step(Builder, c, d)
  PROVE  Allowed(c) /\ (Make(c) => Builder' = d)
<1>0. PICK b : b = Builder /\ open = b.open /\ root = b.root /\ phase = b.phase
  BY DEF Builder
<1> USE <1>0
<1>1. CASE \E o, m, key : /\ IsRow(o) /\ key # NoKey
                          /\ c = KeyCall(key)
                          /\ b = InDictOf(o, m) /\ d = AfterKey(o, m, key)
  <2>1. PICK o, m, key : /\ IsRow(o) /\ key # NoKey
                         /\ c = KeyCall(key)
                         /\ b = InDictOf(o, m) /\ d = AfterKey(o, m, key)
    BY <1>1
  <2> DEFINE x == [node |-> DictOf(m), key |-> NoKey]
             y == [node |-> DictOf(Answer!Without(m, key)), key |-> key]
  <2>2. open = Append(o, x) /\ root = Answer!Leaf(Null) /\ phase = "building"
    BY <1>0, <2>1 DEF InDictOf, Building
  <2>3. x.node.kind = "dict" /\ x.key = NoKey
    BY DEF DictOf
  <2>4. [x.node EXCEPT !.members = Answer!Without(@, key)] = DictOf(Answer!Without(m, key))
    BY DEF DictOf
  <2>5. d = Building(Append(o, y))
    BY <2>1 DEF AfterKey
  <2>6. y = [node |-> [x.node EXCEPT !.members = Answer!Without(@, key)], key |-> key]
    BY <2>4
  <2> HIDE DEF x, y
  <2>7. open # <<>> /\ open[Len(open)] = x /\ Answer!Front(open) = o
    BY <2>1, <2>2, Containers
  <2>8. Answer!MayKey
    BY <2>2, <2>3, <2>7 DEF Answer!MayKey, Answer!Takes, Answer!Top
  <2>9. c.call = "Key" /\ c.key = key
    BY <2>1 DEF KeyCall
  <2>10. Allowed(c)
    BY <2>8, <2>9 DEF Allowed
  <2>11. ASSUME Make(c) PROVE Builder' = d
    <3>1. Answer!Key(key)
      BY <2>9, <2>11 DEF Make
    <3>2. open' = Append(o, y) /\ root' = root /\ phase' = phase
      BY <2>6, <2>7, <3>1 DEF Answer!Key, Answer!Top
    <3> QED
      BY <2>2, <2>5, <3>2 DEF Builder, Building
  <2> QED
    BY <2>10, <2>11
<1>2. CASE \E value : c = ValueCall(value) /\ Fills(b, Answer!Leaf(value), d)
  <2>1. PICK value : c = ValueCall(value) /\ Fills(b, Answer!Leaf(value), d)
    BY <1>2
  <2>2. c.call = "Value" /\ c.value = value
    BY <2>1 DEF ValueCall
  <2>3. Answer!MayValue /\ (Answer!Receive(open, Answer!Leaf(value)) => Builder' = d)
    BY <2>1, ValueFits
  <2>4. Allowed(c)
    BY <2>2, <2>3 DEF Allowed
  <2>5. Make(c) => Answer!Receive(open, Answer!Leaf(value))
    BY <2>2 DEF Make, Answer!Value
  <2> QED
    BY <2>3, <2>4, <2>5
<1>3. CASE \E kind, node, e : c = StartCall(kind) /\ Fills(b, node, e) /\ OpensIn(b, d, kind)
  <2>1. PICK kind, node, e : c = StartCall(kind) /\ Fills(b, node, e) /\ OpensIn(b, d, kind)
    BY <1>3
  <2>2. c.call = "Start" /\ c.kind = kind
    BY <2>1 DEF StartCall
  <2>3. Answer!MayValue /\ phase = "building" /\ root = Answer!Leaf(Null)
    BY <2>1, ValueFits
  <2>4. Allowed(c)
    BY <2>2, <2>3 DEF Allowed
  <2>5. ASSUME Make(c) PROVE Builder' = d
    <3>1. /\ open' = Append(open, [node |-> Answer!EmptyContainer(kind), key |-> NoKey])
          /\ root' = root /\ phase' = phase
      BY <2>2, <2>5 DEF Make, Answer!Start
    <3>2. Builder' = Building(Append(open, [node |-> Answer!EmptyContainer(kind), key |-> NoKey]))
      BY <2>3, <3>1 DEF Builder, Building
    <3>3. CASE kind = "dict" /\ d = InDictOf(b.open, NoMembers)
      <4>1. Answer!EmptyContainer(kind) = DictOf(NoMembers)
        BY <3>3 DEF Answer!EmptyContainer, DictOf, NoMembers
      <4> QED
        BY <1>0, <3>2, <3>3, <4>1 DEF InDictOf
    <3>4. CASE kind = "array" /\ d = InArrayOf(b.open, <<>>)
      <4>1. Answer!EmptyContainer(kind) = ArrayOf(<<>>)
        BY <3>4 DEF Answer!EmptyContainer, ArrayOf
      <4> QED
        BY <1>0, <3>2, <3>4, <4>1 DEF InArrayOf
    <3> QED
      BY <2>1, <3>3, <3>4 DEF OpensIn
  <2> QED
    BY <2>4, <2>5
<1>4. CASE \E a, m : /\ c = EndCall("dict") /\ Fills(a, DictOf(m), d)
                     /\ b = InDictOf(a.open, m)
  <2>1. PICK a, m : /\ c = EndCall("dict") /\ Fills(a, DictOf(m), d)
                    /\ b = InDictOf(a.open, m)
    BY <1>4
  <2> DEFINE x == [node |-> DictOf(m), key |-> NoKey]
  <2>2. b = Building(Append(a.open, x)) /\ x.node = DictOf(m) /\ x.key = NoKey /\ x.node.kind = "dict"
    BY <2>1 DEF InDictOf, DictOf
  <2>3. c.call = "End" /\ c.kind = "dict"
    BY <2>1 DEF EndCall
  <2> HIDE DEF x
  <2> QED
    BY <1>0, <2>1, <2>2, <2>3, ClosedContainer
<1>5. CASE \E a, e : /\ c = EndCall("array") /\ Fills(a, ArrayOf(e), d)
                     /\ b = InArrayOf(a.open, e)
  <2>1. PICK a, e : /\ c = EndCall("array") /\ Fills(a, ArrayOf(e), d)
                    /\ b = InArrayOf(a.open, e)
    BY <1>5
  <2> DEFINE x == [node |-> ArrayOf(e), key |-> NoKey]
  <2>2. b = Building(Append(a.open, x)) /\ x.node = ArrayOf(e) /\ x.key = NoKey /\ x.node.kind = "array"
    BY <2>1 DEF InArrayOf, ArrayOf
  <2>3. c.call = "End" /\ c.kind = "array"
    BY <2>1 DEF EndCall
  <2> HIDE DEF x
  <2> QED
    BY <1>0, <2>1, <2>2, <2>3, ClosedContainer
<1> QED
  BY <1>1, <1>2, <1>3, <1>4, <1>5 DEF Step

-----------------------------------------------------------------------------
(* Rows of calls.                                                          *)

LEMMA LeadsNowhere ==
  ASSUME NEW b
  PROVE  Leads(b, <<>>, b)
<1> DEFINE t == [k \in {0} |-> b]
<1>1. t[0] = b /\ t[Len(<<>>)] = b /\ \A k \in 1 .. Len(<<>>) : Step(t[k - 1], <<>>[k], t[k])
  BY RowOfNone
<1> HIDE DEF t
<1> QED
  BY <1>1, RowOfNone DEF Leads

LEMMA LeadsByOne ==
  ASSUME NEW b, NEW c, NEW d, Step(b, c, d)
  PROVE  Leads(b, <<c>>, d)
<1> DEFINE t == [k \in 0 .. 1 |-> IF k = 0 THEN b ELSE d]
<1>1. t[0] = b /\ t[1] = d
  OBVIOUS
<1>2. PICK s : s = <<c>> /\ IsRow(s) /\ Len(s) = 1 /\ s[1] = c
  BY RowOfOne
<1>3. \A k \in 1 .. Len(s) : Step(t[k - 1], s[k], t[k])
  <2>1. \A k \in 1 .. 1 : k = 1 /\ k - 1 = 0
    OBVIOUS
  <2> HIDE DEF t
  <2> QED
    BY <1>1, <1>2, <2>1
<1> HIDE DEF t
<1>4. Leads(b, s, d)
  BY <1>1, <1>2, <1>3 DEF Leads
<1> QED
  BY <1>2, <1>4

LEMMA LeadsOn ==
  ASSUME NEW b, NEW u, NEW c, NEW v, NEW d, Leads(b, u, c), Leads(c, v, d)
  PROVE  Leads(b, u \o v, d)
<1>1. PICK m, n : m = Len(u) /\ n = Len(v)
  OBVIOUS
<1>2. IsRow(u) /\ IsRow(v) /\ m \in Nat /\ n \in Nat
  BY <1>1, RowFacts DEF Leads
<1>3. PICK s : s = u \o v
  OBVIOUS
<1>4. /\ IsRow(s) /\ Len(s) = m + n
      /\ \A k \in 1 .. m : s[k] = u[k]
      /\ \A k \in 1 .. n : s[m + k] = v[k]
  BY <1>1, <1>2, <1>3, RowsJoined
<1>5. PICK f : f[0] = b /\ f[m] = c /\ \A k \in 1 .. m : Step(f[k - 1], u[k], f[k])
  BY <1>1 DEF Leads
<1>6. PICK g : g[0] = c /\ g[n] = d /\ \A k \in 1 .. n : Step(g[k - 1], v[k], g[k])
  BY <1>1 DEF Leads
<1> DEFINE t == [k \in 0 .. m + n |-> IF k <= m THEN f[k] ELSE g[k - m]]
<1>7. /\ \A k \in 0 .. m : t[k] = f[k]
      /\ \A k \in 0 .. n : t[m + k] = g[k]
  <2>1. \A k \in 0 .. m : t[k] = f[k]
    BY <1>2
  <2>2. ASSUME NEW k \in 0 .. n PROVE t[m + k] = g[k]
    <3>1. CASE k = 0
      BY <1>2, <1>5, <1>6, <3>1
    <3>2. CASE k # 0
      <4>1. m + k \in 0 .. m + n /\ ~ (m + k <= m) /\ (m + k) - m = k
        BY <1>2, <3>2
      <4> QED
        BY <4>1
    <3> QED
      BY <3>1, <3>2
  <2> QED
    BY <2>1, <2>2
<1> HIDE DEF t
<1>8. t[0] = b /\ t[m + n] = d
  <2>1. 0 \in 0 .. m /\ n \in 0 .. n
    BY <1>2
  <2> QED
    BY <1>5, <1>6, <1>7, <2>1
<1>9. ASSUME NEW k \in 1 .. m + n PROVE Step(t[k - 1], s[k], t[k])
  <2>1. CASE k \in 1 .. m
    <3>1. k - 1 \in 0 .. m /\ k \in 0 .. m
      BY <1>2, <2>1
    <3> QED
      BY <1>4, <1>5, <1>7, <2>1, <3>1
  <2>2. CASE k \notin 1 .. m
    <3>1. PICK j \in 1 .. n : k = m + j
      <4>1. k - m \in 1 .. n /\ k = m + (k - m)
        BY <1>2, <2>2
      <4> QED
        BY <4>1
    <3>2. j - 1 \in 0 .. n /\ j \in 0 .. n /\ k - 1 = m + (j - 1)
      BY <1>2, <3>1
    <3>3. t[k - 1] = g[j - 1] /\ t[k] = g[j] /\ s[k] = v[j]
      BY <1>4, <1>7, <3>1, <3>2
    <3> QED
      BY <1>6, <3>1, <3>3
  <2> QED
    BY <2>1, <2>2
<1>10. Leads(b, s, d)
  BY <1>4, <1>8, <1>9 DEF Leads
<1> QED
  BY <1>3, <1>10

(* The first of the calls that are to be made may be made, and the others  *)
(* lead on from there.                                                     *)
LEMMA LeadsFirst ==
  ASSUME NEW b, NEW s, NEW d, Leads(b, s, d), s # <<>>
  PROVE  \E c : Step(b, Head(s), c) /\ Leads(c, Tail(s), d)
<1>1. IsRow(s)
  BY DEF Leads
<1>2. PICK n \in Nat : Len(s) = n + 1
  <2>1. Len(s) \in Nat /\ Len(s) # 0
    BY <1>1, RowFacts
  <2>2. Len(s) - 1 \in Nat /\ Len(s) = (Len(s) - 1) + 1
    BY <2>1
  <2> QED
    BY <2>2
<1>3. PICK u : u = Tail(s)
  OBVIOUS
<1>4. /\ IsRow(u) /\ Len(u) = n /\ Head(s) = s[1]
      /\ \A k \in 1 .. n : u[k] = s[k + 1]
  <2>1. Len(s) - 1 = n
    BY <1>2
  <2> QED
    BY <1>1, <1>3, <2>1, RowShortened
<1>5. PICK t : /\ t[0] = b /\ t[n + 1] = d
               /\ \A k \in 1 .. n + 1 : Step(t[k - 1], s[k], t[k])
  BY <1>2 DEF Leads
<1> DEFINE r == [k \in 0 .. n |-> t[k + 1]]
<1>6. Step(b, Head(s), t[1])
  <2>1. 1 \in 1 .. n + 1 /\ 1 - 1 = 0
    BY <1>2
  <2> QED
    BY <1>4, <1>5, <2>1
<1>7. r[0] = t[1] /\ r[n] = d
  BY <1>2, <1>5
<1>8. ASSUME NEW k \in 1 .. n PROVE Step(r[k - 1], u[k], r[k])
  <2>1. k + 1 \in 1 .. n + 1 /\ (k + 1) - 1 = k /\ (k - 1) + 1 = k
    BY <1>2
  <2>2. k \in 0 .. n /\ k - 1 \in 0 .. n
    BY <1>2
  <2>3. r[k - 1] = t[k] /\ r[k] = t[k + 1]
    BY <2>1, <2>2
  <2> HIDE DEF r
  <2> QED
    BY <1>4, <1>5, <2>1, <2>3
<1> HIDE DEF r
<1>9. Leads(t[1], u, d)
  BY <1>4, <1>7, <1>8 DEF Leads
<1> QED
  BY <1>3, <1>6, <1>9

LEMMA LeadsAtOnce ==
  ASSUME NEW b, NEW d, Leads(b, <<>>, d)
  PROVE  d = b
BY RowOfNone DEF Leads

-----------------------------------------------------------------------------
(* The members of a dictionary that a row of calls provides.               *)

Joined(m, more) ==
  [k \in DOMAIN m \cup DOMAIN more |-> IF k \in DOMAIN more THEN more[k] ELSE m[k]]

Single(key, node) == [k \in {key} |-> node]

Tells(body, more) ==
  \A o, m : IsRow(o) => Leads(InDictOf(o, m), body, InDictOf(o, Joined(m, more)))

LEMMA TellsBoth ==
  ASSUME NEW u, NEW p, NEW v, NEW q, Tells(u, p), Tells(v, q)
  PROVE  Tells(u \o v, Joined(p, q))
<1> SUFFICES ASSUME NEW o, NEW m, IsRow(o)
             PROVE  Leads(InDictOf(o, m), u \o v, InDictOf(o, Joined(m, Joined(p, q))))
  BY DEF Tells
<1>1. Leads(InDictOf(o, m), u, InDictOf(o, Joined(m, p)))
  BY DEF Tells
<1>2. Leads(InDictOf(o, Joined(m, p)), v, InDictOf(o, Joined(Joined(m, p), q)))
  BY DEF Tells
<1>3. Joined(Joined(m, p), q) = Joined(m, Joined(p, q))
  BY DEF Joined
<1> QED
  BY <1>1, <1>2, <1>3, LeadsOn

LEMMA OneMember ==
  ASSUME NEW m, NEW key, NEW node
  PROVE  WithMember(m, key, node) = Joined(m, Single(key, node))
BY DEF WithMember, Joined, Single

LEMMA KeyLeads ==
  ASSUME NEW o, IsRow(o), NEW m, NEW key, key # NoKey
  PROVE  Leads(InDictOf(o, m), <<KeyCall(key)>>, AfterKey(o, m, key))
<1>1. Step(InDictOf(o, m), KeyCall(key), AfterKey(o, m, key))
  BY DEF Step
<1> QED
  BY <1>1, LeadsByOne

LEMMA PairTells ==
  ASSUME NEW key, key # NoKey, NEW value
  PROVE  Tells(Pair(key, value), Single(key, Answer!Leaf(value)))
<1> SUFFICES ASSUME NEW o, NEW m, IsRow(o)
             PROVE  Leads(InDictOf(o, m), Pair(key, value),
                          InDictOf(o, Joined(m, Single(key, Answer!Leaf(value)))))
  BY DEF Tells
<1> DEFINE d == InDictOf(o, WithMember(m, key, Answer!Leaf(value)))
<1>1. Leads(InDictOf(o, m), <<KeyCall(key)>>, AfterKey(o, m, key))
  BY KeyLeads
<1>2. Fills(AfterKey(o, m, key), Answer!Leaf(value), d)
  BY DEF Fills
<1>3. Step(AfterKey(o, m, key), ValueCall(value), d)
  BY <1>2 DEF Step
<1>4. Leads(AfterKey(o, m, key), <<ValueCall(value)>>, d)
  BY <1>3, LeadsByOne
<1>5. Leads(InDictOf(o, m), <<KeyCall(key)>> \o <<ValueCall(value)>>, d)
  BY <1>1, <1>4, LeadsOn
<1>6. <<KeyCall(key)>> \o <<ValueCall(value)>> = Pair(key, value)
  BY RowOfTwo DEF Pair
<1> QED
  BY <1>5, <1>6, OneMember

(* A dictionary, or an array, in a place for a value.                      *)
LEMMA DictLeads ==
  ASSUME NEW a, NEW body, NEW m, NEW d, Fills(a, DictOf(m), d),
         Leads(InDictOf(a.open, NoMembers), body, InDictOf(a.open, m))
  PROVE  Leads(a, InDict(body), d)
<1>1. Step(a, StartCall("dict"), InDictOf(a.open, NoMembers))
  BY DEF Step, OpensIn
<1>2. Step(InDictOf(a.open, m), EndCall("dict"), d)
  BY DEF Step
<1>3. Leads(a, <<StartCall("dict")>>, InDictOf(a.open, NoMembers))
  BY <1>1, LeadsByOne
<1>4. Leads(InDictOf(a.open, m), <<EndCall("dict")>>, d)
  BY <1>2, LeadsByOne
<1>5. Leads(a, <<StartCall("dict")>> \o body, InDictOf(a.open, m))
  BY <1>3, LeadsOn
<1> QED
  BY <1>4, <1>5, LeadsOn DEF InDict

LEMMA ArrayLeads ==
  ASSUME NEW a, NEW body, NEW e, NEW d, Fills(a, ArrayOf(e), d),
         Leads(InArrayOf(a.open, <<>>), body, InArrayOf(a.open, e))
  PROVE  Leads(a, InArray(body), d)
<1>1. Step(a, StartCall("array"), InArrayOf(a.open, <<>>))
  BY DEF Step, OpensIn
<1>2. Step(InArrayOf(a.open, e), EndCall("array"), d)
  BY DEF Step
<1>3. Leads(a, <<StartCall("array")>>, InArrayOf(a.open, <<>>))
  BY <1>1, LeadsByOne
<1>4. Leads(InArrayOf(a.open, e), <<EndCall("array")>>, d)
  BY <1>2, LeadsByOne
<1>5. Leads(a, <<StartCall("array")>> \o body, InArrayOf(a.open, e))
  BY <1>3, LeadsOn
<1> QED
  BY <1>4, <1>5, LeadsOn DEF InArray

(* A dictionary as the next element of an array.                           *)
LEMMA ElementLeads ==
  ASSUME NEW o, IsRow(o), NEW e, NEW body, NEW more, Tells(body, more)
  PROVE  Leads(InArrayOf(o, e), InDict(body),
               InArrayOf(o, Append(e, DictOf(Joined(NoMembers, more)))))
<1> DEFINE a == InArrayOf(o, e)
           m == Joined(NoMembers, more)
           d == InArrayOf(o, Append(e, DictOf(m)))
<1>1. IsRow(a.open)
  BY Containers DEF InArrayOf, Building
<1>2. Fills(a, DictOf(m), d)
  BY DEF Fills
<1> HIDE DEF a
<1>3. Leads(InDictOf(a.open, NoMembers), body, InDictOf(a.open, m))
  BY <1>1 DEF Tells
<1> HIDE DEF m, d
<1>4. Leads(a, InDict(body), d)
  BY <1>2, <1>3, DictLeads
<1> QED
  BY <1>4 DEF a, d, m

(* An array as a member.                                                   *)
LEMMA ArrayTells ==
  ASSUME NEW key, key # NoKey, NEW body, NEW e,
         \A o : IsRow(o) => Leads(InArrayOf(o, <<>>), body, InArrayOf(o, e))
  PROVE  Tells(<<KeyCall(key)>> \o InArray(body), Single(key, ArrayOf(e)))
<1> SUFFICES ASSUME NEW o, NEW m, IsRow(o)
             PROVE  Leads(InDictOf(o, m), <<KeyCall(key)>> \o InArray(body),
                          InDictOf(o, Joined(m, Single(key, ArrayOf(e)))))
  BY DEF Tells
<1> DEFINE a == AfterKey(o, m, key)
           d == InDictOf(o, WithMember(m, key, ArrayOf(e)))
<1>1. Fills(a, ArrayOf(e), d)
  BY DEF Fills
<1>2. IsRow(a.open)
  BY Containers DEF AfterKey, Building
<1>3. Leads(InDictOf(o, m), <<KeyCall(key)>>, a)
  BY KeyLeads
<1> HIDE DEF a
<1>4. Leads(InArrayOf(a.open, <<>>), body, InArrayOf(a.open, e))
  BY <1>2
<1>5. Leads(a, InArray(body), d)
  BY <1>1, <1>4, ArrayLeads
<1> QED
  BY <1>3, <1>5, LeadsOn, OneMember

-----------------------------------------------------------------------------
(* Loops over the elements of an array.                                    *)

(* Values, one after the other.                                            *)
LEMMA ValuesLead ==
  ASSUME NEW o, IsRow(o), NEW n \in Nat, NEW s, NEW v,
         IsRow(s), Len(s) = n, \A k \in 1 .. n : s[k] = ValueCall(v[k])
  PROVE  Leads(InArrayOf(o, <<>>), s, InArrayOf(o, [k \in 1 .. n |-> Answer!Leaf(v[k])]))
<1> DEFINE e(k) == [j \in 1 .. k |-> Answer!Leaf(v[j])]
           t == [k \in 0 .. n |-> InArrayOf(o, e(k))]
<1>1. e(0) = <<>>
  BY RowOfNone
<1>2. ASSUME NEW k \in 1 .. n PROVE e(k) = Append(e(k - 1), Answer!Leaf(v[k]))
  <2> DEFINE L == [j \in 1 .. n |-> Answer!Leaf(v[j])]
             E == {L[j] : j \in 1 .. n}
  <2>1. e(k - 1) = [j \in 1 .. k - 1 |-> L[j]] /\ e(k) = [j \in 1 .. k |-> L[j]] /\ L[k] = Answer!Leaf(v[k])
    OBVIOUS
  <2>2. \A j \in 1 .. n : L[j] \in E
    OBVIOUS
  <2> HIDE DEF L, E, e
  <2>3. [j \in 1 .. k - 1 |-> L[j]] \in Seq(E) /\ Len([j \in 1 .. k - 1 |-> L[j]]) = k - 1
    BY <2>2
  <2>4. Append([j \in 1 .. k - 1 |-> L[j]], L[k]) = [j \in 1 .. k |-> L[j]]
    BY <2>2, <2>3
  <2> QED
    BY <2>1, <2>4
<1>3. ASSUME NEW k \in 1 .. n PROVE Step(t[k - 1], s[k], t[k])
  <2>1. Fills(InArrayOf(o, e(k - 1)), Answer!Leaf(v[k]), InArrayOf(o, e(k)))
    <3> HIDE DEF e
    <3> QED
      BY <1>2 DEF Fills
  <2>2. t[k - 1] = InArrayOf(o, e(k - 1)) /\ t[k] = InArrayOf(o, e(k))
    OBVIOUS
  <2> HIDE DEF t, e
  <2> QED
    BY <2>1, <2>2 DEF Step
<1>4. t[0] = InArrayOf(o, <<>>) /\ t[n] = InArrayOf(o, e(n))
  <2>1. t[0] = InArrayOf(o, e(0)) /\ t[n] = InArrayOf(o, e(n))
    OBVIOUS
  <2> HIDE DEF t, e
  <2> QED
    BY <1>1, <2>1
<1> HIDE DEF t
<1> QED
  BY <1>3, <1>4 DEF Leads

(* Dictionaries, one after the other, make an array of dictionaries.       *)
LEMMA DictsLead ==
  ASSUME NEW n \in Nat, NEW ss, ss = [k \in 1 .. n |-> ss[k]],
         \A k \in 1 .. n : /\ IsRow(ss[k])
                           /\ \E body, more : ss[k] = InDict(body) /\ Tells(body, more)
  PROVE  \E e : \A o : IsRow(o) =>
           Leads(InArrayOf(o, <<>>), FlattenSeq(ss), InArrayOf(o, e))
<1> DEFINE E == UNION {ToSet(ss[k]) : k \in 1 .. n}
           Makes(s) == \E e : \A o : IsRow(o) => Leads(InArrayOf(o, <<>>), s, InArrayOf(o, e))
<1>1. ASSUME NEW k \in 1 .. n PROVE ss[k] \in Seq(E)
  <2>1. ss[k] \in Seq(ToSet(ss[k])) /\ ToSet(ss[k]) \subseteq E
    BY DEF IsRow
  <2> HIDE DEF E
  <2> QED
    BY <2>1
<1> HIDE DEF E
<1>2. ss \in Seq(Seq(E)) /\ Len(ss) = n
  <2> DEFINE T == Seq(E)
  <2>1. \A k \in 1 .. n : ss[k] \in T
    BY <1>1
  <2> HIDE DEF T
  <2>2. ss \in Seq(T) /\ Len(ss) = n
    BY <2>1
  <2> QED
    BY <2>2 DEF T
<1>3. PICK f \in [0 .. n -> Seq(E)] :
        /\ f[0] = <<>> /\ f[n] = FlattenSeq(ss)
        /\ \A k \in 1 .. n : f[k] = f[k - 1] \o ss[k]
  BY <1>2, Flattened, ZenonT(30)
<1> DEFINE S == {k \in Nat : k <= n => Makes(f[k])}
<1>4. 0 \in S
  <2>1. Makes(<<>>)
    BY LeadsNowhere
  <2> QED
    BY <1>3, <2>1
<1>5. ASSUME NEW k \in S PROVE k + 1 \in S
  <2> SUFFICES ASSUME k + 1 <= n PROVE Makes(f[k + 1])
    OBVIOUS
  <2>1. k \in Nat /\ k + 1 \in 1 .. n /\ (k + 1) - 1 = k
    OBVIOUS
  <2>2. PICK e : \A o : IsRow(o) => Leads(InArrayOf(o, <<>>), f[k], InArrayOf(o, e))
    <3>1. k <= n
      BY <2>1
    <3> QED
      BY <3>1
  <2>3. PICK body, more : ss[k + 1] = InDict(body) /\ Tells(body, more)
    BY <2>1
  <2>4. f[k + 1] = f[k] \o ss[k + 1]
    BY <1>3, <2>1
  <2> HIDE DEF S
  <2>5. ASSUME NEW o, IsRow(o)
        PROVE  Leads(InArrayOf(o, <<>>), f[k + 1],
                     InArrayOf(o, Append(e, DictOf(Joined(NoMembers, more)))))
    <3>1. Leads(InArrayOf(o, <<>>), f[k], InArrayOf(o, e))
      BY <2>2, <2>5
    <3>2. Leads(InArrayOf(o, e), ss[k + 1],
                InArrayOf(o, Append(e, DictOf(Joined(NoMembers, more)))))
      BY <2>3, <2>5, ElementLeads
    <3> QED
      BY <2>4, <3>1, <3>2, LeadsOn
  <2> QED
    BY <2>5
<1>6. S = Nat
  <2>1. S \in SUBSET Nat
    OBVIOUS
  <2> HIDE DEF S
  <2> QED
    BY <1>4, <1>5, <2>1, SetInduction
<1>7. Makes(f[n])
  <2>1. n \in S
    BY <1>6
  <2> HIDE DEF Makes
  <2> QED
    BY <2>1
<1> QED
  BY <1>3, <1>7

-----------------------------------------------------------------------------
(* The answers.                                                            *)

LEMMA KeysAreKeys ==
  ASSUME NEW key \in AnswerKeys
  PROVE  key # NoKey
BY ResponseAssumption

(* A pair under one of the keys.                                           *)
LEMMA MemberTells ==
  ASSUME NEW key \in AnswerKeys, NEW value
  PROVE  Tells(Pair(key, value), Single(key, Answer!Leaf(value)))
BY KeysAreKeys, PairTells

LEMMA DictIsRow ==
  ASSUME NEW body, NEW more, Tells(body, more)
  PROVE  IsRow(InDict(body))
<1>1. Leads(InArrayOf(<<>>, <<>>), InDict(body),
            InArrayOf(<<>>, Append(<<>>, DictOf(Joined(NoMembers, more)))))
  BY RowOfNone, ElementLeads
<1> QED
  BY <1>1 DEF Leads

(* An answer is what follows the id of its request.                        *)
IdMember(r) == Single("request_id", Answer!Leaf(Int32(r.id)))
AnswerNode(r, more) == DictOf(Joined(NoMembers, Joined(IdMember(r), more)))

LEMMA AnswerLeads ==
  ASSUME NEW r, NEW body, NEW more, Tells(body, more), NEW e
  PROVE  Leads(InArrayOf(<<>>, e), InDict(IdPair(r) \o body),
               InArrayOf(<<>>, Append(e, AnswerNode(r, more))))
<1>1. Tells(IdPair(r), IdMember(r))
  BY MemberTells DEF IdPair, IdMember, AnswerKeys
<1>2. Tells(IdPair(r) \o body, Joined(IdMember(r), more))
  BY <1>1, TellsBoth
<1> QED
  BY <1>2, ElementLeads, RowOfNone DEF AnswerNode

LEMMA AnswerHasId ==
  ASSUME NEW r, NEW more, "request_id" \notin DOMAIN more
  PROVE  HasId(AnswerNode(r, more), r.id)
BY DEF HasId, AnswerNode, DictOf, Joined, IdMember, Single, NoMembers, Answer!Leaf

(* What the answers tell.                                                  *)
NotFoundMembers == Single("error_message", Answer!Leaf(Text("not found")))

BusMembers(r) ==
  LET length == BusRouteLength(catalogue, r.name)
  IN  IF BusStopCount(catalogue, r.name) = -1 THEN NotFoundMembers
      ELSE Joined(Joined(Joined(
             Single("stop_count", Answer!Leaf(Int32(BusStopCount(catalogue, r.name)))),
             Single("unique_stop_count", Answer!Leaf(Int32(BusUniqStopCount(catalogue, r.name))))),
             Single("route_length", Answer!Leaf(Number(length)))),
             Single("curvature", Answer!Leaf(Number(Quotient(length,
                      ChordLength(catalogue, r.name, Distances))))))

LEMMA NotFoundTells == Tells(NotFoundPair, NotFoundMembers)
BY MemberTells DEF NotFoundPair, NotFoundMembers, AnswerKeys

LEMMA BusAnswerLeads ==
  ASSUME NEW r, NEW e
  PROVE  /\ Leads(InArrayOf(<<>>, e), BusAnswer(r),
                  InArrayOf(<<>>, Append(e, AnswerNode(r, BusMembers(r)))))
         /\ HasId(AnswerNode(r, BusMembers(r)), r.id)
<1>1. CASE BusStopCount(catalogue, r.name) = -1
  <2>1. BusMembers(r) = NotFoundMembers
    BY <1>1 DEF BusMembers
  <2>2. BusAnswer(r) = InDict(IdPair(r) \o NotFoundPair)
    BY <1>1 DEF BusAnswer
  <2>3. "request_id" \notin DOMAIN BusMembers(r)
    BY <2>1 DEF NotFoundMembers, Single
  <2> QED
    BY <2>1, <2>2, <2>3, NotFoundTells, AnswerLeads, AnswerHasId
<1>2. CASE BusStopCount(catalogue, r.name) # -1
  <2>1. PICK a, b, c, d :
          /\ a = Int32(BusStopCount(catalogue, r.name))
          /\ b = Int32(BusUniqStopCount(catalogue, r.name))
          /\ c = Number(BusRouteLength(catalogue, r.name))
          /\ d = Number(Quotient(BusRouteLength(catalogue, r.name),
                                 ChordLength(catalogue, r.name, Distances)))
    OBVIOUS
  <2> DEFINE body == Pair("stop_count", a) \o Pair("unique_stop_count", b)
                     \o Pair("route_length", c) \o Pair("curvature", d)
             more == Joined(Joined(Joined(
                       Single("stop_count", Answer!Leaf(a)),
                       Single("unique_stop_count", Answer!Leaf(b))),
                       Single("route_length", Answer!Leaf(c))),
                       Single("curvature", Answer!Leaf(d)))
  <2>2. BusMembers(r) = more
    BY <1>2, <2>1 DEF BusMembers
  <2>3. BusAnswer(r) = InDict(IdPair(r) \o body)
    BY <1>2, <2>1 DEF BusAnswer
  <2>4. /\ Tells(Pair("stop_count", a), Single("stop_count", Answer!Leaf(a)))
        /\ Tells(Pair("unique_stop_count", b), Single("unique_stop_count", Answer!Leaf(b)))
        /\ Tells(Pair("route_length", c), Single("route_length", Answer!Leaf(c)))
        /\ Tells(Pair("curvature", d), Single("curvature", Answer!Leaf(d)))
    BY MemberTells DEF AnswerKeys
  <2>5. Tells(body, more)
    BY <2>4, TellsBoth
  <2>6. "request_id" \notin DOMAIN more
    BY DEF Joined, Single
  <2> HIDE DEF body, more
  <2> QED
    BY <2>2, <2>3, <2>5, <2>6, AnswerLeads, AnswerHasId
<1> QED
  BY <1>1, <1>2

StopMembers(r) ==
  LET buses == GetStopBuses(catalogue, r.name)
  IN  IF r.name \notin StopNames(catalogue) THEN NotFoundMembers
      ELSE Single("buses", ArrayOf([k \in 1 .. Cardinality(buses) |->
                                      Answer!Leaf(Text(Sorted(buses)[k]))]))

LEMMA StopAnswerLeads ==
  ASSUME NEW r, NEW e,
         r.name \in StopNames(catalogue) => IsFiniteSet(GetStopBuses(catalogue, r.name))
  PROVE  /\ Leads(InArrayOf(<<>>, e), StopAnswer(r),
                  InArrayOf(<<>>, Append(e, AnswerNode(r, StopMembers(r)))))
         /\ HasId(AnswerNode(r, StopMembers(r)), r.id)
<1>1. CASE r.name \notin StopNames(catalogue)
  <2>1. StopMembers(r) = NotFoundMembers
    BY <1>1 DEF StopMembers
  <2>2. StopAnswer(r) = InDict(IdPair(r) \o NotFoundPair)
    BY <1>1 DEF StopAnswer
  <2>3. "request_id" \notin DOMAIN StopMembers(r)
    BY <2>1 DEF NotFoundMembers, Single
  <2> QED
    BY <2>1, <2>2, <2>3, NotFoundTells, AnswerLeads, AnswerHasId
<1>2. CASE r.name \in StopNames(catalogue)
  <2>1. PICK names, n : names = GetStopBuses(catalogue, r.name) /\ n = Cardinality(names)
    OBVIOUS
  <2>2. n \in Nat
    BY <1>2, <2>1, FS_CardinalityType
  <2> DEFINE v == [k \in 1 .. n |-> Text(Sorted(names)[k])]
             s == [k \in 1 .. n |-> ValueCall(v[k])]
             body == <<KeyCall("buses")>> \o InArray(s)
             more == Single("buses", ArrayOf([k \in 1 .. n |-> Answer!Leaf(v[k])]))
  <2>3. StopMembers(r) = more
    BY <1>2, <2>1 DEF StopMembers
  <2>4. StopAnswer(r) = InDict(IdPair(r) \o body)
    <3>1. BusList(names) = s
      BY <2>1 DEF BusList
    <3> HIDE DEF s
    <3> QED
      BY <1>2, <2>1, <3>1 DEF StopAnswer
  <2>5. IsRow(s) /\ Len(s) = n /\ \A k \in 1 .. n : s[k] = ValueCall(v[k])
    <3> HIDE DEF v
    <3>1. s \in Seq({s[k] : k \in 1 .. n}) /\ Len(s) = n
      <4>1. s = [k \in 1 .. n |-> s[k]]
        OBVIOUS
      <4> HIDE DEF s
      <4> QED
        BY <2>2, <4>1
    <3>2. \A k \in 1 .. n : s[k] = ValueCall(v[k])
      OBVIOUS
    <3> HIDE DEF s
    <3> QED
      BY <3>1, <3>2, Rows
  <2> HIDE DEF v, s
  <2>6. Tells(body, more)
    <3>1. ASSUME NEW o, IsRow(o)
          PROVE  Leads(InArrayOf(o, <<>>), s, InArrayOf(o, [k \in 1 .. n |-> Answer!Leaf(v[k])]))
      BY <2>2, <2>5, <3>1, ValuesLead
    <3>2. "buses" # NoKey
      BY KeysAreKeys DEF AnswerKeys
    <3> QED
      BY <3>1, <3>2, ArrayTells
  <2>7. "request_id" \notin DOMAIN more
    BY DEF Single
  <2> HIDE DEF body, more
  <2> QED
    BY <2>3, <2>4, <2>6, <2>7, AnswerLeads, AnswerHasId
<1> QED
  BY <1>1, <1>2

MapMembers == Single("map", Answer!Leaf(Picture))

LEMMA MapAnswerLeads ==
  ASSUME NEW r, NEW e
  PROVE  /\ Leads(InArrayOf(<<>>, e), MapAnswer(r),
                  InArrayOf(<<>>, Append(e, AnswerNode(r, MapMembers))))
         /\ HasId(AnswerNode(r, MapMembers), r.id)
<1>1. Tells(Pair("map", Picture), MapMembers)
  BY MemberTells DEF MapMembers, AnswerKeys
<1>2. "request_id" \notin DOMAIN MapMembers
  BY DEF MapMembers, Single
<1> QED
  BY <1>1, <1>2, AnswerLeads, AnswerHasId DEF MapAnswer

(* A section of a route is a dictionary.                                   *)
LEMMA SectionIsDict ==
  ASSUME NEW item
  PROVE  \E body, more : Section(item) = InDict(body) /\ Tells(body, more)
<1>1. CASE item.kind = "Wait"
  <2>1. PICK a, b, c : a = Literal("Wait") /\ b = Text(item.stop) /\ c = Number(item.time)
    OBVIOUS
  <2> DEFINE body == Pair("type", a) \o Pair("stop_name", b) \o Pair("time", c)
             more == Joined(Joined(Single("type", Answer!Leaf(a)),
                                   Single("stop_name", Answer!Leaf(b))),
                            Single("time", Answer!Leaf(c)))
  <2>2. Section(item) = InDict(body)
    BY <1>1, <2>1 DEF Section
  <2>3. /\ Tells(Pair("type", a), Single("type", Answer!Leaf(a)))
        /\ Tells(Pair("stop_name", b), Single("stop_name", Answer!Leaf(b)))
        /\ Tells(Pair("time", c), Single("time", Answer!Leaf(c)))
    BY MemberTells DEF AnswerKeys
  <2>4. Tells(body, more)
    BY <2>3, TellsBoth
  <2> HIDE DEF body, more
  <2> QED
    BY <2>2, <2>4
<1>2. CASE item.kind # "Wait"
  <2>1. PICK a, b, c, d : /\ a = Literal("Bus") /\ b = Text(item.bus) /\ c = Number(item.time)
                          /\ d = Int32(item.span_count)
    OBVIOUS
  <2> DEFINE body == Pair("type", a) \o Pair("bus", b) \o Pair("time", c) \o Pair("span_count", d)
             more == Joined(Joined(Joined(Single("type", Answer!Leaf(a)),
                                          Single("bus", Answer!Leaf(b))),
                                   Single("time", Answer!Leaf(c))),
                            Single("span_count", Answer!Leaf(d)))
  <2>2. Section(item) = InDict(body)
    BY <1>2, <2>1 DEF Section
  <2>3. /\ Tells(Pair("type", a), Single("type", Answer!Leaf(a)))
        /\ Tells(Pair("bus", b), Single("bus", Answer!Leaf(b)))
        /\ Tells(Pair("time", c), Single("time", Answer!Leaf(c)))
        /\ Tells(Pair("span_count", d), Single("span_count", Answer!Leaf(d)))
    BY MemberTells DEF AnswerKeys
  <2>4. Tells(body, more)
    BY <2>3, TellsBoth
  <2> HIDE DEF body, more
  <2> QED
    BY <2>2, <2>4
<1> QED
  BY <1>1, <1>2

LEMMA RouteAnswerLeads ==
  ASSUME NEW r, NEW e, NEW found, NEW n \in Nat, DOMAIN found.items = 1 .. n
  PROVE  \E node : /\ Leads(InArrayOf(<<>>, e), RouteAnswer(r, found),
                            InArrayOf(<<>>, Append(e, node)))
                   /\ HasId(node, r.id)
<1> SUFFICES \E body, more : /\ RouteAnswer(r, found) = InDict(IdPair(r) \o body)
                             /\ Tells(body, more) /\ "request_id" \notin DOMAIN more
  BY AnswerLeads, AnswerHasId
<1>1. CASE found.time = -1
  <2>1. RouteAnswer(r, found) = InDict(IdPair(r) \o NotFoundPair)
    BY <1>1 DEF RouteAnswer
  <2>2. "request_id" \notin DOMAIN NotFoundMembers
    BY DEF NotFoundMembers, Single
  <2> QED
    BY <2>1, <2>2, NotFoundTells
<1>2. CASE found.time # -1
  <2>1. PICK ss : ss = [k \in 1 .. n |-> Section(found.items[k])]
    OBVIOUS
  <2>2. ss = [k \in DOMAIN found.items |-> Section(found.items[k])] /\ ss = [k \in 1 .. n |-> ss[k]]
    BY <2>1
  <2>3. ASSUME NEW k \in 1 .. n
        PROVE  IsRow(ss[k]) /\ \E body, more : ss[k] = InDict(body) /\ Tells(body, more)
    <3>1. ss[k] = Section(found.items[k])
      BY <2>1
    <3> QED
      BY <3>1, SectionIsDict, DictIsRow
  <2>4. PICK sections : \A o : IsRow(o) =>
          Leads(InArrayOf(o, <<>>), FlattenSeq(ss), InArrayOf(o, sections))
    BY <2>2, <2>3, DictsLead
  <2>5. PICK t : t = Number(found.time)
    OBVIOUS
  <2> DEFINE first == Pair("total_time", t)
             one == Single("total_time", Answer!Leaf(t))
             last == <<KeyCall("items")>> \o InArray(FlattenSeq(ss))
             two == Single("items", ArrayOf(sections))
  <2>6. Tells(first, one)
    BY MemberTells DEF AnswerKeys
  <2>7. Tells(last, two)
    <3>1. "items" # NoKey
      BY KeysAreKeys DEF AnswerKeys
    <3> QED
      BY <2>4, <3>1, ArrayTells
  <2>8. IsRow(<<KeyCall("items")>>) /\ IsRow(InArray(FlattenSeq(ss))) /\ IsRow(first)
    <3>1. Fills(InArrayOf(<<>>, <<>>), ArrayOf(sections), InArrayOf(<<>>, Append(<<>>, ArrayOf(sections))))
      BY RowOfNone DEF Fills
    <3>2. IsRow(InArrayOf(<<>>, <<>>).open)
      BY RowOfNone, Containers DEF InArrayOf, Building
    <3>3. IsRow(InArray(FlattenSeq(ss)))
      BY <2>4, <3>1, <3>2, ArrayLeads DEF Leads
    <3>4. IsRow(first)
      BY <2>6, RowOfNone DEF Tells, Leads
    <3> QED
      BY <3>3, <3>4, RowOfOne
  <2>9. RouteAnswer(r, found) = InDict(IdPair(r) \o (first \o last))
    <3>1. RouteAnswer(r, found)
            = InDict(IdPair(r) \o (first \o <<KeyCall("items")>> \o InArray(FlattenSeq(ss))))
      BY <1>2, <2>2, <2>5 DEF RouteAnswer, Sections
    <3>2. first \o <<KeyCall("items")>> \o InArray(FlattenSeq(ss)) = first \o last
      BY <2>8, RowsAssociate
    <3> QED
      BY <3>1, <3>2
  <2>10. Tells(first \o last, Joined(one, two))
    BY <2>6, <2>7, TellsBoth
  <2>11. "request_id" \notin DOMAIN Joined(one, two)
    BY DEF Joined, Single
  <2> QED
    BY <2>9, <2>10, <2>11
<1> QED
  BY <1>1, <1>2

-----------------------------------------------------------------------------
(* The catalogue.                                                          *)

Source == DBBuilder(base)

LEMMA SourceBuses ==
  ASSUME base \in Documents, NEW name \in StopNames(Source)
  PROVE  IsFiniteSet(GetStopBuses(Source, name))
<1>1. base \in Seq(Request)
  BY ResponseAssumption
<1>2. CASE HasNull(base)
  <2>1. Source = EmptyCatalogue
    BY <1>2 DEF Source, DBBuilder
  <2> QED
    BY <2>1, EmptyCatalogueFacts
<1>3. CASE ~ HasNull(base)
  <2>1. BuiltCatalogue(Source, base) /\ BusesAsDeclared(Source, base)
    BY <1>1, <1>3, DBBuilderIsConsistent, DBBuilderKeepsTheBuses DEF Source
  <2>2. GetStopBuses(Source, name) \subseteq BusNames(Source)
    BY <2>1 DEF BuiltCatalogue, IndexConsistent, GetStopBuses
  <2>3. IsFiniteSet(BusPlaces(base))
    <3>1. DOMAIN base = 1 .. Len(base) /\ Len(base) \in Int
      BY <1>1
    <3>2. IsFiniteSet(DOMAIN base)
      BY <3>1, FS_Interval
    <3> QED
      BY <3>2, FS_Subset DEF BusPlaces
  <2>4. IsFiniteSet(BusNames(Source))
    <3> DEFINE S == BusPlaces(base)
               f == [k \in S |-> base[k].name]
               T == {base[k].name : k \in S}
    <3>1. f \in Surjection(S, T)
      BY DEF Surjection
    <3> HIDE DEF f, S, T
    <3>2. IsFiniteSet(T)
      BY <2>3, <3>1, FS_Surjection DEF S
    <3> QED
      BY <2>1, <3>2 DEF BusesAsDeclared, S, T
  <2> QED
    BY <2>2, <2>4, FS_Subset
<1> QED
  BY <1>2, <1>3

-----------------------------------------------------------------------------
(* The invariant.                                                          *)

(* What node has to be to answer request r from the catalogue.             *)
AnswerTo(r, node) ==
  /\ HasId(node, r.id)
  /\ r.type = "Bus" => node = AnswerNode(r, BusMembers(r))
  /\ r.type = "Stop" => node = AnswerNode(r, StopMembers(r))

(* e holds the answers to the first n requests.                            *)
Taken(e, n) ==
  /\ IsRow(e) /\ Len(e) = AnsweredAmong(n)
  /\ \A k \in 1 .. n : Answered(k) => AnswerTo(stat[k], e[AnsweredAmong(k)])

(* ... to all of them: of an array with a null there are none.             *)
Finished(e) ==
  IF HasNullRequest THEN e = <<>> ELSE i = Len(stat) + 1 /\ Taken(e, Len(stat))

(* What makes a request throw.                                             *)
Bad(k) ==
  \/ stat[k].type = "Malformed"
  \/ stat[k].type = "Route" /\ stat[k].from # stat[k].to
     /\ ~ {stat[k].from, stat[k].to} \subseteq StopNames(Source)

Throws ==
  \/ RouterThrows(Source, routing)
  \/ stat # Absent /\ ~ HasNullRequest /\ \E k \in DOMAIN stat : Bad(k)

Inputs == base \in Documents /\ stat \in StatDocs /\ (pc # "threw" => catalogue = Source)

Before ==
  pc \in {"router", "begin"} => calls = <<>> /\ i = 1 /\ Builder = Building(<<>>)

During ==
  /\ pc \in {"requests", "end"} => stat # Absent
  /\ pc = "requests" =>
       /\ ~ HasNullRequest /\ i \in 1 .. Len(stat) + 1
       /\ \E e : Taken(e, i - 1) /\ Leads(Builder, calls, InArrayOf(<<>>, e))
  /\ pc = "end" => \E e : Finished(e) /\ Leads(Builder, calls, InArrayOf(<<>>, e))

After ==
  /\ pc \in {"build", "done"} =>
       IF stat = Absent THEN calls = <<>> /\ Builder = Building(<<>>)
       ELSE \E e : Finished(e) /\ Leads(Builder, calls, Complete(ArrayOf(e)))
  /\ pc \in {"done", "threw"} => calls = <<>>

(* Who has come this far met nothing that throws.                          *)
Passed ==
  /\ pc \in {"router", "begin", "requests", "end", "build", "done", "threw"}
  /\ pc \notin {"router", "threw"} => ~ RouterThrows(Source, routing)
  /\ pc = "threw" => Throws
  /\ pc = "requests" => \A k \in 1 .. i - 1 : ~ Bad(k)
  /\ pc \in {"end", "build", "done"} => ~ Throws

RInv == Inputs /\ Before /\ During /\ After /\ Passed

LEMMA CountedOn ==
  ASSUME NEW n \in Nat
  PROVE  /\ AnsweredAmong(0) = 0 /\ AnsweredAmong(n) \in 0 .. n
         /\ AnsweredAmong(n + 1) = IF Answered(n + 1) THEN AnsweredAmong(n) + 1
                                                      ELSE AnsweredAmong(n)
<1> DEFINE S(m) == {k \in 1 .. m : Answered(k)}
<1>1. S(0) = {}
  OBVIOUS
<1>2. S(n + 1) = IF Answered(n + 1) THEN S(n) \cup {n + 1} ELSE S(n)
  <2>1. 1 .. n + 1 = (1 .. n) \cup {n + 1}
    OBVIOUS
  <2> QED
    BY <2>1
<1>3. S(n) \subseteq 1 .. n /\ n + 1 \notin S(n)
  OBVIOUS
<1>4. IsFiniteSet(1 .. n) /\ Cardinality(1 .. n) = n
  BY FS_Interval
<1>5. IsFiniteSet(S(n)) /\ Cardinality(S(n)) \in 0 .. n
  <2>1. IsFiniteSet(S(n)) /\ Cardinality(S(n)) <= n
    BY <1>3, <1>4, FS_Subset
  <2>2. Cardinality(S(n)) \in Nat
    BY <2>1, FS_CardinalityType
  <2> QED
    BY <2>1, <2>2
<1>6. \A m : AnsweredAmong(m) = Cardinality(S(m))
  BY DEF AnsweredAmong
<1> HIDE DEF S
<1>7. AnsweredAmong(0) = 0
  BY <1>1, <1>6, FS_EmptySet
<1>8. Answered(n + 1) => Cardinality(S(n + 1)) = Cardinality(S(n)) + 1
  BY <1>2, <1>3, <1>5, FS_AddElement
<1> QED
  BY <1>2, <1>5, <1>6, <1>7, <1>8

(* The places of the answers to the first n requests.                      *)
LEMMA PlaceInRange ==
  ASSUME NEW n \in Nat, NEW k \in 1 .. n, Answered(k)
  PROVE  AnsweredAmong(k) \in 1 .. AnsweredAmong(n)
<1> DEFINE S(m) == {j \in 1 .. m : Answered(j)}
<1>1. S(k) \subseteq S(n) /\ k \in S(k) /\ S(n) \subseteq 1 .. n
  OBVIOUS
<1>2. \A m : AnsweredAmong(m) = Cardinality(S(m))
  BY DEF AnsweredAmong
<1> HIDE DEF S
<1>3. IsFiniteSet(S(n))
  <2>1. IsFiniteSet(1 .. n)
    BY FS_Interval
  <2> QED
    BY <1>1, <2>1, FS_Subset
<1>4. IsFiniteSet(S(k)) /\ Cardinality(S(k)) <= Cardinality(S(n))
  BY <1>1, <1>3, FS_Subset
<1>5. Cardinality(S(k)) \in Nat /\ Cardinality(S(n)) \in Nat /\ Cardinality(S(k)) # 0
  BY <1>1, <1>3, <1>4, FS_CardinalityType, FS_EmptySet
<1> QED
  BY <1>2, <1>4, <1>5

LEMMA AnswerStays ==
  ASSUME UNCHANGED <<base, stat, routing, catalogue>>, NEW r, NEW node
  PROVE  AnswerTo(r, node)' <=> AnswerTo(r, node)
<1>1. BusMembers(r)' = BusMembers(r)
  BY DEF BusMembers
<1>2. StopMembers(r)' = StopMembers(r)
  BY DEF StopMembers
<1>3. AnswerNode(r, BusMembers(r))' = AnswerNode(r, BusMembers(r))
  BY <1>1
<1>4. AnswerNode(r, StopMembers(r))' = AnswerNode(r, StopMembers(r))
  BY <1>2
<1> QED
  BY <1>3, <1>4 DEF AnswerTo

LEMMA TakenStays ==
  ASSUME UNCHANGED <<base, stat, routing, catalogue>>, NEW e, NEW n
  PROVE  Taken(e, n)' <=> Taken(e, n)
<1>1. AnsweredAmong(n)' = AnsweredAmong(n)
  BY DEF AnsweredAmong, Answered
<1>2. \A k : AnsweredAmong(k)' = AnsweredAmong(k)
  BY DEF AnsweredAmong, Answered
<1>3. \A k : Answered(k)' <=> Answered(k)
  BY DEF Answered
<1>4. \A k : AnswerTo(stat[k], e[AnsweredAmong(k)])' <=> AnswerTo(stat[k], e[AnsweredAmong(k)])
  <2> TAKE k
  <2>1. PICK r, node : r = stat[k] /\ node = e[AnsweredAmong(k)]
    OBVIOUS
  <2>2. stat'[k] = r /\ e[AnsweredAmong(k)'] = node
    BY <1>2, <2>1
  <2>3. AnswerTo(stat[k], e[AnsweredAmong(k)])' <=> AnswerTo(r, node)'
    BY <2>2
  <2> QED
    BY <2>1, <2>3, AnswerStays
<1> QED
  BY <1>1, <1>3, <1>4 DEF Taken

LEMMA TakenOn ==
  ASSUME NEW e, NEW n \in Nat, Taken(e, n)
  PROVE  /\ ~ Answered(n + 1) => Taken(e, n + 1)
         /\ \A node : Answered(n + 1) /\ AnswerTo(stat[n + 1], node) => Taken(Append(e, node), n + 1)
<1>1. IsRow(e) /\ Len(e) = AnsweredAmong(n) /\ Len(e) \in Nat
  BY RowFacts DEF Taken
<1>2. \A k \in 1 .. n : Answered(k) => AnswerTo(stat[k], e[AnsweredAmong(k)])
  BY DEF Taken
<1>3. CASE ~ Answered(n + 1)
  <2>1. AnsweredAmong(n + 1) = AnsweredAmong(n)
    BY <1>3, CountedOn
  <2>2. \A k \in 1 .. n + 1 : k \in 1 .. n \/ k = n + 1
    OBVIOUS
  <2> QED
    BY <1>1, <1>2, <1>3, <2>1, <2>2 DEF Taken
<1>4. CASE Answered(n + 1)
  <2> SUFFICES ASSUME NEW node, AnswerTo(stat[n + 1], node)
               PROVE  Taken(Append(e, node), n + 1)
    BY <1>4
  <2>1. AnsweredAmong(n + 1) = Len(e) + 1
    BY <1>1, <1>4, CountedOn
  <2>2. PICK f : f = Append(e, node)
    OBVIOUS
  <2>3. /\ IsRow(f) /\ Len(f) = Len(e) + 1 /\ f[Len(e) + 1] = node
        /\ \A k \in 1 .. Len(e) : f[k] = e[k]
    BY <1>1, <2>2, RowAppended
  <2>4. ASSUME NEW k \in 1 .. n + 1, Answered(k)
        PROVE  AnswerTo(stat[k], f[AnsweredAmong(k)])
    <3>1. CASE k = n + 1
      BY <2>1, <2>3, <3>1
    <3>2. CASE k # n + 1
      <4>1. k \in 1 .. n
        BY <3>2
      <4>2. AnsweredAmong(k) \in 1 .. Len(e)
        BY <1>1, <2>4, <4>1, PlaceInRange
      <4> QED
        BY <1>2, <2>3, <2>4, <4>1, <4>2
    <3> QED
      BY <3>1, <3>2
  <2> QED
    BY <2>1, <2>2, <2>3, <2>4 DEF Taken
<1> QED
  BY <1>3, <1>4

-----------------------------------------------------------------------------
(* The invariant holds at first, and every action keeps it.                *)

LEMMA InitRInv == Init => RInv
<1> SUFFICES ASSUME Init PROVE RInv
  OBVIOUS
<1>1. Builder = Building(<<>>)
  BY DEF Init, Answer!Init, Builder, Building
<1>2. pc = "router" /\ calls = <<>> /\ i = 1
  BY DEF Init
<1>3. Inputs
  BY DEF Init, Inputs, Source
<1> QED
  BY <1>1, <1>2, <1>3 DEF RInv, Before, During, After, Passed

LEMMA BeginStep ==
  RInv /\ (ConstructRouter \/ BeginWithNoRequests \/ BeginArray) => RInv'
<1> SUFFICES ASSUME RInv PROVE ConstructRouter \/ BeginWithNoRequests \/ BeginArray => RInv'
  OBVIOUS
<1> USE DEF RInv, input_vars, builder_vars
<1>1. ASSUME ConstructRouter PROVE RInv'
  <2>0. /\ pc = "router" /\ pc' = IF RouterThrows(catalogue, routing) THEN "threw" ELSE "begin"
        /\ UNCHANGED <<base, stat, routing, catalogue, i, calls, open, root, phase>>
    BY <1>1 DEF ConstructRouter
  <2>1. /\ pc = "router" /\ catalogue = Source /\ calls = <<>>
        /\ pc' = IF RouterThrows(Source, routing) THEN "threw" ELSE "begin"
        /\ UNCHANGED <<base, stat, routing, catalogue, i, calls, open, root, phase>>
    BY <2>0 DEF Inputs, Before
  <2>2. Source' = Source /\ Builder' = Builder
    BY <2>1 DEF Source, Builder
  <2>3. Inputs'
    BY <2>1, <2>2 DEF Inputs
  <2>4. Before'
    BY <2>1, <2>2 DEF Before, Building
  <2>5. pc' \in {"threw", "begin"}
    BY <2>1
  <2>6. During' /\ After'
    BY <2>1, <2>5 DEF During, After
  <2>7. Passed'
    BY <2>1, <2>2 DEF Passed, Throws
  <2> QED
    BY <2>3, <2>4, <2>6, <2>7
<1>2. ASSUME BeginWithNoRequests PROVE RInv'
  <2>1. /\ pc = "begin" /\ pc' = "build" /\ stat = Absent /\ calls = <<>>
        /\ UNCHANGED <<base, stat, routing, catalogue, i, calls, open, root, phase>>
        /\ Builder = Building(<<>>)
    BY <1>2 DEF BeginWithNoRequests, Before
  <2>2. Source' = Source /\ Builder' = Builder
    BY <2>1 DEF Source, Builder
  <2>3. Inputs' /\ Before' /\ During'
    BY <2>1, <2>2 DEF Inputs, Before, During
  <2>4. After'
    BY <2>1, <2>2 DEF After, Building
  <2>5. Passed'
    BY <2>1, <2>2 DEF Passed, Throws
  <2> QED
    BY <2>3, <2>4, <2>5
<1>3. ASSUME BeginArray PROVE RInv'
  <2>1. /\ pc = "begin" /\ stat # Absent /\ calls' = <<StartCall("array")>> /\ i = 1
        /\ pc' = IF HasNullRequest THEN "end" ELSE "requests"
        /\ UNCHANGED <<base, stat, routing, catalogue, i, open, root, phase>>
        /\ Builder = Building(<<>>)
    BY <1>3 DEF BeginArray, Before
  <2>2. Source' = Source /\ Builder' = Builder /\ HasNullRequest' = HasNullRequest
    BY <2>1 DEF Source, Builder, HasNullRequest
  <2>3. Leads(Builder, calls, InArrayOf(<<>>, <<>>))'
    <3>1. Fills(Building(<<>>), Answer!Leaf(Null), Complete(Answer!Leaf(Null)))
      BY DEF Fills
    <3>2. Building(<<>>).open = <<>>
      BY DEF Building
    <3>3. Step(Building(<<>>), StartCall("array"), InArrayOf(<<>>, <<>>))
      BY <3>1, <3>2 DEF Step, OpensIn
    <3>4. Leads(Building(<<>>), <<StartCall("array")>>, InArrayOf(<<>>, <<>>))
      BY <3>3, LeadsByOne
    <3> QED
      BY <2>1, <2>2, <3>4
  <2>4. stat \in Seq(StatRequest) /\ Len(stat) \in Nat
    BY <2>1, ResponseAssumption DEF Inputs
  <2>5. AnsweredAmong(0)' = 0 /\ Taken(<<>>, 0)'
    <3>1. AnsweredAmong(0) = 0
      BY CountedOn
    <3>2. Taken(<<>>, 0)
      BY <3>1, RowOfNone DEF Taken
    <3> QED
      BY <2>1, <3>1, <3>2, TakenStays DEF AnsweredAmong, Answered
  <2>6. Inputs' /\ Before' /\ After'
    BY <2>1, <2>2 DEF Inputs, Before, After
  <2>7. During'
    <3>1. CASE HasNullRequest
      <4>1. pc' = "end" /\ Finished(<<>>)'
        BY <2>1, <2>2, <3>1 DEF Finished
      <4> QED
        BY <2>1, <2>3, <4>1 DEF During
    <3>2. CASE ~ HasNullRequest
      <4>1. pc' = "requests" /\ ~ HasNullRequest' /\ i' = 1 /\ i' - 1 = 0 /\ i' \in 1 .. Len(stat') + 1
        BY <2>1, <2>2, <2>4, <3>2
      <4> QED
        BY <2>1, <2>3, <2>5, <4>1 DEF During
    <3> QED
      BY <3>1, <3>2
  <2>8. Passed'
    <3>1. i' = 1 /\ pc' \in {"end", "requests"} /\ (pc' = "end" => HasNullRequest')
      BY <2>1, <2>2
    <3>2. ~ RouterThrows(Source, routing)'
      BY <2>1, <2>2 DEF Passed
    <3> QED
      BY <3>1, <3>2 DEF Passed, Throws
  <2> QED
    BY <2>6, <2>7, <2>8
<1> QED
  BY <1>1, <1>2, <1>3

(* A call that is made is the first of those that lead where they lead.    *)
LEMMA CallStep == RInv /\ CallBuilder => RInv'
<1> SUFFICES ASSUME RInv, CallBuilder PROVE RInv'
  OBVIOUS
<1> USE DEF RInv, input_vars, builder_vars
<1>1. /\ calls # <<>> /\ Make(Head(calls)) /\ calls' = Tail(calls)
      /\ UNCHANGED <<base, stat, routing, catalogue, pc, i>>
  BY DEF CallBuilder
<1>2. Source' = Source /\ HasNullRequest' = HasNullRequest
  BY <1>1 DEF Source, HasNullRequest
<1>3. ASSUME NEW d, Leads(Builder, calls, d) PROVE Leads(Builder, calls, d)'
  <2>1. PICK c : Step(Builder, Head(calls), c) /\ Leads(c, Tail(calls), d)
    BY <1>1, <1>3, LeadsFirst
  <2>2. Builder' = c
    BY <1>1, <2>1, StepIsMade
  <2> QED
    BY <1>1, <2>1, <2>2
<1>4. pc \in {"requests", "end", "build"} /\ stat # Absent
  BY <1>1 DEF Before, During, After, Passed
<1>5. ASSUME NEW e PROVE Finished(e)' <=> Finished(e)
  BY <1>1, <1>2, TakenStays DEF Finished
<1>6. ASSUME NEW e PROVE Taken(e, i - 1)' <=> Taken(e, i - 1)
  <2>1. PICK n : n = i - 1 /\ n = i' - 1
    BY <1>1
  <2>2. Taken(e, n)' <=> Taken(e, n)
    BY <1>1, TakenStays
  <2> QED
    BY <2>1, <2>2
<1>7. Inputs' /\ Before'
  BY <1>1, <1>2, <1>4 DEF Inputs, Before
<1>8. During'
  <2>1. CASE pc = "requests"
    <3>1. PICK e : Taken(e, i - 1) /\ Leads(Builder, calls, InArrayOf(<<>>, e))
      BY <2>1 DEF During
    <3>2. Taken(e, i - 1)' /\ Leads(Builder, calls, InArrayOf(<<>>, e))'
      BY <1>3, <1>6, <3>1
    <3> QED
      BY <1>1, <1>2, <2>1, <3>2 DEF During
  <2>2. CASE pc = "end"
    <3>1. PICK e : Finished(e) /\ Leads(Builder, calls, InArrayOf(<<>>, e))
      BY <2>2 DEF During
    <3>2. Finished(e)' /\ Leads(Builder, calls, InArrayOf(<<>>, e))'
      BY <1>3, <1>5, <3>1
    <3> QED
      BY <1>1, <1>4, <2>2, <3>2 DEF During
  <2>3. CASE pc = "build"
    BY <1>1, <2>3 DEF During
  <2> QED
    BY <1>4, <2>1, <2>2, <2>3
<1>9. After'
  <2>1. CASE pc = "build"
    <3>1. PICK e : Finished(e) /\ Leads(Builder, calls, Complete(ArrayOf(e)))
      BY <1>4, <2>1 DEF After
    <3>2. Finished(e)' /\ Leads(Builder, calls, Complete(ArrayOf(e)))'
      BY <1>3, <1>5, <3>1
    <3> QED
      BY <1>1, <1>4, <2>1, <3>2 DEF After
  <2>2. CASE pc # "build"
    BY <1>1, <1>4, <2>2 DEF After
  <2> QED
    BY <2>1, <2>2
<1>10. Passed'
  BY <1>1, <1>2 DEF Passed, Throws, Bad
<1> QED
  BY <1>7, <1>8, <1>9, <1>10

(* A request is taken and its answer, if it gets one, gathered.            *)
LEMMA RequestStays ==
  ASSUME RInv, pc = "requests", calls = <<>>, i <= Len(stat), ~ Bad(i),
         NEW its, NEW e, NEW f, Taken(e, i - 1), Taken(f, i), Builder = InArrayOf(<<>>, e),
         AnswerWith(its), Leads(InArrayOf(<<>>, e), its, InArrayOf(<<>>, f))
  PROVE  RInv'
<1> USE DEF RInv, input_vars, builder_vars
<1>1. /\ calls' = its /\ i' = i + 1 /\ pc' = "requests"
      /\ UNCHANGED <<base, stat, routing, catalogue, pc, open, root, phase>>
  BY DEF AnswerWith
<1>2. Source' = Source /\ HasNullRequest' = HasNullRequest /\ Builder' = Builder
  BY <1>1 DEF Source, HasNullRequest, Builder
<1>3. i \in 1 .. Len(stat) + 1 /\ ~ HasNullRequest /\ stat # Absent
  BY DEF During
<1>4. stat \in Seq(StatRequest) /\ Len(stat) \in Nat
  BY <1>3, ResponseAssumption DEF Inputs
<1>5. i' \in 1 .. Len(stat) + 1 /\ i' - 1 = i /\ i \in Nat
  BY <1>1, <1>3, <1>4
<1>6. Inputs' /\ Before' /\ After'
  BY <1>1, <1>2 DEF Inputs, Before, After
<1>7. During'
  <2>1. PICK n : n = i /\ n = i' - 1
    BY <1>5
  <2>2. Taken(f, n)'
    BY <1>1, <2>1, TakenStays
  <2>3. Taken(f, i - 1)'
    BY <2>1, <2>2
  <2>4. Leads(Builder, calls, InArrayOf(<<>>, f))'
    BY <1>1, <1>2
  <2> QED
    BY <1>1, <1>2, <1>3, <1>5, <2>3, <2>4 DEF During
<1>8. Passed'
  <2>1. \A k \in 1 .. i' - 1 : ~ Bad(k)'
    <3>1. \A k \in 1 .. i : k \in 1 .. i - 1 \/ k = i
      BY <1>5
    <3>2. \A k \in 1 .. i : ~ Bad(k)
      BY <3>1 DEF Passed
    <3> QED
      BY <1>1, <1>2, <1>5, <3>2 DEF Bad
  <2> QED
    BY <1>1, <1>2, <2>1 DEF Passed
<1> QED
  BY <1>6, <1>7, <1>8

(* The answers so far, and that the next one is to go behind them.         *)
Ready(e) ==
  /\ Taken(e, i - 1) /\ Builder = InArrayOf(<<>>, e)
  /\ Answered(i) => \A node : AnswerTo(stat[i], node) => Taken(Append(e, node), i)
  /\ ~ Answered(i) => Taken(e, i)

LEMMA RequestTaken ==
  ASSUME RInv, NEW type, InRequest(type)
  PROVE  /\ pc = "requests" /\ calls = <<>> /\ i <= Len(stat) /\ i \in 1 .. Len(stat)
         /\ stat \in Seq(StatRequest) /\ stat[i] \in StatRequest /\ stat[i].type = type
         /\ catalogue = Source /\ ~ HasNullRequest /\ stat # Absent /\ base \in Documents
         /\ \E e : Ready(e)
<1> USE DEF RInv
<1>1. pc = "requests" /\ calls = <<>> /\ i <= Len(stat) /\ stat[i].type = type
  BY DEF InRequest, request
<1>2. stat # Absent /\ ~ HasNullRequest /\ i \in 1 .. Len(stat) + 1
  BY <1>1 DEF During
<1>3. base \in Documents /\ stat \in Seq(StatRequest) /\ catalogue = Source
  BY <1>1, <1>2, ResponseAssumption DEF Inputs
<1>4. i \in 1 .. Len(stat) /\ Len(stat) \in Nat
  BY <1>1, <1>2, <1>3
<1>5. stat[i] \in StatRequest
  BY <1>3, <1>4
<1>6. PICK e : Taken(e, i - 1) /\ Leads(Builder, calls, InArrayOf(<<>>, e))
  BY <1>1 DEF During
<1>7. Builder = InArrayOf(<<>>, e)
  BY <1>1, <1>6, LeadsAtOnce
<1>8. PICK n \in Nat : n = i - 1 /\ n + 1 = i
  BY <1>4
<1>9. /\ ~ Answered(i) => Taken(e, i)
      /\ Answered(i) => \A node : AnswerTo(stat[i], node) => Taken(Append(e, node), i)
  <2>1. Taken(e, n)
    BY <1>6, <1>8
  <2>2. /\ ~ Answered(n + 1) => Taken(e, n + 1)
        /\ \A node : Answered(n + 1) /\ AnswerTo(stat[n + 1], node) => Taken(Append(e, node), n + 1)
    BY <2>1, TakenOn
  <2> QED
    BY <1>8, <2>2
<1>10. Ready(e)
  BY <1>6, <1>7, <1>9 DEF Ready
<1> QED
  BY <1>1, <1>2, <1>3, <1>4, <1>5, <1>10

LEMMA AnswerStep ==
  RInv /\ (BusRequest \/ StopRequest \/ MapRequest \/ RouteRequest \/ OtherRequest) => RInv'
<1> SUFFICES ASSUME RInv
             PROVE  BusRequest \/ StopRequest \/ MapRequest \/ RouteRequest \/ OtherRequest => RInv'
  OBVIOUS
<1>1. ASSUME BusRequest PROVE RInv'
  <2>1. InRequest("Bus") /\ AnswerWith(BusAnswer(stat[i]))
    BY <1>1 DEF BusRequest, request
  <2>2. PICK e : Ready(e)
    BY <2>1, RequestTaken
  <2>3. pc = "requests" /\ calls = <<>> /\ i <= Len(stat) /\ stat[i].type = "Bus"
    BY <2>1, RequestTaken
  <2>4. ~ Bad(i) /\ Answered(i)
    BY <2>3 DEF Bad, Answered
  <2>5. PICK node : node = AnswerNode(stat[i], BusMembers(stat[i]))
    OBVIOUS
  <2>6. /\ Leads(InArrayOf(<<>>, e), BusAnswer(stat[i]), InArrayOf(<<>>, Append(e, node)))
        /\ HasId(node, stat[i].id)
    BY <2>5, BusAnswerLeads
  <2>7. Taken(Append(e, node), i)
    BY <2>2, <2>3, <2>4, <2>5, <2>6 DEF AnswerTo, Ready
  <2> QED
    BY <2>1, <2>2, <2>3, <2>4, <2>6, <2>7, RequestStays DEF Ready
<1>2. ASSUME StopRequest PROVE RInv'
  <2>1. InRequest("Stop") /\ AnswerWith(StopAnswer(stat[i]))
    BY <1>2 DEF StopRequest, request
  <2>2. PICK e : Ready(e)
    BY <2>1, RequestTaken
  <2>3. /\ pc = "requests" /\ calls = <<>> /\ i <= Len(stat) /\ stat[i].type = "Stop"
        /\ catalogue = Source /\ base \in Documents
    BY <2>1, RequestTaken
  <2>4. ~ Bad(i) /\ Answered(i)
    BY <2>3 DEF Bad, Answered
  <2>5. PICK node : node = AnswerNode(stat[i], StopMembers(stat[i]))
    OBVIOUS
  <2>6. stat[i].name \in StopNames(catalogue) =>
          IsFiniteSet(GetStopBuses(catalogue, stat[i].name))
    BY <2>3, SourceBuses
  <2>7. /\ Leads(InArrayOf(<<>>, e), StopAnswer(stat[i]), InArrayOf(<<>>, Append(e, node)))
        /\ HasId(node, stat[i].id)
    BY <2>5, <2>6, StopAnswerLeads
  <2>8. Taken(Append(e, node), i)
    BY <2>2, <2>3, <2>4, <2>5, <2>7 DEF AnswerTo, Ready
  <2> QED
    BY <2>1, <2>2, <2>3, <2>4, <2>7, <2>8, RequestStays DEF Ready
<1>3. ASSUME MapRequest PROVE RInv'
  <2>1. InRequest("Map") /\ AnswerWith(MapAnswer(stat[i]))
    BY <1>3 DEF MapRequest, request
  <2>2. PICK e : Ready(e)
    BY <2>1, RequestTaken
  <2>3. pc = "requests" /\ calls = <<>> /\ i <= Len(stat) /\ stat[i].type = "Map"
    BY <2>1, RequestTaken
  <2>4. ~ Bad(i) /\ Answered(i)
    BY <2>3 DEF Bad, Answered
  <2>5. PICK node : node = AnswerNode(stat[i], MapMembers)
    OBVIOUS
  <2>6. /\ Leads(InArrayOf(<<>>, e), MapAnswer(stat[i]), InArrayOf(<<>>, Append(e, node)))
        /\ HasId(node, stat[i].id)
    BY <2>5, MapAnswerLeads
  <2>7. Taken(Append(e, node), i)
    BY <2>2, <2>3, <2>4, <2>6 DEF AnswerTo, Ready
  <2> QED
    BY <2>1, <2>2, <2>3, <2>4, <2>6, <2>7, RequestStays DEF Ready
<1>4. ASSUME RouteRequest PROVE RInv'
  <2>1. PICK found \in FoundRoutes(stat[i].from, stat[i].to) :
          /\ InRequest("Route") /\ ~ RouteThrows(stat[i])
          /\ AnswerWith(RouteAnswer(stat[i], found))
    BY <1>4 DEF RouteRequest, request
  <2>2. PICK e : Ready(e)
    BY <2>1, RequestTaken
  <2>3. /\ pc = "requests" /\ calls = <<>> /\ i <= Len(stat) /\ stat[i].type = "Route"
        /\ catalogue = Source
    BY <2>1, RequestTaken
  <2>4. ~ Bad(i) /\ Answered(i)
    BY <2>1, <2>3 DEF Bad, Answered, RouteThrows
  <2>5. \E n \in Nat : DOMAIN found.items = 1 .. n
    <3>1. found.items = <<>> \/ \E u, v : found.items = <<u, v>>
      BY <2>1 DEF FoundRoutes, NotFound
    <3>2. DOMAIN <<>> = 1 .. 0
      OBVIOUS
    <3>3. ASSUME NEW u, NEW v PROVE DOMAIN <<u, v>> = 1 .. 2
      OBVIOUS
    <3> QED
      BY <3>1, <3>2, <3>3
  <2>6. PICK node :
          /\ Leads(InArrayOf(<<>>, e), RouteAnswer(stat[i], found), InArrayOf(<<>>, Append(e, node)))
          /\ HasId(node, stat[i].id)
    BY <2>5, RouteAnswerLeads
  <2>7. Taken(Append(e, node), i)
    BY <2>2, <2>3, <2>4, <2>6 DEF AnswerTo, Ready
  <2> QED
    BY <2>1, <2>2, <2>3, <2>4, <2>6, <2>7, RequestStays DEF Ready
<1>5. ASSUME OtherRequest PROVE RInv'
  <2>1. InRequest("Other") /\ AnswerWith(<<>>)
    BY <1>5 DEF OtherRequest
  <2>2. PICK e : Ready(e)
    BY <2>1, RequestTaken
  <2>3. pc = "requests" /\ calls = <<>> /\ i <= Len(stat) /\ stat[i].type = "Other"
    BY <2>1, RequestTaken
  <2>4. ~ Bad(i) /\ ~ Answered(i)
    BY <2>3 DEF Bad, Answered
  <2> QED
    BY <2>1, <2>2, <2>3, <2>4, LeadsNowhere, RequestStays DEF Ready
<1> QED
  BY <1>1, <1>2, <1>3, <1>4, <1>5

(* The answers that are complete, when no call is to be made.              *)
LEMMA AnswersTaken ==
  ASSUME RInv, stat # Absent, pc # "threw", calls = <<>>, ~ HasNullRequest
  PROVE  \E e : Taken(e, i - 1) /\ Answers = e
<1>1. Builder.open = open /\ Builder.phase = phase /\ Builder.root = root
  BY DEF Builder
<1>2. stat \in Seq(StatRequest) /\ Len(stat) \in Nat
  BY ResponseAssumption DEF RInv, Inputs
<1>3. CASE pc \in {"router", "begin"}
  <2>1. open = <<>> /\ phase = "building" /\ i = 1
    BY <1>1, <1>3 DEF RInv, Before, Building
  <2>2. Taken(<<>>, 0)
    <3>1. AnsweredAmong(0) = 0
      BY CountedOn
    <3> QED
      BY <3>1, RowOfNone DEF Taken
  <2>3. i - 1 = 0 /\ Answers = <<>>
    BY <2>1 DEF Answers
  <2> QED
    BY <2>2, <2>3
<1>4. CASE pc \in {"requests", "end"}
  <2>1. PICK e : Taken(e, i - 1) /\ Leads(Builder, calls, InArrayOf(<<>>, e))
    <3>1. CASE pc = "requests"
      BY <3>1 DEF RInv, During
    <3>2. CASE pc = "end"
      <4>1. PICK e : Finished(e) /\ Leads(Builder, calls, InArrayOf(<<>>, e))
        BY <3>2 DEF RInv, During
      <4>2. i - 1 = Len(stat) /\ Taken(e, Len(stat))
        BY <1>2, <4>1 DEF Finished
      <4> QED
        BY <4>1, <4>2
    <3> QED
      BY <1>4, <3>1, <3>2
  <2>2. Builder = InArrayOf(<<>>, e)
    BY <2>1, LeadsAtOnce
  <2>3. open = Append(<<>>, [node |-> ArrayOf(e), key |-> NoKey]) /\ phase = "building"
    BY <1>1, <2>2 DEF InArrayOf, Building
  <2>4. open # <<>> /\ open[1] = [node |-> ArrayOf(e), key |-> NoKey]
    <3>1. Len(<<>>) + 1 = 1
      OBVIOUS
    <3> QED
      BY <2>3, <3>1, RowOfNone, RowAppended
  <2>5. Answers = e
    BY <2>3, <2>4 DEF Answers, ArrayOf
  <2> QED
    BY <2>1, <2>5
<1>5. CASE pc \in {"build", "done"}
  <2>1. PICK e : Finished(e) /\ Leads(Builder, calls, Complete(ArrayOf(e)))
    BY <1>5 DEF RInv, After
  <2>2. Builder = Complete(ArrayOf(e))
    BY <2>1, LeadsAtOnce
  <2>3. Answers = e
    BY <1>1, <2>2 DEF Answers, Complete, ArrayOf
  <2>4. i - 1 = Len(stat) /\ Taken(e, Len(stat))
    BY <1>2, <2>1 DEF Finished
  <2> QED
    BY <2>3, <2>4
<1> QED
  BY <1>3, <1>4, <1>5 DEF RInv, Passed

LEMMA ThrowStep == RInv /\ (RouteUnknown \/ MalformedRequest) => RInv'
<1> SUFFICES ASSUME RInv, RouteUnknown \/ MalformedRequest PROVE RInv'
  OBVIOUS
<1> USE DEF RInv, input_vars, builder_vars
<1>1. /\ InRequest("Route") \/ InRequest("Malformed")
      /\ stat[i].type = "Route" => RouteThrows(stat[i])
      /\ pc' = "threw"
      /\ UNCHANGED <<base, stat, routing, i, calls, open, root, phase>>
  BY DEF RouteUnknown, MalformedRequest, InRequest, request
<1>2. /\ calls = <<>> /\ i \in 1 .. Len(stat) /\ stat \in Seq(StatRequest)
      /\ stat[i].type \in {"Route", "Malformed"} /\ catalogue = Source
      /\ ~ HasNullRequest /\ stat # Absent
  BY <1>1, RequestTaken
<1>3. Bad(i)
  BY <1>1, <1>2 DEF Bad, RouteThrows
<1>4. Throws
  BY <1>2, <1>3 DEF Throws
<1>5. Throws'
  BY <1>1, <1>4 DEF Throws, Source, HasNullRequest, Bad
<1>6. Inputs' /\ Before' /\ During' /\ After'
  BY <1>1, <1>2 DEF Inputs, Before, During, After
<1> QED
  BY <1>1, <1>5, <1>6 DEF Passed

LEMMA LastStep == RInv /\ (RequestsDone \/ EndOfArray \/ Build) => RInv'
<1> SUFFICES ASSUME RInv PROVE RequestsDone \/ EndOfArray \/ Build => RInv'
  OBVIOUS
<1> USE DEF RInv, input_vars, builder_vars
<1>1. ASSUME RequestsDone PROVE RInv'
  <2>1. /\ pc = "requests" /\ calls = <<>> /\ i > Len(stat) /\ pc' = "end"
        /\ UNCHANGED <<base, stat, routing, catalogue, i, calls, open, root, phase>>
    BY <1>1 DEF RequestsDone
  <2>2. Source' = Source /\ HasNullRequest' = HasNullRequest /\ Builder' = Builder
    BY <2>1 DEF Source, HasNullRequest, Builder
  <2>3. stat # Absent /\ ~ HasNullRequest /\ i \in 1 .. Len(stat) + 1
    BY <2>1 DEF During
  <2>4. stat \in Seq(StatRequest) /\ Len(stat) \in Nat /\ DOMAIN stat = 1 .. Len(stat)
    BY <2>3, ResponseAssumption DEF Inputs
  <2>5. i = Len(stat) + 1 /\ i - 1 = Len(stat)
    BY <2>1, <2>3, <2>4
  <2>6. PICK e : Taken(e, i - 1) /\ Leads(Builder, calls, InArrayOf(<<>>, e))
    BY <2>1 DEF During
  <2>7. Finished(e)'
    <3>1. PICK n : n = Len(stat) /\ n = i - 1
      BY <2>5
    <3>2. Taken(e, n)'
      BY <2>1, <2>6, <3>1, TakenStays
    <3>3. Taken(e, Len(stat))'
      BY <2>1, <3>1, <3>2
    <3> QED
      BY <2>1, <2>2, <2>3, <2>5, <3>3 DEF Finished
  <2>8. During'
    BY <2>1, <2>2, <2>3, <2>6, <2>7 DEF During
  <2>9. Inputs' /\ Before' /\ After'
    BY <2>1, <2>2 DEF Inputs, Before, After
  <2>10. ~ Throws
    BY <2>1, <2>4, <2>5 DEF Passed, Throws
  <2>11. Passed'
    BY <2>1, <2>2, <2>10 DEF Passed, Throws, Bad
  <2> QED
    BY <2>8, <2>9, <2>11
<1>2. ASSUME EndOfArray PROVE RInv'
  <2>1. /\ pc = "end" /\ calls = <<>> /\ calls' = <<EndCall("array")>> /\ pc' = "build"
        /\ UNCHANGED <<base, stat, routing, catalogue, i, open, root, phase>>
    BY <1>2 DEF EndOfArray
  <2>2. Source' = Source /\ HasNullRequest' = HasNullRequest /\ Builder' = Builder
    BY <2>1 DEF Source, HasNullRequest, Builder
  <2>3. stat # Absent
    BY <2>1 DEF During
  <2>4. PICK e : Finished(e) /\ Leads(Builder, calls, InArrayOf(<<>>, e))
    BY <2>1 DEF During
  <2>5. Builder = InArrayOf(<<>>, e)
    BY <2>1, <2>4, LeadsAtOnce
  <2>6. Finished(e)'
    BY <2>1, <2>2, <2>4, TakenStays DEF Finished
  <2>7. Leads(Builder, calls, Complete(ArrayOf(e)))'
    <3>1. Fills(Building(<<>>), ArrayOf(e), Complete(ArrayOf(e)))
      BY DEF Fills
    <3>2. Building(<<>>).open = <<>>
      BY DEF Building
    <3>3. Step(InArrayOf(<<>>, e), EndCall("array"), Complete(ArrayOf(e)))
      BY <3>1, <3>2 DEF Step
    <3>4. Leads(InArrayOf(<<>>, e), <<EndCall("array")>>, Complete(ArrayOf(e)))
      BY <3>3, LeadsByOne
    <3> QED
      BY <2>1, <2>2, <2>5, <3>4
  <2>8. After'
    BY <2>1, <2>3, <2>6, <2>7 DEF After
  <2>9. Inputs' /\ Before' /\ During'
    BY <2>1, <2>2 DEF Inputs, Before, During
  <2>10. Passed'
    BY <2>1, <2>2 DEF Passed, Throws, Bad
  <2> QED
    BY <2>8, <2>9, <2>10
<1>3. ASSUME Build PROVE RInv'
  <2>1. /\ pc = "build" /\ calls = <<>> /\ pc' = "done"
        /\ UNCHANGED <<base, stat, routing, catalogue, i, calls, open, root, phase>>
    BY <1>3 DEF Build
  <2>2. Source' = Source /\ HasNullRequest' = HasNullRequest /\ Builder' = Builder
    BY <2>1 DEF Source, HasNullRequest, Builder
  <2>3. ASSUME NEW e PROVE Finished(e)' <=> Finished(e)
    BY <2>1, <2>2, TakenStays DEF Finished
  <2>4. After'
    <3>1. CASE stat = Absent
      <4>1. Builder = Building(<<>>)
        BY <2>1, <3>1 DEF After
      <4> QED
        BY <2>1, <2>2, <3>1, <4>1 DEF After, Building
    <3>2. CASE stat # Absent
      <4>1. PICK e : Finished(e) /\ Leads(Builder, calls, Complete(ArrayOf(e)))
        BY <2>1, <3>2 DEF After
      <4>2. Finished(e)' /\ Leads(Builder, calls, Complete(ArrayOf(e)))'
        BY <2>1, <2>2, <2>3, <4>1
      <4> QED
        BY <2>1, <3>2, <4>2 DEF After
    <3> QED
      BY <3>1, <3>2
  <2>5. Inputs' /\ Before' /\ During'
    BY <2>1, <2>2 DEF Inputs, Before, During
  <2>6. Passed'
    BY <2>1, <2>2 DEF Passed, Throws, Bad
  <2> QED
    BY <2>4, <2>5, <2>6
<1> QED
  BY <1>1, <1>2, <1>3

LEMMA NextRInv == RInv /\ [Next]_vars => RInv'
<1> SUFFICES ASSUME RInv, [Next]_vars PROVE RInv'
  OBVIOUS
<1>1. CASE UNCHANGED vars
  <2>1. /\ UNCHANGED <<base, stat, routing, catalogue, pc, i, calls, open, root, phase>>
        /\ Builder' = Builder /\ Source' = Source
    BY <1>1 DEF vars, Builder, Source
  <2>2. ASSUME NEW e PROVE Finished(e)' <=> Finished(e)
    BY <2>1, TakenStays DEF Finished, HasNullRequest
  <2>3. ASSUME NEW e PROVE Taken(e, i - 1)' <=> Taken(e, i - 1)
    <3>1. PICK n : n = i - 1 /\ n = i' - 1
      BY <2>1
    <3>2. Taken(e, n)' <=> Taken(e, n)
      BY <2>1, TakenStays
    <3> QED
      BY <3>1, <3>2
  <2>4. Inputs' /\ Before'
    BY <2>1 DEF RInv, Inputs, Before, Building
  <2>5. During'
    BY <2>1, <2>2, <2>3 DEF RInv, During, HasNullRequest
  <2>6. After'
    BY <2>1, <2>2 DEF RInv, After, Building
  <2>7. Passed'
    BY <2>1 DEF RInv, Passed, Throws, Bad, HasNullRequest
  <2> QED
    BY <2>4, <2>5, <2>6, <2>7 DEF RInv
<1>2. CASE Next
  BY <1>2, BeginStep, CallStep, AnswerStep, ThrowStep, LastStep DEF Next
<1> QED
  BY <1>1, <1>2

LEMMA AlwaysRInv == Spec => []RInv
<1>1. Init => RInv
  BY InitRInv
<1>2. RInv /\ [Next]_vars => RInv'
  BY NextRInv
<1> QED
  BY <1>1, <1>2, PTL DEF Spec

(* Whatever the documents: every call of the builder is one the grammar of *)
(* JSON allows at its place, and the document ends complete.               *)
THEOREM CallsKeepToGrammarHolds == Spec => []CallsKeepToGrammar
<1>1. RInv => CallsKeepToGrammar
  <2> SUFFICES ASSUME RInv PROVE CallsKeepToGrammar
    OBVIOUS
  <2>1. ASSUME calls # <<>> PROVE Allowed(Head(calls))
    <3>1. \E d : Leads(Builder, calls, d)
      BY <2>1 DEF RInv, Before, During, After, Passed
    <3>2. PICK c : Step(Builder, Head(calls), c)
      BY <2>1, <3>1, LeadsFirst
    <3> QED
      BY <3>2, StepIsMade
  <2>2. ASSUME pc = "done" PROVE open = <<>> /\ (stat # Absent => phase = "done")
    <3>1. calls = <<>>
      BY <2>2 DEF RInv, After
    <3>2. Builder.open = open /\ Builder.phase = phase
      BY DEF Builder
    <3>3. CASE stat = Absent
      BY <2>2, <3>2, <3>3 DEF RInv, After, Building
    <3>4. CASE stat # Absent
      <4>1. PICK e : Leads(Builder, calls, Complete(ArrayOf(e)))
        BY <2>2, <3>4 DEF RInv, After
      <4>2. Builder = Complete(ArrayOf(e))
        BY <3>1, <4>1, LeadsAtOnce
      <4> QED
        BY <3>2, <4>2 DEF Complete
    <3> QED
      BY <3>3, <3>4
  <2> QED
    BY <2>1, <2>2 DEF CallsKeepToGrammar
<1> QED
  BY <1>1, AlwaysRInv, PTL

(* Whatever the documents: between two requests, and at the end, each      *)
(* request of a known type has one answer, under its id and in its place.  *)
THEOREM AnswersInOrderHolds == Spec => []AnswersInOrder
<1>1. RInv => AnswersInOrder
  <2> SUFFICES ASSUME RInv PROVE AnswersInOrder
    OBVIOUS
  <2>0. Builder.open = open /\ Builder.phase = phase /\ Builder.root = root
    BY DEF Builder
  <2>1. ASSUME stat # Absent, pc # "threw", calls = <<>>, ~ HasNullRequest
        PROVE  /\ Len(Answers) = AnsweredAmong(i - 1)
               /\ \A k \in 1 .. i - 1 : Answered(k) => HasId(Answers[AnsweredAmong(k)], stat[k].id)
    <3>1. PICK e : Taken(e, i - 1) /\ Answers = e
      BY <2>1, AnswersTaken
    <3> QED
      BY <3>1 DEF Taken, AnswerTo
  <2>2. ASSUME pc = "done"
        PROVE  /\ stat = Absent => root = Answer!Leaf(Null)
               /\ stat # Absent /\ HasNullRequest => root = Answer!EmptyContainer("array")
    <3>1. calls = <<>>
      BY <2>2 DEF RInv, After
    <3>2. CASE stat = Absent
      BY <2>0, <2>2, <3>2 DEF RInv, After, Building
    <3>3. CASE stat # Absent
      <4>1. PICK e : Finished(e) /\ Leads(Builder, calls, Complete(ArrayOf(e)))
        BY <2>2, <3>3 DEF RInv, After
      <4>2. root = ArrayOf(e)
        BY <2>0, <3>1, <4>1, LeadsAtOnce DEF Complete
      <4> QED
        BY <3>3, <4>1, <4>2 DEF Finished, ArrayOf, Answer!EmptyContainer
    <3> QED
      BY <3>2, <3>3
  <2> QED
    BY <2>1, <2>2 DEF AnswersInOrder
<1> QED
  BY <1>1, AlwaysRInv, PTL

-----------------------------------------------------------------------------
(* Whether there are answers.                                              *)

(* The hops of the route that is stored are those of the request.          *)
LEMMA TravelledAreDocumentHops ==
  ASSUME base \in Documents, ~ HasNull(base), NEW k \in BusPlaces(base), Alone(base, k)
  PROVE  TravelledHops(Source, base[k].name) = ToSet(DocumentHops(base[k]))
<1>1. PICK r : r = base[k]
  OBVIOUS
<1>2. base \in Seq(Request) /\ k \in DOMAIN base
  BY ResponseAssumption DEF BusPlaces
<1>3. r \in Request /\ r.type = "Bus"
  BY <1>1, <1>2 DEF BusPlaces
<1>4. r.stops \in Seq(Names) /\ r.is_roundtrip \in BOOLEAN
  BY <1>3 DEF Request
<1>5. Source.buses[r.name] = BusOf(r)
  BY <1>1, <1>2, DBBuilderKeepsTheBuses DEF Source, BusesAsDeclared
<1> DEFINE route == Reverse(r.stops)
           back == {<<route[n], route[n - 1]>> : n \in 2 .. Len(route)}
           forth == {<<hop[2], hop[1]>> : hop \in back}
<1>6. TravelledHops(Source, r.name) = IF r.is_roundtrip THEN back ELSE back \cup forth
  <2>1. Source.buses[r.name].route = route /\ Source.buses[r.name].is_chain = ~ r.is_roundtrip
    BY <1>5 DEF BusOf
  <2> HIDE DEF route
  <2> QED
    BY <1>4, <2>1 DEF TravelledHops
<1>7. CASE r.stops = <<>>
  <2>1. Len(route) = 0
    BY <1>7 DEF Reverse
  <2>2. 2 .. Len(route) = {}
    BY <2>1
  <2>3. back = {} /\ forth = {}
    BY <2>2
  <2>4. ToSet(DocumentHops(r)) = {}
    BY <1>7, NoHops DEF ToSet
  <2> QED
    BY <1>1, <1>6, <2>3, <2>4
<1>8. CASE r.stops # <<>>
  <2>1. PICK m \in Nat : Len(r.stops) = m + 1
    <3>1. Len(r.stops) \in Nat /\ Len(r.stops) # 0
      BY <1>4, <1>8
    <3>2. Len(r.stops) - 1 \in Nat /\ Len(r.stops) = (Len(r.stops) - 1) + 1
      BY <3>1
    <3> QED
      BY <3>2
  <2> DEFINE Hop(n) == <<r.stops[n], r.stops[n + 1]>>
             Pair2(n) == <<r.stops[n + 1], r.stops[n]>>
  <2>2. Len(route) = m + 1 /\ \A n \in 1 .. m + 1 : route[n] = r.stops[m + 2 - n]
    BY <1>4, <2>1 DEF Reverse
  <2>3. \A n \in 2 .. m + 1 : /\ m + 2 - n \in 1 .. m
                              /\ <<route[n], route[n - 1]>> = Hop(m + 2 - n)
    <3> TAKE n \in 2 .. m + 1
    <3>1. /\ n \in 1 .. m + 1 /\ n - 1 \in 1 .. m + 1 /\ m + 2 - n \in 1 .. m
          /\ m + 2 - (n - 1) = (m + 2 - n) + 1
      OBVIOUS
    <3> QED
      BY <2>2, <3>1
  <2>4. back = {Hop(n) : n \in 1 .. m}
    <3> HIDE DEF Hop, route
    <3>1. \A n \in 1 .. m : m + 2 - n \in 2 .. m + 1 /\ m + 2 - (m + 2 - n) = n
      OBVIOUS
    <3>2. \A hop \in back : hop \in {Hop(n) : n \in 1 .. m}
      BY <2>2, <2>3
    <3>3. ASSUME NEW n \in 1 .. m PROVE Hop(n) \in back
      <4>1. PICK k2 \in 2 .. m + 1 : k2 = m + 2 - n /\ m + 2 - k2 = n
        BY <3>1
      <4>2. <<route[k2], route[k2 - 1]>> = Hop(n)
        BY <2>3, <4>1
      <4> QED
        BY <2>2, <4>2
    <3> QED
      BY <3>2, <3>3
  <2>5. forth = {Pair2(n) : n \in 1 .. m}
    <3>1. \A n : <<Hop(n)[2], Hop(n)[1]>> = Pair2(n)
      OBVIOUS
    <3> HIDE DEF back, Hop, Pair2
    <3>2. forth = {<<Hop(n)[2], Hop(n)[1]>> : n \in 1 .. m}
      BY <2>4
    <3> QED
      BY <3>1, <3>2
  <2>6. /\ DOMAIN DocumentHops(r) = 1 .. IF r.is_roundtrip THEN m ELSE m + m
        /\ \A n \in 1 .. m : DocumentHops(r)[n] = Hop(n)
        /\ ~ r.is_roundtrip => \A n \in 1 .. m : DocumentHops(r)[m + n] = Pair2(n)
    BY <1>4, <2>1, HopsFacts
  <2> HIDE DEF Hop, Pair2, back, forth
  <2>7. ToSet(DocumentHops(r)) = {DocumentHops(r)[n] : n \in DOMAIN DocumentHops(r)}
    BY DEF ToSet
  <2>8. CASE r.is_roundtrip
    <3>1. ToSet(DocumentHops(r)) = {Hop(n) : n \in 1 .. m}
      BY <2>6, <2>7, <2>8
    <3> QED
      BY <1>1, <1>6, <2>4, <2>8, <3>1
  <2>9. CASE ~ r.is_roundtrip
    <3>1. \A n \in 1 .. m + m : n \in 1 .. m \/ (n - m \in 1 .. m /\ n = m + (n - m))
      BY <2>1
    <3>2. \A n \in 1 .. m : n \in 1 .. m + m /\ m + n \in 1 .. m + m
      BY <2>1
    <3>3. \A n \in 1 .. m + m : DocumentHops(r)[n] \in back \cup forth
      BY <2>4, <2>5, <2>6, <2>9, <3>1
    <3>4. \A hop \in back \cup forth : \E n \in 1 .. m + m : DocumentHops(r)[n] = hop
      BY <2>4, <2>5, <2>6, <2>9, <3>2
    <3>5. ToSet(DocumentHops(r)) = back \cup forth
      BY <2>6, <2>7, <2>9, <3>3, <3>4
    <3> QED
      BY <1>1, <1>6, <2>9, <3>5
  <2> QED
    BY <2>8, <2>9
<1> QED
  BY <1>7, <1>8

(* So the buses together make the hops of the document.                    *)
LEMMA AllHopsAreTravelled ==
  ASSUME base \in Documents, BusesDeclaredOnce
  PROVE  AllHops = UNION {TravelledHops(Source, b) : b \in BusNames(Source)}
<1>1. base \in Seq(Request)
  BY ResponseAssumption
<1>2. CASE HasNull(base)
  <2>1. BusNames(Source) = {}
    BY <1>2, EmptyCatalogueFacts DEF Source, DBBuilder
  <2> QED
    BY <1>2, <2>1 DEF AllHops
<1>3. CASE ~ HasNull(base)
  <2>1. BusNames(Source) = {base[k].name : k \in BusPlaces(base)}
    BY <1>1, <1>3, DBBuilderKeepsTheBuses DEF Source, BusesAsDeclared
  <2>2. AllHops = UNION {ToSet(DocumentHops(base[k])) : k \in BusPlaces(base)}
    BY <1>3 DEF AllHops, BusPlaces
  <2>3. ASSUME NEW k \in BusPlaces(base)
        PROVE  TravelledHops(Source, base[k].name) = ToSet(DocumentHops(base[k]))
    <3>1. Alone(base, k)
      BY DEF BusesDeclaredOnce, BusPlaces, Alone
    <3> QED
      BY <1>3, <3>1, TravelledAreDocumentHops
  <2> QED
    BY <2>1, <2>2, <2>3
<1> QED
  BY <1>2, <1>3

(* The router needs a distance for every hop.                              *)
LEMMA HopsNeedDistances ==
  ASSUME NEW cat
  PROVE  HopWithoutRoad(cat)
           <=> \E b \in BusNames(cat) : \E hop \in TravelledHops(cat, b) :
                 ~ HasDistance(cat, hop[1], hop[2])
<1> SUFFICES ASSUME NEW b
             PROVE  HasRouteLength(cat, b)
                      <=> \A hop \in TravelledHops(cat, b) : HasDistance(cat, hop[1], hop[2])
  BY DEF HopWithoutRoad
<1> DEFINE route == cat.buses[b].route
           back == {<<route[n], route[n - 1]>> : n \in 2 .. Len(route)}
           forth == {<<hop[2], hop[1]>> : hop \in back}
           Near(hop) == HasDistance(cat, hop[1], hop[2])
<1>1. TravelledHops(cat, b) = IF cat.buses[b].is_chain THEN back \cup forth ELSE back
  BY DEF TravelledHops
<1>2. \A x, y : /\ Near(<<x, y>>) <=> HasDistance(cat, x, y)
                /\ Near(<<y, x>>) <=> Near(<<x, y>>)
  BY DEF HasDistance
<1>3. HasRouteLength(cat, b) <=> \A n \in 2 .. Len(route) : Near(<<route[n], route[n - 1]>>)
  BY <1>2 DEF HasRouteLength
<1> HIDE DEF Near, route
<1>4. HasRouteLength(cat, b) <=> \A hop \in back : Near(hop)
  BY <1>3
<1>5. ASSUME NEW hop \in forth, \A one \in back : Near(one) PROVE Near(hop)
  <2>1. PICK n \in 2 .. Len(route) : hop = <<route[n - 1], route[n]>>
    BY <1>5
  <2>2. Near(<<route[n], route[n - 1]>>)
    BY <1>5
  <2> QED
    BY <1>2, <2>1, <2>2
<1>6. HasRouteLength(cat, b) <=> \A hop \in TravelledHops(cat, b) : Near(hop)
  <2> HIDE DEF back, forth
  <2> QED
    BY <1>1, <1>4, <1>5
<1> QED
  BY <1>6 DEF Near

(* Between names, as far as the document is concerned.                     *)
LEMMA HopsBetweenNames ==
  ASSUME base \in Documents, NEW hop \in AllHops
  PROVE  hop[1] \in Names /\ hop[2] \in Names
<1>1. base \in Seq(Request) /\ ~ HasNull(base)
  BY ResponseAssumption DEF AllHops
<1>2. PICK k \in BusPlaces(base) : hop \in ToSet(DocumentHops(base[k]))
  BY <1>1 DEF AllHops, BusPlaces
<1>3. PICK r : r = base[k]
  OBVIOUS
<1>4. r \in Request /\ r.type = "Bus"
  BY <1>1, <1>3 DEF BusPlaces
<1>5. r.stops \in Seq(Names) /\ r.is_roundtrip \in BOOLEAN
  BY <1>4 DEF Request
<1>6. r.stops # <<>>
  BY <1>2, <1>3, NoHops DEF ToSet
<1>7. PICK m \in Nat : Len(r.stops) = m + 1
  <2>1. Len(r.stops) \in Nat /\ Len(r.stops) # 0
    BY <1>5, <1>6
  <2>2. Len(r.stops) - 1 \in Nat /\ Len(r.stops) = (Len(r.stops) - 1) + 1
    BY <2>1
  <2> QED
    BY <2>2
<1>8. /\ DOMAIN DocumentHops(r) = 1 .. IF r.is_roundtrip THEN m ELSE m + m
      /\ \A n \in 1 .. m : DocumentHops(r)[n] = <<r.stops[n], r.stops[n + 1]>>
      /\ ~ r.is_roundtrip =>
           \A n \in 1 .. m : DocumentHops(r)[m + n] = <<r.stops[n + 1], r.stops[n]>>
  BY <1>5, <1>7, HopsFacts
<1>9. PICK n \in DOMAIN DocumentHops(r) : hop = DocumentHops(r)[n]
  BY <1>2, <1>3 DEF ToSet
<1>10. \E j \in 1 .. m : hop = <<r.stops[j], r.stops[j + 1]>> \/ hop = <<r.stops[j + 1], r.stops[j]>>
  <2>1. CASE n \in 1 .. m
    BY <1>8, <1>9, <2>1
  <2>2. CASE n \notin 1 .. m
    <3>1. ~ r.is_roundtrip /\ n \in 1 .. m + m
      BY <1>8, <1>9, <2>2
    <3>2. n - m \in 1 .. m /\ n = m + (n - m)
      BY <2>2, <3>1
    <3> QED
      BY <1>8, <1>9, <3>1, <3>2
  <2> QED
    BY <2>1, <2>2
<1>11. \A j \in 1 .. m : r.stops[j] \in Names /\ r.stops[j + 1] \in Names
  BY <1>5, <1>7
<1> QED
  BY <1>10, <1>11

(* The catalogue knows a name exactly if the document does.                *)
LEMMA NamesOfSource ==
  ASSUME base \in Documents, NEW name
  PROVE  /\ name \in BusNames(Source) <=> BusesNamed(name) # {}
         /\ name \in StopNames(Source)
              <=> ~ HasNull(base) /\ name \in DeclaredStops(base) \cup MentionedStops(base)
<1>1. base \in Seq(Request)
  BY ResponseAssumption
<1>2. CASE HasNull(base)
  <2>1. Source = EmptyCatalogue
    BY <1>2 DEF Source, DBBuilder
  <2> QED
    BY <1>2, <2>1, EmptyCatalogueFacts DEF BusesNamed
<1>3. CASE ~ HasNull(base)
  <2>1. BuiltCatalogue(Source, base) /\ BusesAsDeclared(Source, base)
    BY <1>1, <1>3, DBBuilderIsConsistent, DBBuilderKeepsTheBuses DEF Source
  <2>2. BusesNamed(name) = {k \in BusPlaces(base) : base[k].name = name}
    BY <1>3 DEF BusesNamed, BusPlaces
  <2> QED
    BY <1>3, <2>1, <2>2 DEF BuiltCatalogue, BusesAsDeclared
<1> QED
  BY <1>2, <1>3

(* What the constructor of the router throws for is in the document.       *)
Impassable(hop) ==
  HasRoad(base, hop[1], hop[2]) => RideTime(RoadLength(base, hop[1], hop[2]), routing) < 0

LEMMA RouterThrowsForTheDocument ==
  ASSUME base \in Documents, BusesDeclaredOnce
  PROVE  /\ HopWithoutRoad(Source) <=> \E hop \in AllHops : ~ HasRoad(base, hop[1], hop[2])
         /\ RouterThrows(Source, routing)
              <=> \/ \E hop \in AllHops : Impassable(hop)
                  \/ routing.wait_factor < 0 /\ KnownStops # {}
<1> DEFINE Slow(hop) == RideTime(GetDistance(Source, hop[1], hop[2]), routing) < 0
<1>1. StopNames(Source) # {} <=> KnownStops # {}
  <2>1. \A name : name \in StopNames(Source) <=> name \in KnownStops
    BY NamesOfSource DEF KnownStops
  <2> QED
    BY <2>1
<1>2. AllHops = UNION {TravelledHops(Source, b) : b \in BusNames(Source)}
  BY AllHopsAreTravelled
<1>3. HopWithoutRoad(Source) <=> \E hop \in AllHops : ~ HasDistance(Source, hop[1], hop[2])
  BY <1>2, HopsNeedDistances
<1>4. NegativeRide(Source, routing) <=> \E hop \in AllHops : Slow(hop)
  <2>1. NegativeRide(Source, routing)
          <=> \E b \in BusNames(Source) : \E hop \in TravelledHops(Source, b) : Slow(hop)
    BY DEF NegativeRide
  <2> HIDE DEF Slow
  <2> QED
    BY <1>2, <2>1
<1>5. ASSUME NEW hop \in AllHops
      PROVE  /\ HasDistance(Source, hop[1], hop[2]) <=> HasRoad(base, hop[1], hop[2])
             /\ HasRoad(base, hop[1], hop[2]) =>
                  GetDistance(Source, hop[1], hop[2]) = RoadLength(base, hop[1], hop[2])
  <2>1. base \in Seq(Request) /\ RoadsAreMaps(base) /\ ~ HasNull(base)
    BY <1>5, ResponseAssumption DEF AllHops
  <2>2. hop[1] \in Names /\ hop[2] \in Names
    BY <1>5, HopsBetweenNames
  <2> QED
    BY <2>1, <2>2, DBBuilderKeepsTheRoads DEF Source
<1>6. \A hop \in AllHops :
        Impassable(hop) <=> \/ ~ HasDistance(Source, hop[1], hop[2])
                            \/ HasDistance(Source, hop[1], hop[2]) /\ Slow(hop)
  BY <1>5 DEF Impassable
<1> HIDE DEF Slow
<1>7. NegativeWait(Source, routing) <=> routing.wait_factor < 0 /\ KnownStops # {}
  BY <1>1 DEF NegativeWait
<1> QED
  BY <1>3, <1>4, <1>5, <1>6, <1>7 DEF RouterThrows

(* Whatever the documents: the function throws exactly for a hop without a *)
(* road, a ride or a wait of less than no time, a malformed request, or a  *)
(* route from or to a stop that is not there, all of them as the documents *)
(* have it; and no length of a route is asked for that would throw.        *)
THEOREM ResponseOutcomeHolds == Spec => []ResponseOutcome
<1>1. RInv => ResponseOutcome
  <2> SUFFICES ASSUME RInv, BusesDeclaredOnce PROVE ResponseOutcome
    BY DEF ResponseOutcome
  <2> DEFINE refused == \/ \E hop \in AllHops : Impassable(hop)
                        \/ routing.wait_factor < 0 /\ KnownStops # {}
             bad(k) == \/ stat[k].type = "Malformed"
                       \/ /\ stat[k].type = "Route" /\ stat[k].from # stat[k].to
                          /\ ~ {stat[k].from, stat[k].to} \subseteq KnownStops
             cause == \/ refused
                      \/ stat # Absent /\ ~ HasNullRequest /\ \E k \in DOMAIN stat : bad(k)
  <2>1. base \in Documents
    BY DEF RInv, Inputs
  <2>2. ResponseOutcome <=> /\ pc = "threw" => cause
                            /\ pc = "done" => ~ cause
                            /\ pc \notin {"router", "threw"} =>
                                 \A hop \in AllHops : HasRoad(base, hop[1], hop[2])
    BY DEF ResponseOutcome, Impassable
  <2>3. StopNames(Source) = KnownStops
    <3>1. \A name : name \in StopNames(Source) <=> name \in KnownStops
      BY <2>1, NamesOfSource DEF KnownStops
    <3> QED
      BY <3>1
  <2>4. RouterThrows(Source, routing) <=> refused
    BY <2>1, RouterThrowsForTheDocument
  <2>5. Throws <=> cause
    <3>1. \A k : Bad(k) <=> bad(k)
      BY <2>3 DEF Bad
    <3> HIDE DEF bad, refused
    <3> QED
      BY <2>4, <3>1 DEF Throws
  <2>6. /\ pc = "threw" => Throws
        /\ pc = "done" => ~ Throws
    BY DEF RInv, Passed
  <2>7. pc \notin {"router", "threw"} => \A hop \in AllHops : HasRoad(base, hop[1], hop[2])
    <3>1. pc \notin {"router", "threw"} => ~ HopWithoutRoad(Source)
      BY DEF RInv, Passed, RouterThrows
    <3> QED
      BY <2>1, <3>1, RouterThrowsForTheDocument
  <2> HIDE DEF cause
  <2> QED
    BY <2>2, <2>5, <2>6, <2>7
<1> QED
  BY <1>1, AlwaysRInv, PTL

-----------------------------------------------------------------------------
(* What the answers say.                                                   *)

(* The names in their order: each of them has a place, and one that is     *)
(* before another has fewer before it.                                     *)
LEMMA SortedFacts ==
  ASSUME NEW names \in SUBSET Names, IsFiniteSet(names)
  PROVE  LET list == Sorted(names)
             size == Cardinality(names)
         IN  /\ size \in Nat
             /\ {list[k] : k \in 1 .. size} = names
             /\ \A m, n \in 1 .. size : m < n => NameRank[list[m]] < NameRank[list[n]]
<1>1. RanksApart(NameRank, names)
  BY ResponseAssumption DEF RanksApart
<1>2. Sorted(names) = ByRank(NameRank, names)
  BY DEF Sorted, ByRank
<1> QED
  BY <1>1, <1>2, ByRankFacts

(* The members of the answers.                                             *)
LEMMA NotFoundAnswer ==
  ASSUME NEW r
  PROVE  DOMAIN AnswerNode(r, NotFoundMembers).members = {"request_id", "error_message"}
BY DEF AnswerNode, NotFoundMembers, DictOf, Joined, IdMember, Single, NoMembers

LEMMA BusAnswerMembers ==
  ASSUME NEW r, BusStopCount(catalogue, r.name) # -1
  PROVE  LET node == AnswerNode(r, BusMembers(r))
             length == BusRouteLength(catalogue, r.name)
         IN  /\ ValueOf(node, "stop_count") = Int32(BusStopCount(catalogue, r.name))
             /\ ValueOf(node, "unique_stop_count") = Int32(BusUniqStopCount(catalogue, r.name))
             /\ ValueOf(node, "route_length") = Number(length)
             /\ ValueOf(node, "curvature")
                  = Number(Quotient(length, ChordLength(catalogue, r.name, Distances)))
<1>1. PICK a, b, c, d :
        /\ a = Int32(BusStopCount(catalogue, r.name))
        /\ b = Int32(BusUniqStopCount(catalogue, r.name))
        /\ c = Number(BusRouteLength(catalogue, r.name))
        /\ d = Number(Quotient(BusRouteLength(catalogue, r.name),
                               ChordLength(catalogue, r.name, Distances)))
  OBVIOUS
<1> DEFINE more == Joined(Joined(Joined(
                     Single("stop_count", Answer!Leaf(a)),
                     Single("unique_stop_count", Answer!Leaf(b))),
                     Single("route_length", Answer!Leaf(c))),
                     Single("curvature", Answer!Leaf(d)))
<1>2. BusMembers(r) = more
  BY <1>1 DEF BusMembers
<1>3. /\ DOMAIN more = {"stop_count", "unique_stop_count", "route_length", "curvature"}
      /\ more["stop_count"].value = a /\ more["unique_stop_count"].value = b
      /\ more["route_length"].value = c /\ more["curvature"].value = d
  BY DEF Joined, Single, Answer!Leaf
<1> HIDE DEF more
<1>4. \A key \in DOMAIN more : ValueOf(AnswerNode(r, more), key) = more[key].value
  BY DEF ValueOf, MembersOf, AnswerNode, DictOf, Joined
<1> QED
  BY <1>1, <1>2, <1>3, <1>4

LEMMA StopAnswerMembers ==
  ASSUME NEW r, r.name \in StopNames(catalogue)
  PROVE  LET node == AnswerNode(r, StopMembers(r))
             buses == GetStopBuses(catalogue, r.name)
         IN  [k \in DOMAIN MembersOf(node)["buses"].elements |->
                 MembersOf(node)["buses"].elements[k].value[2]]
               = [k \in 1 .. Cardinality(buses) |-> Sorted(buses)[k]]
<1>1. PICK names, n : names = GetStopBuses(catalogue, r.name) /\ n = Cardinality(names)
  OBVIOUS
<1> DEFINE e == [k \in 1 .. n |-> Answer!Leaf(Text(Sorted(names)[k]))]
           more == Single("buses", ArrayOf(e))
<1>2. StopMembers(r) = more
  BY <1>1 DEF StopMembers
<1>3. more["buses"] = ArrayOf(e) /\ DOMAIN more = {"buses"}
  BY DEF Single
<1>4. DOMAIN e = 1 .. n /\ \A k \in 1 .. n : e[k].value[2] = Sorted(names)[k]
  BY DEF Text, Answer!Leaf
<1> HIDE DEF e, more
<1>5. MembersOf(AnswerNode(r, more))["buses"] = ArrayOf(e)
  BY <1>3 DEF MembersOf, AnswerNode, DictOf, Joined
<1> QED
  BY <1>1, <1>2, <1>4, <1>5 DEF ArrayOf

(* The way as the crow flies.                                              *)
FlightHops(w, cat, name, m) ==
  \A k \in 2 .. m + 1 :
    LET route == cat.buses[name].route
    IN  w[k] = Distances[<<cat.stops[route[k - 1]].coordinates,
                           cat.stops[route[k]].coordinates>>]

LEMMA ChordIsCount ==
  ASSUME NEW cat, NEW name, NEW m \in Nat, Len(cat.buses[name].route) = m + 1,
         NEW w, FlightHops(w, cat, name, m), NEW n, CountsTo(n, m, w)
  PROVE  ChordLength(cat, name, Distances) = WholeChord(cat.buses[name].is_chain, n)
<1> DEFINE route == cat.buses[name].route
           hop(k) == Distances[<<cat.stops[route[k - 1]].coordinates,
                                 cat.stops[route[k]].coordinates>>]
           Solves(total) ==
             total = [k \in 0 .. Len(route) |-> IF k < 2 THEN 0 ELSE total[k - 1] + hop(k)]
           one == CHOOSE total : Solves(total)
<1>1. ChordLength(cat, name, Distances) = WholeChord(cat.buses[name].is_chain, one[Len(route)])
  BY DEF ChordLength
<1>2. ASSUME NEW k \in 0 .. m + 1, ~ (k < 2) PROVE w[k] = hop(k)
  <2>1. k \in 2 .. m + 1
    BY <1>2
  <2> QED
    BY <2>1 DEF FlightHops
<1> HIDE DEF hop
<1>3. \A total : Solves(total) <=> CountsUp(total, m + 1, w)
  BY <1>2 DEF CountsUp
<1> HIDE DEF Solves
<1>4. Solves(one)
  BY <1>3 DEF CountsTo
<1> HIDE DEF one
<1> QED
  BY <1>1, <1>3, <1>4 DEF CountsTo

Flights(w, bus, N) ==
  \A k \in 1 .. N :
    w[k] = ComputeDistance(CoordinatesOf(DocumentHops(bus)[k][1]),
                           CoordinatesOf(DocumentHops(bus)[k][2]))

LEMMA DocumentChordIsSum ==
  ASSUME NEW bus, NEW N \in Nat, DOMAIN DocumentHops(bus) = 1 .. N,
         NEW w, Summands(w, N), Flights(w, bus, N), NEW g, Total(g, N, w)
  PROVE  DocumentChord(bus) = g[N]
<1> DEFINE hops == DocumentHops(bus)
           length(k) == ComputeDistance(CoordinatesOf(hops[k][1]), CoordinatesOf(hops[k][2]))
           Solves(iter) ==
             iter = [A \in SUBSET DOMAIN hops |->
                      IF A = {} THEN 0 ELSE iter[A \ {Max(A)}] + length(Max(A))]
           one == CHOOSE iter : Solves(iter)
<1>1. DocumentChord(bus) = one[DOMAIN hops]
  BY DEF DocumentChord, FoldLeft, MapThenFoldSet
<1>2. \A k \in 1 .. N : w[k] = length(k)
  BY DEF Flights
<1> HIDE DEF length
<1>3. \A A \in SUBSET (1 .. N) : A # {} => Max(A) \in 1 .. N
  BY MaxInside
<1>4. \A iter : Solves(iter) <=> AddsUp(iter, N, w)
  BY <1>2, <1>3 DEF AddsUp
<1> HIDE DEF Solves
<1>5. /\ \E iter : AddsUp(iter, N, w)
      /\ \A iter : AddsUp(iter, N, w) => iter[1 .. N] = g[N]
  BY SumFold
<1>6. Solves(one)
  BY <1>4, <1>5
<1> HIDE DEF one
<1> QED
  BY <1>1, <1>4, <1>5, <1>6

LEMMA DistanceFacts ==
  ASSUME NEW c \in Coordinates, NEW d \in Coordinates
  PROVE  /\ ComputeDistance(c, d) \in Nat
         /\ ComputeDistance(c, d) = 0 <=> c = d
         /\ ComputeDistance(c, d) = ComputeDistance(d, c)
BY ResponseAssumption DEF ComputeDistance

(* Stops that a bus request names have a request of their own.             *)
LEMMA StopsArePlaced ==
  ASSUME base \in Documents, ~ HasNull(base), NEW k \in BusPlaces(base),
         NEW j \in DOMAIN base[k].stops
  PROVE  LET s == base[k].stops[j]
         IN  CoordinatesOf(s) \in Coordinates /\ Source.stops[s].coordinates = CoordinatesOf(s)
<1>1. base \in Seq(Request) /\ AllDeclared(base)
  BY ResponseAssumption
<1>2. BuiltCatalogue(Source, base) /\ StopsAsDeclared(Source, base)
  BY <1>1, DBBuilderIsConsistent, DBBuilderKeepsTheStops DEF Source
<1>3. base[k] \in Request /\ base[k].type = "Bus" /\ k \in DOMAIN base
  BY <1>1 DEF BusPlaces
<1>4. base[k].stops \in Seq(Names)
  BY <1>3, RequestFields
<1>5. PICK s : s = base[k].stops[j]
  OBVIOUS
<1>6. s \in Names
  BY <1>4, <1>5
<1>7. s \in MentionedStops(base)
  BY <1>3, <1>5 DEF MentionedStops
<1>8. s \in DeclaredStops(base) /\ s \in StopNames(Source)
  BY <1>1, <1>2, <1>7 DEF AllDeclared, BuiltCatalogue
<1>9. StopPlaces(base, s) # {}
  BY <1>8 DEF DeclaredStops, StopPlaces
<1>10. Source.stops[s].coordinates = base[Max(StopPlaces(base, s))].coordinates
  BY <1>2, <1>6, <1>8, <1>9 DEF StopsAsDeclared, StopOf, StopNames
<1>11. CoordinatesOf(s) = base[Max(StopPlaces(base, s))].coordinates
  BY DEF CoordinatesOf, StopPlaces
<1>12. Source.stops[s].coordinates \in Coordinates
  BY <1>2, <1>8 DEF BuiltCatalogue
<1> QED
  BY <1>5, <1>10, <1>11, <1>12

(* It is the document's, and is zero if the bus stays at one place.        *)
LEMMA ChordIsTheDocuments ==
  ASSUME base \in Documents, ~ HasNull(base), NEW k \in BusPlaces(base), Alone(base, k)
  PROVE  LET chord == DocumentChord(base[k])
             hops  == DocumentHops(base[k])
         IN  /\ ChordLength(Source, base[k].name, Distances) = chord /\ chord \in Nat
             /\ chord = 0 <=> \A n \in DOMAIN hops :
                                CoordinatesOf(hops[n][1]) = CoordinatesOf(hops[n][2])
<1>1. base \in Seq(Request)
  BY ResponseAssumption
<1>2. base[k] \in Request /\ base[k].type = "Bus"
  BY <1>1 DEF BusPlaces
<1>3. BusesAsDeclared(Source, base)
  BY <1>1, DBBuilderKeepsTheBuses DEF Source
<1>4. PICK r, name, s, route, cat :
        r = base[k] /\ name = r.name /\ s = r.stops /\ route = Reverse(s) /\ cat = Source
  OBVIOUS
<1>5. s \in Seq(Names) /\ r.is_roundtrip \in BOOLEAN
  BY <1>2, <1>4, RequestFields
<1>6. cat.buses[name].is_chain = ~ r.is_roundtrip /\ cat.buses[name].route = route
  <2>1. Source.buses[base[k].name] = BusOf(base[k])
    BY <1>3 DEF BusesAsDeclared
  <2> QED
    BY <1>4, <2>1 DEF BusOf
<1>7. /\ Len(route) = Len(s)
      /\ \A n \in DOMAIN s : route[n] = s[Len(s) - n + 1]
  BY <1>4, <1>5, ReverseFacts
<1>8. \A j \in DOMAIN s : /\ CoordinatesOf(s[j]) \in Coordinates
                          /\ cat.stops[s[j]].coordinates = CoordinatesOf(s[j])
  BY <1>4, StopsArePlaced
<1>9. CASE s = <<>>
  <2>1. Len(route) = 0
    BY <1>7, <1>9
  <2>2. ChordLength(cat, name, Distances) = 0
    <3> DEFINE Solves(total) ==
                 total = [j \in 0 .. 0 |->
                           IF j < 2 THEN 0
                           ELSE total[j - 1] + Distances[<<cat.stops[route[j - 1]].coordinates,
                                                           cat.stops[route[j]].coordinates>>]]
               zero == [j \in 0 .. 0 |-> 0]
               one == CHOOSE total : Solves(total)
    <3>1. ChordLength(cat, name, Distances) = WholeChord(cat.buses[name].is_chain, one[0])
      BY <1>6, <2>1 DEF ChordLength
    <3>2. Solves(zero)
      OBVIOUS
    <3>3. \A total : Solves(total) => total[0] = 0
      OBVIOUS
    <3> HIDE DEF Solves
    <3>4. one[0] = 0
      BY <3>2, <3>3
    <3> HIDE DEF one
    <3> QED
      BY <1>5, <1>6, <3>1, <3>4 DEF WholeChord
  <2>3. DocumentHops(r) = <<>>
    BY <1>4, <1>9, NoHops
  <2>4. DOMAIN DocumentHops(r) = 1 .. 0
    BY <2>3
  <2> DEFINE none == [j \in 1 .. 0 |-> 0]
             sum == [j \in 0 .. 0 |-> 0]
  <2>5. Summands(none, 0) /\ Flights(none, r, 0) /\ Total(sum, 0, none) /\ sum[0] = 0
    BY TotalSteps DEF Summands, Flights
  <2> HIDE DEF none, sum
  <2>6. DocumentChord(r) = sum[0]
    BY <2>4, <2>5, DocumentChordIsSum
  <2> QED
    BY <1>4, <2>2, <2>4, <2>5, <2>6
<1>10. CASE s # <<>>
  <2> DEFINE m == Len(s) - 1
             N == IF r.is_roundtrip THEN m ELSE m + m
             u == [j \in 1 .. m |-> ComputeDistance(CoordinatesOf(s[j]), CoordinatesOf(s[j + 1]))]
             w == [j \in 1 .. m + 1 |-> Distances[<<cat.stops[route[j - 1]].coordinates,
                                                    cat.stops[route[j]].coordinates>>]]
             way == [j \in 1 .. N |-> ComputeDistance(CoordinatesOf(DocumentHops(r)[j][1]),
                                                      CoordinatesOf(DocumentHops(r)[j][2]))]
  <2>1. m \in Nat /\ N \in Nat /\ Len(s) = m + 1 /\ DOMAIN s = 1 .. m + 1
    BY <1>5, <1>10
  <2>2. /\ \A j \in 1 .. m : u[j] = ComputeDistance(CoordinatesOf(s[j]), CoordinatesOf(s[j + 1]))
        /\ \A j \in 1 .. m + 1 : w[j] = Distances[<<cat.stops[route[j - 1]].coordinates,
                                                    cat.stops[route[j]].coordinates>>]
        /\ \A j \in 1 .. N : way[j] = ComputeDistance(CoordinatesOf(DocumentHops(r)[j][1]),
                                                      CoordinatesOf(DocumentHops(r)[j][2]))
    OBVIOUS
  <2>3. N = IF r.is_roundtrip THEN m ELSE m + m
    OBVIOUS
  <2> HIDE DEF m, N, u, w, way
  <2>4. \A c, d : ComputeDistance(c, d) = Distances[<<c, d>>]
    BY DEF ComputeDistance
  <2>5. \A j \in 1 .. m : /\ j \in DOMAIN s /\ j + 1 \in DOMAIN s
                          /\ u[j] \in Nat
                          /\ u[j] = 0 <=> CoordinatesOf(s[j]) = CoordinatesOf(s[j + 1])
    <3> SUFFICES ASSUME NEW j \in 1 .. m
                 PROVE  /\ j \in DOMAIN s /\ j + 1 \in DOMAIN s
                        /\ u[j] \in Nat
                        /\ u[j] = 0 <=> CoordinatesOf(s[j]) = CoordinatesOf(s[j + 1])
      OBVIOUS
    <3>1. j \in DOMAIN s /\ j + 1 \in DOMAIN s
      BY <2>1
    <3>2. CoordinatesOf(s[j]) \in Coordinates /\ CoordinatesOf(s[j + 1]) \in Coordinates
      BY <1>8, <3>1
    <3>3. PICK c, d : c = CoordinatesOf(s[j]) /\ d = CoordinatesOf(s[j + 1])
      OBVIOUS
    <3>4. u[j] = ComputeDistance(c, d) /\ c \in Coordinates /\ d \in Coordinates
      BY <2>2, <3>2, <3>3
    <3> QED
      BY <3>1, <3>3, <3>4, DistanceFacts
  <2>6. Summands(u, m)
    BY <2>5 DEF Summands
  <2>7. Backwards(w, u, m)
    <3> SUFFICES ASSUME NEW j \in 1 .. m PROVE w[j + 1] = u[m + 1 - j]
      BY DEF Backwards
    <3>1. PICK q : q = m + 1 - j
      OBVIOUS
    <3>2. /\ q \in 1 .. m /\ q + 1 = m + 1 - j + 1 /\ q = m + 1 - (j + 1) + 1
          /\ j \in DOMAIN s /\ j + 1 \in DOMAIN s /\ j + 1 \in 1 .. m + 1 /\ (j + 1) - 1 = j
      BY <2>1, <3>1
    <3>3. route[j] = s[q + 1] /\ route[j + 1] = s[q]
      <4>1. route[j] = s[m + 1 - j + 1] /\ route[j + 1] = s[m + 1 - (j + 1) + 1]
        BY <1>7, <2>1, <3>2
      <4> QED
        BY <3>2, <4>1
    <3>4. q \in DOMAIN s /\ q + 1 \in DOMAIN s
      BY <2>5, <3>2
    <3>5. w[j + 1] = Distances[<<CoordinatesOf(s[q + 1]), CoordinatesOf(s[q])>>]
      BY <1>8, <2>2, <3>2, <3>3, <3>4
    <3>6. u[q] = ComputeDistance(CoordinatesOf(s[q]), CoordinatesOf(s[q + 1]))
      BY <2>2, <3>2
    <3>7. PICK c, d : c = CoordinatesOf(s[q]) /\ d = CoordinatesOf(s[q + 1])
      OBVIOUS
    <3>8. c \in Coordinates /\ d \in Coordinates
      BY <1>8, <3>4, <3>7
    <3>9. w[j + 1] = ComputeDistance(d, c) /\ u[q] = ComputeDistance(c, d)
      BY <2>4, <3>5, <3>6, <3>7
    <3> QED
      BY <3>1, <3>8, <3>9, DistanceFacts
  <2>8. /\ DOMAIN DocumentHops(r) = 1 .. N
        /\ \A j \in 1 .. m : DocumentHops(r)[j] = <<s[j], s[j + 1]>>
        /\ ~ r.is_roundtrip =>
             \A j \in 1 .. m : DocumentHops(r)[m + j] = <<s[j + 1], s[j]>>
    BY <1>4, <1>5, <2>1, <2>3, HopsFacts
  <2>9. \A j \in 1 .. m : /\ j \in 1 .. N /\ way[j] = u[j]
                          /\ ~ r.is_roundtrip => m + j \in 1 .. N /\ way[m + j] = u[j]
    <3> SUFFICES ASSUME NEW j \in 1 .. m
                 PROVE  /\ j \in 1 .. N /\ way[j] = u[j]
                        /\ ~ r.is_roundtrip => m + j \in 1 .. N /\ way[m + j] = u[j]
      OBVIOUS
    <3>1. j \in 1 .. N /\ (~ r.is_roundtrip => m + j \in 1 .. N)
      BY <1>5, <2>1, <2>3
    <3>2. way[j] = u[j]
      BY <2>2, <2>8, <3>1
    <3>3. ASSUME ~ r.is_roundtrip PROVE way[m + j] = u[j]
      <4>1. way[m + j] = ComputeDistance(CoordinatesOf(s[j + 1]), CoordinatesOf(s[j]))
        BY <2>2, <2>8, <3>1, <3>3
      <4>2. u[j] = ComputeDistance(CoordinatesOf(s[j]), CoordinatesOf(s[j + 1]))
        BY <2>2
      <4>3. CoordinatesOf(s[j]) \in Coordinates /\ CoordinatesOf(s[j + 1]) \in Coordinates
        BY <1>8, <2>5
      <4>4. PICK c, d : c = CoordinatesOf(s[j]) /\ d = CoordinatesOf(s[j + 1])
        OBVIOUS
      <4> QED
        BY <4>1, <4>2, <4>3, <4>4, DistanceFacts
    <3> QED
      BY <3>1, <3>2, <3>3
  <2>10. ASSUME NEW j \in 1 .. N
         PROVE  /\ way[j] \in Nat
                /\ way[j] = 0 <=> CoordinatesOf(DocumentHops(r)[j][1])
                                    = CoordinatesOf(DocumentHops(r)[j][2])
    <3>1. CASE j \in 1 .. m
      <4>1. DocumentHops(r)[j][1] = s[j] /\ DocumentHops(r)[j][2] = s[j + 1]
        BY <2>8, <3>1
      <4> QED
        BY <2>5, <2>9, <3>1, <4>1
    <3>2. CASE j \notin 1 .. m
      <4>1. PICK q \in 1 .. m : ~ r.is_roundtrip /\ m + q = j
        <5>1. ~ r.is_roundtrip /\ j - m \in 1 .. m /\ m + (j - m) = j
          BY <1>5, <2>1, <2>3, <3>2
        <5> QED
          BY <5>1
      <4>2. DocumentHops(r)[j][1] = s[q + 1] /\ DocumentHops(r)[j][2] = s[q]
        BY <2>8, <4>1
      <4> QED
        BY <2>5, <2>9, <4>1, <4>2
    <3> QED
      BY <3>1, <3>2
  <2>11. Summands(way, N) /\ Flights(way, r, N)
    BY <2>2, <2>10 DEF Summands, Flights
  <2>12. PICK f : Total(f, m, u)
    BY <2>1, <2>6, TotalExists
  <2>13. PICK t : Total(t, N, way)
    BY <2>1, <2>11, TotalExists
  <2>14. ChordLength(cat, name, Distances) = WholeChord(~ r.is_roundtrip, f[m])
    <3>1. CountsTo(f[m], m, w)
      BY <2>1, <2>6, <2>7, <2>12, CountedBackwards
    <3>2. FlightHops(w, cat, name, m)
      <4>1. \A j \in 2 .. m + 1 : j \in 1 .. m + 1
        OBVIOUS
      <4> QED
        BY <1>6, <2>2, <4>1 DEF FlightHops
    <3>3. Len(cat.buses[name].route) = m + 1
      BY <1>6, <1>7, <2>1
    <3> QED
      BY <1>6, <2>1, <3>1, <3>2, <3>3, ChordIsCount
  <2>15. t[N] = WholeChord(~ r.is_roundtrip, f[m])
    <3>1. CASE r.is_roundtrip
      <4>1. N = m /\ \A j \in 1 .. m : u[j] = way[j]
        BY <2>3, <2>9, <3>1
      <4>2. \A j \in 0 .. m : t[j] = f[j]
        BY <2>1, <2>12, <2>13, <4>1, TotalsAgree
      <4> QED
        BY <2>1, <3>1, <4>1, <4>2 DEF WholeChord
    <3>2. CASE ~ r.is_roundtrip
      <4>1. N = m + m /\ Joins(way, u, m, u, m)
        BY <2>3, <2>9, <3>2 DEF Joins
      <4>2. t[m + m] = f[m] + f[m]
        BY <2>1, <2>11, <2>12, <2>13, <4>1, JoinedTotals
      <4> QED
        BY <3>2, <4>1, <4>2 DEF WholeChord
    <3> QED
      BY <3>1, <3>2
  <2>16. DocumentChord(r) = t[N]
    BY <2>1, <2>8, <2>11, <2>13, DocumentChordIsSum
  <2>17. t[N] \in Nat /\ (t[N] = 0 <=> \A j \in 1 .. N : way[j] = 0)
    <3>1. NaturalSummands(way, N)
      BY <2>10 DEF NaturalSummands
    <3> QED
      BY <2>1, <2>13, <3>1, TotalOfNaturals
  <2> QED
    BY <1>4, <2>8, <2>10, <2>14, <2>15, <2>16, <2>17
<1> QED
  BY <1>9, <1>10

(* How many stops a bus passes, and how many different ones.               *)
LEMMA CountsAreTheDocuments ==
  ASSUME base \in Documents, ~ HasNull(base), NEW k \in BusPlaces(base), Alone(base, k)
  PROVE  LET bus == base[k]
         IN  /\ BusStopCount(Source, bus.name)
                  = IF bus.stops = <<>> THEN 0 ELSE Len(DocumentHops(bus)) + 1
             /\ BusStopCount(Source, bus.name) \in Nat
             /\ BusUniqStopCount(Source, bus.name) = Cardinality(ToSet(bus.stops))
<1>1. base \in Seq(Request)
  BY ResponseAssumption
<1>2. base[k] \in Request /\ base[k].type = "Bus"
  BY <1>1 DEF BusPlaces
<1>3. BusesAsDeclared(Source, base)
  BY <1>1, DBBuilderKeepsTheBuses DEF Source
<1>4. PICK r, name, s, route, cat :
        r = base[k] /\ name = r.name /\ s = r.stops /\ route = Reverse(s) /\ cat = Source
  OBVIOUS
<1>5. s \in Seq(Names) /\ r.is_roundtrip \in BOOLEAN
  BY <1>2, <1>4, RequestFields
<1>6. /\ cat.buses[name].is_chain = ~ r.is_roundtrip /\ cat.buses[name].route = route
      /\ name \in BusNames(cat)
  <2>1. Source.buses[base[k].name] = BusOf(base[k]) /\ base[k].name \in BusNames(Source)
    BY <1>3 DEF BusesAsDeclared
  <2> QED
    BY <1>4, <2>1 DEF BusOf
<1>7. Len(route) = Len(s) /\ StopsIndexed(route) = {s[j] : j \in DOMAIN s}
  BY <1>4, <1>5, ReverseFacts
<1>8. BusUniqStopCount(cat, name) = Cardinality(ToSet(s))
  BY <1>6, <1>7 DEF BusUniqStopCount, StopsIndexed, ToSet
<1>9. BusStopCount(cat, name) = IF ~ r.is_roundtrip /\ Len(s) > 0
                                  THEN Len(s) + (Len(s) - 1) ELSE Len(s)
  BY <1>6, <1>7 DEF BusStopCount, ThereAndBack
<1>10. BusStopCount(cat, name) \in Nat
  BY <1>5, <1>9
<1>11. CASE s = <<>>
  <2>1. Len(s) = 0
    BY <1>11
  <2> QED
    BY <1>4, <1>8, <1>9, <1>11, <1>10, <2>1
<1>12. CASE s # <<>>
  <2>1. PICK m \in Nat : Len(s) = m + 1
    <3>1. Len(s) - 1 \in Nat /\ Len(s) = (Len(s) - 1) + 1
      BY <1>5, <1>12
    <3> QED
      BY <3>1
  <2>2. Len(DocumentHops(r)) = IF r.is_roundtrip THEN m ELSE m + m
    BY <1>4, <1>5, <2>1, HopsFacts
  <2>3. BusStopCount(cat, name) = Len(DocumentHops(r)) + 1
    <3>1. CASE r.is_roundtrip
      BY <1>9, <2>1, <2>2, <3>1
    <3>2. CASE ~ r.is_roundtrip
      BY <1>9, <2>1, <2>2, <3>2
    <3> QED
      BY <3>1, <3>2
  <2> QED
    BY <1>4, <1>8, <1>12, <1>10, <2>3
<1> QED
  BY <1>11, <1>12

DescribesBus(r, node) ==
  LET buses == BusesNamed(r.name)
  IN  /\ buses = {} => DOMAIN MembersOf(node) = {"request_id", "error_message"}
      /\ Cardinality(buses) = 1 =>
           LET bus   == base[CHOOSE k \in buses : TRUE]
               hops  == DocumentHops(bus)
               chord == DocumentChord(bus)
           IN  /\ ValueOf(node, "stop_count") =
                    Int32(IF bus.stops = <<>> THEN 0 ELSE Len(hops) + 1)
               /\ ValueOf(node, "unique_stop_count") = Int32(Cardinality(ToSet(bus.stops)))
               /\ ValueOf(node, "route_length") = Number(DocumentLength(base, bus))
               /\ LET curvature == ValueOf(node, "curvature")[2]
                  IN  IF \E k \in DOMAIN hops : CoordinatesOf(hops[k][1]) # CoordinatesOf(hops[k][2])
                        THEN curvature = <<DocumentLength(base, bus), chord>>
                        ELSE curvature \in {<<"nan">>, <<"inf">>}

LEMMA BusAnswerDescribes ==
  ASSUME base \in Documents, catalogue = Source, ~ HopWithoutRoad(Source), NEW r
  PROVE  DescribesBus(r, AnswerNode(r, BusMembers(r)))
<1> DEFINE node == AnswerNode(r, BusMembers(r))
           buses == BusesNamed(r.name)
<1>1. base \in Seq(Request) /\ RoadsAreMaps(base)
  BY ResponseAssumption
<1>2. ASSUME buses = {} PROVE DOMAIN MembersOf(node) = {"request_id", "error_message"}
  <2>1. BusMembers(r) = NotFoundMembers
    BY <1>2, NamesOfSource DEF BusMembers, BusStopCount
  <2> QED
    BY <2>1, NotFoundAnswer DEF MembersOf
<1>3. ASSUME Cardinality(buses) = 1
      PROVE  /\ ~ HasNull(base)
             /\ \E k \in BusPlaces(base) :
                  buses = {k} /\ base[k].name = r.name /\ Alone(base, k)
  <2>1. IsFiniteSet(buses)
    <3>1. DOMAIN base = 1 .. Len(base) /\ Len(base) \in Int
      BY <1>1
    <3>2. IsFiniteSet(DOMAIN base)
      BY <3>1, FS_Interval
    <3>3. buses \in SUBSET DOMAIN base
      BY DEF BusesNamed
    <3> HIDE DEF buses
    <3> QED
      BY <3>2, <3>3, FS_Subset
  <2>2. PICK k : buses = {k}
    BY <1>3, <2>1, FS_Singleton
  <2>3. ~ HasNull(base) /\ buses = {n \in BusPlaces(base) : base[n].name = r.name}
    BY <2>2 DEF BusesNamed, BusPlaces
  <2>4. k \in BusPlaces(base) /\ base[k].name = r.name /\ Alone(base, k)
    BY <2>2, <2>3 DEF Alone
  <2> QED
    BY <2>2, <2>3, <2>4
<1>4. ASSUME Cardinality(buses) = 1
      PROVE  LET bus   == base[CHOOSE k \in buses : TRUE]
                 hops  == DocumentHops(bus)
                 chord == DocumentChord(bus)
             IN  /\ ValueOf(node, "stop_count") =
                      Int32(IF bus.stops = <<>> THEN 0 ELSE Len(hops) + 1)
                 /\ ValueOf(node, "unique_stop_count") = Int32(Cardinality(ToSet(bus.stops)))
                 /\ ValueOf(node, "route_length") = Number(DocumentLength(base, bus))
                 /\ LET curvature == ValueOf(node, "curvature")[2]
                    IN  IF \E k \in DOMAIN hops : CoordinatesOf(hops[k][1]) # CoordinatesOf(hops[k][2])
                          THEN curvature = <<DocumentLength(base, bus), chord>>
                          ELSE curvature \in {<<"nan">>, <<"inf">>}
  <2>1. PICK k \in BusPlaces(base) : buses = {k} /\ base[k].name = r.name /\ Alone(base, k)
    BY <1>3, <1>4
  <2>2. ~ HasNull(base)
    BY <1>3, <1>4
  <2>3. PICK bus : bus = base[k]
    OBVIOUS
  <2>4. (CHOOSE n \in buses : TRUE) = k
    BY <2>1
  <2>5. r.name \in BusNames(catalogue)
    BY <2>1, NamesOfSource
  <2>6. PICK length, chord :
          length = BusRouteLength(catalogue, r.name) /\ chord = DocumentChord(bus)
    OBVIOUS
  <2>7. length = DocumentLength(base, bus)
    <3>1. HasRouteLength(Source, r.name)
      BY <2>5 DEF HopWithoutRoad
    <3> QED
      BY <1>1, <2>1, <2>2, <2>3, <2>6, <3>1, DBBuilderKeepsTheLengths DEF Source
  <2>8. /\ ChordLength(catalogue, r.name, Distances) = chord /\ chord \in Nat
        /\ chord = 0 <=> \A n \in DOMAIN DocumentHops(bus) :
                           CoordinatesOf(DocumentHops(bus)[n][1])
                             = CoordinatesOf(DocumentHops(bus)[n][2])
    BY <2>1, <2>2, <2>3, <2>6, ChordIsTheDocuments
  <2>9. /\ BusStopCount(catalogue, r.name)
             = IF bus.stops = <<>> THEN 0 ELSE Len(DocumentHops(bus)) + 1
        /\ BusUniqStopCount(catalogue, r.name) = Cardinality(ToSet(bus.stops))
    BY <2>1, <2>2, <2>3, CountsAreTheDocuments
  <2>10. BusStopCount(catalogue, r.name) # -1
    <3>1. BusStopCount(catalogue, r.name) \in Nat
      BY <2>1, <2>2, CountsAreTheDocuments
    <3> QED
      BY <3>1
  <2>11. /\ ValueOf(node, "stop_count") = Int32(BusStopCount(catalogue, r.name))
         /\ ValueOf(node, "unique_stop_count") = Int32(BusUniqStopCount(catalogue, r.name))
         /\ ValueOf(node, "route_length") = Number(length)
         /\ ValueOf(node, "curvature") = Number(Quotient(length, chord))
    BY <2>6, <2>8, <2>10, BusAnswerMembers
  <2>12. ValueOf(node, "curvature")[2] = Quotient(length, chord)
    BY <2>11 DEF Number
  <2> HIDE DEF node, buses
  <2> QED
    BY <2>3, <2>4, <2>6, <2>7, <2>8, <2>9, <2>11, <2>12 DEF Quotient
<1> QED
  BY <1>2, <1>4 DEF DescribesBus

DescribesStop(r, node) ==
  LET known  == ~ HasNull(base) /\ r.name \in DeclaredStops(base) \cup MentionedStops(base)
      buses  == {base[k].name : k \in {n \in DOMAIN base :
                                   base[n].type = "Bus" /\ r.name \in ToSet(base[n].stops)}}
      list   == [k \in DOMAIN MembersOf(node)["buses"].elements |->
                   MembersOf(node)["buses"].elements[k].value[2]]
  IN  IF ~ known THEN DOMAIN MembersOf(node) = {"request_id", "error_message"}
      ELSE /\ ToSet(list) = buses
           /\ \A m, n \in DOMAIN list : m < n => NameRank[list[m]] < NameRank[list[n]]

LEMMA StopAnswerDescribes ==
  ASSUME base \in Documents, catalogue = Source, NEW r, r.name \in Names
  PROVE  DescribesStop(r, AnswerNode(r, StopMembers(r)))
<1> DEFINE node == AnswerNode(r, StopMembers(r))
           known == ~ HasNull(base) /\ r.name \in DeclaredStops(base) \cup MentionedStops(base)
           buses == {base[k].name : k \in {n \in DOMAIN base :
                                      base[n].type = "Bus" /\ r.name \in ToSet(base[n].stops)}}
           list == [k \in DOMAIN MembersOf(node)["buses"].elements |->
                      MembersOf(node)["buses"].elements[k].value[2]]
<1>1. base \in Seq(Request)
  BY ResponseAssumption
<1>2. r.name \in StopNames(catalogue) <=> known
  BY NamesOfSource
<1>3. ASSUME ~ known PROVE DOMAIN MembersOf(node) = {"request_id", "error_message"}
  <2>1. StopMembers(r) = NotFoundMembers
    BY <1>2, <1>3 DEF StopMembers
  <2> QED
    BY <2>1, NotFoundAnswer DEF MembersOf
<1>4. ASSUME known
      PROVE  /\ ToSet(list) = buses
             /\ \A m, n \in DOMAIN list : m < n => NameRank[list[m]] < NameRank[list[n]]
  <2>1. GetStopBuses(catalogue, r.name) = buses
    <3>1. StopsAsDeclared(Source, base)
      BY <1>1, <1>4, DBBuilderKeepsTheStops DEF Source
    <3>2. StopOf(Source, r.name).buses
            = {base[k].name : k \in {n \in DOMAIN base : Passes(base, n, r.name)}}
      BY <3>1 DEF StopsAsDeclared
    <3>3. StopOf(Source, r.name) = Source.stops[r.name]
      BY <1>2, <1>4 DEF StopOf
    <3> QED
      BY <3>2, <3>3 DEF GetStopBuses, Passes
  <2>2. IsFiniteSet(buses) /\ buses \in SUBSET Names
    <3>1. IsFiniteSet(buses)
      BY <1>2, <1>4, <2>1, SourceBuses
    <3>2. ASSUME NEW k \in DOMAIN base, base[k].type = "Bus" PROVE base[k].name \in Names
      <4>1. base[k] \in Request
        BY <1>1
      <4> QED
        BY <3>2, <4>1, RequestFields
    <3> QED
      BY <3>1, <3>2
  <2>3. list = [k \in 1 .. Cardinality(GetStopBuses(catalogue, r.name)) |->
                  Sorted(GetStopBuses(catalogue, r.name))[k]]
    BY <1>2, <1>4, StopAnswerMembers
  <2> HIDE DEF list, buses
  <2>4. /\ {Sorted(buses)[k] : k \in 1 .. Cardinality(buses)} = buses
        /\ \A m, n \in 1 .. Cardinality(buses) :
             m < n => NameRank[Sorted(buses)[m]] < NameRank[Sorted(buses)[n]]
    BY <2>2, SortedFacts
  <2>5. DOMAIN list = 1 .. Cardinality(buses) /\ \A k \in DOMAIN list : list[k] = Sorted(buses)[k]
    BY <2>1, <2>3
  <2> QED
    BY <2>4, <2>5 DEF ToSet
<1> QED
  BY <1>3, <1>4 DEF DescribesStop

(* Whatever the documents: the answers about buses and stops say what the  *)
(* base document says of them, counts, lengths, curvatures and the buses   *)
(* of a stop, also after other requests were answered.                     *)
THEOREM AnswersAreTheDocumentsHolds == Spec => []AnswersAreTheDocuments
<1>1. RInv => AnswersAreTheDocuments
  <2> SUFFICES ASSUME RInv PROVE AnswersAreTheDocuments
    OBVIOUS
  <2>1. ASSUME NEW type \in {"Bus", "Stop"}, NEW a \in AnswersTo(type)
        PROVE  /\ AnswerTo(a[1], a[2]) /\ a[1].type = type /\ a[1] \in StatRequest
               /\ base \in Documents /\ catalogue = Source /\ ~ HopWithoutRoad(Source)
    <3>1. /\ stat # Absent /\ pc # "threw" /\ calls = <<>> /\ ~ HasNullRequest
      BY <2>1 DEF AnswersTo
    <3>2. PICK k \in 1 .. i - 1 : stat[k].type = type /\ a = <<stat[k], Answers[AnsweredAmong(k)]>>
      BY <2>1, <3>1 DEF AnswersTo
    <3>3. PICK e : Taken(e, i - 1) /\ Answers = e
      BY <3>1, AnswersTaken
    <3>4. AnswerTo(a[1], a[2]) /\ a[1].type = type /\ a[1] = stat[k]
      BY <3>2, <3>3 DEF Taken, Answered
    <3>5. k \in DOMAIN stat /\ pc # "router" /\ stat \in Seq(StatRequest)
      <4>1. stat \in Seq(StatRequest)
        BY <3>1, ResponseAssumption DEF RInv, Inputs
      <4>2. i # 1
        BY <3>2
      <4>3. pc \notin {"router", "begin"}
        BY <4>2 DEF RInv, Before
      <4>4. i \in 1 .. Len(stat) + 1
        <5>1. Len(stat) \in Nat
          BY <4>1
        <5>2. CASE pc = "requests"
          BY <5>2 DEF RInv, During
        <5>3. CASE pc = "end"
          <6>1. \E e1 : Finished(e1)
            BY <5>3 DEF RInv, During
          <6> QED
            BY <3>1, <5>1, <6>1 DEF Finished
        <5>4. CASE pc \in {"build", "done"}
          <6>1. \E e1 : Finished(e1)
            BY <3>1, <5>4 DEF RInv, After
          <6> QED
            BY <3>1, <5>1, <6>1 DEF Finished
        <5> QED
          BY <3>1, <4>3, <5>2, <5>3, <5>4 DEF RInv, Passed
      <4> QED
        BY <4>1, <4>3, <4>4
    <3>6. a[1] \in StatRequest
      BY <3>4, <3>5
    <3> QED
      BY <3>1, <3>4, <3>5, <3>6 DEF RInv, Inputs, Passed, RouterThrows
  <2>2. ASSUME NEW a \in AnswersTo("Bus") PROVE DescribesBus(a[1], a[2])
    <3>1. /\ AnswerTo(a[1], a[2]) /\ a[1].type = "Bus"
          /\ base \in Documents /\ catalogue = Source /\ ~ HopWithoutRoad(Source)
      BY <2>1, <2>2
    <3>2. a[2] = AnswerNode(a[1], BusMembers(a[1]))
      BY <3>1 DEF AnswerTo
    <3> QED
      BY <3>1, <3>2, BusAnswerDescribes
  <2>3. ASSUME NEW a \in AnswersTo("Stop") PROVE DescribesStop(a[1], a[2])
    <3>1. /\ AnswerTo(a[1], a[2]) /\ a[1].type = "Stop" /\ a[1] \in StatRequest
          /\ base \in Documents /\ catalogue = Source
      BY <2>1, <2>3
    <3>2. a[2] = AnswerNode(a[1], StopMembers(a[1])) /\ a[1].name \in Names
      BY <3>1 DEF AnswerTo, StatRequest
    <3> QED
      BY <3>1, <3>2, StopAnswerDescribes
  <2>4. BusAnswersAreTheDocuments
    BY <2>2 DEF BusAnswersAreTheDocuments, DescribesBus
  <2>5. StopAnswersAreTheDocuments
    BY <2>3 DEF StopAnswersAreTheDocuments, DescribesStop
  <2> QED
    BY <2>4, <2>5 DEF AnswersAreTheDocuments
<1> QED
  BY <1>1, AlwaysRInv, PTL
=============================================================================
