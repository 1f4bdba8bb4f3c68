------------------------- MODULE MapRendererProofs -------------------------
(***************************************************************************)
(* Proofs about MapRenderer, for every base document and all settings.     *)
(* MInv, which is inductive, says which shapes the picture consists of at  *)
(* each moment, as rows of them in the order of names; that a bus has one  *)
(* place in this order is why its line and its name have the same colour.  *)
(* Next the document takes the place of the catalogue, shape by shape.     *)
(* Last come the projection and its two axes.                              *)
(***************************************************************************)
EXTENDS MapRenderer, JSONReaderProofs, FiniteSetTheorems

(* The catalogue the map is drawn from.                                    *)
Source == DBBuilder(base)

LEMMA SourceFacts ==
  ASSUME base \in Documents
  PROVE  /\ base \in Seq(Request) /\ AllDeclared(base)
         /\ CatalogueType(Source) /\ IndexConsistent(Source)
         /\ StopNames(Source) \subseteq Names /\ IsFiniteSet(StopNames(Source))
         /\ BusNames(Source) \subseteq Names /\ IsFiniteSet(BusNames(Source))
<1>1. base \in Seq(Request) /\ AllDeclared(base)
  BY MapAssumption
<1> QED
  BY <1>1, DBBuilderNames DEF Source

-----------------------------------------------------------------------------
(* The turns of a loop.                                                    *)

Increasing(list) == \A j, k \in 1 .. Len(list) : j < k => NameRank[list[j]] < NameRank[list[k]]

(* What is still to come of the names, in their order: the last of them.   *)
OrderedFrom(rest, names) ==
  /\ IsRow(rest) /\ ToSet(rest) \subseteq names /\ Increasing(rest)
  /\ \A m \in names \ ToSet(rest), n \in ToSet(rest) : NameRank[m] < NameRank[n]

LEMMA InOrderFacts ==
  ASSUME NEW names \in SUBSET Names, IsFiniteSet(names)
  PROVE  LET list == InOrder(names)
             size == Cardinality(names)
         IN  /\ size \in Nat /\ IsRow(list) /\ Len(list) = size
             /\ ToSet(list) = names /\ Increasing(list)
             /\ \A n \in names :
                  LET k == Cardinality({m \in names : NameRank[m] < NameRank[n]}) + 1
                  IN  k \in 1 .. size /\ list[k] = n
<1>1. RanksApart(NameRank, names)
  BY MapAssumption DEF RanksApart
<1>2. PICK list, size : list = InOrder(names) /\ size = Cardinality(names)
  OBVIOUS
<1>3. list = ByRank(NameRank, names)
  BY <1>2 DEF InOrder, ByRank
<1>4. /\ size \in Nat /\ {list[k] : k \in 1 .. size} = names
      /\ \A m, n \in 1 .. size : m < n => NameRank[list[m]] < NameRank[list[n]]
      /\ \A n \in names : LET k == Cardinality({m \in names : NameRank[m] < NameRank[n]}) + 1
                          IN  k \in 1 .. size /\ list[k] = n
  BY <1>1, <1>2, <1>3, ByRankFacts
<1>5. \A k \in 1 .. size : list[k] \in names
  BY <1>4
<1>6. list \in [1 .. size -> names]
  <2> DEFINE At(k) == CHOOSE n \in names :
                        Cardinality({m \in names : NameRank[m] < NameRank[n]}) = k - 1
  <2>0. list = [k \in 1 .. size |-> At(k)]
    BY <1>2 DEF InOrder
  <2> HIDE DEF At
  <2>1. list = [k \in 1 .. size |-> list[k]]
    BY <2>0
  <2> QED
    BY <1>5, <2>1
<1>7. list \in Seq(names) /\ Len(list) = size /\ DOMAIN list = 1 .. size
  BY <1>4, <1>6
<1>8. ToSet(list) = names
  BY <1>4, <1>7 DEF ToSet
<1> QED
  BY <1>2, <1>4, <1>7, <1>8, Rows DEF Increasing

LEMMA OrderBegins ==
  ASSUME NEW names \in SUBSET Names, IsFiniteSet(names)
  PROVE  OrderedFrom(InOrder(names), names)
BY InOrderFacts DEF OrderedFrom

LEMMA NothingOrdered == InOrder({}) = <<>>
<1>1. IsFiniteSet({}) /\ Cardinality({}) = 0
  BY FS_EmptySet
<1>2. IsRow(InOrder({})) /\ Len(InOrder({})) = 0
  BY <1>1, InOrderFacts
<1> QED
  BY <1>2, RowFacts

(* One turn.                                                               *)
LEMMA OrderNext ==
  ASSUME NEW names \in SUBSET Names, NEW rest, OrderedFrom(rest, names), rest # <<>>
  PROVE  /\ Head(rest) \in ToSet(rest) /\ Head(rest) \in names
         /\ OrderedFrom(Tail(rest), names)
         /\ ToSet(Tail(rest)) = ToSet(rest) \ {Head(rest)}
         /\ \A n \in ToSet(Tail(rest)) : NameRank[Head(rest)] < NameRank[n]
<1>1. IsRow(rest) /\ ToSet(rest) \subseteq names /\ Increasing(rest)
  BY DEF OrderedFrom
<1>2. PICK first, others, size : first = Head(rest) /\ others = Tail(rest) /\ size = Len(rest)
  OBVIOUS
<1>3. size \in Nat /\ size # 0 /\ DOMAIN rest = 1 .. size
  BY <1>1, <1>2, RowFacts
<1>4. IsRow(others) /\ Len(others) = size - 1 /\ first = rest[1]
      /\ \A k \in 1 .. size - 1 : others[k] = rest[k + 1]
  BY <1>1, <1>2, RowShortened
<1>5. DOMAIN others = 1 .. size - 1
  BY <1>4, RowFacts
<1>6. first \in ToSet(rest) /\ first \in names
  BY <1>1, <1>3, <1>4, RowFacts
<1>7. \A n \in Names : NameRank[n] \in Nat
  BY MapAssumption
<1>8. \A k \in 1 .. size - 1 : NameRank[first] < NameRank[others[k]]
  <2> TAKE k \in 1 .. size - 1
  <2>1. k + 1 \in 1 .. size /\ 1 \in 1 .. size /\ 1 < k + 1
    BY <1>3
  <2> QED
    BY <1>1, <1>2, <1>4, <2>1 DEF Increasing
<1>9. \A n \in ToSet(others) : NameRank[first] < NameRank[n]
  BY <1>5, <1>8 DEF ToSet
<1>10. ToSet(others) = ToSet(rest) \ {first}
  <2>1. ASSUME NEW n \in ToSet(others) PROVE n \in ToSet(rest) /\ n # first
    <3>1. PICK k \in 1 .. size - 1 : n = others[k]
      BY <1>5 DEF ToSet
    <3>2. k + 1 \in 1 .. size /\ n = rest[k + 1]
      BY <1>3, <1>4, <3>1
    <3>3. n \in ToSet(rest)
      BY <1>3, <3>2 DEF ToSet
    <3>4. n \in Names /\ first \in Names
      BY <1>1, <1>6, <3>3
    <3>5. NameRank[first] < NameRank[n] /\ NameRank[first] \in Nat
      BY <1>7, <1>9, <3>4
    <3> QED
      BY <3>3, <3>5
  <2>2. ASSUME NEW n \in ToSet(rest), n # first PROVE n \in ToSet(others)
    <3>1. PICK k \in 1 .. size : n = rest[k]
      BY <1>3 DEF ToSet
    <3>2. k # 1
      BY <1>4, <2>2, <3>1
    <3>3. k - 1 \in 1 .. size - 1 /\ (k - 1) + 1 = k
      BY <1>3, <3>2
    <3>4. others[k - 1] = n
      BY <1>4, <3>1, <3>3
    <3> QED
      BY <1>5, <3>3, <3>4 DEF ToSet
  <2> QED
    BY <2>1, <2>2
<1>11. Increasing(others)
  <2> SUFFICES ASSUME NEW j \in 1 .. size - 1, NEW k \in 1 .. size - 1, j < k
               PROVE  NameRank[others[j]] < NameRank[others[k]]
    BY <1>4 DEF Increasing
  <2>1. j + 1 \in 1 .. size /\ k + 1 \in 1 .. size /\ j + 1 < k + 1
    BY <1>3
  <2> QED
    BY <1>1, <1>2, <1>4, <2>1 DEF Increasing
<1>12. ASSUME NEW m \in names \ ToSet(others), NEW n \in ToSet(others)
       PROVE  NameRank[m] < NameRank[n]
  <2>1. CASE m = first
    BY <1>9, <2>1
  <2>2. CASE m # first
    <3>1. m \in names \ ToSet(rest) /\ n \in ToSet(rest)
      BY <1>10, <1>12, <2>2
    <3> QED
      BY <3>1 DEF OrderedFrom
  <2> QED
    BY <2>1, <2>2
<1>13. OrderedFrom(others, names)
  BY <1>1, <1>4, <1>10, <1>11, <1>12 DEF OrderedFrom
<1> QED
  BY <1>2, <1>6, <1>9, <1>10, <1>13

(* What is due of the names: the next of them in the loop is the next one  *)
(* in the order of those that are due.                                     *)
LEMMA DueNext ==
  ASSUME NEW names \in SUBSET Names, NEW rest, OrderedFrom(rest, names), rest # <<>>,
         NEW due \in SUBSET names, IsFiniteSet(due), Head(rest) \in due
  PROVE  LET n == Cardinality(due \ ToSet(rest))
         IN  /\ n \in Nat /\ n + 1 \in 1 .. Cardinality(due)
             /\ InOrder(due)[n + 1] = Head(rest)
             /\ Cardinality(due \ ToSet(Tail(rest))) = n + 1
<1>1. PICK first, others : first = Head(rest) /\ others = Tail(rest)
  OBVIOUS
<1>2. /\ first \in ToSet(rest) /\ first \in names
      /\ ToSet(others) = ToSet(rest) \ {first}
      /\ \A n \in ToSet(others) : NameRank[first] < NameRank[n]
  BY <1>1, OrderNext
<1>3. \A n \in Names : NameRank[n] \in Nat
  BY MapAssumption
<1>4. {m \in due : NameRank[m] < NameRank[first]} = due \ ToSet(rest)
  <2>1. ASSUME NEW m \in due, m \notin ToSet(rest) PROVE NameRank[m] < NameRank[first]
    BY <1>2, <2>1 DEF OrderedFrom
  <2>2. ASSUME NEW m \in due, m \in ToSet(rest) PROVE ~ (NameRank[m] < NameRank[first])
    <3>1. NameRank[m] \in Nat /\ NameRank[first] \in Nat
      BY <1>2, <1>3
    <3>2. m = first \/ NameRank[first] < NameRank[m]
      BY <1>2, <2>2
    <3> QED
      BY <3>1, <3>2
  <2> QED
    BY <2>1, <2>2
<1>5. due \in SUBSET Names
  OBVIOUS
<1>6. PICK passed : passed = due \ ToSet(rest)
  OBVIOUS
<1>7. IsFiniteSet(passed) /\ Cardinality(passed) \in Nat
  BY <1>6, FS_Difference, FS_CardinalityType
<1>8. Cardinality(passed) + 1 \in 1 .. Cardinality(due) /\ InOrder(due)[Cardinality(passed) + 1] = first
  BY <1>1, <1>4, <1>5, <1>6, InOrderFacts
<1>9. due \ ToSet(others) = passed \cup {first} /\ first \notin passed
  BY <1>1, <1>2, <1>6
<1>10. Cardinality(due \ ToSet(others)) = Cardinality(passed) + 1
  BY <1>7, <1>9, FS_AddElement
<1> QED
  BY <1>1, <1>6, <1>7, <1>8, <1>10

LEMMA NotDueNext ==
  ASSUME NEW names \in SUBSET Names, NEW rest, OrderedFrom(rest, names), rest # <<>>,
         NEW due \in SUBSET names, Head(rest) \notin due
  PROVE  due \ ToSet(Tail(rest)) = due \ ToSet(rest)
<1>1. ToSet(Tail(rest)) = ToSet(rest) \ {Head(rest)}
  BY OrderNext
<1> QED
  BY <1>1

(* At the beginning of a loop nothing has been done, at its end everything. *)
LEMMA DueAtTheEnds ==
  ASSUME NEW names \in SUBSET Names, IsFiniteSet(names), NEW due \in SUBSET names
  PROVE  /\ Cardinality(due \ ToSet(InOrder(names))) = 0
         /\ due \ ToSet(<<>>) = due
<1>1. due \ ToSet(InOrder(names)) = {}
  BY InOrderFacts
<1>2. Cardinality({}) = 0
  BY FS_EmptySet
<1>3. ToSet(<<>>) = {}
  BY DEF ToSet
<1> QED
  BY <1>1, <1>2, <1>3

-----------------------------------------------------------------------------
(* Rows one after the other.                                               *)

Upto(rows, n) == FlattenSeq([k \in 1 .. n |-> rows[k]])

AreRows(rows, N, E) == \A k \in 1 .. N : rows[k] \in Seq(E)

Grows(f, n, rows) == \A k \in 1 .. n : f[k] = f[k - 1] \o rows[k]

LEMMA FlattenedUnique ==
  ASSUME NEW N \in Nat, NEW M \in Nat, M <= N, NEW ss, NEW f, NEW g,
         f[0] = g[0], Grows(f, N, ss), Grows(g, M, ss)
  PROVE  f[M] = g[M]
<1> DEFINE S == {n \in Nat : n <= M => f[n] = g[n]}
<1>1. 0 \in S
  OBVIOUS
<1>2. ASSUME NEW n \in S PROVE n + 1 \in S
  <2> SUFFICES ASSUME n + 1 <= M PROVE f[n + 1] = g[n + 1]
    OBVIOUS
  <2>1. PICK k : k = n + 1
    OBVIOUS
  <2>2. k \in 1 .. M /\ k \in 1 .. N /\ k - 1 = n /\ f[n] = g[n]
    BY <2>1
  <2>3. f[k] = f[k - 1] \o ss[k] /\ g[k] = g[k - 1] \o ss[k]
    BY <2>2 DEF Grows
  <2> QED
    BY <2>1, <2>2, <2>3
<1>3. S = Nat
  <2>1. S \in SUBSET Nat
    OBVIOUS
  <2> HIDE DEF S
  <2> QED
    BY <1>1, <1>2, <2>1, SetInduction
<1> QED
  BY <1>3

LEMMA UptoFacts ==
  ASSUME NEW rows, NEW N \in Nat, NEW E, AreRows(rows, N, E)
  PROVE  /\ Upto(rows, 0) = <<>>
         /\ \A n \in 0 .. N : Upto(rows, n) \in Seq(E)
         /\ \A n \in 0 .. N - 1 : Upto(rows, n + 1) = Upto(rows, n) \o rows[n + 1]
<1> DEFINE First(n) == [k \in 1 .. n |-> rows[k]]
           Flattens(f, n) == /\ f[0] = <<>> /\ f[n] = FlattenSeq(First(n))
                             /\ Grows(f, n, rows)
<1>1. ASSUME NEW k \in 1 .. N PROVE rows[k] \in Seq(E)
  BY DEF AreRows
<1>2. ASSUME NEW n \in 0 .. N
      PROVE  \E f : f \in [0 .. n -> Seq(E)] /\ Flattens(f, n)
  <2>1. n \in Nat /\ \A k \in 1 .. n : First(n)[k] = rows[k] /\ rows[k] \in Seq(E)
    BY <1>1
  <2>2. First(n) \in [1 .. n -> Seq(E)]
    BY <2>1
  <2>3. First(n) \in Seq(Seq(E)) /\ Len(First(n)) = n
    BY <2>1, <2>2
  <2>4. PICK ss : ss = First(n)
    OBVIOUS
  <2>5. PICK f \in [0 .. n -> Seq(E)] :
          /\ f[0] = <<>> /\ f[n] = FlattenSeq(ss)
          /\ \A k \in 1 .. n : f[k] = f[k - 1] \o ss[k]
    <3> HIDE DEF First
    <3>1. ss \in Seq(Seq(E)) /\ Len(ss) = n
      BY <2>3, <2>4
    <3> QED
      BY <3>1, Flattened, Zenon
  <2>6. \A k \in 1 .. n : ss[k] = rows[k]
    BY <2>1, <2>4
  <2> HIDE DEF First
  <2>7. Flattens(f, n)
    BY <2>4, <2>5, <2>6 DEF Grows
  <2> QED
    BY <2>5, <2>7
<1>3. ASSUME NEW n \in 0 .. N PROVE Upto(rows, n) \in Seq(E)
  <2>1. PICK f \in [0 .. n -> Seq(E)] : Flattens(f, n)
    BY <1>2
  <2>2. f[n] \in Seq(E) /\ f[n] = Upto(rows, n)
    BY <2>1 DEF Upto
  <2> QED
    BY <2>2
<1>4. Upto(rows, 0) = <<>>
  <2>1. 0 \in 0 .. N
    OBVIOUS
  <2>2. PICK f : Flattens(f, 0)
    BY <1>2, <2>1
  <2> QED
    BY <2>2 DEF Upto
<1>5. ASSUME NEW n \in 0 .. N - 1 PROVE Upto(rows, n + 1) = Upto(rows, n) \o rows[n + 1]
  <2>1. PICK m : m = n + 1
    OBVIOUS
  <2>2. n \in Nat /\ m \in Nat /\ n <= m /\ n \in 0 .. N /\ m \in 0 .. N /\ m \in 1 .. m /\ m - 1 = n
    BY <2>1
  <2>3. PICK f : Flattens(f, m)
    BY <1>2, <2>2
  <2>4. PICK g : Flattens(g, n)
    BY <1>2, <2>2
  <2>5. f[m] = Upto(rows, m) /\ g[n] = Upto(rows, n)
    BY <2>3, <2>4 DEF Upto
  <2>6. f[m] = f[n] \o rows[m]
    BY <2>2, <2>3 DEF Grows
  <2>7. f[n] = g[n]
    <3>1. f[0] = g[0] /\ Grows(f, m, rows) /\ Grows(g, n, rows)
      BY <2>3, <2>4
    <3>2. n \in Nat /\ m \in Nat /\ n <= m
      BY <2>2
    <3> QED
      BY <3>1, <3>2, FlattenedUnique
  <2> QED
    BY <2>1, <2>5, <2>6, <2>7
<1> QED
  BY <1>3, <1>4, <1>5

LEMMA UptoNone == ASSUME NEW rows PROVE Upto(rows, 0) = <<>>
<1>1. AreRows(rows, 0, {})
  BY DEF AreRows
<1> QED
  BY <1>1, UptoFacts

(* What they consist of.                                                   *)
LEMMA JoinedElements ==
  ASSUME NEW E, NEW s \in Seq(E), NEW t \in Seq(E)
  PROVE  ToSet(s \o t) = ToSet(s) \cup ToSet(t)
<1>1. PICK r : r = s \o t
  OBVIOUS
<1>2. /\ r \in Seq(E) /\ Len(r) = Len(s) + Len(t) /\ Len(s) \in Nat /\ Len(t) \in Nat
      /\ DOMAIN r = 1 .. Len(r) /\ DOMAIN s = 1 .. Len(s) /\ DOMAIN t = 1 .. Len(t)
  BY <1>1
<1>3. \A k \in 1 .. Len(s) : r[k] = s[k]
  BY <1>1
<1>4. \A k \in 1 .. Len(t) : r[Len(s) + k] = t[k]
  BY <1>1
<1>5. ASSUME NEW x \in ToSet(r) PROVE x \in ToSet(s) \cup ToSet(t)
  <2>1. PICK k \in 1 .. Len(r) : r[k] = x
    BY <1>2 DEF ToSet
  <2>2. CASE k <= Len(s)
    BY <1>2, <1>3, <2>1, <2>2 DEF ToSet
  <2>3. CASE ~ (k <= Len(s))
    <3>1. k - Len(s) \in 1 .. Len(t) /\ Len(s) + (k - Len(s)) = k
      BY <1>2, <2>3
    <3>2. t[k - Len(s)] = x
      BY <1>4, <2>1, <3>1
    <3> QED
      BY <1>2, <3>1, <3>2 DEF ToSet
  <2> QED
    BY <2>2, <2>3
<1>6. ASSUME NEW x \in ToSet(s) PROVE x \in ToSet(r)
  <2>1. PICK k \in 1 .. Len(s) : s[k] = x
    BY <1>2 DEF ToSet
  <2>2. k \in 1 .. Len(r) /\ r[k] = x
    BY <1>2, <1>3, <2>1
  <2> QED
    BY <1>2, <2>2 DEF ToSet
<1>7. ASSUME NEW x \in ToSet(t) PROVE x \in ToSet(r)
  <2>1. PICK k \in 1 .. Len(t) : t[k] = x
    BY <1>2 DEF ToSet
  <2>2. Len(s) + k \in 1 .. Len(r) /\ r[Len(s) + k] = x
    BY <1>2, <1>4, <2>1
  <2> QED
    BY <1>2, <2>2 DEF ToSet
<1> QED
  BY <1>1, <1>5, <1>6, <1>7

LEMMA UptoElements ==
  ASSUME NEW rows, NEW N \in Nat, NEW E, AreRows(rows, N, E), NEW n \in 0 .. N, NEW x
  PROVE  x \in ToSet(Upto(rows, n)) <=> \E k \in 1 .. n : x \in ToSet(rows[k])
<1> DEFINE Holds(m) == x \in ToSet(Upto(rows, m)) <=> \E k \in 1 .. m : x \in ToSet(rows[k])
           S == {m \in Nat : m <= N => Holds(m)}
<1>1. 0 \in S
  <2>1. ToSet(<<>>) = {}
    BY DEF ToSet
  <2>2. 1 .. 0 = {}
    OBVIOUS
  <2>3. Holds(0)
    BY <2>1, <2>2, UptoNone
  <2> QED
    BY <2>3
<1>2. ASSUME NEW m \in S PROVE m + 1 \in S
  <2> SUFFICES ASSUME m + 1 <= N PROVE Holds(m + 1)
    OBVIOUS
  <2>1. m \in 0 .. N - 1 /\ m \in 0 .. N /\ m + 1 \in 1 .. N /\ Holds(m)
    BY <1>2
  <2>2. Upto(rows, m + 1) = Upto(rows, m) \o rows[m + 1]
    BY <2>1, UptoFacts
  <2>3. Upto(rows, m) \in Seq(E) /\ rows[m + 1] \in Seq(E)
    BY <2>1, UptoFacts DEF AreRows
  <2>4. ToSet(Upto(rows, m + 1)) = ToSet(Upto(rows, m)) \cup ToSet(rows[m + 1])
    BY <2>2, <2>3, JoinedElements, ZenonT(30)
  <2>5. 1 .. m + 1 = (1 .. m) \cup {m + 1}
    BY <2>1
  <2> QED
    BY <2>1, <2>4, <2>5
<1>3. S = Nat
  <2>1. S \in SUBSET Nat
    OBVIOUS
  <2> HIDE DEF S
  <2> QED
    BY <1>1, <1>2, <2>1, SetInduction
<1>4. n \in S /\ n <= N
  BY <1>3
<1> QED
  BY <1>4

(* Rows of one: they are told apart by their places.                       *)
AreSingles(rows, N) == \A k \in 1 .. N : Len(rows[k]) = 1

LEMMA UptoSingles ==
  ASSUME NEW rows, NEW N \in Nat, NEW E, AreRows(rows, N, E), AreSingles(rows, N),
         NEW n \in 0 .. N
  PROVE  /\ Len(Upto(rows, n)) = n
         /\ \A k \in 1 .. n : Upto(rows, n)[k] = rows[k][1]
<1> DEFINE Holds(m) == /\ Len(Upto(rows, m)) = m
                       /\ \A k \in 1 .. m : Upto(rows, m)[k] = rows[k][1]
           S == {m \in Nat : m <= N => Holds(m)}
<1>1. 0 \in S
  <2>1. Len(<<>>) = 0 /\ 1 .. 0 = {}
    OBVIOUS
  <2>2. Holds(0)
    BY <2>1, UptoNone
  <2> QED
    BY <2>2
<1>2. ASSUME NEW m \in S PROVE m + 1 \in S
  <2> SUFFICES ASSUME m + 1 <= N PROVE Holds(m + 1)
    OBVIOUS
  <2>1. m \in 0 .. N - 1 /\ m \in 0 .. N /\ m + 1 \in 1 .. N /\ Holds(m)
    BY <1>2
  <2>2. PICK last : last = rows[m + 1]
    OBVIOUS
  <2>3. PICK s : s = Upto(rows, m)
    OBVIOUS
  <2>4. PICK r : r = Upto(rows, m + 1)
    OBVIOUS
  <2>5. r = s \o last
    BY <2>1, <2>2, <2>3, <2>4, UptoFacts
  <2>6. s \in Seq(E) /\ last \in Seq(E)
    BY <2>1, <2>2, <2>3, UptoFacts DEF AreRows
  <2>7. Len(last) = 1 /\ Len(s) = m
    BY <2>1, <2>2, <2>3 DEF AreSingles
  <2>8. Len(r) = m + 1
    <3>1. Len(s \o last) = Len(s) + Len(last)
      BY <2>6
    <3> QED
      BY <2>5, <2>7, <3>1
  <2>9. \A k \in 1 .. m : r[k] = s[k]
    BY <2>5, <2>6, <2>7
  <2>10. r[m + 1] = last[1]
    <3>1. 1 \in 1 .. Len(last)
      BY <2>7
    <3>2. \A k \in 1 .. Len(last) : (s \o last)[Len(s) + k] = last[k]
      BY <2>6
    <3> QED
      BY <2>5, <2>7, <3>1, <3>2
  <2>11. \A k \in 1 .. m : r[k] = rows[k][1]
    BY <2>1, <2>3, <2>9
  <2>12. \A k \in 1 .. m + 1 : r[k] = rows[k][1]
    <3> TAKE k \in 1 .. m + 1
    <3>1. k \in 1 .. m \/ k = m + 1
      OBVIOUS
    <3> QED
      BY <2>2, <2>10, <2>11, <3>1
  <2> QED
    BY <2>4, <2>8, <2>12
<1>3. S = Nat
  <2>1. S \in SUBSET Nat
    OBVIOUS
  <2> HIDE DEF S
  <2> QED
    BY <1>1, <1>2, <2>1, SetInduction
<1>4. n \in S /\ n <= N
  BY <1>3
<1> QED
  BY <1>4

-----------------------------------------------------------------------------
(* What the four loops draw for the buses with a route and the stops they  *)
(* go to: a row of shapes for each, in the order of their names.           *)
NonEmpty(cat) == {b \in BusNames(cat) : cat.buses[b].route # <<>>}

RouteOrder == InOrder(NonEmpty(catalogue))
StopOrder  == InOrder(ServedStops(catalogue))
Buses      == Cardinality(NonEmpty(catalogue))
Stops      == Cardinality(ServedStops(catalogue))

LineShape(name, color) ==
  LET stops == PolylineStops(catalogue.buses[name].route, catalogue.buses[name].is_chain)
  IN  [shape |-> "line", color |-> color,
       points |-> [k \in DOMAIN stops |-> Projected(PlaceOf(stops[k]))]]

NameShapes(name, color) ==
  LET route == catalogue.buses[name].route
      ends  == LabelledEnds(route, catalogue.buses[name].is_chain)
  IN  FlattenSeq([k \in DOMAIN ends |->
        Texts("route_name", name, color, Projected(PlaceOf(route[ends[k]])))])

PointShape(stop) == [shape |-> "point", color |-> "white", at |-> Projected(PlaceOf(stop))]
StopTexts(stop)  == Texts("stop_name", stop, "black", Projected(PlaceOf(stop)))

Lines  == [k \in 1 .. Buses |-> <<LineShape(RouteOrder[k], Chosen(k))>>]
Labels == [k \in 1 .. Buses |-> NameShapes(RouteOrder[k], Chosen(k))]
Points == [k \in 1 .. Stops |-> <<PointShape(StopOrder[k])>>]
Titles == [k \in 1 .. Stops |-> StopTexts(StopOrder[k])]

(* The shapes there may be.                                                *)
Places == {Projected(PlaceOf(s)) : s \in ServedStops(catalogue)}
Colours == {Chosen(k) : k \in Nat}

LineShapes  == [shape : {"line"}, color : Colours, points : Seq(Places)]
TextShapes(shape, names, colors) ==
  [shape : {shape}, data : names, color : {Underlayer} \cup colors, at : Places]
LabelShapes == TextShapes("route_name", Names, Colours)
PointShapes == [shape : {"point"}, color : {"white"}, at : Places]
TitleShapes == TextShapes("stop_name", Names, {"black"})

FromSource == base \in Documents /\ catalogue = Source

(* There are only so many buses and stops; a bus goes to stops that know   *)
(* of it.                                                                  *)
LEMMA ServedFacts ==
  ASSUME FromSource
  PROVE  /\ NonEmpty(catalogue) \subseteq Names /\ IsFiniteSet(NonEmpty(catalogue))
         /\ ServedStops(catalogue) \subseteq Names /\ IsFiniteSet(ServedStops(catalogue))
         /\ BusNames(catalogue) \subseteq Names /\ IsFiniteSet(BusNames(catalogue))
         /\ \A b \in NonEmpty(catalogue) :
              /\ catalogue.buses[b].route \in Seq(ServedStops(catalogue))
              /\ catalogue.buses[b].route # <<>>
              /\ catalogue.buses[b].is_chain \in BOOLEAN
<1>1. PICK cat : cat = catalogue
  OBVIOUS
<1>2. /\ CatalogueType(cat) /\ IndexConsistent(cat)
      /\ StopNames(cat) \subseteq Names /\ IsFiniteSet(StopNames(cat))
      /\ BusNames(cat) \subseteq Names /\ IsFiniteSet(BusNames(cat))
  BY <1>1, SourceFacts DEF FromSource
<1>3. NonEmpty(cat) \subseteq Names /\ IsFiniteSet(NonEmpty(cat))
  BY <1>2, FS_Subset DEF NonEmpty
<1>4. ServedStops(cat) \subseteq Names /\ IsFiniteSet(ServedStops(cat))
  BY <1>2, FS_Subset DEF ServedStops
<1>5. ASSUME NEW b \in NonEmpty(cat)
      PROVE  /\ cat.buses[b].route \in Seq(ServedStops(cat))
             /\ cat.buses[b].route # <<>> /\ cat.buses[b].is_chain \in BOOLEAN
  <2>1. b \in BusNames(cat) /\ cat.buses[b].route # <<>>
    BY DEF NonEmpty
  <2>2. cat.buses[b].route \in Seq(StopNames(cat)) /\ cat.buses[b].is_chain \in BOOLEAN
    BY <1>2, <2>1, BusFacts
  <2>3. PICK route : route = cat.buses[b].route
    OBVIOUS
  <2>4. ASSUME NEW k \in DOMAIN route PROVE route[k] \in ServedStops(cat)
    <3>1. route[k] \in StopNames(cat)
      BY <2>2, <2>3
    <3>2. b \in cat.stops[route[k]].buses
      BY <1>2, <2>1, <2>3, <3>1 DEF IndexConsistent
    <3> QED
      BY <3>1, <3>2 DEF ServedStops
  <2>5. route \in Seq(ServedStops(cat))
    <3>1. route \in [1 .. Len(route) -> ServedStops(cat)] /\ Len(route) \in Nat
      BY <2>2, <2>3, <2>4
    <3> QED
      BY <3>1
  <2> QED
    BY <2>1, <2>2, <2>3, <2>5
<1> QED
  BY <1>1, <1>2, <1>3, <1>4, <1>5

LEMMA OrdersFacts ==
  ASSUME FromSource
  PROVE  /\ Buses \in Nat /\ Stops \in Nat
         /\ IsRow(RouteOrder) /\ Len(RouteOrder) = Buses /\ ToSet(RouteOrder) = NonEmpty(catalogue)
         /\ \A k \in 1 .. Buses : RouteOrder[k] \in NonEmpty(catalogue)
         /\ IsRow(StopOrder) /\ Len(StopOrder) = Stops /\ ToSet(StopOrder) = ServedStops(catalogue)
         /\ \A k \in 1 .. Stops : StopOrder[k] \in ServedStops(catalogue)
<1>1. /\ NonEmpty(catalogue) \in SUBSET Names /\ IsFiniteSet(NonEmpty(catalogue))
      /\ ServedStops(catalogue) \in SUBSET Names /\ IsFiniteSet(ServedStops(catalogue))
  BY ServedFacts
<1>2. /\ Buses \in Nat /\ IsRow(RouteOrder) /\ Len(RouteOrder) = Buses
      /\ ToSet(RouteOrder) = NonEmpty(catalogue)
  BY <1>1, InOrderFacts DEF Buses, RouteOrder
<1>3. /\ Stops \in Nat /\ IsRow(StopOrder) /\ Len(StopOrder) = Stops
      /\ ToSet(StopOrder) = ServedStops(catalogue)
  BY <1>1, InOrderFacts DEF Stops, StopOrder
<1>4. \A k \in 1 .. Buses : RouteOrder[k] \in NonEmpty(catalogue)
  BY <1>2, RowFacts
<1>5. \A k \in 1 .. Stops : StopOrder[k] \in ServedStops(catalogue)
  BY <1>3, RowFacts
<1> QED
  BY <1>2, <1>3, <1>4, <1>5

LEMMA TextsFacts ==
  ASSUME NEW shape, NEW names, NEW colors, NEW name \in names, NEW color \in colors,
         NEW at \in Places
  PROVE  LET E == TextShapes(shape, names, colors)
         IN  /\ Texts(shape, name, color, at) \in Seq(E)
             /\ Len(Texts(shape, name, color, at)) = 2
<1> DEFINE E == TextShapes(shape, names, colors)
           under == [shape |-> shape, data |-> name, color |-> Underlayer, at |-> at]
           over  == [shape |-> shape, data |-> name, color |-> color, at |-> at]
<1>1. under \in E /\ over \in E
  BY DEF TextShapes
<1>2. Texts(shape, name, color, at) = <<under, over>>
  BY DEF Texts
<1> HIDE DEF E, under, over
<1>3. <<under, over>> \in Seq(E) /\ Len(<<under, over>>) = 2
  BY <1>1
<1> QED
  BY <1>2, <1>3 DEF E

LEMMA LineFacts ==
  ASSUME FromSource, NEW name \in NonEmpty(catalogue), NEW color \in Colours
  PROVE  LineShape(name, color) \in LineShapes
<1>1. PICK route, chain : route = catalogue.buses[name].route /\ chain = catalogue.buses[name].is_chain
  OBVIOUS
<1>2. route \in Seq(ServedStops(catalogue)) /\ route # <<>>
  BY <1>1, ServedFacts
<1>3. Reverse(route) \in Seq(ServedStops(catalogue))
  BY <1>2, ReverseFacts
<1>4. PICK stops : stops = PolylineStops(route, chain)
  OBVIOUS
<1>5. stops \in Seq(ServedStops(catalogue))
  <2>1. Tail(route) \in Seq(ServedStops(catalogue)) /\ <<>> \in Seq(ServedStops(catalogue))
    BY <1>2
  <2>2. PICK back : back = IF chain THEN Tail(route) ELSE <<>>
    OBVIOUS
  <2>3. back \in Seq(ServedStops(catalogue))
    BY <2>1, <2>2
  <2>4. stops = Reverse(route) \o back
    BY <1>4, <2>2 DEF PolylineStops
  <2> QED
    BY <1>3, <2>3, <2>4
<1>6. [k \in DOMAIN stops |-> Projected(PlaceOf(stops[k]))] \in Seq(Places)
  <2>1. \A k \in DOMAIN stops : Projected(PlaceOf(stops[k])) \in Places
    <3> TAKE k \in DOMAIN stops
    <3>1. stops[k] \in ServedStops(catalogue)
      BY <1>5
    <3> QED
      BY <3>1 DEF Places
  <2>2. DOMAIN stops = 1 .. Len(stops) /\ Len(stops) \in Nat
    BY <1>5
  <2>3. [k \in DOMAIN stops |-> Projected(PlaceOf(stops[k]))] \in [1 .. Len(stops) -> Places]
    BY <2>1, <2>2
  <2> QED
    BY <2>2, <2>3
<1>7. LineShape(name, color) =
        [shape |-> "line", color |-> color,
         points |-> [k \in DOMAIN stops |-> Projected(PlaceOf(stops[k]))]]
  BY <1>1, <1>4 DEF LineShape
<1> QED
  BY <1>6, <1>7 DEF LineShapes

LEMMA LineRows ==
  ASSUME FromSource
  PROVE  AreRows(Lines, Buses, LineShapes) /\ AreSingles(Lines, Buses)
<1> SUFFICES ASSUME NEW k \in 1 .. Buses
             PROVE  Lines[k] \in Seq(LineShapes) /\ Len(Lines[k]) = 1
  BY DEF AreRows, AreSingles
<1>1. PICK line : line = LineShape(RouteOrder[k], Chosen(k))
  OBVIOUS
<1>2. Buses \in Nat /\ RouteOrder[k] \in NonEmpty(catalogue)
  BY OrdersFacts
<1>3. Chosen(k) \in Colours
  BY <1>2 DEF Colours
<1>4. line \in LineShapes
  BY <1>1, <1>2, <1>3, LineFacts
<1>5. Lines[k] = <<line>>
  BY <1>1 DEF Lines
<1> QED
  BY <1>4, <1>5

LEMMA FlattenType ==
  ASSUME NEW E, NEW ss \in Seq(Seq(E))
  PROVE  FlattenSeq(ss) \in Seq(E)
<1>1. PICK f \in [0 .. Len(ss) -> Seq(E)] : f[Len(ss)] = FlattenSeq(ss)
  BY Flattened
<1>2. Len(ss) \in 0 .. Len(ss)
  OBVIOUS
<1> QED
  BY <1>1, <1>2

LEMMA NameShapesFacts ==
  ASSUME FromSource, NEW name \in NonEmpty(catalogue), NEW color
  PROVE  NameShapes(name, color) \in Seq(TextShapes("route_name", {name}, {color}))
<1> DEFINE E == TextShapes("route_name", {name}, {color})
<1>1. PICK route, chain : route = catalogue.buses[name].route /\ chain = catalogue.buses[name].is_chain
  OBVIOUS
<1>2. route \in Seq(ServedStops(catalogue)) /\ route # <<>>
  BY <1>1, ServedFacts
<1>3. PICK ends : ends = LabelledEnds(route, chain)
  OBVIOUS
<1>4. Len(route) \in DOMAIN route /\ 1 \in DOMAIN route
  BY <1>2
<1>5. ends \in Seq(DOMAIN route)
  <2> DEFINE D == DOMAIN route
  <2>1. PICK first, last : first = 1 /\ last = Len(route)
    OBVIOUS
  <2>2. first \in D /\ last \in D
    BY <1>4, <2>1
  <2> HIDE DEF D
  <2>3. <<last, first>> \in Seq(D) /\ <<last>> \in Seq(D)
    BY <2>2
  <2>4. ends = <<last, first>> \/ ends = <<last>>
    BY <1>3, <2>1 DEF LabelledEnds
  <2>5. ends \in Seq(D)
    BY <2>3, <2>4
  <2> QED
    BY <2>5 DEF D
<1> DEFINE ss == [k \in DOMAIN ends |-> Texts("route_name", name, color, Projected(PlaceOf(route[ends[k]])))]
<1>6. \A k \in DOMAIN ends : Texts("route_name", name, color, Projected(PlaceOf(route[ends[k]]))) \in Seq(E)
  <2> TAKE k \in DOMAIN ends
  <2>1. PICK at : at = Projected(PlaceOf(route[ends[k]]))
    OBVIOUS
  <2>2. ends[k] \in DOMAIN route
    BY <1>5
  <2>3. route[ends[k]] \in ServedStops(catalogue)
    BY <1>2, <2>2
  <2>4. at \in Places
    BY <2>1, <2>3 DEF Places
  <2>5. Texts("route_name", name, color, at) \in Seq(E)
    BY <2>4, TextsFacts
  <2> QED
    BY <2>1, <2>5
<1>7. ss \in Seq(Seq(E))
  <2>1. DOMAIN ends = 1 .. Len(ends) /\ Len(ends) \in Nat
    BY <1>5
  <2> HIDE DEF E
  <2>2. ss \in [1 .. Len(ends) -> Seq(E)]
    BY <1>6, <2>1
  <2> QED
    BY <2>1, <2>2
<1>8. NameShapes(name, color) = FlattenSeq(ss)
  BY <1>1, <1>3 DEF NameShapes
<1> HIDE DEF ss, E
<1>9. FlattenSeq(ss) \in Seq(E)
  BY <1>7, FlattenType
<1> QED
  BY <1>8, <1>9 DEF E

LEMMA LabelRows ==
  ASSUME FromSource
  PROVE  /\ AreRows(Labels, Buses, LabelShapes)
         /\ \A k \in 1 .. Buses :
              Labels[k] \in Seq(TextShapes("route_name", {RouteOrder[k]}, {Chosen(k)}))
<1> SUFFICES ASSUME NEW k \in 1 .. Buses
             PROVE  /\ Labels[k] \in Seq(LabelShapes)
                    /\ Labels[k] \in Seq(TextShapes("route_name", {RouteOrder[k]}, {Chosen(k)}))
  BY DEF AreRows
<1> DEFINE E == TextShapes("route_name", {RouteOrder[k]}, {Chosen(k)})
<1>1. Buses \in Nat /\ RouteOrder[k] \in NonEmpty(catalogue)
  BY OrdersFacts
<1>2. RouteOrder[k] \in Names /\ Chosen(k) \in Colours
  BY <1>1, ServedFacts DEF Colours
<1>3. Labels[k] \in Seq(E)
  BY <1>1, NameShapesFacts DEF Labels
<1>4. E \subseteq LabelShapes
  BY <1>2 DEF LabelShapes, TextShapes
<1> HIDE DEF E
<1>5. Labels[k] \in Seq(LabelShapes)
  BY <1>3, <1>4
<1> QED
  BY <1>3, <1>5 DEF E

LEMMA PointRows ==
  ASSUME FromSource
  PROVE  AreRows(Points, Stops, PointShapes) /\ AreSingles(Points, Stops)
<1> SUFFICES ASSUME NEW k \in 1 .. Stops
             PROVE  Points[k] \in Seq(PointShapes) /\ Len(Points[k]) = 1
  BY DEF AreRows, AreSingles
<1>1. PICK at : at = Projected(PlaceOf(StopOrder[k]))
  OBVIOUS
<1>2. at \in Places
  BY <1>1, OrdersFacts DEF Places
<1>3. PICK point : point = [shape |-> "point", color |-> "white", at |-> at]
  OBVIOUS
<1>4. point \in PointShapes
  BY <1>2, <1>3 DEF PointShapes
<1>5. Points[k] = <<point>>
  BY <1>1, <1>3 DEF Points, PointShape
<1> QED
  BY <1>4, <1>5

LEMMA TitleRows ==
  ASSUME FromSource
  PROVE  AreRows(Titles, Stops, TitleShapes)
<1> SUFFICES ASSUME NEW k \in 1 .. Stops PROVE Titles[k] \in Seq(TitleShapes)
  BY DEF AreRows
<1>1. PICK at : at = Projected(PlaceOf(StopOrder[k]))
  OBVIOUS
<1>2. at \in Places
  BY <1>1, OrdersFacts DEF Places
<1>3. StopOrder[k] \in Names /\ "black" \in {"black"}
  BY OrdersFacts, ServedFacts
<1>4. Texts("stop_name", StopOrder[k], "black", at) \in Seq(TitleShapes)
  BY <1>2, <1>3, TextsFacts DEF TitleShapes
<1>5. Titles[k] = Texts("stop_name", StopOrder[k], "black", at)
  BY <1>1 DEF Titles, StopTexts
<1> QED
  BY <1>4, <1>5

LEMMA UptoRows ==
  ASSUME FromSource
  PROVE  /\ \A n \in 0 .. Buses : /\ Upto(Lines, n) \in Seq(LineShapes)
                                  /\ Upto(Labels, n) \in Seq(LabelShapes)
         /\ \A n \in 0 .. Stops : /\ Upto(Points, n) \in Seq(PointShapes)
                                  /\ Upto(Titles, n) \in Seq(TitleShapes)
<1>1. Buses \in Nat /\ Stops \in Nat
  BY OrdersFacts
<1>2. AreRows(Lines, Buses, LineShapes) /\ AreRows(Labels, Buses, LabelShapes)
  BY LineRows, LabelRows
<1>3. AreRows(Points, Stops, PointShapes) /\ AreRows(Titles, Stops, TitleShapes)
  BY PointRows, TitleRows
<1>4. \A n \in 0 .. Buses : Upto(Lines, n) \in Seq(LineShapes)
  BY <1>1, <1>2, UptoFacts
<1>5. \A n \in 0 .. Buses : Upto(Labels, n) \in Seq(LabelShapes)
  BY <1>1, <1>2, UptoFacts
<1>6. \A n \in 0 .. Stops : Upto(Points, n) \in Seq(PointShapes)
  BY <1>1, <1>3, UptoFacts
<1>7. \A n \in 0 .. Stops : Upto(Titles, n) \in Seq(TitleShapes)
  BY <1>1, <1>3, UptoFacts
<1> QED
  BY <1>4, <1>5, <1>6, <1>7

-----------------------------------------------------------------------------
(* The invariant: the frame, how far the loops have come, that a colour    *)
(* was there for every bus so far, and the picture: the rows of the loops  *)
(* that are over, and of the one that runs as many as had their turn.      *)
Layers == {"frame", "routes", "route_names", "undefined", "stop_points", "stop_names",
           "render", "done"}

Done(due) == Cardinality(due \ ToSet(todo))

RouteRows == Upto(Lines, Buses) \o Upto(Labels, Buses)
StopRows  == Upto(Points, Stops) \o Upto(Titles, Stops)

Frame ==
  /\ FromSource /\ settings \in Settings /\ layer \in Layers
  /\ layer # "frame" =>
       proj = SphereProjector({PlaceOf(s) : s \in ServedStops(catalogue)}, settings)

Turns ==
  /\ layer \in {"routes", "route_names"} =>
       OrderedFrom(todo, BusNames(catalogue)) /\ color_count = Done(NonEmpty(catalogue))
  /\ layer \in {"stop_points", "stop_names"} => OrderedFrom(todo, ServedStops(catalogue))

PaletteUsed ==
  /\ layer = "routes" /\ color_count # 0 => HasColour
  /\ layer \in {"route_names", "stop_points", "stop_names", "render", "done"} =>
       NonEmpty(catalogue) = {} \/ HasColour
  /\ layer = "undefined" => NonEmpty(catalogue) # {} /\ ~ HasColour

Content ==
  /\ layer \in {"frame", "undefined"} => picture = <<>>
  /\ layer = "routes" => picture = Upto(Lines, color_count)
  /\ layer = "route_names" => picture = Upto(Lines, Buses) \o Upto(Labels, color_count)
  /\ layer = "stop_points" =>
       picture = RouteRows \o Upto(Points, Done(ServedStops(catalogue)))
  /\ layer = "stop_names" =>
       picture = RouteRows \o (Upto(Points, Stops) \o Upto(Titles, Done(ServedStops(catalogue))))
  /\ layer \in {"render", "done"} => picture = RouteRows \o StopRows
  /\ layer = "done" => render_ = picture

MInv == Frame /\ Turns /\ PaletteUsed /\ Content

(* The rows depend on what the drawing leaves alone.                       *)
Fixed == UNCHANGED <<base, catalogue, settings, proj>>

LEMMA RowsStay ==
  ASSUME Fixed
  PROVE  /\ Lines' = Lines /\ Labels' = Labels /\ Points' = Points /\ Titles' = Titles
         /\ Buses' = Buses /\ Stops' = Stops /\ FromSource' = FromSource
         /\ NonEmpty(catalogue)' = NonEmpty(catalogue)
         /\ ServedStops(catalogue)' = ServedStops(catalogue)
         /\ HasColour' = HasColour
<1> USE DEF Fixed
<1>1. Buses' = Buses /\ Stops' = Stops /\ RouteOrder' = RouteOrder /\ StopOrder' = StopOrder
  BY DEF Buses, Stops, RouteOrder, StopOrder
<1>2. \A c : Projected(c)' = Projected(c)
  BY DEF Projected
<1>3. \A s : PlaceOf(s)' = PlaceOf(s)
  BY DEF PlaceOf
<1>4. \A k : Chosen(k)' = Chosen(k)
  BY DEF Chosen
<1>5. Lines' = Lines
  BY <1>1, <1>4 DEF Lines, LineShape, Projected, PlaceOf
<1>6. Labels' = Labels
  BY <1>1, <1>4, ZenonT(30) DEF Labels, NameShapes, Projected, PlaceOf
<1>7. Points' = Points
  BY <1>1 DEF Points, PointShape, Projected, PlaceOf
<1>8. Titles' = Titles
  BY <1>1 DEF Titles, StopTexts, Projected, PlaceOf
<1>9. FromSource' = FromSource /\ HasColour' = HasColour
  BY DEF FromSource, Source, HasColour
<1> QED
  BY <1>1, <1>5, <1>6, <1>7, <1>8, <1>9

LEMMA MInvInit == Init => MInv
<1> SUFFICES ASSUME Init PROVE MInv
  OBVIOUS
<1>1. Frame
  BY DEF Init, Frame, FromSource, Source, Layers
<1>2. Turns /\ PaletteUsed /\ Content
  BY DEF Init, Turns, PaletteUsed, Content
<1> QED
  BY <1>1, <1>2 DEF MInv

(* What a turn of a loop over the buses is about.                          *)
LEMMA BusTurn ==
  ASSUME MInv, layer \in {"routes", "route_names"}
  PROVE  /\ color_count \in 0 .. Buses /\ Buses \in Nat
         /\ todo # <<>> =>
              /\ OrderedFrom(Tail(todo), BusNames(catalogue))
              /\ bus.route = <<>> =>
                   Cardinality(NonEmpty(catalogue) \ ToSet(Tail(todo))) = color_count
              /\ bus.route # <<>> =>
                   /\ Head(todo) \in NonEmpty(catalogue)
                   /\ color_count + 1 \in 1 .. Buses /\ RouteOrder[color_count + 1] = Head(todo)
                   /\ Cardinality(NonEmpty(catalogue) \ ToSet(Tail(todo))) = color_count + 1
         /\ todo = <<>> => color_count = Buses
<1>1. PICK names, due, rest : names = BusNames(catalogue) /\ due = NonEmpty(catalogue) /\ rest = todo
  OBVIOUS
<1>2. FromSource /\ OrderedFrom(rest, names) /\ color_count = Cardinality(due \ ToSet(rest))
  BY <1>1 DEF MInv, Frame, Turns, Done
<1>3. /\ names \in SUBSET Names /\ IsFiniteSet(names)
      /\ due \in SUBSET names /\ IsFiniteSet(due)
  BY <1>1, <1>2, ServedFacts DEF NonEmpty
<1>4. Buses = Cardinality(due) /\ Buses \in Nat
  BY <1>1, <1>2, OrdersFacts DEF Buses
<1>5. color_count \in 0 .. Buses
  <2>1. due \ ToSet(rest) \in SUBSET due
    OBVIOUS
  <2>2. IsFiniteSet(due \ ToSet(rest)) /\ Cardinality(due \ ToSet(rest)) <= Cardinality(due)
    BY <1>3, <2>1, FS_Subset
  <2>3. Cardinality(due \ ToSet(rest)) \in Nat
    BY <2>2, FS_CardinalityType
  <2> QED
    BY <1>2, <1>4, <2>2, <2>3
<1>6. ASSUME rest = <<>> PROVE color_count = Buses
  <2>1. due \ ToSet(<<>>) = due
    BY <1>3, DueAtTheEnds
  <2> QED
    BY <1>2, <1>4, <1>6, <2>1
<1>7. ASSUME rest # <<>>
      PROVE  OrderedFrom(Tail(rest), names) /\ Head(rest) \in names
  BY <1>2, <1>3, <1>7, OrderNext
<1>8. ASSUME rest # <<>>, Head(rest) \notin due
      PROVE  Cardinality(due \ ToSet(Tail(rest))) = color_count
  BY <1>2, <1>3, <1>8, NotDueNext
<1>9. ASSUME rest # <<>>, Head(rest) \in due
      PROVE  /\ color_count + 1 \in 1 .. Buses /\ InOrder(due)[color_count + 1] = Head(rest)
             /\ Cardinality(due \ ToSet(Tail(rest))) = color_count + 1
  BY <1>2, <1>3, <1>4, <1>9, DueNext
<1>10. Head(rest) \in names => (bus.route # <<>> <=> Head(rest) \in due)
  BY <1>1 DEF bus, NonEmpty
<1>11. RouteOrder = InOrder(due)
  BY <1>1 DEF RouteOrder
<1> QED
  BY <1>1, <1>4, <1>5, <1>6, <1>7, <1>8, <1>9, <1>10, <1>11

(* What a turn of a loop over the stops is about.                          *)
LEMMA StopTurn ==
  ASSUME MInv, layer \in {"stop_points", "stop_names"}
  PROVE  LET n == Done(ServedStops(catalogue))
         IN  /\ n \in 0 .. Stops /\ Stops \in Nat
             /\ todo # <<>> =>
                  /\ OrderedFrom(Tail(todo), ServedStops(catalogue))
                  /\ n + 1 \in 1 .. Stops /\ StopOrder[n + 1] = Head(todo)
                  /\ Cardinality(ServedStops(catalogue) \ ToSet(Tail(todo))) = n + 1
             /\ todo = <<>> => n = Stops
<1>1. PICK due, rest, n : /\ due = ServedStops(catalogue) /\ rest = todo
                          /\ n = Done(ServedStops(catalogue))
  OBVIOUS
<1>2. FromSource /\ OrderedFrom(rest, due) /\ n = Cardinality(due \ ToSet(rest))
  BY <1>1 DEF MInv, Frame, Turns, Done
<1>3. due \in SUBSET Names /\ IsFiniteSet(due) /\ due \in SUBSET due
  BY <1>1, <1>2, ServedFacts
<1>4. Stops = Cardinality(due) /\ Stops \in Nat
  BY <1>1, <1>2, OrdersFacts DEF Stops
<1>5. n \in 0 .. Stops
  <2>1. due \ ToSet(rest) \in SUBSET due
    OBVIOUS
  <2>2. IsFiniteSet(due \ ToSet(rest)) /\ Cardinality(due \ ToSet(rest)) <= Cardinality(due)
    BY <1>3, <2>1, FS_Subset
  <2>3. Cardinality(due \ ToSet(rest)) \in Nat
    BY <2>2, FS_CardinalityType
  <2> QED
    BY <1>2, <1>4, <2>2, <2>3
<1>6. ASSUME rest = <<>> PROVE n = Stops
  <2>1. due \ ToSet(<<>>) = due
    BY <1>3, DueAtTheEnds
  <2> QED
    BY <1>2, <1>4, <1>6, <2>1
<1>7. ASSUME rest # <<>>
      PROVE  OrderedFrom(Tail(rest), due) /\ Head(rest) \in due
  BY <1>2, <1>3, <1>7, OrderNext
<1>8. ASSUME rest # <<>>
      PROVE  /\ n + 1 \in 1 .. Stops /\ InOrder(due)[n + 1] = Head(rest)
             /\ Cardinality(due \ ToSet(Tail(rest))) = n + 1
  BY <1>2, <1>3, <1>4, <1>7, <1>8, DueNext
<1>9. StopOrder = InOrder(due)
  BY <1>1 DEF StopOrder
<1> QED
  BY <1>1, <1>4, <1>5, <1>6, <1>7, <1>8, <1>9

(* Rows put after others.                                                  *)
LEMMA JoinedType ==
  ASSUME NEW s, NEW t, NEW A, NEW B, s \in Seq(A), t \in Seq(B)
  PROVE  s \o t \in Seq(A \cup B) /\ IsRow(s) /\ IsRow(t)
<1>1. s \in Seq(A \cup B) /\ t \in Seq(A \cup B)
  OBVIOUS
<1>2. s \o t \in Seq(A \cup B)
  BY <1>1
<1> QED
  BY <1>2, Rows

LEMMA NothingAdded ==
  ASSUME NEW s, IsRow(s)
  PROVE  s \o <<>> = s
BY DEF IsRow

(* Every row of the picture, and so the picture.                           *)
LEMMA PictureRows ==
  ASSUME MInv
  PROVE  /\ IsRow(Upto(Lines, Buses)) /\ IsRow(RouteRows) /\ IsRow(Upto(Points, Stops))
         /\ \A n \in 0 .. Buses : IsRow(Upto(Lines, n)) /\ IsRow(Upto(Labels, n))
         /\ \A n \in 0 .. Stops : IsRow(Upto(Points, n)) /\ IsRow(Upto(Titles, n))
         /\ \A k \in 1 .. Buses : IsRow(Lines[k]) /\ IsRow(Labels[k])
         /\ \A k \in 1 .. Stops : IsRow(Points[k]) /\ IsRow(Titles[k])
<1>1. FromSource
  BY DEF MInv, Frame
<1>2. /\ \A n \in 0 .. Buses : /\ Upto(Lines, n) \in Seq(LineShapes)
                               /\ Upto(Labels, n) \in Seq(LabelShapes)
      /\ \A n \in 0 .. Stops : /\ Upto(Points, n) \in Seq(PointShapes)
                               /\ Upto(Titles, n) \in Seq(TitleShapes)
  BY <1>1, UptoRows
<1>3. /\ \A n \in 0 .. Buses : IsRow(Upto(Lines, n)) /\ IsRow(Upto(Labels, n))
      /\ \A n \in 0 .. Stops : IsRow(Upto(Points, n)) /\ IsRow(Upto(Titles, n))
  BY <1>2, Rows
<1>4. Buses \in 0 .. Buses /\ Stops \in 0 .. Stops
  BY <1>1, OrdersFacts
<1>5. IsRow(RouteRows)
  BY <1>3, <1>4, RowsJoined DEF RouteRows
<1>6. AreRows(Lines, Buses, LineShapes) /\ AreRows(Labels, Buses, LabelShapes)
      /\ AreRows(Points, Stops, PointShapes) /\ AreRows(Titles, Stops, TitleShapes)
  BY <1>1, LineRows, LabelRows, PointRows, TitleRows
<1>7. /\ \A k \in 1 .. Buses : IsRow(Lines[k]) /\ IsRow(Labels[k])
      /\ \A k \in 1 .. Stops : IsRow(Points[k]) /\ IsRow(Titles[k])
  BY <1>6, Rows DEF AreRows
<1> QED
  BY <1>3, <1>4, <1>5, <1>7

(* The rows, one more.                                                     *)
LEMMA NextRow ==
  ASSUME MInv
  PROVE  /\ \A n \in 0 .. Buses : n + 1 \in 1 .. Buses =>
              /\ Upto(Lines, n + 1) = Upto(Lines, n) \o Lines[n + 1]
              /\ Upto(Labels, n + 1) = Upto(Labels, n) \o Labels[n + 1]
         /\ \A n \in 0 .. Stops : n + 1 \in 1 .. Stops =>
              /\ Upto(Points, n + 1) = Upto(Points, n) \o Points[n + 1]
              /\ Upto(Titles, n + 1) = Upto(Titles, n) \o Titles[n + 1]
<1>1. FromSource
  BY DEF MInv, Frame
<1>2. AreRows(Lines, Buses, LineShapes) /\ AreRows(Labels, Buses, LabelShapes)
      /\ AreRows(Points, Stops, PointShapes) /\ AreRows(Titles, Stops, TitleShapes)
  BY <1>1, LineRows, LabelRows, PointRows, TitleRows
<1>3. Buses \in Nat /\ Stops \in Nat
  BY <1>1, OrdersFacts
<1>4. \A n \in 0 .. Buses - 1 : Upto(Lines, n + 1) = Upto(Lines, n) \o Lines[n + 1]
  BY <1>2, <1>3, UptoFacts
<1>5. \A n \in 0 .. Buses - 1 : Upto(Labels, n + 1) = Upto(Labels, n) \o Labels[n + 1]
  BY <1>2, <1>3, UptoFacts
<1>6. \A n \in 0 .. Stops - 1 : Upto(Points, n + 1) = Upto(Points, n) \o Points[n + 1]
  BY <1>2, <1>3, UptoFacts
<1>7. \A n \in 0 .. Stops - 1 : Upto(Titles, n + 1) = Upto(Titles, n) \o Titles[n + 1]
  BY <1>2, <1>3, UptoFacts
<1>8. /\ \A n \in 0 .. Buses : n + 1 \in 1 .. Buses => n \in 0 .. Buses - 1
      /\ \A n \in 0 .. Stops : n + 1 \in 1 .. Stops => n \in 0 .. Stops - 1
  BY <1>3
<1> QED
  BY <1>4, <1>5, <1>6, <1>7, <1>8

LEMMA MInvSkipRoute ==
  ASSUME MInv, SkipRoute
  PROVE  MInv'
<1>1. /\ layer \in {"routes", "route_names"} /\ todo # <<>> /\ bus.route = <<>>
      /\ picture' = picture \o <<>> /\ color_count' = color_count + 0 /\ todo' = Tail(todo)
      /\ Fixed /\ settings' = settings /\ layer' = layer /\ render_' = render_
  BY DEF SkipRoute, RouteIsEmpty, Turn, Fixed, input_vars
<1>2. /\ color_count \in 0 .. Buses /\ Buses \in Nat
      /\ OrderedFrom(Tail(todo), BusNames(catalogue))
      /\ Cardinality(NonEmpty(catalogue) \ ToSet(Tail(todo))) = color_count
  BY <1>1, BusTurn
<1>3. color_count' = color_count
  BY <1>1, <1>2
<1>4. picture' = picture
  <2>1. IsRow(Upto(Lines, color_count)) /\ IsRow(Upto(Labels, color_count)) /\ IsRow(Upto(Lines, Buses))
    BY <1>2, PictureRows
  <2>2. \/ picture = Upto(Lines, color_count)
        \/ picture = Upto(Lines, Buses) \o Upto(Labels, color_count)
    BY <1>1 DEF MInv, Content
  <2>3. IsRow(Upto(Lines, Buses) \o Upto(Labels, color_count))
    BY <2>1, RowsJoined
  <2>4. IsRow(picture)
    BY <2>1, <2>2, <2>3
  <2> QED
    BY <1>1, <2>4, NothingAdded
<1>5. /\ Lines' = Lines /\ Labels' = Labels /\ Buses' = Buses /\ FromSource' = FromSource
      /\ NonEmpty(catalogue)' = NonEmpty(catalogue) /\ HasColour' = HasColour
  BY <1>1, RowsStay
<1>6. Frame'
  BY <1>1, <1>5 DEF MInv, Frame, Fixed, PlaceOf
<1>7. Turns'
  BY <1>1, <1>2, <1>3, <1>5 DEF Turns, Done, Fixed
<1>8. PaletteUsed'
  BY <1>1, <1>3, <1>5 DEF MInv, PaletteUsed
<1>9. Content'
  BY <1>1, <1>3, <1>4, <1>5 DEF MInv, Content
<1> QED
  BY <1>6, <1>7, <1>8, <1>9 DEF MInv

(* The colour of a turn is the one that is chosen for its bus.             *)
LEMMA ColourOfTurn ==
  ASSUME color_count \in Nat
  PROVE  Colour = Chosen(color_count + 1)
<1>1. (color_count + 1) - 1 = color_count
  OBVIOUS
<1> QED
  BY <1>1 DEF Colour, Chosen

LEMMA MInvDrawRoute ==
  ASSUME MInv, DrawRoute
  PROVE  MInv'
<1>1. PICK shapes : /\ picture' = picture \o shapes
                    /\ shapes = <<LineShape(Head(todo), Colour)>>
  BY DEF DrawRoute, Turn, LineShape, bus
<1>2. /\ layer = "routes" /\ todo # <<>> /\ bus.route # <<>> /\ HasColour
      /\ color_count' = color_count + 1 /\ todo' = Tail(todo)
      /\ Fixed /\ settings' = settings /\ layer' = layer /\ render_' = render_
  BY DEF DrawRoute, In, Turn, Fixed, input_vars
<1>3. /\ color_count \in 0 .. Buses /\ Buses \in Nat
      /\ OrderedFrom(Tail(todo), BusNames(catalogue))
      /\ color_count + 1 \in 1 .. Buses /\ RouteOrder[color_count + 1] = Head(todo)
      /\ Cardinality(NonEmpty(catalogue) \ ToSet(Tail(todo))) = color_count + 1
  BY <1>2, BusTurn
<1>4. shapes = Lines[color_count + 1]
  <2>1. Colour = Chosen(color_count + 1)
    BY <1>3, ColourOfTurn
  <2> QED
    BY <1>1, <1>3, <2>1 DEF Lines
<1>5. picture' = Upto(Lines, color_count + 1)
  <2>1. picture = Upto(Lines, color_count)
    BY <1>2 DEF MInv, Content
  <2> QED
    BY <1>1, <1>3, <1>4, <2>1, NextRow
<1>6. /\ Lines' = Lines /\ Buses' = Buses /\ FromSource' = FromSource
      /\ NonEmpty(catalogue)' = NonEmpty(catalogue) /\ HasColour' = HasColour
  BY <1>2, RowsStay
<1>7. Frame'
  BY <1>2, <1>6 DEF MInv, Frame, Fixed, PlaceOf
<1>8. Turns'
  BY <1>2, <1>3, <1>6 DEF Turns, Done, Fixed
<1>9. PaletteUsed'
  BY <1>2, <1>6 DEF PaletteUsed
<1>10. Content'
  BY <1>2, <1>5, <1>6 DEF Content
<1> QED
  BY <1>7, <1>8, <1>9, <1>10 DEF MInv

LEMMA MInvDrawRouteName ==
  ASSUME MInv, DrawRouteName
  PROVE  MInv'
<1>1. PICK shapes : /\ picture' = picture \o shapes
                    /\ shapes = NameShapes(Head(todo), Colour)
  BY DEF DrawRouteName, Turn, NameShapes, bus
<1>2. /\ layer = "route_names" /\ todo # <<>> /\ bus.route # <<>> /\ HasColour
      /\ color_count' = color_count + 1 /\ todo' = Tail(todo)
      /\ Fixed /\ settings' = settings /\ layer' = layer /\ render_' = render_
  BY DEF DrawRouteName, In, Turn, Fixed, input_vars
<1>3. /\ color_count \in 0 .. Buses /\ Buses \in Nat
      /\ OrderedFrom(Tail(todo), BusNames(catalogue))
      /\ color_count + 1 \in 1 .. Buses /\ RouteOrder[color_count + 1] = Head(todo)
      /\ Cardinality(NonEmpty(catalogue) \ ToSet(Tail(todo))) = color_count + 1
  BY <1>2, BusTurn
<1>4. shapes = Labels[color_count + 1]
  <2>1. Colour = Chosen(color_count + 1)
    BY <1>3, ColourOfTurn
  <2> QED
    BY <1>1, <1>3, <2>1 DEF Labels
<1>5. picture' = Upto(Lines, Buses) \o Upto(Labels, color_count + 1)
  <2>1. picture = Upto(Lines, Buses) \o Upto(Labels, color_count)
    BY <1>2 DEF MInv, Content
  <2>2. PICK a, b, c : a = Upto(Lines, Buses) /\ b = Upto(Labels, color_count) /\ c = shapes
    OBVIOUS
  <2>3. IsRow(a) /\ IsRow(b) /\ IsRow(c)
    BY <1>3, <1>4, <2>2, PictureRows
  <2>4. (a \o b) \o c = a \o (b \o c)
    BY <2>3, RowsAssociate, SMTT(30)
  <2>5. Upto(Labels, color_count + 1) = b \o c
    BY <1>3, <1>4, <2>2, NextRow
  <2> QED
    BY <1>1, <2>1, <2>2, <2>4, <2>5
<1>6. /\ Lines' = Lines /\ Labels' = Labels /\ Buses' = Buses /\ FromSource' = FromSource
      /\ NonEmpty(catalogue)' = NonEmpty(catalogue) /\ HasColour' = HasColour
  BY <1>2, RowsStay
<1>7. Frame'
  BY <1>2, <1>6 DEF MInv, Frame, Fixed, PlaceOf
<1>8. Turns'
  BY <1>2, <1>3, <1>6 DEF Turns, Done, Fixed
<1>9. PaletteUsed'
  BY <1>2, <1>6 DEF PaletteUsed
<1>10. Content'
  BY <1>2, <1>5, <1>6 DEF Content
<1> QED
  BY <1>7, <1>8, <1>9, <1>10 DEF MInv

LEMMA MInvNoColour ==
  ASSUME MInv, NoColour
  PROVE  MInv'
<1>1. /\ layer \in {"routes", "route_names"} /\ todo # <<>> /\ bus.route # <<>> /\ ~ HasColour
      /\ Fixed /\ settings' = settings /\ layer' = "undefined" /\ picture' = picture
  BY DEF NoColour, Fixed, input_vars
<1>2. Head(todo) \in NonEmpty(catalogue)
  BY <1>1, BusTurn
<1>3. layer = "routes"
  BY <1>1, <1>2 DEF MInv, PaletteUsed
<1>4. color_count = 0
  BY <1>1, <1>3 DEF MInv, PaletteUsed
<1>5. picture = <<>>
  BY <1>3, <1>4, UptoNone DEF MInv, Content
<1>6. /\ FromSource' = FromSource /\ NonEmpty(catalogue)' = NonEmpty(catalogue)
      /\ HasColour' = HasColour
  BY <1>1, RowsStay
<1>7. Frame'
  BY <1>1, <1>3, <1>6 DEF MInv, Frame, Fixed, PlaceOf, Layers
<1>8. Turns' /\ Content'
  BY <1>1, <1>5 DEF Turns, Content
<1>9. PaletteUsed'
  BY <1>1, <1>2, <1>6 DEF PaletteUsed
<1> QED
  BY <1>7, <1>8, <1>9 DEF MInv

LEMMA MInvDrawStopPoint ==
  ASSUME MInv, DrawStopPoint
  PROVE  MInv'
<1>1. PICK shapes : /\ picture' = picture \o shapes
                    /\ shapes = <<PointShape(Head(todo))>>
  BY DEF DrawStopPoint, Turn, PointShape
<1>2. /\ layer = "stop_points" /\ todo # <<>> /\ todo' = Tail(todo)
      /\ Fixed /\ settings' = settings /\ layer' = layer /\ render_' = render_
  BY DEF DrawStopPoint, In, Turn, Fixed, input_vars
<1>3. PICK n : n = Done(ServedStops(catalogue))
  OBVIOUS
<1>4. /\ n \in 0 .. Stops /\ Stops \in Nat
      /\ OrderedFrom(Tail(todo), ServedStops(catalogue))
      /\ n + 1 \in 1 .. Stops /\ StopOrder[n + 1] = Head(todo)
      /\ Cardinality(ServedStops(catalogue) \ ToSet(Tail(todo))) = n + 1
  BY <1>2, <1>3, StopTurn
<1>5. shapes = Points[n + 1]
  BY <1>1, <1>4 DEF Points
<1>6. picture' = RouteRows \o Upto(Points, n + 1)
  <2>1. picture = RouteRows \o Upto(Points, n)
    BY <1>2, <1>3 DEF MInv, Content
  <2>2. PICK a, b, c : a = RouteRows /\ b = Upto(Points, n) /\ c = shapes
    OBVIOUS
  <2>3. IsRow(a) /\ IsRow(b) /\ IsRow(c)
    BY <1>4, <1>5, <2>2, PictureRows
  <2>4. (a \o b) \o c = a \o (b \o c)
    BY <2>3, RowsAssociate, SMTT(30)
  <2>5. Upto(Points, n + 1) = b \o c
    BY <1>4, <1>5, <2>2, NextRow
  <2> QED
    BY <1>1, <2>1, <2>2, <2>4, <2>5
<1>7. /\ Lines' = Lines /\ Labels' = Labels /\ Buses' = Buses /\ FromSource' = FromSource
      /\ Points' = Points /\ ServedStops(catalogue)' = ServedStops(catalogue)
      /\ NonEmpty(catalogue)' = NonEmpty(catalogue) /\ HasColour' = HasColour
  BY <1>2, RowsStay
<1>8. Frame'
  BY <1>2, <1>7 DEF MInv, Frame, Fixed, PlaceOf
<1>9. Turns'
  BY <1>2, <1>4, <1>7 DEF Turns, Fixed
<1>10. PaletteUsed'
  BY <1>2, <1>7 DEF MInv, PaletteUsed
<1>11. Content'
  <2>1. RouteRows' = RouteRows
    BY <1>7 DEF RouteRows
  <2>2. Done(ServedStops(catalogue))' = n + 1
    BY <1>2, <1>4, <1>7 DEF Done
  <2> QED
    BY <1>2, <1>6, <1>7, <2>1, <2>2 DEF Content
<1> QED
  BY <1>8, <1>9, <1>10, <1>11 DEF MInv

LEMMA MInvDrawStopName ==
  ASSUME MInv, DrawStopName
  PROVE  MInv'
<1>1. PICK shapes : /\ picture' = picture \o shapes
                    /\ shapes = StopTexts(Head(todo))
  BY DEF DrawStopName, Turn, StopTexts
<1>2. /\ layer = "stop_names" /\ todo # <<>> /\ todo' = Tail(todo)
      /\ Fixed /\ settings' = settings /\ layer' = layer /\ render_' = render_
  BY DEF DrawStopName, In, Turn, Fixed, input_vars
<1>3. PICK n : n = Done(ServedStops(catalogue))
  OBVIOUS
<1>4. /\ n \in 0 .. Stops /\ Stops \in Nat
      /\ OrderedFrom(Tail(todo), ServedStops(catalogue))
      /\ n + 1 \in 1 .. Stops /\ StopOrder[n + 1] = Head(todo)
      /\ Cardinality(ServedStops(catalogue) \ ToSet(Tail(todo))) = n + 1
  BY <1>2, <1>3, StopTurn
<1>5. shapes = Titles[n + 1]
  BY <1>1, <1>4 DEF Titles
<1>6. picture' = RouteRows \o (Upto(Points, Stops) \o Upto(Titles, n + 1))
  <2>1. picture = RouteRows \o (Upto(Points, Stops) \o Upto(Titles, n))
    BY <1>2, <1>3 DEF MInv, Content
  <2>2. PICK a, b, c, d : /\ a = RouteRows /\ b = Upto(Points, Stops)
                          /\ c = Upto(Titles, n) /\ d = shapes
    OBVIOUS
  <2>3. IsRow(a) /\ IsRow(b) /\ IsRow(c) /\ IsRow(d)
    BY <1>4, <1>5, <2>2, PictureRows
  <2>4. IsRow(b \o c)
    BY <2>3, RowsJoined
  <2>5. \A e : IsRow(e) => (a \o e) \o d = a \o (e \o d)
    BY <2>3, RowsAssociate, SMTT(30)
  <2>6. (a \o (b \o c)) \o d = a \o ((b \o c) \o d)
    BY <2>4, <2>5
  <2>7. (b \o c) \o d = b \o (c \o d)
    BY <2>3, RowsAssociate, SMTT(30)
  <2>8. Upto(Titles, n + 1) = c \o d
    BY <1>4, <1>5, <2>2, NextRow
  <2> QED
    BY <1>1, <2>1, <2>2, <2>6, <2>7, <2>8
<1>7. /\ Lines' = Lines /\ Labels' = Labels /\ Buses' = Buses /\ FromSource' = FromSource
      /\ Points' = Points /\ Titles' = Titles /\ Stops' = Stops
      /\ ServedStops(catalogue)' = ServedStops(catalogue)
      /\ NonEmpty(catalogue)' = NonEmpty(catalogue) /\ HasColour' = HasColour
  BY <1>2, RowsStay
<1>8. Frame'
  BY <1>2, <1>7 DEF MInv, Frame, Fixed, PlaceOf
<1>9. Turns'
  BY <1>2, <1>4, <1>7 DEF Turns, Fixed
<1>10. PaletteUsed'
  BY <1>2, <1>7 DEF MInv, PaletteUsed
<1>11. Content'
  <2>1. RouteRows' = RouteRows
    BY <1>7 DEF RouteRows
  <2>2. Done(ServedStops(catalogue))' = n + 1
    BY <1>2, <1>4, <1>7 DEF Done
  <2> QED
    BY <1>2, <1>6, <1>7, <2>1, <2>2 DEF Content
<1> QED
  BY <1>8, <1>9, <1>10, <1>11 DEF MInv

LEMMA MInvFindScale ==
  ASSUME MInv, FindScale
  PROVE  MInv'
<1>1. /\ layer = "frame" /\ layer' = "routes" /\ todo' = InOrder(BusNames(catalogue))
      /\ color_count' = 0 /\ picture' = picture
      /\ base' = base /\ catalogue' = catalogue /\ settings' = settings
      /\ proj' = SphereProjector({PlaceOf(s) : s \in ServedStops(catalogue)}, settings)
  BY DEF FindScale, Begin, input_vars
<1>2. FromSource /\ settings \in Settings /\ picture = <<>>
  BY <1>1 DEF MInv, Frame, Content
<1>3. FromSource'
  BY <1>1, <1>2 DEF FromSource, Source
<1>4. Frame'
  BY <1>1, <1>2, <1>3 DEF Frame, Layers, PlaceOf
<1>5. Turns'
  <2>1. /\ BusNames(catalogue) \in SUBSET Names /\ IsFiniteSet(BusNames(catalogue))
        /\ NonEmpty(catalogue) \in SUBSET BusNames(catalogue)
    BY <1>2, ServedFacts DEF NonEmpty
  <2>2. OrderedFrom(InOrder(BusNames(catalogue)), BusNames(catalogue))
    BY <2>1, OrderBegins
  <2>3. Cardinality(NonEmpty(catalogue) \ ToSet(InOrder(BusNames(catalogue)))) = 0
    BY <2>1, DueAtTheEnds
  <2>4. Done(NonEmpty(catalogue))' = 0
    BY <1>1, <2>3 DEF Done
  <2> QED
    BY <1>1, <2>2, <2>4 DEF Turns
<1>6. PaletteUsed'
  BY <1>1 DEF PaletteUsed
<1>7. Content'
  <2>1. PICK rows : rows = Lines'
    OBVIOUS
  <2>2. Upto(rows, 0) = <<>>
    BY UptoNone
  <2> QED
    BY <1>1, <1>2, <2>1, <2>2 DEF Content
<1> QED
  BY <1>4, <1>5, <1>6, <1>7 DEF MInv

LEMMA MInvNextLayer ==
  ASSUME MInv, NextLayer
  PROVE  MInv'
<1>1. /\ todo = <<>> /\ picture' = picture /\ Fixed /\ settings' = settings
      /\ color_count' = 0 /\ FromSource
  BY DEF NextLayer, Begin, Fixed, input_vars, MInv, Frame
<1>2. /\ Lines' = Lines /\ Labels' = Labels /\ Buses' = Buses /\ FromSource' = FromSource
      /\ Points' = Points /\ Titles' = Titles /\ Stops' = Stops
      /\ ServedStops(catalogue)' = ServedStops(catalogue)
      /\ NonEmpty(catalogue)' = NonEmpty(catalogue) /\ HasColour' = HasColour
  BY <1>1, RowsStay
<1>3. RouteRows' = RouteRows /\ StopRows' = StopRows
  BY <1>2 DEF RouteRows, StopRows
<1>4. /\ BusNames(catalogue) \in SUBSET Names /\ IsFiniteSet(BusNames(catalogue))
      /\ NonEmpty(catalogue) \in SUBSET BusNames(catalogue) /\ IsFiniteSet(NonEmpty(catalogue))
      /\ ServedStops(catalogue) \in SUBSET Names /\ IsFiniteSet(ServedStops(catalogue))
      /\ ServedStops(catalogue) \in SUBSET ServedStops(catalogue)
      /\ catalogue' = catalogue
  BY <1>1, ServedFacts DEF NonEmpty, Fixed
<1>5. /\ OrderedFrom(InOrder(BusNames(catalogue)), BusNames(catalogue))
      /\ OrderedFrom(InOrder(ServedStops(catalogue)), ServedStops(catalogue))
  BY <1>4, OrderBegins
<1>6. /\ Cardinality(NonEmpty(catalogue) \ ToSet(InOrder(BusNames(catalogue)))) = 0
      /\ Cardinality(ServedStops(catalogue) \ ToSet(InOrder(ServedStops(catalogue)))) = 0
  BY <1>4, DueAtTheEnds
<1>7. /\ Upto(Labels, 0) = <<>> /\ Upto(Points, 0) = <<>> /\ Upto(Titles, 0) = <<>>
      /\ IsRow(Upto(Lines, Buses)) /\ IsRow(RouteRows) /\ IsRow(Upto(Points, Stops))
  BY UptoNone, PictureRows
<1>8. layer' \in Layers /\ layer \notin {"frame", "undefined"} /\ layer' # "frame"
  BY DEF NextLayer, Begin, Layers
<1>9. Frame'
  BY <1>1, <1>2, <1>8 DEF MInv, Frame, Fixed, PlaceOf
<1>10. CASE layer = "routes"
  <2>1. layer' = "route_names" /\ todo' = InOrder(BusNames(catalogue))
    BY <1>10 DEF NextLayer, Begin
  <2>2. color_count = Buses /\ picture = Upto(Lines, Buses)
    BY <1>1, <1>10, BusTurn DEF MInv, Content
  <2>3. Turns'
    BY <1>1, <1>2, <1>4, <1>5, <1>6, <2>1 DEF Turns, Done
  <2>4. PaletteUsed'
    <3>1. NonEmpty(catalogue) # {} => Buses # 0
      BY <1>4, FS_EmptySet DEF Buses
    <3> QED
      BY <1>2, <1>10, <2>1, <2>2, <3>1 DEF MInv, PaletteUsed
  <2>5. picture = Upto(Lines, Buses) \o Upto(Labels, 0)
    BY <1>7, <2>2, NothingAdded
  <2>6. Content'
    BY <1>1, <1>2, <2>1, <2>5 DEF Content
  <2> QED
    BY <1>9, <2>3, <2>4, <2>6 DEF MInv
<1>11. CASE layer = "route_names"
  <2>1. layer' = "stop_points" /\ todo' = InOrder(ServedStops(catalogue))
    BY <1>11 DEF NextLayer, Begin
  <2>2. color_count = Buses /\ picture = RouteRows
    BY <1>1, <1>11, BusTurn DEF MInv, Content, RouteRows
  <2>3. Turns'
    BY <1>2, <1>5, <2>1 DEF Turns
  <2>4. PaletteUsed'
    BY <1>2, <1>11, <2>1 DEF MInv, PaletteUsed
  <2>5. picture = RouteRows \o Upto(Points, 0)
    BY <1>7, <2>2, NothingAdded
  <2>6. Done(ServedStops(catalogue))' = 0
    BY <1>2, <1>6, <2>1 DEF Done
  <2>7. Content'
    BY <1>1, <1>2, <1>3, <2>1, <2>5, <2>6 DEF Content
  <2> QED
    BY <1>9, <2>3, <2>4, <2>7 DEF MInv
<1>12. CASE layer = "stop_points"
  <2>1. layer' = "stop_names" /\ todo' = InOrder(ServedStops(catalogue))
    BY <1>12 DEF NextLayer, Begin
  <2>2. picture = RouteRows \o Upto(Points, Stops)
    BY <1>1, <1>12, StopTurn DEF MInv, Content
  <2>3. Turns'
    BY <1>2, <1>5, <2>1 DEF Turns
  <2>4. PaletteUsed'
    BY <1>2, <1>12, <2>1 DEF MInv, PaletteUsed
  <2>5. picture = RouteRows \o (Upto(Points, Stops) \o Upto(Titles, 0))
    BY <1>7, <2>2, NothingAdded
  <2>6. Done(ServedStops(catalogue))' = 0
    BY <1>2, <1>6, <2>1 DEF Done
  <2>7. Content'
    BY <1>1, <1>2, <1>3, <2>1, <2>5, <2>6 DEF Content
  <2> QED
    BY <1>9, <2>3, <2>4, <2>7 DEF MInv
<1>13. CASE layer = "stop_names"
  <2>1. layer' = "render"
    BY <1>13 DEF NextLayer, Begin
  <2>2. picture = RouteRows \o StopRows
    BY <1>1, <1>13, StopTurn DEF MInv, Content, StopRows
  <2>3. Turns'
    BY <2>1 DEF Turns
  <2>4. PaletteUsed'
    BY <1>2, <1>13, <2>1 DEF MInv, PaletteUsed
  <2>5. Content'
    BY <1>1, <1>3, <2>1, <2>2 DEF Content
  <2> QED
    BY <1>9, <2>3, <2>4, <2>5 DEF MInv
<1> QED
  BY <1>10, <1>11, <1>12, <1>13 DEF NextLayer

LEMMA MInvRender ==
  ASSUME MInv, Render
  PROVE  MInv'
<1>1. /\ layer = "render" /\ layer' = "done" /\ picture' = picture /\ render_' = picture
      /\ Fixed /\ settings' = settings
  BY DEF Render, Fixed, input_vars
<1>2. /\ Lines' = Lines /\ Labels' = Labels /\ Buses' = Buses /\ FromSource' = FromSource
      /\ Points' = Points /\ Titles' = Titles /\ Stops' = Stops
      /\ NonEmpty(catalogue)' = NonEmpty(catalogue) /\ HasColour' = HasColour
  BY <1>1, RowsStay
<1>3. Frame'
  BY <1>1, <1>2 DEF MInv, Frame, Fixed, PlaceOf, Layers
<1>4. Turns' /\ PaletteUsed'
  BY <1>1, <1>2 DEF MInv, Turns, PaletteUsed
<1>5. Content'
  <2>1. RouteRows' = RouteRows /\ StopRows' = StopRows
    BY <1>2 DEF RouteRows, StopRows
  <2> QED
    BY <1>1, <2>1 DEF MInv, Content
<1> QED
  BY <1>3, <1>4, <1>5 DEF MInv

LEMMA MInvStep ==
  ASSUME MInv, [Next]_vars
  PROVE  MInv'
<1>1. CASE FindScale
  BY <1>1, MInvFindScale
<1>2. CASE SkipRoute
  BY <1>2, MInvSkipRoute
<1>3. CASE DrawRoute
  BY <1>3, MInvDrawRoute
<1>4. CASE DrawRouteName
  BY <1>4, MInvDrawRouteName
<1>5. CASE NoColour
  BY <1>5, MInvNoColour
<1>6. CASE DrawStopPoint
  BY <1>6, MInvDrawStopPoint
<1>7. CASE DrawStopName
  BY <1>7, MInvDrawStopName
<1>8. CASE NextLayer
  BY <1>8, MInvNextLayer
<1>9. CASE Render
  BY <1>9, MInvRender
<1>10. CASE UNCHANGED vars
  <2>1. /\ Fixed /\ settings' = settings /\ layer' = layer /\ todo' = todo
        /\ color_count' = color_count /\ picture' = picture /\ render_' = render_
    BY <1>10 DEF vars, Fixed
  <2>2. /\ Lines' = Lines /\ Labels' = Labels /\ Buses' = Buses /\ FromSource' = FromSource
        /\ Points' = Points /\ Titles' = Titles /\ Stops' = Stops
        /\ ServedStops(catalogue)' = ServedStops(catalogue)
        /\ NonEmpty(catalogue)' = NonEmpty(catalogue) /\ HasColour' = HasColour
    BY <2>1, RowsStay
  <2>3. Frame'
    BY <2>1, <2>2 DEF MInv, Frame, Fixed, PlaceOf
  <2>4. Turns'
    BY <2>1, <2>2 DEF MInv, Turns, Done, Fixed
  <2>5. PaletteUsed'
    BY <2>1, <2>2 DEF MInv, PaletteUsed
  <2>6. Content'
    BY <2>1, <2>2 DEF MInv, Content, Done, RouteRows, StopRows
  <2> QED
    BY <2>3, <2>4, <2>5, <2>6 DEF MInv
<1> QED
  BY <1>1, <1>2, <1>3, <1>4, <1>5, <1>6, <1>7, <1>8, <1>9, <1>10 DEF Next

LEMMA AlwaysMInv == Spec => []MInv
<1>1. Init => MInv
  BY MInvInit
<1>2. MInv /\ [Next]_vars => MInv'
  BY MInvStep
<1> QED
  BY <1>1, <1>2, PTL DEF Spec

-----------------------------------------------------------------------------
(* From the catalogue to the document.                                     *)

LEMMA DocumentFacts ==
  ASSUME FromSource, ~ HasNull(base)
  PROVE  /\ base \in Seq(Request) /\ BuiltCatalogue(catalogue, base)
         /\ BusesAsDeclared(catalogue, base) /\ StopsAsDeclared(catalogue, base)
         /\ StopNames(catalogue) \subseteq DeclaredStops(base)
<1>1. base \in Seq(Request) /\ AllDeclared(base)
  BY SourceFacts DEF FromSource
<1>2. BuiltCatalogue(catalogue, base)
  BY <1>1, DBBuilderIsConsistent DEF FromSource, Source
<1>3. BusesAsDeclared(catalogue, base) /\ StopsAsDeclared(catalogue, base)
  BY <1>1, DBBuilderKeepsTheBuses, DBBuilderKeepsTheStops DEF FromSource, Source
<1> QED
  BY <1>1, <1>2, <1>3 DEF BuiltCatalogue, AllDeclared

LEMMA NothingWithNull ==
  ASSUME FromSource, HasNull(base)
  PROVE  NonEmpty(catalogue) = {} /\ ServedStops(catalogue) = {} /\ BusesWithStops = {}
<1>1. catalogue = EmptyCatalogue
  BY DEF FromSource, Source, DBBuilder
<1>2. StopNames(catalogue) = {} /\ BusNames(catalogue) = {}
  BY <1>1, EmptyCatalogueFacts
<1> QED
  BY <1>2 DEF NonEmpty, ServedStops, BusesWithStops

(* The buses of the document that have stops.                              *)
LEMMA BusesWithStopsFacts ==
  ASSUME FromSource, ~ HasNull(base), NEW r
  PROVE  /\ r \in BusesWithStops <=> \E k \in BusPlaces(base) : r = base[k] /\ base[k].stops # <<>>
         /\ r \in BusesWithStops =>
              /\ r \in Request /\ r.type = "Bus" /\ r.name \in Names
              /\ r.stops \in Seq(Names) /\ r.stops # <<>> /\ r.is_roundtrip \in BOOLEAN
<1>1. base \in Seq(Request)
  BY DocumentFacts
<1>2. r \in BusesWithStops <=> \E k \in BusPlaces(base) : r = base[k] /\ base[k].stops # <<>>
  BY DEF BusesWithStops, BusPlaces
<1>3. ASSUME NEW k \in BusPlaces(base) PROVE base[k] \in Request /\ base[k].type = "Bus"
  BY <1>1 DEF BusPlaces
<1> QED
  BY <1>2, <1>3, RequestFields

(* The stops that appear on the map.                                       *)
LEMMA ServedAsDeclared ==
  ASSUME FromSource
  PROVE  ServedStops(catalogue) = UNION {ToSet(b.stops) : b \in BusesWithStops}
<1>1. CASE HasNull(base)
  BY <1>1, NothingWithNull
<1>2. CASE ~ HasNull(base)
  <2>1. base \in Seq(Request) /\ StopsAsDeclared(catalogue, base)
    BY <1>2, DocumentFacts
  <2>2. ServedStops(catalogue) \subseteq Names
    BY ServedFacts
  <2>3. ASSUME NEW s \in ServedStops(catalogue)
        PROVE  s \in UNION {ToSet(b.stops) : b \in BusesWithStops}
    <3>1. s \in Names /\ StopOf(catalogue, s).buses # {}
      BY <2>2 DEF ServedStops, StopOf
    <3>2. PICK k \in DOMAIN base : Passes(base, k, s)
      BY <2>1, <3>1 DEF StopsAsDeclared
    <3>3. base[k].stops # <<>> /\ k \in BusPlaces(base)
      BY <3>2 DEF Passes, ToSet, BusPlaces
    <3>4. base[k] \in BusesWithStops
      BY <1>2, <3>3, BusesWithStopsFacts
    <3> QED
      BY <3>2, <3>4 DEF Passes
  <2>4. ASSUME NEW b \in BusesWithStops, NEW s \in ToSet(b.stops)
        PROVE  s \in ServedStops(catalogue)
    <3>1. PICK k \in BusPlaces(base) : b = base[k]
      BY <1>2, BusesWithStopsFacts
    <3>2. b.stops \in Seq(Names)
      BY <1>2, BusesWithStopsFacts
    <3>3. s \in Names
      BY <3>2 DEF ToSet
    <3>4. k \in DOMAIN base /\ Passes(base, k, s)
      BY <3>1 DEF Passes, BusPlaces
    <3>5. base[k].name \in StopOf(catalogue, s).buses
      <4>1. StopOf(catalogue, s).buses
              = {base[n].name : n \in {n \in DOMAIN base : Passes(base, n, s)}}
        BY <2>1, <3>3 DEF StopsAsDeclared
      <4> QED
        BY <3>4, <4>1
    <3>6. NewStop.buses = {}
      BY DEF NewStop
    <3> QED
      BY <3>5, <3>6 DEF StopOf, ServedStops
  <2> QED
    BY <2>3, <2>4
<1> QED
  BY <1>1, <1>2

(* There is a bus to be drawn exactly if some bus has a stop.              *)
LEMMA SomethingToDraw ==
  ASSUME FromSource
  PROVE  NonEmpty(catalogue) # {} <=> BusesWithStops # {}
<1>1. ASSUME NEW b \in NonEmpty(catalogue) PROVE BusesWithStops # {}
  <2>1. PICK route : route = catalogue.buses[b].route
    OBVIOUS
  <2>2. route \in Seq(ServedStops(catalogue)) /\ route # <<>>
    BY <2>1, ServedFacts
  <2>3. route[1] \in ServedStops(catalogue)
    BY <2>2
  <2> QED
    BY <2>3, ServedAsDeclared
<1>2. ASSUME NEW r \in BusesWithStops PROVE NonEmpty(catalogue) # {}
  <2>1. ~ HasNull(base)
    BY NothingWithNull
  <2>2. r.stops \in Seq(Names) /\ r.stops # <<>>
    BY <2>1, BusesWithStopsFacts
  <2>3. r.stops[1] \in ToSet(r.stops)
    BY <2>2 DEF ToSet
  <2>4. PICK s : s \in ServedStops(catalogue)
    BY <2>3, ServedAsDeclared
  <2>5. IndexConsistent(catalogue)
    BY SourceFacts DEF FromSource
  <2>6. PICK b \in BusNames(catalogue) :
          \E k \in DOMAIN catalogue.buses[b].route : catalogue.buses[b].route[k] = s
    BY <2>4, <2>5 DEF ServedStops, IndexConsistent
  <2>7. catalogue.buses[b].route # <<>>
    BY <2>6
  <2> QED
    BY <2>7 DEF NonEmpty
<1> QED
  BY <1>1, <1>2

(* A map is not drawn exactly if some bus has a stop and there is no       *)
(* palette to take its colour from.                                        *)
THEOREM DrawOutcomeHolds == Spec => []DrawOutcome
<1>1. MInv => DrawOutcome
  <2> SUFFICES ASSUME MInv PROVE DrawOutcome
    OBVIOUS
  <2>1. NonEmpty(catalogue) # {} <=> BusesWithStops # {}
    BY SomethingToDraw DEF MInv, Frame
  <2> QED
    BY <2>1 DEF DrawOutcome, MInv, PaletteUsed, HasColour
<1> QED
  BY <1>1, AlwaysMInv, PTL

-----------------------------------------------------------------------------
(* The picture in its four parts.                                          *)

Drawn(l, m, p, q) ==
  (Upto(Lines, l) \o Upto(Labels, m)) \o (Upto(Points, p) \o Upto(Titles, q))

LEMMA PictureParts ==
  ASSUME MInv
  PROVE  \E l, m \in 0 .. Buses, p, q \in 0 .. Stops :
           /\ picture = Drawn(l, m, p, q)
           /\ m # 0 => l = Buses
           /\ layer \in {"render", "done"} => l = Buses /\ m = Buses /\ p = Stops /\ q = Stops
<1>1. Buses \in Nat /\ Stops \in Nat
  BY OrdersFacts DEF MInv, Frame
<1>2. /\ 0 \in 0 .. Buses /\ Buses \in 0 .. Buses
      /\ 0 \in 0 .. Stops /\ Stops \in 0 .. Stops
  BY <1>1
<1>3. /\ Upto(Lines, 0) = <<>> /\ Upto(Labels, 0) = <<>>
      /\ Upto(Points, 0) = <<>> /\ Upto(Titles, 0) = <<>>
  BY UptoNone
<1>4. <<>> \o <<>> = <<>>
  BY RowOfNone, NothingAdded
<1>5. CASE layer \in {"frame", "undefined"}
  <2>1. picture = <<>>
    BY <1>5 DEF MInv, Content
  <2>2. Drawn(0, 0, 0, 0) = <<>>
    BY <1>3, <1>4 DEF Drawn
  <2> QED
    BY <1>2, <1>5, <2>1, <2>2
<1>6. CASE layer = "routes"
  <2>1. color_count \in 0 .. Buses
    BY <1>6, BusTurn
  <2>2. picture = Upto(Lines, color_count)
    BY <1>6 DEF MInv, Content
  <2>3. IsRow(picture)
    BY <2>1, <2>2, PictureRows
  <2>4. Drawn(color_count, 0, 0, 0) = picture
    BY <1>3, <1>4, <2>2, <2>3, NothingAdded DEF Drawn
  <2> QED
    BY <1>2, <1>6, <2>1, <2>4
<1>7. CASE layer = "route_names"
  <2>1. color_count \in 0 .. Buses
    BY <1>7, BusTurn
  <2>2. picture = Upto(Lines, Buses) \o Upto(Labels, color_count)
    BY <1>7 DEF MInv, Content
  <2>3. IsRow(picture)
    BY <2>1, <2>2, PictureRows, RowsJoined
  <2>4. Drawn(Buses, color_count, 0, 0) = picture
    BY <1>3, <1>4, <2>2, <2>3, NothingAdded DEF Drawn
  <2> QED
    BY <1>2, <1>7, <2>1, <2>4
<1>8. CASE layer = "stop_points"
  <2>1. PICK n : n = Done(ServedStops(catalogue)) /\ n \in 0 .. Stops
    BY <1>8, StopTurn
  <2>2. picture = RouteRows \o Upto(Points, n)
    BY <1>8, <2>1 DEF MInv, Content
  <2>3. IsRow(Upto(Points, n))
    BY <2>1, PictureRows
  <2>4. Drawn(Buses, Buses, n, 0) = picture
    BY <1>3, <2>2, <2>3, NothingAdded DEF Drawn, RouteRows
  <2> QED
    BY <1>2, <1>8, <2>1, <2>4
<1>9. CASE layer = "stop_names"
  <2>1. PICK n : n = Done(ServedStops(catalogue)) /\ n \in 0 .. Stops
    BY <1>9, StopTurn
  <2>2. picture = RouteRows \o (Upto(Points, Stops) \o Upto(Titles, n))
    BY <1>9, <2>1 DEF MInv, Content
  <2>3. Drawn(Buses, Buses, Stops, n) = picture
    BY <2>2 DEF Drawn, RouteRows
  <2> QED
    BY <1>2, <1>9, <2>1, <2>3
<1>10. CASE layer \in {"render", "done"}
  <2>1. picture = RouteRows \o StopRows
    BY <1>10 DEF MInv, Content
  <2>2. Drawn(Buses, Buses, Stops, Stops) = picture
    BY <2>1 DEF Drawn, RouteRows, StopRows
  <2> QED
    BY <1>2, <2>2
<1> QED
  BY <1>5, <1>6, <1>7, <1>8, <1>9, <1>10 DEF MInv, Frame, Layers

(* The layers are drawn one above the other.                               *)
Ascending(s, low, high) ==
  /\ IsRow(s)
  /\ \A k \in 1 .. Len(s) : Rank[s[k].shape] \in low .. high
  /\ \A m, n \in 1 .. Len(s) : m < n => Rank[s[m].shape] <= Rank[s[n].shape]

OfKind(E, kind) == \A x \in E : x.shape = kind

LEMMA OneKind ==
  ASSUME NEW E, NEW s \in Seq(E), NEW kind, OfKind(E, kind), NEW r \in Int, Rank[kind] = r
  PROVE  Ascending(s, r, r)
<1>1. IsRow(s)
  BY Rows
<1>2. \A k \in 1 .. Len(s) : Rank[s[k].shape] = r
  BY DEF OfKind
<1> QED
  BY <1>1, <1>2 DEF Ascending

LEMMA OneAboveTheOther ==
  ASSUME NEW low \in Int, NEW middle \in Int, NEW above \in Int, NEW high \in Int,
         low <= middle, middle <= above, above <= high,
         NEW s, NEW t, Ascending(s, low, middle), Ascending(t, above, high)
  PROVE  Ascending(s \o t, low, high)
<1>1. PICK r : r = s \o t
  OBVIOUS
<1>2. IsRow(s) /\ IsRow(t)
  BY DEF Ascending
<1>3. /\ IsRow(r) /\ Len(r) = Len(s) + Len(t) /\ Len(s) \in Nat /\ Len(t) \in Nat
      /\ \A k \in 1 .. Len(s) : r[k] = s[k]
      /\ \A k \in 1 .. Len(t) : r[Len(s) + k] = t[k]
  BY <1>1, <1>2, RowsJoined, RowFacts
<1>4. \A k \in Len(s) + 1 .. Len(r) : k - Len(s) \in 1 .. Len(t) /\ r[k] = t[k - Len(s)]
  <2> TAKE k \in Len(s) + 1 .. Len(r)
  <2>1. k - Len(s) \in 1 .. Len(t) /\ Len(s) + (k - Len(s)) = k
    BY <1>3
  <2> QED
    BY <1>3, <2>1
<1>5. \A k \in 1 .. Len(s) : Rank[r[k].shape] \in low .. middle
  BY <1>3 DEF Ascending
<1>6. \A k \in Len(s) + 1 .. Len(r) : Rank[r[k].shape] \in above .. high
  BY <1>4 DEF Ascending
<1>7. \A k \in 1 .. Len(r) : k \in 1 .. Len(s) \/ k \in Len(s) + 1 .. Len(r)
  BY <1>3
<1>8. \A k \in 1 .. Len(r) : Rank[r[k].shape] \in low .. high
  BY <1>5, <1>6, <1>7
<1>9. ASSUME NEW m \in 1 .. Len(r), NEW n \in 1 .. Len(r), m < n
      PROVE  Rank[r[m].shape] <= Rank[r[n].shape]
  <2>1. CASE m \in 1 .. Len(s) /\ n \in 1 .. Len(s)
    <3>1. Rank[s[m].shape] <= Rank[s[n].shape]
      BY <1>9, <2>1 DEF Ascending
    <3> QED
      BY <1>3, <2>1, <3>1
  <2>2. CASE m \in 1 .. Len(s) /\ n \in Len(s) + 1 .. Len(r)
    <3>1. Rank[r[m].shape] \in low .. middle /\ Rank[r[n].shape] \in above .. high
      BY <1>5, <1>6, <2>2
    <3> QED
      BY <3>1
  <2>3. CASE m \in Len(s) + 1 .. Len(r) /\ n \in Len(s) + 1 .. Len(r)
    <3>1. /\ m - Len(s) \in 1 .. Len(t) /\ n - Len(s) \in 1 .. Len(t)
          /\ r[m] = t[m - Len(s)] /\ r[n] = t[n - Len(s)]
      BY <1>4, <2>3
    <3>2. m - Len(s) < n - Len(s)
      BY <1>3, <1>9
    <3> QED
      BY <3>1, <3>2 DEF Ascending
  <2> QED
    BY <1>3, <1>7, <1>9, <2>1, <2>2, <2>3
<1> QED
  BY <1>1, <1>3, <1>8, <1>9 DEF Ascending

LEMMA PartsAscend ==
  ASSUME MInv, NEW l \in 0 .. Buses, NEW m \in 0 .. Buses, NEW p \in 0 .. Stops, NEW q \in 0 .. Stops
  PROVE  /\ Ascending(Upto(Lines, l) \o Upto(Labels, m), 1, 2)
         /\ Ascending(Drawn(l, m, p, q), 1, 4)
<1>1. /\ Upto(Lines, l) \in Seq(LineShapes) /\ Upto(Labels, m) \in Seq(LabelShapes)
      /\ Upto(Points, p) \in Seq(PointShapes) /\ Upto(Titles, q) \in Seq(TitleShapes)
  BY UptoRows DEF MInv, Frame
<1>2. /\ OfKind(LineShapes, "line") /\ OfKind(LabelShapes, "route_name")
      /\ OfKind(PointShapes, "point") /\ OfKind(TitleShapes, "stop_name")
  BY DEF OfKind, LineShapes, LabelShapes, PointShapes, TitleShapes, TextShapes
<1>3. /\ Rank["line"] = 1 /\ Rank["route_name"] = 2 /\ Rank["point"] = 3 /\ Rank["stop_name"] = 4
  BY DEF Rank
<1>4. PICK a, b, c, d : /\ a = Upto(Lines, l) /\ b = Upto(Labels, m)
                        /\ c = Upto(Points, p) /\ d = Upto(Titles, q)
  OBVIOUS
<1>5. Ascending(a, 1, 1)
  <2>1. a \in Seq(LineShapes) /\ OfKind(LineShapes, "line") /\ Rank["line"] = 1
    BY <1>1, <1>2, <1>3, <1>4
  <2> QED
    BY <2>1, OneKind
<1>6. Ascending(b, 2, 2)
  <2>1. b \in Seq(LabelShapes) /\ OfKind(LabelShapes, "route_name") /\ Rank["route_name"] = 2
    BY <1>1, <1>2, <1>3, <1>4
  <2> QED
    BY <2>1, OneKind
<1>7. Ascending(c, 3, 3)
  <2>1. c \in Seq(PointShapes) /\ OfKind(PointShapes, "point") /\ Rank["point"] = 3
    BY <1>1, <1>2, <1>3, <1>4
  <2> QED
    BY <2>1, OneKind
<1>8. Ascending(d, 4, 4)
  <2>1. d \in Seq(TitleShapes) /\ OfKind(TitleShapes, "stop_name") /\ Rank["stop_name"] = 4
    BY <1>1, <1>2, <1>3, <1>4
  <2> QED
    BY <2>1, OneKind
<1>9. Ascending(a \o b, 1, 2)
  BY <1>5, <1>6, OneAboveTheOther
<1>10. Ascending(c \o d, 3, 4)
  BY <1>7, <1>8, OneAboveTheOther
<1>11. PICK e, f : e = a \o b /\ f = c \o d
  OBVIOUS
<1>12. Ascending(e \o f, 1, 4)
  BY <1>9, <1>10, <1>11, OneAboveTheOther
<1> QED
  BY <1>4, <1>9, <1>11, <1>12 DEF Drawn

LEMMA AlwaysInOrder ==
  ASSUME MInv
  PROVE  LayersInOrder
<1>1. PICK l, m \in 0 .. Buses, p, q \in 0 .. Stops : picture = Drawn(l, m, p, q)
  BY PictureParts
<1>2. Ascending(picture, 1, 4)
  BY <1>1, PartsAscend
<1>3. DOMAIN picture = 1 .. Len(picture)
  BY <1>2, RowFacts DEF Ascending
<1> QED
  BY <1>2, <1>3 DEF LayersInOrder, Ascending

(* A stop is where its last request puts it.                               *)
LEMMA PlaceAsDeclared ==
  ASSUME FromSource, NEW s \in ServedStops(catalogue)
  PROVE  PlaceOf(s) = DocumentPlace(s) /\ PlaceOf(s) \in Coordinates
<1>1. ~ HasNull(base)
  BY NothingWithNull
<1>2. /\ BuiltCatalogue(catalogue, base) /\ StopsAsDeclared(catalogue, base)
      /\ StopNames(catalogue) \subseteq DeclaredStops(base)
  BY <1>1, DocumentFacts
<1>3. s \in StopNames(catalogue) /\ s \in Names /\ s \in DeclaredStops(base)
  BY <1>2, ServedFacts DEF ServedStops
<1>4. StopPlaces(base, s) # {}
  BY <1>3 DEF DeclaredStops, StopPlaces
<1>5. catalogue.stops[s].coordinates = base[Max(StopPlaces(base, s))].coordinates
  BY <1>2, <1>3, <1>4 DEF StopsAsDeclared, StopOf
<1>6. catalogue.stops[s].coordinates \in Coordinates
  BY <1>2, <1>3 DEF BuiltCatalogue
<1> QED
  BY <1>5, <1>6 DEF PlaceOf, DocumentPlace, StopPlaces

LEMMA ProjectedAsDeclared ==
  ASSUME FromSource, NEW stops \in Seq(ServedStops(catalogue))
  PROVE  ProjectedStops(stops) = [k \in DOMAIN stops |-> Projected(PlaceOf(stops[k]))]
<1>1. \A k \in DOMAIN stops : PlaceOf(stops[k]) = DocumentPlace(stops[k])
  BY PlaceAsDeclared
<1> QED
  BY <1>1 DEF ProjectedStops

(* The stops on the map are those of the document.                         *)
LEMMA StopsOfMapAreRows ==
  ASSUME FromSource
  PROVE  StopsOfMap = StopRows
<1>1. DrawnStops = StopOrder
  BY ServedAsDeclared DEF DrawnStops, StopOrder
<1>2. DOMAIN StopOrder = 1 .. Stops
  BY OrdersFacts, RowFacts
<1>3. \A k \in 1 .. Stops : PlaceOf(StopOrder[k]) = DocumentPlace(StopOrder[k])
  BY OrdersFacts, PlaceAsDeclared
<1>4. \A k \in 1 .. Stops : PointOf(k) = Points[k] /\ StopNameOf(k) = Titles[k]
  <2> TAKE k \in 1 .. Stops
  <2>1. PointOf(k) = <<PointShape(StopOrder[k])>>
    BY <1>1, <1>3 DEF PointOf, PointShape
  <2>2. StopNameOf(k) = StopTexts(StopOrder[k])
    BY <1>1, <1>3 DEF StopNameOf, StopTexts
  <2> QED
    BY <2>1, <2>2 DEF Points, Titles
<1>5. /\ [k \in DOMAIN DrawnStops |-> PointOf(k)] = [k \in 1 .. Stops |-> Points[k]]
      /\ [k \in DOMAIN DrawnStops |-> StopNameOf(k)] = [k \in 1 .. Stops |-> Titles[k]]
  BY <1>1, <1>2, <1>4
<1> QED
  BY <1>5 DEF StopsOfMap, StopRows, Upto

(* The buses of a document that gives none of them twice.                  *)
LEMMA BusesAsGiven ==
  ASSUME FromSource, BusesOnce
  PROVE  /\ NonEmpty(catalogue) = {b.name : b \in BusesWithStops}
         /\ \A b \in BusesWithStops : catalogue.buses[b.name] = BusOf(b)
<1>1. CASE HasNull(base)
  BY <1>1, NothingWithNull
<1>2. CASE ~ HasNull(base)
  <2>1. base \in Seq(Request) /\ BusesAsDeclared(catalogue, base)
    BY <1>2, DocumentFacts
  <2>2. ASSUME NEW k \in BusPlaces(base)
        PROVE  /\ catalogue.buses[base[k].name] = BusOf(base[k])
               /\ base[k].stops \in Seq(Names)
    <3>1. Alone(base, k)
      BY <1>2 DEF BusesOnce, Alone, BusPlaces
    <3>2. base[k] \in Request /\ base[k].type = "Bus"
      BY <2>1 DEF BusPlaces
    <3> QED
      BY <2>1, <3>1, <3>2, RequestFields DEF BusesAsDeclared
  <2>3. ASSUME NEW stops \in Seq(Names) PROVE Reverse(stops) # <<>> <=> stops # <<>>
    <3>1. Reverse(stops) \in Seq(Names) /\ Len(Reverse(stops)) = Len(stops)
      BY ReverseFacts
    <3> QED
      BY <3>1
  <2>4. ASSUME NEW name \in NonEmpty(catalogue)
        PROVE  name \in {b.name : b \in BusesWithStops}
    <3>1. name \in BusNames(catalogue) /\ catalogue.buses[name].route # <<>>
      BY DEF NonEmpty
    <3>2. PICK k \in BusPlaces(base) : base[k].name = name
      BY <2>1, <3>1 DEF BusesAsDeclared
    <3>3. Reverse(base[k].stops) # <<>>
      <4>1. catalogue.buses[name] = BusOf(base[k])
        BY <2>2, <3>2
      <4>2. BusOf(base[k]).route = Reverse(base[k].stops)
        BY DEF BusOf
      <4> QED
        BY <3>1, <4>1, <4>2
    <3>4. base[k].stops # <<>>
      BY <2>2, <2>3, <3>3
    <3>5. base[k] \in BusesWithStops
      BY <1>2, <3>4, BusesWithStopsFacts
    <3> QED
      BY <3>2, <3>5
  <2>5. ASSUME NEW b \in BusesWithStops
        PROVE  b.name \in NonEmpty(catalogue) /\ catalogue.buses[b.name] = BusOf(b)
    <3>1. PICK k \in BusPlaces(base) : b = base[k] /\ b.stops # <<>>
      BY <1>2, BusesWithStopsFacts
    <3>2. catalogue.buses[b.name] = BusOf(b) /\ b.stops \in Seq(Names)
      BY <2>2, <3>1
    <3>3. catalogue.buses[b.name].route # <<>>
      BY <2>3, <3>1, <3>2 DEF BusOf
    <3>4. b.name \in BusNames(catalogue)
      BY <2>1, <3>1 DEF BusesAsDeclared
    <3> QED
      BY <3>2, <3>3, <3>4 DEF NonEmpty
  <2> QED
    BY <2>4, <2>5
<1> QED
  BY <1>1, <1>2

LEMMA DrawnBusesFacts ==
  ASSUME FromSource, BusesOnce
  PROVE  /\ DOMAIN DrawnBuses = 1 .. Buses
         /\ \A k \in 1 .. Buses : /\ DrawnBuses[k] \in BusesWithStops
                                  /\ DrawnBuses[k].name = RouteOrder[k]
<1>1. InOrder({b.name : b \in BusesWithStops}) = RouteOrder
  BY BusesAsGiven DEF RouteOrder
<1>2. DOMAIN RouteOrder = 1 .. Buses /\ \A k \in 1 .. Buses : RouteOrder[k] \in NonEmpty(catalogue)
  BY OrdersFacts, RowFacts
<1> DEFINE Named(name) == CHOOSE b \in BusesWithStops : b.name = name
<1>3. DrawnBuses = [k \in 1 .. Buses |-> Named(RouteOrder[k])]
  <2>1. PICK names : names = InOrder({b.name : b \in BusesWithStops})
    OBVIOUS
  <2>2. DrawnBuses = [k \in DOMAIN names |-> Named(names[k])]
    BY <2>1 DEF DrawnBuses
  <2> HIDE DEF Named
  <2> QED
    BY <1>1, <1>2, <2>1, <2>2
<1>4. \A k \in 1 .. Buses : \E b \in BusesWithStops : b.name = RouteOrder[k]
  BY <1>2, BusesAsGiven
<1>5. \A k \in 1 .. Buses : Named(RouteOrder[k]) \in BusesWithStops /\ Named(RouteOrder[k]).name = RouteOrder[k]
  BY <1>4
<1> HIDE DEF Named
<1> QED
  BY <1>3, <1>5

LEMMA RequestOfBus ==
  ASSUME FromSource, NEW b \in BusesWithStops
  PROVE  /\ b.stops \in Seq(Names) /\ b.stops \in Seq(ServedStops(catalogue)) /\ b.stops # <<>>
         /\ b.is_roundtrip \in BOOLEAN
<1>1. ~ HasNull(base)
  BY NothingWithNull
<1>2. b.stops \in Seq(Names) /\ b.stops # <<>> /\ b.is_roundtrip \in BOOLEAN
  BY <1>1, BusesWithStopsFacts
<1>3. PICK stops : stops = b.stops
  OBVIOUS
<1>4. ASSUME NEW k \in DOMAIN stops PROVE stops[k] \in ServedStops(catalogue)
  <2>1. stops[k] \in ToSet(stops)
    BY DEF ToSet
  <2> QED
    BY <1>3, <2>1, ServedAsDeclared
<1>5. stops \in Seq(ServedStops(catalogue))
  <2>1. stops \in [1 .. Len(stops) -> ServedStops(catalogue)] /\ Len(stops) \in Nat
    BY <1>2, <1>3, <1>4
  <2> QED
    BY <2>1
<1> QED
  BY <1>2, <1>3, <1>5

LEMMA ReversedTwice ==
  ASSUME NEW S, NEW s \in Seq(S)
  PROVE  Reverse(Reverse(s)) = s
<1>1. PICK r, t, n : r = Reverse(s) /\ t = Reverse(r) /\ n = Len(s)
  OBVIOUS
<1>2. /\ r \in Seq(S) /\ Len(r) = n /\ \A k \in DOMAIN s : r[k] = s[n - k + 1]
  BY <1>1, ReverseFacts
<1>3. /\ t \in Seq(S) /\ Len(t) = n /\ \A k \in DOMAIN r : t[k] = r[n - k + 1]
  BY <1>1, <1>2, ReverseFacts
<1>4. n \in Nat /\ DOMAIN s = 1 .. n /\ DOMAIN r = 1 .. n /\ DOMAIN t = 1 .. n
  BY <1>1, <1>2, <1>3
<1>5. \A k \in 1 .. n : t[k] = s[k]
  <2> TAKE k \in 1 .. n
  <2>1. n - k + 1 \in 1 .. n /\ n - (n - k + 1) + 1 = k
    BY <1>4
  <2>2. t[k] = r[n - k + 1] /\ r[n - k + 1] = s[n - (n - k + 1) + 1]
    BY <1>2, <1>3, <1>4, <2>1
  <2> QED
    BY <2>1, <2>2
<1>6. t = s
  <2>1. t = [k \in 1 .. n |-> t[k]] /\ s = [k \in 1 .. n |-> s[k]]
    BY <1>3, <1>4
  <2> QED
    BY <1>5, <2>1
<1> QED
  BY <1>1, <1>6

(* The line of a bus.                                                      *)
LEMMA LineAsGiven ==
  ASSUME FromSource, BusesOnce, NEW b \in BusesWithStops, NEW color
  PROVE  LineShape(b.name, color)
           = [shape |-> "line", color |-> color, points |-> ProjectedStops(Way(b))]
<1>1. PICK stops, way : stops = b.stops /\ way = Way(b)
  OBVIOUS
<1>2. stops \in Seq(ServedStops(catalogue)) /\ stops # <<>> /\ b.is_roundtrip \in BOOLEAN
  BY <1>1, RequestOfBus
<1>3. /\ catalogue.buses[b.name].route = Reverse(stops)
      /\ catalogue.buses[b.name].is_chain = ~ b.is_roundtrip
  <2>1. PICK chain : chain = ~ b.is_roundtrip
    OBVIOUS
  <2>2. BusOf(b) = [is_chain |-> chain, route |-> Reverse(b.stops)]
    BY <2>1, Zenon DEF BusOf
  <2>3. catalogue.buses[b.name].is_chain = chain /\ catalogue.buses[b.name].route = Reverse(b.stops)
    BY <2>2, BusesAsGiven
  <2> QED
    BY <1>1, <2>1, <2>3, Zenon
<1>4. Reverse(Reverse(stops)) = stops
  BY <1>2, ReversedTwice
<1>5. PolylineStops(Reverse(stops), ~ b.is_roundtrip) = way
  <2>1. CASE b.is_roundtrip
    <3>1. PolylineStops(Reverse(stops), ~ b.is_roundtrip) = stops \o <<>>
      BY <1>4, <2>1 DEF PolylineStops
    <3>2. stops \o <<>> = stops
      BY <1>2
    <3> QED
      BY <1>1, <2>1, <3>1, <3>2 DEF Way
  <2>2. CASE ~ b.is_roundtrip
    BY <1>1, <1>4, <2>2 DEF PolylineStops, Way
  <2> QED
    BY <2>1, <2>2
<1>6. way \in Seq(ServedStops(catalogue))
  <2>1. Reverse(stops) \in Seq(ServedStops(catalogue)) /\ Len(Reverse(stops)) = Len(stops)
    BY <1>2, ReverseFacts
  <2>2. Tail(Reverse(stops)) \in Seq(ServedStops(catalogue))
    BY <1>2, <2>1
  <2>3. stops \o Tail(Reverse(stops)) \in Seq(ServedStops(catalogue))
    BY <1>2, <2>2
  <2>4. way = stops \/ way = stops \o Tail(Reverse(stops))
    BY <1>1 DEF Way
  <2> QED
    BY <1>2, <2>3, <2>4
<1>7. ProjectedStops(way) = [k \in DOMAIN way |-> Projected(PlaceOf(way[k]))]
  BY <1>6, ProjectedAsDeclared
<1> QED
  BY <1>1, <1>3, <1>5, <1>7 DEF LineShape

(* Its names.                                                              *)
LEMMA NameAsGiven ==
  ASSUME FromSource, BusesOnce, NEW b \in BusesWithStops, NEW color
  PROVE  LET at == ProjectedStops(EndsOf(b))
         IN  NameShapes(b.name, color)
               = FlattenSeq([n \in DOMAIN at |-> Texts("route_name", b.name, color, at[n])])
<1>1. PICK stops, route, n : stops = b.stops /\ route = Reverse(stops) /\ n = Len(stops)
  OBVIOUS
<1>2. /\ stops \in Seq(ServedStops(catalogue)) /\ stops # <<>> /\ b.is_roundtrip \in BOOLEAN
      /\ n \in Nat /\ 1 \in 1 .. n /\ n \in 1 .. n /\ DOMAIN stops = 1 .. n
  BY <1>1, RequestOfBus
<1>3. /\ catalogue.buses[b.name].route = route
      /\ catalogue.buses[b.name].is_chain = ~ b.is_roundtrip
  <2>1. PICK chain : chain = ~ b.is_roundtrip
    OBVIOUS
  <2>2. BusOf(b) = [is_chain |-> chain, route |-> Reverse(b.stops)]
    BY <2>1, Zenon DEF BusOf
  <2>3. catalogue.buses[b.name].is_chain = chain /\ catalogue.buses[b.name].route = Reverse(b.stops)
    BY <2>2, BusesAsGiven
  <2> QED
    BY <1>1, <2>1, <2>3, Zenon
<1>4. Len(route) = n /\ route[n] = stops[1] /\ route[1] = stops[n]
  <2>1. Len(route) = n /\ \A k \in DOMAIN stops : route[k] = stops[n - k + 1]
    BY <1>1, <1>2, ReverseFacts
  <2>2. n - n + 1 = 1 /\ n - 1 + 1 = n
    BY <1>2
  <2> QED
    BY <1>2, <2>1, <2>2
<1>5. PICK ends, names : ends = LabelledEnds(route, ~ b.is_roundtrip) /\ names = EndsOf(b)
  OBVIOUS
<1>6. Head(stops) = stops[1] /\ Last(stops) = stops[n]
  BY <1>1, <1>2 DEF Last
<1>7. /\ names \in Seq(ServedStops(catalogue)) /\ DOMAIN ends = DOMAIN names
      /\ \A k \in DOMAIN ends : route[ends[k]] = names[k]
  <2>1. PICK first, last : first = stops[1] /\ last = stops[n]
    OBVIOUS
  <2>2. first \in ServedStops(catalogue) /\ last \in ServedStops(catalogue)
    BY <1>2, <2>1
  <2>3. CASE b.is_roundtrip \/ first = last
    <3>1. names = <<first>> /\ ends = <<n>>
      BY <1>1, <1>4, <1>5, <1>6, <2>1, <2>3 DEF EndsOf, LabelledEnds
    <3> QED
      BY <1>4, <2>1, <2>2, <3>1
  <2>4. CASE ~ (b.is_roundtrip \/ first = last)
    <3>1. names = <<first, last>> /\ ends = <<n, 1>>
      BY <1>1, <1>4, <1>5, <1>6, <2>1, <2>4 DEF EndsOf, LabelledEnds
    <3> QED
      BY <1>4, <2>1, <2>2, <3>1
  <2> QED
    BY <2>3, <2>4
<1>8. PICK at : at = ProjectedStops(names)
  OBVIOUS
<1>9. at = [k \in DOMAIN names |-> Projected(PlaceOf(names[k]))]
  BY <1>7, <1>8, ProjectedAsDeclared
<1>10. [k \in DOMAIN ends |-> Texts("route_name", b.name, color, Projected(PlaceOf(route[ends[k]])))]
         = [k \in DOMAIN at |-> Texts("route_name", b.name, color, at[k])]
  BY <1>7, <1>9
<1>11. NameShapes(b.name, color)
         = FlattenSeq([k \in DOMAIN ends |->
             Texts("route_name", b.name, color, Projected(PlaceOf(route[ends[k]])))])
  BY <1>3, <1>5 DEF NameShapes
<1> QED
  BY <1>5, <1>8, <1>10, <1>11

(* The routes on the map are those of the document.                        *)
LEMMA RoutesOfMapAreRows ==
  ASSUME FromSource, BusesOnce
  PROVE  RoutesOfMap = RouteRows
<1>1. DOMAIN DrawnBuses = 1 .. Buses
  BY DrawnBusesFacts
<1>2. \A k \in 1 .. Buses : LineOf(k) = Lines[k] /\ LabelOf(k) = Labels[k]
  <2> TAKE k \in 1 .. Buses
  <2>1. PICK b : b = DrawnBuses[k]
    OBVIOUS
  <2>2. b \in BusesWithStops /\ b.name = RouteOrder[k]
    BY <2>1, DrawnBusesFacts
  <2>3. LineOf(k) = <<LineShape(b.name, Chosen(k))>>
    BY <2>1, <2>2, LineAsGiven DEF LineOf
  <2>4. LabelOf(k) = NameShapes(b.name, Chosen(k))
    BY <2>1, <2>2, NameAsGiven DEF LabelOf
  <2> QED
    BY <2>2, <2>3, <2>4 DEF Lines, Labels
<1>3. /\ [k \in DOMAIN DrawnBuses |-> LineOf(k)] = [k \in 1 .. Buses |-> Lines[k]]
      /\ [k \in DOMAIN DrawnBuses |-> LabelOf(k)] = [k \in 1 .. Buses |-> Labels[k]]
  BY <1>1, <1>2
<1> QED
  BY <1>3 DEF RoutesOfMap, RouteRows, Upto

LEMMA SplitRow ==
  ASSUME NEW s, NEW t, IsRow(s), IsRow(t)
  PROVE  /\ Len(s) \in 0 .. Len(s \o t)
         /\ SubSeq(s \o t, 1, Len(s)) = s
         /\ SubSeq(s \o t, Len(s) + 1, Len(s \o t)) = t
<1> DEFINE E == ToSet(s) \cup ToSet(t)
<1>1. s \in Seq(E) /\ t \in Seq(E)
  BY DEF IsRow
<1> HIDE DEF E
<1>2. Len(s) \in 0 .. Len(s \o t)
  BY <1>1
<1>3. SubSeq(s \o t, 1, Len(s)) = s
  BY <1>1
<1>4. SubSeq(s \o t, Len(s) + 1, Len(s \o t)) = t
  BY <1>1
<1> QED
  BY <1>2, <1>3, <1>4

(* The finished map shows the routes and the stops of the document, each   *)
(* in its place, the stops above the routes, and nothing else; and while   *)
(* it is drawn, no layer covers a later one.                               *)
THEOREM PictureIsTheDocumentsHolds == Spec => []PictureIsTheDocuments
<1>1. MInv => PictureIsTheDocuments
  <2> SUFFICES ASSUME MInv PROVE PictureIsTheDocuments
    OBVIOUS
  <2>1. LayersInOrder
    BY AlwaysInOrder
  <2>2. layer = "done" => render_ = picture
    BY DEF MInv, Content
  <2>3. ASSUME layer \in {"render", "done"}
        PROVE  \E n \in 0 .. Len(picture) :
                 /\ BusesOnce => SubSeq(picture, 1, n) = RoutesOfMap
                 /\ \A k \in 1 .. n : Rank[picture[k].shape] <= 2
                 /\ SubSeq(picture, n + 1, Len(picture)) = StopsOfMap
    <3>1. FromSource /\ picture = RouteRows \o StopRows
      BY <2>3 DEF MInv, Frame, Content
    <3>2. PICK n : n = Len(RouteRows)
      OBVIOUS
    <3>3. Buses \in 0 .. Buses /\ Stops \in 0 .. Stops
      BY <3>1, OrdersFacts
    <3>4. Ascending(RouteRows, 1, 2)
      BY <3>3, PartsAscend DEF RouteRows
    <3>5. IsRow(RouteRows) /\ IsRow(StopRows)
      BY <3>3, PictureRows, RowsJoined DEF StopRows
    <3>6. /\ n \in 0 .. Len(picture) /\ SubSeq(picture, 1, n) = RouteRows
          /\ SubSeq(picture, n + 1, Len(picture)) = StopRows
      BY <3>1, <3>2, <3>5, SplitRow
    <3>7. \A k \in 1 .. n : Rank[picture[k].shape] <= 2
      <4>1. \A k \in 1 .. n : picture[k] = RouteRows[k]
        BY <3>1, <3>2, <3>5, RowsJoined
      <4> QED
        BY <3>2, <3>4, <4>1 DEF Ascending
    <3>8. StopsOfMap = StopRows /\ (BusesOnce => RoutesOfMap = RouteRows)
      BY <3>1, StopsOfMapAreRows, RoutesOfMapAreRows
    <3> QED
      BY <3>6, <3>7, <3>8
  <2> QED
    BY <2>1, <2>2, <2>3 DEF PictureIsTheDocuments
<1> QED
  BY <1>1, AlwaysMInv, PTL

-----------------------------------------------------------------------------
(* Two numbers next to each other have different remainders.               *)
LEMMA QuotientAndRemainder ==
  ASSUME NEW n \in Int, NEW L \in Int, 0 < L,
         NEW q \in Int, q = n \div L, NEW r \in Int, r = n % L
  PROVE  n = L * q + r
BY SMTT(30)

LEMMA NextRemainder ==
  ASSUME NEW n \in Int, NEW L \in Int, 1 < L
  PROVE  n % L # (n - 1) % L
<1> SUFFICES ASSUME n % L = (n - 1) % L PROVE FALSE
  OBVIOUS
<1>1. n \div L \in Int /\ (n - 1) \div L \in Int /\ n % L \in Int /\ (n - 1) % L \in Int
  BY Z3T(30)
<1>2. PICK q \in Int : q = n \div L
  BY <1>1
<1>3. PICK p \in Int : p = (n - 1) \div L
  BY <1>1
<1>4. PICK r \in Int : r = n % L
  BY <1>1
<1>5. n = L * q + r
  BY <1>2, <1>4, QuotientAndRemainder
<1>6. n - 1 = L * p + r
  <2>1. n - 1 \in Int /\ r = (n - 1) % L
    BY <1>4
  <2> QED
    BY <1>3, <2>1, QuotientAndRemainder
<1>7. L * (q - p) = 1
  BY <1>5, <1>6
<1>8. CASE q - p >= 1
  <2>1. L * (q - p) >= L * 1
    BY <1>8
  <2> QED
    BY <1>7, <2>1
<1>9. CASE q - p <= 0
  <2>1. L * (q - p) <= L * 0
    BY <1>9
  <2> QED
    BY <1>7, <2>1
<1> QED
  BY <1>8, <1>9

(* Every element of the picture: the lines first, each in its place.       *)
LabelElement(x, m) ==
  \E j \in 1 .. m : x \in TextShapes("route_name", {RouteOrder[j]}, {Chosen(j)})

LEMMA LabelElements ==
  ASSUME FromSource, NEW m \in 0 .. Buses, NEW x \in ToSet(Upto(Labels, m))
  PROVE  LabelElement(x, m)
<1>1. Buses \in Nat /\ AreRows(Labels, Buses, LabelShapes)
  BY OrdersFacts, LabelRows
<1>2. PICK j \in 1 .. m : x \in ToSet(Labels[j])
  BY <1>1, UptoElements
<1>3. j \in 1 .. Buses
  BY <1>1
<1> DEFINE E == TextShapes("route_name", {RouteOrder[j]}, {Chosen(j)})
<1>4. Labels[j] \in Seq(E)
  BY <1>3, LabelRows
<1> HIDE DEF E
<1>5. x \in E
  BY <1>2, <1>4 DEF ToSet
<1> QED
  BY <1>5 DEF LabelElement, E

LinesFirst(s, l, m) ==
  /\ IsRow(s) /\ l <= Len(s)
  /\ \A k \in 1 .. l : s[k] = LineShape(RouteOrder[k], Chosen(k))
  /\ \A k \in 1 .. Len(s) : k > l =>
       LabelElement(s[k], m) \/ s[k] \in PointShapes \/ s[k] \in TitleShapes

LEMMA DrawnElements ==
  ASSUME FromSource, NEW l \in 0 .. Buses, NEW m \in 0 .. Buses,
         NEW p \in 0 .. Stops, NEW q \in 0 .. Stops, NEW s, s = Drawn(l, m, p, q)
  PROVE  LinesFirst(s, l, m)
<1>1. /\ Buses \in Nat /\ Stops \in Nat
      /\ AreRows(Lines, Buses, LineShapes) /\ AreSingles(Lines, Buses)
  BY OrdersFacts, LineRows
<1>2. PICK a, b, c, d : a = Upto(Lines, l) /\ b = Upto(Labels, m) /\ c = Upto(Points, p) /\ d = Upto(Titles, q)
  OBVIOUS
<1>3. a \in Seq(LineShapes) /\ b \in Seq(LabelShapes) /\ c \in Seq(PointShapes) /\ d \in Seq(TitleShapes)
  BY <1>2, UptoRows
<1>4. IsRow(a) /\ IsRow(b) /\ IsRow(c) /\ IsRow(d) /\ IsRow(c \o d)
  BY <1>3, Rows, RowsJoined
<1>5. PICK u : u = c \o d /\ IsRow(u)
  BY <1>4
<1>5a. PICK t : t = b \o u
  OBVIOUS
<1>6. s = a \o t /\ IsRow(t)
  <2>1. s = (a \o b) \o u
    BY <1>2, <1>5 DEF Drawn
  <2>2. (a \o b) \o u = a \o (b \o u)
    <3>1. IsRow(a) /\ IsRow(b) /\ IsRow(u)
      BY <1>4, <1>5
    <3> QED
      BY <3>1, RowsAssociate, SMTT(30)
  <2>3. IsRow(t)
    BY <1>4, <1>5, <1>5a, RowsJoined
  <2> QED
    BY <1>5a, <2>1, <2>2, <2>3
<1>7. Len(a) = l /\ \A k \in 1 .. l : a[k] = Lines[k][1]
  BY <1>1, <1>2, UptoSingles
<1>8. IsRow(s) /\ Len(s) = l + Len(t) /\ Len(t) \in Nat
  BY <1>4, <1>6, <1>7, RowsJoined, RowFacts
<1>9. \A k \in 1 .. l : s[k] = LineShape(RouteOrder[k], Chosen(k))
  <2> TAKE k \in 1 .. l
  <2>1. k \in 1 .. Buses /\ s[k] = a[k]
    BY <1>1, <1>4, <1>6, <1>7, RowsJoined
  <2>2. Lines[k] = <<LineShape(RouteOrder[k], Chosen(k))>>
    BY <2>1 DEF Lines
  <2> QED
    BY <1>7, <2>1, <2>2
<1>10. ToSet(t) = ToSet(b) \cup ToSet(c) \cup ToSet(d)
  <2> DEFINE E == LabelShapes \cup PointShapes \cup TitleShapes
  <2>1. b \in Seq(E) /\ c \in Seq(E) /\ d \in Seq(E)
    BY <1>3
  <2> HIDE DEF E
  <2>2. u \in Seq(E) /\ ToSet(u) = ToSet(c) \cup ToSet(d)
    BY <1>5, <2>1, JoinedElements
  <2>3. ToSet(t) = ToSet(b) \cup ToSet(u)
    BY <1>5a, <2>1, <2>2, JoinedElements
  <2> QED
    BY <2>2, <2>3
<1>11. ASSUME NEW k \in 1 .. Len(s), k > l
       PROVE  LabelElement(s[k], m) \/ s[k] \in PointShapes \/ s[k] \in TitleShapes
  <2>1. k - l \in 1 .. Len(t) /\ l + (k - l) = k
    BY <1>8, <1>11
  <2>2. s[k] = t[k - l]
    BY <1>4, <1>6, <1>7, <2>1, RowsJoined
  <2>3. s[k] \in ToSet(t)
    BY <1>6, <2>1, <2>2, RowFacts
  <2>4. ToSet(c) \subseteq PointShapes /\ ToSet(d) \subseteq TitleShapes
    BY <1>3 DEF ToSet
  <2>5. s[k] \in ToSet(b) => LabelElement(s[k], m)
    BY <1>2, LabelElements
  <2> QED
    BY <1>10, <2>3, <2>4, <2>5
<1> QED
  BY <1>7, <1>8, <1>9, <1>11 DEF LinesFirst

(* The name of a bus has the colour of its line, and lines next to each    *)
(* other have different ones where there are two.                          *)
THEOREM ColoursAgreeHolds == Spec => []ColoursAgree
<1>1. MInv => ColoursAgree
  <2> SUFFICES ASSUME MInv, BusesOnce
               PROVE  /\ \A k \in DOMAIN picture :
                           (picture[k].shape = "route_name" /\ picture[k].color # Underlayer) =>
                             \E n \in DOMAIN picture \cap DOMAIN DrawnBuses :
                               /\ picture[n].shape = "line" /\ picture[n].color = picture[k].color
                               /\ DrawnBuses[n].name = picture[k].data
                      /\ \A k \in DOMAIN picture :
                           (k > 1 /\ picture[k].shape = "line"
                              /\ Cardinality(ToSet(settings.color_palette)) = Len(settings.color_palette)
                              /\ Len(settings.color_palette) > 1) =>
                             picture[k].color # picture[k - 1].color
    BY DEF ColoursAgree
  <2>1. FromSource /\ settings \in Settings
    BY DEF MInv, Frame
  <2>2. PICK l, m \in 0 .. Buses, p, q \in 0 .. Stops :
          picture = Drawn(l, m, p, q) /\ (m # 0 => l = Buses)
    BY PictureParts
  <2>3. /\ IsRow(picture) /\ l <= Len(picture)
        /\ \A k \in 1 .. l : picture[k] = LineShape(RouteOrder[k], Chosen(k))
        /\ \A k \in 1 .. Len(picture) : k > l =>
             LabelElement(picture[k], m) \/ picture[k] \in PointShapes \/ picture[k] \in TitleShapes
    <3>1. PICK s : s = Drawn(l, m, p, q)
      OBVIOUS
    <3>2. LinesFirst(s, l, m)
      BY <2>1, <3>1, DrawnElements
    <3>3. picture = s
      BY <2>2, <3>1
    <3> QED
      BY <3>2, <3>3 DEF LinesFirst
  <2>4. /\ DOMAIN picture = 1 .. Len(picture) /\ Len(picture) \in Nat
        /\ Buses \in Nat /\ DOMAIN DrawnBuses = 1 .. Buses
        /\ \A k \in 1 .. Buses : DrawnBuses[k].name = RouteOrder[k]
    BY <2>1, <2>3, RowFacts, OrdersFacts, DrawnBusesFacts
  <2>5. ASSUME NEW k \in 1 .. l
        PROVE  picture[k].shape = "line" /\ picture[k].color = Chosen(k)
    <3>1. picture[k] = LineShape(RouteOrder[k], Chosen(k))
      BY <2>3
    <3>2. /\ LineShape(RouteOrder[k], Chosen(k)).shape = "line"
          /\ LineShape(RouteOrder[k], Chosen(k)).color = Chosen(k)
      BY DEF LineShape
    <3> QED
      BY <3>1, <3>2
  <2>6. ASSUME NEW k \in DOMAIN picture, k > l, picture[k].shape # "route_name"
        PROVE  picture[k].shape # "line"
    BY <2>3, <2>4, <2>6 DEF LabelElement, TextShapes, PointShapes, TitleShapes
  <2>7. ASSUME NEW k \in DOMAIN picture, k > l
        PROVE  picture[k].shape # "line"
    <3>1. CASE picture[k].shape = "route_name"
      BY <3>1
    <3>2. CASE picture[k].shape # "route_name"
      BY <2>6, <2>7, <3>2
    <3> QED
      BY <3>1, <3>2
  <2>8. ASSUME NEW k \in DOMAIN picture,
               picture[k].shape = "route_name", picture[k].color # Underlayer
        PROVE  \E n \in DOMAIN picture \cap DOMAIN DrawnBuses :
                 /\ picture[n].shape = "line" /\ picture[n].color = picture[k].color
                 /\ DrawnBuses[n].name = picture[k].data
    <3>1. k \in 1 .. Len(picture) /\ k > l
      BY <2>4, <2>5, <2>8
    <3>2. picture[k] \notin PointShapes /\ picture[k] \notin TitleShapes
      BY <2>8 DEF PointShapes, TitleShapes, TextShapes
    <3>3. PICK j \in 1 .. m : picture[k] \in TextShapes("route_name", {RouteOrder[j]}, {Chosen(j)})
      BY <2>3, <3>1, <3>2 DEF LabelElement
    <3>4. picture[k].data = RouteOrder[j] /\ picture[k].color = Chosen(j)
      BY <2>8, <3>3 DEF TextShapes
    <3>5. l = Buses /\ j \in 1 .. l /\ j \in 1 .. Len(picture)
      BY <2>2, <2>3, <2>4
    <3> QED
      BY <2>4, <2>5, <3>4, <3>5
  <2>9. ASSUME NEW k \in DOMAIN picture, k > 1, picture[k].shape = "line",
               Cardinality(ToSet(settings.color_palette)) = Len(settings.color_palette),
               Len(settings.color_palette) > 1
        PROVE  picture[k].color # picture[k - 1].color
    <3>1. k \in 1 .. l /\ k - 1 \in 1 .. l
      BY <2>4, <2>7, <2>9
    <3>2. picture[k].color = Chosen(k) /\ picture[k - 1].color = Chosen(k - 1)
      BY <2>5, <3>1
    <3>3. PICK s : s = settings.color_palette
      OBVIOUS
    <3>4. s \in Seq(ToSet(s))
      BY <2>1, <3>3, MapAssumption
    <3>5. PICK L \in Nat : L = Len(s) /\ L > 1
      BY <2>9, <3>3, <3>4
    <3>6. DOMAIN s = 1 .. L
      BY <3>4, <3>5
    <3>7. s \in Surjection(1 .. L, ToSet(s))
      BY <3>4, <3>5, <3>6 DEF Surjection, ToSet
    <3>8. IsFiniteSet(1 .. L) /\ Cardinality(1 .. L) = L
      <4>1. 1 \in Int /\ L \in Int /\ ~ (1 > L)
        BY <3>5
      <4>2. IsFiniteSet(1 .. L) /\ Cardinality(1 .. L) = IF 1 > L THEN 0 ELSE L - 1 + 1
        BY <4>1, FS_Interval
      <4> QED
        BY <4>1, <4>2
    <3>9. s \in Injection(1 .. L, ToSet(s))
      BY <2>9, <3>3, <3>5, <3>7, <3>8, FS_Surjection
    <3>10. PICK i, j : i = (k - 1) % L /\ j = ((k - 1) - 1) % L
      OBVIOUS
    <3>11. k - 1 \in Int /\ (k - 1) - 1 \in Int
      BY <3>1
    <3>12. i # j
      <4>1. PICK n \in Int : n = k - 1
        BY <3>11
      <4>2. 1 < L /\ L \in Int
        BY <3>5
      <4>3. n % L # (n - 1) % L
        BY <4>2, NextRemainder
      <4> QED
        BY <3>10, <4>1, <4>3
    <3>13. 1 + i \in 1 .. L /\ 1 + j \in 1 .. L /\ i \in Int /\ j \in Int
      BY <3>5, <3>10, <3>11, SMTT(30)
    <3>14. Chosen(k) = s[1 + i] /\ Chosen(k - 1) = s[1 + j]
      BY <3>3, <3>5, <3>10 DEF Chosen
    <3>15. s[1 + i] # s[1 + j]
      BY <3>9, <3>12, <3>13 DEF Injection, IsInjective
    <3> QED
      BY <3>2, <3>14, <3>15
  <2> QED
    BY <2>8, <2>9
<1> QED
  BY <1>1, AlwaysMInv, PTL

-----------------------------------------------------------------------------
(* The projection.                                                         *)

(* A finite set of integers has a greatest and a least member.             *)
HasEnds(S) ==
  (\E x \in S : \A y \in S : y <= x) /\ (\E x \in S : \A y \in S : x <= y)

LEMMA FiniteEnds ==
  ASSUME NEW S \in SUBSET Int, IsFiniteSet(S), S # {}
  PROVE  HasEnds(S)
<1> DEFINE Sized(n) == {A \in SUBSET Int : IsFiniteSet(A) /\ Cardinality(A) = n + 1}
           K == {n \in Nat : \A A \in Sized(n) : HasEnds(A)}
<1>1. 0 \in K
  <2> SUFFICES ASSUME NEW A \in Sized(0) PROVE HasEnds(A)
    OBVIOUS
  <2>1. IsFiniteSet(A) /\ Cardinality(A) = 1 /\ A \in SUBSET Int
    OBVIOUS
  <2>2. PICK x : A = {x}
    BY <2>1, FS_Singleton
  <2>3. x \in A /\ x \in Int /\ \A y \in A : y = x
    BY <2>1, <2>2
  <2> QED
    BY <2>3 DEF HasEnds
<1>2. ASSUME NEW n \in K PROVE n + 1 \in K
  <2> SUFFICES ASSUME NEW A \in Sized(n + 1) PROVE HasEnds(A)
    OBVIOUS
  <2>1. n \in Nat /\ IsFiniteSet(A) /\ Cardinality(A) = (n + 1) + 1 /\ A \in SUBSET Int
    OBVIOUS
  <2>2. A # {}
    BY <2>1, FS_EmptySet
  <2>3. PICK e : e \in A
    BY <2>2
  <2>4. PICK B : B = A \ {e}
    OBVIOUS
  <2>5. IsFiniteSet(B) /\ Cardinality(B) = n + 1
    <3>1. IsFiniteSet(A \ {e}) /\ Cardinality(A \ {e}) = Cardinality(A) - 1
      BY <2>1, <2>3, FS_RemoveElement
    <3> QED
      BY <2>1, <2>4, <3>1
  <2>6. B \in Sized(n)
    BY <2>1, <2>4, <2>5
  <2>7. HasEnds(B)
    BY <2>6
  <2>8. PICK g \in B, l \in B : (\A y \in B : y <= g) /\ (\A y \in B : l <= y)
    BY <2>7 DEF HasEnds
  <2>9. e \in Int /\ g \in Int /\ l \in Int /\ A \subseteq Int
    BY <2>1, <2>3, <2>4, <2>8
  <2>10. \E x \in A : \A y \in A : y <= x
    <3>1. CASE e <= g
      BY <2>4, <2>8, <2>9, <3>1
    <3>2. CASE ~ (e <= g)
      BY <2>3, <2>4, <2>8, <2>9, <3>2
    <3> QED
      BY <3>1, <3>2
  <2>11. \E x \in A : \A y \in A : x <= y
    <3>1. CASE l <= e
      BY <2>4, <2>8, <2>9, <3>1
    <3>2. CASE ~ (l <= e)
      BY <2>3, <2>4, <2>8, <2>9, <3>2
    <3> QED
      BY <3>1, <3>2
  <2> QED
    BY <2>10, <2>11 DEF HasEnds
<1>3. K = Nat
  <2>1. K \in SUBSET Nat /\ \A n \in K : n + 1 \in K
    BY <1>2
  <2> HIDE DEF K
  <2> QED
    BY <1>1, <2>1, SetInduction
<1>4. Cardinality(S) \in Nat /\ Cardinality(S) # 0
  BY FS_CardinalityType, FS_EmptySet
<1>5. PICK n \in Nat : Cardinality(S) = n + 1
  <2>1. Cardinality(S) - 1 \in Nat /\ Cardinality(S) = (Cardinality(S) - 1) + 1
    BY <1>4
  <2> QED
    BY <2>1
<1>6. S \in Sized(n) /\ n \in K
  BY <1>3, <1>5
<1> QED
  BY <1>6

LEMMA EndsFacts ==
  ASSUME NEW S \in SUBSET Int, IsFiniteSet(S), S # {}
  PROVE  /\ MostOf(S) \in S /\ LeastOf(S) \in S /\ Spread(S) \in Nat
         /\ \A y \in S : /\ y \in Int /\ y <= MostOf(S) /\ LeastOf(S) <= y
                         /\ y - LeastOf(S) \in 0 .. Spread(S)
                         /\ MostOf(S) - y \in 0 .. Spread(S)
<1>1. HasEnds(S)
  BY FiniteEnds
<1>2. MostOf(S) \in S /\ \A y \in S : y <= MostOf(S)
  BY <1>1 DEF HasEnds, MostOf
<1>3. LeastOf(S) \in S /\ \A y \in S : LeastOf(S) <= y
  BY <1>1 DEF HasEnds, LeastOf
<1>4. PICK m, l \in Int : m = MostOf(S) /\ l = LeastOf(S)
  BY <1>2, <1>3
<1>5. Spread(S) = m - l /\ l <= m
  BY <1>2, <1>3, <1>4 DEF Spread
<1>6. ASSUME NEW y \in S
      PROVE  y \in Int /\ y <= m /\ l <= y /\ y - l \in 0 .. m - l /\ m - y \in 0 .. m - l
  BY <1>2, <1>3, <1>4
<1> QED
  BY <1>2, <1>3, <1>4, <1>5, <1>6

(* Those that do not count as different are the same.                      *)
LEMMA NeighboursAreOne ==
  ASSUME NEW S \in SUBSET Int, IsFiniteSet(S), S # {}, NoNeighbours(S), Spread(S) < Epsilon
  PROVE  Spread(S) = 0 /\ \A x, y \in S : x = y
<1>1. Spread(S) \in Nat /\ Epsilon \in Nat
  BY EndsFacts, MapAssumption
<1>2. Cardinality(S) < 2
  BY <1>1 DEF NoNeighbours
<1>3. Cardinality(S) \in Nat /\ Cardinality(S) # 0
  BY FS_CardinalityType, FS_EmptySet
<1>4. Cardinality(S) = 1
  BY <1>2, <1>3
<1>5. PICK x : S = {x}
  BY <1>4, FS_Singleton
<1>6. MostOf(S) = x /\ LeastOf(S) = x /\ x \in Int
  BY <1>5, EndsFacts
<1> QED
  BY <1>5, <1>6 DEF Spread

(* The zoom: what is as wide and as high as the places are apart fits into *)
(* the room there is for them, and fills its width or its height.          *)
Zoom(lon, lat, W, H) ==
  CASE ~ IsZero(lon) /\ ~ IsZero(lat) -> Smaller(<<W, lon>>, <<H, lat>>)
    [] ~ IsZero(lon) /\ IsZero(lat)   -> <<W, lon>>
    [] IsZero(lon) /\ ~ IsZero(lat)   -> <<H, lat>>
    [] IsZero(lon) /\ IsZero(lat)     -> <<0, 1>>

FitsIn(num, den, lon, lat, W, H) ==
  /\ num \in Nat /\ den \in Nat
  /\ lon * num <= W * den /\ lat * num <= H * den
  /\ lon # 0 \/ lat # 0 => lon * num = W * den \/ lat * num = H * den

LEMMA ZoomFits ==
  ASSUME NEW lon \in Nat, NEW lat \in Nat, NEW W \in Nat, NEW H \in Nat,
         lon < Epsilon => lon = 0, lat < Epsilon => lat = 0
  PROVE  \E num, den : Zoom(lon, lat, W, H) = <<num, den>> /\ FitsIn(num, den, lon, lat, W, H)
<1>1. Epsilon \in Nat /\ IsZero(lon) = (lon < Epsilon) /\ IsZero(lat) = (lat < Epsilon)
  BY MapAssumption DEF IsZero
<1>2. CASE ~ IsZero(lon) /\ ~ IsZero(lat)
  <2>1. Zoom(lon, lat, W, H) = Smaller(<<W, lon>>, <<H, lat>>)
    BY <1>2 DEF Zoom
  <2>2. CASE H * lon < W * lat
    <3>1. Zoom(lon, lat, W, H) = <<H, lat>>
      BY <2>1, <2>2 DEF Smaller
    <3>2. lon * H <= W * lat /\ lat * H = H * lat
      BY <2>2
    <3> QED
      BY <3>1, <3>2 DEF FitsIn
  <2>3. CASE ~ (H * lon < W * lat)
    <3>1. Zoom(lon, lat, W, H) = <<W, lon>>
      BY <2>1, <2>3 DEF Smaller
    <3>2. lat * W <= H * lon /\ lon * W = W * lon
      <4>1. PICK a, b \in Int : a = H * lon /\ b = W * lat
        OBVIOUS
      <4>2. b <= a
        BY <2>3, <4>1
      <4> QED
        BY <4>1, <4>2
    <3> QED
      BY <3>1, <3>2 DEF FitsIn
  <2> QED
    BY <2>2, <2>3
<1>3. CASE ~ IsZero(lon) /\ IsZero(lat)
  <2>1. Zoom(lon, lat, W, H) = <<W, lon>>
    BY <1>3 DEF Zoom
  <2>2. lat = 0 /\ lat * W <= H * lon /\ lon * W = W * lon
    <3>1. lat = 0
      BY <1>1, <1>3
    <3>2. 0 * W = 0 /\ H * lon \in Nat
      OBVIOUS
    <3> QED
      BY <3>1, <3>2
  <2> QED
    BY <2>1, <2>2 DEF FitsIn
<1>4. CASE IsZero(lon) /\ ~ IsZero(lat)
  <2>1. Zoom(lon, lat, W, H) = <<H, lat>>
    BY <1>4 DEF Zoom
  <2>2. lon = 0 /\ lon * H <= W * lat /\ lat * H = H * lat
    <3>1. lon = 0
      BY <1>1, <1>4
    <3>2. 0 * H = 0 /\ W * lat \in Nat
      OBVIOUS
    <3> QED
      BY <3>1, <3>2
  <2> QED
    BY <2>1, <2>2 DEF FitsIn
<1>5. CASE IsZero(lon) /\ IsZero(lat)
  <2>1. Zoom(lon, lat, W, H) = <<0, 1>>
    BY <1>5 DEF Zoom
  <2>2. lon = 0 /\ lat = 0
    BY <1>1, <1>5
  <2> QED
    BY <2>1, <2>2 DEF FitsIn
<1> QED
  BY <1>2, <1>3, <1>4, <1>5

(* One axis: the first place of it is on one margin, none is beyond the    *)
(* other, and if the room is filled the last one is on that.               *)
LEMMA OneAxis ==
  ASSUME NEW spread \in Nat, NEW d \in 0 .. spread, NEW num \in Nat, NEW den \in Nat,
         NEW size \in Nat, NEW padding \in Nat, 2 * padding <= size,
         spread * num <= (size - 2 * padding) * den
  PROVE  /\ padding * den <= d * num + padding * den
         /\ d * num + padding * den <= (size - padding) * den
         /\ 0 * num + padding * den = padding * den
         /\ spread * num = (size - 2 * padding) * den =>
              spread * num + padding * den = (size - padding) * den
<1>1. 0 <= d * num /\ d * num <= spread * num
  <2>1. spread - d \in Nat /\ d \in Nat
    OBVIOUS
  <2>2. d * num \in Nat /\ (spread - d) * num \in Nat
    BY <2>1
  <2>3. (spread - d) * num = spread * num - d * num
    OBVIOUS
  <2> QED
    BY <2>2, <2>3
<1>2. (size - 2 * padding) * den + padding * den = (size - padding) * den
  OBVIOUS
<1>3. PICK a, b, c, e, f \in Int :
        /\ a = d * num /\ b = spread * num /\ c = (size - 2 * padding) * den
        /\ e = padding * den /\ f = (size - padding) * den
  OBVIOUS
<1>4. 0 <= a /\ a <= b /\ b <= c /\ c + e = f
  BY <1>1, <1>2, <1>3
<1>5. e <= a + e /\ a + e <= f /\ 0 * num + e = e /\ (b = c => b + e = f)
  BY <1>3, <1>4
<1> QED
  BY <1>3, <1>5

(* The places of the stops that appear on the map, and how they are drawn. *)
Spots == {PlaceOf(s) : s \in ServedStops(catalogue)}
Lons(P) == {c.lng : c \in P}
Lats(P) == {c.lat : c \in P}

Image(f, S) == {f[x] : x \in S}

LEMMA FiniteImage ==
  ASSUME NEW S, IsFiniteSet(S), NEW f, DOMAIN f = S, f = [x \in S |-> f[x]]
  PROVE  IsFiniteSet(Image(f, S))
<1>1. f \in Surjection(S, Image(f, S))
  BY DEF Surjection, Image
<1> QED
  BY <1>1, FS_Surjection

LEMMA SpotsFacts ==
  ASSUME FromSource
  PROVE  /\ Spots \subseteq [lat : Int, lng : Int] /\ IsFiniteSet(Spots)
         /\ Lons(Spots) \subseteq Int /\ IsFiniteSet(Lons(Spots))
         /\ Lats(Spots) \subseteq Int /\ IsFiniteSet(Lats(Spots))
         /\ Spots = {DocumentPlace(DrawnStops[k]) : k \in DOMAIN DrawnStops}
         /\ Places = {Projected(c) : c \in Spots}
<1>1. Spots \subseteq [lat : Int, lng : Int]
  BY PlaceAsDeclared, MapAssumption DEF Spots
<1>2. IsFiniteSet(Spots)
  <2>1. PICK f : f = [s \in ServedStops(catalogue) |-> PlaceOf(s)]
    OBVIOUS
  <2>2. IsFiniteSet(Image(f, ServedStops(catalogue)))
    BY <2>1, ServedFacts, FiniteImage
  <2> QED
    BY <2>1, <2>2 DEF Image, Spots
<1>3. IsFiniteSet(Lons(Spots))
  <2>1. PICK f : f = [c \in Spots |-> c.lng]
    OBVIOUS
  <2>2. IsFiniteSet(Image(f, Spots))
    BY <1>2, <2>1, FiniteImage
  <2>3. Image(f, Spots) = Lons(Spots)
    BY <2>1 DEF Image, Lons
  <2> QED
    BY <2>2, <2>3
<1>4. IsFiniteSet(Lats(Spots))
  <2>1. PICK f : f = [c \in Spots |-> c.lat]
    OBVIOUS
  <2>2. IsFiniteSet(Image(f, Spots))
    BY <1>2, <2>1, FiniteImage
  <2>3. Image(f, Spots) = Lats(Spots)
    BY <2>1 DEF Image, Lats
  <2> QED
    BY <2>2, <2>3
<1>5. Lons(Spots) \subseteq Int /\ Lats(Spots) \subseteq Int
  BY <1>1 DEF Lons, Lats
<1>6. Spots = {DocumentPlace(DrawnStops[k]) : k \in DOMAIN DrawnStops}
  <2>1. DrawnStops = StopOrder
    BY ServedAsDeclared DEF DrawnStops, StopOrder
  <2>2. DOMAIN StopOrder = 1 .. Stops /\ ToSet(StopOrder) = ServedStops(catalogue)
    BY OrdersFacts, RowFacts
  <2>3. \A k \in 1 .. Stops : PlaceOf(StopOrder[k]) = DocumentPlace(StopOrder[k])
    BY OrdersFacts, PlaceAsDeclared
  <2>4. ASSUME NEW c \in Spots
        PROVE  c \in {DocumentPlace(StopOrder[k]) : k \in 1 .. Stops}
    <3>1. PICK s \in ServedStops(catalogue) : c = PlaceOf(s)
      BY DEF Spots
    <3>2. PICK k \in 1 .. Stops : StopOrder[k] = s
      BY <2>2 DEF ToSet
    <3> QED
      BY <2>3, <3>1, <3>2
  <2>5. ASSUME NEW k \in 1 .. Stops
        PROVE  DocumentPlace(StopOrder[k]) \in Spots
    BY <2>3, OrdersFacts DEF Spots
  <2> QED
    BY <2>1, <2>2, <2>4, <2>5
<1>7. Places = {Projected(c) : c \in Spots}
  BY DEF Places, Spots
<1> QED
  BY <1>1, <1>2, <1>3, <1>4, <1>5, <1>6, <1>7

(* The scale of a map that has a stop.                                     *)
RoomX == settings.width - 2 * settings.padding
RoomY == settings.height - 2 * settings.padding

Scaled(num, den) ==
  /\ proj = [padding |-> settings.padding, min_lon |-> LeastOf(Lons(Spots)),
             max_lat |-> MostOf(Lats(Spots)), zoom |-> <<num, den>>]
  /\ FitsIn(num, den, Spread(Lons(Spots)), Spread(Lats(Spots)), RoomX, RoomY)

LEMMA ScaleOfMap ==
  ASSUME MInv, layer # "frame", Spots # {}, NoNeighbours(Lons(Spots)), NoNeighbours(Lats(Spots))
  PROVE  \E num, den : Scaled(num, den)
<1>1. FromSource /\ settings \in Settings /\ proj = SphereProjector(Spots, settings)
  BY DEF MInv, Frame, Spots
<1>2. /\ settings.width \in Nat /\ settings.height \in Nat /\ settings.padding \in Nat
      /\ 2 * settings.padding <= settings.width /\ 2 * settings.padding <= settings.height
  BY <1>1, MapAssumption
<1>3. PICK A, B : A = Lons(Spots) /\ B = Lats(Spots)
  OBVIOUS
<1>4. /\ A \in SUBSET Int /\ IsFiniteSet(A) /\ A # {} /\ NoNeighbours(A)
      /\ B \in SUBSET Int /\ IsFiniteSet(B) /\ B # {} /\ NoNeighbours(B)
  BY <1>1, <1>3, SpotsFacts DEF Lons, Lats
<1>5. /\ Spread(A) \in Nat /\ (Spread(A) < Epsilon => Spread(A) = 0)
      /\ Spread(B) \in Nat /\ (Spread(B) < Epsilon => Spread(B) = 0)
  BY <1>4, EndsFacts, NeighboursAreOne
<1>6. PICK lon, lat, W, H \in Nat : /\ lon = Spread(A) /\ lat = Spread(B)
                                     /\ W = RoomX /\ H = RoomY
  BY <1>2, <1>5 DEF RoomX, RoomY
<1>7. PICK num, den : Zoom(lon, lat, W, H) = <<num, den>> /\ FitsIn(num, den, lon, lat, W, H)
  BY <1>5, <1>6, ZoomFits
<1>8. SphereProjector(Spots, settings)
        = [padding |-> settings.padding, min_lon |-> LeastOf(A), max_lat |-> MostOf(B),
           zoom |-> Zoom(lon, lat, W, H)]
  BY <1>3, <1>6 DEF SphereProjector, Zoom, Spread, Lons, Lats, RoomX, RoomY
<1> QED
  BY <1>1, <1>3, <1>6, <1>7, <1>8 DEF Scaled

(* The places that are drawn are those of the stops on the map ...         *)
LEMMA PlacesDrawn ==
  ASSUME MInv
  PROVE  UNION {PlacesOf(picture[k]) : k \in DOMAIN picture} \subseteq Places
<1> SUFFICES ASSUME NEW n \in DOMAIN picture PROVE PlacesOf(picture[n]) \subseteq Places
  OBVIOUS
<1>1. FromSource
  BY DEF MInv, Frame
<1>2. PICK l, m \in 0 .. Buses, p, q \in 0 .. Stops : picture = Drawn(l, m, p, q)
  BY PictureParts
<1>3. PICK s : s = Drawn(l, m, p, q)
  OBVIOUS
<1>4. LinesFirst(s, l, m)
  BY <1>1, <1>3, DrawnElements
<1>5. DOMAIN s = 1 .. Len(s) /\ Len(s) \in Nat
  BY <1>4, RowFacts DEF LinesFirst
<1>6. PICK x : x = s[n] /\ x = picture[n]
  BY <1>2, <1>3
<1>7. n \in 1 .. Len(s) /\ Buses \in Nat
  BY <1>1, <1>2, <1>3, <1>5, OrdersFacts
<1>8. CASE n <= l
  <2>1. n \in 1 .. l /\ n \in 1 .. Buses /\ n \in Nat
    BY <1>7, <1>8
  <2>2. x = LineShape(RouteOrder[n], Chosen(n))
    BY <1>4, <1>6, <2>1 DEF LinesFirst
  <2>3. RouteOrder[n] \in NonEmpty(catalogue) /\ Chosen(n) \in Colours
    BY <1>1, <2>1, OrdersFacts DEF Colours
  <2>4. x \in LineShapes
    BY <1>1, <2>2, <2>3, LineFacts
  <2>5. x.shape = "line" /\ x.points \in Seq(Places)
    BY <2>4 DEF LineShapes
  <2>6. ToSet(x.points) \subseteq Places
    BY <2>5 DEF ToSet
  <2> QED
    BY <1>6, <2>5, <2>6 DEF PlacesOf
<1>9. CASE n > l
  <2>1. LabelElement(x, m) \/ x \in PointShapes \/ x \in TitleShapes
    BY <1>4, <1>6, <1>7, <1>9 DEF LinesFirst
  <2>2. x.shape # "line" /\ x.at \in Places
    <3>1. CASE LabelElement(x, m)
      BY <3>1 DEF LabelElement, TextShapes
    <3>2. CASE x \in PointShapes
      BY <3>2 DEF PointShapes
    <3>3. CASE x \in TitleShapes
      BY <3>3 DEF TitleShapes, TextShapes
    <3> QED
      BY <2>1, <3>1, <3>2, <3>3
  <2> QED
    BY <1>6, <2>2 DEF PlacesOf
<1> QED
  BY <1>7, <1>8, <1>9

(* ... and all of them in the end.                                         *)
LEMMA RowElements ==
  ASSUME NEW s, NEW t, IsRow(s), IsRow(t)
  PROVE  ToSet(s \o t) = ToSet(s) \cup ToSet(t)
<1> DEFINE E == ToSet(s) \cup ToSet(t)
<1>1. s \in Seq(E) /\ t \in Seq(E)
  BY DEF IsRow
<1> HIDE DEF E
<1> QED
  BY <1>1, JoinedElements

LEMMA AllPlacesDrawn ==
  ASSUME MInv, layer = "done", NEW c \in Spots
  PROVE  Projected(c) \in UNION {PlacesOf(picture[k]) : k \in DOMAIN picture}
<1>1. FromSource /\ picture = RouteRows \o StopRows
  BY DEF MInv, Frame, Content
<1>2. PICK stop \in ServedStops(catalogue) : c = PlaceOf(stop)
  BY DEF Spots
<1>3. PICK j \in 1 .. Stops : StopOrder[j] = stop
  BY <1>1, OrdersFacts, RowFacts DEF ToSet
<1>4. PICK x : x = PointShape(stop)
  OBVIOUS
<1>5. Points[j] = <<x>>
  BY <1>3, <1>4 DEF Points
<1>6. x \in ToSet(Points[j])
  BY <1>5 DEF ToSet
<1>7. x \in ToSet(Upto(Points, Stops))
  <2>1. Stops \in Nat /\ Stops \in 0 .. Stops /\ AreRows(Points, Stops, PointShapes)
    BY <1>1, OrdersFacts, PointRows
  <2> QED
    BY <1>6, <2>1, UptoElements
<1>8. /\ IsRow(RouteRows) /\ IsRow(Upto(Points, Stops)) /\ IsRow(Upto(Titles, Stops))
      /\ IsRow(StopRows)
  <2>1. Stops \in 0 .. Stops
    BY <1>1, OrdersFacts
  <2>2. IsRow(RouteRows) /\ IsRow(Upto(Points, Stops)) /\ IsRow(Upto(Titles, Stops))
    BY <2>1, PictureRows
  <2> QED
    BY <2>2, RowsJoined DEF StopRows
<1>9. x \in ToSet(StopRows)
  BY <1>7, <1>8, RowElements DEF StopRows
<1>10. x \in ToSet(picture)
  BY <1>1, <1>8, <1>9, RowElements
<1>11. PICK k \in DOMAIN picture : picture[k] = x
  BY <1>10 DEF ToSet
<1>12. PlacesOf(x) = {Projected(c)}
  BY <1>2, <1>4 DEF PlacesOf, PointShape
<1> QED
  BY <1>11, <1>12

(* On each axis a place is where its distance from the first one puts it.  *)
LEMMA PlacedOnAxes ==
  ASSUME FromSource, NEW num, NEW den, Scaled(num, den), NEW c \in Spots
  PROVE  /\ Projected(c).x = (c.lng - LeastOf(Lons(Spots))) * num + settings.padding * den
         /\ Projected(c).y = (MostOf(Lats(Spots)) - c.lat) * num + settings.padding * den
         /\ c.lng - LeastOf(Lons(Spots)) \in 0 .. Spread(Lons(Spots))
         /\ MostOf(Lats(Spots)) - c.lat \in 0 .. Spread(Lats(Spots))
<1>1. PICK A, B : A = Lons(Spots) /\ B = Lats(Spots)
  OBVIOUS
<1>2. c.lng \in A /\ c.lat \in B
  BY <1>1 DEF Lons, Lats
<1>3. /\ A \in SUBSET Int /\ IsFiniteSet(A) /\ A # {}
      /\ B \in SUBSET Int /\ IsFiniteSet(B) /\ B # {}
  BY <1>1, <1>2, SpotsFacts
<1>4. c.lng - LeastOf(A) \in 0 .. Spread(A) /\ MostOf(B) - c.lat \in 0 .. Spread(B)
  BY <1>2, <1>3, EndsFacts
<1>5. /\ proj.padding = settings.padding /\ proj.min_lon = LeastOf(A)
      /\ proj.max_lat = MostOf(B) /\ proj.zoom[1] = num /\ proj.zoom[2] = den
  BY <1>1 DEF Scaled
<1>6. /\ Projected(c).x = (c.lng - LeastOf(A)) * num + settings.padding * den
      /\ Projected(c).y = (MostOf(B) - c.lat) * num + settings.padding * den
  BY <1>5 DEF Projected
<1> QED
  BY <1>1, <1>4, <1>6

(* The places that are first and last on an axis.                          *)
LEMMA EndsOfAxes ==
  ASSUME FromSource, Spots # {}
  PROVE  /\ Spread(Lons(Spots)) \in Nat /\ Spread(Lats(Spots)) \in Nat
         /\ \E c \in Spots : c.lng - LeastOf(Lons(Spots)) = 0
         /\ \E c \in Spots : c.lng - LeastOf(Lons(Spots)) = Spread(Lons(Spots))
         /\ \E c \in Spots : MostOf(Lats(Spots)) - c.lat = 0
         /\ \E c \in Spots : MostOf(Lats(Spots)) - c.lat = Spread(Lats(Spots))
<1>1. PICK A, B : A = Lons(Spots) /\ B = Lats(Spots)
  OBVIOUS
<1>2. /\ A \in SUBSET Int /\ IsFiniteSet(A) /\ A # {}
      /\ B \in SUBSET Int /\ IsFiniteSet(B) /\ B # {}
  BY <1>1, SpotsFacts DEF Lons, Lats
<1>3. /\ MostOf(A) \in A /\ LeastOf(A) \in A /\ Spread(A) \in Nat
      /\ MostOf(B) \in B /\ LeastOf(B) \in B /\ Spread(B) \in Nat
  BY <1>2, EndsFacts
<1>4. (\E c \in Spots : c.lng = LeastOf(A)) /\ (\E c \in Spots : c.lng = MostOf(A))
  BY <1>1, <1>3 DEF Lons
<1>5. (\E c \in Spots : c.lat = LeastOf(B)) /\ (\E c \in Spots : c.lat = MostOf(B))
  BY <1>1, <1>3 DEF Lats
<1>6. LeastOf(A) - LeastOf(A) = 0 /\ MostOf(B) - MostOf(B) = 0
  <2>1. LeastOf(A) \in Int /\ MostOf(B) \in Int
    BY <1>2, <1>3
  <2> QED
    BY <2>1
<1> QED
  BY <1>1, <1>3, <1>4, <1>5, <1>6 DEF Spread

(* Two places are apart on one axis at least.                              *)
LEMMA TwoSpotsApart ==
  ASSUME FromSource, Spots # {}, Spread(Lons(Spots)) = 0, Spread(Lats(Spots)) = 0
  PROVE  ~ (Cardinality(Spots) > 1)
<1>1. PICK A, B : A = Lons(Spots) /\ B = Lats(Spots)
  OBVIOUS
<1>2. /\ A \in SUBSET Int /\ IsFiniteSet(A) /\ A # {}
      /\ B \in SUBSET Int /\ IsFiniteSet(B) /\ B # {}
  BY <1>1, SpotsFacts DEF Lons, Lats
<1>3. /\ LeastOf(A) \in Int /\ \A y \in A : y \in Int /\ y - LeastOf(A) \in 0 .. 0
      /\ MostOf(B) \in Int /\ \A y \in B : y \in Int /\ MostOf(B) - y \in 0 .. 0
  BY <1>1, <1>2, EndsFacts
<1>4. (\A y \in A : y = LeastOf(A)) /\ (\A y \in B : y = MostOf(B))
  BY <1>3
<1>5. ASSUME NEW c \in Spots, NEW d \in Spots PROVE c = d
  <2>1. c \in [lat : Int, lng : Int] /\ d \in [lat : Int, lng : Int]
    BY SpotsFacts
  <2>2. c.lng \in A /\ d.lng \in A /\ c.lat \in B /\ d.lat \in B
    BY <1>1 DEF Lons, Lats
  <2>3. c.lng = d.lng /\ c.lat = d.lat
    BY <1>4, <2>2
  <2> QED
    BY <2>1, <2>3
<1>6. PICK c : c \in Spots
  OBVIOUS
<1>7. Spots = {c}
  BY <1>5, <1>6
<1>8. Cardinality(Spots) = 1
  BY <1>7, FS_Singleton
<1> QED
  BY <1>8

(* What is drawn is within the margins, and two places reach from one      *)
(* margin to the opposite one.                                             *)
Within(p, den) ==
  /\ settings.padding * den <= p.x /\ p.x <= (settings.width - settings.padding) * den
  /\ settings.padding * den <= p.y /\ p.y <= (settings.height - settings.padding) * den

LEMMA SpotsWithin ==
  ASSUME FromSource, settings \in Settings, NEW num, NEW den, Scaled(num, den), NEW c \in Spots
  PROVE  Within(Projected(c), den)
<1>1. PICK lon, lat, dx, dy, w, h, padding :
        /\ lon = Spread(Lons(Spots)) /\ lat = Spread(Lats(Spots))
        /\ dx = c.lng - LeastOf(Lons(Spots)) /\ dy = MostOf(Lats(Spots)) - c.lat
        /\ w = settings.width /\ h = settings.height /\ padding = settings.padding
  OBVIOUS
<1>2. /\ lon \in Nat /\ lat \in Nat /\ dx \in 0 .. lon /\ dy \in 0 .. lat
      /\ w \in Nat /\ h \in Nat /\ padding \in Nat /\ 2 * padding <= w /\ 2 * padding <= h
  BY <1>1, EndsOfAxes, PlacedOnAxes, MapAssumption
<1>3. /\ num \in Nat /\ den \in Nat
      /\ lon * num <= (w - 2 * padding) * den /\ lat * num <= (h - 2 * padding) * den
  BY <1>1 DEF Scaled, FitsIn, RoomX, RoomY
<1>4. padding * den <= dx * num + padding * den /\ dx * num + padding * den <= (w - padding) * den
  BY <1>2, <1>3, OneAxis
<1>5. padding * den <= dy * num + padding * den /\ dy * num + padding * den <= (h - padding) * den
  BY <1>2, <1>3, OneAxis
<1>6. /\ Projected(c).x = dx * num + padding * den
      /\ Projected(c).y = dy * num + padding * den
  BY <1>1, PlacedOnAxes
<1> QED
  BY <1>1, <1>4, <1>5, <1>6 DEF Within

Reach(S, size, den) ==
  {settings.padding * den, (size - settings.padding) * den} \subseteq S

LEMMA SpotsReach ==
  ASSUME FromSource, settings \in Settings, Spots # {}, Cardinality(Spots) > 1,
         NEW num, NEW den, Scaled(num, den),
         NEW places, \A c \in Spots : Projected(c) \in places
  PROVE  \/ Reach({p.x : p \in places}, settings.width, den)
         \/ Reach({p.y : p \in places}, settings.height, den)
<1>1. PICK lon, lat, w, h, padding :
        /\ lon = Spread(Lons(Spots)) /\ lat = Spread(Lats(Spots))
        /\ w = settings.width /\ h = settings.height /\ padding = settings.padding
  OBVIOUS
<1>2. /\ lon \in Nat /\ lat \in Nat
      /\ w \in Nat /\ h \in Nat /\ padding \in Nat /\ 2 * padding <= w /\ 2 * padding <= h
  BY <1>1, EndsOfAxes, MapAssumption
<1>3. /\ num \in Nat /\ den \in Nat
      /\ lon * num <= (w - 2 * padding) * den /\ lat * num <= (h - 2 * padding) * den
      /\ lon # 0 \/ lat # 0 =>
           lon * num = (w - 2 * padding) * den \/ lat * num = (h - 2 * padding) * den
  BY <1>1 DEF Scaled, FitsIn, RoomX, RoomY
<1>4. lon # 0 \/ lat # 0
  BY <1>1, TwoSpotsApart
<1>5. CASE lon * num = (w - 2 * padding) * den
  <2>1. PICK a \in Spots, b \in Spots : /\ a.lng - LeastOf(Lons(Spots)) = 0
                                         /\ b.lng - LeastOf(Lons(Spots)) = lon
    BY <1>1, EndsOfAxes
  <2>2. Projected(a).x = 0 * num + padding * den /\ Projected(b).x = lon * num + padding * den
    BY <1>1, <2>1, PlacedOnAxes
  <2>3. lon \in 0 .. lon
    BY <1>2
  <2>4. 0 * num + padding * den = padding * den /\ lon * num + padding * den = (w - padding) * den
    BY <1>2, <1>3, <1>5, <2>3, OneAxis
  <2>5. Projected(a).x = padding * den /\ Projected(b).x = (w - padding) * den
    BY <2>2, <2>4
  <2>6. Projected(a) \in places /\ Projected(b) \in places
    OBVIOUS
  <2> QED
    BY <1>1, <2>5, <2>6 DEF Reach
<1>6. CASE lat * num = (h - 2 * padding) * den
  <2>1. PICK a \in Spots, b \in Spots : /\ MostOf(Lats(Spots)) - a.lat = 0
                                         /\ MostOf(Lats(Spots)) - b.lat = lat
    BY <1>1, EndsOfAxes
  <2>2. Projected(a).y = 0 * num + padding * den /\ Projected(b).y = lat * num + padding * den
    BY <1>1, <2>1, PlacedOnAxes
  <2>3. lat \in 0 .. lat
    BY <1>2
  <2>4. 0 * num + padding * den = padding * den /\ lat * num + padding * den = (h - padding) * den
    BY <1>2, <1>3, <1>6, <2>3, OneAxis
  <2>5. Projected(a).y = padding * den /\ Projected(b).y = (h - padding) * den
    BY <2>2, <2>4
  <2>6. Projected(a) \in places /\ Projected(b) \in places
    OBVIOUS
  <2> QED
    BY <1>1, <2>5, <2>6 DEF Reach
<1> QED
  BY <1>3, <1>4, <1>5, <1>6

(* Whatever is drawn is within the margins of the image, and two places    *)
(* or more reach from one margin to the opposite one.                      *)
THEOREM InsideImageHolds == Spec => []InsideImage
<1>1. MInv => InsideImage
  <2> SUFFICES ASSUME MInv PROVE InsideImage
    OBVIOUS
  <2>1. FromSource /\ settings \in Settings
    BY DEF MInv, Frame
  <2>2. PICK places : places = UNION {PlacesOf(picture[k]) : k \in DOMAIN picture}
    OBVIOUS
  <2>3. Spots = {DocumentPlace(DrawnStops[k]) : k \in DOMAIN DrawnStops}
    BY <2>1, SpotsFacts
  <2>4. places \subseteq {Projected(c) : c \in Spots}
    BY <2>1, <2>2, PlacesDrawn, SpotsFacts
  <2>5. layer = "done" => \A c \in Spots : Projected(c) \in places
    BY <2>2, AllPlacesDrawn
  <2>6. SUFFICES ASSUME picture # <<>>, NoNeighbours(Lats(Spots)), NoNeighbours(Lons(Spots))
                 PROVE  /\ \A p \in places : Within(p, proj.zoom[2])
                        /\ (layer = "done" /\ Cardinality(Spots) > 1) =>
                             \/ Reach({p.x : p \in places}, settings.width, proj.zoom[2])
                             \/ Reach({p.y : p \in places}, settings.height, proj.zoom[2])
    BY <2>2, <2>3 DEF InsideImage, Lats, Lons, Within, Reach
  <2>7. layer # "frame"
    BY <2>6 DEF MInv, Content
  <2>8. CASE Spots = {}
    <3>1. Cardinality(Spots) = 0
      BY <2>8, FS_EmptySet
    <3> QED
      BY <2>4, <2>8, <3>1
  <2>9. CASE Spots # {}
    <3>1. PICK num, den : Scaled(num, den)
      BY <2>6, <2>7, <2>9, ScaleOfMap
    <3>2. proj.zoom[2] = den
      BY <3>1 DEF Scaled
    <3>3. \A c \in Spots : Within(Projected(c), den)
      BY <2>1, <3>1, SpotsWithin
    <3>4. \A p \in places : Within(p, den)
      BY <2>4, <3>3
    <3>5. ASSUME layer = "done", Cardinality(Spots) > 1
          PROVE  \/ Reach({p.x : p \in places}, settings.width, den)
                 \/ Reach({p.y : p \in places}, settings.height, den)
      <4>1. \A c \in Spots : Projected(c) \in places
        BY <2>5, <3>5
      <4> QED
        BY <2>1, <2>9, <3>1, <3>5, <4>1, SpotsReach
    <3> QED
      BY <3>2, <3>4, <3>5
  <2> QED
    BY <2>8, <2>9
<1> QED
  BY <1>1, AlwaysMInv, PTL
=============================================================================
