--------------------------- MODULE JSONReaderProofs ---------------------------
(***************************************************************************)
(* Catalogues and the documents they are built from: what the operations   *)
(* of the catalogue do to its three maps, and that DBBuilder, a fold over  *)
(* the requests, returns a catalogue whose stops and buses agree, and      *)
(* whose distances and routes are those of the document.  First come the   *)
(* lemmas about recursion, sums and sequences that this rests on.          *)
(***************************************************************************)
EXTENDS JSONReader, FiniteSetTheorems, WellFoundedInduction, TLAPS

-----------------------------------------------------------------------------
(* Induction on the natural numbers and functions defined by recursion on  *)
(* them.  Induction is stated of sets instead of predicates and recursion  *)
(* of functions instead of operators: no lemma has an operator parameter,  *)
(* so each is an instance away from a first-order fact.                    *)

LessThan == {p \in Nat \X Nat : p[1] < p[2]}

(* Every set of naturals that is not empty has a least element.            *)
LEMMA LessThanWF == IsWellFoundedOn(LessThan, Nat)
BY NatLessThanWellFounded DEF OpToRel, LessThan

(* A set of naturals with 0 and the successor of each of its members holds *)
(* them all.                                                               *)
LEMMA SetInduction ==
  ASSUME NEW S \in SUBSET Nat, 0 \in S, \A n \in S : n + 1 \in S
  PROVE  S = Nat
<1> SUFFICES ASSUME Nat \ S # {} PROVE FALSE
  OBVIOUS
<1>1. PICK x \in Nat \ S : \A y \in Nat \ S : ~ (<<y, x>> \in LessThan)
  BY LessThanWF, WFMin
<1>2. x - 1 \in Nat /\ <<x - 1, x>> \in LessThan
  BY DEF LessThan
<1> QED
  BY <1>1, <1>2

(* The functions that make a value out of a value, one for each step, and  *)
(* what iterating them from a first value yields.                          *)
StepsOn(T) == [Nat -> [T -> T]]

Iterates(g, start, step) ==
  g[0] = start /\ \A n \in Nat : g[n + 1] = step[n][g[n]]

(* A value and a step that makes a value of a value determine a sequence   *)
(* of values: recursive definitions over the naturals define a function.   *)
LEMMA PrimitiveRecursion ==
  ASSUME NEW T, NEW start \in T, NEW step \in StepsOn(T)
  PROVE  \E g \in [Nat -> T] : Iterates(g, start, step)
<1> USE DEF StepsOn
<1> DEFINE Begins(N, h) ==
             /\ h \in [0 .. N -> T] /\ h[0] = start
             /\ \A n \in 0 .. N - 1 : h[n + 1] = step[n][h[n]]
<1>1. \A N \in Nat : \E h : Begins(N, h)
  <2> DEFINE S == {N \in Nat : \E h : Begins(N, h)}
  <2>1. 0 \in S
    <3>1. Begins(0, [n \in 0 .. 0 |-> start])
      OBVIOUS
    <3> QED
      BY <3>1
  <2>2. ASSUME NEW N \in S PROVE N + 1 \in S
    <3>1. PICK h : Begins(N, h)
      OBVIOUS
    <3> DEFINE e == [n \in 0 .. N + 1 |-> IF n = N + 1 THEN step[N][h[N]] ELSE h[n]]
    <3>2. N \in Nat /\ h \in [0 .. N -> T] /\ step[N][h[N]] \in T
      BY <3>1
    <3>3. e \in [0 .. N + 1 -> T] /\ e[0] = start
      BY <3>1, <3>2
    <3>4. ASSUME NEW n \in 0 .. N PROVE e[n + 1] = step[n][e[n]]
      <4>1. CASE n = N
        BY <3>2, <4>1
      <4>2. CASE n # N
        <5>1. n \in 0 .. N - 1 /\ n + 1 \in 0 .. N
          BY <3>2, <4>2
        <5>2. h[n + 1] = step[n][h[n]]
          BY <3>1, <5>1
        <5>3. e[n + 1] = h[n + 1] /\ e[n] = h[n]
          BY <3>2, <5>1
        <5> QED
          BY <5>2, <5>3
      <4> QED
        BY <4>1, <4>2
    <3> HIDE DEF e
    <3>5. Begins(N + 1, e)
      BY <3>2, <3>3, <3>4
    <3> HIDE DEF Begins
    <3> QED
      BY <3>2, <3>5
  <2> HIDE DEF Begins
  <2>3. S = Nat
    <3>1. S \in SUBSET Nat
      OBVIOUS
    <3> HIDE DEF S
    <3> QED
      BY <2>1, <2>2, <3>1, SetInduction
  <2> QED
    BY <2>3
<1>2. ASSUME NEW M \in Nat, NEW N \in Nat, M <= N, NEW h, NEW e,
             Begins(M, h), Begins(N, e)
      PROVE  h[M] = e[M]
  <2> DEFINE S == {n \in Nat : n <= M => h[n] = e[n]}
  <2>1. 0 \in S
    BY <1>2
  <2>2. ASSUME NEW n \in S PROVE n + 1 \in S
    <3> SUFFICES ASSUME n + 1 <= M PROVE h[n + 1] = e[n + 1]
      OBVIOUS
    <3>1. n \in 0 .. M - 1 /\ n \in 0 .. N - 1 /\ h[n] = e[n]
      BY <1>2
    <3> QED
      BY <1>2, <3>1
  <2>3. S = Nat
    <3>1. S \in SUBSET Nat
      OBVIOUS
    <3> HIDE DEF S
    <3> QED
      BY <2>1, <2>2, <3>1, SetInduction
  <2> QED
    BY <2>3
<1> DEFINE At(N) == CHOOSE h : Begins(N, h)
           g     == [n \in Nat |-> At(n)[n]]
<1>3. \A N \in Nat : Begins(N, At(N))
  <2> HIDE DEF Begins
  <2> QED
    BY <1>1
<1> HIDE DEF At
<1>4. \A n \in Nat : At(n)[n] \in T
  BY <1>3
<1>5. g \in [Nat -> T]
  BY <1>4
<1>6. g[0] = start
  BY <1>3
<1>7. ASSUME NEW n \in Nat PROVE g[n + 1] = step[n][g[n]]
  <2>1. Begins(n, At(n)) /\ Begins(n + 1, At(n + 1))
    BY <1>3
  <2>2. At(n + 1)[n + 1] = step[n][At(n + 1)[n]]
    BY <2>1
  <2>3. At(n)[n] = At(n + 1)[n]
    <3> HIDE DEF Begins
    <3> QED
      BY <1>2, <2>1
  <2> QED
    BY <2>2, <2>3
<1> HIDE DEF g
<1> QED
  BY <1>5, <1>6, <1>7 DEF Iterates

(* The same for a sequence of N steps.                                     *)
StepsTo(N, T) == [1 .. N -> [T -> T]]

IteratesTo(N, g, start, step) ==
  g[0] = start /\ \A n \in 1 .. N : g[n] = step[n][g[n - 1]]

(* A value and N steps determine a sequence of values.                     *)
LEMMA IntervalRecursion ==
  ASSUME NEW T, NEW start \in T, NEW N \in Nat, NEW step \in StepsTo(N, T)
  PROVE  \E g \in [0 .. N -> T] : IteratesTo(N, g, start, step)
<1>1. PICK long \in StepsOn(T) : \A n \in 1 .. N : long[n - 1] = step[n]
  <2> DEFINE long == [n \in Nat |-> IF n + 1 \in 1 .. N THEN step[n + 1]
                                                     ELSE [x \in T |-> start]]
  <2>1. long \in StepsOn(T) /\ \A n \in 1 .. N : long[n - 1] = step[n]
    BY DEF StepsOn, StepsTo
  <2> QED
    BY <2>1
<1>2. PICK h \in [Nat -> T] : Iterates(h, start, long)
  BY PrimitiveRecursion
<1> DEFINE g == [n \in 0 .. N |-> h[n]]
<1>3. g \in [0 .. N -> T] /\ g[0] = start
  BY <1>2 DEF Iterates
<1>4. ASSUME NEW n \in 1 .. N PROVE g[n] = step[n][g[n - 1]]
  <2>1. n - 1 \in Nat /\ n - 1 \in 0 .. N /\ (n - 1) + 1 = n
    OBVIOUS
  <2>2. h[(n - 1) + 1] = long[n - 1][h[n - 1]]
    BY <1>2, <2>1 DEF Iterates
  <2> QED
    BY <1>1, <2>1, <2>2
<1> HIDE DEF g
<1> QED
  BY <1>3, <1>4 DEF IteratesTo

-----------------------------------------------------------------------------
(* Sequences, from their beginning.                                        *)

(* A sequence that is not empty is one that is shorter by one element, and *)
(* its last element.                                                       *)
LEMMA FrontAndLast ==
  ASSUME NEW E, NEW s \in Seq(E), NEW n \in Nat, Len(s) = n + 1
  PROVE  /\ SubSeq(s, 1, n) \in Seq(E) /\ Len(SubSeq(s, 1, n)) = n
         /\ s[n + 1] \in E
         /\ s = Append(SubSeq(s, 1, n), s[n + 1])
OBVIOUS

(* A set with the empty sequence, and with every sequence that is longer   *)
(* by one element than one of its members, holds all the sequences.        *)
LEMMA SequenceInduction ==
  ASSUME NEW E, NEW S \in SUBSET Seq(E), <<>> \in S,
         \A s \in S, e \in E : Append(s, e) \in S
  PROVE  S = Seq(E)
<1> DEFINE L == {n \in Nat : \A s \in Seq(E) : Len(s) = n => s \in S}
<1>1. 0 \in L
  <2>1. ASSUME NEW s \in Seq(E), Len(s) = 0 PROVE s = <<>>
    BY <2>1
  <2> QED
    BY <2>1
<1>2. ASSUME NEW n \in L PROVE n + 1 \in L
  <2>1. ASSUME NEW s \in Seq(E), Len(s) = n + 1 PROVE s \in S
    <3>1. /\ SubSeq(s, 1, n) \in Seq(E) /\ Len(SubSeq(s, 1, n)) = n
          /\ s[n + 1] \in E /\ s = Append(SubSeq(s, 1, n), s[n + 1])
      BY <2>1, FrontAndLast
    <3>2. SubSeq(s, 1, n) \in S
      BY <3>1
    <3> QED
      BY <3>1, <3>2
  <2> QED
    BY <2>1
<1>3. L = Nat
  <2>1. L \in SUBSET Nat
    OBVIOUS
  <2> HIDE DEF L
  <2> QED
    BY <1>1, <1>2, <2>1, SetInduction
<1>4. ASSUME NEW s \in Seq(E) PROVE s \in S
  <2>1. Len(s) \in L
    BY <1>3
  <2> QED
    BY <2>1
<1> QED
  BY <1>4

(* The value N steps lead to.                                              *)
FoldTo(N, T, start, step) ==
  (CHOOSE g : g \in [0 .. N -> T] /\ IteratesTo(N, g, start, step))[N]

(* It is reached by some sequence of values, and by no other sequence is   *)
(* another value reached after as many of those steps.                     *)
LEMMA FoldToIterates ==
  ASSUME NEW T, NEW start \in T, NEW N \in Nat, NEW step \in StepsTo(N, T)
  PROVE  \E g \in [0 .. N -> T] :
           IteratesTo(N, g, start, step) /\ FoldTo(N, T, start, step) = g[N]
BY IntervalRecursion DEF FoldTo

LEMMA IteratesAgree ==
  ASSUME NEW T, NEW start \in T, NEW M \in Nat, NEW N \in Nat, M <= N,
         NEW less \in StepsTo(M, T), NEW more \in StepsTo(N, T),
         \A n \in 1 .. M : less[n] = more[n],
         NEW h \in [0 .. M -> T], IteratesTo(M, h, start, less),
         NEW g \in [0 .. N -> T], IteratesTo(N, g, start, more)
  PROVE  \A n \in 0 .. M : h[n] = g[n]
<1> DEFINE S == {n \in Nat : n <= M => h[n] = g[n]}
<1>1. 0 \in S
  BY DEF IteratesTo
<1>2. ASSUME NEW n \in S PROVE n + 1 \in S
  <2> SUFFICES ASSUME n + 1 <= M PROVE h[n + 1] = g[n + 1]
    OBVIOUS
  <2>1. n + 1 \in 1 .. M /\ n + 1 \in 1 .. N /\ (n + 1) - 1 = n /\ h[n] = g[n]
    OBVIOUS
  <2> QED
    BY <2>1 DEF IteratesTo
<1>3. S = Nat
  <2>1. S \in SUBSET Nat
    OBVIOUS
  <2> HIDE DEF S
  <2> QED
    BY <1>1, <1>2, <2>1, SetInduction
<1> QED
  BY <1>3

(* No steps lead nowhere ...                                               *)
LEMMA FoldToFacts ==
  ASSUME NEW T, NEW start \in T, NEW N \in Nat, NEW step \in StepsTo(N, T)
  PROVE  /\ FoldTo(N, T, start, step) \in T
         /\ N = 0 => FoldTo(N, T, start, step) = start
BY FoldToIterates DEF IteratesTo

(* ... and one step more is taken from where the others led.               *)
LEMMA FoldToNext ==
  ASSUME NEW T, NEW start \in T, NEW N \in Nat,
         NEW less \in StepsTo(N, T), NEW more \in StepsTo(N + 1, T),
         \A n \in 1 .. N : less[n] = more[n]
  PROVE  FoldTo(N + 1, T, start, more) = more[N + 1][FoldTo(N, T, start, less)]
<1>1. N + 1 \in Nat /\ N + 1 \in 1 .. N + 1 /\ N <= N + 1 /\ (N + 1) - 1 = N
  OBVIOUS
<1>2. PICK g \in [0 .. N + 1 -> T] :
        IteratesTo(N + 1, g, start, more) /\ FoldTo(N + 1, T, start, more) = g[N + 1]
  BY <1>1, FoldToIterates
<1>3. PICK h \in [0 .. N -> T] :
        IteratesTo(N, h, start, less) /\ FoldTo(N, T, start, less) = h[N]
  BY FoldToIterates
<1>4. h[N] = g[N]
  BY <1>1, <1>2, <1>3, IteratesAgree
<1>5. g[N + 1] = more[N + 1][g[N]]
  BY <1>1, <1>2 DEF IteratesTo
<1> QED
  BY <1>2, <1>3, <1>4, <1>5

-----------------------------------------------------------------------------
(* Sums.                                                                   *)

(* g[k] is the sum of w from m + 1 to k.                                   *)
Sums(g, m, n, w) ==
  g[m] = 0 /\ \A k \in m + 1 .. n : g[k] = g[k - 1] + w[k]

LEMMA SumsExist ==
  ASSUME NEW m \in Int, NEW n \in Int, m <= n, NEW w \in [m + 1 .. n -> Int]
  PROVE  \E g \in [m .. n -> Int] : Sums(g, m, n, w)
<1> DEFINE N == n - m
           step == [k \in 1 .. N |-> [c \in Int |-> c + w[m + k]]]
<1>1. \A k \in 1 .. N : m + k \in m + 1 .. n /\ w[m + k] \in Int
  OBVIOUS
<1>2. N \in Nat /\ 0 \in Int
  OBVIOUS
<1>3. step \in StepsTo(N, Int)
  BY <1>1 DEF StepsTo
<1>4. \A k \in 1 .. N : \A c \in Int : step[k][c] = c + w[m + k]
  OBVIOUS
<1> HIDE DEF step, N
<1>5. PICK h \in [0 .. N -> Int] : IteratesTo(N, h, 0, step)
  BY <1>2, <1>3, IntervalRecursion, Zenon
<1> DEFINE g == [k \in m .. n |-> h[k - m]]
<1>6. \A k \in m .. n : k - m \in 0 .. N /\ h[k - m] \in Int
  BY <1>5 DEF N
<1>7. g \in [m .. n -> Int]
  BY <1>6
<1>8. g[m] = 0
  BY <1>5 DEF IteratesTo
<1>9. ASSUME NEW k \in m + 1 .. n PROVE g[k] = g[k - 1] + w[k]
  <2>1. /\ k \in m .. n /\ k - 1 \in m .. n /\ k - m \in 1 .. N
        /\ (k - m) - 1 = (k - 1) - m /\ m + (k - m) = k
    BY DEF N
  <2>2. h[k - m] = step[k - m][h[(k - m) - 1]]
    BY <1>5, <2>1 DEF IteratesTo
  <2> QED
    BY <1>4, <1>6, <2>1, <2>2
<1> HIDE DEF g
<1> QED
  BY <1>7, <1>8, <1>9 DEF Sums

(* There is but one sum.                                                   *)
LEMMA SumsAgree ==
  ASSUME NEW m \in Int, NEW n \in Int, NEW w, NEW v, NEW g, NEW h,
         Sums(g, m, n, w), Sums(h, m, n, v), \A k \in m + 1 .. n : w[k] = v[k]
  PROVE  \A k \in m .. n : g[k] = h[k]
<1> DEFINE S == {d \in Nat : m + d <= n => g[m + d] = h[m + d]}
<1>1. 0 \in S
  BY DEF Sums
<1>2. ASSUME NEW d \in S PROVE d + 1 \in S
  <2> SUFFICES ASSUME m + (d + 1) <= n PROVE g[m + (d + 1)] = h[m + (d + 1)]
    OBVIOUS
  <2>1. /\ m + (d + 1) \in m + 1 .. n /\ (m + (d + 1)) - 1 = m + d
        /\ g[m + d] = h[m + d]
    OBVIOUS
  <2> QED
    BY <2>1 DEF Sums
<1>3. S = Nat
  <2>1. S \in SUBSET Nat
    OBVIOUS
  <2> HIDE DEF S
  <2> QED
    BY <1>1, <1>2, <2>1, SetInduction
<1>4. ASSUME NEW k \in m .. n PROVE g[k] = h[k]
  <2>1. k - m \in Nat /\ m + (k - m) = k /\ m + (k - m) <= n
    OBVIOUS
  <2>2. k - m \in S
    <3> HIDE DEF S
    <3> QED
      BY <1>3, <2>1
  <2> QED
    BY <2>1, <2>2
<1> QED
  BY <1>4

(* From here on sums start at zero and have n integers to add.             *)
Summands(w, n) == \A k \in 1 .. n : w[k] \in Int

Total(g, n, w) == Sums(g, 0, n, w)

LEMMA TotalExists ==
  ASSUME NEW n \in Nat, NEW w, Summands(w, n)
  PROVE  \E g : Total(g, n, w)
<1> DEFINE v == [k \in 0 + 1 .. n |-> w[k]]
<1>1. v \in [0 + 1 .. n -> Int] /\ \A k \in 0 + 1 .. n : v[k] = w[k]
  BY DEF Summands
<1> HIDE DEF v
<1>2. PICK g \in [0 .. n -> Int] : Sums(g, 0, n, v)
  <2>1. 0 \in Int /\ n \in Int /\ 0 <= n
    OBVIOUS
  <2> QED
    BY <1>1, <2>1, SumsExist
<1>3. Sums(g, 0, n, w)
  BY <1>1, <1>2 DEF Sums
<1> QED
  BY <1>3 DEF Total

LEMMA TotalsAgree ==
  ASSUME NEW n \in Nat, NEW w, NEW v, NEW g, NEW h, Total(g, n, w), Total(h, n, v),
         \A k \in 1 .. n : w[k] = v[k]
  PROVE  \A k \in 0 .. n : g[k] = h[k]
<1>1. \A k \in 0 + 1 .. n : w[k] = v[k]
  OBVIOUS
<1>2. 0 \in Int /\ n \in Int /\ Sums(g, 0, n, w) /\ Sums(h, 0, n, v)
  BY DEF Total
<1> QED
  BY <1>1, <1>2, SumsAgree

LEMMA TotalSteps ==
  ASSUME NEW n \in Nat, NEW w, NEW g
  PROVE  Total(g, n, w) <=> g[0] = 0 /\ \A k \in 1 .. n : g[k] = g[k - 1] + w[k]
<1>1. 0 + 1 .. n = 1 .. n
  OBVIOUS
<1> QED
  BY <1>1 DEF Total, Sums

(* A sum of integers is one.                                               *)
LEMMA TotalType ==
  ASSUME NEW n \in Nat, NEW w, Summands(w, n), NEW g, Total(g, n, w)
  PROVE  \A k \in 0 .. n : g[k] \in Int
<1> DEFINE S == {k \in Nat : k <= n => g[k] \in Int}
<1>1. g[0] = 0 /\ \A k \in 1 .. n : g[k] = g[k - 1] + w[k]
  BY TotalSteps
<1>2. 0 \in S
  BY <1>1
<1>3. ASSUME NEW k \in S PROVE k + 1 \in S
  <2> SUFFICES ASSUME k + 1 <= n PROVE g[k + 1] \in Int
    OBVIOUS
  <2>1. k + 1 \in 1 .. n /\ (k + 1) - 1 = k /\ g[k] \in Int
    OBVIOUS
  <2> QED
    BY <1>1, <2>1 DEF Summands
<1>4. S = Nat
  <2>1. S \in SUBSET Nat
    OBVIOUS
  <2> HIDE DEF S
  <2> QED
    BY <1>2, <1>3, <2>1, SetInduction
<1> QED
  BY <1>4

(* The same numbers from the last to the first.                            *)
BackToFront(v, w, n) == \A k \in 1 .. n : v[k] = w[n + 1 - k]

LEMMA ReversedTotal ==
  ASSUME NEW n \in Nat, NEW w, NEW v, Summands(w, n), BackToFront(v, w, n),
         NEW g, NEW h, Total(g, n, w), Total(h, n, v)
  PROVE  g[n] = h[n]
<1>1. /\ g[0] = 0 /\ \A k \in 1 .. n : g[k] = g[k - 1] + w[k]
      /\ h[0] = 0 /\ \A k \in 1 .. n : h[k] = h[k - 1] + v[k]
      /\ \A k \in 0 .. n : g[k] \in Int
  BY TotalSteps, TotalType
<1> DEFINE S == {d \in Nat : d <= n => h[d] = g[n] - g[n - d]}
<1>2. 0 \in S
  BY <1>1
<1>3. ASSUME NEW d \in S PROVE d + 1 \in S
  <2> SUFFICES ASSUME d + 1 <= n PROVE h[d + 1] = g[n] - g[n - (d + 1)]
    OBVIOUS
  <2>1. /\ d + 1 \in 1 .. n /\ n - d \in 1 .. n /\ (d + 1) - 1 = d
        /\ (n - d) - 1 = n - (d + 1) /\ n + 1 - (d + 1) = n - d
        /\ n - (d + 1) \in 0 .. n /\ n \in 0 .. n
        /\ h[d] = g[n] - g[n - d]
    OBVIOUS
  <2>2. h[d + 1] = h[d] + v[d + 1] /\ g[n - d] = g[n - (d + 1)] + w[n - d]
    BY <1>1, <2>1
  <2>3. v[d + 1] = w[n - d] /\ w[n - d] \in Int
    BY <2>1 DEF BackToFront, Summands
  <2>4. g[n] \in Int /\ g[n - (d + 1)] \in Int
    BY <1>1, <2>1
  <2> QED
    BY <2>1, <2>2, <2>3, <2>4
<1>4. S = Nat
  <2>1. S \in SUBSET Nat
    OBVIOUS
  <2> HIDE DEF S
  <2> QED
    BY <1>2, <1>3, <2>1, SetInduction
<1>5. h[n] = g[n] - g[n - n]
  BY <1>4
<1> QED
  BY <1>1, <1>5

(* Two sums side by side.                                                  *)
Adds(both, w, v, n) == \A k \in 1 .. n : both[k] = w[k] + v[k]

LEMMA AddedTotals ==
  ASSUME NEW n \in Nat, NEW w, NEW v, Summands(w, n), Summands(v, n),
         NEW both, Adds(both, w, v, n),
         NEW g, NEW h, NEW f, Total(g, n, w), Total(h, n, v), Total(f, n, both)
  PROVE  f[n] = g[n] + h[n]
<1>1. /\ g[0] = 0 /\ \A k \in 1 .. n : g[k] = g[k - 1] + w[k]
      /\ h[0] = 0 /\ \A k \in 1 .. n : h[k] = h[k - 1] + v[k]
      /\ \A k \in 0 .. n : g[k] \in Int
      /\ \A k \in 0 .. n : h[k] \in Int
  BY TotalSteps, TotalType
<1> DEFINE e == [k \in 0 .. n |-> g[k] + h[k]]
<1>2. e[0] = 0
  BY <1>1
<1>3. ASSUME NEW k \in 1 .. n PROVE e[k] = e[k - 1] + both[k]
  <2>1. k \in 0 .. n /\ k - 1 \in 0 .. n
    OBVIOUS
  <2>2. g[k] = g[k - 1] + w[k] /\ h[k] = h[k - 1] + v[k] /\ both[k] = w[k] + v[k]
    BY <1>1 DEF Adds
  <2>3. g[k - 1] \in Int /\ h[k - 1] \in Int /\ w[k] \in Int /\ v[k] \in Int
    BY <1>1, <2>1 DEF Summands
  <2> QED
    BY <2>1, <2>2, <2>3
<1>4. e[n] = g[n] + h[n]
  OBVIOUS
<1> HIDE DEF e
<1>5. Total(e, n, both)
  BY <1>2, <1>3, TotalSteps
<1>6. f[n] = e[n]
  BY <1>5, TotalsAgree
<1> QED
  BY <1>4, <1>6

(* Two sums one after the other.                                           *)
Joins(w, u, n, v, p) ==
  (\A k \in 1 .. n : u[k] = w[k]) /\ (\A k \in 1 .. p : v[k] = w[n + k])

LEMMA JoinedTotals ==
  ASSUME NEW n \in Nat, NEW p \in Nat, NEW w, Summands(w, n + p),
         NEW u, NEW v, Joins(w, u, n, v, p),
         NEW f, NEW g, NEW h, Total(f, n + p, w), Total(g, n, u), Total(h, p, v)
  PROVE  f[n + p] = g[n] + h[p]
<1>0. n + p \in Nat /\ n \in 0 .. n + p
  OBVIOUS
<1>1. /\ f[0] = 0 /\ \A k \in 1 .. n + p : f[k] = f[k - 1] + w[k]
      /\ \A k \in 0 .. n + p : f[k] \in Int
  BY <1>0, TotalSteps, TotalType
<1>2. Total(f, n, w)
  <2>1. \A k \in 1 .. n : k \in 1 .. n + p
    OBVIOUS
  <2> QED
    BY <1>1, <2>1, TotalSteps
<1>3. g[n] = f[n]
  BY <1>2, TotalsAgree DEF Joins
<1> DEFINE e == [k \in 0 .. p |-> f[n + k] - f[n]]
<1>4. e[0] = 0
  BY <1>0, <1>1
<1>5. ASSUME NEW k \in 1 .. p PROVE e[k] = e[k - 1] + v[k]
  <2>1. /\ k \in 0 .. p /\ k - 1 \in 0 .. p /\ n + k \in 1 .. n + p
        /\ (n + k) - 1 = n + (k - 1) /\ n + (k - 1) \in 0 .. n + p
    OBVIOUS
  <2>2. f[n + k] = f[n + (k - 1)] + w[n + k] /\ v[k] = w[n + k]
    BY <1>1, <2>1 DEF Joins
  <2>3. f[n + (k - 1)] \in Int /\ f[n] \in Int /\ w[n + k] \in Int
    BY <1>0, <1>1, <2>1 DEF Summands
  <2> QED
    BY <2>1, <2>2, <2>3
<1>6. e[p] = f[n + p] - f[n]
  OBVIOUS
<1> HIDE DEF e
<1>7. Total(e, p, v)
  BY <1>4, <1>5, TotalSteps
<1>8. h[p] = e[p]
  BY <1>7, TotalsAgree
<1>9. f[n] \in Int /\ f[n + p] \in Int
  BY <1>0, <1>1
<1> QED
  BY <1>3, <1>6, <1>8, <1>9

(* A sum of naturals is zero only if all of them are.                      *)
NaturalSummands(w, n) == \A k \in 1 .. n : w[k] \in Nat

LEMMA TotalOfNaturals ==
  ASSUME NEW n \in Nat, NEW w, NaturalSummands(w, n), NEW g, Total(g, n, w)
  PROVE  g[n] \in Nat /\ (g[n] = 0 <=> \A k \in 1 .. n : w[k] = 0)
<1>1. g[0] = 0 /\ \A k \in 1 .. n : g[k] = g[k - 1] + w[k]
  BY TotalSteps
<1> DEFINE S == {d \in Nat : d <= n => /\ g[d] \in Nat
                                       /\ g[d] = 0 <=> \A k \in 1 .. d : w[k] = 0}
<1>2. 0 \in S
  BY <1>1
<1>3. ASSUME NEW d \in S PROVE d + 1 \in S
  <2> SUFFICES ASSUME d + 1 <= n
               PROVE  /\ g[d + 1] \in Nat
                      /\ g[d + 1] = 0 <=> \A k \in 1 .. d + 1 : w[k] = 0
    OBVIOUS
  <2>1. d + 1 \in 1 .. n /\ (d + 1) - 1 = d
    OBVIOUS
  <2>2. g[d + 1] = g[d] + w[d + 1] /\ w[d + 1] \in Nat
    BY <1>1, <2>1 DEF NaturalSummands
  <2>3. g[d] \in Nat /\ (g[d] = 0 <=> \A k \in 1 .. d : w[k] = 0)
    OBVIOUS
  <2>4. g[d + 1] = 0 <=> g[d] = 0 /\ w[d + 1] = 0
    BY <2>2, <2>3
  <2>5. \A k \in 1 .. d + 1 : k = d + 1 \/ k \in 1 .. d
    OBVIOUS
  <2>6. 1 .. d \subseteq 1 .. d + 1 /\ d + 1 \in 1 .. d + 1
    OBVIOUS
  <2>7. (\A k \in 1 .. d + 1 : w[k] = 0) <=> (\A k \in 1 .. d : w[k] = 0) /\ w[d + 1] = 0
    BY <2>5, <2>6
  <2>8. g[d + 1] \in Nat
    BY <2>2, <2>3
  <2> QED
    BY <2>3, <2>4, <2>7, <2>8
<1>4. S = Nat
  <2>1. S \in SUBSET Nat
    OBVIOUS
  <2> HIDE DEF S
  <2> QED
    BY <1>2, <1>3, <2>1, SetInduction
<1> QED
  BY <1>4

-----------------------------------------------------------------------------
(* Maps and catalogues.                                                    *)

(* An assignment to a map: its domain, its values, its type.               *)
LEMMA AssignFacts ==
  ASSUME NEW S, NEW T, NEW map, IsPartialFunction(map, S, T),
         NEW key \in S, NEW value \in T
  PROVE  /\ IsPartialFunction(Assign(map, key, value), S, T)
         /\ DOMAIN Assign(map, key, value) = DOMAIN map \cup {key}
         /\ Assign(map, key, value)[key] = value
         /\ \A k \in DOMAIN map : k # key => Assign(map, key, value)[k] = map[k]
BY DEF IsPartialFunction, Assign

(* An insertion into a map: a key that is there keeps its value.           *)
LEMMA InsertFacts ==
  ASSUME NEW S, NEW T, NEW map, IsPartialFunction(map, S, T),
         NEW key \in S, NEW value \in T
  PROVE  /\ IsPartialFunction(Insert(map, key, value), S, T)
         /\ DOMAIN Insert(map, key, value) = DOMAIN map \cup {key}
         /\ key \notin DOMAIN map => Insert(map, key, value)[key] = value
         /\ \A k \in DOMAIN map : Insert(map, key, value)[k] = map[k]
<1>1. CASE key \in DOMAIN map
  BY <1>1 DEF Insert
<1>2. CASE key \notin DOMAIN map
  BY <1>2, AssignFacts DEF Insert
<1> QED
  BY <1>1, <1>2

(* The fields of what SetStop returns: the stop has the coordinates given, *)
(* everything else is as it was, and a new stop has no buses.              *)
LEMMA SetStopFields ==
  ASSUME NEW cat, CatalogueType(cat), NEW name \in Names, NEW c \in Coordinates
  PROVE  LET new == SetStop(cat, name, c)
         IN  /\ CatalogueType(new)
             /\ new.buses = cat.buses /\ new.distances = cat.distances
             /\ StopNames(new) = StopNames(cat) \cup {name}
             /\ new.stops[name].coordinates = c
             /\ \A s \in StopNames(cat) : s # name =>
                  new.stops[s].coordinates = cat.stops[s].coordinates
             /\ \A s \in StopNames(new) :
                  new.stops[s].buses =
                    IF s \in StopNames(cat) THEN cat.stops[s].buses ELSE {}
<1> DEFINE T == [coordinates : Coordinates \cup {Uninitialised}, buses : SUBSET Names]
           with == Insert(cat.stops, name, NewStop)
           new == SetStop(cat, name, c)
<1>1. IsPartialFunction(cat.stops, Names, T) /\ NewStop \in T
  BY DEF CatalogueType, NewStop
<1>2. /\ IsPartialFunction(with, Names, T)
      /\ DOMAIN with = StopNames(cat) \cup {name}
      /\ name \notin StopNames(cat) => with[name] = NewStop
      /\ \A s \in StopNames(cat) : with[s] = cat.stops[s]
  <2> HIDE DEF T
  <2> QED
    BY <1>1, InsertFacts DEF StopNames
<1>3. /\ new.stops = [with EXCEPT ![name].coordinates = c]
      /\ new.buses = cat.buses /\ new.distances = cat.distances
      /\ new = [stops |-> new.stops, buses |-> new.buses, distances |-> new.distances]
  <2>1. ReturnStop(cat, name) = [stops |-> with, buses |-> cat.buses,
                                 distances |-> cat.distances]
    BY DEF ReturnStop, CatalogueType
  <2> HIDE DEF with
  <2> QED
    BY <2>1 DEF SetStop
<1> HIDE DEF with, new
<1>4. /\ DOMAIN new.stops = StopNames(cat) \cup {name}
      /\ IsPartialFunction(new.stops, Names, T)
      /\ new.stops[name] = [with[name] EXCEPT !.coordinates = c]
      /\ \A s \in StopNames(cat) : s # name => new.stops[s] = with[s]
  BY <1>2, <1>3 DEF IsPartialFunction
<1>5. CatalogueType(new)
  BY <1>3, <1>4 DEF CatalogueType
<1>6. /\ new.stops[name].coordinates = c
      /\ new.stops[name].buses = with[name].buses
  BY <1>2, <1>4 DEF IsPartialFunction
<1> QED
  BY <1>2, <1>3, <1>4, <1>5, <1>6 DEF StopNames, NewStop, new

(* The stop of a name: the one the catalogue has, or the one ReturnStop    *)
(* makes.                                                                  *)
StopOf(cat, s) == IF s \in StopNames(cat) THEN cat.stops[s] ELSE NewStop

LEMMA ReturnStopFields ==
  ASSUME NEW cat, CatalogueType(cat), NEW name \in Names
  PROVE  LET new == ReturnStop(cat, name)
         IN  /\ CatalogueType(new)
             /\ new.buses = cat.buses /\ new.distances = cat.distances
             /\ StopNames(new) = StopNames(cat) \cup {name}
             /\ \A s \in StopNames(new) : new.stops[s] = StopOf(cat, s)
<1> DEFINE T == [coordinates : Coordinates \cup {Uninitialised}, buses : SUBSET Names]
           with == Insert(cat.stops, name, NewStop)
           new == ReturnStop(cat, name)
<1>1. IsPartialFunction(cat.stops, Names, T) /\ NewStop \in T
  BY DEF CatalogueType, NewStop
<1>2. /\ IsPartialFunction(with, Names, T)
      /\ DOMAIN with = StopNames(cat) \cup {name}
      /\ name \notin StopNames(cat) => with[name] = NewStop
      /\ \A s \in StopNames(cat) : with[s] = cat.stops[s]
  <2> HIDE DEF T
  <2> QED
    BY <1>1, InsertFacts DEF StopNames
<1>3. new = [stops |-> with, buses |-> cat.buses, distances |-> cat.distances]
  BY DEF ReturnStop, CatalogueType
<1> HIDE DEF with, new
<1>4. new.stops = with /\ new.buses = cat.buses /\ new.distances = cat.distances
  BY <1>3
<1>5. CatalogueType(new)
  BY <1>2, <1>3, <1>4 DEF CatalogueType
<1>6. StopNames(new) = StopNames(cat) \cup {name}
  BY <1>2, <1>4 DEF StopNames
<1>7. \A s \in StopNames(new) : new.stops[s] = StopOf(cat, s)
  BY <1>2, <1>4, <1>6 DEF StopOf
<1> QED
  BY <1>4, <1>5, <1>6, <1>7 DEF new

(* The fields of what SetStopDistance returns: both stops are there, the   *)
(* distance is the one given, and nothing else changes.                    *)
LEMMA SetStopDistanceFields ==
  ASSUME NEW cat, CatalogueType(cat), NEW from \in Names, NEW to \in Names,
         NEW length \in Int
  PROVE  LET new == SetStopDistance(cat, from, to, length)
         IN  /\ CatalogueType(new)
             /\ new.buses = cat.buses
             /\ new.distances = Assign(cat.distances, <<from, to>>, length)
             /\ StopNames(new) = StopNames(cat) \cup {from, to}
             /\ \A s \in StopNames(new) : new.stops[s] = StopOf(cat, s)
<1> DEFINE one == ReturnStop(cat, from)
           two == ReturnStop(one, to)
           roads == Assign(cat.distances, <<from, to>>, length)
           new == SetStopDistance(cat, from, to, length)
<1>1. /\ CatalogueType(one)
      /\ one.buses = cat.buses /\ one.distances = cat.distances
      /\ StopNames(one) = StopNames(cat) \cup {from}
      /\ \A s \in StopNames(one) : one.stops[s] = StopOf(cat, s)
  BY ReturnStopFields
<1> HIDE DEF one
<1>2. /\ CatalogueType(two)
      /\ two.buses = one.buses /\ two.distances = one.distances
      /\ StopNames(two) = StopNames(one) \cup {to}
      /\ \A s \in StopNames(two) : two.stops[s] = StopOf(one, s)
  BY <1>1, ReturnStopFields
<1>3. IsPartialFunction(roads, Names \X Names, Int)
  <2>1. IsPartialFunction(cat.distances, Names \X Names, Int) /\ <<from, to>> \in Names \X Names
    BY DEF CatalogueType
  <2> QED
    BY <2>1, AssignFacts
<1>4. new = [two EXCEPT !.distances = roads]
  <2>1. new = [two EXCEPT !.distances = Assign(@, <<from, to>>, length)]
    BY DEF SetStopDistance, one
  <2> HIDE DEF two, new
  <2> QED
    BY <1>1, <1>2, <2>1
<1> HIDE DEF two, new, roads
<1>5. /\ new = [stops |-> new.stops, buses |-> new.buses, distances |-> new.distances]
      /\ new.stops = two.stops /\ new.buses = two.buses /\ new.distances = roads
  BY <1>2, <1>4 DEF CatalogueType
<1>6. CatalogueType(new)
  BY <1>2, <1>3, <1>5 DEF CatalogueType
<1>7. StopNames(new) = StopNames(cat) \cup {from, to}
  BY <1>1, <1>2, <1>5 DEF StopNames
<1>8. ASSUME NEW s \in StopNames(new) PROVE new.stops[s] = StopOf(cat, s)
  <2>1. new.stops[s] = StopOf(one, s)
    BY <1>2, <1>5 DEF StopNames
  <2>2. CASE s \in StopNames(one)
    BY <1>1, <2>1, <2>2 DEF StopOf
  <2>3. CASE s \notin StopNames(one)
    BY <1>1, <2>1, <2>3 DEF StopOf
  <2> QED
    BY <2>2, <2>3
<1> QED
  BY <1>1, <1>2, <1>5, <1>6, <1>7, <1>8 DEF new, roads

(* Between two stops that are there only the distances change.             *)
LEMMA KnownStopsDistance ==
  ASSUME NEW cat, CatalogueType(cat), NEW from \in StopNames(cat),
         NEW to \in StopNames(cat), NEW length \in Int
  PROVE  LET new == SetStopDistance(cat, from, to, length)
         IN  /\ CatalogueType(new)
             /\ new.stops = cat.stops /\ new.buses = cat.buses
             /\ new.distances = Assign(cat.distances, <<from, to>>, length)
<1> DEFINE new == SetStopDistance(cat, from, to, length)
<1>1. from \in Names /\ to \in Names
  BY DEF CatalogueType, IsPartialFunction, StopNames
<1>2. /\ CatalogueType(new)
      /\ new.buses = cat.buses
      /\ new.distances = Assign(cat.distances, <<from, to>>, length)
      /\ StopNames(new) = StopNames(cat) \cup {from, to}
      /\ \A s \in StopNames(new) : new.stops[s] = StopOf(cat, s)
  BY <1>1, SetStopDistanceFields
<1> HIDE DEF new
<1>3. StopNames(new) = StopNames(cat)
  BY <1>2
<1>4. new.stops = cat.stops
  BY <1>2, <1>3 DEF CatalogueType, IsPartialFunction, StopNames, StopOf
<1> QED
  BY <1>2, <1>4 DEF new

(* The catalogue new is cat with the stops of route added to the route of  *)
(* a bus: the bus has its old route and the new one, the stops are there,  *)
(* and each of them has learnt of the bus.                                 *)
RouteOf(cat, name) == IF name \in BusNames(cat) THEN cat.buses[name].route ELSE <<>>

BusAdded(cat, new, name, route, is_chain) ==
  /\ CatalogueType(new)
  /\ StopNames(new) = StopNames(cat) \cup StopsIndexed(route)
  /\ new.buses = Assign(cat.buses, name, [is_chain |-> is_chain,
                                          route |-> RouteOf(cat, name) \o route])
  /\ new.distances = cat.distances
  /\ \A s \in StopNames(new) :
       /\ new.stops[s].coordinates = StopOf(cat, s).coordinates
       /\ new.stops[s].buses = IF s \in StopsIndexed(route)
                               THEN StopOf(cat, s).buses \cup {name}
                               ELSE StopOf(cat, s).buses

(* SetBus does this.                                                       *)
LEMMA SetBusFields ==
  ASSUME NEW cat, CatalogueType(cat), NEW name \in Names,
         NEW route \in Seq(Names), NEW is_chain \in BOOLEAN
  PROVE  BusAdded(cat, SetBus(cat, name, route, is_chain), name, route, is_chain)
<1> DEFINE S == [coordinates : Coordinates \cup {Uninitialised}, buses : SUBSET Names]
           B == [is_chain : BOOLEAN, route : Seq(Names)]
           so_far == RouteOf(cat, name)
           stops == [s \in StopNames(cat) \cup StopsIndexed(route) |->
                      [StopOf(cat, s) EXCEPT
                         !.buses = IF s \in StopsIndexed(route) THEN @ \cup {name}
                                   ELSE @]]
           longer == [is_chain |-> is_chain, route |-> so_far \o route]
           buses == Assign(cat.buses, name, longer)
           new == SetBus(cat, name, route, is_chain)
<1>1. ReturnBus(cat, name).buses[name].route = so_far
  BY DEF CatalogueType, IsPartialFunction, ReturnBus, Insert, Assign, NewBus,
         BusNames, RouteOf
<1>2. new = [stops |-> stops, buses |-> buses, distances |-> cat.distances]
  <2> HIDE DEF so_far
  <2> QED
    BY <1>1 DEF SetBus, StopOf
<1>3. so_far \in Seq(Names)
  BY DEF CatalogueType, IsPartialFunction, BusNames, RouteOf
<1>4. IsPartialFunction(buses, Names, B)
  <2>1. IsPartialFunction(cat.buses, Names, B) /\ longer \in B
    <3> HIDE DEF so_far
    <3> QED
      BY <1>3 DEF CatalogueType
  <2> HIDE DEF longer, B
  <2> QED
    BY <2>1, AssignFacts
<1>5. StopsIndexed(route) \subseteq Names
  BY DEF StopsIndexed
<1>6. DOMAIN stops = StopNames(cat) \cup StopsIndexed(route)
  OBVIOUS
<1>7. ASSUME NEW s \in StopNames(cat) \cup StopsIndexed(route)
      PROVE  /\ stops[s] \in S
             /\ stops[s].coordinates = StopOf(cat, s).coordinates
             /\ stops[s].buses = IF s \in StopsIndexed(route)
                                 THEN StopOf(cat, s).buses \cup {name}
                                 ELSE StopOf(cat, s).buses
  <2>1. StopOf(cat, s) \in S
    BY DEF CatalogueType, IsPartialFunction, StopNames, StopOf, NewStop
  <2>2. stops[s] = [StopOf(cat, s) EXCEPT !.buses = IF s \in StopsIndexed(route)
                                                   THEN @ \cup {name} ELSE @]
    OBVIOUS
  <2> HIDE DEF stops
  <2> QED
    BY <2>1, <2>2
<1>8. IsPartialFunction(stops, Names, S)
  <2>1. StopNames(cat) \subseteq Names
    BY DEF CatalogueType, IsPartialFunction, StopNames
  <2> HIDE DEF S
  <2> QED
    BY <2>1, <1>5, <1>6, <1>7 DEF IsPartialFunction
<1> HIDE DEF stops, buses, new
<1>9. /\ new = [stops |-> new.stops, buses |-> new.buses, distances |-> new.distances]
      /\ new.stops = stops /\ new.buses = buses /\ new.distances = cat.distances
  BY <1>2
<1>10. CatalogueType(new)
  BY <1>4, <1>8, <1>9 DEF CatalogueType
<1>11. StopNames(new) = StopNames(cat) \cup StopsIndexed(route)
  BY <1>6, <1>9 DEF StopNames
<1> QED
  BY <1>7, <1>9, <1>10, <1>11 DEF new, buses, BusAdded

(* The map of buses after that.                                            *)
LEMMA BusAddedBuses ==
  ASSUME NEW cat, NEW new, NEW name, NEW route, NEW is_chain,
         BusAdded(cat, new, name, route, is_chain)
  PROVE  /\ BusNames(new) = BusNames(cat) \cup {name}
         /\ new.buses[name].route = RouteOf(cat, name) \o route
         /\ \A b \in BusNames(cat) : b # name => new.buses[b] = cat.buses[b]
<1> DEFINE longer == [is_chain |-> is_chain, route |-> RouteOf(cat, name) \o route]
<1>1. longer.route = RouteOf(cat, name) \o route
  OBVIOUS
<1> HIDE DEF longer
<1>2. new.buses = Assign(cat.buses, name, longer)
  BY DEF BusAdded, longer
<1>3. new.buses[name] = longer
  BY <1>2 DEF Assign
<1> QED
  BY <1>1, <1>2, <1>3 DEF Assign, BusNames

(* A catalogue whose stops and buses agree still does after SetStop.       *)
LEMMA SetStopIndex ==
  ASSUME NEW cat, CatalogueType(cat), NEW name \in Names, NEW c \in Coordinates,
         IndexConsistent(cat)
  PROVE  IndexConsistent(SetStop(cat, name, c))
BY SetStopFields DEF IndexConsistent, BusNames

(* ... after SetStopDistance ...                                           *)
LEMMA SetStopDistanceIndex ==
  ASSUME NEW cat, CatalogueType(cat), NEW from \in Names, NEW to \in Names,
         NEW length \in Int, IndexConsistent(cat)
  PROVE  IndexConsistent(SetStopDistance(cat, from, to, length))
<1> DEFINE new == SetStopDistance(cat, from, to, length)
<1>1. /\ CatalogueType(new)
      /\ new.buses = cat.buses
      /\ new.distances = Assign(cat.distances, <<from, to>>, length)
      /\ StopNames(new) = StopNames(cat) \cup {from, to}
      /\ \A s \in StopNames(new) : new.stops[s] = StopOf(cat, s)
  BY SetStopDistanceFields
<1> HIDE DEF new
<1> QED
  BY <1>1 DEF IndexConsistent, BusNames, StopOf, NewStop, new

(* ... and after SetBus.                                                   *)
LEMMA SetBusIndex ==
  ASSUME NEW cat, CatalogueType(cat), NEW name \in Names,
         NEW route \in Seq(Names), NEW is_chain \in BOOLEAN,
         IndexConsistent(cat)
  PROVE  IndexConsistent(SetBus(cat, name, route, is_chain))
<1> DEFINE so_far == RouteOf(cat, name)
           new == SetBus(cat, name, route, is_chain)
           On(c, b, s) == \E k \in DOMAIN c.buses[b].route : c.buses[b].route[k] = s
<1>0. BusAdded(cat, new, name, route, is_chain)
  BY SetBusFields
<1>1. /\ BusAdded(cat, new, name, route, is_chain)
      /\ BusNames(new) = BusNames(cat) \cup {name}
      /\ new.buses[name].route = so_far \o route
      /\ \A b \in BusNames(cat) : b # name => new.buses[b] = cat.buses[b]
  <2> HIDE DEF On, new, so_far
  <2>1. BusNames(new) = BusNames(cat) \cup {name}
    BY <1>0, BusAddedBuses
  <2>2. new.buses[name].route = RouteOf(cat, name) \o route
    BY <1>0, BusAddedBuses, SMTT(30)
  <2>3. \A b \in BusNames(cat) : b # name => new.buses[b] = cat.buses[b]
    BY <1>0, BusAddedBuses
  <2> QED
    BY <1>0, <2>1, <2>2, <2>3 DEF so_far
<1>2. so_far \in Seq(Names)
  BY DEF CatalogueType, IsPartialFunction, BusNames, RouteOf
<1>3. \A s : On(new, name, s)
              <=> (\E k \in DOMAIN so_far : so_far[k] = s) \/ s \in StopsIndexed(route)
  <2> TAKE s
  <2> HIDE DEF so_far, new
  <2>1. /\ DOMAIN (so_far \o route) = 1 .. Len(so_far) + Len(route)
        /\ \A k \in 1 .. Len(so_far) : (so_far \o route)[k] = so_far[k]
        /\ \A k \in 1 .. Len(route) : (so_far \o route)[Len(so_far) + k] = route[k]
        /\ DOMAIN so_far = 1 .. Len(so_far) /\ DOMAIN route = 1 .. Len(route)
        /\ Len(so_far) \in Nat /\ Len(route) \in Nat
    BY <1>2
  <2>0. new.buses[name].route = so_far \o route
    BY <1>1
  <2>2. \A k \in 1 .. Len(so_far) + Len(route) :
          \/ k \in 1 .. Len(so_far)
          \/ k - Len(so_far) \in 1 .. Len(route) /\ k = Len(so_far) + (k - Len(so_far))
    BY <2>1
  <2>3. ASSUME On(new, name, s)
        PROVE  (\E k \in DOMAIN so_far : so_far[k] = s) \/ s \in StopsIndexed(route)
    BY <2>0, <2>1, <2>2, <2>3 DEF StopsIndexed
  <2>4. ASSUME \E k \in DOMAIN so_far : so_far[k] = s
        PROVE  On(new, name, s)
    BY <2>0, <2>1, <2>4
  <2>5. ASSUME s \in StopsIndexed(route)
        PROVE  On(new, name, s)
    <3>1. PICK k \in DOMAIN route : route[k] = s
      BY <2>5 DEF StopsIndexed
    <3>2. /\ Len(so_far) + k \in DOMAIN (so_far \o route)
          /\ (so_far \o route)[Len(so_far) + k] = s
      BY <2>1, <3>1
    <3> QED
      BY <2>0, <3>2
  <2> QED
    BY <2>3, <2>4, <2>5
<1>4. \A s : name \in BusNames(cat) =>
               (On(cat, name, s) <=> \E k \in DOMAIN so_far : so_far[k] = s)
  BY DEF RouteOf
<1>5. \A s : name \notin BusNames(cat) => ~ \E k \in DOMAIN so_far : so_far[k] = s
  BY DEF RouteOf
<1>6. \A s : StopOf(cat, s).buses = {b \in BusNames(cat) : On(cat, b, s)}
  BY DEF IndexConsistent, StopOf, NewStop
<1>7. \A b \in BusNames(cat) : b # name => \A s : On(new, b, s) <=> On(cat, b, s)
  BY <1>1
<1>8. \A b \in BusNames(cat) : \A s : On(cat, b, s) => s \in StopNames(cat)
  BY DEF IndexConsistent
<1> HIDE DEF On, so_far, new
<1>9. ASSUME NEW s \in StopNames(new)
       PROVE  new.stops[s].buses = {b \in BusNames(new) : On(new, b, s)}
  <2>1. new.stops[s].buses = IF s \in StopsIndexed(route)
                             THEN StopOf(cat, s).buses \cup {name}
                             ELSE StopOf(cat, s).buses
    BY <1>1 DEF BusAdded
  <2>2. ASSUME NEW b \in BusNames(new), b # name
        PROVE  b \in new.stops[s].buses <=> On(new, b, s)
    BY <1>1, <1>6, <1>7, <2>1, <2>2
  <2>3. name \in new.stops[s].buses <=> On(new, name, s)
    <3>1. name \in StopOf(cat, s).buses <=> name \in BusNames(cat) /\ On(cat, name, s)
      BY <1>6
    <3>2. name \in StopOf(cat, s).buses <=> \E k \in DOMAIN so_far : so_far[k] = s
      BY <1>4, <1>5, <3>1
    <3> QED
      BY <1>3, <2>1, <3>2
  <2>4. new.stops[s].buses \subseteq BusNames(new)
    BY <1>1, <1>6, <2>1
  <2> QED
    BY <2>2, <2>3, <2>4
<1>10. ASSUME NEW b \in BusNames(new), NEW s, On(new, b, s)
       PROVE  s \in StopNames(new)
  <2>1. StopNames(new) = StopNames(cat) \cup StopsIndexed(route)
    BY <1>1 DEF BusAdded
  <2> QED
    BY <1>1, <1>3, <1>4, <1>5, <1>7, <1>8, <1>10, <2>1
<1> QED
  BY <1>9, <1>10 DEF IndexConsistent, On, new

-----------------------------------------------------------------------------
(* Folds over sequences.  FoldLeft is a function on sets of places, defined *)
(* by taking the greatest place away; on the sets 1 .. n it does what the  *)
(* iteration of FoldTo does.                                               *)

(* A set of some of the first places that is not empty has a greatest.     *)
LEMMA MaxInside ==
  ASSUME NEW n \in Nat, NEW A \in SUBSET (1 .. n), A # {}
  PROVE  Max(A) \in A /\ \A y \in A : y <= Max(A)
<1> DEFINE Top(B) == \E x \in B : \A y \in B : x >= y
           S == {m \in Nat : \A B \in SUBSET (1 .. m) : B # {} => Top(B)}
<1>1. 0 \in S
  <2>1. 1 .. 0 = {}
    OBVIOUS
  <2> QED
    BY <2>1
<1>2. ASSUME NEW m \in S PROVE m + 1 \in S
  <2> SUFFICES ASSUME NEW B \in SUBSET (1 .. m + 1), B # {} PROVE Top(B)
    OBVIOUS
  <2>1. CASE m + 1 \in B
    BY <2>1
  <2>2. CASE m + 1 \notin B
    <3>1. B \in SUBSET (1 .. m)
      BY <2>2
    <3> QED
      BY <3>1
  <2> QED
    BY <2>1, <2>2
<1>3. S = Nat
  <2>1. S \in SUBSET Nat
    OBVIOUS
  <2> HIDE DEF S
  <2> QED
    BY <1>1, <1>2, <2>1, SetInduction
<1>4. Top(A)
  BY <1>3
<1>5. Max(A) \in A /\ \A y \in A : Max(A) >= y
  BY <1>4 DEF Max
<1>6. \A y \in A : y \in Nat
  OBVIOUS
<1> QED
  BY <1>5, <1>6

(* If n is among the first n places, it is the greatest.                   *)
LEMMA MaxIsLast ==
  ASSUME NEW n \in Nat, NEW A \in SUBSET (1 .. n), n \in A
  PROVE  Max(A) = n /\ A \ {n} \in SUBSET (1 .. n - 1)
<1>1. Max(A) \in A /\ \A y \in A : y <= Max(A)
  BY MaxInside
<1>2. Max(A) \in 1 .. n /\ n <= Max(A)
  BY <1>1
<1>3. ASSUME NEW y \in A \ {n} PROVE y \in 1 .. n - 1
  <2>1. y \in 1 .. n /\ y # n
    OBVIOUS
  <2> QED
    BY <2>1
<1> QED
  BY <1>2, <1>3

(* The function on sets of places exists.                                  *)
TakesGreatest(iter, n, T, start, step) ==
  /\ iter \in [SUBSET (1 .. n) -> T]
  /\ \A A \in SUBSET (1 .. n) :
       iter[A] = IF A = {} THEN start ELSE step[Max(A)][iter[A \ {Max(A)}]]

LEMMA IterationOverSets ==
  ASSUME NEW T, NEW start \in T, NEW N \in Nat, NEW step \in StepsTo(N, T)
  PROVE  \E iter : TakesGreatest(iter, N, T, start, step)
<1> DEFINE Solves(n, iter) == TakesGreatest(iter, n, T, start, step)
           S == {n \in Nat : n <= N => \E iter : Solves(n, iter)}
<1>1. 0 \in S
  <2>1. Solves(0, [A \in SUBSET (1 .. 0) |-> start])
    BY DEF TakesGreatest
  <2> QED
    BY <2>1
<1>2. ASSUME NEW n \in S PROVE n + 1 \in S
  <2> SUFFICES ASSUME n + 1 <= N PROVE \E iter : Solves(n + 1, iter)
    OBVIOUS
  <2>0. n \in Nat /\ n <= N /\ \E iter : Solves(n, iter)
    OBVIOUS
  <2> HIDE DEF S
  <2>1. PICK iter : Solves(n, iter)
    BY <2>0
  <2> USE <2>0 DEF TakesGreatest
  <2> DEFINE more == [A \in SUBSET (1 .. n + 1) |->
                       IF n + 1 \in A THEN step[n + 1][iter[A \ {n + 1}]] ELSE iter[A]]
  <2>2. \A A \in SUBSET (1 .. n + 1) :
          /\ n + 1 \in A => A \ {n + 1} \in SUBSET (1 .. n)
          /\ n + 1 \notin A => A \in SUBSET (1 .. n)
    OBVIOUS
  <2>3. step[n + 1] \in [T -> T]
    BY DEF StepsTo
  <2>4. more \in [SUBSET (1 .. n + 1) -> T]
    BY <2>1, <2>2, <2>3
  <2>5. ASSUME NEW A \in SUBSET (1 .. n + 1)
        PROVE  more[A] = IF A = {} THEN start ELSE step[Max(A)][more[A \ {Max(A)}]]
    <3>1. CASE n + 1 \in A
      <4>1. Max(A) = n + 1
        BY <3>1, MaxIsLast
      <4>2. A \ {n + 1} \in SUBSET (1 .. n + 1) /\ n + 1 \notin A \ {n + 1}
        OBVIOUS
      <4>3. more[A \ {n + 1}] = iter[A \ {n + 1}]
        BY <4>2
      <4>4. more[A] = step[n + 1][iter[A \ {n + 1}]]
        BY <3>1
      <4> QED
        BY <3>1, <4>1, <4>3, <4>4
    <3>2. CASE n + 1 \notin A
      <4>1. A \in SUBSET (1 .. n) /\ more[A] = iter[A]
        BY <2>2, <3>2
      <4>2. A \ {Max(A)} \in SUBSET (1 .. n + 1) /\ n + 1 \notin A \ {Max(A)}
        BY <3>2
      <4>3. more[A \ {Max(A)}] = iter[A \ {Max(A)}]
        BY <4>2
      <4> HIDE DEF more
      <4> QED
        BY <2>1, <4>1, <4>3
    <3> QED
      BY <3>1, <3>2
  <2> HIDE DEF more
  <2> QED
    BY <2>4, <2>5
<1>3. S = Nat
  <2>1. S \in SUBSET Nat
    OBVIOUS
  <2> HIDE DEF S
  <2> QED
    BY <1>1, <1>2, <2>1, SetInduction
<1>4. \E iter : Solves(N, iter)
  <2> HIDE DEF Solves
  <2> QED
    BY <1>3
<1> QED
  BY <1>4

(* The last of such a function on sets is where the steps lead.            *)
LEMMA LastIteration ==
  ASSUME NEW T, NEW start \in T, NEW N \in Nat, NEW step \in StepsTo(N, T),
         NEW one, one[{}] = start,
         \A n \in 1 .. N : one[1 .. n - 1] \in T =>
           one[1 .. n] = step[n][one[1 .. n - 1]]
  PROVE  one[1 .. N] = FoldTo(N, T, start, step)
<1>1. PICK g \in [0 .. N -> T] :
        IteratesTo(N, g, start, step) /\ FoldTo(N, T, start, step) = g[N]
  BY FoldToIterates
<1> DEFINE S == {n \in Nat : n <= N => one[1 .. n] = g[n]}
<1>2. 0 \in S
  <2>1. 1 .. 0 = {}
    OBVIOUS
  <2> QED
    BY <1>1, <2>1 DEF IteratesTo
<1>3. ASSUME NEW n \in S PROVE n + 1 \in S
  <2> SUFFICES ASSUME n + 1 <= N PROVE one[1 .. n + 1] = g[n + 1]
    OBVIOUS
  <2>1. n + 1 \in 1 .. N /\ n \in 0 .. N /\ (n + 1) - 1 = n
    OBVIOUS
  <2>2. one[1 .. n] = g[n] /\ g[n] \in T
    BY <2>1
  <2>3. g[n + 1] = step[n + 1][g[n]]
    BY <1>1, <2>1 DEF IteratesTo
  <2> QED
    BY <2>1, <2>2, <2>3
<1>4. S = Nat
  <2>1. S \in SUBSET Nat
    OBVIOUS
  <2> HIDE DEF S
  <2> QED
    BY <1>2, <1>3, <2>1, SetInduction
<1> QED
  BY <1>1, <1>4

(* What taking the greatest away from the first n places leaves.           *)
LEMMA FirstPlaces ==
  ASSUME NEW N \in Nat, NEW n \in 1 .. N
  PROVE  /\ 1 .. n \in SUBSET (1 .. N) /\ 1 .. n # {}
         /\ Max(1 .. n) = n /\ (1 .. n) \ {n} = 1 .. n - 1
<1>1. n \in Nat /\ n \in 1 .. n /\ 1 .. n \in SUBSET (1 .. n)
  OBVIOUS
<1>2. Max(1 .. n) = n
  BY <1>1, MaxIsLast
<1> QED
  BY <1>1, <1>2

(* Catalogues, as a set.                                                   *)
Maps(S, T) == UNION {[D -> T] : D \in SUBSET S}

Catalogues ==
  [stops     : Maps(Names, [coordinates : Coordinates \cup {Uninitialised},
                            buses : SUBSET Names]),
   buses     : Maps(Names, [is_chain : BOOLEAN, route : Seq(Names)]),
   distances : Maps(Names \X Names, Int)]

LEMMA MapsFacts ==
  ASSUME NEW S, NEW T, NEW f
  PROVE  f \in Maps(S, T) <=> IsPartialFunction(f, S, T)
BY DEF Maps, IsPartialFunction

LEMMA CataloguesFacts ==
  ASSUME NEW cat
  PROVE  cat \in Catalogues <=> CatalogueType(cat)
<1> DEFINE A == [coordinates : Coordinates \cup {Uninitialised}, buses : SUBSET Names]
           B == [is_chain : BOOLEAN, route : Seq(Names)]
<1>1. /\ cat.stops \in Maps(Names, A) <=> IsPartialFunction(cat.stops, Names, A)
      /\ cat.buses \in Maps(Names, B) <=> IsPartialFunction(cat.buses, Names, B)
      /\ cat.distances \in Maps(Names \X Names, Int)
           <=> IsPartialFunction(cat.distances, Names \X Names, Int)
  BY MapsFacts
<1>2. cat \in Catalogues
        <=> /\ cat = [stops |-> cat.stops, buses |-> cat.buses,
                      distances |-> cat.distances]
            /\ cat.stops \in Maps(Names, A) /\ cat.buses \in Maps(Names, B)
            /\ cat.distances \in Maps(Names \X Names, Int)
  <2> HIDE DEF A, B
  <2> QED
    BY DEF Catalogues, A, B
<1> QED
  BY <1>1, <1>2 DEF CatalogueType

(* SetRoadDistances is the iteration of SetStopDistance.                   *)
RoadSteps(name, roads) ==
  [n \in 1 .. Len(roads) |->
    [c \in Catalogues |-> SetStopDistance(c, name, roads[n][1], roads[n][2])]]

LEMMA RoadFold ==
  ASSUME NEW cat \in Catalogues, NEW name \in Names, NEW roads \in Seq(Names \X Int)
  PROVE  /\ RoadSteps(name, roads) \in StepsTo(Len(roads), Catalogues)
         /\ SetRoadDistances(cat, name, roads)
              = FoldTo(Len(roads), Catalogues, cat, RoadSteps(name, roads))
<1> DEFINE N == Len(roads)
           step == RoadSteps(name, roads)
           Solves(iter) ==
             iter = [A \in SUBSET DOMAIN roads |->
                      IF A = {} THEN cat
                      ELSE SetStopDistance(iter[A \ {Max(A)}], name,
                                           roads[Max(A)][1], roads[Max(A)][2])]
           one == CHOOSE iter : Solves(iter)
<1>1. N \in Nat /\ DOMAIN roads = 1 .. N
  OBVIOUS
<1>2. ASSUME NEW n \in 1 .. N, NEW c \in Catalogues
      PROVE  /\ SetStopDistance(c, name, roads[n][1], roads[n][2]) \in Catalogues
             /\ step[n][c] = SetStopDistance(c, name, roads[n][1], roads[n][2])
  <2>1. roads[n][1] \in Names /\ roads[n][2] \in Int
    OBVIOUS
  <2>2. SetStopDistance(c, name, roads[n][1], roads[n][2]) \in Catalogues
    BY <2>1, SetStopDistanceFields, CataloguesFacts
  <2> QED
    BY <2>2 DEF RoadSteps
<1>3. step \in StepsTo(N, Catalogues)
  BY <1>2 DEF RoadSteps, StepsTo
<1> HIDE DEF N, step
<1>4. SetRoadDistances(cat, name, roads) = one[DOMAIN roads]
  BY DEF SetRoadDistances, FoldLeft, MapThenFoldSet
<1>5. \E iter : Solves(iter)
  <2>1. PICK iter : TakesGreatest(iter, N, Catalogues, cat, step)
    BY <1>1, <1>3, IterationOverSets
  <2>2. ASSUME NEW A \in SUBSET (1 .. N), A # {}
        PROVE  iter[A] = SetStopDistance(iter[A \ {Max(A)}], name,
                                         roads[Max(A)][1], roads[Max(A)][2])
    <3>1. Max(A) \in 1 .. N
      BY <1>1, <2>2, MaxInside
    <3> QED
      BY <1>2, <2>1, <2>2, <3>1 DEF TakesGreatest
  <2>3. Solves(iter)
    BY <1>1, <2>1, <2>2 DEF TakesGreatest
  <2> QED
    BY <2>3
<1>6. Solves(one)
  <2> HIDE DEF Solves
  <2> QED
    BY <1>5
<1>7. ASSUME NEW n \in 1 .. N, one[1 .. n - 1] \in Catalogues
      PROVE  one[1 .. n] = step[n][one[1 .. n - 1]]
  <2>1. one[1 .. n] = SetStopDistance(one[1 .. n - 1], name, roads[n][1], roads[n][2])
    <3>1. /\ 1 .. n \in SUBSET DOMAIN roads /\ 1 .. n # {}
          /\ Max(1 .. n) = n /\ (1 .. n) \ {n} = 1 .. n - 1
      BY <1>1, FirstPlaces
    <3> HIDE DEF one
    <3> QED
      BY <1>6, <3>1
  <2> QED
    BY <1>2, <1>7, <2>1
<1>8. one[{}] = cat
  <2> HIDE DEF one
  <2> QED
    BY <1>6
<1> HIDE DEF one
<1>9. one[1 .. N] = FoldTo(N, Catalogues, cat, step)
  BY <1>1, <1>3, <1>7, <1>8, LastIteration
<1> QED
  BY <1>1, <1>3, <1>4, <1>9 DEF N, step

(* No distance changes nothing; a last distance is set last.               *)
LEMMA RoadDistancesUnfold ==
  ASSUME NEW cat \in Catalogues, NEW name \in Names,
         NEW roads \in Seq(Names \X Int), NEW road \in Names \X Int
  PROVE  /\ SetRoadDistances(cat, name, <<>>) = cat
         /\ SetRoadDistances(cat, name, roads) \in Catalogues
         /\ SetRoadDistances(cat, name, Append(roads, road))
              = SetStopDistance(SetRoadDistances(cat, name, roads), name, road[1], road[2])
<1> DEFINE more == Append(roads, road)
           N == Len(roads)
           last == SetRoadDistances(cat, name, roads)
<1>1. SetRoadDistances(cat, name, <<>>) = cat
  <2>1. <<>> \in Seq(Names \X Int) /\ Len(<<>>) = 0
    OBVIOUS
  <2>2. /\ RoadSteps(name, <<>>) \in StepsTo(0, Catalogues)
        /\ SetRoadDistances(cat, name, <<>>)
             = FoldTo(0, Catalogues, cat, RoadSteps(name, <<>>))
    BY <2>1, RoadFold
  <2> QED
    BY <2>2, FoldToFacts
<1>2. /\ RoadSteps(name, roads) \in StepsTo(N, Catalogues)
      /\ last = FoldTo(N, Catalogues, cat, RoadSteps(name, roads))
      /\ last \in Catalogues
  BY RoadFold, FoldToFacts
<1>3. more \in Seq(Names \X Int) /\ Len(more) = N + 1 /\ N \in Nat
  OBVIOUS
<1>4. /\ RoadSteps(name, more) \in StepsTo(N + 1, Catalogues)
      /\ SetRoadDistances(cat, name, more)
           = FoldTo(N + 1, Catalogues, cat, RoadSteps(name, more))
  BY <1>3, RoadFold
<1>5. \A n \in 1 .. N : RoadSteps(name, roads)[n] = RoadSteps(name, more)[n]
  <2> TAKE n \in 1 .. N
  <2>1. more[n] = roads[n] /\ n \in 1 .. Len(more)
    OBVIOUS
  <2> QED
    BY <2>1 DEF RoadSteps
<1>6. RoadSteps(name, more)[N + 1][last] = SetStopDistance(last, name, road[1], road[2])
  <2>1. more[N + 1] = road /\ N + 1 \in 1 .. Len(more)
    OBVIOUS
  <2> HIDE DEF more, last
  <2> QED
    BY <1>2, <2>1 DEF RoadSteps
<1> HIDE DEF more, N, last
<1>7. SetRoadDistances(cat, name, more) = RoadSteps(name, more)[N + 1][last]
  <2>1. FoldTo(N + 1, Catalogues, cat, RoadSteps(name, more))
          = RoadSteps(name, more)[N + 1][FoldTo(N, Catalogues, cat, RoadSteps(name, roads))]
    BY <1>2, <1>3, <1>4, <1>5, FoldToNext
  <2> QED
    BY <1>2, <1>4, <2>1
<1> QED
  BY <1>1, <1>2, <1>6, <1>7 DEF more, last

(* The stops at the other ends of the roads become known, and nothing is   *)
(* said of the buses.                                                      *)
RoadEnds(roads) == {roads[k][1] : k \in DOMAIN roads}

LEMMA RoadDistancesFields ==
  ASSUME NEW cat \in Catalogues, NEW name \in StopNames(cat), IndexConsistent(cat),
         NEW roads \in Seq(Names \X Int)
  PROVE  LET new == SetRoadDistances(cat, name, roads)
         IN  /\ new \in Catalogues /\ IndexConsistent(new)
             /\ new.buses = cat.buses
             /\ StopNames(new) = StopNames(cat) \cup RoadEnds(roads)
             /\ \A s \in StopNames(new) : new.stops[s] = StopOf(cat, s)
<1> DEFINE After(new, r) ==
             /\ new \in Catalogues /\ IndexConsistent(new)
             /\ new.buses = cat.buses
             /\ StopNames(new) = StopNames(cat) \cup RoadEnds(r)
             /\ \A s \in StopNames(new) : new.stops[s] = StopOf(cat, s)
           S == {r \in Seq(Names \X Int) : After(SetRoadDistances(cat, name, r), r)}
<1>0. name \in Names
  BY CataloguesFacts DEF CatalogueType, IsPartialFunction, StopNames
<1>1. <<>> \in S
  <2>1. SetRoadDistances(cat, name, <<>>) = cat
    <3>1. <<>> \in Seq(Names \X Int) /\ <<name, 0>> \in Names \X Int
      BY <1>0
    <3> QED
      BY <1>0, <3>1, RoadDistancesUnfold
  <2>2. After(cat, <<>>)
    BY DEF RoadEnds, StopOf
  <2> HIDE DEF After
  <2> QED
    BY <2>1, <2>2
<1>2. ASSUME NEW r \in S, NEW road \in Names \X Int PROVE Append(r, road) \in S
  <2> DEFINE c == SetRoadDistances(cat, name, r)
             d == SetRoadDistances(cat, name, Append(r, road))
  <2>1. r \in Seq(Names \X Int) /\ After(c, r)
    OBVIOUS
  <2>2. d = SetStopDistance(c, name, road[1], road[2])
    BY <1>0, <2>1, RoadDistancesUnfold, SMTT(30)
  <2>3. road[1] \in Names /\ road[2] \in Int
    OBVIOUS
  <2> HIDE DEF c, d
  <2>4. c \in Catalogues /\ CatalogueType(c) /\ IndexConsistent(c)
    BY <2>1, CataloguesFacts
  <2>5. /\ CatalogueType(d)
        /\ d.buses = c.buses
        /\ d.distances = Assign(c.distances, <<name, road[1]>>, road[2])
        /\ StopNames(d) = StopNames(c) \cup {name, road[1]}
        /\ \A s \in StopNames(d) : d.stops[s] = StopOf(c, s)
    BY <1>0, <2>2, <2>3, <2>4, SetStopDistanceFields
  <2>6. IndexConsistent(d)
    BY <1>0, <2>2, <2>3, <2>4, SetStopDistanceIndex
  <2>7. RoadEnds(Append(r, road)) = RoadEnds(r) \cup {road[1]}
    <3>1. /\ DOMAIN Append(r, road) = DOMAIN r \cup {Len(r) + 1}
          /\ Append(r, road)[Len(r) + 1] = road
          /\ \A k \in DOMAIN r : Append(r, road)[k] = r[k]
      BY <2>1
    <3> HIDE DEF S, After
    <3> QED
      BY <3>1 DEF RoadEnds
  <2>8. StopNames(d) = StopNames(cat) \cup RoadEnds(Append(r, road))
    BY <2>1, <2>5, <2>7
  <2>9. \A s \in StopNames(d) : d.stops[s] = StopOf(cat, s)
    BY <2>1, <2>5 DEF StopOf
  <2>10. After(d, Append(r, road))
    BY <2>1, <2>5, <2>6, <2>8, <2>9, CataloguesFacts
  <2>11. Append(r, road) \in Seq(Names \X Int)
    BY <2>1
  <2> HIDE DEF After
  <2> QED
    BY <2>10, <2>11 DEF d
<1>3. S = Seq(Names \X Int)
  <2>1. S \in SUBSET Seq(Names \X Int)
    OBVIOUS
  <2> HIDE DEF S
  <2> QED
    BY <1>1, <1>2, <2>1, SequenceInduction
<1>4. After(SetRoadDistances(cat, name, roads), roads)
  <2> HIDE DEF After
  <2> QED
    BY <1>3
<1> QED
  BY <1>4

-----------------------------------------------------------------------------
(* DBBuilder.                                                              *)

LEMMA RequestFields ==
  ASSUME NEW r \in Request
  PROVE  /\ r.type \in {"Stop", "Bus", "Other", "Malformed", "Null"}
         /\ r.type = "Bus" => /\ r.name \in Names /\ r.stops \in Seq(Names)
                              /\ r.is_roundtrip \in BOOLEAN
         /\ r.type = "Stop" => /\ r.name \in Names /\ r.coordinates \in Coordinates
                               /\ r.road_distances \in Seq(Names \X Int)
BY DEF Request

(* A route and its reverse pass the same stops.                            *)
LEMMA ReverseFacts ==
  ASSUME NEW S, NEW s \in Seq(S)
  PROVE  /\ Reverse(s) \in Seq(S) /\ Len(Reverse(s)) = Len(s)
         /\ \A k \in DOMAIN s : Reverse(s)[k] = s[Len(s) - k + 1]
         /\ StopsIndexed(Reverse(s)) = {s[k] : k \in DOMAIN s}
<1>1. Reverse(s) = [k \in 1 .. Len(s) |-> s[(Len(s) - k) + 1]]
  BY DEF Reverse
<1>2. \A k \in 1 .. Len(s) : (Len(s) - k) + 1 \in 1 .. Len(s)
  OBVIOUS
<1>3. Reverse(s) \in Seq(S) /\ Len(Reverse(s)) = Len(s) /\ DOMAIN Reverse(s) = DOMAIN s
  BY <1>1, <1>2
<1>4. ASSUME NEW k \in DOMAIN s
      PROVE  \E n \in DOMAIN Reverse(s) : Reverse(s)[n] = s[k]
  <2>1. (Len(s) - k) + 1 \in 1 .. Len(s) /\ (Len(s) - ((Len(s) - k) + 1)) + 1 = k
    OBVIOUS
  <2> QED
    BY <1>1, <1>3, <2>1
<1>5. ASSUME NEW n \in DOMAIN Reverse(s)
      PROVE  \E k \in DOMAIN s : Reverse(s)[n] = s[k]
  BY <1>1, <1>2, <1>3
<1>6. \A k \in DOMAIN s : Reverse(s)[k] = s[Len(s) - k + 1]
  BY <1>1
<1> HIDE DEF Reverse
<1>7. StopsIndexed(Reverse(s)) = {s[k] : k \in DOMAIN s}
  BY <1>4, <1>5 DEF StopsIndexed
<1> QED
  BY <1>3, <1>6, <1>7

(* What a bus request does to a catalogue ...                              *)
LEMMA ApplyBus ==
  ASSUME NEW cat \in Catalogues, NEW r \in Request, r.type = "Bus"
  PROVE  BusAdded(cat, ApplyRequest(cat, r), r.name, Reverse(r.stops), ~ r.is_roundtrip)
<1>1. r.name \in Names /\ r.stops \in Seq(Names) /\ (~ r.is_roundtrip) \in BOOLEAN
  BY RequestFields
<1>2. Reverse(r.stops) \in Seq(Names)
  BY <1>1, ReverseFacts
<1>3. ApplyRequest(cat, r) = SetBus(cat, r.name, Reverse(r.stops), ~ r.is_roundtrip)
  BY DEF ApplyRequest
<1> QED
  BY <1>1, <1>2, <1>3, CataloguesFacts, SetBusFields

(* ... and what a stop request does.                                       *)
LEMMA ApplyStop ==
  ASSUME NEW cat \in Catalogues, NEW r \in Request, r.type = "Stop"
  PROVE  LET set == SetStop(cat, r.name, r.coordinates)
         IN  /\ ApplyRequest(cat, r) = SetRoadDistances(set, r.name, r.road_distances)
             /\ set \in Catalogues /\ r.name \in StopNames(set)
             /\ IndexConsistent(cat) => IndexConsistent(set)
<1> DEFINE set == SetStop(cat, r.name, r.coordinates)
<1>1. r.name \in Names /\ r.coordinates \in Coordinates
  BY RequestFields
<1>2. ApplyRequest(cat, r) = SetRoadDistances(set, r.name, r.road_distances)
  BY DEF ApplyRequest
<1>3. CatalogueType(cat)
  BY CataloguesFacts
<1>4. CatalogueType(set) /\ StopNames(set) = StopNames(cat) \cup {r.name}
  BY <1>1, <1>3, SetStopFields
<1>5. IndexConsistent(cat) => IndexConsistent(set)
  BY <1>1, <1>3, SetStopIndex
<1> HIDE DEF set
<1>6. set \in Catalogues /\ r.name \in StopNames(set)
  BY <1>4, CataloguesFacts
<1> QED
  BY <1>2, <1>5, <1>6 DEF set

LEMMA ApplyRequestType ==
  ASSUME NEW cat \in Catalogues, NEW r \in Request
  PROVE  ApplyRequest(cat, r) \in Catalogues
<1>1. CASE r.type = "Bus"
  BY <1>1, ApplyBus, CataloguesFacts DEF BusAdded
<1>2. CASE r.type = "Stop"
  <2> DEFINE set == SetStop(cat, r.name, r.coordinates)
  <2>1. /\ ApplyRequest(cat, r) = SetRoadDistances(set, r.name, r.road_distances)
        /\ set \in Catalogues
    BY <1>2, ApplyStop
  <2>2. r.name \in Names /\ r.road_distances \in Seq(Names \X Int)
    BY <1>2, RequestFields
  <2>3. <<r.name, 0>> \in Names \X Int
    BY <2>2
  <2> HIDE DEF set
  <2>4. SetRoadDistances(set, r.name, r.road_distances) \in Catalogues
    BY <2>1, <2>2, <2>3, RoadDistancesUnfold
  <2> QED
    BY <2>1, <2>4
<1>3. CASE r.type # "Bus" /\ r.type # "Stop"
  BY <1>3 DEF ApplyRequest
<1> QED
  BY <1>1, <1>2, <1>3

(* DBBuilder is the iteration of ApplyRequest.                             *)
BuiltFrom(base) == FoldLeft(ApplyRequest, EmptyCatalogue, base)

RequestSteps(base) ==
  [n \in 1 .. Len(base) |-> [c \in Catalogues |-> ApplyRequest(c, base[n])]]

LEMMA EmptyCatalogueFacts ==
  /\ EmptyCatalogue \in Catalogues /\ IndexConsistent(EmptyCatalogue)
  /\ StopNames(EmptyCatalogue) = {} /\ BusNames(EmptyCatalogue) = {}
  /\ DOMAIN EmptyCatalogue.distances = {}
  /\ EmptyCatalogue.stops = EmptyMap /\ EmptyCatalogue.buses = EmptyMap
  /\ EmptyCatalogue.distances = EmptyMap
<1>1. DOMAIN EmptyMap = {} /\ \A T : EmptyMap \in [{} -> T]
  BY DEF EmptyMap
<1> HIDE DEF EmptyMap
<1>2. CatalogueType(EmptyCatalogue)
  BY <1>1 DEF EmptyCatalogue, CatalogueType, IsPartialFunction
<1>3. EmptyCatalogue \in Catalogues
  BY <1>2, CataloguesFacts
<1> QED
  BY <1>1, <1>3 DEF EmptyCatalogue, IndexConsistent, StopNames, BusNames

LEMMA RequestFold ==
  ASSUME NEW base \in Seq(Request)
  PROVE  /\ RequestSteps(base) \in StepsTo(Len(base), Catalogues)
         /\ BuiltFrom(base)
              = FoldTo(Len(base), Catalogues, EmptyCatalogue, RequestSteps(base))
<1> DEFINE N == Len(base)
           step == RequestSteps(base)
           start == EmptyCatalogue
           Solves(iter) ==
             iter = [A \in SUBSET DOMAIN base |->
                      IF A = {} THEN start
                      ELSE ApplyRequest(iter[A \ {Max(A)}], base[Max(A)])]
           one == CHOOSE iter : Solves(iter)
<1>1. N \in Nat /\ DOMAIN base = 1 .. N
  OBVIOUS
<1>2. ASSUME NEW n \in 1 .. N, NEW c \in Catalogues
      PROVE  /\ ApplyRequest(c, base[n]) \in Catalogues
             /\ step[n][c] = ApplyRequest(c, base[n])
  <2>1. base[n] \in Request
    OBVIOUS
  <2>2. ApplyRequest(c, base[n]) \in Catalogues
    BY <2>1, ApplyRequestType
  <2> QED
    BY <2>2 DEF RequestSteps
<1>3. step \in StepsTo(N, Catalogues)
  BY <1>2 DEF RequestSteps, StepsTo
<1>4. start \in Catalogues
  BY EmptyCatalogueFacts
<1>5. BuiltFrom(base) = one[DOMAIN base]
  <2>1. BuiltFrom(base) = (CHOOSE iter :
          iter = [A \in SUBSET DOMAIN base |->
                      IF A = {} THEN EmptyCatalogue
                      ELSE ApplyRequest(iter[A \ {Max(A)}], base[Max(A)])])[DOMAIN base]
    BY DEF BuiltFrom, FoldLeft, MapThenFoldSet, ApplyRequest
  <2> QED
    BY <2>1
<1> HIDE DEF N, step, start
<1>6. \E iter : Solves(iter)
  <2>1. PICK iter : TakesGreatest(iter, N, Catalogues, start, step)
    BY <1>1, <1>3, <1>4, IterationOverSets
  <2>2. ASSUME NEW A \in SUBSET (1 .. N), A # {}
        PROVE  iter[A] = ApplyRequest(iter[A \ {Max(A)}], base[Max(A)])
    <3>1. Max(A) \in 1 .. N
      BY <1>1, <2>2, MaxInside
    <3> QED
      BY <1>2, <2>1, <2>2, <3>1 DEF TakesGreatest
  <2>3. Solves(iter)
    BY <1>1, <2>1, <2>2 DEF TakesGreatest
  <2> QED
    BY <2>3
<1>7. Solves(one)
  <2> HIDE DEF Solves
  <2> QED
    BY <1>6
<1>8. ASSUME NEW n \in 1 .. N, one[1 .. n - 1] \in Catalogues
      PROVE  one[1 .. n] = step[n][one[1 .. n - 1]]
  <2>1. one[1 .. n] = ApplyRequest(one[1 .. n - 1], base[n])
    <3>1. /\ 1 .. n \in SUBSET DOMAIN base /\ 1 .. n # {}
          /\ Max(1 .. n) = n /\ (1 .. n) \ {n} = 1 .. n - 1
      BY <1>1, FirstPlaces
    <3> HIDE DEF one
    <3> QED
      BY <1>7, <3>1
  <2> QED
    BY <1>2, <1>8, <2>1
<1>9. one[{}] = start
  <2> HIDE DEF one
  <2> QED
    BY <1>7
<1> HIDE DEF one
<1>10. one[1 .. N] = FoldTo(N, Catalogues, start, step)
  BY <1>1, <1>3, <1>4, <1>8, <1>9, LastIteration
<1> QED
  BY <1>1, <1>3, <1>5, <1>10 DEF N, step, start

(* No request, an empty catalogue; a last request is applied last.         *)
LEMMA BuiltFromUnfold ==
  ASSUME NEW base \in Seq(Request), NEW r \in Request
  PROVE  /\ BuiltFrom(<<>>) = EmptyCatalogue
         /\ BuiltFrom(base) \in Catalogues
         /\ BuiltFrom(Append(base, r)) = ApplyRequest(BuiltFrom(base), r)
<1> DEFINE more == Append(base, r)
           N == Len(base)
           last == BuiltFrom(base)
<1>0. EmptyCatalogue \in Catalogues
  BY EmptyCatalogueFacts
<1>1. BuiltFrom(<<>>) = EmptyCatalogue
  <2>1. <<>> \in Seq(Request) /\ Len(<<>>) = 0
    OBVIOUS
  <2>2. /\ RequestSteps(<<>>) \in StepsTo(0, Catalogues)
        /\ BuiltFrom(<<>>) = FoldTo(0, Catalogues, EmptyCatalogue, RequestSteps(<<>>))
    BY <2>1, RequestFold
  <2> QED
    BY <1>0, <2>2, FoldToFacts
<1>2. /\ RequestSteps(base) \in StepsTo(N, Catalogues)
      /\ last = FoldTo(N, Catalogues, EmptyCatalogue, RequestSteps(base))
      /\ last \in Catalogues
  BY <1>0, RequestFold, FoldToFacts
<1>3. more \in Seq(Request) /\ Len(more) = N + 1 /\ N \in Nat
  OBVIOUS
<1>4. /\ RequestSteps(more) \in StepsTo(N + 1, Catalogues)
      /\ BuiltFrom(more) = FoldTo(N + 1, Catalogues, EmptyCatalogue, RequestSteps(more))
  BY <1>3, RequestFold
<1>5. \A n \in 1 .. N : RequestSteps(base)[n] = RequestSteps(more)[n]
  <2> TAKE n \in 1 .. N
  <2>1. more[n] = base[n] /\ n \in 1 .. Len(more)
    OBVIOUS
  <2> QED
    BY <2>1 DEF RequestSteps
<1>6. RequestSteps(more)[N + 1][last] = ApplyRequest(last, r)
  <2>1. more[N + 1] = r /\ N + 1 \in 1 .. Len(more)
    OBVIOUS
  <2> HIDE DEF more, last
  <2> QED
    BY <1>2, <2>1 DEF RequestSteps
<1> HIDE DEF more, N, last
<1>7. BuiltFrom(more) = RequestSteps(more)[N + 1][last]
  <2>1. FoldTo(N + 1, Catalogues, EmptyCatalogue, RequestSteps(more))
          = RequestSteps(more)[N + 1][FoldTo(N, Catalogues, EmptyCatalogue, RequestSteps(base))]
    BY <1>0, <1>2, <1>3, <1>4, <1>5, FoldToNext
  <2> QED
    BY <1>2, <1>4, <2>1
<1> QED
  BY <1>1, <1>2, <1>6, <1>7 DEF more, last

(* The stops a request mentions besides the one it declares.               *)
Mentions(r) ==
  IF r.type = "Bus" THEN {r.stops[k] : k \in DOMAIN r.stops}
  ELSE IF r.type = "Stop" THEN RoadEnds(r.road_distances)
  ELSE {}

Declares(r) == IF r.type = "Stop" THEN {r.name} ELSE {}

LEMMA AppendedRequest ==
  ASSUME NEW base \in Seq(Request), NEW r \in Request
  PROVE  /\ DeclaredStops(Append(base, r)) = DeclaredStops(base) \cup Declares(r)
         /\ MentionedStops(Append(base, r)) = MentionedStops(base) \cup Mentions(r)
         /\ HasNull(Append(base, r)) <=> HasNull(base) \/ r.type = "Null"
<1> DEFINE more == Append(base, r)
           last == Len(base) + 1
<1>1. /\ DOMAIN more = DOMAIN base \cup {last}
      /\ more[last] = r /\ \A k \in DOMAIN base : more[k] = base[k]
  OBVIOUS
<1> HIDE DEF more, last
<1>2. DeclaredStops(more) = DeclaredStops(base) \cup Declares(r)
  BY <1>1 DEF DeclaredStops, Declares
<1>3. HasNull(more) <=> HasNull(base) \/ r.type = "Null"
  BY <1>1 DEF HasNull
<1>4. \A b : MentionedStops(b) = UNION {Mentions(b[k]) : k \in DOMAIN b}
  BY DEF MentionedStops, Mentions, RoadEnds
<1>5. MentionedStops(more) = MentionedStops(base) \cup Mentions(r)
  BY <1>1, <1>4
<1> QED
  BY <1>2, <1>3, <1>5 DEF more

(* What a catalogue has to do with the document it is built from.          *)
BuiltCatalogue(cat, base) ==
  /\ cat \in Catalogues /\ IndexConsistent(cat)
  /\ StopNames(cat) = DeclaredStops(base) \cup MentionedStops(base)
  /\ \A s \in StopNames(cat) :
       IF s \in DeclaredStops(base) THEN cat.stops[s].coordinates \in Coordinates
       ELSE cat.stops[s].coordinates = Uninitialised

LEMMA BuiltFromFacts ==
  ASSUME NEW base \in Seq(Request)
  PROVE  BuiltCatalogue(BuiltFrom(base), base)
<1> DEFINE S == {b \in Seq(Request) : BuiltCatalogue(BuiltFrom(b), b)}
<1>1. <<>> \in S
  <2>1. \A r \in Request : BuiltFrom(<<>>) = EmptyCatalogue
    <3>1. <<>> \in Seq(Request)
      OBVIOUS
    <3> QED
      BY <3>1, BuiltFromUnfold
  <2>2. [type |-> "Null"] \in Request
    BY DEF Request
  <2>3. BuiltFrom(<<>>) = EmptyCatalogue
    BY <2>1, <2>2
  <2>4. DeclaredStops(<<>>) = {} /\ MentionedStops(<<>>) = {}
    BY DEF DeclaredStops, MentionedStops
  <2> QED
    BY <2>3, <2>4, EmptyCatalogueFacts DEF BuiltCatalogue
<1>2. ASSUME NEW b \in S, NEW r \in Request PROVE Append(b, r) \in S
  <2> DEFINE cat == BuiltFrom(b)
             more == Append(b, r)
             new == BuiltFrom(more)
  <2>1. b \in Seq(Request) /\ BuiltCatalogue(cat, b) /\ more \in Seq(Request)
    OBVIOUS
  <2>2. new = ApplyRequest(cat, r) /\ new \in Catalogues
    BY <2>1, BuiltFromUnfold
  <2>3. /\ DeclaredStops(more) = DeclaredStops(b) \cup Declares(r)
        /\ MentionedStops(more) = MentionedStops(b) \cup Mentions(r)
    BY <2>1, AppendedRequest
  <2>4. /\ r.type = "Bus" => r.name \in Names /\ r.stops \in Seq(Names)
        /\ r.type = "Stop" => /\ r.name \in Names /\ r.coordinates \in Coordinates
                              /\ r.road_distances \in Seq(Names \X Int)
    BY RequestFields
  <2> HIDE DEF cat, more, new
  <2>5. cat \in Catalogues /\ CatalogueType(cat) /\ IndexConsistent(cat)
    BY <2>1, CataloguesFacts DEF BuiltCatalogue
  <2>6. CASE r.type = "Bus"
    <3>1. BusAdded(cat, new, r.name, Reverse(r.stops), ~ r.is_roundtrip)
      BY <2>2, <2>5, <2>6, ApplyBus
    <3>2. /\ Reverse(r.stops) \in Seq(Names)
          /\ StopsIndexed(Reverse(r.stops)) = Mentions(r)
      BY <2>4, <2>6, ReverseFacts DEF Mentions
    <3>3. new = SetBus(cat, r.name, Reverse(r.stops), ~ r.is_roundtrip)
      BY <2>2, <2>6 DEF ApplyRequest
    <3>4. (~ r.is_roundtrip) \in BOOLEAN
      BY <2>6, RequestFields
    <3>5. IndexConsistent(new)
      BY <2>4, <2>5, <2>6, <3>2, <3>3, <3>4, SetBusIndex
    <3>6. Declares(r) = {}
      BY <2>6 DEF Declares
    <3>7. StopNames(new) = StopNames(cat) \cup Mentions(r)
      BY <3>1, <3>2 DEF BusAdded
    <3>8. \A s \in StopNames(new) : new.stops[s].coordinates = StopOf(cat, s).coordinates
      BY <3>1 DEF BusAdded
    <3>9. \A s \in DeclaredStops(b) : s \in StopNames(cat)
      BY <2>1 DEF BuiltCatalogue
    <3>10. BuiltCatalogue(new, more)
      BY <2>1, <2>2, <2>3, <3>5, <3>6, <3>7, <3>8, <3>9
         DEF BuiltCatalogue, StopOf, NewStop
    <3> QED
      BY <2>1, <3>10 DEF new, more
  <2>7. CASE r.type = "Stop"
    <3> DEFINE set == SetStop(cat, r.name, r.coordinates)
    <3>1. /\ new = SetRoadDistances(set, r.name, r.road_distances)
          /\ set \in Catalogues /\ r.name \in StopNames(set) /\ IndexConsistent(set)
      BY <2>2, <2>5, <2>7, ApplyStop
    <3>2. /\ StopNames(set) = StopNames(cat) \cup {r.name}
          /\ set.stops[r.name].coordinates = r.coordinates
          /\ \A s \in StopNames(cat) : s # r.name =>
               set.stops[s].coordinates = cat.stops[s].coordinates
      BY <2>4, <2>5, <2>7, SetStopFields
    <3> HIDE DEF set
    <3>3. /\ IndexConsistent(new)
          /\ StopNames(new) = StopNames(set) \cup RoadEnds(r.road_distances)
          /\ \A s \in StopNames(new) : new.stops[s] = StopOf(set, s)
      BY <2>4, <2>7, <3>1, RoadDistancesFields
    <3>4. Declares(r) = {r.name} /\ Mentions(r) = RoadEnds(r.road_distances)
      BY <2>7 DEF Declares, Mentions
    <3>5. StopNames(new) = DeclaredStops(more) \cup MentionedStops(more)
      BY <2>1, <2>3, <3>2, <3>3, <3>4 DEF BuiltCatalogue
    <3>6. ASSUME NEW s \in StopNames(new)
          PROVE  IF s \in DeclaredStops(more) THEN new.stops[s].coordinates \in Coordinates
                 ELSE new.stops[s].coordinates = Uninitialised
      <4>1. new.stops[s] = StopOf(set, s)
        BY <3>3
      <4>2. CASE s = r.name
        BY <2>3, <2>4, <2>7, <3>1, <3>2, <3>4, <4>1, <4>2 DEF StopOf
      <4>3. CASE s # r.name /\ s \in StopNames(cat)
        BY <2>1, <2>3, <3>2, <3>4, <4>1, <4>3 DEF StopOf, BuiltCatalogue
      <4>4. CASE s # r.name /\ s \notin StopNames(cat)
        BY <2>1, <2>3, <3>2, <3>4, <4>1, <4>4 DEF StopOf, NewStop, BuiltCatalogue
      <4> QED
        BY <4>2, <4>3, <4>4
    <3>7. BuiltCatalogue(new, more)
      BY <2>2, <3>3, <3>5, <3>6 DEF BuiltCatalogue
    <3> QED
      BY <2>1, <3>7 DEF new, more
  <2>8. CASE r.type # "Bus" /\ r.type # "Stop"
    <3>1. new = cat
      BY <2>2, <2>8 DEF ApplyRequest
    <3>2. Declares(r) = {} /\ Mentions(r) = {}
      BY <2>8 DEF Declares, Mentions
    <3>3. BuiltCatalogue(new, more)
      BY <2>1, <2>3, <3>1, <3>2 DEF BuiltCatalogue
    <3> QED
      BY <2>1, <3>3 DEF new, more
  <2> QED
    BY <2>6, <2>7, <2>8
<1>3. S = Seq(Request)
  <2>1. S \in SUBSET Seq(Request)
    OBVIOUS
  <2> HIDE DEF S
  <2> QED
    BY <1>1, <1>2, <2>1, SequenceInduction
<1> QED
  BY <1>3

(* The catalogue DBBuilder makes of a document is well formed, its stops   *)
(* and buses agree (a stop lists exactly the buses whose route passes it), *)
(* and its stops are those the document declares or mentions: those it     *)
(* declares have coordinates, those it only mentions were never given any. *)
THEOREM DBBuilderIsConsistent ==
  ASSUME NEW base \in Seq(Request)
  PROVE  IF HasNull(base) THEN DBBuilder(base) = EmptyCatalogue
         ELSE BuiltCatalogue(DBBuilder(base), base)
<1>1. ~ HasNull(base) => DBBuilder(base) = BuiltFrom(base)
  BY DEF DBBuilder, BuiltFrom, ApplyRequest
<1> QED
  BY <1>1, BuiltFromFacts DEF DBBuilder

-----------------------------------------------------------------------------
(* The roads and the buses of a catalogue, as its document gives them.     *)

IsMap(roads) == \A j, k \in DOMAIN roads : roads[j][1] = roads[k][1] => j = k

(* SetRoadDistances sets the distances it is given, from the stop to each  *)
(* of the others, and no other.                                            *)
RoadsOfRequestSet(cat, new, name, roads) ==
  /\ DOMAIN new.distances = DOMAIN cat.distances \cup {<<name, s>> : s \in RoadEnds(roads)}
  /\ \A k \in DOMAIN roads : new.distances[<<name, roads[k][1]>>] = roads[k][2]
  /\ \A from, to \in Names :
       /\ <<from, to>> \in DOMAIN cat.distances
       /\ ~ (from = name /\ to \in RoadEnds(roads))
       => new.distances[<<from, to>>] = cat.distances[<<from, to>>]

LEMMA AppendedRoad ==
  ASSUME NEW roads \in Seq(Names \X Int), NEW road \in Names \X Int
  PROVE  /\ DOMAIN Append(roads, road) = DOMAIN roads \cup {Len(roads) + 1}
         /\ Append(roads, road)[Len(roads) + 1] = road
         /\ \A k \in DOMAIN roads : Append(roads, road)[k] = roads[k]
         /\ RoadEnds(Append(roads, road)) = RoadEnds(roads) \cup {road[1]}
<1>1. /\ DOMAIN Append(roads, road) = DOMAIN roads \cup {Len(roads) + 1}
      /\ Append(roads, road)[Len(roads) + 1] = road
      /\ \A k \in DOMAIN roads : Append(roads, road)[k] = roads[k]
  OBVIOUS
<1> QED
  BY <1>1 DEF RoadEnds

LEMMA RoadDistancesValues ==
  ASSUME NEW cat \in Catalogues, NEW name \in Names,
         NEW roads \in Seq(Names \X Int), IsMap(roads)
  PROVE  RoadsOfRequestSet(cat, SetRoadDistances(cat, name, roads), name, roads)
<1> DEFINE After(r) == IsMap(r) => RoadsOfRequestSet(cat, SetRoadDistances(cat, name, r), name, r)
           S == {r \in Seq(Names \X Int) : After(r)}
<1>1. <<>> \in S
  <2>1. SetRoadDistances(cat, name, <<>>) = cat
    <3>1. <<>> \in Seq(Names \X Int) /\ <<name, 0>> \in Names \X Int
      OBVIOUS
    <3> QED
      BY <3>1, RoadDistancesUnfold
  <2>2. RoadsOfRequestSet(cat, cat, name, <<>>)
    BY DEF RoadsOfRequestSet, RoadEnds
  <2> QED
    BY <2>1, <2>2
<1>2. ASSUME NEW r \in S, NEW road \in Names \X Int PROVE Append(r, road) \in S
  <2> DEFINE c == SetRoadDistances(cat, name, r)
             more == Append(r, road)
             d == SetRoadDistances(cat, name, more)
  <2>1. r \in Seq(Names \X Int) /\ After(r) /\ more \in Seq(Names \X Int)
    OBVIOUS
  <2> SUFFICES ASSUME IsMap(more) PROVE RoadsOfRequestSet(cat, d, name, more)
    BY <2>1
  <2>2. c \in Catalogues /\ d = SetStopDistance(c, name, road[1], road[2])
    <3>1. r \in Seq(Names \X Int) /\ road \in Names \X Int
      BY <2>1
    <3> HIDE DEF S, After
    <3> QED
      BY <3>1, RoadDistancesUnfold, ZenonT(30)
  <2>3. road[1] \in Names /\ road[2] \in Int
    OBVIOUS
  <2>4. /\ DOMAIN more = DOMAIN r \cup {Len(r) + 1} /\ more[Len(r) + 1] = road
        /\ \A k \in DOMAIN r : more[k] = r[k] /\ k # Len(r) + 1
        /\ RoadEnds(more) = RoadEnds(r) \cup {road[1]}
    <3>1. r \in Seq(Names \X Int) /\ road \in Names \X Int
      BY <2>1
    <3> HIDE DEF S, After
    <3>2. \A k \in DOMAIN r : k # Len(r) + 1
      BY <3>1
    <3> QED
      BY <3>1, <3>2, AppendedRoad, SMTT(30)
  <2> HIDE DEF more, c, d
  <2>5. IsMap(r) /\ road[1] \notin RoadEnds(r)
    BY <2>4 DEF IsMap, RoadEnds
  <2>6. RoadsOfRequestSet(cat, c, name, r)
    BY <2>1, <2>5 DEF c
  <2>7. d.distances = Assign(c.distances, <<name, road[1]>>, road[2])
    BY <2>2, <2>3, SetStopDistanceFields, CataloguesFacts
  <2>8. /\ DOMAIN d.distances = DOMAIN c.distances \cup {<<name, road[1]>>}
        /\ d.distances[<<name, road[1]>>] = road[2]
        /\ \A key \in DOMAIN c.distances :
             key # <<name, road[1]>> => d.distances[key] = c.distances[key]
    BY <2>7 DEF Assign
  <2>9. DOMAIN d.distances
          = DOMAIN cat.distances \cup {<<name, s>> : s \in RoadEnds(more)}
    BY <2>4, <2>6, <2>8 DEF RoadsOfRequestSet
  <2>10. ASSUME NEW k \in DOMAIN more
         PROVE  d.distances[<<name, more[k][1]>>] = more[k][2]
    <3>1. CASE k = Len(r) + 1
      BY <2>4, <2>8, <3>1
    <3>2. CASE k \in DOMAIN r
      <4>1. r[k][1] \in RoadEnds(r) /\ more[k] = r[k]
        BY <2>4, <3>2 DEF RoadEnds
      <4>2. <<name, r[k][1]>> \in DOMAIN c.distances
        BY <2>6, <4>1 DEF RoadsOfRequestSet
      <4>3. <<name, r[k][1]>> # <<name, road[1]>>
        BY <2>5, <4>1
      <4>4. c.distances[<<name, r[k][1]>>] = r[k][2]
        BY <2>6, <3>2 DEF RoadsOfRequestSet
      <4> QED
        BY <2>8, <4>1, <4>2, <4>3, <4>4
    <3> QED
      BY <2>4, <3>1, <3>2
  <2>11. ASSUME NEW from \in Names, NEW to \in Names, <<from, to>> \in DOMAIN cat.distances,
                ~ (from = name /\ to \in RoadEnds(more))
         PROVE  d.distances[<<from, to>>] = cat.distances[<<from, to>>]
    <3>1. ~ (from = name /\ to \in RoadEnds(r)) /\ <<from, to>> # <<name, road[1]>>
      BY <2>4, <2>11
    <3>2. c.distances[<<from, to>>] = cat.distances[<<from, to>>]
      BY <2>6, <2>11, <3>1 DEF RoadsOfRequestSet
    <3>3. <<from, to>> \in DOMAIN c.distances
      BY <2>6, <2>11 DEF RoadsOfRequestSet
    <3> QED
      BY <2>8, <3>1, <3>2, <3>3
  <2> QED
    BY <2>9, <2>10, <2>11 DEF RoadsOfRequestSet
<1>3. S = Seq(Names \X Int)
  <2>1. S \in SUBSET Seq(Names \X Int)
    OBVIOUS
  <2> HIDE DEF S
  <2> QED
    BY <1>1, <1>2, <2>1, SequenceInduction
<1>4. After(roads)
  <2> HIDE DEF After
  <2> QED
    BY <1>3
<1> QED
  BY <1>4

(* It leaves the buses alone.                                              *)
LEMMA RoadDistancesBuses ==
  ASSUME NEW cat \in Catalogues, NEW name \in Names, NEW roads \in Seq(Names \X Int)
  PROVE  SetRoadDistances(cat, name, roads).buses = cat.buses
<1> DEFINE S == {r \in Seq(Names \X Int) : SetRoadDistances(cat, name, r).buses = cat.buses}
<1>1. <<>> \in S
  <2>1. <<>> \in Seq(Names \X Int) /\ <<name, 0>> \in Names \X Int
    OBVIOUS
  <2> QED
    BY <2>1, RoadDistancesUnfold
<1>2. ASSUME NEW r \in S, NEW road \in Names \X Int PROVE Append(r, road) \in S
  <2> DEFINE c == SetRoadDistances(cat, name, r)
  <2>1. r \in Seq(Names \X Int) /\ c.buses = cat.buses
    OBVIOUS
  <2>2. /\ c \in Catalogues
        /\ SetRoadDistances(cat, name, Append(r, road)) = SetStopDistance(c, name, road[1], road[2])
    <3>1. r \in Seq(Names \X Int) /\ road \in Names \X Int
      BY <2>1
    <3> HIDE DEF S
    <3> QED
      BY <3>1, RoadDistancesUnfold, ZenonT(30)
  <2>3. road[1] \in Names /\ road[2] \in Int
    OBVIOUS
  <2> HIDE DEF c
  <2>4. SetStopDistance(c, name, road[1], road[2]).buses = c.buses
    BY <2>2, <2>3, SetStopDistanceFields, CataloguesFacts
  <2> QED
    BY <2>1, <2>2, <2>4
<1>3. S = Seq(Names \X Int)
  <2>1. S \in SUBSET Seq(Names \X Int)
    OBVIOUS
  <2> HIDE DEF S
  <2> QED
    BY <1>1, <1>2, <2>1, SequenceInduction
<1> QED
  BY <1>3

(* The last length that is declared from one stop to another.              *)
LengthOf(roads, to) == roads[CHOOSE k \in DOMAIN roads : roads[k][1] = to][2]

LastLength(base, from, to) ==
  LengthOf(base[Max(RoadDeclarations(base, from, to))].road_distances, to)

RoadsAsDeclared(cat, base) ==
  \A from, to \in Names :
    /\ <<from, to>> \in DOMAIN cat.distances <=> RoadDeclarations(base, from, to) # {}
    /\ <<from, to>> \in DOMAIN cat.distances =>
         cat.distances[<<from, to>>] = LastLength(base, from, to)

DeclaresRoad(r, from, to) ==
  r.type = "Stop" /\ r.name = from /\ to \in RoadEnds(r.road_distances)

LEMMA AppendedDeclaration ==
  ASSUME NEW base \in Seq(Request), NEW r \in Request, NEW from, NEW to
  PROVE  LET more == Append(base, r)
         IN  IF DeclaresRoad(r, from, to)
               THEN /\ RoadDeclarations(more, from, to) # {}
                    /\ LastLength(more, from, to) = LengthOf(r.road_distances, to)
               ELSE /\ RoadDeclarations(more, from, to) = RoadDeclarations(base, from, to)
                    /\ RoadDeclarations(base, from, to) # {} =>
                         LastLength(more, from, to) = LastLength(base, from, to)
<1> DEFINE more == Append(base, r)
           N == Len(base)
           D(b) == RoadDeclarations(b, from, to)
<1>1. /\ N \in Nat /\ DOMAIN base = 1 .. N /\ DOMAIN more = 1 .. N + 1
      /\ more[N + 1] = r /\ \A k \in 1 .. N : more[k] = base[k]
  OBVIOUS
<1> HIDE DEF more, N
<1>2. \A b : D(b) = {i \in DOMAIN b : DeclaresRoad(b[i], from, to)}
  BY DEF RoadDeclarations, DeclaresRoad, RoadEnds
<1> HIDE DEF D
<1>3. CASE DeclaresRoad(r, from, to)
  <2>1. D(more) \in SUBSET (1 .. N + 1) /\ N + 1 \in D(more) /\ N + 1 \in Nat
    BY <1>1, <1>2, <1>3
  <2>2. Max(D(more)) = N + 1
    BY <2>1, MaxIsLast
  <2> QED
    BY <1>1, <1>3, <2>1, <2>2 DEF D, LastLength, more
<1>4. CASE ~ DeclaresRoad(r, from, to)
  <2>1. D(more) = D(base) /\ D(base) \in SUBSET (1 .. N)
    <3>1. \A i \in 1 .. N + 1 : i = N + 1 \/ i \in 1 .. N
      BY <1>1
    <3>2. \A i \in 1 .. N : i \in 1 .. N + 1
      BY <1>1
    <3>3. ASSUME NEW i PROVE i \in D(more) <=> i \in D(base)
      <4>1. CASE i \in 1 .. N
        BY <1>1, <1>2, <3>2, <4>1
      <4>2. CASE i = N + 1
        <5>1. i \notin 1 .. N
          BY <1>1, <4>2
        <5> QED
          BY <1>1, <1>2, <1>4, <4>2, <5>1
      <4>3. CASE i \notin 1 .. N + 1
        BY <1>1, <1>2, <3>2, <4>3
      <4> QED
        BY <3>1, <4>1, <4>2, <4>3
    <3> QED
      BY <1>1, <1>2, <3>3
  <2>2. D(base) # {} => Max(D(base)) \in 1 .. N
    BY <1>1, <2>1, MaxInside
  <2> QED
    BY <1>1, <1>4, <2>1, <2>2 DEF D, LastLength, more
<1> QED
  BY <1>3, <1>4

(* The distances of the catalogue are those of the document: the last      *)
(* request that declares one counts.                                       *)
LEMMA BuiltFromRoads ==
  ASSUME NEW base \in Seq(Request), RoadsAreMaps(base)
  PROVE  RoadsAsDeclared(BuiltFrom(base), base)
<1> DEFINE Fine(b) == RoadsAreMaps(b) => RoadsAsDeclared(BuiltFrom(b), b)
           S == {b \in Seq(Request) : Fine(b)}
<1>1. <<>> \in S
  <2>1. BuiltFrom(<<>>) = EmptyCatalogue
    <3>1. <<>> \in Seq(Request) /\ [type |-> "Null"] \in Request
      BY DEF Request
    <3> QED
      BY <3>1, BuiltFromUnfold
  <2>2. \A from, to : RoadDeclarations(<<>>, from, to) = {}
    BY DEF RoadDeclarations
  <2> QED
    BY <2>1, <2>2, EmptyCatalogueFacts DEF RoadsAsDeclared
<1>2. ASSUME NEW b \in S, NEW r \in Request PROVE Append(b, r) \in S
  <2> DEFINE cat == BuiltFrom(b)
             more == Append(b, r)
             new == BuiltFrom(more)
  <2>1. b \in Seq(Request) /\ Fine(b) /\ more \in Seq(Request)
    OBVIOUS
  <2> SUFFICES ASSUME RoadsAreMaps(more) PROVE RoadsAsDeclared(new, more)
    BY <2>1
  <2>2. cat \in Catalogues /\ new = ApplyRequest(cat, r)
    BY <2>1, BuiltFromUnfold
  <2>3. RoadsAreMaps(b) /\ (r.type = "Stop" => IsMap(r.road_distances))
    <3>1. /\ \A k \in DOMAIN b : k \in DOMAIN more /\ more[k] = b[k]
          /\ Len(b) + 1 \in DOMAIN more /\ more[Len(b) + 1] = r
      BY <2>1
    <3> HIDE DEF more
    <3> QED
      BY <3>1 DEF RoadsAreMaps, IsMap
  <2>4. RoadsAsDeclared(cat, b)
    BY <2>1, <2>3
  <2>5. \A from, to :
          IF DeclaresRoad(r, from, to)
            THEN /\ RoadDeclarations(more, from, to) # {}
                 /\ LastLength(more, from, to) = LengthOf(r.road_distances, to)
            ELSE /\ RoadDeclarations(more, from, to) = RoadDeclarations(b, from, to)
                 /\ RoadDeclarations(b, from, to) # {} =>
                      LastLength(more, from, to) = LastLength(b, from, to)
    BY <2>1, AppendedDeclaration
  <2> HIDE DEF cat, more, new
  <2>6. CASE r.type = "Stop"
    <3> DEFINE set == SetStop(cat, r.name, r.coordinates)
               roads == r.road_distances
    <3>1. new = SetRoadDistances(set, r.name, roads) /\ set \in Catalogues
      BY <2>2, <2>6, ApplyStop
    <3>2. r.name \in Names /\ r.coordinates \in Coordinates /\ roads \in Seq(Names \X Int)
      BY <2>6, RequestFields
    <3>3. set.distances = cat.distances
      BY <2>2, <3>2, SetStopFields, CataloguesFacts
    <3> HIDE DEF set
    <3>4. RoadsOfRequestSet(cat, new, r.name, roads)
      <4>1. RoadsOfRequestSet(set, new, r.name, roads)
        BY <2>3, <2>6, <3>1, <3>2, RoadDistancesValues
      <4> QED
        BY <3>3, <4>1 DEF RoadsOfRequestSet
    <3>5. ASSUME NEW from \in Names, NEW to \in Names
          PROVE  /\ <<from, to>> \in DOMAIN new.distances
                      <=> RoadDeclarations(more, from, to) # {}
                 /\ <<from, to>> \in DOMAIN new.distances =>
                      new.distances[<<from, to>>] = LastLength(more, from, to)
      <4>1. CASE DeclaresRoad(r, from, to)
        <5>1. from = r.name /\ to \in RoadEnds(roads)
          BY <4>1 DEF DeclaresRoad
        <5>2. PICK k \in DOMAIN roads : roads[k][1] = to
          BY <5>1 DEF RoadEnds
        <5>3. LengthOf(roads, to) = roads[k][2]
          BY <2>3, <2>6, <5>2 DEF LengthOf, IsMap
        <5>4. /\ <<from, to>> \in DOMAIN new.distances
              /\ new.distances[<<from, to>>] = roads[k][2]
          BY <3>4, <5>1, <5>2 DEF RoadsOfRequestSet
        <5> QED
          BY <2>5, <4>1, <5>3, <5>4
      <4>2. CASE ~ DeclaresRoad(r, from, to)
        <5>1. ~ (from = r.name /\ to \in RoadEnds(roads))
          BY <2>6, <4>2 DEF DeclaresRoad
        <5>2. <<from, to>> \in DOMAIN new.distances <=> <<from, to>> \in DOMAIN cat.distances
          BY <3>4, <5>1 DEF RoadsOfRequestSet
        <5>3. <<from, to>> \in DOMAIN cat.distances =>
                new.distances[<<from, to>>] = cat.distances[<<from, to>>]
          BY <3>4, <5>1 DEF RoadsOfRequestSet
        <5> QED
          BY <2>4, <2>5, <4>2, <5>2, <5>3 DEF RoadsAsDeclared
      <4> QED
        BY <4>1, <4>2
    <3> QED
      BY <3>5 DEF RoadsAsDeclared
  <2>7. CASE r.type # "Stop"
    <3>1. new.distances = cat.distances
      <4>1. CASE r.type = "Bus"
        BY <2>2, <4>1, ApplyBus DEF BusAdded
      <4>2. CASE r.type # "Bus"
        BY <2>2, <2>7, <4>2 DEF ApplyRequest
      <4> QED
        BY <4>1, <4>2
    <3>2. \A from, to : ~ DeclaresRoad(r, from, to)
      BY <2>7 DEF DeclaresRoad
    <3>3. ASSUME NEW from \in Names, NEW to \in Names
          PROVE  /\ <<from, to>> \in DOMAIN new.distances
                      <=> RoadDeclarations(more, from, to) # {}
                 /\ <<from, to>> \in DOMAIN new.distances =>
                      new.distances[<<from, to>>] = LastLength(more, from, to)
      <4>1. /\ RoadDeclarations(more, from, to) = RoadDeclarations(b, from, to)
            /\ RoadDeclarations(b, from, to) # {} =>
                 LastLength(more, from, to) = LastLength(b, from, to)
        BY <2>5, <3>2
      <4> QED
        BY <2>4, <3>1, <4>1 DEF RoadsAsDeclared
    <3> QED
      BY <3>3 DEF RoadsAsDeclared
  <2>8. RoadsAsDeclared(new, more)
    BY <2>6, <2>7
  <2> QED
    BY <2>8
<1>3. S = Seq(Request)
  <2>1. S \in SUBSET Seq(Request)
    OBVIOUS
  <2> HIDE DEF S
  <2> QED
    BY <1>1, <1>2, <2>1, SequenceInduction
<1>4. Fine(base)
  <2> HIDE DEF Fine
  <2> QED
    BY <1>3
<1> QED
  BY <1>4

(* The buses are those of the document, and one that is declared once      *)
(* travels as it is declared, stored in reverse.                           *)
BusPlaces(base) == {k \in DOMAIN base : base[k].type = "Bus"}

OnceEach(base) == \A k, n \in BusPlaces(base) : base[k].name = base[n].name => k = n

Alone(base, k) == \A n \in BusPlaces(base) : base[n].name = base[k].name => n = k

BusOf(r) == [is_chain |-> ~ r.is_roundtrip, route |-> Reverse(r.stops)]

BusesAsDeclared(cat, base) ==
  /\ BusNames(cat) = {base[k].name : k \in BusPlaces(base)}
  /\ \A k \in BusPlaces(base) : Alone(base, k) => cat.buses[base[k].name] = BusOf(base[k])

LEMMA BuiltFromBuses ==
  ASSUME NEW base \in Seq(Request)
  PROVE  BusesAsDeclared(BuiltFrom(base), base)
<1> DEFINE S == {b \in Seq(Request) : BusesAsDeclared(BuiltFrom(b), b)}
<1>1. <<>> \in S
  <2>1. BuiltFrom(<<>>) = EmptyCatalogue
    <3>1. <<>> \in Seq(Request) /\ [type |-> "Null"] \in Request
      BY DEF Request
    <3> QED
      BY <3>1, BuiltFromUnfold
  <2>2. BusPlaces(<<>>) = {}
    BY DEF BusPlaces
  <2> QED
    BY <2>1, <2>2, EmptyCatalogueFacts DEF BusesAsDeclared
<1>2. ASSUME NEW b \in S, NEW r \in Request PROVE Append(b, r) \in S
  <2> DEFINE cat == BuiltFrom(b)
             more == Append(b, r)
             new == BuiltFrom(more)
             last == Len(b) + 1
  <2>1. b \in Seq(Request) /\ BusesAsDeclared(cat, b) /\ more \in Seq(Request)
    OBVIOUS
  <2>2. cat \in Catalogues /\ new = ApplyRequest(cat, r)
    BY <2>1, BuiltFromUnfold
  <2>3. /\ DOMAIN more = DOMAIN b \cup {last} /\ last \notin DOMAIN b
        /\ \A k \in DOMAIN b : more[k] = b[k]
        /\ more[last] = r
    BY <2>1
  <2> HIDE DEF cat, more, new, last
  <2>4. CASE r.type = "Bus"
    <3>1. BusPlaces(more) = BusPlaces(b) \cup {last}
      BY <2>3, <2>4 DEF BusPlaces
    <3>2. BusAdded(cat, new, r.name, Reverse(r.stops), ~ r.is_roundtrip)
      BY <2>2, <2>4, ApplyBus
    <3>3. BusNames(new) = BusNames(cat) \cup {r.name}
      BY <3>2, BusAddedBuses
    <3>4. \A k \in BusPlaces(b) : k \in DOMAIN b /\ more[k] = b[k]
      BY <2>3 DEF BusPlaces
    <3>5. BusNames(new) = {more[k].name : k \in BusPlaces(more)}
      BY <2>1, <2>3, <3>1, <3>3, <3>4 DEF BusesAsDeclared
    <3>6. ASSUME NEW k \in BusPlaces(more), Alone(more, k)
          PROVE  new.buses[more[k].name] = BusOf(more[k])
      <4>1. last \in BusPlaces(more) /\ \A n \in BusPlaces(b) : n \in BusPlaces(more)
        BY <3>1
      <4>3. CASE k = last
        <5>0. \A n \in BusPlaces(b) : b[n].name # r.name
          BY <2>3, <3>4, <3>6, <4>1, <4>3 DEF Alone
        <5>1. r.name \notin BusNames(cat)
          BY <2>1, <5>0 DEF BusesAsDeclared
        <5>2. RouteOf(cat, r.name) = <<>>
          BY <5>1 DEF RouteOf
        <5>3. Reverse(r.stops) \in Seq(Names)
          BY <2>4, RequestFields, ReverseFacts
        <5>4. <<>> \o Reverse(r.stops) = Reverse(r.stops)
          <6> HIDE DEF Reverse
          <6> QED
            BY <5>3
        <5>5. new.buses = Assign(cat.buses, r.name, BusOf(r))
          BY <3>2, <5>2, <5>4 DEF BusAdded, BusOf
        <5> QED
          BY <2>3, <4>3, <5>5 DEF Assign
      <4>4. CASE k \in BusPlaces(b)
        <5>0. k # last /\ more[k] = b[k]
          BY <2>3, <3>4, <4>4
        <5>1. Alone(b, k)
          BY <3>4, <3>6, <4>1, <5>0 DEF Alone
        <5>2. b[k].name # r.name
          BY <2>3, <3>6, <4>1, <5>0 DEF Alone
        <5>3. cat.buses[b[k].name] = BusOf(b[k]) /\ b[k].name \in BusNames(cat)
          BY <2>1, <4>4, <5>1 DEF BusesAsDeclared
        <5> QED
          BY <3>2, <5>0, <5>2, <5>3, BusAddedBuses
      <4> QED
        BY <3>1, <4>3, <4>4
    <3>7. BusesAsDeclared(new, more)
      BY <3>5, <3>6 DEF BusesAsDeclared
    <3> QED
      BY <2>1, <3>7 DEF new, more
  <2>5. CASE r.type # "Bus"
    <3>1. new.buses = cat.buses
      <4>1. CASE r.type = "Stop"
        <5> DEFINE set == SetStop(cat, r.name, r.coordinates)
        <5>1. /\ r.name \in Names /\ r.coordinates \in Coordinates
              /\ r.road_distances \in Seq(Names \X Int)
          BY <4>1, RequestFields
        <5>2. set.buses = cat.buses
          BY <2>2, <5>1, SetStopFields, CataloguesFacts
        <5>3. new = SetRoadDistances(set, r.name, r.road_distances) /\ set \in Catalogues
          BY <2>2, <4>1, ApplyStop
        <5> HIDE DEF set
        <5>4. new.buses = set.buses
          BY <5>1, <5>3, RoadDistancesBuses
        <5> QED
          BY <5>2, <5>4
      <4>2. CASE r.type # "Stop"
        BY <2>2, <2>5, <4>2 DEF ApplyRequest
      <4> QED
        BY <4>1, <4>2
    <3>2. BusPlaces(more) = BusPlaces(b) /\ \A k \in BusPlaces(b) : more[k] = b[k]
      BY <2>3, <2>5 DEF BusPlaces
    <3>3. \A k \in BusPlaces(more) : Alone(more, k) => Alone(b, k)
      BY <3>2 DEF Alone
    <3>4. BusNames(new) = {more[k].name : k \in BusPlaces(more)}
      BY <2>1, <3>1, <3>2 DEF BusesAsDeclared, BusNames
    <3>5. BusesAsDeclared(new, more)
      BY <2>1, <3>1, <3>2, <3>3, <3>4 DEF BusesAsDeclared
    <3> QED
      BY <2>1, <3>5 DEF new, more
  <2> QED
    BY <2>4, <2>5
<1>3. S = Seq(Request)
  <2>1. S \in SUBSET Seq(Request)
    OBVIOUS
  <2> HIDE DEF S
  <2> QED
    BY <1>1, <1>2, <2>1, SequenceInduction
<1> QED
  BY <1>3

(* What the stops of the catalogue know: where they are, as the last       *)
(* request for them says, and the buses whose requests name them.          *)
StopPlaces(base, stop) ==
  {k \in DOMAIN base : base[k].type = "Stop" /\ base[k].name = stop}

Passes(base, k, stop) == base[k].type = "Bus" /\ stop \in ToSet(base[k].stops)

StopsAsDeclared(cat, base) ==
  \A s \in Names :
    /\ StopOf(cat, s).buses = {base[k].name : k \in {n \in DOMAIN base : Passes(base, n, s)}}
    /\ StopPlaces(base, s) # {} =>
         StopOf(cat, s).coordinates = base[Max(StopPlaces(base, s))].coordinates

LEMMA AppendedStop ==
  ASSUME NEW base \in Seq(Request), NEW r \in Request, NEW s \in Names
  PROVE  LET more == Append(base, r)
         IN  IF r.type = "Stop" /\ r.name = s
               THEN /\ StopPlaces(more, s) # {}
                    /\ more[Max(StopPlaces(more, s))] = r
               ELSE /\ StopPlaces(more, s) = StopPlaces(base, s)
                    /\ StopPlaces(base, s) # {} =>
                         more[Max(StopPlaces(base, s))] = base[Max(StopPlaces(base, s))]
<1> DEFINE more == Append(base, r)
           N == Len(base)
           D(b) == StopPlaces(b, s)
           Of(q) == q.type = "Stop" /\ q.name = s
<1>1. /\ N \in Nat /\ DOMAIN base = 1 .. N /\ DOMAIN more = 1 .. N + 1
      /\ more[N + 1] = r /\ \A k \in 1 .. N : more[k] = base[k]
  OBVIOUS
<1> HIDE DEF more, N
<1>2. \A b : D(b) = {i \in DOMAIN b : Of(b[i])}
  BY DEF StopPlaces
<1> HIDE DEF D
<1>3. CASE Of(r)
  <2>1. D(more) \in SUBSET (1 .. N + 1) /\ N + 1 \in D(more) /\ N + 1 \in Nat
    BY <1>1, <1>2, <1>3
  <2>2. Max(D(more)) = N + 1
    BY <2>1, MaxIsLast
  <2> QED
    BY <1>1, <1>3, <2>1, <2>2 DEF D, more
<1>4. CASE ~ Of(r)
  <2>1. D(more) = D(base) /\ D(base) \in SUBSET (1 .. N)
    <3>1. \A i \in 1 .. N + 1 : i = N + 1 \/ i \in 1 .. N
      BY <1>1
    <3>2. (\A i \in 1 .. N : i \in 1 .. N + 1) /\ N + 1 \notin 1 .. N
      BY <1>1
    <3> HIDE DEF Of
    <3>3. ASSUME NEW i PROVE i \in D(more) <=> i \in D(base)
      <4>1. CASE i \in 1 .. N
        BY <1>1, <1>2, <3>2, <4>1
      <4>2. CASE i = N + 1
        BY <1>1, <1>2, <1>4, <3>2, <4>2
      <4>3. CASE i \notin 1 .. N + 1
        BY <1>1, <1>2, <3>2, <4>3
      <4> QED
        BY <3>1, <4>1, <4>2, <4>3
    <3> QED
      BY <1>1, <1>2, <3>3
  <2>2. D(base) # {} => Max(D(base)) \in 1 .. N
    BY <1>1, <2>1, MaxInside
  <2> QED
    BY <1>1, <1>4, <2>1, <2>2 DEF D, more
<1> QED
  BY <1>3, <1>4

LEMMA BuiltFromStops ==
  ASSUME NEW base \in Seq(Request)
  PROVE  StopsAsDeclared(BuiltFrom(base), base)
<1> DEFINE S == {b \in Seq(Request) : StopsAsDeclared(BuiltFrom(b), b)}
<1>1. <<>> \in S
  <2>1. BuiltFrom(<<>>) = EmptyCatalogue
    <3>1. <<>> \in Seq(Request) /\ [type |-> "Null"] \in Request
      BY DEF Request
    <3> QED
      BY <3>1, BuiltFromUnfold
  <2>2. \A s : StopPlaces(<<>>, s) = {}
    BY DEF StopPlaces
  <2> QED
    BY <2>1, <2>2, EmptyCatalogueFacts DEF StopsAsDeclared, StopOf, NewStop
<1>2. ASSUME NEW b \in S, NEW r \in Request PROVE Append(b, r) \in S
  <2> DEFINE cat == BuiltFrom(b)
             more == Append(b, r)
             new == BuiltFrom(more)
             last == Len(b) + 1
             By(doc, s) == {doc[k].name : k \in {n \in DOMAIN doc : Passes(doc, n, s)}}
  <2>1. b \in Seq(Request) /\ StopsAsDeclared(cat, b) /\ more \in Seq(Request)
    OBVIOUS
  <2>2. cat \in Catalogues /\ new = ApplyRequest(cat, r) /\ BuiltCatalogue(cat, b)
    BY <2>1, BuiltFromUnfold, BuiltFromFacts
  <2>3. /\ DOMAIN more = DOMAIN b \cup {last} /\ last \notin DOMAIN b
        /\ \A k \in DOMAIN b : more[k] = b[k]
        /\ more[last] = r
    BY <2>1
  <2>4. \A s \in Names :
          IF r.type = "Stop" /\ r.name = s
            THEN /\ StopPlaces(more, s) # {}
                 /\ more[Max(StopPlaces(more, s))] = r
            ELSE /\ StopPlaces(more, s) = StopPlaces(b, s)
                 /\ StopPlaces(b, s) # {} =>
                      more[Max(StopPlaces(b, s))] = b[Max(StopPlaces(b, s))]
    BY <2>1, AppendedStop
  <2> HIDE DEF cat, more, new, last
  <2>5. \A s : By(more, s) =
          By(b, s) \cup IF r.type = "Bus" /\ s \in ToSet(r.stops) THEN {r.name} ELSE {}
    BY <2>3 DEF Passes
  <2>6. /\ \A s \in Names : StopOf(cat, s).buses = By(b, s)
        /\ \A s \in Names : StopPlaces(b, s) # {} =>
             StopOf(cat, s).coordinates = b[Max(StopPlaces(b, s))].coordinates
    BY <2>1 DEF StopsAsDeclared
  <2> HIDE DEF By
  <2>7. SUFFICES ASSUME NEW s \in Names
                 PROVE  /\ StopOf(new, s).buses = By(more, s)
                        /\ StopPlaces(more, s) # {} =>
                             StopOf(new, s).coordinates
                               = more[Max(StopPlaces(more, s))].coordinates
    BY <2>1 DEF StopsAsDeclared, By, new, more
  <2>8. CASE r.type = "Bus"
    <3> DEFINE route == Reverse(r.stops)
    <3>1. BusAdded(cat, new, r.name, route, ~ r.is_roundtrip)
      BY <2>2, <2>8, ApplyBus
    <3>2. StopsIndexed(route) = ToSet(r.stops)
      BY <2>8, RequestFields, ReverseFacts DEF ToSet
    <3> HIDE DEF route
    <3>3. /\ StopNames(new) = StopNames(cat) \cup ToSet(r.stops)
          /\ \A t \in StopNames(new) :
               /\ new.stops[t].coordinates = StopOf(cat, t).coordinates
               /\ new.stops[t].buses = IF t \in ToSet(r.stops)
                                       THEN StopOf(cat, t).buses \cup {r.name}
                                       ELSE StopOf(cat, t).buses
      BY <3>1, <3>2 DEF BusAdded
    <3>4. /\ StopOf(new, s).coordinates = StopOf(cat, s).coordinates
          /\ StopOf(new, s).buses = IF s \in ToSet(r.stops)
                                    THEN StopOf(cat, s).buses \cup {r.name}
                                    ELSE StopOf(cat, s).buses
      BY <3>3 DEF StopOf
    <3> QED
      BY <2>4, <2>5, <2>6, <2>8, <3>4, ZenonT(30)
  <2>9. CASE r.type = "Stop"
    <3> DEFINE set == SetStop(cat, r.name, r.coordinates)
    <3>1. /\ new = SetRoadDistances(set, r.name, r.road_distances)
          /\ set \in Catalogues /\ r.name \in StopNames(set) /\ IndexConsistent(set)
      BY <2>2, <2>9, ApplyStop DEF BuiltCatalogue
    <3>2. /\ r.name \in Names /\ r.coordinates \in Coordinates
          /\ r.road_distances \in Seq(Names \X Int)
      BY <2>9, RequestFields
    <3>3. /\ StopNames(set) = StopNames(cat) \cup {r.name}
          /\ set.stops[r.name].coordinates = r.coordinates
          /\ \A t \in StopNames(cat) : t # r.name =>
               set.stops[t].coordinates = cat.stops[t].coordinates
          /\ \A t \in StopNames(set) :
               set.stops[t].buses = IF t \in StopNames(cat) THEN cat.stops[t].buses ELSE {}
      BY <2>2, <3>2, SetStopFields, CataloguesFacts
    <3> HIDE DEF set
    <3>4. /\ StopNames(new) = StopNames(set) \cup RoadEnds(r.road_distances)
          /\ \A t \in StopNames(new) : new.stops[t] = StopOf(set, t)
      BY <3>1, <3>2, RoadDistancesFields, SMTT(30)
    <3>5. StopOf(new, s) = StopOf(set, s)
      BY <3>4 DEF StopOf
    <3>6. StopOf(set, s).buses = StopOf(cat, s).buses
      BY <3>3 DEF StopOf, NewStop
    <3>7. StopOf(set, s).coordinates = IF s = r.name THEN r.coordinates
                                       ELSE StopOf(cat, s).coordinates
      BY <3>1, <3>3 DEF StopOf
    <3> QED
      BY <2>4, <2>5, <2>6, <2>9, <3>5, <3>6, <3>7
  <2>10. CASE r.type # "Bus" /\ r.type # "Stop"
    <3>1. new = cat
      BY <2>2, <2>10 DEF ApplyRequest
    <3> QED
      BY <2>4, <2>5, <2>6, <2>10, <3>1
  <2> QED
    BY <2>8, <2>9, <2>10
<1>3. S = Seq(Request)
  <2>1. S \in SUBSET Seq(Request)
    OBVIOUS
  <2> HIDE DEF S
  <2> QED
    BY <1>1, <1>2, <2>1, SequenceInduction
<1> QED
  BY <1>3

(* The distance between two stops, in the catalogue DBBuilder makes of a   *)
(* document, is the length of the road the document gives: there is none   *)
(* exactly if there is no road in either direction.                        *)
THEOREM DBBuilderKeepsTheRoads ==
  ASSUME NEW base \in Seq(Request), ~ HasNull(base), RoadsAreMaps(base),
         NEW from \in Names, NEW to \in Names
  PROVE  /\ HasDistance(DBBuilder(base), from, to) <=> HasRoad(base, from, to)
         /\ HasRoad(base, from, to) =>
              GetDistance(DBBuilder(base), from, to) = RoadLength(base, from, to)
<1> DEFINE cat == DBBuilder(base)
           there == RoadDeclarations(base, from, to)
           back == RoadDeclarations(base, to, from)
<1>1. cat = BuiltFrom(base)
  BY DEF DBBuilder, BuiltFrom, ApplyRequest
<1>2. RoadsAsDeclared(cat, base)
  BY <1>1, BuiltFromRoads
<1> HIDE DEF cat
<1>3. /\ <<from, to>> \in DOMAIN cat.distances <=> there # {}
      /\ there # {} => cat.distances[<<from, to>>] = LastLength(base, from, to)
      /\ <<to, from>> \in DOMAIN cat.distances <=> back # {}
      /\ back # {} => cat.distances[<<to, from>>] = LastLength(base, to, from)
  BY <1>2 DEF RoadsAsDeclared
<1>4. HasDistance(cat, from, to) <=> HasRoad(base, from, to)
  BY <1>3 DEF HasDistance, HasRoad
<1>5. RoadLength(base, from, to)
        = IF there # {} THEN LastLength(base, from, to) ELSE LastLength(base, to, from)
  <2>1. RoadLength(base, from, to)
          = LengthOf(base[Max(IF there # {} THEN there ELSE back)].road_distances,
                     IF there # {} THEN to ELSE from)
    BY DEF RoadLength, LengthOf
  <2> HIDE DEF there, back
  <2>2. CASE there # {}
    BY <2>1, <2>2 DEF LastLength, there
  <2>3. CASE there = {}
    BY <2>1, <2>3 DEF LastLength, back
  <2> QED
    BY <2>2, <2>3
<1>6. HasRoad(base, from, to) => GetDistance(cat, from, to) = RoadLength(base, from, to)
  BY <1>3, <1>5 DEF HasRoad, GetDistance
<1> QED
  BY <1>4, <1>6 DEF cat

(* Its buses are those of the document; one that is declared once has the  *)
(* stops of its request, in reverse.                                       *)
THEOREM DBBuilderKeepsTheBuses ==
  ASSUME NEW base \in Seq(Request), ~ HasNull(base)
  PROVE  BusesAsDeclared(DBBuilder(base), base)
<1>1. DBBuilder(base) = BuiltFrom(base)
  BY DEF DBBuilder, BuiltFrom, ApplyRequest
<1> QED
  BY <1>1, BuiltFromBuses

(* Its stops have the coordinates of the last request for them, and list   *)
(* the buses whose requests name them.                                     *)
THEOREM DBBuilderKeepsTheStops ==
  ASSUME NEW base \in Seq(Request), ~ HasNull(base)
  PROVE  StopsAsDeclared(DBBuilder(base), base)
<1>1. DBBuilder(base) = BuiltFrom(base)
  BY DEF DBBuilder, BuiltFrom, ApplyRequest
<1> QED
  BY <1>1, BuiltFromStops

-----------------------------------------------------------------------------
(* The length of a route.                                                  *)

(* A fold that adds is a sum.                                              *)
AddsUp(iter, N, w) ==
  iter = [A \in SUBSET (1 .. N) |->
           IF A = {} THEN 0 ELSE iter[A \ {Max(A)}] + w[Max(A)]]

LEMMA SumFold ==
  ASSUME NEW N \in Nat, NEW w, Summands(w, N), NEW g, Total(g, N, w)
  PROVE  /\ \E iter : AddsUp(iter, N, w)
         /\ \A iter : AddsUp(iter, N, w) => iter[1 .. N] = g[N]
<1> DEFINE step == [k \in 1 .. N |-> [c \in Int |-> c + w[k]]]
<1>1. step \in StepsTo(N, Int)
  BY DEF StepsTo, Summands
<1>2. \A k \in 1 .. N : \A c \in Int : step[k][c] = c + w[k]
  OBVIOUS
<1> HIDE DEF step
<1>3. PICK h : TakesGreatest(h, N, Int, 0, step)
  <2>1. 0 \in Int
    OBVIOUS
  <2> QED
    BY <1>1, <2>1, IterationOverSets
<1>4. \A A \in SUBSET (1 .. N) : A # {} => Max(A) \in 1 .. N /\ A \ {Max(A)} \in SUBSET (1 .. N)
  BY MaxInside
<1>5. AddsUp(h, N, w)
  <2>1. ASSUME NEW A \in SUBSET (1 .. N), A # {} PROVE h[A] = h[A \ {Max(A)}] + w[Max(A)]
    <3>1. h[A] = step[Max(A)][h[A \ {Max(A)}]] /\ h[A \ {Max(A)}] \in Int
      BY <1>3, <1>4, <2>1 DEF TakesGreatest
    <3> QED
      BY <1>2, <1>4, <2>1, <3>1
  <2>2. {} \in SUBSET (1 .. N) => h[{}] = 0
    BY <1>3 DEF TakesGreatest
  <2>3. h \in [SUBSET (1 .. N) -> Int]
    BY <1>3 DEF TakesGreatest
  <2> QED
    BY <2>1, <2>2, <2>3 DEF AddsUp
<1>6. ASSUME NEW iter, AddsUp(iter, N, w) PROVE iter[1 .. N] = g[N]
  <2> DEFINE e == [n \in 0 .. N |-> iter[1 .. n]]
  <2>1. e[0] = 0
    <3>1. 1 .. 0 = {} /\ {} \in SUBSET (1 .. N)
      OBVIOUS
    <3>2. iter[{}] = 0
      BY <1>6, <3>1 DEF AddsUp
    <3> QED
      BY <3>1, <3>2
  <2>2. ASSUME NEW n \in 1 .. N PROVE e[n] = e[n - 1] + w[n]
    <3>1. n \in 0 .. N /\ n - 1 \in 0 .. N
      OBVIOUS
    <3>2. /\ 1 .. n \in SUBSET (1 .. N) /\ 1 .. n # {}
          /\ Max(1 .. n) = n /\ (1 .. n) \ {n} = 1 .. n - 1
      BY <3>1, FirstPlaces
    <3>3. iter[1 .. n] = iter[1 .. n - 1] + w[n]
      BY <1>6, <3>2 DEF AddsUp
    <3> QED
      BY <3>1, <3>3
  <2>3. e[N] = iter[1 .. N]
    OBVIOUS
  <2> HIDE DEF e
  <2>4. Total(e, N, w)
    BY <2>1, <2>2, TotalSteps
  <2>5. e[N] = g[N]
    BY <2>4, TotalsAgree
  <2> QED
    BY <2>3, <2>5
<1> QED
  BY <1>5, <1>6

(* So is what BusRouteLength and ChordLength count from the second stop on. *)
CountsUp(total, n, w) ==
  total = [k \in 0 .. n |-> IF k < 2 THEN 0 ELSE total[k - 1] + w[k]]

Follows(w, u, m) == \A k \in 1 .. m : u[k] = w[k + 1]

LEMMA CountFromSecond ==
  ASSUME NEW m \in Nat, NEW w, NEW u, Follows(w, u, m), NEW g, Total(g, m, u)
  PROVE  /\ \E total : CountsUp(total, m + 1, w)
         /\ \A total : CountsUp(total, m + 1, w) => total[m + 1] = g[m]
<1>0. g[0] = 0 /\ \A k \in 1 .. m : g[k] = g[k - 1] + u[k]
  BY TotalSteps
<1> DEFINE f == [k \in 0 .. m + 1 |-> IF k < 2 THEN 0 ELSE g[k - 1]]
<1>1. ASSUME NEW k \in 0 .. m + 1, ~ (k < 2) PROVE f[k] = f[k - 1] + w[k]
  <2>1. k - 1 \in 0 .. m + 1 /\ k - 1 \in 1 .. m /\ (k - 1) + 1 = k
    BY <1>1
  <2>2. g[k - 1] = g[(k - 1) - 1] + u[k - 1] /\ u[k - 1] = w[k]
    BY <1>0, <2>1 DEF Follows
  <2>3. f[k - 1] = g[(k - 1) - 1]
    <3>1. CASE k - 1 < 2
      <4>1. k - 1 = 1 /\ (k - 1) - 1 = 0
        BY <2>1, <3>1
      <4> QED
        BY <1>0, <2>1, <3>1, <4>1
    <3>2. CASE ~ (k - 1 < 2)
      BY <2>1, <3>2
    <3> QED
      BY <3>1, <3>2
  <2> QED
    BY <1>1, <2>2, <2>3
<1>2. \A k \in 0 .. m + 1 : k < 2 => f[k] = 0
  OBVIOUS
<1>3. f = [k \in 0 .. m + 1 |-> f[k]]
  OBVIOUS
<1> HIDE DEF f
<1>4. CountsUp(f, m + 1, w)
  BY <1>1, <1>2, <1>3 DEF CountsUp
<1>5. ASSUME NEW total, CountsUp(total, m + 1, w) PROVE total[m + 1] = g[m]
  <2> DEFINE e == [k \in 0 .. m |-> total[k + 1]]
  <2>1. \A k \in 0 .. m + 1 : total[k] = IF k < 2 THEN 0 ELSE total[k - 1] + w[k]
    BY <1>5 DEF CountsUp
  <2>2. e[0] = 0
    <3>1. 0 \in 0 .. m /\ 0 + 1 \in 0 .. m + 1 /\ 0 + 1 < 2
      OBVIOUS
    <3> QED
      BY <2>1, <3>1
  <2>3. ASSUME NEW k \in 1 .. m PROVE e[k] = e[k - 1] + u[k]
    <3>1. /\ k \in 0 .. m /\ k - 1 \in 0 .. m /\ k + 1 \in 0 .. m + 1 /\ ~ (k + 1 < 2)
          /\ (k + 1) - 1 = k /\ (k - 1) + 1 = k
      OBVIOUS
    <3>2. total[k + 1] = total[k] + w[k + 1]
      BY <2>1, <3>1
    <3> QED
      BY <3>1, <3>2 DEF Follows
  <2>4. e[m] = total[m + 1]
    OBVIOUS
  <2> HIDE DEF e
  <2>5. Total(e, m, u)
    BY <2>2, <2>3, TotalSteps
  <2>6. e[m] = g[m]
    BY <2>5, TotalsAgree
  <2> QED
    BY <2>4, <2>6
<1> QED
  BY <1>4, <1>5

(* The order in which the hops are counted does not matter.                *)
CountsTo(n, m, w) ==
  /\ \E total : CountsUp(total, m + 1, w)
  /\ \A total : CountsUp(total, m + 1, w) => total[m + 1] = n

Backwards(w, x, m) == \A k \in 1 .. m : w[k + 1] = x[m + 1 - k]

LEMMA CountedBackwards ==
  ASSUME NEW m \in Nat, NEW w, NEW x, Summands(x, m), Backwards(w, x, m),
         NEW g, Total(g, m, x)
  PROVE  CountsTo(g[m], m, w)
<1> DEFINE y == [k \in 1 .. m |-> x[m + 1 - k]]
<1>1. \A k \in 1 .. m : m + 1 - k \in 1 .. m
  OBVIOUS
<1>2. Summands(y, m) /\ BackToFront(y, x, m) /\ Follows(w, y, m)
  BY <1>1 DEF Summands, BackToFront, Follows, Backwards
<1> HIDE DEF y
<1>3. PICK h : Total(h, m, y)
  BY <1>2, TotalExists
<1>4. g[m] = h[m]
  BY <1>2, <1>3, ReversedTotal
<1> QED
  BY <1>2, <1>3, <1>4, CountFromSecond DEF CountsTo

RouteHops(w, cat, name, m) ==
  \A k \in 2 .. m + 1 :
    LET route == cat.buses[name].route
    IN  w[k] = GetDistance(cat, route[k], route[k - 1])
               + IF cat.buses[name].is_chain
                   THEN GetDistance(cat, route[k - 1], route[k]) ELSE 0

LEMMA RouteLengthIsCount ==
  ASSUME NEW cat, NEW name, NEW m \in Nat, Len(cat.buses[name].route) = m + 1,
         NEW w, RouteHops(w, cat, name, m), NEW n, CountsTo(n, m, w)
  PROVE  BusRouteLength(cat, name) = n
<1> DEFINE route == cat.buses[name].route
           hop(i) == GetDistance(cat, route[i], route[i - 1])
                     + IF cat.buses[name].is_chain
                         THEN GetDistance(cat, route[i - 1], route[i]) ELSE 0
           Solves(total) ==
             total = [k \in 0 .. Len(route) |-> IF k < 2 THEN 0 ELSE total[k - 1] + hop(k)]
           one == CHOOSE total : Solves(total)
<1>1. BusRouteLength(cat, name) = one[Len(route)]
  BY DEF BusRouteLength
<1>2. \A k \in 0 .. m + 1 : ~ (k < 2) => w[k] = hop(k)
  BY DEF RouteHops
<1> HIDE DEF hop
<1>3. \A total : Solves(total) <=> CountsUp(total, m + 1, w)
  BY <1>2 DEF CountsUp
<1> HIDE DEF Solves
<1>4. Solves(one)
  BY <1>3 DEF CountsTo
<1> HIDE DEF one
<1> QED
  BY <1>1, <1>3, <1>4 DEF CountsTo

HopLengths(w, base, bus, N) ==
  \A k \in 1 .. N :
    w[k] = RoadLength(base, DocumentHops(bus)[k][1], DocumentHops(bus)[k][2])

LEMMA DocumentLengthIsSum ==
  ASSUME NEW base, NEW bus, NEW N \in Nat, DOMAIN DocumentHops(bus) = 1 .. N,
         NEW w, Summands(w, N), HopLengths(w, base, bus, N),
         NEW g, Total(g, N, w)
  PROVE  DocumentLength(base, bus) = g[N]
<1> DEFINE hops == DocumentHops(bus)
           length(k) == RoadLength(base, hops[k][1], hops[k][2])
           Solves(iter) ==
             iter = [A \in SUBSET DOMAIN hops |->
                      IF A = {} THEN 0 ELSE iter[A \ {Max(A)}] + length(Max(A))]
           one == CHOOSE iter : Solves(iter)
<1>1. DocumentLength(base, bus) = one[DOMAIN hops]
  BY DEF DocumentLength, FoldLeft, MapThenFoldSet
<1>2. \A k \in 1 .. N : w[k] = length(k)
  BY DEF HopLengths
<1> HIDE DEF length
<1>3. \A A \in SUBSET (1 .. N) : A # {} => Max(A) \in 1 .. N
  BY MaxInside
<1>4. \A iter : Solves(iter) <=> AddsUp(iter, N, w)
  BY <1>2, <1>3 DEF AddsUp
<1> HIDE DEF Solves
<1>5. /\ \E iter : AddsUp(iter, N, w)
      /\ \A iter : AddsUp(iter, N, w) => iter[1 .. N] = g[N]
  BY SumFold
<1>6. Solves(one)
  BY <1>4, <1>5
<1> HIDE DEF one
<1> QED
  BY <1>1, <1>4, <1>5, <1>6

LEMMA TwoWays ==
  ASSUME NEW S, NEW a \in Seq(S), NEW b \in Seq(S), NEW m \in Nat, Len(a) = m, Len(b) = m
  PROVE  /\ DOMAIN (a \o b) = 1 .. m + m /\ Len(a \o b) = m + m
         /\ \A k \in 1 .. m : (a \o b)[k] = a[k]
         /\ \A k \in 1 .. m : (a \o b)[m + k] = b[k]
<1>1. DOMAIN (a \o b) = 1 .. m + m /\ Len(a \o b) = m + m
  OBVIOUS
<1>2. ASSUME NEW k \in 1 .. m PROVE (a \o b)[k] = a[k]
  OBVIOUS
<1>3. ASSUME NEW k \in 1 .. m PROVE (a \o b)[m + k] = b[k]
  <2>1. m + k \in 1 .. m + m /\ m + k > m /\ (m + k) - m = k
    OBVIOUS
  <2> QED
    BY <2>1
<1> QED
  BY <1>1, <1>2, <1>3

(* The hops of a bus request.                                              *)
LEMMA HopsFacts ==
  ASSUME NEW r, r.stops \in Seq(Names), r.is_roundtrip \in BOOLEAN,
         NEW m \in Nat, Len(r.stops) = m + 1
  PROVE  /\ DOMAIN DocumentHops(r) = 1 .. IF r.is_roundtrip THEN m ELSE m + m
         /\ Len(DocumentHops(r)) = IF r.is_roundtrip THEN m ELSE m + m
         /\ \A k \in 1 .. m : DocumentHops(r)[k] = <<r.stops[k], r.stops[k + 1]>>
         /\ ~ r.is_roundtrip =>
              \A k \in 1 .. m : DocumentHops(r)[m + k] = <<r.stops[k + 1], r.stops[k]>>
<1> DEFINE s == r.stops
           there == [k \in 1 .. m |-> <<s[k], s[k + 1]>>]
           back == [k \in 1 .. m |-> <<s[k + 1], s[k]>>]
<1>1. DocumentHops(r) = IF r.is_roundtrip THEN there ELSE there \o back
  <2>1. s # <<>> /\ Len(s) - 1 = m
    OBVIOUS
  <2>2. DOMAIN there = 1 .. m
    OBVIOUS
  <2>3. [k \in 1 .. m |-> <<there[k][2], there[k][1]>>] = back
    OBVIOUS
  <2> QED
    BY <2>1, <2>2, <2>3 DEF DocumentHops
<1>2. /\ there \in Seq(Names \X Names) /\ Len(there) = m
      /\ back \in Seq(Names \X Names) /\ Len(back) = m
  <2>1. \A k \in 1 .. m : s[k] \in Names /\ s[k + 1] \in Names
    OBVIOUS
  <2> QED
    BY <2>1
<1>3. \A k \in 1 .. m : there[k] = <<s[k], s[k + 1]>> /\ back[k] = <<s[k + 1], s[k]>>
  OBVIOUS
<1> HIDE DEF there, back
<1>4. CASE r.is_roundtrip
  BY <1>1, <1>2, <1>3, <1>4
<1>5. CASE ~ r.is_roundtrip
  <2>1. /\ DOMAIN (there \o back) = 1 .. m + m /\ Len(there \o back) = m + m
        /\ \A k \in 1 .. m : (there \o back)[k] = there[k]
        /\ \A k \in 1 .. m : (there \o back)[m + k] = back[k]
    <3> DEFINE T == Names \X Names
    <3>1. there \in Seq(T) /\ back \in Seq(T)
      BY <1>2
    <3>2. Len(there) = m /\ Len(back) = m
      BY <1>2
    <3> HIDE DEF T
    <3>3. /\ DOMAIN (there \o back) = 1 .. m + m
          /\ Len(there \o back) = m + m
      BY <3>1, <3>2, TwoWays
    <3>4. \A k \in 1 .. m : (there \o back)[k] = there[k]
      BY <3>1, <3>2, TwoWays
    <3>5. \A k \in 1 .. m : (there \o back)[m + k] = back[k]
      BY <3>1, <3>2, TwoWays
    <3> QED
      BY <3>3, <3>4, <3>5
  <2> QED
    BY <1>1, <1>3, <1>5, <2>1
<1> QED
  BY <1>4, <1>5

LEMMA NoHops ==
  ASSUME NEW r, r.stops = <<>>
  PROVE  DocumentHops(r) = <<>>
<1>1. [k \in 1 .. 0 |-> <<r.stops[k], r.stops[k + 1]>>] = <<>>
  OBVIOUS
<1>2. \A f : f = <<>> => [k \in DOMAIN f |-> <<f[k][2], f[k][1]>>] = <<>>
  OBVIOUS
<1>3. <<>> \o <<>> = <<>>
  OBVIOUS
<1> QED
  BY <1>1, <1>2, <1>3 DEF DocumentHops

(* The length of a route of the catalogue DBBuilder makes is the one of    *)
(* the document, for a bus that is declared once and whose hops all have a *)
(* length: the route is kept from its end to its beginning, and for a      *)
(* chain the length of both ways is counted hop by hop.                    *)
THEOREM DBBuilderKeepsTheLengths ==
  ASSUME NEW base \in Seq(Request), ~ HasNull(base), RoadsAreMaps(base),
         NEW k \in BusPlaces(base), Alone(base, k),
         HasRouteLength(DBBuilder(base), base[k].name)
  PROVE  BusRouteLength(DBBuilder(base), base[k].name) = DocumentLength(base, base[k])
<1> DEFINE cat == DBBuilder(base)
           r == base[k]
           name == r.name
           s == r.stops
           route == Reverse(s)
<1>1. /\ r \in Request /\ r.type = "Bus"
      /\ name \in Names /\ s \in Seq(Names) /\ r.is_roundtrip \in BOOLEAN
  <2>1. r \in Request /\ r.type = "Bus"
    BY DEF BusPlaces
  <2> HIDE DEF r
  <2> QED
    BY <2>1, RequestFields
<1>2. /\ cat.buses[name].is_chain = ~ r.is_roundtrip
      /\ cat.buses[name].route = route
  <2>1. BusesAsDeclared(cat, base)
    BY DBBuilderKeepsTheBuses
  <2> HIDE DEF cat
  <2>2. cat.buses[base[k].name] = BusOf(base[k])
    BY <2>1 DEF BusesAsDeclared
  <2> QED
    BY <2>2 DEF BusOf
<1>3. CatalogueType(cat)
  BY DBBuilderIsConsistent, CataloguesFacts DEF BuiltCatalogue
<1>4. /\ route \in Seq(Names) /\ Len(route) = Len(s)
      /\ \A n \in DOMAIN s : route[n] = s[Len(s) - n + 1]
  BY <1>1, ReverseFacts
<1>5. \A from, to \in Names :
        /\ HasDistance(cat, from, to) <=> HasRoad(base, from, to)
        /\ HasRoad(base, from, to) => GetDistance(cat, from, to) = RoadLength(base, from, to)
  BY DBBuilderKeepsTheRoads
<1>6. HasRouteLength(cat, name)
  OBVIOUS
<1> HIDE DEF cat, r, name, s, route
<1>7. CASE s = <<>>
  <2>1. Len(route) = 0
    BY <1>4, <1>7
  <2>2. BusRouteLength(cat, name) = 0
    <3> DEFINE Solves(total) ==
                 total = [j \in 0 .. 0 |->
                           IF j < 2 THEN 0
                           ELSE total[j - 1] + (GetDistance(cat, route[j], route[j - 1])
                                 + IF cat.buses[name].is_chain
                                     THEN GetDistance(cat, route[j - 1], route[j]) ELSE 0)]
               zero == [j \in 0 .. 0 |-> 0]
               one == CHOOSE total : Solves(total)
    <3>1. BusRouteLength(cat, name) = one[0]
      BY <1>2, <2>1 DEF BusRouteLength
    <3>2. Solves(zero)
      OBVIOUS
    <3>3. \A total : Solves(total) => total[0] = 0
      OBVIOUS
    <3> HIDE DEF Solves
    <3> QED
      BY <3>1, <3>2, <3>3
  <2>3. DOMAIN DocumentHops(r) = 1 .. 0
    BY <1>7, NoHops DEF s
  <2> DEFINE none == [j \in 1 .. 0 |-> 0]
             sum == [j \in 0 .. 0 |-> 0]
  <2>4. Summands(none, 0) /\ HopLengths(none, base, r, 0) /\ Total(sum, 0, none) /\ sum[0] = 0
    BY TotalSteps DEF Summands, HopLengths
  <2> HIDE DEF none, sum
  <2>5. DocumentLength(base, r) = sum[0]
    BY <2>3, <2>4, DocumentLengthIsSum
  <2> QED
    BY <2>2, <2>4, <2>5 DEF cat, name, r
<1>8. CASE s # <<>>
  <2> DEFINE m == Len(s) - 1
             N == IF r.is_roundtrip THEN m ELSE m + m
             u == [j \in 1 .. m |-> RoadLength(base, s[j], s[j + 1])]
             v == [j \in 1 .. m |-> RoadLength(base, s[j + 1], s[j])]
             x == [j \in 1 .. m |-> u[j] + IF r.is_roundtrip THEN 0 ELSE v[j]]
             w == [j \in 1 .. m + 1 |-> GetDistance(cat, route[j], route[j - 1])
                     + IF cat.buses[name].is_chain
                         THEN GetDistance(cat, route[j - 1], route[j]) ELSE 0]
             way == [j \in 1 .. N |->
                      RoadLength(base, DocumentHops(r)[j][1], DocumentHops(r)[j][2])]
  <2>1. m \in Nat /\ N \in Nat /\ Len(s) = m + 1 /\ DOMAIN s = 1 .. m + 1
    BY <1>1, <1>8
  <2>2. /\ \A j \in 1 .. m : u[j] = RoadLength(base, s[j], s[j + 1])
        /\ \A j \in 1 .. m : v[j] = RoadLength(base, s[j + 1], s[j])
        /\ \A j \in 1 .. m : x[j] = u[j] + IF r.is_roundtrip THEN 0 ELSE v[j]
        /\ \A j \in 1 .. m + 1 :
             w[j] = GetDistance(cat, route[j], route[j - 1])
                    + IF cat.buses[name].is_chain
                        THEN GetDistance(cat, route[j - 1], route[j]) ELSE 0
        /\ \A j \in 1 .. N :
             way[j] = RoadLength(base, DocumentHops(r)[j][1], DocumentHops(r)[j][2])
    OBVIOUS
  <2>3. N = IF r.is_roundtrip THEN m ELSE m + m
    OBVIOUS
  <2> HIDE DEF m, N, u, v, x, w, way
  <2>4. ASSUME NEW j \in 1 .. m
        PROVE  /\ route[m + 1 - j + 1] = s[j] /\ route[m + 1 - j] = s[j + 1]
               /\ GetDistance(cat, s[j], s[j + 1]) = u[j] /\ u[j] \in Int
               /\ GetDistance(cat, s[j + 1], s[j]) = v[j] /\ v[j] \in Int
    <3>1. /\ j \in 1 .. m + 1 /\ j + 1 \in 1 .. m + 1
          /\ m + 1 - j \in 1 .. m + 1 /\ m + 1 - j + 1 \in 2 .. m + 1
          /\ m + 1 - j + 1 \in 1 .. m + 1
          /\ (m + 1 - j + 1) - 1 = m + 1 - j
          /\ m + 1 - (m + 1 - j + 1) + 1 = j /\ m + 1 - (m + 1 - j) + 1 = j + 1
      BY <2>1
    <3>2. s[j] \in Names /\ s[j + 1] \in Names
      BY <1>1, <2>1, <3>1
    <3>3. route[m + 1 - j + 1] = s[j] /\ route[m + 1 - j] = s[j + 1]
      <4>1. ASSUME NEW n \in 1 .. m + 1 PROVE route[n] = s[m + 1 - n + 1]
        <5>1. n \in DOMAIN s /\ Len(s) - n + 1 = m + 1 - n + 1
          BY <2>1
        <5>2. route[n] = s[Len(s) - n + 1]
          BY <1>4, <5>1
        <5> QED
          BY <5>1, <5>2
      <4> QED
        BY <3>1, <4>1
    <3>4. HasDistance(cat, s[j], s[j + 1])
      BY <1>2, <1>4, <1>6, <2>1, <3>1, <3>3 DEF HasRouteLength
    <3>5. HasDistance(cat, s[j + 1], s[j])
      BY <3>4 DEF HasDistance
    <3>6. \A from, to : HasDistance(cat, from, to) => GetDistance(cat, from, to) \in Int
      BY <1>3 DEF HasDistance, GetDistance, CatalogueType, IsPartialFunction
    <3> QED
      BY <1>5, <2>2, <3>2, <3>3, <3>4, <3>5, <3>6
  <2>5. Summands(u, m) /\ Summands(v, m) /\ Summands(x, m)
    <3>1. \A j \in 1 .. m : x[j] \in Int
      BY <2>2, <2>4
    <3> QED
      BY <2>4, <3>1 DEF Summands
  <2>6. Backwards(w, x, m)
    <3> SUFFICES ASSUME NEW j \in 1 .. m PROVE w[j + 1] = x[m + 1 - j]
      BY DEF Backwards
    <3>1. /\ m + 1 - j \in 1 .. m /\ m + 1 - (m + 1 - j) = j
          /\ j + 1 \in 1 .. m + 1 /\ (j + 1) - 1 = j
      BY <2>1
    <3>2. route[j + 1] = s[m + 1 - j] /\ route[j] = s[m + 1 - j + 1]
      BY <2>4, <3>1
    <3>3. w[j + 1] = GetDistance(cat, route[j + 1], route[j])
                     + IF cat.buses[name].is_chain
                         THEN GetDistance(cat, route[j], route[j + 1]) ELSE 0
      BY <2>2, <3>1
    <3>4. /\ GetDistance(cat, route[j + 1], route[j]) = u[m + 1 - j]
          /\ GetDistance(cat, route[j], route[j + 1]) = v[m + 1 - j]
      BY <2>4, <3>1, <3>2
    <3>5. x[m + 1 - j] = u[m + 1 - j] + IF r.is_roundtrip THEN 0 ELSE v[m + 1 - j]
      BY <2>2, <3>1
    <3> QED
      BY <1>1, <1>2, <3>3, <3>4, <3>5
  <2>7. /\ DOMAIN DocumentHops(r) = 1 .. N
        /\ \A j \in 1 .. m : DocumentHops(r)[j] = <<s[j], s[j + 1]>>
        /\ ~ r.is_roundtrip =>
             \A j \in 1 .. m : DocumentHops(r)[m + j] = <<s[j + 1], s[j]>>
    BY <1>1, <2>1, <2>3, HopsFacts DEF s
  <2>8. /\ \A j \in 1 .. m : way[j] = u[j]
        /\ ~ r.is_roundtrip => \A j \in 1 .. m : way[m + j] = v[j]
    <3>1. ASSUME NEW j \in 1 .. m PROVE way[j] = u[j]
      <4>1. j \in 1 .. N
        BY <1>1, <2>1, <2>3
      <4> QED
        BY <2>2, <2>7, <4>1
    <3>2. ASSUME ~ r.is_roundtrip, NEW j \in 1 .. m PROVE way[m + j] = v[j]
      <4>1. m + j \in 1 .. N
        BY <2>1, <2>3, <3>2
      <4> QED
        BY <2>2, <2>7, <3>2, <4>1
    <3> QED
      BY <3>1, <3>2
  <2>9. Summands(way, N)
    <3> SUFFICES ASSUME NEW j \in 1 .. N PROVE way[j] \in Int
      BY DEF Summands
    <3>1. CASE j \in 1 .. m
      BY <2>4, <2>8, <3>1
    <3>2. CASE j \notin 1 .. m
      <4>1. ~ r.is_roundtrip /\ j - m \in 1 .. m /\ m + (j - m) = j
        BY <1>1, <2>1, <2>3, <3>2
      <4> QED
        BY <2>4, <2>8, <4>1
    <3> QED
      BY <3>1, <3>2
  <2>10. PICK h : Total(h, m, x)
    BY <2>1, <2>5, TotalExists
  <2>11. PICK t : Total(t, N, way)
    BY <2>1, <2>9, TotalExists
  <2>12. t[N] = h[m]
    <3>1. PICK f : Total(f, m, u)
      BY <2>1, <2>5, TotalExists
    <3>2. PICK g : Total(g, m, v)
      BY <2>1, <2>5, TotalExists
    <3>3. CASE r.is_roundtrip
      <4>1. N = m /\ \A j \in 1 .. m : x[j] = way[j]
        BY <2>2, <2>3, <2>4, <2>8, <3>3
      <4>2. \A j \in 0 .. m : t[j] = h[j]
        BY <2>1, <2>10, <2>11, <4>1, TotalsAgree
      <4> QED
        BY <2>1, <4>1, <4>2
    <3>4. CASE ~ r.is_roundtrip
      <4>1. N = m + m /\ Adds(x, u, v, m) /\ Joins(way, u, m, v, m)
        BY <2>2, <2>3, <2>8, <3>4 DEF Adds, Joins
      <4>2. h[m] = f[m] + g[m]
        BY <2>1, <2>5, <2>10, <3>1, <3>2, <4>1, AddedTotals
      <4>3. t[m + m] = f[m] + g[m]
        BY <2>1, <2>9, <2>11, <3>1, <3>2, <4>1, JoinedTotals
      <4> QED
        BY <4>1, <4>2, <4>3
    <3> QED
      BY <3>3, <3>4
  <2>13. BusRouteLength(cat, name) = h[m]
    <3>1. CountsTo(h[m], m, w)
      BY <2>1, <2>5, <2>6, <2>10, CountedBackwards
    <3>2. \A j \in 2 .. m + 1 : j \in 1 .. m + 1
      OBVIOUS
    <3>3. Len(cat.buses[name].route) = m + 1
      BY <1>2, <1>4, <2>1
    <3>4. RouteHops(w, cat, name, m)
      BY <1>2, <2>2, <3>2 DEF RouteHops
    <3> QED
      BY <2>1, <3>1, <3>3, <3>4, RouteLengthIsCount
  <2>14. DocumentLength(base, r) = t[N]
    <3>1. HopLengths(way, base, r, N)
      BY <2>2 DEF HopLengths
    <3>2. N \in Nat /\ DOMAIN DocumentHops(r) = 1 .. N
      BY <2>1, <2>7
    <3>3. Summands(way, N) /\ Total(t, N, way)
      BY <2>9, <2>11
    <3> QED
      BY <3>1, <3>2, <3>3, DocumentLengthIsSum
  <2> QED
    BY <2>12, <2>13, <2>14 DEF cat, name, r
<1> QED
  BY <1>7, <1>8

-----------------------------------------------------------------------------
(* The names of the catalogue DBBuilder makes of a document whose stops    *)
(* are all declared: they are finitely many.                               *)
LEMMA DBBuilderNames ==
  ASSUME NEW base \in Seq(Request), AllDeclared(base)
  PROVE  LET cat == DBBuilder(base)
         IN  /\ CatalogueType(cat) /\ IndexConsistent(cat)
             /\ StopNames(cat) \subseteq Names /\ IsFiniteSet(StopNames(cat))
             /\ BusNames(cat) \subseteq Names /\ IsFiniteSet(BusNames(cat))
<1> DEFINE cat == DBBuilder(base)
<1>2. CASE HasNull(base)
  <2>1. cat = EmptyCatalogue
    BY <1>2 DEF DBBuilder
  <2>2. CatalogueType(cat) /\ IndexConsistent(cat)
    BY <2>1, EmptyCatalogueFacts, CataloguesFacts
  <2>3. StopNames(cat) = {} /\ BusNames(cat) = {}
    BY <2>1, EmptyCatalogueFacts
  <2> QED
    BY <2>2, <2>3, FS_EmptySet
<1>3. CASE ~ HasNull(base)
  <2>1. BuiltCatalogue(cat, base)
    BY <1>3, DBBuilderIsConsistent
  <2>2. CatalogueType(cat) /\ IndexConsistent(cat)
    BY <2>1, CataloguesFacts DEF BuiltCatalogue
  <2>3. StopNames(cat) = DeclaredStops(base)
    BY <1>3, <2>1 DEF BuiltCatalogue, AllDeclared
  <2>4. IsFiniteSet(DeclaredStops(base))
    <3> DEFINE S == {k \in DOMAIN base : base[k].type = "Stop"}
               f == [k \in S |-> base[k].name]
    <3>1. IsFiniteSet(DOMAIN base)
      <4>1. DOMAIN base = 1 .. Len(base) /\ Len(base) \in Int
        OBVIOUS
      <4> QED
        BY <4>1, FS_Interval
    <3>2. IsFiniteSet(S)
      BY <3>1, FS_Subset
    <3>3. f \in Surjection(S, DeclaredStops(base))
      BY DEF Surjection, DeclaredStops
    <3> QED
      BY <3>2, <3>3, FS_Surjection
  <2>5. StopNames(cat) \subseteq Names /\ BusNames(cat) \subseteq Names
    BY <2>2 DEF CatalogueType, IsPartialFunction, StopNames, BusNames
  <2>6. BusNames(cat) = {base[k].name : k \in BusPlaces(base)}
    BY <1>3, DBBuilderKeepsTheBuses DEF BusesAsDeclared
  <2>7. IsFiniteSet(BusNames(cat))
    <3> DEFINE f == [k \in BusPlaces(base) |-> base[k].name]
    <3>1. DOMAIN base = 1 .. Len(base) /\ Len(base) \in Int
      OBVIOUS
    <3>2. IsFiniteSet(DOMAIN base)
      BY <3>1, FS_Interval
    <3>3. IsFiniteSet(BusPlaces(base))
      BY <3>2, FS_Subset DEF BusPlaces
    <3>4. f \in Surjection(BusPlaces(base), BusNames(cat))
      BY <2>6 DEF Surjection
    <3> HIDE DEF f, cat
    <3> QED
      BY <3>3, <3>4, FS_Surjection
  <2>8. IsFiniteSet(StopNames(cat))
    BY <2>3, <2>4
  <2> QED
    BY <2>2, <2>5, <2>7, <2>8
<1> QED
  BY <1>2, <1>3

(* A bus of a catalogue travels between stops of the catalogue.            *)
LEMMA BusFacts ==
  ASSUME NEW cat, CatalogueType(cat), IndexConsistent(cat), NEW b \in BusNames(cat)
  PROVE  /\ cat.buses[b].route \in Seq(StopNames(cat))
         /\ Reverse(cat.buses[b].route) \in Seq(StopNames(cat))
         /\ cat.buses[b].is_chain \in BOOLEAN
<1> DEFINE stored == cat.buses[b].route
<1>1. stored \in Seq(Names) /\ cat.buses[b].is_chain \in BOOLEAN
  <2> DEFINE B == [is_chain : BOOLEAN, route : Seq(Names)]
  <2>1. IsPartialFunction(cat.buses, Names, B)
    BY DEF CatalogueType
  <2> HIDE DEF B
  <2>2. cat.buses[b] \in B
    BY <2>1 DEF IsPartialFunction, BusNames
  <2> QED
    BY <2>2 DEF B
<1>2. \A k \in DOMAIN stored : stored[k] \in StopNames(cat)
  BY DEF IndexConsistent
<1>3. stored \in Seq(StopNames(cat))
  <2> HIDE DEF stored
  <2>1. stored \in [1 .. Len(stored) -> StopNames(cat)] /\ Len(stored) \in Nat
    BY <1>1, <1>2
  <2> QED
    BY <2>1
<1> QED
  BY <1>1, <1>3, ReverseFacts

-----------------------------------------------------------------------------
(* Rows: sequences of whatever they consist of.                            *)

IsRow(s) == s \in Seq(ToSet(s))

LEMMA Rows ==
  ASSUME NEW E, NEW s \in Seq(E)
  PROVE  IsRow(s)
BY DEF IsRow, ToSet

LEMMA RowFacts ==
  ASSUME NEW s, IsRow(s)
  PROVE  /\ Len(s) \in Nat /\ DOMAIN s = 1 .. Len(s)
         /\ s = <<>> <=> Len(s) = 0
         /\ \A k \in 1 .. Len(s) : s[k] \in ToSet(s)
BY DEF IsRow

LEMMA RowsJoined ==
  ASSUME NEW s, NEW t, IsRow(s), IsRow(t)
  PROVE  /\ IsRow(s \o t) /\ Len(s \o t) = Len(s) + Len(t)
         /\ \A k \in 1 .. Len(s) : (s \o t)[k] = s[k]
         /\ \A k \in 1 .. Len(t) : (s \o t)[Len(s) + k] = t[k]
<1> DEFINE E == ToSet(s) \cup ToSet(t)
<1>1. s \in Seq(E) /\ t \in Seq(E)
  BY DEF IsRow
<1> HIDE DEF E
<1>2. s \o t \in Seq(E) /\ Len(s \o t) = Len(s) + Len(t)
  BY <1>1
<1>3. \A k \in 1 .. Len(s) : (s \o t)[k] = s[k]
  BY <1>1
<1>4. \A k \in 1 .. Len(t) : (s \o t)[Len(s) + k] = t[k]
  BY <1>1
<1> QED
  BY <1>2, <1>3, <1>4, Rows

LEMMA RowsAssociate ==
  ASSUME NEW s, NEW t, NEW u, IsRow(s), IsRow(t), IsRow(u)
  PROVE  (s \o t) \o u = s \o (t \o u)
<1> DEFINE E == ToSet(s) \cup ToSet(t) \cup ToSet(u)
<1>1. s \in Seq(E) /\ t \in Seq(E) /\ u \in Seq(E)
  BY DEF IsRow
<1> HIDE DEF E
<1> QED
  BY <1>1

LEMMA RowOfOne ==
  ASSUME NEW c
  PROVE  IsRow(<<c>>) /\ Len(<<c>>) = 1 /\ <<c>>[1] = c
<1>1. <<c>> \in Seq({c})
  OBVIOUS
<1> QED
  BY <1>1, Rows

LEMMA RowOfTwo ==
  ASSUME NEW c, NEW d
  PROVE  <<c>> \o <<d>> = <<c, d>>
<1>1. PICK u, v : /\ u = <<c>> /\ IsRow(u) /\ Len(u) = 1 /\ u[1] = c
                  /\ v = <<d>> /\ IsRow(v) /\ Len(v) = 1 /\ v[1] = d
  BY RowOfOne
<1>2. PICK s : s = u \o v
  OBVIOUS
<1>3. IsRow(s) /\ Len(s) = 2 /\ s[1] = c /\ s[2] = d
  <2>1. 1 \in 1 .. 1 /\ 1 + 1 = 2
    OBVIOUS
  <2> QED
    BY <1>1, <1>2, <2>1, RowsJoined
<1>4. s = <<c, d>>
  BY <1>3 DEF IsRow
<1> QED
  BY <1>1, <1>2, <1>4

LEMMA RowOfNone == IsRow(<<>>) /\ Len(<<>>) = 0
<1>1. <<>> \in Seq({})
  OBVIOUS
<1> QED
  BY <1>1, Rows

LEMMA RowAppended ==
  ASSUME NEW s, IsRow(s), NEW x
  PROVE  /\ IsRow(Append(s, x)) /\ Len(Append(s, x)) = Len(s) + 1
         /\ Append(s, x) # <<>> /\ Append(s, x)[Len(s) + 1] = x
         /\ \A k \in 1 .. Len(s) : Append(s, x)[k] = s[k]
         /\ SubSeq(Append(s, x), 1, Len(s)) = s
<1> DEFINE E == ToSet(s) \cup {x}
<1>1. s \in Seq(E) /\ x \in E
  BY DEF IsRow
<1> HIDE DEF E
<1>2. Append(s, x) \in Seq(E) /\ Len(Append(s, x)) = Len(s) + 1
  BY <1>1
<1>3. Append(s, x) # <<>> /\ Append(s, x)[Len(s) + 1] = x
  BY <1>1
<1>4. \A k \in 1 .. Len(s) : Append(s, x)[k] = s[k]
  BY <1>1
<1>5. SubSeq(Append(s, x), 1, Len(s)) = s
  BY <1>1
<1> QED
  BY <1>2, <1>3, <1>4, <1>5, Rows

LEMMA RowShortened ==
  ASSUME NEW s, IsRow(s), s # <<>>
  PROVE  /\ IsRow(Tail(s)) /\ Len(Tail(s)) = Len(s) - 1 /\ Head(s) = s[1]
         /\ \A k \in 1 .. Len(s) - 1 : Tail(s)[k] = s[k + 1]
<1> DEFINE E == ToSet(s)
<1>1. s \in Seq(E)
  BY DEF IsRow
<1> HIDE DEF E
<1>2. Tail(s) \in Seq(E) /\ Len(Tail(s)) = Len(s) - 1 /\ Head(s) = s[1]
  BY <1>1
<1>3. \A k \in 1 .. Len(s) - 1 : Tail(s)[k] = s[k + 1]
  BY <1>1
<1> QED
  BY <1>2, <1>3, Rows

(* FlattenSeq, one element at a time.                                      *)
LEMMA Flattened ==
  ASSUME NEW E, NEW ss \in Seq(Seq(E))
  PROVE  \E f \in [0 .. Len(ss) -> Seq(E)] :
           /\ f[0] = <<>> /\ f[Len(ss)] = FlattenSeq(ss)
           /\ \A n \in 1 .. Len(ss) : f[n] = f[n - 1] \o ss[n]
<1> DEFINE N == Len(ss)
           T == Seq(E)
           step == [n \in 1 .. N |-> [c \in T |-> c \o ss[n]]]
<1>1. N \in Nat /\ <<>> \in T /\ \A n \in 1 .. N : ss[n] \in T
  OBVIOUS
<1>2. \A n \in 1 .. N, c \in T : c \o ss[n] \in T
  BY <1>1
<1>3. step \in StepsTo(N, T)
  <2> HIDE DEF T
  <2> QED
    BY <1>2 DEF StepsTo
<1>4. \A n \in 1 .. N, c \in T : step[n][c] = c \o ss[n]
  OBVIOUS
<1> HIDE DEF step
<1>5. PICK f \in [0 .. N -> T] : IteratesTo(N, f, <<>>, step)
  <2> HIDE DEF N, T
  <2> QED
    BY <1>1, <1>3, IntervalRecursion
<1>6. f[0] = <<>> /\ \A n \in 1 .. N : f[n] = f[n - 1] \o ss[n]
  <2>1. f[0] = <<>> /\ \A n \in 1 .. N : f[n] = step[n][f[n - 1]]
    BY <1>5 DEF IteratesTo
  <2>2. \A n \in 1 .. N : f[n - 1] \in T
    <3>1. \A n \in 1 .. N : n - 1 \in 0 .. N
      BY <1>1
    <3> HIDE DEF T
    <3> QED
      BY <1>5, <3>1
  <2> HIDE DEF T
  <2> QED
    BY <1>4, <2>1, <2>2
<1>7. ASSUME 1 \in 1 .. N PROVE f[1] = ss[1]
  <2>1. PICK m, n : m = 0 /\ n = 1 /\ m = n - 1
    OBVIOUS
  <2>2. f[n] = f[m] \o ss[n]
    BY <1>6, <1>7, <2>1
  <2>3. f[n] = <<>> \o ss[n] /\ ss[n] \in Seq(E)
    BY <1>1, <1>6, <1>7, <2>1, <2>2
  <2> QED
    BY <2>1, <2>3
<1>8. f[N] = FlattenSeq(ss)
  <2>1. CASE N = 0
    <3>1. FlattenSeq(ss) = ss /\ ss = <<>>
      BY <2>1 DEF FlattenSeq
    <3> QED
      BY <1>6, <2>1, <3>1
  <2>2. CASE N # 0
    <3> DEFINE Unfolds(flatten) ==
                 flatten = [n \in 1 .. Len(ss) |-> IF n = 1 THEN ss[n] ELSE flatten[n - 1] \o ss[n]]
               h == [n \in 1 .. N |-> f[n]]
               flat == CHOOSE flatten : Unfolds(flatten)
    <3>1. Unfolds(h)
      <4>1. ASSUME NEW n \in 1 .. N
            PROVE  f[n] = IF n = 1 THEN ss[n] ELSE h[n - 1] \o ss[n]
        <5>1. CASE n = 1
          BY <1>7, <5>1
        <5>2. CASE n # 1
          <6>1. n - 1 \in 1 .. N
            BY <1>1, <5>2
          <6> QED
            BY <1>6, <5>2, <6>1
        <5> QED
          BY <5>1, <5>2
      <4> QED
        BY <4>1
    <3>2. Unfolds(flat)
      <4> HIDE DEF h, Unfolds
      <4> QED
        BY <3>1
    <3>3. FlattenSeq(ss) = flat[N]
      BY <2>2 DEF FlattenSeq
    <3> DEFINE S == {n \in Nat : n \in 1 .. N => flat[n] = f[n]}
    <3> HIDE DEF flat
    <3>4. 0 \in S
      OBVIOUS
    <3>5. ASSUME NEW n \in S PROVE n + 1 \in S
      <4> SUFFICES ASSUME n + 1 \in 1 .. N PROVE flat[n + 1] = f[n + 1]
        OBVIOUS
      <4>1. flat[n + 1] = IF n + 1 = 1 THEN ss[n + 1] ELSE flat[(n + 1) - 1] \o ss[n + 1]
        BY <3>2
      <4>2. CASE n = 0
        <5>1. flat[1] = ss[1] /\ 1 \in 1 .. N
          BY <4>1, <4>2
        <5> QED
          BY <1>7, <4>2, <5>1
      <4>3. CASE n # 0
        <5>1. n \in 1 .. N /\ (n + 1) - 1 = n /\ n + 1 # 1
          BY <1>1, <4>3
        <5>2. flat[n] = f[n]
          BY <3>5, <5>1
        <5>3. flat[n + 1] = flat[n] \o ss[n + 1] /\ f[n + 1] = f[n] \o ss[n + 1]
          BY <1>6, <4>1, <5>1
        <5> QED
          BY <5>2, <5>3
      <4> QED
        BY <4>2, <4>3
    <3>6. S = Nat
      <4>1. S \in SUBSET Nat
        OBVIOUS
      <4> HIDE DEF S
      <4> QED
        BY <3>4, <3>5, <4>1, SetInduction
    <3>7. N \in S /\ N \in 1 .. N
      BY <1>1, <2>2, <3>6
    <3> QED
      BY <3>3, <3>7
  <2> QED
    BY <2>1, <2>2
<1> QED
  BY <1>5, <1>6, <1>8

-----------------------------------------------------------------------------
(* Names in their order: each of them has a place, that of the number of   *)
(* the names before it, and one that is before another is at a place       *)
(* before the other.                                                       *)
ByRank(rank, names) ==
  [k \in 1 .. Cardinality(names) |->
     CHOOSE n \in names : Cardinality({m \in names : rank[m] < rank[n]}) = k - 1]

RanksApart(rank, names) ==
  /\ \A n \in names : rank[n] \in Nat
  /\ \A m, n \in names : rank[m] = rank[n] => m = n

LEMMA ByRankFacts ==
  ASSUME NEW rank, NEW names, IsFiniteSet(names), RanksApart(rank, names)
  PROVE  LET list == ByRank(rank, names)
             size == Cardinality(names)
         IN  /\ size \in Nat
             /\ {list[k] : k \in 1 .. size} = names
             /\ \A m, n \in 1 .. size : m < n => rank[list[m]] < rank[list[n]]
             /\ \A n \in names : LET k == Cardinality({m \in names : rank[m] < rank[n]}) + 1
                                 IN  k \in 1 .. size /\ list[k] = n
<1> DEFINE size == Cardinality(names)
           list == ByRank(rank, names)
           Below(n) == {m \in names : rank[m] < rank[n]}
           count == [n \in names |-> Cardinality(Below(n))]
<1>1. size \in Nat
  BY FS_CardinalityType
<1>2. \A n \in names : rank[n] \in Nat
  BY DEF RanksApart
<1>3. ASSUME NEW n \in names PROVE count[n] \in 0 .. size - 1
  <2>1. n \notin Below(n) /\ Below(n) \in SUBSET names
    BY <1>2
  <2> HIDE DEF Below
  <2>2. /\ IsFiniteSet(Below(n)) /\ Cardinality(Below(n)) <= size
        /\ Cardinality(Below(n)) # size
    BY <2>1, FS_Subset
  <2>3. Cardinality(Below(n)) \in Nat
    BY <2>2, FS_CardinalityType
  <2> QED
    BY <1>1, <2>2, <2>3
<1>4. ASSUME NEW m \in names, NEW n \in names, rank[m] < rank[n]
      PROVE  count[m] < count[n]
  <2>1. rank[m] \in Nat /\ rank[n] \in Nat /\ \A q \in names : rank[q] \in Nat
    BY <1>2
  <2>2. Below(m) \in SUBSET Below(n) /\ m \in Below(n) /\ m \notin Below(m)
    BY <1>4, <2>1
  <2>3. Below(n) \in SUBSET names
    OBVIOUS
  <2> HIDE DEF Below
  <2>4. IsFiniteSet(Below(n))
    BY <2>3, FS_Subset
  <2>5. /\ Cardinality(Below(m)) <= Cardinality(Below(n))
        /\ Cardinality(Below(m)) # Cardinality(Below(n))
    BY <2>2, <2>4, FS_Subset
  <2>6. count[m] \in Int /\ count[n] \in Int
    BY <1>3
  <2> QED
    BY <2>5, <2>6
<1> HIDE DEF count, size
<1>5. ASSUME NEW m \in names, NEW n \in names, ~ (rank[m] < rank[n]), m # n
      PROVE  count[n] < count[m]
  <2>1. rank[n] < rank[m]
    BY <1>2, <1>5 DEF RanksApart
  <2> QED
    BY <1>4, <2>1
<1>6. ASSUME NEW m \in names, NEW n \in names, count[m] = count[n] PROVE m = n
  BY <1>3, <1>4, <1>5, <1>6
<1>7. ASSUME NEW k \in 0 .. size - 1 PROVE \E n \in names : count[n] = k
  <2> DEFINE T == 0 .. size - 1
  <2>1. IsFiniteSet(T) /\ Cardinality(T) = size
    BY <1>1, FS_Interval
  <2>2. count \in [names -> T]
    BY <1>3 DEF count
  <2>3. count \in Injection(names, T)
    BY <1>6, <2>2 DEF Injection, IsInjective
  <2> HIDE DEF T
  <2>4. count \in Surjection(names, T)
    BY <2>1, <2>3, FS_Injection DEF size
  <2> QED
    BY <2>4 DEF Surjection, T
<1>8. ASSUME NEW k \in 1 .. size PROVE list[k] \in names /\ count[list[k]] = k - 1
  <2>1. list[k] = CHOOSE n \in names : Cardinality(Below(n)) = k - 1
    BY DEF ByRank, size
  <2>2. \A n \in names : count[n] = Cardinality(Below(n))
    BY DEF count
  <2>3. k - 1 \in 0 .. size - 1
    BY <1>1
  <2>4. \E n \in names : count[n] = k - 1
    BY <1>7, <2>3
  <2> HIDE DEF Below, list
  <2> QED
    BY <2>1, <2>2, <2>4
<1> HIDE DEF list
<1>9. {list[k] : k \in 1 .. size} = names
  <2>1. ASSUME NEW n \in names PROVE \E k \in 1 .. size : list[k] = n
    <3>1. count[n] + 1 \in 1 .. size /\ (count[n] + 1) - 1 = count[n]
      BY <1>1, <1>3
    <3> QED
      BY <1>6, <1>8, <3>1
  <2> QED
    BY <1>8, <2>1
<1>10. ASSUME NEW m \in 1 .. size, NEW n \in 1 .. size, m < n
       PROVE  rank[list[m]] < rank[list[n]]
  <2>1. count[list[m]] = m - 1 /\ count[list[n]] = n - 1 /\ ~ (n - 1 < m - 1) /\ m - 1 # n - 1
    BY <1>1, <1>8, <1>10
  <2> QED
    BY <1>5, <1>8, <2>1
<1>11. ASSUME NEW n \in names PROVE count[n] + 1 \in 1 .. size /\ list[count[n] + 1] = n
  <2>1. count[n] + 1 \in 1 .. size /\ (count[n] + 1) - 1 = count[n]
    BY <1>1, <1>3
  <2> QED
    BY <1>6, <1>8, <2>1
<1>12. \A n \in names : count[n] = Cardinality({m \in names : rank[m] < rank[n]})
  BY DEF count
<1> QED
  BY <1>1, <1>9, <1>10, <1>11, <1>12 DEF list, size
=============================================================================
