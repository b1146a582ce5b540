----------------------------- MODULE DataLemmas -----------------------------
(* Induction and recursion over the data of the models, as facts about sets   *)
(* and functions: the library's induction theorems take a predicate as a      *)
(* parameter, these a set of numbers or a function, which the provers can     *)
(* instantiate.  And the elements of lists.                                   *)
EXTENDS Integers, Sequences, SequencesExt, ListOps, SequenceTheorems, WellFoundedInduction, TLAPS

\* A set of naturals that is not empty has a least member.
LEMMA Least == ASSUME NEW T, T \subseteq Nat, T # {}
               PROVE  \E n \in T : \A m \in T : n <= m
<1>1. PICK n \in T : \A m \in T : <<m, n>> \notin OpToRel(<, Nat)
  BY NatLessThanWellFounded, WFMin
<1>2. ASSUME NEW m \in T PROVE n <= m
  <2>1. <<m, n>> \notin {ss \in Nat \X Nat : ss[1] < ss[2]}
    BY <1>1 DEF OpToRel
  <2>2. m \in Nat /\ n \in Nat /\ ~(m < n)
    BY <2>1
  <2> QED
    BY <2>2
<1> QED
  BY <1>2

\* What holds of 0, and of k when it holds of k - 1, holds up to L.
LEMMA InductionTo ==
  ASSUME NEW L \in Nat, NEW S, 0 \in S, \A k \in 1..L : k - 1 \in S => k \in S
  PROVE  \A k \in 0..L : k \in S
<1> DEFINE T == {k \in 0..L : k \notin S}
<1> SUFFICES ASSUME T # {} PROVE FALSE
  OBVIOUS
<1>1. \E n \in T : \A m \in T : n <= m
  <2>1. T \subseteq Nat /\ T # {}
    OBVIOUS
  <2> HIDE DEF T
  <2> QED
    BY <2>1, Least
<1> PICK n \in T : \A m \in T : n <= m
  BY <1>1
<1>2. n \in 1..L
  OBVIOUS
<1>3. n - 1 \in 0..L /\ n - 1 \notin T
  BY <1>2
<1> QED
  BY <1>2, <1>3

\* f starts at b and goes from each value to the next by G.
IsStepFor(G, X, L) == G \in [1..L -> [X -> X]]
Iterates(f, b, G, X, L) ==
  f \in [0..L -> X] /\ f[0] = b /\ \A k \in 1..L : f[k] = G[k][f[k - 1]]

\* A function on 0..L may be defined from its value at 0 and, at k, from its
\* value at k - 1.
LEMMA RecursionTo ==
  ASSUME NEW X, NEW L \in Nat, NEW b \in X, NEW G, IsStepFor(G, X, L)
  PROVE  \E f : Iterates(f, b, G, X, L)
<1>0. G \in [1..L -> [X -> X]]
  BY DEF IsStepFor
<1> DEFINE Approximates(f, n) ==
             /\ f \in [0..n -> X]
             /\ f[0] = b
             /\ \A k \in 1..n : f[k] = G[k][f[k - 1]]
           S == {n \in 0..L : \E f : Approximates(f, n)}
<1>1. \E f : Approximates(f, 0)
  <2>1. Approximates([k \in 0..0 |-> b], 0)
    OBVIOUS
  <2> HIDE DEF Approximates
  <2> QED
    BY <2>1
<1>2. ASSUME NEW n \in 1..L, NEW f, Approximates(f, n - 1)
      PROVE  \E g : Approximates(g, n)
  <2> DEFINE g == [k \in 0..n |-> IF k = n THEN G[n][f[n - 1]] ELSE f[k]]
  <2>1. /\ f \in [0..(n - 1) -> X] /\ f[0] = b
        /\ \A k \in 1..(n - 1) : f[k] = G[k][f[k - 1]]
    BY <1>2
  <2>2. f[n - 1] \in X /\ G[n][f[n - 1]] \in X
    BY <1>0, <2>1
  <2>3. g \in [0..n -> X]
    BY <2>1, <2>2
  <2>4. g[0] = b
    BY <2>1
  <2>5. ASSUME NEW k \in 1..n PROVE g[k] = G[k][g[k - 1]]
    <3>1. CASE k = n
      BY <3>1
    <3>2. CASE k # n
      <4>1. k \in 1..(n - 1) /\ g[k] = f[k] /\ g[k - 1] = f[k - 1]
        BY <3>2
      <4> QED
        BY <2>1, <4>1
    <3> QED
      BY <3>1, <3>2
  <2> HIDE DEF g
  <2>6. Approximates(g, n)
    BY <2>3, <2>4, <2>5
  <2> HIDE DEF Approximates
  <2> QED
    BY <2>6
<1>3. L \in S
  <2> HIDE DEF Approximates
  <2>1. 0 \in S
    BY <1>1
  <2>2. \A n \in 1..L : n - 1 \in S => n \in S
    BY <1>2
  <2> HIDE DEF S
  <2>3. \A k \in 0..L : k \in S
    BY <2>1, <2>2, InductionTo
  <2> QED
    BY <2>3
<1>4. PICK f : Approximates(f, L)
  <2> HIDE DEF Approximates
  <2> QED
    BY <1>3
<1> QED
  BY <1>4 DEF Iterates
-----------------------------------------------------------------------------
(* Lists                                                                      *)

\* The elements of a list with one more, and of two lists put together.
LEMMA ToSetAppend ==
  ASSUME NEW T, NEW q \in Seq(T), NEW e \in T
  PROVE  ToSet(Append(q, e)) = ToSet(q) \cup {e}
<1>1. /\ DOMAIN q = 1..Len(q) /\ Len(q) \in Nat
      /\ DOMAIN Append(q, e) = 1..(Len(q) + 1)
      /\ \A i \in 1..Len(q) : Append(q, e)[i] = q[i]
      /\ Append(q, e)[Len(q) + 1] = e
  OBVIOUS
<1>2. 1..(Len(q) + 1) = 1..Len(q) \cup {Len(q) + 1}
  BY <1>1
<1> QED
  BY <1>1, <1>2 DEF ToSet

LEMMA ToSetConcat ==
  ASSUME NEW T, NEW p \in Seq(T), NEW q \in Seq(T)
  PROVE  ToSet(p \o q) = ToSet(p) \cup ToSet(q)
<1>1. /\ DOMAIN p = 1..Len(p) /\ DOMAIN q = 1..Len(q) /\ Len(p) \in Nat /\ Len(q) \in Nat
      /\ DOMAIN (p \o q) = 1..(Len(p) + Len(q))
      /\ \A i \in 1..Len(p) : (p \o q)[i] = p[i]
      /\ \A i \in 1..Len(q) : (p \o q)[Len(p) + i] = q[i]
  OBVIOUS
<1>2. \A i \in 1..(Len(p) + Len(q)) : i \in 1..Len(p) \/ \E j \in 1..Len(q) : i = Len(p) + j
  <2> SUFFICES ASSUME NEW i \in 1..(Len(p) + Len(q)), i \notin 1..Len(p)
               PROVE  \E j \in 1..Len(q) : i = Len(p) + j
    OBVIOUS
  <2>1. i - Len(p) \in 1..Len(q) /\ i = Len(p) + (i - Len(p))
    BY <1>1
  <2> QED
    BY <2>1
<1>3. \A i \in 1..Len(q) : Len(p) + i \in 1..(Len(p) + Len(q))
  BY <1>1
<1>4. \A i \in 1..Len(p) : i \in 1..(Len(p) + Len(q))
  BY <1>1
<1>5. ToSet(p \o q) \subseteq ToSet(p) \cup ToSet(q)
  BY <1>1, <1>2 DEF ToSet
<1>6. ToSet(p) \cup ToSet(q) \subseteq ToSet(p \o q)
  BY <1>1, <1>3, <1>4 DEF ToSet
<1> QED
  BY <1>5, <1>6

LEMMA ToSetEmpty == ToSet(<<>>) = {}
  BY DEF ToSet

\* A list begins with its head and goes on with its tail.
LEMMA HeadTail ==
  ASSUME NEW T, NEW q \in Seq(T), q # <<>>
  PROVE  Head(q) \in T /\ Tail(q) \in Seq(T) /\ q = <<Head(q)>> \o Tail(q)
  OBVIOUS

\* What is a list, whatever its elements.
LEMMA SeqIsList == ASSUME NEW T, NEW q \in Seq(T) PROVE IsList(q)
  BY DEF IsList
LEMMA AppendList ==
  ASSUME NEW s, NEW e, IsList(s)
  PROVE  /\ IsList(Append(s, e)) /\ Len(Append(s, e)) = Len(s) + 1
         /\ Append(s, e)[Len(s) + 1] = e
         /\ \A i \in 1..Len(s) : Append(s, e)[i] = s[i]
<1> DEFINE T == {s[k] : k \in 1..Len(s)} \cup {e}
<1>1. s \in Seq(T) /\ e \in T
  BY DEF IsList
<1> HIDE DEF T
<1>2. Append(s, e) \in Seq(T) /\ Len(Append(s, e)) = Len(s) + 1
  BY <1>1
<1>3. IsList(Append(s, e))
  BY <1>2, SeqIsList
<1>4. Append(s, e)[Len(s) + 1] = e
  BY <1>1
<1>5. \A i \in 1..Len(s) : Append(s, e)[i] = s[i]
  BY <1>1
<1> QED
  BY <1>2, <1>3, <1>4, <1>5

LEMMA LastOfList ==
  ASSUME NEW s, IsList(s), s # <<>>
  PROVE  DOMAIN s = 1..Len(s) /\ Len(s) \in 1..Len(s) /\ Last(s) = s[Len(s)]
  BY DEF IsList, Last

LEMMA SeqOfSubset == ASSUME NEW S, NEW T, S \subseteq T, NEW q \in Seq(S) PROVE q \in Seq(T)
  OBVIOUS

-----------------------------------------------------------------------------
(* Lists of lists, put together                                               *)

\* Where each of the lists s begins when they are put together.
Begins(start, s) ==
  /\ start \in [0..Len(s) -> 0..Len(FlattenSeq(s))]
  /\ start[0] = 0 /\ start[Len(s)] = Len(FlattenSeq(s))
  /\ \A k \in 1..Len(s) :
       /\ start[k] = start[k - 1] + Len(s[k])
       /\ \A i \in 1..Len(s[k]) : FlattenSeq(s)[start[k - 1] + i] = s[k][i]

\* The lists that f puts together one after the other, each in its place.
LEMMA Concatenated ==
  ASSUME NEW T, NEW s \in Seq(Seq(T)), NEW f \in [0..Len(s) -> Seq(T)],
         f[0] = <<>>, \A k \in 1..Len(s) : f[k] = f[k - 1] \o s[k]
  PROVE  \A k \in 1..Len(s) :
           /\ Len(f[k]) = Len(f[k - 1]) + Len(s[k]) /\ Len(f[k]) <= Len(f[Len(s)])
           /\ \A i \in 1..Len(s[k]) : f[Len(s)][Len(f[k - 1]) + i] = s[k][i]
<1> DEFINE L == Len(s)
           Placed(m) == \A k \in 1..L : k <= m =>
             /\ Len(f[k]) <= Len(f[m])
             /\ \A i \in 1..Len(s[k]) : f[m][Len(f[k - 1]) + i] = s[k][i]
           P == {m \in 0..L : Placed(m)}
<1>1. L \in Nat /\ \A k \in 1..L : s[k] \in Seq(T) /\ Len(s[k]) \in Nat
  <2>1. \A k \in 1..L : s[k] \in Seq(T)
    BY ElementOfSeq
  <2> QED
    BY <2>1
<1>2. \A k \in 0..L : f[k] \in Seq(T) /\ Len(f[k]) \in Nat
  <2>1. \A k \in 0..L : f[k] \in Seq(T)
    OBVIOUS
  <2> QED
    BY <2>1
<1>3. ASSUME NEW k \in 1..L
      PROVE  /\ k - 1 \in 0..L /\ k \in 0..L
             /\ Len(f[k]) = Len(f[k - 1]) + Len(s[k])
             /\ \A i \in 1..Len(s[k]) : f[k][Len(f[k - 1]) + i] = s[k][i]
             /\ \A i \in 1..Len(f[k - 1]) : f[k][i] = f[k - 1][i]
  <2>1. k - 1 \in 0..L /\ k \in 0..L
    BY <1>1
  <2>2. f[k] = f[k - 1] \o s[k] /\ f[k - 1] \in Seq(T) /\ s[k] \in Seq(T)
    BY <1>1, <1>2, <2>1
  <2> HIDE DEF L
  <2> DEFINE p == f[k - 1]
             q == s[k]
  <2>3. /\ Len(p \o q) = Len(p) + Len(q)
        /\ \A i \in 1..Len(q) : (p \o q)[Len(p) + i] = q[i]
        /\ \A i \in 1..Len(p) : (p \o q)[i] = p[i]
    <3>1. p \in Seq(T) /\ q \in Seq(T)
      BY <2>2
    <3> HIDE DEF p, q
    <3> QED
      BY <3>1
  <2> QED
    BY <2>1, <2>2, <2>3
<1>4. ASSUME NEW m \in 1..L, Placed(m - 1) PROVE Placed(m)
  <2> SUFFICES ASSUME NEW k \in 1..L, k <= m
               PROVE  /\ Len(f[k]) <= Len(f[m])
                      /\ \A i \in 1..Len(s[k]) : f[m][Len(f[k - 1]) + i] = s[k][i]
    OBVIOUS
  <2>1. CASE k = m
    <3>1. Len(f[k]) <= Len(f[m])
      BY <1>2, <1>3, <2>1
    <3> QED
      BY <1>3, <2>1, <3>1
  <2>2. CASE k # m
    <3>1. k <= m - 1
      BY <1>1, <2>2
    <3>2. /\ Len(f[k]) <= Len(f[m - 1])
          /\ \A i \in 1..Len(s[k]) : f[m - 1][Len(f[k - 1]) + i] = s[k][i]
      BY <1>4, <3>1
    <3>3. /\ Len(f[m - 1]) \in Nat /\ Len(f[k]) \in Nat /\ Len(f[k - 1]) \in Nat
          /\ Len(s[k]) \in Nat /\ Len(s[m]) \in Nat
          /\ Len(f[m]) = Len(f[m - 1]) + Len(s[m]) /\ Len(f[k]) = Len(f[k - 1]) + Len(s[k])
      BY <1>1, <1>2, <1>3
    <3> DEFINE a == Len(f[m - 1])
               b == Len(s[m])
               c == Len(f[m])
               d == Len(f[k])
               e == Len(f[k - 1])
               n == Len(s[k])
    <3>4. a \in Nat /\ b \in Nat /\ d \in Nat /\ e \in Nat /\ n \in Nat /\ d <= a /\ c = a + b /\ d = e + n
      BY <3>2, <3>3
    <3>5. d <= c /\ \A i \in 1..n : e + i \in 1..a
      <4> HIDE DEF a, b, c, d, e, n
      <4> QED
        BY <3>4
    <3>6. ASSUME NEW i \in 1..Len(s[k]) PROVE f[m][Len(f[k - 1]) + i] = s[k][i]
      <4>1. Len(f[k - 1]) + i \in 1..Len(f[m - 1])
        BY <3>5
      <4>2. f[m][Len(f[k - 1]) + i] = f[m - 1][Len(f[k - 1]) + i]
        BY <1>3, <4>1
      <4> QED
        BY <3>2, <4>2
    <3> QED
      BY <3>5, <3>6
  <2> QED
    BY <2>1, <2>2
<1>5. Placed(L)
  <2> HIDE DEF L
  <2>1. Placed(0)
    BY <1>1
  <2> HIDE DEF Placed
  <2>2. 0 \in P /\ \A k \in 1..L : k - 1 \in P => k \in P
    BY <1>1, <1>4, <2>1
  <2> HIDE DEF P
  <2>3. \A k \in 0..L : k \in P
    BY <1>1, <2>2, InductionTo
  <2> QED
    BY <1>1, <2>3 DEF P
<1>6. \A k \in 1..L : k <= L
  BY <1>1
<1> QED
  <2> SUFFICES ASSUME NEW k \in 1..L
               PROVE  /\ Len(f[k]) = Len(f[k - 1]) + Len(s[k]) /\ Len(f[k]) <= Len(f[L])
                      /\ \A i \in 1..Len(s[k]) : f[L][Len(f[k - 1]) + i] = s[k][i]
    OBVIOUS
  <2>1. Len(f[k]) <= Len(f[L]) /\ \A i \in 1..Len(s[k]) : f[L][Len(f[k - 1]) + i] = s[k][i]
    <3> HIDE DEF L
    <3> QED
      BY <1>5, <1>6
  <2> QED
    BY <1>3, <2>1

\* Lists are put together one after the other.
Joins(f, s, T) ==
  /\ f \in [0..Len(s) -> Seq(T)] /\ f[0] = <<>> /\ \A k \in 1..Len(s) : f[k] = f[k - 1] \o s[k]
  /\ FlattenSeq(s) = f[Len(s)]
LEMMA FlattenJoins ==
  ASSUME NEW T, NEW s \in Seq(Seq(T))
  PROVE  \E f : Joins(f, s, T)
<1> DEFINE L == Len(s)
           X == Seq(T)
           G == [k \in 1..L |-> [q \in X |-> q \o s[k]]]
<1>1. L \in Nat /\ <<>> \in X /\ \A k \in 1..L : s[k] \in X
  <2>1. \A k \in 1..L : s[k] \in X
    BY ElementOfSeq
  <2> QED
    BY <2>1
<1>2. \A k \in 1..L, q \in X : q \o s[k] \in X
  <2> SUFFICES ASSUME NEW k \in 1..L, NEW q \in X PROVE q \o s[k] \in X
    OBVIOUS
  <2> QED
    BY <1>1, ConcatProperties
<1>3. PICK f : f \in [0..L -> X] /\ f[0] = <<>> /\ \A k \in 1..L : f[k] = f[k - 1] \o s[k]
  <2>1. IsStepFor(G, X, L) /\ \A k \in 1..L, q \in X : G[k][q] = q \o s[k]
    <3> HIDE DEF L, X
    <3> QED
      BY <1>2 DEF IsStepFor
  <2> HIDE DEF G, L, X
  <2>2. PICK f : Iterates(f, <<>>, G, X, L)
    BY <1>1, <2>1, RecursionTo
  <2>3. \A k \in 1..L : f[k - 1] \in X
    BY <1>1, <2>2 DEF Iterates
  <2>4. \A k \in 1..L : f[k] = f[k - 1] \o s[k]
    BY <2>1, <2>2, <2>3 DEF Iterates
  <2>5. f \in [0..L -> X] /\ f[0] = <<>>
    BY <2>2 DEF Iterates
  <2> QED
    BY <2>4, <2>5
<1>4. FlattenSeq(s) = f[L]
  <2>1. CASE L = 0
    <3>1. s = <<>>
      BY <2>1
    <3> QED
      BY <1>3, <2>1, <3>1 DEF FlattenSeq
  <2>2. CASE L # 0
    <3> DEFINE Flattened(g) == g = [i \in 1..L |-> IF i = 1 THEN s[i] ELSE g[i - 1] \o s[i]]
               flatten == CHOOSE g : Flattened(g)
               h == [i \in 1..L |-> f[i]]
    <3>1. FlattenSeq(s) = flatten[L]
      BY <2>2 DEF FlattenSeq
    <3>2. Flattened(h)
      <4> HIDE DEF L, X
      <4>1. ASSUME NEW i \in 1..L PROVE h[i] = IF i = 1 THEN s[i] ELSE h[i - 1] \o s[i]
        <5>1. CASE i = 1
          <6>1. i - 1 = 0
            BY <5>1
          <6>2. f[i] = <<>> \o s[i] /\ s[i] \in Seq(T)
            BY <1>1, <1>3, <6>1 DEF X
          <6> QED
            BY <5>1, <6>2
        <5>2. CASE i # 1
          <6>1. i - 1 \in 1..L
            BY <1>1, <5>2
          <6> QED
            BY <1>3, <5>2, <6>1
        <5> QED
          BY <5>1, <5>2
      <4> QED
        BY <4>1
    <3>3. Flattened(flatten)
      <4> HIDE DEF Flattened
      <4> QED
        BY <3>2
    <3>4. \A i \in 1..L : flatten[i] = IF i = 1 THEN s[i] ELSE flatten[i - 1] \o s[i]
      <4> HIDE DEF flatten, L
      <4> QED
        BY <3>3
    <3> DEFINE P == {k \in 0..L : k = 0 \/ flatten[k] = f[k]}
    <3> HIDE DEF flatten
    <3>5. ASSUME NEW k \in 1..L, k - 1 \in P PROVE k \in P
      <4>1. k \in 0..L
        BY <1>1
      <4>2. CASE k = 1
        <5>1. k - 1 = 0 /\ flatten[k] = s[k]
          BY <3>4, <4>2
        <5>2. f[k] = <<>> \o s[k] /\ s[k] \in Seq(T)
          BY <1>1, <1>3, <5>1
        <5> QED
          BY <4>1, <5>1, <5>2
      <4>3. CASE k # 1
        <5>1. k - 1 # 0 /\ flatten[k - 1] = f[k - 1]
          BY <3>5, <4>3
        <5>2. flatten[k] = flatten[k - 1] \o s[k] /\ f[k] = f[k - 1] \o s[k]
          BY <1>3, <3>4, <4>3
        <5> QED
          BY <4>1, <5>1, <5>2
      <4> QED
        BY <4>2, <4>3
    <3>6. 0 \in P
      BY <1>1
    <3> HIDE DEF P, L
    <3>7. \A k \in 0..L : k \in P
      BY <1>1, <3>5, <3>6, InductionTo
    <3>8. flatten[L] = f[L]
      BY <1>1, <2>2, <3>7 DEF P
    <3> QED
      BY <3>1, <3>8
  <2> QED
    BY <2>1, <2>2
<1> QED
  BY <1>3, <1>4 DEF Joins

\* Lists that are put together are a list, and each is where it begins.
LEMMA FlattenFacts ==
  ASSUME NEW T, NEW s \in Seq(Seq(T))
  PROVE  FlattenSeq(s) \in Seq(T) /\ \E start : Begins(start, s)
<1> DEFINE L == Len(s)
           X == Seq(T)
<1>1. L \in Nat
  OBVIOUS
<1>2. PICK f : Joins(f, s, T)
  BY FlattenJoins
<1>3. f \in [0..L -> X] /\ f[0] = <<>> /\ \A k \in 1..L : f[k] = f[k - 1] \o s[k]
  BY <1>2 DEF Joins
<1>4. FlattenSeq(s) = f[L]
  BY <1>2 DEF Joins
<1> DEFINE start == [k \in 0..L |-> Len(f[k])]
<1>5. FlattenSeq(s) \in Seq(T)
  BY <1>1, <1>3, <1>4
<1>6. \A k \in 1..L : /\ Len(f[k]) = Len(f[k - 1]) + Len(s[k]) /\ Len(f[k]) <= Len(f[L])
                      /\ \A i \in 1..Len(s[k]) : f[L][Len(f[k - 1]) + i] = s[k][i]
  BY <1>3, Concatenated
<1>7. Begins(start, s)
  <2>1. start \in [0..L -> 0..Len(FlattenSeq(s))]
    <3>1. \A k \in 0..L : f[k] \in Seq(T)
      BY <1>3
    <3>2. \A k \in 0..L : Len(f[k]) \in Nat
      BY <3>1
    <3>3. \A k \in 0..L : Len(f[k]) <= Len(f[L])
      <4>1. Len(f[0]) = 0 /\ Len(f[L]) \in Nat
        BY <1>1, <1>3, <3>2
      <4>2. \A k \in 0..L : k = 0 \/ k \in 1..L
        BY <1>1
      <4>3. \A k \in 1..L : Len(f[k]) <= Len(f[L])
        BY <1>6
      <4> HIDE DEF L, X
      <4>4. ASSUME NEW k \in 0..L PROVE Len(f[k]) <= Len(f[L])
        <5>1. CASE k = 0
          BY <4>1, <5>1
        <5>2. CASE k \in 1..L
          BY <4>3, <5>2
        <5> QED
          BY <4>2, <5>1, <5>2
      <4> QED
        BY <4>4
    <3>4. Len(FlattenSeq(s)) = Len(f[L]) /\ Len(f[L]) \in Nat
      BY <1>1, <1>4, <3>2
    <3> HIDE DEF L, X
    <3>5. \A k \in 0..L : Len(f[k]) \in 0..Len(FlattenSeq(s))
      BY <3>2, <3>3, <3>4
    <3> QED
      BY <3>5
  <2>2. start[0] = 0 /\ start[L] = Len(FlattenSeq(s))
    BY <1>1, <1>3, <1>4
  <2>3. \A k \in 1..L : k \in 0..L /\ k - 1 \in 0..L /\ start[k] = Len(f[k]) /\ start[k - 1] = Len(f[k - 1])
    BY <1>1
  <2> HIDE DEF start
  <2> QED
    BY <1>4, <1>6, <2>1, <2>2, <2>3 DEF Begins
<1> HIDE DEF start
<1> QED
  BY <1>5, <1>7

\* The first n lists of f, put together.
JoinTo(f, n) == FlattenSeq([k \in 1..n |-> f[k]])

\* Nothing, and then one more.
JoinsUp(f, N, T) ==
  /\ JoinTo(f, 0) = <<>> /\ JoinTo(f, N) = FlattenSeq(f)
  /\ \A n \in 0..N : JoinTo(f, n) \in Seq(T)
  /\ \A n \in 1..N : JoinTo(f, n) = JoinTo(f, n - 1) \o f[n]
LEMMA JoinNext ==
  ASSUME NEW T, NEW N \in Nat, NEW f \in [1..N -> Seq(T)]
  PROVE  JoinsUp(f, N, T)
<1> DEFINE First(n) == [k \in 1..n |-> f[k]]
<1>1. ASSUME NEW n \in 0..N
      PROVE  First(n) \in Seq(Seq(T)) /\ Len(First(n)) = n /\ \A k \in 1..n : First(n)[k] = f[k]
  <2>1. \A k \in 1..n : f[k] \in Seq(T)
    OBVIOUS
  <2>2. First(n) \in [1..n -> Seq(T)] /\ n \in Nat
    BY <2>1
  <2> QED
    BY <2>2
<1>2. \A n \in 0..N : JoinTo(f, n) \in Seq(T)
  <2> SUFFICES ASSUME NEW n \in 0..N PROVE FlattenSeq(First(n)) \in Seq(T)
    BY DEF JoinTo
  <2> HIDE DEF First
  <2> QED
    BY <1>1, FlattenFacts
<1>3. JoinTo(f, 0) = <<>>
  <2>1. First(0) = <<>>
    OBVIOUS
  <2> QED
    BY <2>1 DEF JoinTo, FlattenSeq
<1>4. JoinTo(f, N) = FlattenSeq(f)
  <2>1. First(N) = f
    OBVIOUS
  <2> QED
    BY <2>1 DEF JoinTo
<1>5. ASSUME NEW n \in 1..N PROVE JoinTo(f, n) = JoinTo(f, n - 1) \o f[n]
  <2>1. n \in 0..N /\ n - 1 \in 0..N /\ n \in Nat
    OBVIOUS
  <2>2. PICK g : Joins(g, First(n), T)
    <3> HIDE DEF First
    <3> QED
      BY <1>1, <2>1, FlattenJoins
  <2>3. PICK h : Joins(h, First(n - 1), T)
    <3> HIDE DEF First
    <3> QED
      BY <1>1, <2>1, FlattenJoins
  <2>4. /\ g \in [0..n -> Seq(T)] /\ g[0] = <<>> /\ \A k \in 1..n : g[k] = g[k - 1] \o f[k]
        /\ JoinTo(f, n) = g[n]
    <3> HIDE DEF First
    <3>1. FlattenSeq(First(n)) = g[n]
      BY <1>1, <2>1, <2>2 DEF Joins
    <3>2. g \in [0..n -> Seq(T)] /\ g[0] = <<>> /\ \A k \in 1..n : g[k] = g[k - 1] \o f[k]
      BY <1>1, <2>1, <2>2 DEF Joins
    <3> QED
      BY <3>1, <3>2 DEF JoinTo, First
  <2>5. /\ h \in [0..(n - 1) -> Seq(T)] /\ h[0] = <<>> /\ \A k \in 1..(n - 1) : h[k] = h[k - 1] \o f[k]
        /\ JoinTo(f, n - 1) = h[n - 1]
    <3> HIDE DEF First
    <3>1. FlattenSeq(First(n - 1)) = h[n - 1]
      BY <1>1, <2>1, <2>3 DEF Joins
    <3>2. h \in [0..(n - 1) -> Seq(T)] /\ h[0] = <<>> /\ \A k \in 1..(n - 1) : h[k] = h[k - 1] \o f[k]
      BY <1>1, <2>1, <2>3 DEF Joins
    <3> QED
      BY <3>1, <3>2 DEF JoinTo, First
  <2> DEFINE S == {k \in 0..(n - 1) : g[k] = h[k]}
  <2>6. 0 \in S
    BY <2>4, <2>5
  <2>7. ASSUME NEW k \in 1..(n - 1), k - 1 \in S PROVE k \in S
    <3>1. k \in 1..n /\ k \in 0..(n - 1) /\ g[k - 1] = h[k - 1]
      BY <2>7
    <3>2. g[k] = g[k - 1] \o f[k] /\ h[k] = h[k - 1] \o f[k]
      BY <2>4, <2>5, <3>1
    <3> QED
      BY <3>1, <3>2
  <2>8. n - 1 \in Nat /\ n - 1 \in 0..(n - 1)
    OBVIOUS
  <2>9. \A k \in 0..(n - 1) : k \in S
    <3> HIDE DEF S
    <3> QED
      BY <2>6, <2>7, <2>8, InductionTo
  <2>10. g[n - 1] = h[n - 1]
    BY <2>8, <2>9
  <2>11. g[n] = g[n - 1] \o f[n]
    BY <2>1, <2>4, n \in 1..n
  <2> QED
    BY <2>4, <2>5, <2>10, <2>11
<1> QED
  BY <1>2, <1>3, <1>4, <1>5 DEF JoinsUp

\* Lists that are empty add nothing.
LEMMA JoinRest ==
  ASSUME NEW T, NEW N \in Nat, NEW f \in [1..N -> Seq(T)], NEW n \in 0..N,
         \A k \in (n + 1)..N : f[k] = <<>>
  PROVE  FlattenSeq(f) = JoinTo(f, n)
<1> DEFINE S == {d \in 0..(N - n) : JoinTo(f, n + d) = JoinTo(f, n)}
<1>1. N - n \in Nat /\ 0 \in S
  OBVIOUS
<1>2. ASSUME NEW d \in 1..(N - n), d - 1 \in S PROVE d \in S
  <2>1. n + d \in 1..N /\ n + d \in (n + 1)..N /\ n + d - 1 = n + (d - 1) /\ n + d - 1 \in 0..N
    OBVIOUS
  <2> HIDE DEF S
  <2>2. JoinTo(f, n + d) = JoinTo(f, n + d - 1) \o f[n + d] /\ JoinTo(f, n + d - 1) \in Seq(T)
    <3>1. \A m \in 1..N : JoinTo(f, m) = JoinTo(f, m - 1) \o f[m]
      BY JoinNext DEF JoinsUp
    <3>2. \A m \in 0..N : JoinTo(f, m) \in Seq(T)
      BY JoinNext DEF JoinsUp
    <3> QED
      BY <2>1, <3>1, <3>2
  <2>3. JoinTo(f, n + d) = JoinTo(f, n + d - 1)
    <3> DEFINE q == JoinTo(f, n + d - 1)
    <3>1. q \in Seq(T) /\ f[n + d] = <<>>
      BY <2>1, <2>2
    <3> HIDE DEF q
    <3>2. q \o <<>> = q
      BY <3>1
    <3> QED
      BY <2>2, <3>1, <3>2 DEF q
  <2> QED
    BY <1>2, <2>1, <2>3 DEF S
<1>3. N - n \in S
  <2> HIDE DEF S
  <2>1. \A d \in 0..(N - n) : d \in S
    BY <1>1, <1>2, InductionTo
  <2> QED
    BY <1>1, <2>1
<1>4. n + (N - n) = N
  OBVIOUS
<1> QED
  BY <1>3, <1>4, JoinNext DEF JoinsUp

-----------------------------------------------------------------------------
(* Keep, and with it how a recursive function of a model is reasoned about:    *)
(* it is the iteration of its step, which exists by RecursionTo.              *)

\* Keep(s, S) has the elements of s that are in S, and no others.
LEMMA KeepFacts ==
  ASSUME NEW T, NEW s \in Seq(T), NEW S
  PROVE  Keep(s, S) \in Seq(T) /\ ToSet(Keep(s, S)) = ToSet(s) \cap S
<1> DEFINE L == Len(s)
           X == Seq(T)
           Step(q, k) == IF s[k] \in S THEN Append(q, s[k]) ELSE q
           G == [k \in 1..L |-> [q \in X |-> Step(q, k)]]
<1>1. L \in Nat /\ \A k \in 1..L : s[k] \in T
  OBVIOUS
<1>2. <<>> \in X /\ \A k \in 1..L, q \in X : Step(q, k) \in X
  BY <1>1
<1>3. IsStepFor(G, X, L) /\ \A k \in 1..L, q \in X : G[k][q] = Step(q, k)
  <2> HIDE DEF Step, L, X
  <2> QED
    BY <1>2 DEF IsStepFor
<1>4. PICK f : f \in [0..L -> X] /\ f[0] = <<>> /\ \A k \in 1..L : f[k] = Step(f[k - 1], k)
  <2>1. L \in Nat /\ <<>> \in X
    BY <1>1, <1>2
  <2> HIDE DEF G, L, X, Step
  <2>2. PICK f : Iterates(f, <<>>, G, X, L)
    BY <2>1, <1>3, RecursionTo
  <2>3. \A k \in 1..L : f[k - 1] \in X
    BY <2>1, <2>2 DEF Iterates
  <2> QED
    BY <1>3, <2>2, <2>3, ZenonT(30) DEF Iterates
<1> DEFINE Kept(g) == g = [k \in 0..L |-> IF k = 0 THEN <<>>
                             ELSE IF s[k] \in S THEN Append(g[k - 1], s[k]) ELSE g[k - 1]]
           kept == CHOOSE g : Kept(g)
<1>5. Keep(s, S) = kept[L]
  BY DEF Keep
<1>6. Kept(f)
  <2> HIDE DEF L, X
  <2>1. \A k \in 0..L : k # 0 => k \in 1..L
    BY <1>1
  <2> QED
    BY <1>4, <2>1
<1>7. Kept(kept)
  <2> HIDE DEF Kept
  <2> QED
    BY <1>6
<1>8. kept[0] = <<>> /\ \A k \in 1..L : kept[k] = Step(kept[k - 1], k)
  <2> HIDE DEF kept, L, X, G
  <2>1. 0 \in 0..L /\ \A k \in 1..L : k \in 0..L /\ k # 0
    BY <1>1
  <2> QED
    BY <2>1, <1>7
<1> DEFINE Correct(k) == kept[k] \in X /\ ToSet(kept[k]) = {s[i] : i \in 1..k} \cap S
           P == {k \in 0..L : Correct(k)}
<1> HIDE DEF kept
<1>9. Correct(0)
  <2>1. {s[i] : i \in 1..0} = {}
    OBVIOUS
  <2> QED
    BY <1>1, <1>2, <1>8, <2>1, ToSetEmpty
<1>10. ASSUME NEW k \in 1..L, Correct(k - 1) PROVE Correct(k)
  <2>1. kept[k - 1] \in X /\ ToSet(kept[k - 1]) = {s[i] : i \in 1..(k - 1)} \cap S
    BY <1>10
  <2>2. {s[i] : i \in 1..k} = {s[i] : i \in 1..(k - 1)} \cup {s[k]}
    OBVIOUS
  <2>3. kept[k] = Step(kept[k - 1], k) /\ kept[k] \in X
    BY <1>2, <1>8, <2>1
  <2>4. ToSet(kept[k]) = {s[i] : i \in 1..k} \cap S
    <3>1. CASE s[k] \in S
      <4>1. ToSet(kept[k]) = ToSet(kept[k - 1]) \cup {s[k]}
        BY <2>1, <2>3, <3>1, <1>1, ToSetAppend
      <4> QED
        BY <2>1, <2>2, <3>1, <4>1
    <3>2. CASE s[k] \notin S
      BY <2>1, <2>2, <2>3, <3>2
    <3> QED
      BY <3>1, <3>2
  <2> QED
    BY <2>3, <2>4
<1>11. Correct(L)
  <2> HIDE DEF L, Correct
  <2>1. 0 \in P /\ \A k \in 1..L : k - 1 \in P => k \in P
    BY <1>1, <1>9, <1>10
  <2> HIDE DEF P
  <2>2. \A k \in 0..L : k \in P
    BY <1>1, <2>1, InductionTo
  <2>3. L \in P
    BY <1>1, <2>2
  <2> QED
    BY <2>3 DEF P
<1>12. ToSet(s) = {s[i] : i \in 1..L}
  BY DEF ToSet
<1> QED
  BY <1>5, <1>11, <1>12

-----------------------------------------------------------------------------
(* Orders                                                                     *)

IsStrictOrder(R, S) ==
  /\ \A a \in S : <<a, a>> \notin R
  /\ \A a, b, c \in S : <<a, b>> \in R /\ <<b, c>> \in R => <<a, c>> \in R
  /\ \A a, b \in S : a # b => <<a, b>> \in R \/ <<b, a>> \in R
\* s comes before t in the dictionary of the letters in the order R.
Before(R, s, t) == \E k \in DOMAIN t : EndsAt(s, t, k) \/ (DifferAt(s, t, k) /\ <<s[k], t[k]>> \in R)
FirstDifference(s, t) ==
  \E k \in Nat : EndsAt(s, t, k) \/ EndsAt(t, s, k) \/ DifferAt(s, t, k)

\* Two lists that are not one begin to differ somewhere.
LEMMA ListsDiffer ==
  ASSUME NEW S, NEW s \in Seq(S), NEW t \in Seq(S), s # t
  PROVE  FirstDifference(s, t)
<1> DEFINE m == Len(s)
           n == Len(t)
           Same(k) == k <= m /\ k <= n /\ s[k] = t[k]
           T == {k \in 1..(m + n + 1) : ~Same(k)}
<1>1. m \in Nat /\ n \in Nat /\ DOMAIN s = 1..m /\ DOMAIN t = 1..n
  OBVIOUS
<1>2. m + n + 1 \in T
  BY <1>1
<1>3. PICK k \in T : \A i \in T : k <= i
  <2>1. T \subseteq Nat /\ T # {}
    BY <1>1, <1>2
  <2> HIDE DEF T
  <2> QED
    BY <2>1, Least
<1>4. k \in 1..(m + n + 1) /\ ~Same(k)
  OBVIOUS
<1>5. \A i \in 1..(k - 1) : Same(i)
  <2> SUFFICES ASSUME NEW i \in 1..(k - 1), ~Same(i) PROVE FALSE
    OBVIOUS
  <2>1. i \in T /\ i < k
    BY <1>1, <1>4
  <2> HIDE DEF T
  <2> QED
    BY <1>3, <1>4, <2>1
<1>6. k <= m + 1 /\ k <= n + 1
  <2>1. k > 1 => k - 1 <= m /\ k - 1 <= n
    <3>1. k > 1 => k - 1 \in 1..(k - 1)
      BY <1>4
    <3> QED
      BY <3>1, <1>5
  <2> QED
    BY <1>1, <1>4, <2>1
<1>7. CASE k = m + 1 /\ k = n + 1
  <2>1. m = n /\ k - 1 = m /\ \A i \in 1..m : i \in 1..(k - 1)
    <3> HIDE DEF T, m, n, Same
    <3> QED
      BY <1>1, <1>7
  <2>2. \A i \in 1..m : s[i] = t[i]
    BY <2>1, <1>5
  <2>3. s = t
    <3> HIDE DEF Same, T
    <3> QED
      BY <2>1, <2>2, <1>1
  <2> QED
    BY <2>3
<1>8. CASE k = m + 1 /\ k # n + 1
  <2>1. k \in 1..n /\ \A i \in 1..m : s[i] = t[i]
    BY <1>1, <1>4, <1>5, <1>6, <1>8
  <2>2. EndsAt(s, t, k)
    BY <2>1, <1>1, <1>8 DEF EndsAt
  <2> QED
    BY <2>2, <1>4 DEF FirstDifference
<1>9. CASE k # m + 1 /\ k = n + 1
  <2>1. k \in 1..m /\ \A i \in 1..n : t[i] = s[i]
    BY <1>1, <1>4, <1>5, <1>6, <1>9
  <2>2. EndsAt(t, s, k)
    BY <2>1, <1>1, <1>9 DEF EndsAt
  <2> QED
    BY <2>2, <1>4 DEF FirstDifference
<1>10. CASE k # m + 1 /\ k # n + 1
  <2>1. k \in 1..m /\ k \in 1..n /\ s[k] # t[k] /\ \A i \in 1..(k - 1) : s[i] = t[i]
    BY <1>1, <1>4, <1>5, <1>6, <1>10
  <2>2. DifferAt(s, t, k)
    BY <2>1, <1>1 DEF DifferAt
  <2> QED
    BY <2>2, <1>4 DEF FirstDifference
<1> QED
  BY <1>7, <1>8, <1>9, <1>10

\* The order of a dictionary is strict and total.
LEMMA BeforeIrreflexive ==
  ASSUME NEW S, NEW R, NEW s \in Seq(S)
  PROVE  ~Before(R, s, s)
<1> SUFFICES ASSUME Before(R, s, s) PROVE FALSE
  OBVIOUS
<1> PICK k \in DOMAIN s : EndsAt(s, s, k) \/ (DifferAt(s, s, k) /\ <<s[k], s[k]>> \in R)
  BY DEF Before
<1>1. CASE EndsAt(s, s, k)
  BY <1>1 DEF EndsAt
<1>2. CASE DifferAt(s, s, k)
  BY <1>2 DEF DifferAt
<1> QED
  BY <1>1, <1>2

LEMMA BeforeTotal ==
  ASSUME NEW S, NEW R, IsStrictOrder(R, S), NEW s \in Seq(S), NEW t \in Seq(S), s # t
  PROVE  Before(R, s, t) \/ Before(R, t, s)
<1>1. PICK k \in Nat : EndsAt(s, t, k) \/ EndsAt(t, s, k) \/ DifferAt(s, t, k)
  BY ListsDiffer DEF FirstDifference
<1>2. CASE EndsAt(s, t, k)
  <2>1. k \in DOMAIN t
    BY <1>2 DEF EndsAt
  <2> QED
    BY <1>2, <2>1 DEF Before
<1>3. CASE EndsAt(t, s, k)
  <2>1. k \in DOMAIN s
    BY <1>3 DEF EndsAt
  <2> QED
    BY <1>3, <2>1 DEF Before
<1>4. CASE DifferAt(s, t, k)
  <2>1. k \in DOMAIN s /\ k \in DOMAIN t /\ s[k] # t[k] /\ DifferAt(t, s, k)
    BY <1>4 DEF DifferAt
  <2>2. s[k] \in S /\ t[k] \in S
    BY <2>1
  <2>3. <<s[k], t[k]>> \in R \/ <<t[k], s[k]>> \in R
    BY <2>1, <2>2 DEF IsStrictOrder
  <2> QED
    BY <1>4, <2>1, <2>3 DEF Before
<1> QED
  BY <1>1, <1>2, <1>3, <1>4

LEMMA BeforeTransitive ==
  ASSUME NEW S, NEW R, IsStrictOrder(R, S), NEW s \in Seq(S), NEW t \in Seq(S), NEW u \in Seq(S),
         Before(R, s, t), Before(R, t, u)
  PROVE  Before(R, s, u)
<1>1. PICK k \in DOMAIN t : EndsAt(s, t, k) \/ (DifferAt(s, t, k) /\ <<s[k], t[k]>> \in R)
  BY DEF Before
<1>2. PICK j \in DOMAIN u : EndsAt(t, u, j) \/ (DifferAt(t, u, j) /\ <<t[j], u[j]>> \in R)
  BY DEF Before
<1>3. /\ Len(s) \in Nat /\ Len(t) \in Nat /\ Len(u) \in Nat
      /\ DOMAIN s = 1..Len(s) /\ DOMAIN t = 1..Len(t) /\ DOMAIN u = 1..Len(u)
      /\ k \in 1..Len(t) /\ j \in 1..Len(u)
  OBVIOUS
<1>4. k <= Len(s) + 1 /\ \A i \in 1..(k - 1) : s[i] = t[i]
  <2>1. CASE EndsAt(s, t, k)
    BY <2>1, <1>3 DEF EndsAt
  <2>2. CASE DifferAt(s, t, k)
    BY <2>2, <1>3 DEF DifferAt
  <2> QED
    BY <1>1, <2>1, <2>2
<1>5. j <= Len(t) + 1 /\ \A i \in 1..(j - 1) : t[i] = u[i]
  <2>1. CASE EndsAt(t, u, j)
    BY <2>1, <1>3 DEF EndsAt
  <2>2. CASE DifferAt(t, u, j)
    BY <2>2, <1>3 DEF DifferAt
  <2> QED
    BY <1>2, <2>1, <2>2
<1>6. CASE k < j
  <2>1. k \in 1..Len(u) /\ t[k] = u[k] /\ \A i \in 1..(k - 1) : s[i] = u[i]
    BY <1>3, <1>4, <1>5, <1>6
  <2>2. EndsAt(s, t, k) => EndsAt(s, u, k)
    BY <2>1, <1>3 DEF EndsAt
  <2>3. DifferAt(s, t, k) => DifferAt(s, u, k)
    BY <2>1, <1>3 DEF DifferAt
  <2> QED
    BY <1>1, <1>3, <2>1, <2>2, <2>3 DEF Before
<1>7. CASE j < k
  <2>1. j \in 1..Len(s) /\ j \in 1..Len(t) /\ s[j] = t[j] /\ \A i \in 1..(j - 1) : s[i] = u[i]
    BY <1>3, <1>4, <1>5, <1>7
  <2>2. ~EndsAt(t, u, j)
    BY <2>1, <1>3 DEF EndsAt
  <2>3. DifferAt(t, u, j) => DifferAt(s, u, j)
    BY <2>1, <1>3 DEF DifferAt
  <2> QED
    BY <1>2, <1>3, <2>1, <2>2, <2>3 DEF Before
<1>8. CASE j = k
  <2>1. ~EndsAt(t, u, k) /\ \A i \in 1..(k - 1) : s[i] = u[i]
    BY <1>3, <1>4, <1>5, <1>8 DEF EndsAt
  <2>2. DifferAt(t, u, k) /\ <<t[k], u[k]>> \in R /\ k \in 1..Len(u)
    BY <1>2, <1>3, <1>8, <2>1
  <2>3. CASE EndsAt(s, t, k)
    <3>1. EndsAt(s, u, k)
      BY <2>1, <2>2, <2>3, <1>3 DEF EndsAt
    <3> QED
      BY <3>1, <2>2, <1>3 DEF Before
  <2>4. CASE DifferAt(s, t, k) /\ <<s[k], t[k]>> \in R
    <3>1. k \in DOMAIN s /\ s[k] \in S /\ t[k] \in S /\ u[k] \in S
      BY <2>2, <2>4, <1>3 DEF DifferAt
    <3>2. <<s[k], u[k]>> \in R
      BY <3>1, <2>2, <2>4 DEF IsStrictOrder
    <3>3. s[k] # u[k]
      BY <3>1, <3>2 DEF IsStrictOrder
    <3>4. DifferAt(s, u, k)
      BY <3>1, <3>3, <2>1, <2>2, <1>3 DEF DifferAt
    <3> QED
      BY <3>2, <3>4, <2>2, <1>3 DEF Before
  <2> QED
    BY <1>1, <2>3, <2>4
<1> QED
  BY <1>3, <1>6, <1>7, <1>8

\* What comes between a list and one that begins with it begins with it, too.
LEMMA BetweenBegins ==
  ASSUME NEW S, NEW R, IsStrictOrder(R, S), NEW a \in Seq(S), NEW p \in Seq(S), NEW o \in Seq(S),
         IsPrefix(a, o), Before(R, a, p), Before(R, p, o)
  PROVE  IsPrefix(a, p)
<1>1. PICK k \in DOMAIN p : EndsAt(a, p, k) \/ (DifferAt(a, p, k) /\ <<a[k], p[k]>> \in R)
  BY DEF Before
<1>2. Len(a) <= Len(o) /\ \A i \in 1..Len(a) : a[i] = o[i]
  BY DEF IsPrefix
<1>3. CASE EndsAt(a, p, k)
  <2>1. Len(a) <= Len(p) /\ \A i \in 1..Len(a) : a[i] = p[i]
    BY <1>3 DEF EndsAt
  <2> QED
    BY <2>1 DEF IsPrefix
<1>4. CASE DifferAt(a, p, k) /\ <<a[k], p[k]>> \in R
  <2>1. /\ k \in 1..Len(a) /\ k \in DOMAIN p /\ a[k] # p[k] /\ \A i \in 1..(k - 1) : a[i] = p[i]
    BY <1>4 DEF DifferAt
  <2>2. k \in DOMAIN o /\ o[k] = a[k] /\ \A i \in 1..(k - 1) : o[i] = p[i]
    BY <1>2, <2>1
  <2>3. DifferAt(o, p, k) /\ <<o[k], p[k]>> \in R
    BY <2>1, <2>2, <1>4 DEF DifferAt
  <2>4. Before(R, o, p)
    BY <2>1, <2>3 DEF Before
  <2>5. Before(R, o, o)
    BY <2>4, BeforeTransitive
  <2> QED
    BY <2>5, BeforeIrreflexive
<1> QED
  BY <1>1, <1>3, <1>4

\* A list that begins with another does not come before it.
LEMMA PrefixFirst ==
  ASSUME NEW S, NEW R, IsStrictOrder(R, S), NEW s \in Seq(S), NEW t \in Seq(S), IsPrefix(s, t), s # t
  PROVE  Before(R, s, t)
<1>1. Len(s) <= Len(t) /\ \A i \in 1..Len(s) : s[i] = t[i]
  BY DEF IsPrefix
<1>2. Len(s) # Len(t)
  BY <1>1
<1>3. Len(s) + 1 \in DOMAIN t
  BY <1>1, <1>2
<1>4. EndsAt(s, t, Len(s) + 1)
  BY <1>1, <1>3 DEF EndsAt
<1> QED
  BY <1>3, <1>4 DEF Before

-----------------------------------------------------------------------------
(* More of lists                                                              *)

\* Lists that are put together, or have one more.
LEMMA ListConcat ==
  ASSUME NEW p, NEW q, IsList(p), IsList(q)
  PROVE  IsList(p \o q) /\ ToSet(p \o q) = ToSet(p) \cup ToSet(q)
<1> DEFINE T == ToSet(p) \cup ToSet(q)
<1>1. p \in Seq(T) /\ q \in Seq(T)
  BY DEF IsList, ToSet
<1> HIDE DEF T
<1>2. p \o q \in Seq(T)
  BY <1>1
<1> QED
  BY <1>1, <1>2, SeqIsList, ToSetConcat

LEMMA ListAppend ==
  ASSUME NEW s, NEW e, IsList(s)
  PROVE  IsList(Append(s, e)) /\ ToSet(Append(s, e)) = ToSet(s) \cup {e}
<1> DEFINE T == ToSet(s) \cup {e}
<1>1. s \in Seq(T) /\ e \in T
  BY DEF IsList, ToSet
<1> HIDE DEF T
<1> QED
  BY <1>1, AppendList, ToSetAppend

\* A list whose elements are changed is as long.
LEMMA Mapped ==
  ASSUME NEW s, IsList(s), NEW r, r = [k \in DOMAIN s |-> r[k]]
  PROVE  IsList(r) /\ Len(r) = Len(s) /\ DOMAIN r = DOMAIN s
<1>1. DOMAIN s = 1..Len(s) /\ Len(s) \in Nat
  BY DEF IsList
<1>2. DOMAIN r = 1..Len(s) /\ Len(r) = Len(s)
  BY <1>1
<1> QED
  BY <1>1, <1>2 DEF IsList

LEMMA SameLength == ASSUME NEW s, NEW r, IsList(s), IsList(r), Len(r) = Len(s) PROVE DOMAIN r = DOMAIN s
BY DEF IsList

\* Numbers up to n have a greatest one.
LEMMA MaxFacts == ASSUME NEW n \in Nat, NEW S \in SUBSET (1..n), S # {} PROVE Max(S) \in S
<1> DEFINE T == {n - x : x \in S}
<1>1. T \subseteq Nat /\ T # {}
  <2>1. \A x \in S : n - x \in Nat
    <3> SUFFICES ASSUME NEW x \in S PROVE n - x \in Nat
      OBVIOUS
    <3>1. x \in 1..n
      OBVIOUS
    <3> QED
      BY <3>1
  <2>2. \E x \in S : n - x \in T
    OBVIOUS
  <2> QED
    BY <2>1, <2>2
<1> HIDE DEF T
<1>2. PICK m \in T : \A k \in T : m <= k
  BY <1>1, Least
<1>3. PICK x \in S : m = n - x
  BY DEF T
<1>4. \A y \in S : x >= y
  <2> SUFFICES ASSUME NEW y \in S PROVE x >= y
    OBVIOUS
  <2>1. n - y \in T
    BY DEF T
  <2>2. n - x <= n - y
    BY <1>2, <1>3, <2>1
  <2>3. x \in 1..n /\ y \in 1..n
    OBVIOUS
  <2> QED
    BY <2>2, <2>3
<1> QED
  BY <1>4 DEF Max
=============================================================================
