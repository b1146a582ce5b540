---------------------------- MODULE GeneratorProofs ----------------------------
(* Proofs about the generator, for every MIB tree and every generator.yml: the *)
(* order of OIDs as text and minimizeOids, the modules that are made, and the  *)
(* rows the exporter decodes with their indexes.                               *)
EXTENDS DeploymentProofs

-----------------------------------------------------------------------------
(* The order of texts                                                         *)

Decimals == Seq(0..9) \ {<<>>}
\* text is the recursive function of Digits, up to n.
Spells(text, n) == text = [k \in 0..n |-> IF k < 10 THEN <<k>> ELSE Append(text[k \div 10], k % 10)]

\* The recursive function of Digits exists.
LEMMA SpellingExists == ASSUME NEW n \in Nat PROVE \E text : Spells(text, n)
<1> DEFINE P == {m \in 0..n : \E text : Spells(text, m)}
<1>1. 0 \in P
  <2>1. Spells([k \in 0..0 |-> <<k>>], 0)
    BY DEF Spells
  <2> QED
    BY <2>1
<1>2. ASSUME NEW m \in 1..n, m - 1 \in P PROVE m \in P
  <2>1. PICK text : Spells(text, m - 1)
    BY <1>2
  <2> DEFINE Spelled(t, k) == IF k < 10 THEN <<k>> ELSE Append(t[k \div 10], k % 10)
             longer == [k \in 0..m |-> IF k = m THEN Spelled(text, m) ELSE text[k]]
  <2>2. \A k \in 0..(m - 1) : text[k] = Spelled(text, k)
    BY <2>1 DEF Spells
  <2>3. \A k \in 0..m : k \in 0..(m - 1) \/ k = m
    OBVIOUS
  <2>4. \A k \in 0..m : k >= 10 => k \div 10 \in 0..m /\ k \div 10 # m
    OBVIOUS
  <2>5. ASSUME NEW k \in 0..m PROVE Spelled(longer, k) = Spelled(text, k)
    <3>1. CASE k < 10
      BY <3>1
    <3>2. CASE ~(k < 10)
      <4>1. longer[k \div 10] = text[k \div 10]
        BY <3>2, <2>4
      <4> QED
        BY <3>2, <4>1
    <3> QED
      BY <3>1, <3>2
  <2>6. \A k \in 0..m : longer[k] = Spelled(text, k)
    BY <2>2, <2>3
  <2>7. longer = [k \in 0..m |-> longer[k]]
    OBVIOUS
  <2>8. \A k \in 0..m : longer[k] = Spelled(longer, k)
    BY <2>5, <2>6
  <2>9. longer = [k \in 0..m |-> Spelled(longer, k)]
    <3> HIDE DEF longer, Spelled
    <3> QED
      BY <2>7, <2>8
  <2>10. Spells(longer, m)
    BY <2>9 DEF Spells
  <2> QED
    BY <2>10
<1>3. \A k \in 0..n : k \in P
  <2> HIDE DEF P
  <2> QED
    BY <1>1, <1>2, InductionTo
<1> QED
  BY <1>3

\* Digits are spelled in decimals.
LEMMA SpellingType ==
  ASSUME NEW n \in Nat, NEW text, Spells(text, n)
  PROVE  \A k \in 0..n : text[k] \in Decimals
<1> DEFINE T == {k \in 0..n : text[k] \notin Decimals}
<1> SUFFICES ASSUME T # {} PROVE FALSE
  OBVIOUS
<1>1. PICK k \in T : \A m \in T : k <= m
  <2>1. T \subseteq Nat
    OBVIOUS
  <2> HIDE DEF T
  <2> QED
    BY <2>1, Least
<1>2. text[k] = IF k < 10 THEN <<k>> ELSE Append(text[k \div 10], k % 10)
  BY DEF Spells
<1>3. CASE k < 10
  <2>1. k \in 0..9 /\ text[k] = <<k>>
    BY <1>2, <1>3
  <2>2. <<k>> \in Seq(0..9) /\ <<k>> # <<>>
    BY <2>1
  <2> QED
    BY <2>1, <2>2 DEF Decimals
<1>4. CASE ~(k < 10)
  <2>1. k \div 10 \in 0..n /\ k \div 10 < k /\ k % 10 \in 0..9
    BY <1>4
  <2>2. text[k \div 10] \in Decimals
    BY <1>1, <2>1
  <2> DEFINE q == text[k \div 10]
             d == k % 10
  <2>3. Append(q, d) \in Decimals
    <3>1. q \in Seq(0..9) /\ d \in 0..9
      BY <2>1, <2>2 DEF Decimals
    <3> HIDE DEF q, d
    <3> QED
      BY <3>1 DEF Decimals
  <2> QED
    BY <1>2, <1>4, <2>3
<1> QED
  BY <1>3, <1>4

\* Different numbers have different digits.
LEMMA SpellingsDiffer ==
  ASSUME NEW n \in Nat, NEW s, Spells(s, n), NEW m \in Nat, NEW t, Spells(t, m)
  PROVE  \A k \in 0..n, j \in 0..m : s[k] = t[j] => k = j
<1> DEFINE T == {k \in 0..n : \E j \in 0..m : s[k] = t[j] /\ k # j}
<1> SUFFICES ASSUME T # {} PROVE FALSE
  OBVIOUS
<1>1. PICK k \in T : \A i \in T : k <= i
  <2>1. T \subseteq Nat
    OBVIOUS
  <2> HIDE DEF T
  <2> QED
    BY <2>1, Least
<1>2. PICK j \in 0..m : s[k] = t[j] /\ k # j
  OBVIOUS
<1>3. /\ s[k] = IF k < 10 THEN <<k>> ELSE Append(s[k \div 10], k % 10)
      /\ t[j] = IF j < 10 THEN <<j>> ELSE Append(t[j \div 10], j % 10)
  BY DEF Spells
<1>4. (\A i \in 0..n : s[i] \in Decimals) /\ (\A i \in 0..m : t[i] \in Decimals)
  BY SpellingType
<1>5. ASSUME NEW q \in Decimals, NEW d, NEW e PROVE Append(q, d) # <<e>>
  <2>1. Len(q) \in Nat /\ Len(q) # 0
    BY DEF Decimals
  <2>2. Len(Append(q, d)) = Len(q) + 1 /\ Len(<<e>>) = 1
    BY DEF Decimals
  <2>3. Len(q) + 1 # 1
    BY <2>1
  <2> QED
    BY <2>2, <2>3
<1>6. CASE k < 10 /\ j < 10
  <2>1. <<k>> = <<j>>
    BY <1>2, <1>3, <1>6
  <2> QED
    BY <1>2, <2>1
<1>7. CASE k < 10 /\ ~(j < 10)
  <2>1. j \div 10 \in 0..m
    BY <1>7
  <2> QED
    BY <1>2, <1>3, <1>4, <1>5, <1>7, <2>1
<1>8. CASE ~(k < 10) /\ j < 10
  <2>1. k \div 10 \in 0..n
    BY <1>8
  <2> QED
    BY <1>2, <1>3, <1>4, <1>5, <1>8, <2>1
<1>9. CASE ~(k < 10) /\ ~(j < 10)
  <2>1. k \div 10 \in 0..n /\ k \div 10 < k /\ j \div 10 \in 0..m
    BY <1>9
  <2>2. Append(s[k \div 10], k % 10) = Append(t[j \div 10], j % 10)
    BY <1>2, <1>3, <1>9
  <2>3. s[k \div 10] = t[j \div 10] /\ k % 10 = j % 10
    <3> DEFINE q == s[k \div 10]
               r == t[j \div 10]
               d == k % 10
               e == j % 10
    <3>1. q \in Seq(0..9) /\ r \in Seq(0..9) /\ Append(q, d) = Append(r, e)
      BY <1>4, <2>1, <2>2 DEF Decimals
    <3>0. d \in 0..9 /\ e \in 0..9
      BY <1>1
    <3> HIDE DEF q, r, d, e
    <3>2. q = r /\ d = e
      BY <3>0, <3>1, SMTT(30)
    <3> QED
      BY <3>2 DEF q, r, d, e
  <2>4. k \div 10 = j \div 10
    BY <1>1, <2>1, <2>3
  <2>5. k = 10 * (k \div 10) + (k % 10) /\ j = 10 * (j \div 10) + (j % 10)
    OBVIOUS
  <2> QED
    BY <1>2, <2>3, <2>4, <2>5
<1> QED
  BY <1>6, <1>7, <1>8, <1>9

Arcs == Nat \cup {Empty}
\* The text of an arc is made of digits, and tells it from every other arc.
LEMMA ArcTexts ==
  /\ \A a \in Arcs : ArcText(a) \in Seq(0..9)
  /\ \A a, b \in Arcs : ArcText(a) = ArcText(b) => a = b
<1>1. ASSUME NEW n \in Nat PROVE \E text : Spells(text, n) /\ Digits(n) = text[n]
  <2> DEFINE text == CHOOSE text : Spells(text, n)
  <2>1. Spells(text, n)
    <3>1. \E t : Spells(t, n)
      BY SpellingExists
    <3> QED
      BY <3>1
  <2>2. Digits(n) = text[n]
    BY DEF Digits, Spells
  <2> HIDE DEF text
  <2> QED
    BY <2>1, <2>2
<1>2. \A n \in Nat : Digits(n) \in Decimals
  <2> SUFFICES ASSUME NEW n \in Nat PROVE Digits(n) \in Decimals
    OBVIOUS
  <2>1. PICK text : Spells(text, n) /\ Digits(n) = text[n]
    BY <1>1
  <2>2. n \in 0..n
    OBVIOUS
  <2> QED
    BY <2>1, <2>2, SpellingType
<1>3. ASSUME NEW m \in Nat, NEW n \in Nat, Digits(m) = Digits(n) PROVE m = n
  <2>1. PICK s : Spells(s, m) /\ Digits(m) = s[m]
    BY <1>1
  <2>2. PICK t : Spells(t, n) /\ Digits(n) = t[n]
    BY <1>1
  <2>3. m \in 0..m /\ n \in 0..n
    OBVIOUS
  <2>4. \A k \in 0..m, j \in 0..n : s[k] = t[j] => k = j
    BY <2>1, <2>2, SpellingsDiffer
  <2> QED
    BY <1>3, <2>1, <2>2, <2>3, <2>4
<1>4. Empty \notin Nat
  BY DEF Empty
<1>5. \A a \in Arcs : ArcText(a) \in Seq(0..9)
  BY <1>2 DEF ArcText, Arcs, Decimals
<1> QED
  BY <1>2, <1>3, <1>4, <1>5 DEF ArcText, Arcs, Decimals

DigitOrder == {p \in (0..9) \X (0..9) : p[1] < p[2]}
ArcOrder == {p \in Arcs \X Arcs : ArcBefore(p[1], p[2])}

\* Digits are ordered, and with them arcs by their texts.
LEMMA DigitsInOrder ==
  /\ IsStrictOrder(DigitOrder, 0..9)
  /\ \A s, t \in Seq(0..9) : DigitsBefore(s, t) <=> Before(DigitOrder, s, t)
<1>1. \A a, b \in 0..9 : <<a, b>> \in DigitOrder <=> a < b
  BY DEF DigitOrder
<1>2. IsStrictOrder(DigitOrder, 0..9)
  BY <1>1 DEF IsStrictOrder
<1>3. ASSUME NEW s \in Seq(0..9), NEW t \in Seq(0..9)
      PROVE  DigitsBefore(s, t) <=> Before(DigitOrder, s, t)
  <2>1. ASSUME NEW k, DifferAt(s, t, k) PROVE s[k] \in 0..9 /\ t[k] \in 0..9
    BY <2>1 DEF DifferAt
  <2> QED
    BY <1>1, <2>1 DEF DigitsBefore, Before
<1> QED
  BY <1>2, <1>3

LEMMA ArcsInOrder ==
  /\ IsStrictOrder(ArcOrder, Arcs)
  /\ \A o, p \in Seq(Arcs) : TextBefore(o, p) <=> Before(ArcOrder, o, p)
<1>1. \A a, b \in Arcs : <<a, b>> \in ArcOrder <=> Before(DigitOrder, ArcText(a), ArcText(b))
  BY ArcTexts, DigitsInOrder DEF ArcOrder, ArcBefore
<1>2. \A a \in Arcs : <<a, a>> \notin ArcOrder
  BY <1>1, ArcTexts, BeforeIrreflexive
<1>3. ASSUME NEW a \in Arcs, NEW b \in Arcs, NEW c \in Arcs, <<a, b>> \in ArcOrder, <<b, c>> \in ArcOrder
      PROVE  <<a, c>> \in ArcOrder
  <2>1. ArcText(a) \in Seq(0..9) /\ ArcText(b) \in Seq(0..9) /\ ArcText(c) \in Seq(0..9)
    BY ArcTexts
  <2> QED
    BY <1>1, <1>3, <2>1, DigitsInOrder, BeforeTransitive
<1>4. ASSUME NEW a \in Arcs, NEW b \in Arcs, a # b PROVE <<a, b>> \in ArcOrder \/ <<b, a>> \in ArcOrder
  <2>1. ArcText(a) \in Seq(0..9) /\ ArcText(b) \in Seq(0..9) /\ ArcText(a) # ArcText(b)
    BY <1>4, ArcTexts
  <2> QED
    BY <1>1, <2>1, DigitsInOrder, BeforeTotal
<1>5. IsStrictOrder(ArcOrder, Arcs)
  BY <1>2, <1>3, <1>4 DEF IsStrictOrder
<1>6. ASSUME NEW o \in Seq(Arcs), NEW p \in Seq(Arcs)
      PROVE  TextBefore(o, p) <=> Before(ArcOrder, o, p)
  <2>1. ASSUME NEW k, DifferAt(o, p, k) PROVE o[k] \in Arcs /\ p[k] \in Arcs
    BY <2>1 DEF DifferAt
  <2>2. \A a, b \in Arcs : <<a, b>> \in ArcOrder <=> ArcBefore(a, b)
    BY DEF ArcOrder
  <2> QED
    BY <2>1, <2>2 DEF TextBefore, Before
<1> QED
  BY <1>5, <1>6

-----------------------------------------------------------------------------
(* Sorted lists and their subtrees                                            *)

\* In a finite set of OIDs one comes before all others.
LEMMA FirstExists ==
  ASSUME NEW oids, oids \subseteq Seq(Arcs), IsFiniteSet(oids), oids # {}
  PROVE  FirstOf(oids) \in oids /\ \A p \in oids \ {FirstOf(oids)} : TextBefore(FirstOf(oids), p)
<1> DEFINE IsFirst(o, X) == o \in X /\ \A p \in X \ {o} : TextBefore(o, p)
           HasFirst(X) == \E o \in X : IsFirst(o, X)
           L == Cardinality(oids)
           AllHave(n) == \A X \in SUBSET oids : X # {} /\ Cardinality(X) = n => HasFirst(X)
           P == {n \in 0..L : AllHave(n)}
<1>1. L \in Nat /\ \A X \in SUBSET oids : IsFiniteSet(X) /\ (Cardinality(X) = 0 => X = {})
  BY FS_CardinalityType, FS_Subset, FS_EmptySet
<1>2. 0 \in P
  <2>1. 0 \in 0..L
    BY <1>1
  <2> HIDE DEF HasFirst
  <2>2. AllHave(0)
    BY <1>1
  <2> HIDE DEF L, AllHave
  <2> QED
    BY <2>1, <2>2
<1>3. ASSUME NEW n \in 1..L, AllHave(n - 1) PROVE AllHave(n)
  <2> SUFFICES ASSUME NEW X \in SUBSET oids, X # {}, Cardinality(X) = n PROVE HasFirst(X)
    OBVIOUS
  <2> PICK x \in X : TRUE
    OBVIOUS
  <2> DEFINE Y == X \ {x}
  <2>1. Y \in SUBSET oids /\ Cardinality(Y) = n - 1
    BY <1>1, FS_RemoveElement
  <2>2. CASE Y = {}
    <3>1. IsFirst(x, X)
      BY <2>2
    <3> QED
      BY <3>1
  <2>3. CASE Y # {}
    <3>1. PICK y \in Y : IsFirst(y, Y)
      BY <1>3, <2>1, <2>3
    <3>2. x \in Seq(Arcs) /\ y \in Seq(Arcs) /\ x # y /\ X \subseteq Seq(Arcs)
      BY <2>1, <3>1
    <3>3. TextBefore(x, y) \/ TextBefore(y, x)
      BY <3>2, ArcsInOrder, BeforeTotal
    <3>4. CASE TextBefore(y, x)
      <4>1. IsFirst(y, X)
        BY <3>1, <3>4
      <4> QED
        BY <3>1, <4>1
    <3>5. CASE TextBefore(x, y)
      <4>1. ASSUME NEW p \in X, p # x, p # y PROVE TextBefore(x, p)
        <5>1. TextBefore(y, p) /\ p \in Seq(Arcs)
          BY <3>1, <3>2, <4>1
        <5> QED
          BY <3>2, <3>5, <5>1, ArcsInOrder, BeforeTransitive
      <4>2. IsFirst(x, X)
        BY <3>5, <4>1
      <4> QED
        BY <4>2
    <3> QED
      BY <3>3, <3>4, <3>5
  <2> QED
    BY <2>2, <2>3
<1>4. HasFirst(oids)
  <2> HIDE DEF HasFirst
  <2>1. AllHave(L)
    <3> HIDE DEF AllHave, L
    <3>1. \A n \in 1..L : n - 1 \in P => n \in P
      BY <1>1, <1>3
    <3> HIDE DEF P
    <3>2. \A n \in 0..L : n \in P
      BY <1>1, <1>2, <3>1, InductionTo
    <3>3. L \in P
      BY <1>1, <3>2
    <3> QED
      BY <3>3 DEF P
  <2> QED
    BY <2>1
<1> QED
  BY <1>4 DEF FirstOf

InTextOrder(q) == \A i, j \in DOMAIN q : i < j => TextBefore(q[i], q[j])
SortedSoFar(oids, q) ==
  /\ q \in Seq(oids) /\ Cardinality(ToSet(q)) = Len(q) /\ InTextOrder(q)
  /\ \A i \in DOMAIN q : \A p \in oids \ ToSet(q) : TextBefore(q[i], p)

\* Sorting takes the first of what is left.
LEMMA AddNextFacts ==
  ASSUME NEW oids, oids \subseteq Seq(Arcs), IsFiniteSet(oids),
         NEW q, SortedSoFar(oids, q), Len(q) < Cardinality(oids)
  PROVE  SortedSoFar(oids, AddNext(oids, q)) /\ Len(AddNext(oids, q)) = Len(q) + 1
<1> DEFINE rest == oids \ ToSet(q)
           o == FirstOf(rest)
           r == Append(q, o)
<1>1. q \in Seq(oids) /\ Len(q) \in Nat /\ DOMAIN q = 1..Len(q) /\ ToSet(q) \subseteq oids
  BY DEF SortedSoFar, ToSet
<1>2. rest # {} /\ rest \subseteq Seq(Arcs) /\ IsFiniteSet(rest) /\ IsFiniteSet(ToSet(q))
  <2>1. Cardinality(ToSet(q)) # Cardinality(oids)
    <3>1. Cardinality(ToSet(q)) = Len(q) /\ Cardinality(oids) \in Nat
      BY FS_CardinalityType DEF SortedSoFar
    <3> QED
      BY <3>1, <1>1
  <2>2. IsFiniteSet(ToSet(q)) /\ IsFiniteSet(rest)
    BY <1>1, FS_Subset, FS_Difference
  <2>3. rest # {}
    <3> SUFFICES ASSUME rest = {} PROVE FALSE
      OBVIOUS
    <3>1. ToSet(q) = oids
      BY <1>1
    <3> QED
      BY <2>1, <3>1
  <2>4. rest \subseteq oids
    OBVIOUS
  <2> HIDE DEF rest
  <2> QED
    BY <2>2, <2>3, <2>4
<1>3. o \in rest /\ \A p \in rest \ {o} : TextBefore(o, p)
  <2> HIDE DEF rest
  <2> QED
    BY <1>2, FirstExists
<1>4. AddNext(oids, q) = r
  BY DEF AddNext
<1> HIDE DEF rest, o
<1>5. o \in oids /\ o \notin ToSet(q)
  BY <1>3 DEF rest
<1>6. /\ r \in Seq(oids) /\ Len(r) = Len(q) + 1 /\ DOMAIN r = 1..(Len(q) + 1)
      /\ \A i \in 1..Len(q) : r[i] = q[i]
      /\ r[Len(q) + 1] = o
  BY <1>1, <1>5
<1>7. ToSet(r) = ToSet(q) \cup {o}
  BY <1>1, <1>5, ToSetAppend
<1>8. Cardinality(ToSet(r)) = Len(r)
  <2>1. Cardinality(ToSet(q)) = Len(q)
    BY DEF SortedSoFar
  <2> QED
    BY <1>2, <1>5, <1>6, <1>7, <2>1, FS_AddElement
<1>9. \A i \in 1..Len(q) : \A p \in rest : TextBefore(q[i], p)
  BY <1>1 DEF SortedSoFar, rest
<1> HIDE DEF r
<1>10. InTextOrder(r)
  <2> SUFFICES ASSUME NEW i \in 1..(Len(q) + 1), NEW j \in 1..(Len(q) + 1), i < j
               PROVE  TextBefore(r[i], r[j])
    BY <1>6 DEF InTextOrder
  <2>1. i \in 1..Len(q)
    BY <1>1
  <2>2. CASE j \in 1..Len(q)
    BY <1>1, <1>6, <2>1, <2>2 DEF SortedSoFar, InTextOrder
  <2>3. CASE j = Len(q) + 1
    BY <1>3, <1>6, <1>9, <2>1, <2>3
  <2> QED
    BY <2>2, <2>3, <1>1
<1>11. \A i \in DOMAIN r : \A p \in oids \ ToSet(r) : TextBefore(r[i], p)
  <2> SUFFICES ASSUME NEW i \in 1..(Len(q) + 1), NEW p \in rest \ {o} PROVE TextBefore(r[i], p)
    BY <1>6, <1>7 DEF rest
  <2>1. CASE i \in 1..Len(q)
    BY <1>6, <1>9, <2>1
  <2>2. CASE i = Len(q) + 1
    BY <1>3, <1>6, <2>2
  <2> QED
    BY <2>1, <2>2, <1>1
<1> QED
  BY <1>4, <1>6, <1>8, <1>10, <1>11 DEF SortedSoFar

\* sort.Strings puts the OIDs in order, each once.
LEMMA SortedFacts ==
  ASSUME NEW oids, oids \subseteq Seq(Arcs), IsFiniteSet(oids)
  PROVE  Sorted(oids) \in Seq(oids) /\ ToSet(Sorted(oids)) = oids /\ InTextOrder(Sorted(oids))
<1> DEFINE L == Cardinality(oids)
           X == Seq(oids)
           Step(q) == IF AddNext(oids, q) \in X THEN AddNext(oids, q) ELSE q
           step == [q \in X |-> Step(q)]
           G == [k \in 1..L |-> step]
<1>1. L \in Nat
  BY FS_CardinalityType
<1>2. <<>> \in X /\ \A q \in X : Step(q) \in X
  OBVIOUS
<1>3. IsStepFor(G, X, L) /\ \A k \in 1..L, q \in X : G[k][q] = Step(q)
  <2> HIDE DEF Step, L, X
  <2>1. step \in [X -> X] /\ \A q \in X : step[q] = Step(q)
    BY <1>2
  <2> HIDE DEF step
  <2> QED
    BY <2>1 DEF IsStepFor
<1>4. PICK f : f \in [0..L -> X] /\ f[0] = <<>> /\ \A k \in 1..L : f[k] = Step(f[k - 1])
  <2> HIDE DEF G, L, X, Step, step
  <2>2. PICK f : Iterates(f, <<>>, G, X, L)
    BY <1>1, <1>2, <1>3, RecursionTo
  <2>3. \A k \in 1..L : f[k - 1] \in X
    BY <1>1, <2>2 DEF Iterates
  <2>4. \A k \in 1..L : G[k][f[k - 1]] = Step(f[k - 1])
    BY <1>3, <2>3
  <2> QED
    BY <2>2, <2>4, ZenonT(30) DEF Iterates
<1> DEFINE P == {k \in 0..L : SortedSoFar(oids, f[k]) /\ Len(f[k]) = k}
<1>5. 0 \in P
  <2>1. SortedSoFar(oids, <<>>)
    <3>1. Cardinality(ToSet(<<>>)) = 0
      BY ToSetEmpty, FS_EmptySet
    <3>2. Len(<<>>) = 0 /\ DOMAIN <<>> = {} /\ <<>> \in Seq(oids)
      OBVIOUS
    <3> QED
      BY <3>1, <3>2 DEF SortedSoFar, InTextOrder
  <2> QED
    BY <1>1, <1>4, <2>1
<1>6. ASSUME NEW k \in 1..L, k - 1 \in P PROVE k \in P /\ f[k] = AddNext(oids, f[k - 1])
  <2> DEFINE q == f[k - 1]
  <2>1. SortedSoFar(oids, q) /\ Len(q) = k - 1 /\ f[k] = Step(q)
    BY <1>4, <1>6
  <2> HIDE DEF q
  <2>2. Len(q) < Cardinality(oids)
    BY <1>1, <2>1
  <2>3. SortedSoFar(oids, AddNext(oids, q)) /\ Len(AddNext(oids, q)) = k
    BY <2>1, <2>2, AddNextFacts
  <2>4. f[k] = AddNext(oids, q)
    BY <2>1, <2>3 DEF SortedSoFar
  <2> QED
    BY <2>3, <2>4 DEF q
<1>7. \A k \in 0..L : k \in P
  <2> HIDE DEF P, L
  <2> QED
    BY <1>1, <1>5, <1>6, InductionTo
<1> DEFINE Sorts(g) == g = [k \in 0..L |-> IF k = 0 THEN <<>> ELSE AddNext(oids, g[k - 1])]
           sorted == CHOOSE g : Sorts(g)
<1>8. Sorted(oids) = sorted[L]
  BY DEF Sorted
<1>9. Sorts(f)
  <2> HIDE DEF L, X, P
  <2>1. \A k \in 0..L : k # 0 => k \in 1..L /\ k - 1 \in 0..L
    BY <1>1
  <2> QED
    BY <1>4, <1>6, <1>7, <2>1
<1>10. Sorts(sorted)
  <2> HIDE DEF Sorts
  <2> QED
    BY <1>9
<1>11. sorted[0] = <<>> /\ \A k \in 1..L : sorted[k] = AddNext(oids, sorted[k - 1])
  <2> HIDE DEF sorted, L
  <2>1. 0 \in 0..L /\ \A k \in 1..L : k \in 0..L /\ k # 0
    BY <1>1
  <2> QED
    BY <2>1, <1>10
<1> HIDE DEF sorted, Sorts
<1> DEFINE Q == {k \in 0..L : sorted[k] = f[k]}
<1>12. L \in Q
  <2> HIDE DEF L, X, P
  <2>1. 0 \in Q
    BY <1>1, <1>4, <1>11
  <2>2. ASSUME NEW k \in 1..L, k - 1 \in Q PROVE k \in Q
    <3>1. k - 1 \in P /\ k \in 0..L /\ sorted[k - 1] = f[k - 1]
      BY <1>1, <1>7, <2>2
    <3> QED
      BY <1>6, <1>11, <3>1
  <2> HIDE DEF Q
  <2>3. \A k \in 0..L : k \in Q
    BY <1>1, <2>1, <2>2, InductionTo
  <2> QED
    BY <1>1, <2>3
<1>13. SortedSoFar(oids, Sorted(oids)) /\ Len(Sorted(oids)) = L
  BY <1>1, <1>7, <1>8, <1>12
<1>14. ToSet(Sorted(oids)) = oids
  <2>1. ToSet(Sorted(oids)) \subseteq oids /\ Cardinality(ToSet(Sorted(oids))) = Cardinality(oids)
    BY <1>13 DEF SortedSoFar, ToSet
  <2> QED
    BY <2>1, FS_Subset
<1> QED
  BY <1>13, <1>14 DEF SortedSoFar

\* The subtrees kept of the first OIDs of a sorted list.
Apart(S) == \A a, b \in S : IsPrefix(a, b) => a = b
Covered(S, q) == \A o \in S : \E a \in ToSet(q) : IsPrefix(a, o)
LastIsLast(q) == q # <<>> /\ \A a \in ToSet(q) : a = Last(q) \/ TextBefore(a, Last(q))
MinimizedSoFar(S, q) ==
  q \in Seq(S) /\ Covered(S, q) /\ Apart(ToSet(q)) /\ (S # {} => LastIsLast(q))

LEMMA PrefixOfItself == ASSUME NEW S, NEW o \in Seq(S) PROVE IsPrefix(o, o)
BY DEF IsPrefix

\* In text order a subtree is kept unless the last one kept covers it.
LEMMA AddSubtreeFacts ==
  ASSUME NEW S, S \subseteq Seq(Arcs), NEW q, MinimizedSoFar(S, q),
         NEW o \in Seq(Arcs), \A p \in S : TextBefore(p, o)
  PROVE  MinimizedSoFar(S \cup {o}, AddSubtree(q, o))
<1> DEFINE r == Append(q, o)
           T == S \cup {o}
<1>1. q \in Seq(S) /\ q \in Seq(T) /\ ToSet(q) \subseteq S
  <2>1. q \in Seq(S)
    BY DEF MinimizedSoFar
  <2>2. q \in Seq(T)
    BY <2>1, SeqOfSubset
  <2> QED
    BY <2>1, <2>2 DEF ToSet
<1>2. q # <<>> => Last(q) \in ToSet(q) /\ S # {}
  BY <1>1 DEF Last, ToSet
<1>3. CASE q # <<>> /\ IsPrefix(Last(q), o)
  <2>1. Covered(T, q)
    BY <1>2, <1>3 DEF MinimizedSoFar, Covered
  <2>2. AddSubtree(q, o) = q
    BY <1>3 DEF AddSubtree
  <2> QED
    BY <1>1, <1>2, <1>3, <2>1, <2>2 DEF MinimizedSoFar
<1>4. CASE ~(q # <<>> /\ IsPrefix(Last(q), o))
  <2>1. AddSubtree(q, o) = r
    BY <1>4 DEF AddSubtree
  <2>2. r \in Seq(T) /\ r # <<>> /\ Last(r) = o
    <3>1. r \in Seq(T) /\ Len(r) = Len(q) + 1 /\ Len(q) \in Nat /\ r[Len(q) + 1] = o
      BY <1>1
    <3> HIDE DEF r, T
    <3>2. r[Len(r)] = o /\ Len(r) # 0
      BY <3>1
    <3> QED
      BY <3>1, <3>2 DEF Last
  <2>3. ToSet(r) = ToSet(q) \cup {o}
    BY <1>1, ToSetAppend
  <2> HIDE DEF r
  <2>4. Covered(T, r)
    BY <2>3, PrefixOfItself DEF MinimizedSoFar, Covered
  <2>5. ASSUME NEW a \in ToSet(q) PROVE ~IsPrefix(a, o) /\ ~IsPrefix(o, a)
    <3>1. q # <<>>
      BY ToSetEmpty
    <3>2. /\ a \in Seq(Arcs) /\ Last(q) \in Seq(Arcs) /\ Last(q) \in S /\ Last(q) \in ToSet(q)
          /\ TextBefore(a, o) /\ TextBefore(Last(q), o) /\ ~IsPrefix(Last(q), o)
      BY <1>1, <1>2, <1>4, <3>1
    <3>3. Before(ArcOrder, a, o) /\ Before(ArcOrder, Last(q), o) /\ IsStrictOrder(ArcOrder, Arcs)
      BY <3>2, ArcsInOrder
    <3>4. ~IsPrefix(a, o)
      <4> SUFFICES ASSUME IsPrefix(a, o) PROVE FALSE
        OBVIOUS
      <4>1. a # Last(q)
        BY <3>2
      <4>2. TextBefore(a, Last(q))
        BY <1>2, <3>1, <4>1 DEF MinimizedSoFar, LastIsLast
      <4>3. Before(ArcOrder, a, Last(q))
        BY <3>2, <4>2, ArcsInOrder
      <4>4. IsPrefix(a, Last(q))
        BY <3>2, <3>3, <4>3, BetweenBegins
      <4> QED
        BY <3>2, <4>1, <4>4 DEF MinimizedSoFar, Apart
    <3>5. ~IsPrefix(o, a)
      <4> SUFFICES ASSUME IsPrefix(o, a) PROVE FALSE
        OBVIOUS
      <4>1. o # a
        BY <3>2, <3>3, BeforeIrreflexive
      <4>2. Before(ArcOrder, o, a)
        BY <3>2, <3>3, <4>1, PrefixFirst
      <4>3. Before(ArcOrder, o, o)
        BY <3>2, <3>3, <4>2, BeforeTransitive
      <4> QED
        BY <4>3, BeforeIrreflexive
    <3> QED
      BY <3>4, <3>5
  <2>6. Apart(ToSet(r))
    BY <2>3, <2>5 DEF MinimizedSoFar, Apart
  <2>7. LastIsLast(r)
    BY <1>1, <2>2, <2>3 DEF LastIsLast
  <2> QED
    BY <2>1, <2>2, <2>4, <2>6, <2>7 DEF MinimizedSoFar
<1> QED
  BY <1>3, <1>4

\* What minimizeOids keeps is what it was given, as far as no other covers it.
Minimized(oids, q) ==
  /\ q \in Seq(oids)
  /\ \A o \in oids : \E a \in ToSet(q) : IsPrefix(a, o)
  /\ Apart(ToSet(q))

\* What minimizeOids returns was given to it, covers all that was given, and no part of
\* it covers another.
LEMMA MinimizeFacts ==
  ASSUME NEW oids, oids \subseteq Seq(Arcs), IsFiniteSet(oids)
  PROVE  Minimized(oids, minimizeOids(oids))
<1> DEFINE s == Sorted(oids)
           L == Len(s)
           X == Seq(oids)
           Step(q, k) == AddSubtree(q, s[k])
           G == [k \in 1..L |-> [q \in X |-> Step(q, k)]]
<1>1. s \in Seq(oids) /\ ToSet(s) = oids /\ InTextOrder(s)
  BY SortedFacts
<1>2. L \in Nat /\ DOMAIN s = 1..L /\ \A k \in 1..L : s[k] \in oids
  BY <1>1
<1> HIDE DEF s
<1>3. <<>> \in X /\ \A k \in 1..L, q \in X : Step(q, k) \in X
  BY <1>2 DEF AddSubtree
<1>4. IsStepFor(G, X, L) /\ \A k \in 1..L, q \in X : G[k][q] = Step(q, k)
  <2> HIDE DEF Step, L, X
  <2> QED
    BY <1>3 DEF IsStepFor
<1>5. PICK f : f \in [0..L -> X] /\ f[0] = <<>> /\ \A k \in 1..L : f[k] = Step(f[k - 1], k)
  <2> HIDE DEF G, L, X, Step
  <2>2. PICK f : Iterates(f, <<>>, G, X, L)
    BY <1>2, <1>3, <1>4, RecursionTo
  <2>3. \A k \in 1..L : f[k - 1] \in X
    BY <1>2, <2>2 DEF Iterates
  <2> QED
    BY <1>4, <2>2, <2>3, ZenonT(30) DEF Iterates
<1> DEFINE Keeps(g) == g = [k \in 0..L |-> IF k = 0 THEN <<>> ELSE AddSubtree(g[k - 1], s[k])]
           kept == CHOOSE g : Keeps(g)
<1>6. minimizeOids(oids) = kept[L]
  BY DEF minimizeOids, s
<1>7. Keeps(f)
  <2> HIDE DEF L, X
  <2>1. \A k \in 0..L : k # 0 => k \in 1..L
    BY <1>2
  <2> QED
    BY <1>5, <2>1
<1>8. Keeps(kept)
  <2> HIDE DEF Keeps
  <2> QED
    BY <1>7
<1>9. kept[0] = <<>> /\ \A k \in 1..L : kept[k] = AddSubtree(kept[k - 1], s[k])
  <2> HIDE DEF kept, L
  <2>1. 0 \in 0..L /\ \A k \in 1..L : k \in 0..L /\ k # 0
    BY <1>2
  <2> QED
    BY <2>1, <1>8
<1> HIDE DEF kept, Keeps
<1> DEFINE Upto(k) == {s[i] : i \in 1..k}
           P == {k \in 0..L : MinimizedSoFar(Upto(k), kept[k])}
<1>10. 0 \in P
  <2>1. Upto(0) = {}
    OBVIOUS
  <2>2. MinimizedSoFar({}, <<>>)
    BY ToSetEmpty DEF MinimizedSoFar, Covered, Apart
  <2>3. 0 \in 0..L /\ kept[0] = <<>>
    BY <1>2, <1>9
  <2> HIDE DEF Upto, L
  <2> QED
    BY <2>1, <2>2, <2>3
<1>11. ASSUME NEW k \in 1..L, k - 1 \in P PROVE k \in P
  <2>1. MinimizedSoFar(Upto(k - 1), kept[k - 1]) /\ kept[k] = AddSubtree(kept[k - 1], s[k])
    BY <1>9, <1>11
  <2>2. Upto(k) = Upto(k - 1) \cup {s[k]}
    OBVIOUS
  <2>3. Upto(k - 1) \subseteq Seq(Arcs) /\ s[k] \in Seq(Arcs)
    BY <1>2
  <2>4. \A p \in Upto(k - 1) : TextBefore(p, s[k])
    <3> SUFFICES ASSUME NEW i \in 1..(k - 1) PROVE TextBefore(s[i], s[k])
      OBVIOUS
    <3>1. i \in DOMAIN s /\ k \in DOMAIN s /\ i < k
      BY <1>2
    <3> QED
      BY <1>1, <3>1 DEF InTextOrder
  <2> HIDE DEF Upto
  <2>5. MinimizedSoFar(Upto(k), kept[k])
    BY <2>1, <2>2, <2>3, <2>4, AddSubtreeFacts
  <2> QED
    BY <1>2, <2>5
<1>12. MinimizedSoFar(Upto(L), kept[L])
  <2> HIDE DEF Upto, L
  <2>1. 0 \in P /\ \A k \in 1..L : k - 1 \in P => k \in P
    BY <1>10, <1>11
  <2> HIDE DEF P
  <2>2. \A k \in 0..L : k \in P
    BY <1>2, <2>1, InductionTo
  <2>3. L \in P
    BY <1>2, <2>2
  <2> QED
    BY <2>3 DEF P
<1>13. Upto(L) = oids
  BY <1>1, <1>2 DEF ToSet
<1> HIDE DEF Upto
<1>14. MinimizedSoFar(oids, minimizeOids(oids))
  BY <1>6, <1>12, <1>13
<1> QED
  BY <1>14 DEF MinimizedSoFar, Minimized, Covered

-----------------------------------------------------------------------------
(* Finite sets                                                                *)

\* What is made of finite sets is finite.
LEMMA FiniteImage ==
  ASSUME NEW S, IsFiniteSet(S), NEW f
  PROVE  IsFiniteSet({f[x] : x \in S})
<1> DEFINE T == {f[x] : x \in S}
           g == [x \in S |-> f[x]]
<1>1. g \in Surjection(S, T)
  BY DEF Surjection
<1> HIDE DEF g, T
<1>2. IsFiniteSet(T)
  BY <1>1, FS_Surjection
<1> QED
  BY <1>2 DEF T

LEMMA FiniteUnion ==
  ASSUME NEW S, IsFiniteSet(S), \A x \in S : IsFiniteSet(x)
  PROVE  IsFiniteSet(UNION S)
<1> DEFINE L == Cardinality(S)
           P == {n \in 0..L : \A X \in SUBSET S : Cardinality(X) = n => IsFiniteSet(UNION X)}
<1>1. L \in Nat /\ \A X \in SUBSET S : IsFiniteSet(X) /\ Cardinality(X) \in Nat /\ (Cardinality(X) = 0 => X = {})
  BY FS_CardinalityType, FS_Subset, FS_EmptySet
<1>2. 0 \in P
  <2>1. IsFiniteSet(UNION {})
    BY FS_EmptySet
  <2>2. \A X \in SUBSET S : Cardinality(X) = 0 => IsFiniteSet(UNION X)
    BY <1>1, <2>1
  <2> HIDE DEF L
  <2> QED
    BY <1>1, <2>2
<1>3. ASSUME NEW n \in 1..L, n - 1 \in P PROVE n \in P
  <2> SUFFICES ASSUME NEW X \in SUBSET S, Cardinality(X) = n PROVE IsFiniteSet(UNION X)
    BY <1>3
  <2>1. X # {}
    BY FS_EmptySet
  <2> PICK x \in X : TRUE
    BY <2>1
  <2> DEFINE Y == X \ {x}
  <2>2. Y \in SUBSET S /\ Cardinality(Y) = n - 1
    BY <1>1, FS_RemoveElement
  <2>3. IsFiniteSet(UNION Y)
    <3>1. \A Z \in SUBSET S : Cardinality(Z) = n - 1 => IsFiniteSet(UNION Z)
      BY <1>3
    <3> HIDE DEF Y
    <3> QED
      BY <2>2, <3>1
  <2>5. IsFiniteSet(x)
    OBVIOUS
  <2>4. UNION X = (UNION Y) \cup x
    OBVIOUS
  <2> HIDE DEF Y
  <2> QED
    <3> DEFINE U == UNION Y
    <3>1. IsFiniteSet(U) /\ U \cup x = UNION X
      BY <2>3, <2>4
    <3> HIDE DEF U
    <3>2. IsFiniteSet(U \cup x)
      BY <2>5, <3>1, FS_Union
    <3> QED
      BY <3>1, <3>2
<1>4. L \in P
  <2> HIDE DEF P, L
  <2>1. \A n \in 0..L : n \in P
    BY <1>1, <1>2, <1>3, InductionTo
  <2> QED
    BY <1>1, <2>1
<1> QED
  BY <1>4

LEMMA FiniteToSet == ASSUME NEW s, IsList(s) PROVE IsFiniteSet(ToSet(s))
<1>1. DOMAIN s = 1..Len(s) /\ Len(s) \in Nat
  BY DEF IsList
<1>2. IsFiniteSet(1..Len(s))
  BY <1>1, FS_Interval
<1>3. IsFiniteSet({s[k] : k \in 1..Len(s)})
  BY <1>2, FiniteImage
<1> QED
  BY <1>1, <1>3 DEF ToSet

-----------------------------------------------------------------------------
(* The tree of a module is the MIB's but for the types.                       *)

mib == prepareTree(scenario.tree)
IsNode(node) == {"oid", "module", "label", "type"} \subseteq DOMAIN node /\ node.oid \in Oids
IsTree(t) == IsList(t) /\ \A p \in DOMAIN t : IsNode(t[p])
SameButTypes(t, u) ==
  /\ DOMAIN t = DOMAIN u
  /\ \A p \in DOMAIN t :
       DOMAIN t[p] = DOMAIN u[p] /\ \A f \in DOMAIN t[p] \ {"type"} : t[p][f] = u[p][f]

\* prepareTree leaves the names of the nodes alone.
LEMMA PreparedTree ==
  ASSUME NEW t \in Seq(Nodes)
  PROVE  /\ IsTree(prepareTree(t)) /\ DOMAIN prepareTree(t) = DOMAIN t
         /\ \A name : Named(prepareTree(t), name) = Named(t, name)
<1> DEFINE u == prepareTree(t)
<1>1. PICK g : u = [p \in DOMAIN t |-> [t[p] EXCEPT !.type = TweakedType(t[p]), !.indexes = g[p].indexes,
                                                    !.implied = g[p].implied]]
  BY DEF prepareTree
<1>2. ASSUME NEW p \in DOMAIN t
      PROVE  IsNode(u[p]) /\ u[p].oid = t[p].oid /\ u[p].label = t[p].label /\ u[p].module = t[p].module
  <2>1. t[p] \in Nodes
    OBVIOUS
  <2>2. u[p] = [t[p] EXCEPT !.type = TweakedType(t[p]), !.indexes = g[p].indexes, !.implied = g[p].implied]
    BY <1>1
  <2> QED
    BY <2>1, <2>2 DEF Nodes, IsNode
<1>3. DOMAIN u = DOMAIN t /\ DOMAIN t = 1..Len(t) /\ Len(t) \in Nat
  <2> HIDE DEF u
  <2>1. DOMAIN u = DOMAIN t
    BY <1>1
  <2>2. DOMAIN t = 1..Len(t) /\ Len(t) \in Nat
    OBVIOUS
  <2> QED
    BY <2>1, <2>2
<1>4. IsList(u)
  <2> HIDE DEF u
  <2>1. u = [p \in 1..Len(t) |-> u[p]]
    BY <1>1, <1>3
  <2>2. Len(u) = Len(t)
    BY <1>3, <2>1
  <2> QED
    BY <1>3, <2>1, <2>2 DEF IsList
<1>5. \A name : Named(u, name) = Named(t, name)
  <2> HIDE DEF u
  <2> QED
    BY <1>2, <1>3 DEF Named, Names, OidName, Label, Qualified
<1> QED
  BY <1>2, <1>3, <1>4, <1>5 DEF IsTree

\* So do overrides of types, so a name stands for one node throughout a module.
LEMMA SameNames ==
  ASSUME NEW t, NEW u, IsTree(u), SameButTypes(t, u)
  PROVE  /\ IsFiniteSet(DOMAIN t) /\ \A p \in DOMAIN t : IsNode(t[p]) /\ t[p].oid = u[p].oid
         /\ \A name : /\ Named(t, name) = Named(u, name) /\ (Known(t, name) <=> Known(u, name))
                      /\ nameToNode(t, name) = nameToNode(u, name)
                      /\ Known(t, name) => nameToNode(t, name) \in Named(t, name)
<1>1. ASSUME NEW p \in DOMAIN t
      PROVE  IsNode(t[p]) /\ t[p].oid = u[p].oid /\ t[p].label = u[p].label /\ t[p].module = u[p].module
  <2>1. /\ DOMAIN t[p] = DOMAIN u[p] /\ \A f \in DOMAIN t[p] \ {"type"} : t[p][f] = u[p][f]
        /\ IsNode(u[p])
    BY DEF SameButTypes, IsTree
  <2> QED
    BY <2>1 DEF IsNode
<1>2. DOMAIN t = DOMAIN u /\ DOMAIN u = 1..Len(u) /\ Len(u) \in Nat
  BY DEF SameButTypes, IsTree, IsList
<1>3. IsFiniteSet(DOMAIN t)
  BY <1>2, FS_Interval
<1>4. \A name : Named(t, name) = Named(u, name)
  BY <1>1, <1>2 DEF Named, Names
<1>5. \A name : (Known(t, name) <=> Known(u, name)) /\ nameToNode(t, name) = nameToNode(u, name)
  BY <1>4 DEF Known, nameToNode
<1>6. \A name : Known(t, name) => nameToNode(t, name) \in Named(t, name)
  <2> SUFFICES ASSUME NEW name, Known(t, name) PROVE Max(Named(t, name)) \in Named(t, name)
    BY DEF nameToNode
  <2>1. Named(t, name) # {} /\ Named(t, name) \subseteq 1..Len(u)
    BY <1>2 DEF Known, Named
  <2> QED
    BY <1>2, <2>1, MaxFacts
<1> QED
  BY <1>1, <1>3, <1>4, <1>5, <1>6

-----------------------------------------------------------------------------
(* What is asked for: subtrees, and instances by Get.                         *)

Gets == {Get(oid) : oid \in Oids}
Askable == Oids \cup Gets

\* An OID is asked for as a subtree or ends in the part that makes it a Get.
LEMMA AskableFacts ==
  ASSUME NEW a \in Askable
  PROVE  /\ a \in Seq(Arcs) /\ (IsGet(a) <=> a \in Gets)
         /\ IsGet(a) => Front(a) \in Oids /\ Get(Front(a)) = a
         /\ ~IsGet(a) => a \in Oids
<1>1. CASE a \in Oids
  <2>1. a \in Seq(Nat) /\ Last(a) \in Nat
    BY <1>1 DEF Oids, Last
  <2>2. a \in Seq(Arcs)
    BY <2>1, SeqOfSubset DEF Arcs
  <2>3. ~IsGet(a)
    BY <2>1 DEF IsGet, Empty
  <2>4. \A o \in Oids : IsGet(Get(o))
    BY DEF Oids, IsGet, Get, Last
  <2> QED
    BY <1>1, <2>2, <2>3, <2>4 DEF Gets
<1>2. CASE a \in Gets
  <2>1. PICK o \in Oids : a = Get(o)
    BY <1>2 DEF Gets
  <2>2. o \in Seq(Nat)
    BY DEF Oids
  <2>3. o \in Seq(Arcs) /\ Empty \in Arcs
    BY <2>2, SeqOfSubset DEF Arcs
  <2>4. a \in Seq(Arcs)
    BY <2>1, <2>3 DEF Get
  <2>5. IsGet(a)
    BY <2>1, <2>2 DEF IsGet, Get, Last
  <2>6. Front(a) = o
    BY <2>1, <2>2 DEF Front, Get
  <2> QED
    BY <1>2, <2>1, <2>4, <2>5, <2>6
<1> QED
  BY <1>1, <1>2 DEF Askable

\* An OID and a row of it.
LEMMA OidConcat == ASSUME NEW oid \in Oids, NEW index \in Seq(Nat) PROVE oid \o index \in Oids
<1>1. oid \in Seq(Nat) /\ oid # <<>>
  BY DEF Oids
<1>2. oid \o index \in Seq(Nat) /\ Len(oid \o index) = Len(oid) + Len(index) /\ Len(oid) > 0 /\ Len(index) \in Nat
  BY <1>1
<1> QED
  BY <1>2 DEF Oids

\* A Get is no subtree.
LEMMA GetsAreGets == \A o \in Oids : IsGet(Get(o)) /\ ~IsGet(o) /\ Get(o) \in Askable
<1> SUFFICES ASSUME NEW o \in Oids PROVE IsGet(Get(o)) /\ ~IsGet(o) /\ Get(o) \in Askable
  OBVIOUS
<1>1. Get(o) \in Gets /\ Get(o) \in Askable
  BY DEF Gets, Askable
<1>2. o \in Seq(Nat) /\ Last(o) \in Nat
  BY DEF Oids, Last
<1> QED
  BY <1>1, <1>2, AskableFacts DEF IsGet, Empty

\* Rows are asked for by Gets.
LEMMA RowsFacts ==
  ASSUME NEW oid \in Oids, NEW indices, indices \subseteq Seq(Nat), IsFiniteSet(indices)
  PROVE  Rows(oid, indices) \subseteq Gets /\ IsFiniteSet(Rows(oid, indices))
<1> DEFINE f == [index \in indices |-> Get(oid \o index)]
<1>1. \A index \in indices : oid \o index \in Oids
  BY OidConcat
<1>2. Rows(oid, indices) = {f[index] : index \in indices}
  BY DEF Rows
<1> HIDE DEF f
<1>3. IsFiniteSet({f[index] : index \in indices})
  BY FiniteImage
<1> QED
  BY <1>1, <1>2, <1>3 DEF Rows, Gets

\* The name of an OID is no other name of a node.
LEMMA NamedOid ==
  ASSUME NEW t, NEW oid, NEW p \in Named(t, OidName(oid))
  PROVE  p \in DOMAIN t /\ t[p].oid = oid
<1>1. OidName(oid) \in {OidName(t[p].oid), Label(t[p].label), Qualified(t[p].module, t[p].label)}
  BY DEF Named, Names
<1>2. OidName(oid) = OidName(t[p].oid)
  BY <1>1 DEF OidName, Label, Qualified
<1> QED
  BY <1>2 DEF Named, OidName

-----------------------------------------------------------------------------
(* What generator.yml says of the module in progress.                         *)

InHand == scenario \in Scenarios /\ module \in DOMAIN input.modules /\ SameButTypes(tree, mib)
StaticList == /\ IsList(cfg.static)
              /\ \A f \in ToSet(cfg.static) :
                   /\ IsFiniteSet(ToSet(f.indices)) /\ ToSet(f.indices) \subseteq Seq(Nat)
                   /\ IsFiniteSet(Targets(f)) /\ Targets(f) \subseteq Oids

\* The tree all modules start from.
LEMMA MibIsTree == ASSUME scenario \in Scenarios
                 PROVE  IsTree(mib) /\ \A name : Named(mib, name) = Named(scenario.tree, name)
<1>1. scenario.tree \in Seq(Nodes)
  BY GeneratorAssumption
<1> QED
  BY <1>1, PreparedTree DEF mib

\* A name generator.yml gives stands for an OID.
LEMMA ResolvedName ==
  ASSUME scenario \in Scenarios, SameButTypes(tree, mib),
         NEW name, Known(tree, name) \/ (name[1] = "oid" /\ name[2] \in Oids)
  PROVE  Resolve(tree, name) \in Oids
<1>1. IsTree(mib)
  BY MibIsTree
<1>2. CASE Known(tree, name)
  <2>1. nameToNode(tree, name) \in Named(tree, name)
    BY <1>1, <1>2, SameNames
  <2>2. nameToNode(tree, name) \in DOMAIN tree
    BY <2>1 DEF Named
  <2>3. tree[nameToNode(tree, name)].oid \in Oids
    BY <1>1, <2>2, SameNames DEF IsNode
  <2> QED
    BY <1>2, <2>3 DEF Resolve
<1>3. CASE ~Known(tree, name)
  BY <1>3 DEF Resolve
<1> QED
  BY <1>2, <1>3

\* What GeneratorAssumption says of the module in progress.
LEMMA Configured ==
  ASSUME InHand
  PROVE  /\ IsList(cfg.walk) /\ IsList(cfg.lookups) /\ StaticList
         /\ \A name \in ToSet(cfg.walk) : IsName(name)
         /\ \A l \in ToSet(cfg.lookups) : IsList(l.source)
<1>1. IsModule(scenario.tree, cfg)
  BY GeneratorAssumption DEF InHand, input, cfg
<1>2. IsList(cfg.walk) /\ IsList(cfg.lookups) /\ IsList(cfg.static) /\ \A name \in ToSet(cfg.walk) : IsName(name)
  BY <1>1 DEF IsModule
<1>3. \A l \in ToSet(cfg.lookups) : l.source \in Seq(STRING)
  BY <1>1 DEF IsModule
<1>4. \A l \in ToSet(cfg.lookups) : IsList(l.source)
  BY <1>3, SeqIsList
<1>5. ASSUME NEW f \in ToSet(cfg.static)
      PROVE  /\ IsFiniteSet(ToSet(f.indices)) /\ ToSet(f.indices) \subseteq Seq(Nat)
             /\ IsFiniteSet(Targets(f)) /\ Targets(f) \subseteq Oids
  <2>1. IsList(f.targets) /\ f.indices \in Seq(Seq(Nat)) /\ \A name \in ToSet(f.targets) : IsTarget(scenario.tree, name)
    BY <1>1 DEF IsModule
  <2>2. IsFiniteSet(ToSet(f.indices))
    <3>1. IsList(f.indices)
      BY <2>1, SeqIsList
    <3> QED
      BY <3>1, FiniteToSet
  <2>3. ToSet(f.indices) \subseteq Seq(Nat)
    BY <2>1 DEF ToSet
  <2>4. \A name \in ToSet(f.targets) : Resolve(tree, name) \in Oids
    <3> SUFFICES ASSUME NEW name \in ToSet(f.targets) PROVE Resolve(tree, name) \in Oids
      OBVIOUS
    <3>1. IsTree(mib) /\ Named(mib, name) = Named(scenario.tree, name)
      BY MibIsTree DEF InHand
    <3>2. Named(tree, name) = Named(mib, name)
      BY <3>1, SameNames DEF InHand
    <3>3. Known(tree, name) <=> Known(scenario.tree, name)
      BY <3>1, <3>2 DEF Known
    <3> QED
      BY <2>1, <3>3, ResolvedName DEF InHand, IsTarget
  <2>5. IsFiniteSet(Targets(f))
    <3> DEFINE g == [name \in ToSet(f.targets) |-> Resolve(tree, name)]
    <3>1. IsFiniteSet(ToSet(f.targets))
      BY <2>1, FiniteToSet
    <3>2. Targets(f) = {g[name] : name \in ToSet(f.targets)}
      BY DEF Targets
    <3> HIDE DEF g
    <3>3. IsFiniteSet({g[name] : name \in ToSet(f.targets)})
      BY <3>1, FiniteImage
    <3> QED
      BY <3>2, <3>3
  <2> QED
    BY <2>2, <2>3, <2>4, <2>5 DEF Targets
<1> QED
  BY <1>2, <1>4, <1>5 DEF StaticList

\* The OIDs of the walk, minimized.
LEMMA WalkFacts ==
  ASSUME InHand, WalkValid
  PROVE  ToSet(toWalk) \subseteq Oids /\ IsFiniteSet(ToSet(toWalk))
<1> DEFINE f == [name \in ToSet(cfg.walk) |-> Resolve(tree, name)]
           oids == {f[name] : name \in ToSet(cfg.walk)}
<1>1. IsList(cfg.walk) /\ \A name \in ToSet(cfg.walk) : IsName(name)
  BY Configured
<1>2. \A name \in ToSet(cfg.walk) : Resolve(tree, name) \in Oids
  BY <1>1, ResolvedName DEF WalkValid, Walkable, IsName, InHand
<1>3. IsFiniteSet(ToSet(cfg.walk))
  BY <1>1, FiniteToSet
<1>4. oids \subseteq Oids /\ toWalk = minimizeOids(oids)
  BY <1>2 DEF toWalk
<1>5. IsFiniteSet(oids)
  <2> HIDE DEF f
  <2> QED
    BY <1>3, FiniteImage
<1> HIDE DEF oids
<1>6. oids \subseteq Seq(Arcs)
  BY <1>4, AskableFacts DEF Askable
<1>7. toWalk \in Seq(oids)
  BY <1>4, <1>5, <1>6, MinimizeFacts DEF Minimized
<1>8. IsFiniteSet(ToSet(toWalk))
  <2>1. IsList(toWalk)
    BY <1>7, SeqIsList
  <2> QED
    BY <2>1, FiniteToSet
<1> QED
  BY <1>4, <1>7, <1>8 DEF ToSet

-----------------------------------------------------------------------------
(* The module in progress.                                                    *)

IsMetric(x) ==
  /\ {"oid", "type", "lookups"} \subseteq DOMAIN x
  /\ x.oid \in Oids /\ IsList(x.lookups) /\ \A l \in ToSet(x.lookups) : l.oid \in Oids \cup {<<>>}
MetricsOK == IsList(metrics) /\ \A x \in ToSet(metrics) : IsMetric(x)
PlaceOK == at \in [metric : 1..(Len(metrics) + 1), lookup : Nat \ {0}] /\ IsList(drops)
InstancesOK == \A o \in DOMAIN instances : instances[o] \subseteq Seq(Nat) /\ IsFiniteSet(instances[o])
NeedOK == need \subseteq Askable /\ IsFiniteSet(need)

\* What is walked and not named in the walk is needed by a metric.
NeededBy(x, oid) == WalkedFor(x, oid) /\ InstancesOf(x.oid) = {}
NeedFrom ==
  \A oid \in need : IsGet(oid) \/ oid \in ToSet(toWalk) \/ \E x \in ToSet(metrics) : NeededBy(x, oid)

\* The object of a lookup is needed where its metric is; a metric that looks up a
\* restricted object is needed in the rows of its filter, and else only by others.
LookupNeed(x, l) ==
  /\ InstancesOf(x.oid) = {} /\ l.oid \notin Restricted /\ ~Narrowed(l.oid) => l.oid \in need
  /\ \A row \in InstancesOf(x.oid) : Get(l.oid \o row) \in need
FilterNeed(x, l) ==
  l.oid \in Restricted =>
    /\ x.oid \in need => \E y \in ToSet(metrics) : WalkedFor(y, x.oid)
    /\ \E f \in ToSet(cfg.static) : l.oid \in Targets(f) /\ Rows(x.oid, ToSet(f.indices)) \subseteq need
LookupsNeeded == \A x \in ToSet(metrics) : \A l \in Looked(x) : LookupNeed(x, l) /\ FilterNeed(x, l)

\* A metric has the type of its object, which is the MIB's or the module's own.
OfType(x, t) == x.type = metricType[t] \/ (metricType[t] \in Combined /\ x.type = "OctetString")
TypedAsOwn(x) ==
  \E p \in Named(mib, OidName(x.oid)) : \E t \in OwnTypesOf(mib, module, p) : OfType(x, t)
MetricsTyped == \A x \in ToSet(metrics) : TypedAsOwn(x)

-----------------------------------------------------------------------------
(* Metrics are only added to.                                                 *)

Grown(x, y) ==
  /\ IsMetric(y) /\ y.oid = x.oid /\ ToSet(x.lookups) \subseteq ToSet(y.lookups)
  /\ IsAddress(x) /\ HasType(x) => IsAddress(y)
MetricsGrow ==
  /\ IsList(metrics') /\ Len(metrics') = Len(metrics)
  /\ \A k \in DOMAIN metrics : Grown(metrics[k], metrics'[k])

\* Metrics that are added to are still metrics and look up what they did.
LEMMA MetricsStep ==
  ASSUME MetricsOK, MetricsGrow
  PROVE  /\ MetricsOK' /\ DOMAIN metrics' = DOMAIN metrics
         /\ \A k \in DOMAIN metrics : Looked(metrics[k]) \subseteq Looked(metrics'[k])
<1>1. DOMAIN metrics' = DOMAIN metrics
  BY SameLength DEF MetricsOK, MetricsGrow
<1>2. \A x \in ToSet(metrics') : IsMetric(x)
  BY <1>1 DEF ToSet, MetricsGrow, Grown
<1>3. \A k \in DOMAIN metrics : Looked(metrics[k]) \subseteq Looked(metrics'[k])
  BY DEF MetricsGrow, Grown, Looked
<1> QED
  BY <1>1, <1>2, <1>3 DEF MetricsOK, MetricsGrow

\* A subtree that is asked for still is, unless this step takes it away.
LEMMA WalkedStep ==
  ASSUME MetricsOK, MetricsGrow, NEW oid, NEW k \in DOMAIN metrics, WalkedFor(metrics[k], oid)
  PROVE  metrics'[k] \in ToSet(metrics') /\ metrics'[k].oid = metrics[k].oid /\ WalkedFor(metrics'[k], oid)
<1>1. metrics'[k] \in ToSet(metrics') /\ Looked(metrics[k]) \subseteq Looked(metrics'[k])
  BY MetricsStep DEF ToSet
<1>2. metrics'[k].oid = metrics[k].oid /\ (IsAddress(metrics[k]) /\ HasType(metrics[k]) => IsAddress(metrics'[k]))
  BY DEF MetricsGrow, Grown
<1>3. HasType(metrics'[k]) <=> HasType(metrics[k])
  BY <1>2 DEF HasType
<1> QED
  BY <1>1, <1>2, <1>3 DEF WalkedFor, TypeOf

\* So is one that no filter of the module reaches.
LEMMA WalkedFrame ==
  ASSUME tree' = tree
  PROVE  \A x, oid : WalkedFor(x, oid)' <=> WalkedFor(x, oid)
<1>1. \A x : HasType(x)' <=> HasType(x)
  BY DEF HasType
<1> QED
  BY <1>1 DEF WalkedFor, TypeOf

\* What was needed by a metric still is, so only what is new is to be shown.
LEMMA NeedStep ==
  ASSUME NeedFrom, MetricsOK, MetricsGrow, UNCHANGED <<scenario, module, tree, instances>>,
         \A oid \in need' : oid \in need \/ IsGet(oid) \/ \E x \in ToSet(metrics') : NeededBy(x, oid)
  PROVE  NeedFrom'
<1>1. toWalk' = toWalk
  BY DEF toWalk, cfg, input
<1>2. \A x : InstancesOf(x)' = InstancesOf(x)
  BY DEF InstancesOf
<1>3. ASSUME NEW oid, NEW x \in ToSet(metrics), NeededBy(x, oid)
      PROVE  \E y \in ToSet(metrics') : NeededBy(y, oid)
  <2>1. PICK k \in DOMAIN metrics : x = metrics[k]
    BY DEF ToSet
  <2>2. metrics'[k] \in ToSet(metrics') /\ metrics'[k].oid = x.oid /\ WalkedFor(metrics'[k], oid)
    BY <1>3, <2>1, WalkedStep DEF NeededBy
  <2>4. NeededBy(metrics'[k], oid)
    BY <1>3, <2>2 DEF NeededBy
  <2> QED
    BY <2>2, <2>4
<1>4. ASSUME NEW oid \in need'
      PROVE  IsGet(oid) \/ oid \in ToSet(toWalk) \/ \E x \in ToSet(metrics') : NeededBy(x, oid)
  <2>1. CASE oid \in need
    BY <1>3, <2>1 DEF NeedFrom
  <2>2. CASE oid \notin need
    BY <2>2
  <2> QED
    BY <2>1, <2>2
<1>5. \A x, oid : NeededBy(x, oid)' <=> NeededBy(x, oid)
  BY <1>2, WalkedFrame DEF NeededBy
<1> QED
  BY <1>1, <1>4, <1>5 DEF NeedFrom

\* Which objects filters reach depends on the module and the tree alone.
LEMMA RestrictedFrame ==
  ASSUME UNCHANGED <<scenario, module, tree>>
  PROVE  Restricted' = Restricted /\ cfg' = cfg /\ \A f : Targets(f)' = Targets(f)
<1>1. cfg' = cfg /\ \A f : Targets(f)' = Targets(f)
  BY DEF cfg, input, Targets
<1> QED
  BY <1>1 DEF Restricted

\* Rows that are needed still are, and so is what no filter takes away.
LEMMA LookupsStep ==
  ASSUME StaticList, LookupsNeeded, MetricsOK, InstancesOK, MetricsGrow, UNCHANGED <<scenario, module, tree, instances>>,
         \A oid \in need : oid \in need' \/ (~IsGet(oid) /\ (oid \in Restricted \/ Narrowed(oid)')),
         \A oid \in need' : oid \in need \/ IsGet(oid) \/ \E x \in ToSet(metrics') : NeededBy(x, oid),
         \A k \in DOMAIN metrics : \A l \in Looked(metrics'[k]) \ Looked(metrics[k]) :
           \A y : y = metrics'[k] => LookupNeed(y, l)' /\ FilterNeed(y, l)'
  PROVE  LookupsNeeded'
<1>1. Restricted' = Restricted /\ cfg' = cfg /\ \A f : Targets(f)' = Targets(f)
  BY RestrictedFrame
<1>2. \A x : InstancesOf(x)' = InstancesOf(x)
  BY DEF InstancesOf
<1>3. \A o \in Oids : IsGet(Get(o)) /\ ~IsGet(o)
  BY GetsAreGets
<1>4. \A oid : Narrowed(oid) => Narrowed(oid)'
  <2> SUFFICES ASSUME NEW oid, Narrowed(oid) PROVE Narrowed(oid)'
    OBVIOUS
  <2>1. PICK k \in DOMAIN metrics : metrics[k].oid = oid /\ \E l \in Looked(metrics[k]) : l.oid \in Restricted
    BY DEF Narrowed, ToSet
  <2>2. metrics'[k] \in ToSet(metrics') /\ Looked(metrics[k]) \subseteq Looked(metrics'[k])
    BY MetricsStep DEF ToSet
  <2>3. metrics'[k].oid = oid
    BY <2>1 DEF MetricsGrow, Grown
  <2> QED
    BY <1>1, <2>1, <2>2, <2>3 DEF Narrowed
<1>5. ASSUME NEW k \in DOMAIN metrics, NEW y, y = metrics'[k], NEW l \in Looked(y)
      PROVE  LookupNeed(y, l)' /\ FilterNeed(y, l)'
  <2> PICK x : x = metrics[k]
    OBVIOUS
  <2>1. CASE l \notin Looked(x)
    BY <1>5, <2>1
  <2>2. CASE l \in Looked(x)
    <3>1. x \in ToSet(metrics) /\ IsMetric(x) /\ y.oid = x.oid /\ x.oid \in Oids
      BY <1>5 DEF MetricsOK, ToSet, MetricsGrow, Grown, IsMetric
    <3>2. l.oid \in Oids
      BY <2>2, <3>1 DEF Looked, IsMetric
    <3>3. LookupNeed(x, l) /\ FilterNeed(x, l)
      BY <2>2, <3>1 DEF LookupsNeeded
    <3>4. LookupNeed(y, l)'
      <4>1. ASSUME InstancesOf(x.oid) = {}, l.oid \notin Restricted, ~Narrowed(l.oid)' PROVE l.oid \in need'
        BY <1>4, <3>3, <4>1 DEF LookupNeed
      <4>2. ASSUME NEW row \in InstancesOf(x.oid) PROVE Get(l.oid \o row) \in need'
        <5>1. row \in Seq(Nat)
          BY <4>2 DEF InstancesOK, InstancesOf
        <5>2. l.oid \o row \in Oids
          BY <3>2, <5>1, OidConcat
        <5> QED
          BY <1>3, <3>3, <5>2 DEF LookupNeed
      <4> QED
        BY <1>1, <1>2, <3>1, <4>1, <4>2 DEF LookupNeed
    <3>5. FilterNeed(y, l)'
      <4> SUFFICES ASSUME l.oid \in Restricted
                   PROVE  /\ x.oid \in need' => \E z \in ToSet(metrics') : WalkedFor(z, x.oid)
                          /\ \E f \in ToSet(cfg.static) :
                               l.oid \in Targets(f) /\ Rows(x.oid, ToSet(f.indices)) \subseteq need'
        BY <1>1, <3>1, WalkedFrame DEF FilterNeed
      <4>1. ASSUME x.oid \in need' PROVE \E z \in ToSet(metrics') : WalkedFor(z, x.oid)
        <5>1. CASE x.oid \in need
          <6>1. PICK i \in DOMAIN metrics : WalkedFor(metrics[i], x.oid)
            BY <3>3, <5>1 DEF FilterNeed, ToSet
          <6> QED
            BY <6>1, WalkedStep
        <5>2. CASE x.oid \notin need
          BY <1>3, <3>1, <4>1, <5>2 DEF NeededBy
        <5> QED
          BY <5>1, <5>2
      <4>2. PICK f \in ToSet(cfg.static) : l.oid \in Targets(f) /\ Rows(x.oid, ToSet(f.indices)) \subseteq need
        BY <3>3 DEF FilterNeed
      <4>3. \A a \in Rows(x.oid, ToSet(f.indices)) : IsGet(a)
        <5>1. \A row \in ToSet(f.indices) : IsGet(Get(x.oid \o row))
          BY <1>3, <3>1, OidConcat DEF StaticList
        <5> QED
          BY <5>1 DEF Rows
      <4> QED
        BY <4>1, <4>2, <4>3
    <3> QED
      BY <3>4, <3>5
  <2> QED
    BY <2>1, <2>2
<1>6. DOMAIN metrics' = DOMAIN metrics
  BY MetricsStep
<1>7. ASSUME NEW y \in ToSet(metrics'), NEW l \in Looked(y) PROVE LookupNeed(y, l)' /\ FilterNeed(y, l)'
  <2>1. PICK k \in DOMAIN metrics : y = metrics'[k]
    BY <1>6 DEF ToSet
  <2> QED
    BY <1>5, <2>1
<1> QED
  BY <1>7 DEF LookupsNeeded

LEMMA OwnTypesFrame ==
  ASSUME UNCHANGED <<scenario, module>>
  PROVE  mib' = mib /\ \A p : OwnTypesOf(mib, module, p)' = OwnTypesOf(mib, module, p)
<1>1. mib' = mib
  BY DEF mib
<1> QED
  BY <1>1 DEF OwnTypesOf, input

\* A metric that keeps its type, or becomes an octet string, is typed as before.
LEMMA TypesStep ==
  ASSUME MetricsTyped, MetricsOK, MetricsGrow, UNCHANGED <<scenario, module>>,
         \A k \in DOMAIN metrics : \A t : OfType(metrics[k], t) => OfType(metrics'[k], t)
  PROVE  MetricsTyped'
<1>1. mib' = mib /\ \A p : OwnTypesOf(mib, module, p)' = OwnTypesOf(mib, module, p)
  BY OwnTypesFrame
<1>2. \A x : TypedAsOwn(x)' <=> TypedAsOwn(x)
  BY <1>1 DEF TypedAsOwn
<1>3. ASSUME NEW y \in ToSet(metrics') PROVE TypedAsOwn(y)
  <2>1. PICK k \in DOMAIN metrics : y = metrics'[k]
    BY MetricsStep DEF ToSet
  <2>2. TypedAsOwn(metrics[k]) /\ y.oid = metrics[k].oid
    BY <2>1 DEF MetricsTyped, ToSet, MetricsGrow, Grown
  <2>3. \A t : OfType(metrics[k], t) => OfType(y, t)
    BY <2>1, <2>2
  <2> QED
    BY <2>2, <2>3 DEF TypedAsOwn
<1> QED
  BY <1>2, <1>3 DEF MetricsTyped

OutOK == MetricsOK /\ PlaceOK /\ InstancesOK /\ NeedOK
TypedBy(p, names) ==
  LET overrides == cfg.overrides
      own == {n \in names : Known(mib, n) /\ nameToNode(mib, n) = p}
  IN  IF own = {} THEN tree[p].type = mib[p].type ELSE \E n \in own : tree[p].type = overrides[n].type
TypeNames == {n \in DOMAIN cfg.overrides : cfg.overrides[n].type # ""}
TreeTyped == \A p \in DOMAIN tree : TypedBy(p, TypeNames)

\* The type of an object, when all overrides are applied, is one ModulesApart allows.
LEMMA OwnTyped ==
  ASSUME NEW p, TypedBy(p, TypeNames)
  PROVE  tree[p].type \in OwnTypesOf(mib, module, p)
<1> DEFINE own == {n \in TypeNames : Known(mib, n) /\ nameToNode(mib, n) = p}
<1>1. own = {n \in DOMAIN cfg.overrides :
               cfg.overrides[n].type # "" /\ Known(mib, n) /\ nameToNode(mib, n) = p}
  BY DEF TypeNames
<1>2. OwnTypesOf(mib, module, p) = IF own = {} THEN {mib[p].type} ELSE {cfg.overrides[n].type : n \in own}
  BY <1>1 DEF OwnTypesOf, cfg
<1>3. IF own = {} THEN tree[p].type = mib[p].type ELSE \E n \in own : tree[p].type = cfg.overrides[n].type
  BY DEF TypedBy
<1> HIDE DEF own
<1> QED
  BY <1>2, <1>3

-----------------------------------------------------------------------------
(* FindMetrics                                                                *)

\* A walked OID is below a node.
LEMMA MatchFacts ==
  ASSUME InHand, NEW oid, Match(oid).kind # "notFound"
  PROVE  Match(oid).node \in DOMAIN tree /\ tree[Match(oid).node].oid \in Oids
<1>1. IsTree(mib)
  BY MibIsTree DEF InHand
<1>2. DOMAIN tree = 1..Len(mib) /\ Len(mib) \in Nat
  BY <1>1 DEF InHand, SameButTypes, IsTree, IsList
<1> DEFINE name == OidName(oid)
           found == searchNodeTree(tree, oid)
<1>3. Match(oid).node \in DOMAIN tree
  <2>1. CASE Known(tree, name)
    <3>1. nameToNode(tree, name) \in DOMAIN tree
      BY <1>1, <2>1, SameNames DEF InHand, Named
    <3>2. Match(oid).node = nameToNode(tree, name)
      BY <2>1 DEF Match, getMetricNode
    <3> QED
      BY <3>1, <3>2
  <2>2. CASE ~Known(tree, name)
    <3>1. found # {} /\ Match(oid).node = Max(found)
      BY <2>2 DEF Match, getMetricNode
    <3>2. found \subseteq 1..Len(mib)
      BY <1>2 DEF searchNodeTree
    <3>3. Max(found) \in found
      <4> HIDE DEF found
      <4> QED
        BY <1>2, <3>1, <3>2, MaxFacts
    <3> QED
      BY <1>2, <3>1, <3>2, <3>3
  <2> QED
    BY <2>1, <2>2
<1> QED
  BY <1>1, <1>3, SameNames DEF InHand, IsNode

\* The rows the walk names.
LEMMA InstancesFound == ASSUME InHand, WalkValid, instances' = tableInstances PROVE InstancesOK'
<1> DEFINE rows == {oid \in ToSet(toWalk) : Match(oid).kind = "instance"}
           column(oid) == tree[Match(oid).node].oid
<1>1. IsFiniteSet(rows) /\ rows \subseteq Oids
  BY WalkFacts, FS_Subset
<1>2. \A oid \in rows : column(oid) \in Oids
  BY MatchFacts
<1>3. instances' = [o \in {column(oid) : oid \in rows} |-> {Suffix(oid, o) : oid \in {r \in rows : column(r) = o}}]
  BY DEF tableInstances
<1> HIDE DEF rows, column
<1>4. ASSUME NEW o \in DOMAIN instances' PROVE instances'[o] \subseteq Seq(Nat) /\ IsFiniteSet(instances'[o])
  <2> DEFINE R == {r \in rows : column(r) = o}
             f == [oid \in R |-> Suffix(oid, o)]
  <2>1. o \in Oids
    BY <1>2, <1>3, <1>4
  <2>2. R \subseteq Oids /\ IsFiniteSet(R)
    BY <1>1, FS_Subset
  <2>3. instances'[o] = {f[oid] : oid \in R}
    BY <1>3, <1>4
  <2>4. \A oid \in R : f[oid] \in Seq(Nat)
    <3> SUFFICES ASSUME NEW oid \in R PROVE SubSeq(oid, Len(o) + 1, Len(oid)) \in Seq(Nat)
      BY DEF Suffix
    <3>1. oid \in Seq(Nat) /\ o \in Seq(Nat)
      BY <2>1, <2>2 DEF Oids
    <3>2. Len(o) + 1 >= 1 /\ Len(oid) \in Nat
      BY <3>1
    <3> QED
      BY <3>1, <3>2
  <2> HIDE DEF f, R
  <2>5. IsFiniteSet({f[oid] : oid \in R})
    BY <2>2, FiniteImage
  <2> QED
    BY <2>3, <2>4, <2>5
<1> QED
  BY <1>4 DEF InstancesOK

\* An OID of the walk is asked for as it is or by a Get.
LEMMA AskFacts ==
  ASSUME NEW oid \in Oids
  PROVE  AskFor(oid) \in Askable /\ (AskFor(oid) = oid \/ IsGet(AskFor(oid)))
<1>1. AskFor(oid) \in {oid, Get(oid), Get(Append(oid, 0))}
  BY Zenon DEF AskFor
<1>2. Append(oid, 0) \in Oids
  BY DEF Oids
<1>3. {oid, Get(oid), Get(Append(oid, 0))} \subseteq Askable /\ Get(oid) \in Gets /\ Get(Append(oid, 0)) \in Gets
  BY <1>2 DEF Askable, Gets
<1> QED
  BY <1>1, <1>3, AskableFacts

\* At first what is needed is the walk.
LEMMA NeedFound ==
  ASSUME InHand, WalkValid, need' = {AskFor(oid) : oid \in ToSet(toWalk)},
         UNCHANGED <<scenario, module, tree>>
  PROVE  NeedOK' /\ NeedFrom'
<1>1. toWalk' = toWalk
  BY DEF toWalk, cfg, input
<1>2. ToSet(toWalk) \subseteq Oids /\ IsFiniteSet(ToSet(toWalk))
  BY WalkFacts
<1> DEFINE f == [oid \in ToSet(toWalk) |-> AskFor(oid)]
<1>3. need' = {f[oid] : oid \in ToSet(toWalk)}
  OBVIOUS
<1>4. IsFiniteSet(need')
  <2> HIDE DEF f
  <2> QED
    BY <1>2, <1>3, FiniteImage
<1>5. need' \subseteq Askable /\ \A oid \in need' : IsGet(oid) \/ oid \in ToSet(toWalk)
  BY <1>2, AskFacts
<1> QED
  BY <1>1, <1>4, <1>5 DEF NeedOK, NeedFrom

\* The candidates are nodes.
LEMMA CandidateFacts == ASSUME InHand, WalkValid PROVE Candidates \in Seq(DOMAIN tree)
<1> DEFINE T == DOMAIN tree
           oids == {tree[Match(oid).node].oid : oid \in ToSet(toWalk)}
           tops == Sorted(oids)
           unders == [k \in DOMAIN tops |-> Under(tree, tops[k])]
<1>1. oids \subseteq Oids /\ IsFiniteSet(oids)
  <2> DEFINE f == [oid \in ToSet(toWalk) |-> tree[Match(oid).node].oid]
  <2>1. oids = {f[oid] : oid \in ToSet(toWalk)} /\ IsFiniteSet(ToSet(toWalk))
    BY WalkFacts
  <2>2. oids \subseteq Oids
    BY MatchFacts DEF WalkValid
  <2> HIDE DEF f
  <2> QED
    BY <2>1, <2>2, FiniteImage
<1>2. tops \in Seq(oids)
  <2>1. oids \subseteq Seq(Arcs)
    BY <1>1, AskableFacts DEF Askable
  <2> HIDE DEF oids
  <2> QED
    BY <1>1, <2>1, SortedFacts
<1>3. \A o : Under(tree, o) \in Seq(T)
  <2> SUFFICES ASSUME NEW o PROVE Under(tree, o) \in Seq(T)
    OBVIOUS
  <2>1. IsTree(mib)
    BY MibIsTree DEF InHand
  <2>2. T = 1..Len(mib) /\ Len(mib) \in Nat
    BY <2>1 DEF InHand, SameButTypes, IsTree, IsList
  <2>3. [p \in T |-> p] \in Seq(T)
    <3> HIDE DEF T
    <3> QED
      BY <2>2
  <2> QED
    BY <2>3, KeepFacts DEF Under
<1>4. unders \in Seq(Seq(T))
  <2>1. DOMAIN tops = 1..Len(tops) /\ Len(tops) \in Nat
    BY <1>2
  <2> HIDE DEF tops, T
  <2> QED
    BY <1>3, <2>1
<1>5. FlattenSeq(unders) \in Seq(T)
  <2> HIDE DEF unders, T
  <2> QED
    BY <1>4, FlattenFacts
<1>6. Candidates = Keep(FlattenSeq(unders), {p \in T : Usable(tree[p]) /\ ~Ignored(tree[p])})
  BY DEF Candidates
<1> HIDE DEF unders, T
<1> QED
  BY <1>5, <1>6, KeepFacts DEF T

\* FindMetrics: the metrics are nodes, with the types of their nodes.
LEMMA MetricsFound ==
  ASSUME InHand, TreeTyped, OutOK, FindMetrics
  PROVE  OutOK' /\ NeedFrom' /\ LookupsNeeded' /\ MetricsTyped'
<1> DEFINE usable == Keep(Candidates, {p \in ToSet(Candidates) : Indexes(tree[p]).result = "metric"})
<1>1. /\ WalkValid /\ instances' = tableInstances /\ need' = {AskFor(oid) : oid \in ToSet(toWalk)}
      /\ metrics' = [k \in DOMAIN usable |-> MetricOf(tree[usable[k]])]
      /\ at' = [metric |-> 1, lookup |-> 1] /\ drops' = <<>>
      /\ UNCHANGED <<scenario, module, tree>>
  BY DEF FindMetrics
<1>2. usable \in Seq(DOMAIN tree)
  BY <1>1, CandidateFacts, KeepFacts
<1> HIDE DEF usable
<1>3. IsList(metrics') /\ DOMAIN metrics' = DOMAIN usable
  <2>1. IsList(usable)
    BY <1>2, SeqIsList
  <2> QED
    BY <1>1, <2>1, Mapped
<1>4. ASSUME NEW x \in ToSet(metrics')
      PROVE  \E p \in DOMAIN tree : x = MetricOf(tree[p])
  <2>1. PICK k \in DOMAIN usable : x = metrics'[k]
    BY <1>3 DEF ToSet
  <2>2. usable[k] \in DOMAIN tree /\ x = MetricOf(tree[usable[k]])
    BY <1>1, <1>2, <2>1
  <2> QED
    BY <2>2
<1>5. IsTree(mib)
  BY MibIsTree DEF InHand
<1>6. ASSUME NEW p \in DOMAIN tree
      PROVE  IsMetric(MetricOf(tree[p])) /\ TypedAsOwn(MetricOf(tree[p]))
  <2> DEFINE x == MetricOf(tree[p])
  <2>1. tree[p].oid \in Oids /\ tree[p].oid = mib[p].oid /\ p \in DOMAIN mib
    BY <1>5, SameNames DEF InHand, IsNode, SameButTypes
  <2>2. x.oid = tree[p].oid /\ x.type = metricType[tree[p].type] /\ x.lookups = <<>>
    BY DEF MetricOf
  <2>3. {"oid", "type", "lookups"} \subseteq DOMAIN x
    BY DEF MetricOf
  <2> HIDE DEF x
  <2>4. IsMetric(x)
    BY <2>1, <2>2, <2>3, ToSetEmpty DEF IsMetric, IsList
  <2>5. p \in Named(mib, OidName(x.oid))
    BY <2>1, <2>2 DEF Named, Names
  <2>6. tree[p].type \in OwnTypesOf(mib, module, p)
    BY OwnTyped DEF TreeTyped
  <2> QED
    BY <2>2, <2>4, <2>5, <2>6 DEF x, TypedAsOwn, OfType
<1>7. MetricsOK'
  BY <1>3, <1>4, <1>6 DEF MetricsOK
<1>8. MetricsTyped'
  <2>1. mib' = mib /\ \A p : OwnTypesOf(mib, module, p)' = OwnTypesOf(mib, module, p)
    BY <1>1, OwnTypesFrame
  <2>2. \A x : TypedAsOwn(x)' <=> TypedAsOwn(x)
    BY <2>1 DEF TypedAsOwn
  <2> QED
    BY <1>4, <1>6, <2>2 DEF MetricsTyped
<1>9. PlaceOK'
  <2>1. Len(metrics') \in Nat
    BY <1>3 DEF IsList
  <2>2. IsList(<<>>)
    BY DEF IsList
  <2> QED
    BY <1>1, <2>1, <2>2 DEF PlaceOK
<1>10. InstancesOK' /\ NeedOK' /\ NeedFrom'
  BY <1>1, InstancesFound, NeedFound
<1>11. LookupsNeeded'
  <2>1. ASSUME NEW x \in ToSet(metrics') PROVE Looked(x) = {}
    <3> PICK p \in DOMAIN tree : x = MetricOf(tree[p])
      BY <1>4, <2>1
    <3>1. x.lookups = <<>>
      BY DEF MetricOf
    <3> QED
      BY <3>1, ToSetEmpty DEF Looked
  <2> QED
    BY <2>1 DEF LookupsNeeded
<1> QED
  BY <1>7, <1>8, <1>9, <1>10, <1>11 DEF OutOK

-----------------------------------------------------------------------------
(* Lookups                                                                    *)

\* The rows of a column are sequences of arcs.
LEMMA InstancesFacts ==
  ASSUME InstancesOK, NEW o
  PROVE  InstancesOf(o) \subseteq Seq(Nat) /\ IsFiniteSet(InstancesOf(o))
BY FS_EmptySet DEF InstancesOK, InstancesOf

\* What a lookup adds is asked for by Get unless its metric is walked.
LEMMA ObjectsFacts ==
  ASSUME InstancesOK, NEW oid \in Oids
  PROVE  /\ ObjectsOf(oid) \subseteq Askable /\ IsFiniteSet(ObjectsOf(oid))
         /\ \A a \in ObjectsOf(oid) : IsGet(a) \/ (a = oid /\ InstancesOf(metric.oid) = {})
<1> DEFINE rows == InstancesOf(metric.oid)
<1>1. Rows(oid, rows) \subseteq Gets /\ IsFiniteSet(Rows(oid, rows))
  BY InstancesFacts, RowsFacts
<1>2. \A a \in Gets : a \in Askable /\ IsGet(a)
  BY AskableFacts DEF Askable
<1>3. CASE rows = {}
  <2>1. ObjectsOf(oid) = {oid}
    BY <1>3 DEF ObjectsOf
  <2> QED
    BY <1>3, <2>1, FS_Singleton DEF Askable
<1>4. CASE rows # {}
  <2>1. ObjectsOf(oid) = Rows(oid, rows)
    BY <1>4 DEF ObjectsOf
  <2> QED
    BY <1>1, <1>2, <2>1 DEF Askable
<1> QED
  BY <1>3, <1>4

\* A filter replaces an OID by rows of it.
LEMMA FilteredLikeFacts ==
  ASSUME InHand, metric.oid \in Oids, NEW asked, asked \subseteq Askable, IsFiniteSet(asked), NEW oid
  PROVE  /\ FilteredLike(asked, oid) \subseteq Askable /\ IsFiniteSet(FilteredLike(asked, oid))
         /\ \A a \in FilteredLike(asked, oid) : a \in asked \/ IsGet(a)
<1>1. CASE filterMap(oid) = {}
  BY <1>1 DEF FilteredLike
<1>2. CASE filterMap(oid) # {}
  <2> DEFINE k == Max(filterMap(oid))
             rows == Rows(metric.oid, ToSet(cfg.static[k].indices))
  <2>1. StaticList
    BY Configured
  <2>2. DOMAIN cfg.static = 1..Len(cfg.static) /\ Len(cfg.static) \in Nat
    BY <2>1 DEF StaticList, IsList
  <2>3. k \in DOMAIN cfg.static
    <3>1. filterMap(oid) \in SUBSET (1..Len(cfg.static))
      BY <2>2 DEF filterMap
    <3>2. k \in filterMap(oid)
      BY <1>2, <2>2, <3>1, MaxFacts
    <3> QED
      BY <2>2, <3>1, <3>2
  <2>4. rows \subseteq Gets /\ IsFiniteSet(rows)
    <3>1. cfg.static[k] \in ToSet(cfg.static)
      BY <2>3 DEF ToSet
    <3> QED
      BY <2>1, <3>1, RowsFacts DEF StaticList
  <2>5. FilteredLike(asked, oid) = (asked \ {metric.oid}) \cup rows
    BY <1>2 DEF FilteredLike
  <2> HIDE DEF rows
  <2>6. IsFiniteSet((asked \ {metric.oid}) \cup rows)
    <3>1. IsFiniteSet(asked \ {metric.oid})
      BY FS_Subset
    <3> QED
      BY <2>4, <3>1, FS_Union
  <2>7. \A a \in Gets : a \in Askable /\ IsGet(a)
    BY AskableFacts DEF Askable
  <2> QED
    BY <2>4, <2>5, <2>6, <2>7
<1> QED
  BY <1>1, <1>2

\* What the filter of a looked up object does to the metric.
LEMMA FilteredLikeNeed ==
  ASSUME InHand, metric.oid \in Oids, NEW asked, NEW oid
  PROVE  /\ \A a \in asked : a \in FilteredLike(asked, oid) \/ (oid \in Restricted /\ a = metric.oid)
         /\ oid \in Restricted =>
              /\ metric.oid \notin FilteredLike(asked, oid)
              /\ \E f \in ToSet(cfg.static) :
                   oid \in Targets(f) /\ Rows(metric.oid, ToSet(f.indices)) \subseteq FilteredLike(asked, oid)
<1>1. StaticList
  BY Configured
<1>2. DOMAIN cfg.static = 1..Len(cfg.static) /\ Len(cfg.static) \in Nat
  BY <1>1 DEF StaticList, IsList
<1>3. filterMap(oid) = {k \in DOMAIN cfg.static : oid \in Targets(cfg.static[k])}
  BY DEF filterMap, Targets
<1>4. CASE filterMap(oid) = {}
  <2>1. oid \notin Restricted
    BY <1>3, <1>4 DEF Restricted, ToSet
  <2> QED
    BY <1>4, <2>1 DEF FilteredLike
<1>5. CASE filterMap(oid) # {}
  <2> DEFINE k == Max(filterMap(oid))
             f == cfg.static[k]
             rows == Rows(metric.oid, ToSet(f.indices))
  <2>1. k \in filterMap(oid)
    <3>1. filterMap(oid) \in SUBSET (1..Len(cfg.static))
      BY <1>2, <1>3
    <3> QED
      BY <1>2, <1>5, <3>1, MaxFacts
  <2>2. FilteredLike(asked, oid) = (asked \ {metric.oid}) \cup rows
    BY <1>5 DEF FilteredLike
  <2> HIDE DEF k
  <2>3. f \in ToSet(cfg.static) /\ oid \in Targets(f)
    BY <1>3, <2>1 DEF ToSet
  <2>4. oid \in Restricted
    BY <2>3 DEF Restricted
  <2> HIDE DEF f
  <2>5. metric.oid \notin rows
    <3>1. \A row \in ToSet(f.indices) : Get(metric.oid \o row) # metric.oid
      BY <1>1, <2>3, OidConcat, GetsAreGets DEF StaticList
    <3> QED
      BY <3>1 DEF Rows
  <2> HIDE DEF rows
  <2>6. rows \subseteq FilteredLike(asked, oid)
    BY <2>2
  <2> QED
    BY <2>2, <2>3, <2>4, <2>5, <2>6 DEF rows
<1> QED
  BY <1>4, <1>5

\* A lookup finds a node.
LEMMA LookedUpNode ==
  ASSUME InHand, Known(tree, lookup.lookup), NEW p \in IndexNodes
  PROVE  p \in DOMAIN tree /\ tree[p].oid \in Oids
<1>1. IsTree(mib)
  BY MibIsTree DEF InHand
<1>2. nameToNode(tree, lookup.lookup) \in DOMAIN tree
  BY <1>1, SameNames DEF InHand, Named
<1>3. p \in DOMAIN tree
  BY <1>2 DEF IndexNodes, getIndexNode
<1> QED
  BY <1>1, <1>3, SameNames DEF InHand, IsNode

\* ApplyLookup: what it adds to need is the object of the lookup it adds to the metric.
LEMMA LookupApplied ==
  ASSUME InHand, OutOK, NeedFrom, LookupsNeeded, MetricsTyped, ApplyLookup
  PROVE  OutOK' /\ NeedFrom' /\ LookupsNeeded' /\ MetricsTyped'
<1>1. PICK p \in IndexNodes :
        /\ \E appended : metrics' = [metrics EXCEPT ![at.metric].lookups = Append(@, LookupOf(tree[p])),
                                                    ![at.metric].indexes = @ \o appended]
        /\ need' = FilteredLike(need \cup ObjectsOf(tree[p].oid), tree[p].oid)
  BY DEF ApplyLookup
<1> DEFINE m == at.metric
           l == LookupOf(tree[p])
           o == tree[p].oid
<1>2. PICK appended : metrics' = [metrics EXCEPT ![m].lookups = Append(@, l), ![m].indexes = @ \o appended]
  BY <1>1
<1>3. /\ Known(tree, lookup.lookup) /\ m \in DOMAIN metrics /\ at.lookup \in DOMAIN cfg.lookups
      /\ drops' = (IF lookup.drop THEN drops \o lookup.source ELSE drops)
      /\ at' = [at EXCEPT !.lookup = @ + 1]
      /\ UNCHANGED <<scenario, module, tree, instances>>
  BY DEF ApplyLookup, AtLookup, LookingUp, treeVars
<1>4. p \in DOMAIN tree /\ o \in Oids
  BY <1>3, LookedUpNode
<1>5. l.oid = o
  BY DEF LookupOf
<1>6. MetricsOK /\ PlaceOK /\ InstancesOK /\ NeedOK
  BY DEF OutOK
<1>7. metric \in ToSet(metrics) /\ IsMetric(metric)
  BY <1>3, <1>6 DEF metric, ToSet, MetricsOK
<1> HIDE DEF l
<1>8. /\ metrics' = [k \in DOMAIN metrics |-> metrics'[k]]
      /\ metrics'[m].lookups = Append(metric.lookups, l)
      /\ metrics'[m].oid = metric.oid /\ metrics'[m].type = metric.type
      /\ DOMAIN metrics'[m] = DOMAIN metric
      /\ \A k \in DOMAIN metrics : k # m => metrics'[k] = metrics[k]
  BY <1>2, <1>3, <1>7 DEF IsMetric, metric
<1>9. IsList(metrics') /\ Len(metrics') = Len(metrics)
  BY <1>6, <1>8, Mapped DEF MetricsOK
<1>10. IsList(metrics'[m].lookups) /\ ToSet(metrics'[m].lookups) = ToSet(metric.lookups) \cup {l}
  BY <1>7, <1>8, ListAppend DEF IsMetric
<1>11. IsMetric(metrics'[m])
  BY <1>4, <1>5, <1>7, <1>8, <1>10 DEF IsMetric
<1>12. MetricsGrow
  <2>1. \A k \in DOMAIN metrics : IsMetric(metrics[k])
    BY <1>6 DEF MetricsOK, ToSet
  <2>2. Grown(metric, metrics'[m])
    BY <1>8, <1>10, <1>11 DEF Grown, IsAddress
  <2>3. ASSUME NEW k \in DOMAIN metrics PROVE Grown(metrics[k], metrics'[k])
    <3>1. CASE k = m
      BY <2>2, <3>1 DEF metric
    <3>2. CASE k # m
      BY <1>8, <2>1, <3>2 DEF Grown
    <3> QED
      BY <3>1, <3>2
  <2> QED
    BY <1>9, <2>3 DEF MetricsGrow
<1>13. MetricsOK' /\ DOMAIN metrics' = DOMAIN metrics
  BY <1>6, <1>12, MetricsStep
<1> DEFINE asked == need \cup ObjectsOf(o)
<1>14. /\ asked \subseteq Askable /\ IsFiniteSet(asked)
       /\ \A a \in asked : a \in need \/ IsGet(a) \/ (a = o /\ InstancesOf(metric.oid) = {})
  <2>1. ObjectsOf(o) \subseteq Askable /\ IsFiniteSet(ObjectsOf(o))
    BY <1>4, <1>6, ObjectsFacts
  <2>2. IsFiniteSet(asked)
    BY <1>6, <2>1, FS_Union DEF NeedOK
  <2>3. \A a \in ObjectsOf(o) : IsGet(a) \/ (a = o /\ InstancesOf(metric.oid) = {})
    BY <1>4, <1>6, ObjectsFacts
  <2> QED
    BY <1>6, <2>1, <2>2, <2>3 DEF NeedOK
<1>15. /\ need' \subseteq Askable /\ IsFiniteSet(need') /\ \A a \in need' : a \in asked \/ IsGet(a)
  <2>1. metric.oid \in Oids
    BY <1>7 DEF IsMetric
  <2> HIDE DEF asked
  <2>2. need' = FilteredLike(asked, o)
    BY <1>1 DEF asked
  <2> QED
    BY <1>14, <2>1, <2>2, FilteredLikeFacts
<1>16. InstancesOf(metric.oid) = {} => NeededBy(metrics'[m], o)
  <2>1. l \in ToSet(metrics'[m].lookups) /\ l.oid # <<>>
    BY <1>4, <1>5, <1>10 DEF Oids
  <2> QED
    BY <1>5, <1>8, <2>1 DEF NeededBy, WalkedFor, Looked
<1>21. \A oid \in need' : oid \in need \/ IsGet(oid) \/ \E x \in ToSet(metrics') : NeededBy(x, oid)
  <2>1. metrics'[m] \in ToSet(metrics')
    BY <1>3, <1>13 DEF ToSet
  <2> QED
    BY <1>14, <1>15, <1>16, <2>1
<1>22. LookupsNeeded'
  <2>1. StaticList /\ metric.oid \in Oids /\ ~IsGet(metric.oid)
    BY <1>7, Configured, GetsAreGets DEF IsMetric
  <2>2. /\ \A a \in asked : a \in need' \/ (o \in Restricted /\ a = metric.oid)
        /\ o \in Restricted =>
             /\ metric.oid \notin need'
             /\ \E f \in ToSet(cfg.static) :
                  o \in Targets(f) /\ Rows(metric.oid, ToSet(f.indices)) \subseteq need'
    <3> HIDE DEF asked
    <3>1. need' = FilteredLike(asked, o)
      BY <1>1 DEF asked
    <3> QED
      BY <2>1, <3>1, FilteredLikeNeed
  <2>3. l \in Looked(metrics'[m])
    BY <1>4, <1>5, <1>10 DEF Looked, Oids
  <2>4. Restricted' = Restricted /\ cfg' = cfg /\ \A f : Targets(f)' = Targets(f)
    BY <1>3, RestrictedFrame
  <2>5. \A oid \in need : oid \in need' \/ (~IsGet(oid) /\ (oid \in Restricted \/ Narrowed(oid)'))
    <3>1. ASSUME o \in Restricted, NEW oid, oid = metric.oid PROVE Narrowed(oid)'
      <4>1. metrics'[m] \in ToSet(metrics') /\ metrics'[m].oid = oid
        BY <1>3, <1>8, <1>13, <3>1 DEF ToSet
      <4> QED
        BY <1>5, <2>3, <2>4, <3>1, <4>1 DEF Narrowed
    <3> QED
      BY <2>1, <2>2, <3>1
  <2>6. ASSUME NEW k \in DOMAIN metrics, NEW x \in Looked(metrics'[k]) \ Looked(metrics[k]), NEW y, y = metrics'[k]
        PROVE  LookupNeed(y, x)' /\ FilterNeed(y, x)'
    <3>1. k = m /\ x = l
      BY <1>8, <1>10, <2>6 DEF Looked, metric
    <3>2. y.oid = metric.oid /\ x.oid = o /\ InstancesOf(y.oid)' = InstancesOf(metric.oid)
      BY <1>3, <1>5, <1>8, <2>6, <3>1 DEF InstancesOf
    <3>3. ObjectsOf(o) \subseteq asked
      OBVIOUS
    <3>4. LookupNeed(y, x)'
      <4>1. InstancesOf(metric.oid) = {} /\ o \notin Restricted => o \in need'
        BY <2>2, <3>3 DEF ObjectsOf
      <4>2. ASSUME NEW row \in InstancesOf(metric.oid) PROVE Get(o \o row) \in need'
        <5>1. Get(o \o row) \in ObjectsOf(o)
          BY DEF ObjectsOf, Rows
        <5>2. o \o row \in Oids
          BY <1>4, <1>6, OidConcat, InstancesFacts
        <5> QED
          BY <2>1, <2>2, <5>1, <5>2, GetsAreGets
      <4> QED
        BY <2>4, <3>2, <4>1, <4>2 DEF LookupNeed
    <3>5. FilterNeed(y, x)'
      BY <2>2, <2>4, <3>2 DEF FilterNeed
    <3> QED
      BY <3>4, <3>5
  <2> QED
    BY <1>3, <1>6, <1>12, <1>21, <2>1, <2>5, <2>6, LookupsStep
<1>17. NeedFrom'
  BY <1>3, <1>6, <1>12, <1>21, NeedStep
<1>18. MetricsTyped'
  <2>1. \A k \in DOMAIN metrics : metrics'[k].type = metrics[k].type
    BY <1>8 DEF metric
  <2>2. \A k \in DOMAIN metrics : \A t : OfType(metrics[k], t) => OfType(metrics'[k], t)
    BY <2>1 DEF OfType
  <2> QED
    BY <1>3, <1>6, <1>12, <2>2, TypesStep
<1>19. PlaceOK'
  <2>1. IsList(drops')
    <3>1. lookup \in ToSet(cfg.lookups)
      BY <1>3 DEF lookup, ToSet
    <3>2. IsList(lookup.source) /\ IsList(drops)
      BY <1>6, <3>1, Configured DEF PlaceOK
    <3> QED
      BY <1>3, <3>2, ListConcat
  <2>2. at' \in [metric : 1..(Len(metrics') + 1), lookup : Nat \ {0}]
    BY <1>3, <1>6, <1>9 DEF PlaceOK
  <2> QED
    BY <2>1, <2>2 DEF PlaceOK
<1>20. InstancesOK' /\ NeedOK'
  BY <1>3, <1>6, <1>15 DEF InstancesOK, NeedOK
<1> QED
  BY <1>13, <1>17, <1>18, <1>19, <1>20, <1>22 DEF OutOK

\* DropSources: lookups without an object need nothing.
LEMMA SourcesDropped ==
  ASSUME InHand, OutOK, NeedFrom, LookupsNeeded, MetricsTyped, DropSources
  PROVE  OutOK' /\ NeedFrom' /\ LookupsNeeded' /\ MetricsTyped'
<1> DEFINE m == at.metric
           dropping == [k \in DOMAIN drops |-> Dropping(drops[k])]
<1>1. MetricsOK /\ PlaceOK /\ InstancesOK /\ NeedOK
  BY DEF OutOK
<1>2. /\ m \in DOMAIN metrics
      /\ metrics' = [metrics EXCEPT ![m].lookups = @ \o dropping]
      /\ drops' = <<>> /\ at' = [metric |-> m + 1, lookup |-> 1]
      /\ UNCHANGED <<scenario, module, tree, instances, need>>
  BY DEF DropSources, LookingUp, treeVars
<1>3. IsList(dropping) /\ \A l \in ToSet(dropping) : l.oid = <<>>
  <2>1. \A k \in DOMAIN drops : Dropping(drops[k]).oid = <<>>
    BY DEF Dropping
  <2>2. IsList(drops)
    BY <1>1 DEF PlaceOK
  <2>3. dropping = [k \in DOMAIN drops |-> dropping[k]] /\ \A k \in DOMAIN drops : dropping[k].oid = <<>>
    BY <2>1
  <2> HIDE DEF dropping
  <2>4. IsList(dropping) /\ DOMAIN dropping = DOMAIN drops
    BY <2>2, <2>3, Mapped
  <2> QED
    BY <2>3, <2>4 DEF ToSet
<1> HIDE DEF dropping
<1>4. IsMetric(metrics[m])
  BY <1>1, <1>2 DEF MetricsOK, ToSet
<1>5. /\ metrics' = [k \in DOMAIN metrics |-> metrics'[k]]
      /\ metrics'[m].lookups = metrics[m].lookups \o dropping
      /\ metrics'[m].oid = metrics[m].oid /\ metrics'[m].type = metrics[m].type
      /\ DOMAIN metrics'[m] = DOMAIN metrics[m]
      /\ \A k \in DOMAIN metrics : k # m => metrics'[k] = metrics[k]
  BY <1>2, <1>4 DEF IsMetric
<1>6. IsList(metrics') /\ Len(metrics') = Len(metrics)
  BY <1>1, <1>5, Mapped DEF MetricsOK
<1>7. IsList(metrics'[m].lookups) /\ ToSet(metrics'[m].lookups) = ToSet(metrics[m].lookups) \cup ToSet(dropping)
  BY <1>3, <1>4, <1>5, ListConcat DEF IsMetric
<1>8. MetricsGrow
  <2>1. \A k \in DOMAIN metrics : IsMetric(metrics[k])
    BY <1>1 DEF MetricsOK, ToSet
  <2>2. IsMetric(metrics'[m])
    BY <1>3, <1>4, <1>5, <1>7 DEF IsMetric
  <2>3. ASSUME NEW k \in DOMAIN metrics PROVE Grown(metrics[k], metrics'[k])
    <3>1. CASE k = m
      BY <1>5, <1>7, <2>2, <3>1 DEF Grown, IsAddress
    <3>2. CASE k # m
      BY <1>5, <2>1, <3>2 DEF Grown, IsAddress
    <3> QED
      BY <3>1, <3>2
  <2> QED
    BY <1>6, <2>3 DEF MetricsGrow
<1>9. MetricsOK'
  BY <1>1, <1>8, MetricsStep
<1>10. NeedFrom'
  BY <1>1, <1>2, <1>8, NeedStep
<1>11. MetricsTyped'
  <2>1. \A k \in DOMAIN metrics : metrics'[k].type = metrics[k].type
    BY <1>5
  <2>2. \A k \in DOMAIN metrics : \A t : OfType(metrics[k], t) => OfType(metrics'[k], t)
    BY <2>1 DEF OfType
  <2> QED
    BY <1>1, <1>2, <1>8, <2>2, TypesStep
<1>13. LookupsNeeded'
  <2>1. \A k \in DOMAIN metrics : Looked(metrics'[k]) \subseteq Looked(metrics[k])
    BY <1>3, <1>5, <1>7 DEF Looked
  <2> QED
    BY <1>1, <1>2, <1>8, <2>1, Configured, LookupsStep
<1>12. PlaceOK'
  <2>1. m \in 1..Len(metrics) /\ Len(metrics) \in Nat
    BY <1>1, <1>2 DEF MetricsOK, IsList
  <2>2. IsList(<<>>)
    BY DEF IsList
  <2> QED
    BY <1>2, <1>6, <2>1, <2>2 DEF PlaceOK
<1> QED
  BY <1>1, <1>2, <1>9, <1>10, <1>11, <1>12, <1>13 DEF OutOK, InstancesOK, NeedOK

-----------------------------------------------------------------------------
(* The rest of a module                                                       *)

\* The type object of an address is the node before it.
LEMMA PrevOidKnown ==
  ASSUME InHand, NEW x, HasType(x)
  PROVE  prevOid(x.oid) \in Oids
<1>1. IsTree(mib) /\ Known(tree, OidName(prevOid(x.oid)))
  BY MibIsTree DEF InHand, HasType
<1>2. PICK p : p \in Named(tree, OidName(prevOid(x.oid)))
  BY <1>1 DEF Known
<1>3. p \in DOMAIN tree /\ tree[p].oid = prevOid(x.oid)
  BY <1>2, NamedOid
<1> QED
  BY <1>1, <1>3, SameNames DEF InHand, IsNode

\* It is asked for by Get unless the address is walked.
LEMMA TypeObjectsFacts ==
  ASSUME InHand, InstancesOK, NEW x, HasType(x)
  PROVE  /\ TypeObjects(x) \subseteq Askable /\ IsFiniteSet(TypeObjects(x))
         /\ \A a \in TypeObjects(x) : IsGet(a) \/ (a = prevOid(x.oid) /\ InstancesOf(x.oid) = {})
<1>1. prevOid(x.oid) \in Oids
  BY PrevOidKnown
<1>2. CASE InstancesOf(x.oid) = {}
  <2>1. TypeObjects(x) = {prevOid(x.oid)}
    BY <1>2 DEF TypeObjects
  <2> QED
    BY <1>1, <1>2, <2>1, FS_Singleton DEF Askable
<1>3. CASE InstancesOf(x.oid) # {}
  <2>1. TypeObjects(x) = Rows(prevOid(x.oid), InstancesOf(x.oid))
    BY <1>3 DEF TypeObjects
  <2>2. TypeObjects(x) \subseteq Gets /\ IsFiniteSet(TypeObjects(x))
    BY <1>1, <2>1, InstancesFacts, RowsFacts
  <2>3. \A a \in Gets : a \in Askable /\ IsGet(a)
    BY AskableFacts DEF Askable
  <2> QED
    BY <2>2, <2>3
<1> QED
  BY <1>2, <1>3

\* FinishLookups: each type object is needed by its address.
LEMMA LookupsFinished ==
  ASSUME InHand, OutOK, NeedFrom, LookupsNeeded, MetricsTyped, FinishLookups
  PROVE  OutOK' /\ NeedFrom' /\ LookupsNeeded' /\ MetricsTyped'
<1> DEFINE Addressed == {x \in ToSet(metrics) : IsAddress(x) /\ HasType(x)}
           typed == UNION {TypeObjects(x) : x \in Addressed}
<1>1. MetricsOK /\ PlaceOK /\ InstancesOK /\ NeedOK
  BY DEF OutOK
<1>2. /\ metrics' =
           [k \in DOMAIN metrics |->
             [metrics[k] EXCEPT
               !.indexes = ValidLabels(@),
               !.type = IF IsAddress(metrics[k]) /\ ~HasType(metrics[k]) THEN "OctetString" ELSE @]]
      /\ need' = need \cup typed
      /\ UNCHANGED <<scenario, module, tree, instances, at, drops>>
  BY DEF FinishLookups, treeVars
<1>3. \A k \in DOMAIN metrics : IsMetric(metrics[k]) /\ metrics[k] \in ToSet(metrics)
  BY <1>1 DEF MetricsOK, ToSet
<1>4. ASSUME NEW k \in DOMAIN metrics
      PROVE  /\ DOMAIN metrics'[k] = DOMAIN metrics[k] /\ metrics'[k].oid = metrics[k].oid
             /\ metrics'[k].lookups = metrics[k].lookups
             /\ metrics'[k].type = IF IsAddress(metrics[k]) /\ ~HasType(metrics[k]) THEN "OctetString" ELSE metrics[k].type
  <2>1. PICK i : metrics'[k] = [metrics[k] EXCEPT !.indexes = i,
                   !.type = IF IsAddress(metrics[k]) /\ ~HasType(metrics[k]) THEN "OctetString" ELSE @]
    BY <1>2
  <2> QED
    BY <1>3, <2>1 DEF IsMetric
<1>5. MetricsGrow
  <2>1. metrics' = [k \in DOMAIN metrics |-> metrics'[k]]
    BY <1>2
  <2>2. IsList(metrics') /\ Len(metrics') = Len(metrics)
    BY <1>1, <2>1, Mapped DEF MetricsOK
  <2>3. \A k \in DOMAIN metrics : Grown(metrics[k], metrics'[k])
    BY <1>3, <1>4 DEF Grown, IsMetric, IsAddress
  <2> QED
    BY <2>2, <2>3 DEF MetricsGrow
<1>6. MetricsOK' /\ DOMAIN metrics' = DOMAIN metrics
  BY <1>1, <1>5, MetricsStep
<1>7. typed \subseteq Askable /\ IsFiniteSet(typed)
  <2> DEFINE f == [x \in Addressed |-> TypeObjects(x)]
             S == {f[x] : x \in Addressed}
  <2>1. typed = UNION S
    OBVIOUS
  <2>2. IsFiniteSet(Addressed)
    BY <1>1, FiniteToSet, FS_Subset DEF MetricsOK
  <2>3. \A x \in Addressed : f[x] \subseteq Askable /\ IsFiniteSet(f[x])
    BY <1>1, TypeObjectsFacts
  <2> HIDE DEF f, Addressed
  <2>4. IsFiniteSet(S)
    BY <2>2, FiniteImage
  <2>5. \A y \in S : y \subseteq Askable /\ IsFiniteSet(y)
    BY <2>3
  <2> HIDE DEF S
  <2>6. IsFiniteSet(UNION S)
    BY <2>4, <2>5, FiniteUnion
  <2> QED
    BY <2>1, <2>5, <2>6
<1>8. NeedOK'
  <2> HIDE DEF typed
  <2> QED
    BY <1>1, <1>2, <1>7, FS_Union DEF NeedOK
<1>12. \A oid \in need' : oid \in need \/ IsGet(oid) \/ \E x \in ToSet(metrics') : NeededBy(x, oid)
  <2>1. ASSUME NEW oid \in typed, ~IsGet(oid) PROVE \E y \in ToSet(metrics') : NeededBy(y, oid)
    <3>1. PICK x \in Addressed : oid \in TypeObjects(x)
      BY <2>1
    <3>2. oid = prevOid(x.oid) /\ InstancesOf(x.oid) = {}
      BY <1>1, <2>1, <3>1, TypeObjectsFacts
    <3>3. PICK k \in DOMAIN metrics : x = metrics[k]
      BY DEF ToSet
    <3>4. metrics'[k] \in ToSet(metrics') /\ metrics'[k].oid = x.oid
      BY <1>4, <1>6, <3>3 DEF ToSet
    <3>6. IsAddress(metrics'[k]) /\ HasType(metrics'[k])
      BY <1>4, <3>3, <3>4 DEF IsAddress, HasType
    <3>5. NeededBy(metrics'[k], oid)
      BY <3>2, <3>4, <3>6 DEF NeededBy, WalkedFor, TypeOf
    <3> QED
      BY <3>4, <3>5
  <2> HIDE DEF typed
  <2> QED
    BY <1>2, <2>1
<1>9. NeedFrom'
  BY <1>1, <1>2, <1>5, <1>12, NeedStep
<1>13. LookupsNeeded'
  <2>1. \A k \in DOMAIN metrics : Looked(metrics'[k]) = Looked(metrics[k])
    BY <1>4 DEF Looked
  <2>2. need \subseteq need'
    BY <1>2
  <2> QED
    BY <1>1, <1>2, <1>5, <1>12, <2>1, <2>2, Configured, LookupsStep
<1>10. MetricsTyped'
  <2>1. {"InetAddress", "InetAddressMissingSize"} \subseteq Combined
    BY DEF Combined, combinedTypeMapping
  <2>2. \A k \in DOMAIN metrics : \A t : OfType(metrics[k], t) => OfType(metrics'[k], t)
    BY <1>4, <2>1 DEF OfType, IsAddress
  <2> QED
    BY <1>1, <1>2, <1>5, <2>2, TypesStep
<1>11. PlaceOK' /\ InstancesOK'
  BY <1>1, <1>2, <1>5 DEF PlaceOK, InstancesOK, MetricsGrow
<1> QED
  BY <1>6, <1>8, <1>9, <1>10, <1>11, <1>13 DEF OutOK

\* OverrideMetrics leaves OIDs, types and lookups alone.
LEMMA MetricsOverridden ==
  ASSUME InHand, OutOK, NeedFrom, LookupsNeeded, MetricsTyped, NEW name, OverrideMetrics(name)
  PROVE  OutOK' /\ NeedFrom' /\ LookupsNeeded' /\ MetricsTyped'
<1>1. MetricsOK /\ PlaceOK /\ InstancesOK /\ NeedOK
  BY DEF OutOK
<1>2. /\ metrics' = [k \in DOMAIN metrics |->
                       IF name \in {Label(metrics[k].name), OidName(metrics[k].oid)}
                         THEN Overridden(metrics[k], cfg.overrides[name]) ELSE metrics[k]]
      /\ UNCHANGED <<scenario, module, tree, instances, at, drops, need>>
  BY DEF OverrideMetrics, treeVars
<1>3. \A k \in DOMAIN metrics : IsMetric(metrics[k])
  BY <1>1 DEF MetricsOK, ToSet
<1>4. ASSUME NEW x, NEW params, IsMetric(x)
      PROVE  /\ DOMAIN Overridden(x, params) = DOMAIN x /\ Overridden(x, params).oid = x.oid
             /\ Overridden(x, params).lookups = x.lookups /\ Overridden(x, params).type = x.type
  <2>1. PICK scale, newName, hint :
          Overridden(x, params) = [x EXCEPT !.scale = scale, !.name = newName, !.displayHint = hint]
    BY DEF Overridden
  <2> QED
    BY <1>4, <2>1 DEF IsMetric
<1>5. \A k \in DOMAIN metrics :
        /\ DOMAIN metrics'[k] = DOMAIN metrics[k] /\ metrics'[k].oid = metrics[k].oid
        /\ metrics'[k].lookups = metrics[k].lookups /\ metrics'[k].type = metrics[k].type
  BY <1>2, <1>3, <1>4
<1>6. MetricsGrow
  <2>1. metrics' = [k \in DOMAIN metrics |-> metrics'[k]]
    BY <1>2
  <2>2. IsList(metrics') /\ Len(metrics') = Len(metrics)
    BY <1>1, <2>1, Mapped DEF MetricsOK
  <2>3. \A k \in DOMAIN metrics : Grown(metrics[k], metrics'[k])
    BY <1>3, <1>5 DEF Grown, IsMetric, IsAddress
  <2> QED
    BY <2>2, <2>3 DEF MetricsGrow
<1>7. MetricsOK'
  BY <1>1, <1>6, MetricsStep
<1>8. NeedFrom'
  BY <1>1, <1>2, <1>6, NeedStep
<1>9. MetricsTyped'
  <2>1. \A k \in DOMAIN metrics : \A t : OfType(metrics[k], t) => OfType(metrics'[k], t)
    BY <1>5 DEF OfType
  <2> QED
    BY <1>1, <1>2, <1>6, <2>1, TypesStep
<1>11. LookupsNeeded'
  <2>1. \A k \in DOMAIN metrics : Looked(metrics'[k]) = Looked(metrics[k])
    BY <1>5 DEF Looked
  <2> QED
    BY <1>1, <1>2, <1>6, <2>1, Configured, LookupsStep
<1>10. PlaceOK' /\ InstancesOK' /\ NeedOK'
  BY <1>1, <1>2, <1>6 DEF PlaceOK, InstancesOK, MetricsGrow, NeedOK
<1> QED
  BY <1>7, <1>8, <1>9, <1>10, <1>11 DEF OutOK

\* The rows of each filter's targets are asked for.
FiltersApplied ==
  \A f \in ToSet(cfg.static) : \A oid \in Targets(f) : Rows(oid, ToSet(f.indices)) \subseteq need
MadeNow ==
  LET asked == minimizeOids(need)
      gets == Keep(asked, {oid \in ToSet(asked) : IsGet(oid)})
  IN  /\ Made.metrics = metrics
      /\ Made.walk = Keep(asked, {oid \in ToSet(asked) : ~IsGet(oid)})
      /\ Made.get = [k \in DOMAIN gets |-> Front(gets[k])]

\* Static filters take subtrees away and add rows.
LEMMA FilteredFacts ==
  ASSUME InHand, NeedOK
  PROVE  /\ Filtered(need) \subseteq Askable /\ IsFiniteSet(Filtered(need))
         /\ \A a \in Filtered(need) : a \in need \/ IsGet(a)
         /\ \A a \in need : a \in Filtered(need) \/ (~IsGet(a) /\ a \in Restricted)
         /\ \A f \in ToSet(cfg.static) : \A oid \in Targets(f) :
              Rows(oid, ToSet(f.indices)) \subseteq Filtered(need)
<1> DEFINE rows(f) == UNION {Rows(oid, ToSet(f.indices)) : oid \in Targets(f)}
           added == UNION {rows(f) : f \in ToSet(cfg.static)}
           taken == UNION {Targets(f) : f \in ToSet(cfg.static)}
<1>1. StaticList
  BY Configured
<1>2. ASSUME NEW f \in ToSet(cfg.static) PROVE rows(f) \subseteq Gets /\ IsFiniteSet(rows(f))
  <2> DEFINE indices == ToSet(f.indices)
             g == [oid \in Targets(f) |-> Rows(oid, indices)]
             S == {g[oid] : oid \in Targets(f)}
  <2>1. /\ IsFiniteSet(indices) /\ indices \subseteq Seq(Nat)
        /\ IsFiniteSet(Targets(f)) /\ Targets(f) \subseteq Oids
    BY <1>1 DEF StaticList
  <2>2. rows(f) = UNION S
    OBVIOUS
  <2> HIDE DEF indices
  <2>3. \A oid \in Targets(f) : g[oid] \subseteq Gets /\ IsFiniteSet(g[oid])
    BY <2>1, RowsFacts
  <2> HIDE DEF g
  <2>4. IsFiniteSet(S) /\ \A y \in S : y \subseteq Gets /\ IsFiniteSet(y)
    BY <2>1, <2>3, FiniteImage
  <2> HIDE DEF S, rows
  <2>5. IsFiniteSet(UNION S)
    BY <2>4, FiniteUnion
  <2> QED
    BY <2>2, <2>4, <2>5
<1> HIDE DEF rows
<1>3. added \subseteq Gets /\ IsFiniteSet(added)
  <2> DEFINE g == [f \in ToSet(cfg.static) |-> rows(f)]
             S == {g[f] : f \in ToSet(cfg.static)}
  <2>1. IsFiniteSet(ToSet(cfg.static))
    BY <1>1, FiniteToSet DEF StaticList
  <2>2. added = UNION S
    OBVIOUS
  <2>3. \A f \in ToSet(cfg.static) : g[f] \subseteq Gets /\ IsFiniteSet(g[f])
    BY <1>2
  <2> HIDE DEF g
  <2>4. IsFiniteSet(S) /\ \A y \in S : y \subseteq Gets /\ IsFiniteSet(y)
    BY <2>1, <2>3, FiniteImage
  <2> HIDE DEF S, added
  <2>5. IsFiniteSet(UNION S)
    BY <2>4, FiniteUnion
  <2> QED
    BY <2>2, <2>4, <2>5
<1>4. Filtered(need) = (need \ taken) \cup added
  BY DEF Filtered, rows
<1>7. taken = Restricted /\ \A a \in Restricted : ~IsGet(a)
  BY <1>1, GetsAreGets DEF Restricted, StaticList
<1>8. \A f \in ToSet(cfg.static) : \A oid \in Targets(f) : Rows(oid, ToSet(f.indices)) \subseteq added
  BY DEF rows
<1> HIDE DEF added, taken
<1>5. IsFiniteSet((need \ taken) \cup added)
  <2>1. IsFiniteSet(need \ taken)
    BY FS_Subset DEF NeedOK
  <2> QED
    BY <1>3, <2>1, FS_Union
<1>6. \A a \in Gets : a \in Askable /\ IsGet(a)
  BY AskableFacts DEF Askable
<1> QED
  BY <1>3, <1>4, <1>5, <1>6, <1>7, <1>8 DEF NeedOK

\* FinishModule: the module is made of what is needed after the filters.
LEMMA ModuleFinished ==
  ASSUME InHand, OutOK, NeedFrom, LookupsNeeded, MetricsTyped, FinishModule
  PROVE  OutOK' /\ NeedFrom' /\ LookupsNeeded' /\ MetricsTyped' /\ MadeNow' /\ FiltersApplied'
<1>1. MetricsOK /\ PlaceOK /\ InstancesOK /\ NeedOK
  BY DEF OutOK
<1>2. /\ need' = Filtered(need)
      /\ LET asked == minimizeOids(need')
             gets == Keep(asked, {oid \in ToSet(asked) : IsGet(oid)})
         IN  made' = Put(made, module,
                       [ metrics |-> metrics, filters |-> cfg.dynamic,
                         walk |-> Keep(asked, {oid \in ToSet(asked) : ~IsGet(oid)}),
                         get |-> [k \in DOMAIN gets |-> Front(gets[k])],
                         params |-> WrittenWalkParams(Over(cfg.params, ZeroWalkParams)) ])
      /\ UNCHANGED <<scenario, module, tree, metrics, instances, at, drops>>
  BY DEF FinishModule
<1>3. NeedOK' /\ \A a \in need' : a \in need \/ IsGet(a)
  BY <1>1, <1>2, FilteredFacts DEF NeedOK
<1>4. MetricsGrow
  BY <1>1, <1>2 DEF MetricsGrow, Grown, MetricsOK, ToSet
<1>9. FiltersApplied' /\ LookupsNeeded'
  <2>1. /\ \A a \in need : a \in need' \/ (~IsGet(a) /\ a \in Restricted)
        /\ \A f \in ToSet(cfg.static) : \A oid \in Targets(f) : Rows(oid, ToSet(f.indices)) \subseteq need'
    BY <1>1, <1>2, FilteredFacts
  <2>2. FiltersApplied'
    BY <1>2, <2>1, RestrictedFrame DEF FiltersApplied
  <2>3. LookupsNeeded'
    BY <1>1, <1>2, <1>3, <1>4, <2>1, Configured, LookupsStep
  <2> QED
    BY <2>2, <2>3
<1>5. NeedFrom'
  BY <1>1, <1>2, <1>3, <1>4, NeedStep
<1>6. MetricsTyped'
  BY <1>1, <1>2, <1>4, TypesStep
<1>7. MetricsOK' /\ PlaceOK' /\ InstancesOK'
  BY <1>1, <1>2 DEF MetricsOK, PlaceOK, InstancesOK
<1>8. MadeNow'
  <2> DEFINE asked == minimizeOids(need')
             gets == Keep(asked, {oid \in ToSet(asked) : IsGet(oid)})
             walk == Keep(asked, {oid \in ToSet(asked) : ~IsGet(oid)})
             get == [k \in DOMAIN gets |-> Front(gets[k])]
             params == WrittenWalkParams(Over(cfg.params, ZeroWalkParams))
             record == [metrics |-> metrics, filters |-> cfg.dynamic, walk |-> walk, get |-> get, params |-> params]
  <2>1. made' = Put(made, module, record)
    BY <1>2
  <2>2. made'[module] = record
    <3> HIDE DEF record
    <3> QED
      BY <2>1 DEF Put
  <2>3. record.metrics = metrics /\ record.walk = walk /\ record.get = get
    <3> HIDE DEF walk, get, params
    <3> QED
      OBVIOUS
  <2> HIDE DEF record
  <2> QED
    BY <1>2, <2>2, <2>3 DEF MadeNow, Made
<1> QED
  BY <1>3, <1>5, <1>6, <1>7, <1>8, <1>9 DEF OutOK

-----------------------------------------------------------------------------
(* A module that has just been made covers what is needed.                    *)

\* What the file asks for as subtrees and by Gets.
LEMMA MadeParts ==
  ASSUME NeedOK, MadeNow
  PROVE  \E q \in Seq(need) :
           /\ Minimized(need, q) /\ ToSet(q) \subseteq need
           /\ ToSet(Made.walk) = {oid \in ToSet(q) : ~IsGet(oid)}
           /\ ToSet(Made.get) = {Front(oid) : oid \in {a \in ToSet(q) : IsGet(a)}}
<1> DEFINE q == minimizeOids(need)
           gets == Keep(q, {oid \in ToSet(q) : IsGet(oid)})
<1>1. Minimized(need, q)
  BY AskableFacts, MinimizeFacts DEF NeedOK
<1> HIDE DEF q
<1>2. q \in Seq(need) /\ ToSet(q) \subseteq need
  BY <1>1 DEF Minimized, ToSet
<1>3. ToSet(Made.walk) = {oid \in ToSet(q) : ~IsGet(oid)}
  <2>1. Made.walk = Keep(q, {oid \in ToSet(q) : ~IsGet(oid)})
    BY DEF MadeNow, q
  <2>2. ToSet(Made.walk) = ToSet(q) \cap {oid \in ToSet(q) : ~IsGet(oid)}
    BY <1>2, <2>1, KeepFacts
  <2> QED
    BY <2>2
<1>4. ToSet(Made.get) = {Front(oid) : oid \in {a \in ToSet(q) : IsGet(a)}}
  <2>1. Made.get = [k \in DOMAIN gets |-> Front(gets[k])]
    BY DEF MadeNow, q
  <2>2. ToSet(gets) = {oid \in ToSet(q) : IsGet(oid)}
    <3>1. ToSet(gets) = ToSet(q) \cap {oid \in ToSet(q) : IsGet(oid)}
      BY <1>2, KeepFacts
    <3> QED
      BY <3>1
  <2> HIDE DEF gets
  <2>3. ToSet(Made.get) = {Front(oid) : oid \in ToSet(gets)}
    BY <2>1 DEF ToSet
  <2> QED
    BY <2>2, <2>3
<1> QED
  BY <1>1, <1>2, <1>3, <1>4

\* The module is the minimized need, taken apart into subtrees and Gets.
LEMMA MadeCovers ==
  ASSUME NeedOK, NeedFrom, MadeNow
  PROVE  NeedCovered
<1> DEFINE asked == ToSet(Made.walk) \cup {Get(oid) : oid \in ToSet(Made.get)}
<1>1. PICK q \in Seq(need) :
        /\ Minimized(need, q) /\ ToSet(q) \subseteq need
        /\ ToSet(Made.walk) = {oid \in ToSet(q) : ~IsGet(oid)}
        /\ ToSet(Made.get) = {Front(oid) : oid \in {a \in ToSet(q) : IsGet(a)}}
  BY MadeParts
<1>4. {Get(oid) : oid \in ToSet(Made.get)} = {oid \in ToSet(q) : IsGet(oid)}
  <2>1. \A oid \in ToSet(q) : IsGet(oid) => Get(Front(oid)) = oid
    BY <1>1, AskableFacts DEF NeedOK
  <2> QED
    BY <1>1, <2>1
<1>5. asked = ToSet(q)
  BY <1>1, <1>4
<1>6. asked \subseteq need /\ (\A oid \in need : \E a \in asked : IsPrefix(a, oid))
      /\ \A a, b \in asked : IsPrefix(a, b) => a = b
  <2> HIDE DEF asked
  <2> QED
    BY <1>1, <1>5 DEF Minimized, Apart
<1>7. ASSUME NEW oid \in ToSet(Made.walk) \ ToSet(toWalk)
      PROVE  \E x \in ToSet(Made.metrics) : WalkedFor(x, oid) /\ InstancesOf(x.oid) = {}
  <2>1. oid \in need /\ ~IsGet(oid) /\ Made.metrics = metrics
    BY <1>1 DEF MadeNow
  <2> QED
    BY <2>1 DEF NeedFrom, NeededBy
<1> QED
  BY <1>6, <1>7 DEF NeedCovered

\* The elements of a prefix.
LEMMA PrefixElements ==
  ASSUME NEW S, NEW s \in Seq(S), NEW t \in Seq(S), IsPrefix(s, t)
  PROVE  Len(s) <= Len(t) /\ \A k \in 1..Len(s) : s[k] = t[k]
BY DEF IsPrefix

\* What is needed is asked for by the file.
LEMMA NeedIsAsked ==
  ASSUME NeedOK, MadeNow, NEW o \in Oids
  PROVE  (o \in need => Walked(o)) /\ (Get(o) \in need => Asked(o)) /\ ToSet(Made.walk) \subseteq need
<1>1. PICK q \in Seq(need) :
        /\ Minimized(need, q) /\ ToSet(q) \subseteq need
        /\ ToSet(Made.walk) = {oid \in ToSet(q) : ~IsGet(oid)}
        /\ ToSet(Made.get) = {Front(oid) : oid \in {a \in ToSet(q) : IsGet(a)}}
  BY MadeParts
<1>2. \A oid \in need : \E a \in ToSet(q) : IsPrefix(a, oid)
  BY <1>1 DEF Minimized
<1>3. o \in Seq(Nat) /\ Empty \notin Nat
  BY DEF Oids, Empty
<1>4. ASSUME NEW a \in ToSet(q), IsGet(a)
      PROVE  \E b \in Seq(Nat) : a = Append(b, Empty) /\ b \in ToSet(Made.get)
  <2>1. a \in Askable
    BY <1>1 DEF NeedOK
  <2>2. Front(a) \in Oids /\ Get(Front(a)) = a
    BY <1>4, <2>1, AskableFacts
  <2>3. Front(a) \in ToSet(Made.get)
    BY <1>1, <1>4
  <2> QED
    BY <2>2, <2>3 DEF Get, Oids
<1>5. ASSUME NEW a \in ToSet(q), ~IsGet(a) PROVE a \in ToSet(Made.walk) /\ a \in Seq(Nat)
  <2>1. a \in Oids
    BY <1>1, <1>5, AskableFacts DEF NeedOK
  <2> QED
    BY <1>1, <1>5, <2>1 DEF Oids
<1>6. ASSUME o \in need PROVE Walked(o)
  <2>1. PICK a \in ToSet(q) : IsPrefix(a, o)
    BY <1>2, <1>6
  <2>2. ASSUME IsGet(a) PROVE FALSE
    <3>1. PICK b \in Seq(Nat) : a = Append(b, Empty)
      BY <1>4, <2>2
    <3>2. a \in Seq(Arcs) /\ o \in Seq(Arcs)
      BY <1>1, AskableFacts DEF NeedOK, Askable
    <3>3. Len(a) <= Len(o) /\ \A k \in 1..Len(a) : a[k] = o[k]
      BY <2>1, <3>2, PrefixElements
    <3>4. Len(a) = Len(b) + 1 /\ Len(b) \in Nat /\ a[Len(b) + 1] = Empty
      BY <3>1
    <3>5. o[Len(b) + 1] = Empty /\ Len(b) + 1 \in 1..Len(o)
      BY <3>3, <3>4
    <3> QED
      BY <1>3, <3>5
  <2> QED
    BY <1>5, <2>1, <2>2 DEF Walked
<1>7. ASSUME Get(o) \in need PROVE Asked(o)
  <2>1. PICK a \in ToSet(q) : IsPrefix(a, Append(o, Empty))
    BY <1>2, <1>7 DEF Get
  <2>2. CASE IsGet(a)
    <3>1. PICK b \in Seq(Nat) : a = Append(b, Empty) /\ b \in ToSet(Made.get)
      BY <1>4, <2>2
    <3>2. a \in Seq(Arcs) /\ Get(o) \in Seq(Arcs)
      BY <1>1, AskableFacts, GetsAreGets DEF NeedOK
    <3>4. Len(a) <= Len(Get(o)) /\ \A k \in 1..Len(a) : a[k] = Get(o)[k]
      BY <2>1, <3>2, PrefixElements DEF Get
    <3>5. /\ Len(a) = Len(b) + 1 /\ Len(b) \in Nat /\ a[Len(b) + 1] = Empty /\ \A k \in 1..Len(b) : a[k] = b[k]
          /\ Len(Get(o)) = Len(o) + 1 /\ Len(o) \in Nat /\ \A k \in 1..Len(o) : Get(o)[k] = o[k]
      BY <1>3, <3>1 DEF Get
    <3>6. Len(b) + 1 \notin 1..Len(o)
      <4> SUFFICES ASSUME Len(b) + 1 \in 1..Len(o) PROVE FALSE
        OBVIOUS
      <4>1. o[Len(b) + 1] = Empty
        BY <3>4, <3>5
      <4> QED
        BY <1>3, <4>1
    <3>7. Len(b) = Len(o)
      BY <3>4, <3>5, <3>6
    <3>8. \A k \in 1..Len(b) : b[k] = o[k]
      BY <3>4, <3>5, <3>7
    <3>3. b = o
      <4>1. b = [k \in 1..Len(b) |-> b[k]] /\ o = [k \in 1..Len(o) |-> o[k]]
        BY <1>3
      <4> QED
        BY <3>7, <3>8, <4>1
    <3> QED
      BY <3>1, <3>3 DEF Asked
  <2>3. CASE ~IsGet(a)
    <3>1. a \in Seq(Nat)
      BY <1>5, <2>3
    <3>2. IsPrefix(a, o)
      BY <1>3, <2>1, <3>1 DEF IsPrefix
    <3> QED
      BY <1>5, <2>3, <3>2 DEF Asked, Walked
  <2> QED
    BY <2>2, <2>3
<1> QED
  BY <1>1, <1>6, <1>7

Phases == {"start", "modules", "types", "lookups", "overrides", "create", "write", "done", "failed", "panicked"}
Working == {"types", "lookups", "overrides"}
Ended == {"create", "write", "done", "failed", "panicked"}
Ready == generating \in {"lookups", "overrides"} \/ JustMade

\* Each module is left, made, or in progress.
AllModules(picked) == todo \cup DOMAIN made \cup picked = DOMAIN input.modules
ModulesOK ==
  /\ \E picked \in {{}, {module}} : AllModules(picked)
  /\ generating \in Working => AllModules({module})
  /\ generating \in {"start", "modules"} => AllModules({})
  /\ generating = "start" => DOMAIN made = {}
\* The overrides that are not pending have given their objects their types.
TypesSet ==
  generating = "types" =>
    pending \subseteq TypeNames /\ \A p \in DOMAIN tree : TypedBy(p, TypeNames \ pending)

GenInv ==
  /\ scenario \in Scenarios /\ generating \in Phases
  /\ SameButTypes(tree, mib) /\ ModulesOK /\ OutOK /\ TypesSet
  /\ Ready => NeedFrom /\ LookupsNeeded /\ MetricsTyped
  /\ JustMade => MadeNow /\ FiltersApplied

LEMMA PreparedSame == SameButTypes(mib, mib)
BY DEF SameButTypes

\* The invariant holds at first and is kept by each step.
LEMMA GenInit == Init => GenInv
<1> SUFFICES ASSUME Init PROVE GenInv
  OBVIOUS
<1>1. /\ scenario \in Scenarios /\ generating = "start" /\ todo = DOMAIN input.modules
      /\ tree = mib /\ metrics = <<>> /\ need = {} /\ instances = NoEntries
      /\ at = [metric |-> 1, lookup |-> 1] /\ drops = <<>> /\ made = NoEntries
  BY DEF Init, GeneratorInit, mib
<1>2. SameButTypes(tree, mib)
  BY <1>1, PreparedSame
<1>3. DOMAIN made = {} /\ DOMAIN instances = {}
  BY <1>1 DEF NoEntries
<1>4. ModulesOK
  BY <1>1, <1>3 DEF ModulesOK, AllModules, Working
<1>5. OutOK
  <2>1. IsList(<<>>) /\ ToSet(<<>>) = {} /\ IsFiniteSet({}) /\ Len(<<>>) = 0
    BY ToSetEmpty, FS_EmptySet DEF IsList
  <2> QED
    BY <1>1, <1>3, <2>1 DEF OutOK, MetricsOK, PlaceOK, InstancesOK, NeedOK
<1>6. ~Ready /\ ~JustMade
  BY <1>1 DEF Ready, JustMade
<1> QED
  BY <1>1, <1>2, <1>4, <1>5, <1>6 DEF GenInv, TypesSet, Phases

-----------------------------------------------------------------------------
(* Steps of the generator                                                     *)

\* What the invariant says of the module in progress, while that is left alone.
LEMMA OutFrame ==
  ASSUME GenInv, UNCHANGED outVars
  PROVE  /\ (scenario \in Scenarios)' /\ SameButTypes(tree, mib)' /\ OutOK'
         /\ \A picked : AllModules(picked)' <=> AllModules(picked)
         /\ NeedFrom' <=> NeedFrom
         /\ LookupsNeeded' <=> LookupsNeeded
         /\ FiltersApplied' <=> FiltersApplied
         /\ MetricsTyped' <=> MetricsTyped
<1>1. UNCHANGED <<scenario, todo, module, tree, pending, metrics, need, instances, at, drops, made>>
  BY DEF outVars
<1>2. mib' = mib /\ \A p : OwnTypesOf(mib, module, p)' = OwnTypesOf(mib, module, p)
  BY <1>1, OwnTypesFrame
<1>3. (scenario \in Scenarios)' /\ SameButTypes(tree, mib)'
  BY <1>1, <1>2 DEF GenInv
<1>4. OutOK'
  BY <1>1 DEF GenInv, OutOK, MetricsOK, PlaceOK, InstancesOK, NeedOK
<1>5. \A picked : AllModules(picked)' <=> AllModules(picked)
  BY <1>1 DEF AllModules, input
<1>6. NeedFrom' <=> NeedFrom
  <2>1. toWalk' = toWalk
    BY <1>1 DEF toWalk, cfg, input
  <2>2. \A x, oid : NeededBy(x, oid)' <=> NeededBy(x, oid)
    BY <1>1, WalkedFrame DEF NeededBy, InstancesOf
  <2> QED
    BY <1>1, <2>1, <2>2 DEF NeedFrom
<1>7. MetricsTyped' <=> MetricsTyped
  <2>1. \A x : TypedAsOwn(x)' <=> TypedAsOwn(x)
    BY <1>2 DEF TypedAsOwn
  <2> QED
    BY <1>1, <2>1 DEF MetricsTyped
<1>8. Restricted' = Restricted /\ cfg' = cfg /\ \A f : Targets(f)' = Targets(f)
  BY <1>1, RestrictedFrame
<1>9. LookupsNeeded' <=> LookupsNeeded
  <2>1. \A oid : Narrowed(oid)' <=> Narrowed(oid)
    BY <1>1, <1>8 DEF Narrowed
  <2>2. \A x, l : LookupNeed(x, l)' <=> LookupNeed(x, l)
    BY <1>1, <1>8, <2>1 DEF LookupNeed, InstancesOf
  <2>3. \A x, l : FilterNeed(x, l)' <=> FilterNeed(x, l)
    BY <1>1, <1>8, WalkedFrame DEF FilterNeed
  <2> QED
    BY <1>1, <2>2, <2>3 DEF LookupsNeeded
<1>10. FiltersApplied' <=> FiltersApplied
  BY <1>1, <1>8 DEF FiltersApplied
<1> QED
  BY <1>3, <1>4, <1>5, <1>6, <1>7, <1>9, <1>10

\* The steps at which generation ends, and those of the output file.
LEMMA EndStep == ASSUME GenInv, UNCHANGED outVars, generating' \in Ended PROVE GenInv'
<1>1. /\ (scenario \in Scenarios)' /\ SameButTypes(tree, mib)' /\ OutOK'
      /\ \A picked : AllModules(picked)' <=> AllModules(picked)
  BY OutFrame
<1>2. ModulesOK'
  <2>1. module' = module
    BY DEF outVars
  <2> QED
    BY <1>1, <2>1 DEF GenInv, ModulesOK, Ended, Working
<1>3. generating' \in Phases /\ generating' \notin {"types", "lookups", "overrides", "modules"}
  BY DEF Ended, Phases
<1>4. TypesSet' /\ ~Ready' /\ ~JustMade'
  BY <1>3 DEF TypesSet, Ready, JustMade
<1> QED
  BY <1>1, <1>2, <1>3, <1>4 DEF GenInv

LEMMA ConfigRead == ASSUME GenInv, ReadConfig PROVE GenInv'
<1>1. generating = "start" /\ generating' = "modules" /\ UNCHANGED outVars
  BY DEF ReadConfig
<1>2. /\ (scenario \in Scenarios)' /\ SameButTypes(tree, mib)' /\ OutOK'
      /\ \A picked : AllModules(picked)' <=> AllModules(picked)
  BY <1>1, OutFrame
<1>3. made' = made /\ DOMAIN made = {} /\ module' = module
  BY <1>1 DEF outVars, GenInv, ModulesOK
<1>4. ModulesOK'
  BY <1>1, <1>2, <1>3 DEF GenInv, ModulesOK, Working
<1>5. TypesSet' /\ ~Ready' /\ ~JustMade'
  BY <1>1, <1>3 DEF TypesSet, Ready, JustMade
<1> QED
  BY <1>1, <1>2, <1>4, <1>5 DEF GenInv, Phases

LEMMA ModulePicked == ASSUME GenInv, NEW m \in todo, PickModule(m) PROVE GenInv'
<1>1. /\ generating = "modules" /\ generating' = "types" /\ module' = m /\ todo' = todo \ {m}
      /\ tree' = mib
      /\ pending' = {name \in DOMAIN input.modules[m].overrides : input.modules[m].overrides[name].type # ""}
      /\ UNCHANGED <<scenario, metrics, need, instances, at, drops, made>>
  BY DEF PickModule, ModuleTree, mib
<1>2. mib' = mib /\ SameButTypes(tree, mib)' /\ (scenario \in Scenarios)'
  BY <1>1, PreparedSame DEF mib, GenInv
<1>3. OutOK'
  BY <1>1 DEF GenInv, OutOK, MetricsOK, PlaceOK, InstancesOK, NeedOK
<1>4. ModulesOK'
  <2>1. AllModules({})
    BY <1>1 DEF GenInv, ModulesOK
  <2>2. AllModules({m})'
    BY <1>1, <2>1 DEF AllModules, input
  <2> QED
    BY <1>1, <2>2 DEF ModulesOK
<1>5. TypesSet'
  <2>1. pending' = TypeNames'
    BY <1>1 DEF TypeNames, cfg, input
  <2>2. ASSUME NEW p PROVE TypedBy(p, {})'
    BY <1>1, <1>2 DEF TypedBy
  <2>3. TypeNames' \ pending' = {}
    BY <2>1
  <2> QED
    BY <2>1, <2>2, <2>3 DEF TypesSet
<1>6. ~Ready' /\ ~JustMade'
  BY <1>1 DEF Ready, JustMade
<1> QED
  BY <1>1, <1>2, <1>3, <1>4, <1>5, <1>6 DEF GenInv, Phases

\* What a step of the module in progress may use.
LEMMA ModuleInHand ==
  ASSUME GenInv, generating \in Working
  PROVE  InHand /\ OutOK
<1>1. AllModules({module})
  BY DEF GenInv, ModulesOK
<1> QED
  BY <1>1 DEF GenInv, InHand, AllModules

\* Between the steps of a module only generating tells where it is.
LEMMA WorkStep ==
  ASSUME GenInv, generating \in Working, generating' \in {"lookups", "overrides"},
         UNCHANGED <<scenario, todo, module, tree, made>>, OutOK', NeedFrom', LookupsNeeded', MetricsTyped'
  PROVE  GenInv'
<1>1. \A picked : AllModules(picked)' <=> AllModules(picked)
  BY DEF AllModules, input
<1>2. ModulesOK'
  BY <1>1 DEF GenInv, ModulesOK
<1>3. mib' = mib
  BY DEF mib
<1>4. SameButTypes(tree, mib)' /\ (scenario \in Scenarios)'
  BY <1>3 DEF GenInv
<1>5. TypesSet' /\ ~JustMade' /\ generating' \in Phases
  BY DEF TypesSet, JustMade, Phases
<1> QED
  BY <1>2, <1>4, <1>5 DEF GenInv

LEMMA TypeOverridden == ASSUME GenInv, NEW name, OverrideType(name) PROVE GenInv'
<1>1. /\ generating = "types" /\ generating' = "types" /\ name \in pending /\ pending' = pending \ {name}
      /\ tree' = IF ~Known(tree, name) THEN tree
                 ELSE [tree EXCEPT ![nameToNode(tree, name)].type = cfg.overrides[name].type]
      /\ UNCHANGED <<scenario, todo, module, metrics, need, instances, at, drops, made>>
  BY DEF OverrideType
<1> DEFINE names == TypeNames \ pending
           node == nameToNode(mib, name)
<1>2. mib' = mib /\ TypeNames' = TypeNames /\ cfg' = cfg
  BY <1>1 DEF mib, TypeNames, cfg, input
<1>3. /\ SameButTypes(tree, mib) /\ IsTree(mib) /\ name \in TypeNames /\ pending \subseteq TypeNames
      /\ \A p \in DOMAIN tree : TypedBy(p, names)
  BY <1>1, MibIsTree DEF GenInv, TypesSet
<1>4. /\ \A p \in DOMAIN tree : IsNode(tree[p])
      /\ Known(tree, name) <=> Known(mib, name)
      /\ nameToNode(tree, name) = node
  BY <1>3, SameNames
<1>5. /\ DOMAIN tree' = DOMAIN tree
      /\ \A p \in DOMAIN tree :
           /\ DOMAIN tree'[p] = DOMAIN tree[p]
           /\ \A f \in DOMAIN tree[p] \ {"type"} : tree'[p][f] = tree[p][f]
           /\ tree'[p].type = IF Known(mib, name) /\ p = node THEN cfg.overrides[name].type ELSE tree[p].type
  <2>1. CASE ~Known(tree, name)
    BY <1>1, <1>4, <2>1
  <2>2. CASE Known(tree, name)
    <3> HIDE DEF node
    <3>1. tree' = [tree EXCEPT ![node].type = cfg.overrides[name].type]
      BY <1>1, <1>4, <2>2
    <3>2. \A p \in DOMAIN tree : p # node => tree'[p] = tree[p]
      BY <3>1
    <3>3. node \in DOMAIN tree => tree'[node] = [tree[node] EXCEPT !.type = cfg.overrides[name].type]
      BY <3>1
    <3>4. DOMAIN tree' = DOMAIN tree
      BY <3>1
    <3> QED
      BY <1>4, <2>2, <3>2, <3>3, <3>4 DEF IsNode
  <2> QED
    BY <2>1, <2>2
<1>6. SameButTypes(tree, mib)'
  <2>1. SameButTypes(tree', mib)
    BY <1>3, <1>5 DEF SameButTypes
  <2> QED
    BY <1>2, <2>1
<1>7. TypesSet'
  <2> PICK set : set = names \cup {name}
    OBVIOUS
  <2>1. TypeNames' \ pending' = set
    BY <1>1, <1>2, <1>3
  <2>2. ASSUME NEW p \in DOMAIN tree PROVE TypedBy(p, set)'
    <3> DEFINE own == {n \in names : Known(mib, n) /\ nameToNode(mib, n) = p}
               more == {n \in set : Known(mib, n) /\ nameToNode(mib, n) = p}
    <3>1. IF own = {} THEN tree[p].type = mib[p].type ELSE \E n \in own : tree[p].type = cfg.overrides[n].type
      BY <1>3 DEF TypedBy
    <3>2. more = IF Known(mib, name) /\ node = p THEN own \cup {name} ELSE own
      OBVIOUS
    <3>3. tree'[p].type = IF Known(mib, name) /\ p = node THEN cfg.overrides[name].type ELSE tree[p].type
      BY <1>5
    <3> HIDE DEF own, more, node, names
    <3>4. IF more = {} THEN tree'[p].type = mib[p].type ELSE \E n \in more : tree'[p].type = cfg.overrides[n].type
      BY <3>1, <3>2, <3>3
    <3>5. TypedBy(p, set)' <=>
            IF more = {} THEN tree'[p].type = mib[p].type ELSE \E n \in more : tree'[p].type = cfg.overrides[n].type
      BY <1>2 DEF more, TypedBy
    <3> QED
      BY <3>4, <3>5
  <2>3. (\A p \in DOMAIN tree : TypedBy(p, TypeNames \ pending))'
    BY <1>5, <2>1, <2>2 DEF TypedBy
  <2> QED
    BY <1>1, <1>2, <1>3, <2>3 DEF TypesSet
<1>8. \A picked : AllModules(picked)' <=> AllModules(picked)
  BY <1>1 DEF AllModules, input
<1>9. ModulesOK'
  BY <1>1, <1>8 DEF GenInv, ModulesOK
<1>10. OutOK'
  BY <1>1 DEF GenInv, OutOK, MetricsOK, PlaceOK, InstancesOK, NeedOK
<1>11. ~Ready' /\ ~JustMade'
  BY <1>1 DEF Ready, JustMade
<1> QED
  BY <1>1, <1>6, <1>7, <1>9, <1>10, <1>11 DEF GenInv, Phases

LEMMA LookupSkipped == ASSUME GenInv, SkipLookup PROVE GenInv'
<1>1. /\ generating = "lookups" /\ at' = [at EXCEPT !.lookup = @ + 1]
      /\ UNCHANGED <<scenario, todo, module, tree, made, generating, metrics, need, drops, instances>>
  BY DEF SkipLookup, AtLookup, LookingUp, treeVars
<1>2. NeedFrom /\ LookupsNeeded /\ MetricsTyped /\ OutOK
  BY <1>1 DEF GenInv, Ready
<1>3. OutOK'
  BY <1>1, <1>2 DEF OutOK, MetricsOK, PlaceOK, InstancesOK, NeedOK
<1>4. MetricsGrow
  BY <1>1, <1>2 DEF MetricsGrow, Grown, OutOK, MetricsOK, ToSet
<1>5. NeedFrom'
  BY <1>1, <1>2, <1>4, NeedStep DEF OutOK
<1>6. MetricsTyped'
  BY <1>1, <1>2, <1>4, TypesStep DEF OutOK
<1>7. LookupsNeeded'
  <2>1. InHand
    BY <1>1, ModuleInHand DEF Working
  <2> QED
    BY <1>1, <1>2, <1>4, <2>1, Configured, LookupsStep DEF OutOK
<1> QED
  BY <1>1, <1>3, <1>5, <1>6, <1>7, WorkStep DEF Working

LEMMA FoundStep == ASSUME GenInv, FindMetrics PROVE GenInv'
<1>1. /\ generating = "types" /\ generating' = "lookups" /\ pending = {}
      /\ UNCHANGED <<scenario, todo, module, tree, made>>
  BY DEF FindMetrics
<1>2. InHand /\ OutOK
  BY <1>1, ModuleInHand DEF Working
<1>3. TreeTyped
  <2>1. TypeNames \ pending = TypeNames
    BY <1>1
  <2>2. \A p \in DOMAIN tree : TypedBy(p, TypeNames \ pending)
    BY <1>1 DEF GenInv, TypesSet
  <2> QED
    BY <2>1, <2>2 DEF TreeTyped
<1>4. OutOK' /\ NeedFrom' /\ LookupsNeeded' /\ MetricsTyped'
  BY <1>2, <1>3, MetricsFound
<1> QED
  BY <1>1, <1>4, WorkStep DEF Working

LEMMA LookupStep == ASSUME GenInv, ApplyLookup \/ DropSources \/ FinishLookups PROVE GenInv'
<1>1. /\ generating = "lookups" /\ generating' \in {"lookups", "overrides"}
      /\ UNCHANGED <<scenario, todo, module, tree, made>>
  BY DEF ApplyLookup, DropSources, FinishLookups, AtLookup, LookingUp, treeVars
<1>2. InHand /\ OutOK /\ NeedFrom /\ LookupsNeeded /\ MetricsTyped
  BY <1>1, ModuleInHand DEF Working, GenInv, Ready
<1>3. OutOK' /\ NeedFrom' /\ LookupsNeeded' /\ MetricsTyped'
  BY <1>2, LookupApplied, SourcesDropped, LookupsFinished
<1> QED
  BY <1>1, <1>3, WorkStep DEF Working

LEMMA OverrideStep == ASSUME GenInv, NEW name, OverrideMetrics(name) PROVE GenInv'
<1>1. /\ generating = "overrides" /\ generating' = "overrides"
      /\ UNCHANGED <<scenario, todo, module, tree, made>>
  BY DEF OverrideMetrics, treeVars
<1>2. InHand /\ OutOK /\ NeedFrom /\ LookupsNeeded /\ MetricsTyped
  BY <1>1, ModuleInHand DEF Working, GenInv, Ready
<1>3. OutOK' /\ NeedFrom' /\ LookupsNeeded' /\ MetricsTyped'
  BY <1>2, MetricsOverridden
<1> QED
  BY <1>1, <1>3, WorkStep DEF Working

LEMMA FinishStep == ASSUME GenInv, FinishModule PROVE GenInv'
<1>1. /\ generating = "overrides" /\ generating' = "modules"
      /\ UNCHANGED <<scenario, todo, module, tree>>
  BY DEF FinishModule
<1>2. InHand /\ OutOK /\ NeedFrom /\ LookupsNeeded /\ MetricsTyped
  BY <1>1, ModuleInHand DEF Working, GenInv, Ready
<1>3. OutOK' /\ NeedFrom' /\ LookupsNeeded' /\ MetricsTyped' /\ MadeNow' /\ FiltersApplied'
  BY <1>2, ModuleFinished
<1>4. DOMAIN made' = DOMAIN made \cup {module}
  <2>1. \E record : made' = Put(made, module, record)
    BY DEF FinishModule
  <2> QED
    BY <2>1 DEF Put
<1>5. ModulesOK'
  <2>1. AllModules({module})
    BY <1>1 DEF GenInv, ModulesOK, Working
  <2>2. AllModules({})'
    BY <1>1, <1>4, <2>1 DEF AllModules, input
  <2> QED
    BY <1>1, <2>2 DEF ModulesOK, Working
<1>6. SameButTypes(tree, mib)' /\ (scenario \in Scenarios)' /\ TypesSet' /\ generating' \in Phases
  BY <1>1 DEF GenInv, mib, TypesSet, Phases
<1> QED
  BY <1>3, <1>5, <1>6 DEF GenInv

LEMMA GenStep == ASSUME GenInv, GeneratorNext PROVE GenInv'
<1>1. CASE ReadConfig
  BY <1>1, ConfigRead
<1>2. CASE \E m \in todo : PickModule(m)
  BY <1>2, ModulePicked
<1>3. CASE \E name \in pending : OverrideType(name) \/ OverrideMetrics(name)
  BY <1>3, TypeOverridden, OverrideStep
<1>4. CASE FindMetrics
  BY <1>4, FoundStep
<1>5. CASE SkipLookup
  BY <1>5, LookupSkipped
<1>6. CASE ApplyLookup \/ DropSources \/ FinishLookups
  BY <1>6, LookupStep
<1>7. CASE FinishModule
  BY <1>7, FinishStep
<1>8. CASE RejectConfig \/ WalkInvalid \/ LookupFails \/ CreateFails \/ IndexPanic \/ Marshal \/ CreateFile \/ Write \/ WriteFails
  <2>1. UNCHANGED outVars /\ generating' \in Ended
    BY <1>8 DEF RejectConfig, WalkInvalid, LookupFails, CreateFails, IndexPanic, Marshal, CreateFile, Write,
                WriteFails, WriteFile, Fail, Ended
  <2> QED
    BY <2>1, EndStep
<1> QED
  BY <1>1, <1>2, <1>3, <1>4, <1>5, <1>6, <1>7, <1>8, Zenon DEF GeneratorNext

LEMMA GenStutter == ASSUME GenInv, UNCHANGED generatorVars PROVE GenInv'
<1>1. UNCHANGED outVars /\ generating' = generating /\ pending' = pending /\ module' = module /\ made' = made
      /\ tree' = tree /\ scenario' = scenario /\ need' = need /\ metrics' = metrics
  BY DEF generatorVars, outVars
<1>2. /\ (scenario \in Scenarios)' /\ SameButTypes(tree, mib)' /\ OutOK'
      /\ \A picked : AllModules(picked)' <=> AllModules(picked)
      /\ NeedFrom' <=> NeedFrom
      /\ LookupsNeeded' <=> LookupsNeeded
      /\ FiltersApplied' <=> FiltersApplied
      /\ MetricsTyped' <=> MetricsTyped
  BY <1>1, OutFrame
<1>3. ModulesOK'
  BY <1>1, <1>2 DEF GenInv, ModulesOK
<1>4. TypesSet'
  <2>1. mib' = mib /\ cfg' = cfg /\ TypeNames' = TypeNames
    BY <1>1 DEF mib, cfg, input, TypeNames
  <2>2. ASSUME NEW p, NEW set, TypedBy(p, set) PROVE TypedBy(p, set)'
    BY <1>1, <2>1, <2>2 DEF TypedBy
  <2> PICK set : set = TypeNames \ pending
    OBVIOUS
  <2>3. generating = "types" => pending \subseteq TypeNames /\ \A p \in DOMAIN tree : TypedBy(p, set)
    BY DEF GenInv, TypesSet, TypedBy
  <2>4. generating = "types" => \A p \in DOMAIN tree' : TypedBy(p, set)'
    BY <1>1, <2>2, <2>3
  <2>5. generating = "types" => (\A p \in DOMAIN tree : TypedBy(p, TypeNames \ pending))'
    <3>1. TypeNames' \ pending' = set
      BY <1>1, <2>1
    <3> QED
      BY <2>4, <3>1 DEF TypedBy
  <2> QED
    BY <1>1, <2>1, <2>3, <2>5 DEF TypesSet
<1>5. (Ready' <=> Ready) /\ (JustMade' <=> JustMade)
  BY <1>1 DEF Ready, JustMade
<1>6. JustMade => MadeNow'
  BY <1>1 DEF GenInv, MadeNow, Made
<1> QED
  BY <1>1, <1>2, <1>3, <1>4, <1>5, <1>6 DEF GenInv

LEMMA GenNext == GenInv /\ [Next]_<<generatorVars, exporterVars>> => GenInv'
BY GenStep, GenStutter DEF Next

-----------------------------------------------------------------------------
(* Theorems                                                                   *)

\* What the invariant says when a module has just been made.
LEMMA NeedIsCovered == GenInv => NeedCovered
<1>1. JustMade => Ready
  BY DEF Ready
<1>2. ~JustMade => NeedCovered
  BY DEF NeedCovered
<1> QED
  BY <1>1, <1>2, MadeCovers DEF GenInv, OutOK

LEMMA ModulesAreApart == GenInv => ModulesApart
<1> SUFFICES ASSUME GenInv, JustMade PROVE \A x \in ToSet(Made.metrics) : TypedAsOwn(x)
  BY DEF ModulesApart, TypedAsOwn, OfType, mib
<1>1. Made.metrics = metrics /\ MetricsTyped
  BY DEF GenInv, MadeNow, Ready
<1> QED
  BY <1>1 DEF MetricsTyped

\* What holds of a module that has just been made.
LEMMA JustMadeInHand == ASSUME GenInv, JustMade PROVE InHand
<1>1. module \in DOMAIN made
  BY DEF JustMade
<1>2. DOMAIN made \subseteq DOMAIN input.modules
  BY DEF GenInv, ModulesOK, AllModules
<1> QED
  BY <1>1, <1>2 DEF GenInv, InHand

\* LookupsNeeded, read off the file.
LEMMA LookupsAreWalked == GenInv => LookupsWalked
<1> SUFFICES ASSUME GenInv, JustMade, NEW x \in ToSet(metrics), NEW l \in Looked(x)
             PROVE  /\ InstancesOf(x.oid) = {} /\ l.oid \notin Restricted /\ ~Narrowed(l.oid) => Walked(l.oid)
                    /\ \A row \in InstancesOf(x.oid) : Asked(l.oid \o row)
  BY DEF LookupsWalked, GenInv, MadeNow
<1>1. LookupNeed(x, l) /\ MadeNow /\ NeedOK /\ InstancesOK
  BY DEF GenInv, LookupsNeeded, Ready, OutOK
<1>2. l.oid \in Oids
  BY DEF GenInv, OutOK, MetricsOK, IsMetric, Looked
<1>3. InstancesOf(x.oid) = {} /\ l.oid \notin Restricted /\ ~Narrowed(l.oid) => Walked(l.oid)
  BY <1>1, <1>2, NeedIsAsked DEF LookupNeed
<1>4. ASSUME NEW row \in InstancesOf(x.oid) PROVE Asked(l.oid \o row)
  <2>1. l.oid \o row \in Oids
    BY <1>1, <1>2, InstancesFacts, OidConcat
  <2> QED
    BY <1>1, <2>1, NeedIsAsked DEF LookupNeed
<1> QED
  BY <1>3, <1>4

\* FiltersApplied, read off the file.
LEMMA FiltersAreKept == GenInv => FiltersRestrict
<1> SUFFICES ASSUME GenInv, JustMade, NEW x \in ToSet(metrics), NEW l \in Looked(x), l.oid \in Restricted
             PROVE  /\ x.oid \in ToSet(Made.walk) => \E y \in ToSet(metrics) : WalkedFor(y, x.oid)
                    /\ \E f \in ToSet(cfg.static) :
                         /\ l.oid \in Targets(f)
                         /\ \A row \in ToSet(f.indices) : Asked(x.oid \o row) /\ Asked(l.oid \o row)
  BY DEF FiltersRestrict, GenInv, MadeNow
<1>1. FilterNeed(x, l) /\ MadeNow /\ NeedOK /\ FiltersApplied
  BY DEF GenInv, LookupsNeeded, Ready, OutOK
<1>2. l.oid \in Oids /\ x.oid \in Oids
  BY DEF GenInv, OutOK, MetricsOK, IsMetric, Looked
<1>3. x.oid \in ToSet(Made.walk) => \E y \in ToSet(metrics) : WalkedFor(y, x.oid)
  BY <1>1, <1>2, NeedIsAsked DEF FilterNeed
<1>4. PICK f \in ToSet(cfg.static) : l.oid \in Targets(f) /\ Rows(x.oid, ToSet(f.indices)) \subseteq need
  BY <1>1 DEF FilterNeed
<1>5. ASSUME NEW row \in ToSet(f.indices) PROVE Asked(x.oid \o row) /\ Asked(l.oid \o row)
  <2>1. StaticList
    <3>1. InHand
      BY JustMadeInHand
    <3> QED
      BY <3>1, Configured
  <2>2. x.oid \o row \in Oids /\ l.oid \o row \in Oids
    BY <1>2, <2>1, OidConcat DEF StaticList
  <2>3. Get(x.oid \o row) \in need
    BY <1>4 DEF Rows
  <2>4. Get(l.oid \o row) \in need
    BY <1>1, <1>4 DEF Rows, FiltersApplied
  <2> QED
    BY <1>1, <2>2, <2>3, <2>4, NeedIsAsked
<1> QED
  BY <1>3, <1>4, <1>5

\* For every MIB tree and generator.yml: a metric that is asked for as a whole
\* comes with the objects it looks up, and one asked for by instance with their
\* rows, whatever order lookups, overrides and filters are gone through in (the
\* lookup loop of generateConfigModule); an object a filter reaches is left to it.
THEOREM LookupObjects == Spec => []LookupsWalked
BY GenInit, GenNext, LookupsAreWalked, PTL DEF Spec

\* For every MIB tree and generator.yml: a metric that looks up a filtered object
\* is asked for in all rows of one of the object's filters, the object too, and
\* as a whole only if another metric needs it so (filterMap and the static filters
\* of generateConfigModule).
THEOREM FilterRows == Spec => []FiltersRestrict
BY GenInit, GenNext, FiltersAreKept, PTL DEF Spec

\* For every MIB tree and generator.yml: a generated module asks for everything
\* its metrics, lookups and address types need, for nothing else, and for no
\* subtree twice; what it walks without being told to is needed by a metric that
\* is walked itself (needToWalk and minimizeOids of generateConfigModule).
THEOREM NeedsAreCovered == Spec => []NeedCovered
BY GenInit, GenNext, NeedIsCovered, PTL DEF Spec

\* For every MIB tree and generator.yml: the type of a generated metric is that of
\* its object in the MIB or of an override of its own module, never one that
\* another module's overrides left in the tree (the copy of the tree per module).
THEOREM OwnTypesOnly == Spec => []ModulesApart
BY GenInit, GenNext, ModulesAreApart, PTL DEF Spec

-----------------------------------------------------------------------------
(* Types                                                                      *)

ConfPointed == "modules" \in DOMAIN conf /\ \A m \in DOMAIN conf.modules : Pointed(conf.modules[m].params)
ExporterOK ==
  /\ exporter \in {"idle", "read", "unmarshal", "exited"}
  /\ loads \in 0..MaxLoads /\ fileNo \in 1..(Len(files) + 1)
  /\ answer.status \in {0, 200, 400}
  /\ ConfPointed
FilesList == IsList(files) /\ Len(files) = Len(scenario.files)
TypeInv == LoadInv /\ GenInv /\ ExporterOK /\ FilesList

LEMMA TypeInit == Init => TypeInv
<1> SUFFICES ASSUME Init PROVE ExporterOK /\ FilesList
  BY LoadInit, GenInit DEF TypeInv
<1>1. FilesList
  BY ConfigFormatAssumption DEF Init, GeneratorInit, FilesList
<1>2. conf = NoConfig /\ exporter = "idle" /\ loads = 0 /\ fileNo = 1 /\ answer = NoAnswer
  BY DEF Init, ExporterInit
<1>3. ConfPointed
  BY <1>2 DEF ConfPointed, NoConfig, NoEntries
<1>4. Len(files) \in Nat
  BY <1>1 DEF FilesList, IsList
<1> QED
  BY <1>1, <1>2, <1>3, <1>4, ConfigLoadAssumption DEF ExporterOK, NoAnswer

LEMMA FilesKept == ASSUME FilesList, GeneratorNext PROVE FilesList' /\ Len(files') = Len(files)
<1>0. scenario' = scenario
  BY GeneratorKeepsScenario
<1>1. files' = files \/ \E content : files' = [files EXCEPT ![Len(files)] = content]
  BY GeneratorWrites DEF FinishModule, CreateFile, Write, WriteFails, WriteFile
<1>2. CASE files' = files
  BY <1>0, <1>2 DEF FilesList
<1>3. CASE \E content : files' = [files EXCEPT ![Len(files)] = content]
  <2>1. files' = [k \in DOMAIN files |-> files'[k]]
    BY <1>3
  <2> QED
    BY <1>0, <2>1, Mapped DEF FilesList
<1> QED
  BY <1>1, <1>2, <1>3

LEMMA PointedFrame ==
  ASSUME ConfPointed, conf' = conf, Len(heap) \in Nat, Len(heap') \in Nat, Len(heap') >= Len(heap)
  PROVE  ConfPointed'
BY DEF ConfPointed, Pointed

\* What the exporter counts and points to.
LEMMA ExporterStep == ASSUME TypeInv, ExporterNext, UNCHANGED generatorVars PROVE ExporterOK'
<1>0. LoadInv /\ ExporterOK /\ ConfPointed /\ UNCHANGED <<files, scenario>> /\ Len(files) \in Nat /\ Len(heap) \in Nat
  BY DEF TypeInv, ExporterOK, generatorVars, FilesList, IsList, LoadInv, HeapOK
<1> USE DEF servedVars
<1>1. CASE StartLoad
  <2>1. exporter' = "read" /\ loads' = loads + 1 /\ loads < MaxLoads /\ fileNo' = 1 /\ conf' = NoConfig /\ answer' = answer
    BY <1>1 DEF StartLoad
  <2>2. ConfPointed'
    BY <2>1 DEF ConfPointed, NoConfig, NoEntries
  <2> QED
    BY <1>0, <2>1, <2>2, ConfigLoadAssumption DEF ExporterOK
<1>2. CASE ReadFile
  <2>1. /\ exporter' = "unmarshal" /\ fileNo' = fileNo + 1 /\ fileNo \in DOMAIN files
        /\ UNCHANGED <<loads, conf, heap, answer>>
    BY <1>2 DEF ReadFile
  <2>2. DOMAIN files = 1..Len(files)
    BY DEF TypeInv, FilesList, IsList
  <2> QED
    BY <1>0, <2>1, <2>2, PointedFrame DEF ExporterOK
<1>3. CASE FileRead \/ LoadSucceeds \/ LoadFails
  <2>1. exporter' \in {"read", "idle", "exited"} /\ UNCHANGED <<loads, fileNo, conf, heap, answer>>
    BY <1>3 DEF FileRead, LoadSucceeds, LoadFails
  <2> QED
    BY <1>0, <2>1, PointedFrame DEF ExporterOK
<1>4. ASSUME NEW a \in DOMAIN left.auths, UnmarshalAuth(a) PROVE ExporterOK'
  <2>1. UNCHANGED <<exporter, loads, fileNo, heap, answer>> /\ conf' = [conf EXCEPT !.auths = Put(@, a, FullAuth(a))]
    BY <1>4 DEF UnmarshalAuth
  <2>2. "modules" \in DOMAIN conf' /\ conf'.modules = conf.modules
    BY <1>0, <2>1 DEF ConfPointed
  <2> QED
    BY <1>0, <2>1, <2>2 DEF ExporterOK, ConfPointed, Pointed
<1>5. ASSUME NEW m \in DOMAIN left.modules, UnmarshalModule(m) PROVE ExporterOK'
  <2>1. exporter = "unmarshal" /\ UNCHANGED <<exporter, loads, fileNo, answer>>
    BY <1>5 DEF UnmarshalModule
  <2>2. IsDocument(left)
    BY <1>0, <2>1 DEF LoadInv, Reading
  <2>3. /\ Len(heap') >= Len(heap) /\ HeapOK' /\ Pointed(conf.modules[m].params)'
        /\ DOMAIN conf'.modules = DOMAIN conf.modules \cup {m}
        /\ \A n \in DOMAIN conf.modules \ {m} : conf'.modules[n] = conf.modules[n]
    BY <1>0, <1>5, <2>2, ModuleParams DEF ConfPointed
  <2>4. "modules" \in DOMAIN conf'
    BY <1>0, <1>5 DEF UnmarshalModule, ConfPointed
  <2>5. Len(heap') \in Nat
    BY <2>3 DEF HeapOK, IsList
  <2>6. ASSUME NEW n \in DOMAIN conf'.modules PROVE Pointed(conf.modules[n].params)'
    <3>1. CASE n = m
      BY <2>3, <3>1
    <3>2. CASE n # m
      BY <1>0, <2>3, <2>5, <3>2 DEF ConfPointed, Pointed
    <3> QED
      BY <3>1, <3>2
  <2> QED
    BY <1>0, <2>1, <2>4, <2>6 DEF ExporterOK, ConfPointed
<1>6. ASSUME NEW r \in scenario.requests, BadRequest(r) \/ Scrape(r) PROVE ExporterOK'
  <2>1. UNCHANGED <<exporter, loads, fileNo, conf, heap>> /\ answer'.status \in {200, 400}
    BY <1>6 DEF BadRequest, Scrape
  <2> QED
    BY <1>0, <2>1, PointedFrame DEF ExporterOK
<1> QED
  BY <1>1, <1>2, <1>3, <1>4, <1>5, <1>6, Zenon DEF ExporterNext

LEMMA TypeNext == TypeInv /\ [Next]_<<generatorVars, exporterVars>> => TypeInv'
<1> SUFFICES ASSUME TypeInv, [Next]_<<generatorVars, exporterVars>> PROVE ExporterOK' /\ FilesList'
  BY LoadNext, GenNext DEF TypeInv
<1>0. LoadInv /\ ExporterOK /\ ConfPointed /\ FilesList /\ Len(heap) \in Nat
  BY DEF TypeInv, ExporterOK, LoadInv, HeapOK, IsList
<1>1. CASE GeneratorNext /\ UNCHANGED exporterVars
  <2>1. FilesList' /\ Len(files') = Len(files)
    BY <1>0, <1>1, FilesKept
  <2>2. UNCHANGED <<exporter, loads, fileNo, conf, heap, answer>>
    BY <1>1 DEF exporterVars
  <2> QED
    BY <1>0, <2>1, <2>2, PointedFrame DEF ExporterOK
<1>2. CASE ExporterNext /\ UNCHANGED generatorVars
  BY <1>0, <1>2, ExporterStep DEF FilesList, generatorVars
<1>3. CASE UNCHANGED <<generatorVars, exporterVars>>
  <2>1. UNCHANGED <<exporter, loads, fileNo, conf, heap, answer, files, scenario>>
    BY <1>3 DEF generatorVars, exporterVars
  <2> QED
    BY <1>0, <2>1, PointedFrame DEF ExporterOK, FilesList
<1> QED
  BY <1>1, <1>2, <1>3 DEF Next

LEMMA Typed == TypeInv => TypeOK
<1> SUFFICES ASSUME TypeInv PROVE TypeOK
  OBVIOUS
<1>0. LoadInv /\ GenInv /\ ExporterOK /\ FilesList
  BY DEF TypeInv
<1>1. scenario \in Scenarios /\ generating \in Phases /\ \E picked \in {{}, {module}} : AllModules(picked)
  BY <1>0 DEF GenInv, ModulesOK
<1>2. at.metric \in 1..(Len(metrics) + 1) /\ at.lookup \in Nat \ {0}
  BY <1>0 DEF GenInv, OutOK, PlaceOK
<1>3. \A oid \in need : oid \in Oids \/ (IsGet(oid) /\ Front(oid) \in Oids)
  BY <1>0, AskableFacts DEF GenInv, OutOK, NeedOK
<1>4. \A m \in DOMAIN C.modules : Pointed(C.modules[m].params)
  BY <1>0 DEF LoadInv, Running, RunsOnce, ModulesRun, Kinds
<1>5. \A c \in {conf, C} : \A m \in DOMAIN c.modules : c.modules[m].params.retries \in 2..Len(heap)
  BY <1>0, <1>4 DEF ExporterOK, ConfPointed, Pointed
<1> QED
  BY <1>0, <1>1, <1>2, <1>3, <1>5 DEF TypeOK, Phases, AllModules, ExporterOK, FilesList

\* TypeOK: each module of generator.yml is left, in progress or made, metrics and
\* lookups are gone through in order, what is asked for is an OID or a Get, and
\* each loaded module points to its own number of retries.
THEOREM DeploymentTypes == Spec => []TypeOK
BY TypeInit, TypeNext, Typed, PTL DEF Spec

-----------------------------------------------------------------------------
(* The nodes of the tree in full: prepareTree changes types and indexes only. *)

LEMMA IndexedLikeNodes ==
  ASSUME NEW D, NEW t \in [D -> Nodes], NEW some, NEW from \in Nodes
  PROVE  IndexedLike(t, some, from) \in [D -> Nodes]
<1>1. \A p \in D : [t[p] EXCEPT !.indexes = from.indexes, !.implied = from.implied] \in Nodes
  BY DEF Nodes
<1>2. \A p \in D : t[p] \in Nodes
  OBVIOUS
<1> QED
  BY <1>1, <1>2 DEF IndexedLike

\* A known name of a tree of L nodes stands for one of them.
LEMMA KnownNode ==
  ASSUME NEW L \in Nat, NEW t, DOMAIN t = 1..L, NEW name, Known(t, name)
  PROVE  nameToNode(t, name) \in 1..L /\ nameToNode(t, name) \in Named(t, name)
<1>1. Named(t, name) \in SUBSET (1..L) /\ Named(t, name) # {}
  BY DEF Named, Known
<1> QED
  BY <1>1, MaxFacts DEF nameToNode

\* The first walk of prepareTree: augmenting tables get other indexes, nothing
\* else.
LEMMA AugmentFacts ==
  ASSUME NEW L \in Nat, NEW t \in [1..L -> Nodes]
  PROVE  AugmentTo(t) \in [1..L -> Nodes]
<1> DEFINE X == [1..L -> Nodes]
           G == [p \in 1..L |-> [q \in X |-> Augmented(q, p)]]
<1>1. \A p \in 1..L, q \in X : Augmented(q, p) \in X
  <2> SUFFICES ASSUME NEW p \in 1..L, NEW q \in X PROVE Augmented(q, p) \in X
    OBVIOUS
  <2>1. DOMAIN q = 1..L
    OBVIOUS
  <2> DEFINE name == Label(q[p].augments)
  <2>2. CASE q[p].augments = "" \/ ~Known(q, name)
    BY <2>2 DEF Augmented
  <2>3. CASE ~(q[p].augments = "" \/ ~Known(q, name))
    <3>1. nameToNode(q, name) \in 1..L
      BY <2>1, <2>3, KnownNode
    <3>2. q[nameToNode(q, name)] \in Nodes
      BY <3>1
    <3>3. Augmented(q, p) = IndexedLike(q, Children(q, p) \cup {p}, q[nameToNode(q, name)])
      BY <2>3 DEF Augmented
    <3> QED
      BY <3>2, <3>3, IndexedLikeNodes
  <2> QED
    BY <2>2, <2>3
<1>2. IsStepFor(G, X, L) /\ \A p \in 1..L, q \in X : G[p][q] = Augmented(q, p)
  <2> HIDE DEF X
  <2> QED
    BY <1>1 DEF IsStepFor
<1>3. PICK f : f \in [0..L -> X] /\ f[0] = t /\ \A p \in 1..L : f[p] = Augmented(f[p - 1], p)
  <2>1. t \in X
    OBVIOUS
  <2> HIDE DEF G, X
  <2>2. PICK f : Iterates(f, t, G, X, L)
    BY <1>2, <2>1, RecursionTo
  <2>3. \A p \in 1..L : f[p - 1] \in X
    BY <2>2 DEF Iterates
  <2> QED
    BY <1>2, <2>2, <2>3, ZenonT(30) DEF Iterates
<1> DEFINE Walks(g) == g = [p \in 0..L |-> IF p = 0 THEN t ELSE Augmented(g[p - 1], p)]
           walk == CHOOSE g : Walks(g)
<1>4. AugmentTo(t) = walk[L]
  <2>1. Len(t) = L
    OBVIOUS
  <2> QED
    BY <2>1 DEF AugmentTo
<1>5. Walks(f)
  <2> HIDE DEF X
  <2>1. \A p \in 0..L : p # 0 => p \in 1..L
    OBVIOUS
  <2> QED
    BY <1>3, <2>1
<1>6. Walks(walk)
  <2> HIDE DEF Walks
  <2> QED
    BY <1>5
<1>7. walk[0] = t /\ \A p \in 1..L : walk[p] = Augmented(walk[p - 1], p)
  <2> HIDE DEF walk
  <2>1. 0 \in 0..L /\ \A p \in 1..L : p \in 0..L /\ p # 0
    OBVIOUS
  <2> QED
    BY <2>1, <1>6
<1> HIDE DEF walk, Walks
<1> DEFINE P == {p \in 0..L : walk[p] \in X}
<1>8. 0 \in P
  BY <1>7
<1>9. ASSUME NEW p \in 1..L, p - 1 \in P PROVE p \in P
  <2> HIDE DEF X
  <2>1. walk[p - 1] \in X /\ walk[p] = Augmented(walk[p - 1], p)
    BY <1>7, <1>9
  <2> QED
    BY <1>1, <2>1
<1>10. L \in P
  <2> HIDE DEF P
  <2>1. \A p \in 0..L : p \in P
    BY <1>8, <1>9, InductionTo
  <2> QED
    BY <2>1
<1> QED
  BY <1>4, <1>10

\* The second walk: indexes are handed down, nothing else.
LEMMA PassFacts ==
  ASSUME NEW L \in Nat, NEW t \in [1..L -> Nodes]
  PROVE  PassTo(t) \in [1..L -> Nodes]
<1> DEFINE X == [1..L -> Nodes]
           G == [p \in 1..L |-> [q \in X |-> PassDown(q, p)]]
<1>1. \A p \in 1..L, q \in X : PassDown(q, p) \in X
  <2> SUFFICES ASSUME NEW p \in 1..L, NEW q \in X PROVE PassDown(q, p) \in X
    OBVIOUS
  <2>1. q[p] \in Nodes
    OBVIOUS
  <2> QED
    BY <2>1, IndexedLikeNodes DEF PassDown
<1>2. IsStepFor(G, X, L) /\ \A p \in 1..L, q \in X : G[p][q] = PassDown(q, p)
  <2> HIDE DEF X
  <2> QED
    BY <1>1 DEF IsStepFor
<1>3. PICK f : f \in [0..L -> X] /\ f[0] = t /\ \A p \in 1..L : f[p] = PassDown(f[p - 1], p)
  <2>1. t \in X
    OBVIOUS
  <2> HIDE DEF G, X
  <2>2. PICK f : Iterates(f, t, G, X, L)
    BY <1>2, <2>1, RecursionTo
  <2>3. \A p \in 1..L : f[p - 1] \in X
    BY <2>2 DEF Iterates
  <2> QED
    BY <1>2, <2>2, <2>3, ZenonT(30) DEF Iterates
<1> DEFINE Walks(g) == g = [p \in 0..L |-> IF p = 0 THEN t ELSE PassDown(g[p - 1], p)]
           walk == CHOOSE g : Walks(g)
<1>4. PassTo(t) = walk[L]
  <2>1. Len(t) = L
    OBVIOUS
  <2> QED
    BY <2>1 DEF PassTo
<1>5. Walks(f)
  <2> HIDE DEF X
  <2>1. \A p \in 0..L : p # 0 => p \in 1..L
    OBVIOUS
  <2> QED
    BY <1>3, <2>1
<1>6. Walks(walk)
  <2> HIDE DEF Walks
  <2> QED
    BY <1>5
<1>7. walk[0] = t /\ \A p \in 1..L : walk[p] = PassDown(walk[p - 1], p)
  <2> HIDE DEF walk
  <2>1. 0 \in 0..L /\ \A p \in 1..L : p \in 0..L /\ p # 0
    OBVIOUS
  <2> QED
    BY <2>1, <1>6
<1> HIDE DEF walk, Walks
<1> DEFINE P == {p \in 0..L : walk[p] \in X}
<1>8. 0 \in P
  BY <1>7
<1>9. ASSUME NEW p \in 1..L, p - 1 \in P PROVE p \in P
  <2> HIDE DEF X
  <2>1. walk[p - 1] \in X /\ walk[p] = PassDown(walk[p - 1], p)
    BY <1>7, <1>9
  <2> QED
    BY <1>1, <2>1
<1>10. L \in P
  <2> HIDE DEF P
  <2>1. \A p \in 0..L : p \in P
    BY <1>8, <1>9, InductionTo
  <2> QED
    BY <2>1
<1> QED
  BY <1>4, <1>10

\* A node of the tree as the module uses it, and as NetSNMP gave it.
AsGiven(n, m) ==
  /\ n.oid = m.oid /\ n.label = m.label /\ n.tc = m.tc /\ n.fixedSize = m.fixedSize /\ n.enums = m.enums
  /\ n.indexes \in Seq(STRING) /\ n.implied \in BOOLEAN

\* What prepareTree leaves of each node.
LEMMA PreparedNodes ==
  ASSUME NEW t \in Seq(Nodes), NEW p \in DOMAIN t
  PROVE  AsGiven(prepareTree(t)[p], t[p])
         /\ {"oid", "label", "tc", "fixedSize", "enums", "indexes", "implied"} \subseteq DOMAIN prepareTree(t)[p]
<1> DEFINE L == Len(t)
           fixed == [q \in DOMAIN t |-> FixIndexes(t[q])]
           g == PassTo(AugmentTo(fixed))
<1>1. L \in Nat /\ DOMAIN t = 1..L
  OBVIOUS
<1>2. \A q \in 1..L : FixIndexes(t[q]) \in Nodes
  <2> SUFFICES ASSUME NEW q \in 1..L PROVE FixIndexes(t[q]) \in Nodes
    OBVIOUS
  <2> DEFINE n == t[q]
             fix == [k \in DOMAIN n.indexes |-> IF n.indexes[k] = "INTEGER" THEN n.label ELSE n.indexes[k]]
  <2>1. n \in Nodes
    BY <1>1
  <2> HIDE DEF n
  <2>2. n.indexes \in Seq(STRING) /\ n.label \in STRING
    BY <2>1 DEF Nodes
  <2>3. fix \in Seq(STRING)
    BY <2>2
  <2>4. FixIndexes(n) = [n EXCEPT !.indexes = fix]
    BY DEF FixIndexes
  <2> HIDE DEF fix
  <2>5. FixIndexes(n) \in Nodes
    BY <2>1, <2>3, <2>4 DEF Nodes
  <2> QED
    BY <2>5 DEF n
<1>3. fixed \in [1..L -> Nodes]
  BY <1>1, <1>2
<1>4. g \in [1..L -> Nodes]
  <2> HIDE DEF fixed, L
  <2> QED
    BY <1>1, <1>3, AugmentFacts, PassFacts
<1>5. prepareTree(t)[p] = [t[p] EXCEPT !.type = TweakedType(t[p]), !.indexes = g[p].indexes, !.implied = g[p].implied]
  BY DEF prepareTree
<1> HIDE DEF g, fixed
<1>6. g[p] \in Nodes /\ t[p] \in Nodes
  BY <1>1, <1>4
<1>7. g[p].indexes \in Seq(STRING) /\ g[p].implied \in BOOLEAN
  BY <1>6 DEF Nodes
<1> QED
  BY <1>5, <1>6, <1>7 DEF AsGiven, Nodes

\* The nodes of the module's tree are those of the MIB, but for types, and names
\* stand for the same nodes.
LEMMA TreeNodes ==
  ASSUME InHand
  PROVE  /\ scenario.tree \in Seq(Nodes) /\ DOMAIN tree = 1..Len(scenario.tree)
         /\ \A q \in DOMAIN tree : AsGiven(tree[q], scenario.tree[q]) /\ scenario.tree[q] \in Nodes
         /\ \A name : Known(tree, name) => nameToNode(tree, name) \in DOMAIN tree /\ nameToNode(tree, name) \in Named(tree, name)
<1>1. scenario.tree \in Seq(Nodes)
  BY GeneratorAssumption DEF InHand
<1>2. DOMAIN mib = DOMAIN scenario.tree
  BY <1>1, PreparedTree DEF mib
<1>3. SameButTypes(tree, mib)
  BY DEF InHand
<1>4. DOMAIN tree = 1..Len(scenario.tree) /\ Len(scenario.tree) \in Nat
  BY <1>1, <1>2, <1>3 DEF SameButTypes
<1>5. ASSUME NEW q \in DOMAIN tree PROVE AsGiven(tree[q], scenario.tree[q])
  <2>1. /\ AsGiven(mib[q], scenario.tree[q])
        /\ {"oid", "label", "tc", "fixedSize", "enums", "indexes", "implied"} \subseteq DOMAIN mib[q]
    BY <1>1, <1>4, PreparedNodes DEF mib
  <2>2. DOMAIN tree[q] = DOMAIN mib[q] /\ \A f \in DOMAIN tree[q] \ {"type"} : tree[q][f] = mib[q][f]
    BY <1>3 DEF SameButTypes
  <2>3. \A f \in {"oid", "label", "tc", "fixedSize", "enums", "indexes", "implied"} : tree[q][f] = mib[q][f]
    BY <2>1, <2>2
  <2> QED
    BY <2>1, <2>3 DEF AsGiven
<1>6. \A q \in DOMAIN tree : scenario.tree[q] \in Nodes
  BY <1>1, <1>4
<1> QED
  BY <1>1, <1>4, <1>5, <1>6, KnownNode

-----------------------------------------------------------------------------
(* The indexes of a metric, object by object                                  *)

\* What Indexes collects, object by object.
MadeIndexes == {IndexOf(l, tree[q], b) : l \in STRING, q \in DOMAIN tree, b \in BOOLEAN}
Results == {"metric", "skipped", "panicked"}
Types == STRING \cup {""}
CollectedFrom(M) == [result : Results, indexes : Seq(M), prevType : Types, prev2Type : Types]
Collected == CollectedFrom(MadeIndexes)
\* A is the recursive function of Indexes.
Collects(A, n) ==
  /\ A \in [0..Len(n.indexes) -> Collected]
  /\ A[0] = NoIndexes /\ Indexes(n) = A[Len(n.indexes)]
  /\ \A k \in 1..Len(n.indexes) : A[k] = AddIndex(n, A[k - 1], k)

\* The node, the index and the address of the k-th index object of n.
Place(n, k) == nameToNode(tree, Label(n.indexes[k]))
IndexAt(n, k) == IndexOf(n.indexes[k], tree[Place(n, k)], n.implied /\ k = Len(n.indexes))
IsCombined(n, k) == IndexAt(n, k).type \in DOMAIN combinedTypes
TakenAt(n, acc, k) ==
  IF IsCombined(n, k) THEN Taken(combinedTypes[IndexAt(n, k).type], acc) ELSE 0
\* What AddIndex does with a node whose indexes can all be decoded.
IsAdded(n, acc, k, next) ==
  /\ Known(tree, Label(n.indexes[k]))
  /\ IsCombined(n, k) => TakenAt(n, acc, k) # 0
  /\ TakenAt(n, acc, k) <= Len(acc.indexes)
  /\ next.indexes = Append(SubSeq(acc.indexes, 1, Len(acc.indexes) - TakenAt(n, acc, k)), IndexAt(n, k))
  /\ next.prevType = tree[Place(n, k)].tc /\ next.prev2Type = acc.prevType

\* The fields of what was collected.
LEMMA CollectedFacts ==
  ASSUME NEW M, NEW acc \in CollectedFrom(M)
  PROVE  /\ \A r \in Results : [acc EXCEPT !.result = r] \in CollectedFrom(M)
         /\ \A s \in Seq(M), t \in Types :
              [acc EXCEPT !.indexes = s, !.prevType = t, !.prev2Type = acc.prevType] \in CollectedFrom(M)
<1>3. \A r \in Results : [acc EXCEPT !.result = r] \in CollectedFrom(M)
  BY DEF CollectedFrom
<1>4. \A s \in Seq(M), t \in Types :
        [acc EXCEPT !.indexes = s, !.prevType = t, !.prev2Type = acc.prevType] \in CollectedFrom(M)
  BY DEF CollectedFrom
<1> QED
  BY <1>3, <1>4

LEMMA EmptyCollected == ASSUME NEW M PROVE NoIndexes \in CollectedFrom(M)
<1>1. <<>> \in Seq(M) /\ "metric" \in Results /\ "" \in Types
  BY DEF Results, Types
<1> QED
  BY <1>1 DEF NoIndexes, CollectedFrom

\* One more object: an index is added, for the objects it takes, or the node is
\* left out.
LEMMA AddedIndex ==
  ASSUME NEW n, NEW acc \in Collected, NEW k, acc.result = "metric" => AddIndex(n, acc, k).result = "metric"
  PROVE  acc.result = "metric" => IsAdded(n, acc, k, AddIndex(n, acc, k))
<1> SUFFICES ASSUME acc.result = "metric" PROVE IsAdded(n, acc, k, AddIndex(n, acc, k))
  OBVIOUS
<1> DEFINE label == Label(n.indexes[k])
           node == tree[nameToNode(tree, label)]
           index == IndexOf(n.indexes[k], node, n.implied /\ k = Len(n.indexes))
           combined == index.type \in DOMAIN combinedTypes
           taken == IF combined THEN Taken(combinedTypes[index.type], acc) ELSE 0
           skips == ~Known(tree, label) \/ node.type \notin DOMAIN metricType \/ (combined /\ taken = 0)
           panics == taken > Len(acc.indexes)
           longer == [acc EXCEPT !.indexes = Append(SubSeq(@, 1, Len(@) - taken), index),
                                 !.prevType = node.tc, !.prev2Type = acc.prevType]
<1>1. AddIndex(n, acc, k) =
        IF skips THEN [acc EXCEPT !.result = "skipped"]
        ELSE IF panics THEN [acc EXCEPT !.result = "panicked"] ELSE longer
  BY DEF AddIndex
<1>2. index = IndexAt(n, k) /\ combined = IsCombined(n, k) /\ taken = TakenAt(n, acc, k) /\ node = tree[Place(n, k)]
  BY DEF IndexAt, IsCombined, TakenAt, Place
<1>3. \A r : [acc EXCEPT !.result = r].result = r
  BY DEF Collected, CollectedFrom
<1>4. Len(acc.indexes) \in Nat /\ taken \in {0, 1, 2}
  BY DEF Collected, CollectedFrom, Taken
<1>5. /\ longer.indexes = Append(SubSeq(acc.indexes, 1, Len(acc.indexes) - taken), index)
      /\ longer.prevType = node.tc /\ longer.prev2Type = acc.prevType
  <2> HIDE DEF taken, index, node
  <2> QED
    BY DEF Collected, CollectedFrom
<1> HIDE DEF longer
<1>6. ~skips /\ ~panics
  <2> HIDE DEF skips, panics
  <2> QED
    BY <1>1, <1>3
<1>7. AddIndex(n, acc, k) = longer
  <2> HIDE DEF skips, panics
  <2> QED
    BY <1>1, <1>6
<1>8. Known(tree, label) /\ (combined => taken # 0) /\ taken <= Len(acc.indexes)
  <2> HIDE DEF taken, combined
  <2> QED
    BY <1>4, <1>6
<1> HIDE DEF label, taken, combined, index, node
<1> QED
  BY <1>2, <1>5, <1>7, <1>8 DEF IsAdded, label

\* Indexes goes through the index objects of a node.
LEMMA IndexesFacts ==
  ASSUME InHand, NEW p \in DOMAIN tree
  PROVE  \E A : Collects(A, tree[p])
<1> DEFINE n == tree[p]
           L == Len(n.indexes)
           X == Collected
           G == [k \in 1..L |-> [q \in X |-> AddIndex(n, q, k)]]
<1>1. n.indexes \in Seq(STRING) /\ n.implied \in BOOLEAN
  BY TreeNodes DEF AsGiven
<1>2. L \in Nat /\ \A k \in 1..L : n.indexes[k] \in STRING
  BY <1>1
<1> HIDE DEF n
<1>3. ASSUME NEW k \in 1..L, NEW acc \in X PROVE AddIndex(n, acc, k) \in X
  <2> DEFINE label == Label(n.indexes[k])
             node == tree[nameToNode(tree, label)]
             index == IndexOf(n.indexes[k], node, n.implied /\ k = Len(n.indexes))
             combined == index.type \in DOMAIN combinedTypes
             taken == IF combined THEN Taken(combinedTypes[index.type], acc) ELSE 0
             skips == ~Known(tree, label) \/ node.type \notin DOMAIN metricType \/ (combined /\ taken = 0)
             panics == taken > Len(acc.indexes)
             kept == SubSeq(acc.indexes, 1, Len(acc.indexes) - taken)
             longer == [acc EXCEPT !.indexes = Append(SubSeq(@, 1, Len(@) - taken), index),
                                   !.prevType = node.tc, !.prev2Type = acc.prevType]
  <2>1. AddIndex(n, acc, k) =
          IF acc.result # "metric" THEN acc
          ELSE IF skips THEN [acc EXCEPT !.result = "skipped"]
          ELSE IF panics THEN [acc EXCEPT !.result = "panicked"] ELSE longer
    BY DEF AddIndex
  <2>2. [acc EXCEPT !.result = "skipped"] \in X /\ [acc EXCEPT !.result = "panicked"] \in X
    <3>1. "skipped" \in Results /\ "panicked" \in Results
      BY DEF Results
    <3> QED
      BY <3>1, CollectedFacts DEF Collected
  <2>3. ASSUME ~skips, ~panics PROVE longer \in X
    <3>1. nameToNode(tree, label) \in DOMAIN tree
      BY <2>3, TreeNodes
    <3>2. node.tc \in Types
      BY <3>1, TreeNodes DEF AsGiven, Nodes, Types
    <3>3. index \in MadeIndexes
      <4>1. (n.implied /\ k = Len(n.indexes)) \in BOOLEAN
        OBVIOUS
      <4>2. n.indexes[k] \in STRING
        BY <1>2
      <4> DEFINE b == n.implied /\ k = Len(n.indexes)
                 q == nameToNode(tree, label)
                 l == n.indexes[k]
      <4>3. index = IndexOf(l, tree[q], b)
        OBVIOUS
      <4>4. l \in STRING /\ q \in DOMAIN tree /\ b \in BOOLEAN
        BY <3>1, <4>1, <4>2
      <4> HIDE DEF index, b, q, l
      <4> QED
        BY <4>3, <4>4 DEF MadeIndexes
    <3>4. acc.indexes \in Seq(MadeIndexes) /\ acc.prevType \in Types
      BY DEF Collected, CollectedFrom
    <3>5. taken \in {0, 1, 2} /\ ~(taken > Len(acc.indexes))
      BY <2>3 DEF Taken
    <3> HIDE DEF node, index, taken
    <3>6. kept \in Seq(MadeIndexes)
      BY <3>4, <3>5
    <3>7. Append(kept, index) \in Seq(MadeIndexes)
      BY <3>3, <3>6
    <3>8. longer = [acc EXCEPT !.indexes = Append(kept, index), !.prevType = node.tc, !.prev2Type = acc.prevType]
      OBVIOUS
    <3> HIDE DEF longer, kept
    <3> QED
      BY <3>2, <3>7, <3>8, CollectedFacts DEF Collected
  <2> HIDE DEF skips, panics, longer
  <2> QED
    BY <2>1, <2>2, <2>3
<1>4. NoIndexes \in X
  BY EmptyCollected DEF Collected
<1>5. IsStepFor(G, X, L) /\ \A k \in 1..L, q \in X : G[k][q] = AddIndex(n, q, k)
  <2> HIDE DEF X
  <2> QED
    BY <1>3 DEF IsStepFor
<1>6. PICK f : f \in [0..L -> X] /\ f[0] = NoIndexes /\ \A k \in 1..L : f[k] = AddIndex(n, f[k - 1], k)
  <2> HIDE DEF G, X, L
  <2>2. PICK f : Iterates(f, NoIndexes, G, X, L)
    BY <1>2, <1>4, <1>5, RecursionTo
  <2>3. \A k \in 1..L : f[k - 1] \in X
    BY <1>2, <2>2 DEF Iterates
  <2> QED
    BY <1>5, <2>2, <2>3, ZenonT(30) DEF Iterates
<1> DEFINE Adds(g) == g = [k \in 0..L |-> IF k = 0 THEN NoIndexes ELSE AddIndex(n, g[k - 1], k)]
           upTo == CHOOSE g : Adds(g)
<1>7. Indexes(n) = upTo[L]
  BY DEF Indexes
<1>8. Adds(f)
  <2> HIDE DEF X, L
  <2>1. \A k \in 0..L : k # 0 => k \in 1..L
    BY <1>2
  <2> QED
    BY <1>6, <2>1
<1>9. Adds(upTo)
  <2> HIDE DEF Adds
  <2> QED
    BY <1>8
<1>10. upTo[0] = NoIndexes /\ \A k \in 1..L : upTo[k] = AddIndex(n, upTo[k - 1], k)
  <2> HIDE DEF upTo, L
  <2>1. 0 \in 0..L /\ \A k \in 1..L : k \in 0..L /\ k # 0
    BY <1>2
  <2> QED
    BY <2>1, <1>9
<1>11. DOMAIN upTo = 0..L
  <2> HIDE DEF upTo, L
  <2> QED
    BY <1>9
<1> HIDE DEF upTo, Adds
<1> DEFINE P == {k \in 0..L : upTo[k] \in X}
<1>12. 0 \in P
  BY <1>2, <1>4, <1>10
<1>13. ASSUME NEW k \in 1..L, k - 1 \in P PROVE k \in P
  <2> HIDE DEF X, L
  <2>1. upTo[k - 1] \in X /\ upTo[k] = AddIndex(n, upTo[k - 1], k)
    BY <1>10, <1>13
  <2> QED
    BY <1>2, <1>3, <2>1
<1>14. \A k \in 0..L : upTo[k] \in X
  <2> HIDE DEF P, L
  <2>1. \A k \in 0..L : k \in P
    BY <1>2, <1>12, <1>13, InductionTo
  <2> QED
    BY <2>1 DEF P
<1>15. upTo \in [0..L -> X]
  <2>1. upTo = [k \in 0..L |-> upTo[k]]
    <3> HIDE DEF X, L
    <3> QED
      BY <1>9, <1>11 DEF Adds
  <2> HIDE DEF X, L
  <2> QED
    BY <1>14, <2>1
<1>16. Collects(upTo, n)
  BY <1>7, <1>10, <1>15 DEF Collects
<1> QED
  BY <1>16 DEF n

\* When the node is a metric, each of its index objects is.
LEMMA AllAdded ==
  ASSUME InHand, NEW p \in DOMAIN tree, Indexes(tree[p]).result = "metric", NEW A, Collects(A, tree[p])
  PROVE  \A k \in 1..Len(tree[p].indexes) : IsAdded(tree[p], A[k - 1], k, A[k])
<1> DEFINE n == tree[p]
           L == Len(n.indexes)
<1>1. L \in Nat
  <2>1. n.indexes \in Seq(STRING)
    BY TreeNodes DEF AsGiven
  <2> QED
    BY <2>1
<1>2. /\ \A k \in 0..L : A[k] \in Collected
      /\ A[L].result = "metric" /\ \A k \in 1..L : A[k] = AddIndex(n, A[k - 1], k)
  BY DEF Collects
<1> HIDE DEF n, L
<1> DEFINE S == {j \in 0..L : A[L - j].result = "metric"}
<1>3. 0 \in S
  BY <1>1, <1>2
<1>4. ASSUME NEW j \in 1..L, j - 1 \in S PROVE j \in S
  <2> DEFINE k == L - j
  <2>1. k \in 0..L /\ k + 1 \in 1..L /\ (k + 1) - 1 = k /\ L - (j - 1) = k + 1
    BY <1>1
  <2>2. A[k + 1].result = "metric" /\ A[k + 1] = AddIndex(n, A[k], k + 1)
    <3>1. A[L - (j - 1)].result = "metric"
      BY <1>4
    <3> HIDE DEF k
    <3> QED
      BY <1>2, <2>1, <3>1
  <2>3. A[k].result # "metric" => AddIndex(n, A[k], k + 1) = A[k]
    BY DEF AddIndex
  <2>4. A[k].result = "metric"
    BY <2>2, <2>3
  <2> QED
    BY <2>4
<1>5. \A k \in 0..L : A[k].result = "metric"
  <2> SUFFICES ASSUME NEW k \in 0..L PROVE A[k].result = "metric"
    OBVIOUS
  <2>1. \A j \in 0..L : j \in S
    <3> HIDE DEF S
    <3> QED
      BY <1>1, <1>3, <1>4, InductionTo
  <2>2. L - k \in 0..L /\ L - (L - k) = k
    BY <1>1
  <2>3. L - k \in S
    BY <2>1, <2>2
  <2> QED
    BY <2>2, <2>3
<1>6. ASSUME NEW k \in 1..L PROVE IsAdded(n, A[k - 1], k, A[k])
  <2>1. k - 1 \in 0..L /\ k \in 0..L
    BY <1>1
  <2> QED
    BY <1>2, <1>5, <2>1, AddedIndex
<1> QED
  BY <1>6 DEF n, L

-----------------------------------------------------------------------------
(* Index objects by the type they are decoded with                            *)

\* The object n may be decoded as type T: what Decodable says of it.
Fits(n, T) ==
  /\ n \in Nodes
  /\ Conventional(n) /\ TweakedType(n) \in DOMAIN metricType
  /\ MibType(n) \in IndexTypes /\ n.type # "BITSTRING"
  /\ MibType(n) = "PhysAddress48" => n.fixedSize = 6
  /\ KeepsEncoding(MibType(n), T)

Singles == Numbers \cup {"EnumAsInfo"}
IpTypes == {"IpAddr", "IPADDR", "NETADDR"}
Inet == {"InetAddress", "InetAddressMissingSize"}
PairTypes == {"InetAddressType", "InetAddress", "LldpPortIdSubtype", "LldpPortId"}

LEMMA ItselfIs ==
  Itself = {"gauge", "counter", "OctetString", "PhysAddress48", "DisplayString", "Float", "Double",
            "InetAddressIPv4", "InetAddressIPv6", "DateAndTime", "ParseDateAndTime", "NTPTimeStamp",
            "EnumAsInfo", "EnumAsStateSet", "InetAddress", "InetAddressMissingSize", "LldpPortId"}
BY DEF Itself, combinedTypes

\* Types of the MIB by the type they are generated as.
LEMMA MetricTypes ==
  \A t \in DOMAIN metricType :
    metricType[t] = IF t \in Itself THEN t
                    ELSE IF t \in {"COUNTER", "COUNTER64"} THEN "counter"
                    ELSE IF t \in {"OCTETSTR", "OBJID"} THEN "OctetString"
                    ELSE IF t = "BITSTRING" THEN "Bits"
                    ELSE IF t \in IpTypes THEN "InetAddressIPv4"
                    ELSE "gauge"
<1> DEFINE of(t) == CASE t \in Itself -> t
                      [] t \in {"COUNTER", "COUNTER64"} -> "counter"
                      [] t \in {"OCTETSTR", "OBJID"} -> "OctetString"
                      [] t = "BITSTRING" -> "Bits"
                      [] t \in {"IpAddr", "IPADDR", "NETADDR"} -> "InetAddressIPv4"
                      [] OTHER -> "gauge"
<1>1. \A t \in DOMAIN metricType : metricType[t] = of(t)
  BY DEF metricType
<1>2. \A t \in Itself :
        t \notin {"COUNTER", "COUNTER64", "OCTETSTR", "OBJID", "BITSTRING", "IpAddr", "IPADDR", "NETADDR"}
  BY ItselfIs
<1>3. \A t : of(t) = IF t \in Itself THEN t
                    ELSE IF t \in {"COUNTER", "COUNTER64"} THEN "counter"
                    ELSE IF t \in {"OCTETSTR", "OBJID"} THEN "OctetString"
                    ELSE IF t = "BITSTRING" THEN "Bits"
                    ELSE IF t \in IpTypes THEN "InetAddressIPv4"
                    ELSE "gauge"
  BY <1>2 DEF IpTypes
<1> HIDE DEF of
<1> QED
  BY <1>1, <1>3

LEMMA CombinedTypes == Combined = Inet \cup {"LldpPortId"} /\ DOMAIN combinedTypes = Inet \cup {"LldpPortId"}
BY DEF Combined, combinedTypeMapping, combinedTypes, Inet

LEMMA AddressSizes ==
  /\ DOMAIN Addresses = {"PhysAddress48", "InetAddressIPv4", "InetAddressIPv6"}
  /\ Addresses["PhysAddress48"] = 6 /\ Addresses["InetAddressIPv4"] = 4 /\ Addresses["InetAddressIPv6"] = 16
BY DEF Addresses

LEMMA MibTypes ==
  ASSUME NEW n \in Nodes
  PROVE  MibType(n) = IF n.enums # {} /\ TweakedType(n) \notin {"EnumAsStateSet", "gauge"} THEN "EnumAsInfo"
                      ELSE metricType[TweakedType(n)]
<1> DEFINE m == [n EXCEPT !.type = TweakedType(n)]
<1>1. m.enums = n.enums /\ m.type = TweakedType(n)
  BY DEF Nodes
<1>2. MibType(n) = LabelType(m)
  BY DEF MibType
<1> HIDE DEF m
<1> QED
  BY <1>1, <1>2 DEF LabelType, Enumerated

\* What the MIB type of an index object says of it.
IsKind(n, T) ==
  \/ T \in Singles /\ ~Octetted(n) /\ n.type \notin IpTypes /\ n.tc \notin {"InetAddress", "LldpPortId"}
  \/ T \in Strings /\ Octetted(n) /\ n.tc \notin PairTypes
  \/ T \in DOMAIN Addresses /\ Octetted(n) /\ n.fixedSize = Addresses[T] /\ n.tc \notin PairTypes
  \/ T = "InetAddressIPv4" /\ ~Octetted(n) /\ n.type \in IpTypes /\ n.tc \notin PairTypes
  \/ T = "InetAddress" /\ n.tc = "InetAddress" /\ Octetted(n)
  \/ T = "LldpPortId" /\ n.tc = "LldpPortId" /\ Octetted(n)

\* What kind of object a generated type stands for.
LEMMA MibKinds ==
  ASSUME NEW n, NEW T, Fits(n, T)
  PROVE  IsKind(n, MibType(n))
<1> DEFINE W == TweakedType(n)
           M == MibType(n)
<1> SUFFICES IsKind(n, M)
  OBVIOUS
<1>1. /\ n \in Nodes /\ W \in DOMAIN metricType /\ M \in IndexTypes /\ n.type # "BITSTRING"
      /\ M = "PhysAddress48" => n.fixedSize = 6
  BY DEF Fits
<1>2. /\ n.type \notin Itself
      /\ n.enums # {} => n.type = "INTEGER"
      /\ n.tc \in OwnTypes \cup {"PhysAddress"} \/ n.hint \in TextHints \cup {"1x:"} => n.type = "OCTETSTR"
      /\ n.tc \in {"InetAddressType", "LldpPortIdSubtype"} => n.type = "INTEGER"
      /\ n.tc = "InetAddressIPv4" => n.fixedSize = 4
      /\ n.tc = "InetAddressIPv6" => n.fixedSize = 16
  BY <1>1 DEF Fits, Conventional
<1>3. M = IF n.enums # {} /\ W \notin {"EnumAsStateSet", "gauge"} THEN "EnumAsInfo" ELSE metricType[W]
  BY <1>1, MibTypes
<1>4. n.type = "OCTETSTR" => Octetted(n) /\ M = metricType[W]
  BY <1>2, <1>3 DEF Octetted
<1>5. IndexTypes = Inet \cup {"LldpPortId"} \cup DOMAIN Addresses \cup Numbers \cup Strings \cup {"EnumAsInfo"}
  BY CombinedTypes DEF IndexTypes
<1> HIDE DEF M
<1>6. CASE n.tc \in OwnTypes
  <2>1. W = n.tc
    BY <1>6 DEF TweakedType, OwnTypes
  <2>2. W \in Itself /\ n.type = "OCTETSTR"
    BY <1>2, <1>6, <2>1, ItselfIs DEF OwnTypes
  <2>3. M = n.tc /\ Octetted(n)
    BY <1>1, <1>4, <2>1, <2>2, MetricTypes
  <2>4. M \in {"DisplayString", "InetAddressIPv4", "InetAddressIPv6", "InetAddress", "LldpPortId"}
    BY <1>1, <1>5, <1>6, <2>3, AddressSizes DEF OwnTypes, Inet, Numbers, Strings
  <2> QED
    BY <1>2, <2>3, <2>4, AddressSizes DEF IsKind, Strings, PairTypes
<1>7. CASE n.tc = "PhysAddress"
  <2>1. W = "PhysAddress48" /\ n.tc \notin PairTypes
    BY <1>7 DEF TweakedType, OwnTypes, PairTypes
  <2>2. M = "PhysAddress48" /\ Octetted(n)
    BY <1>1, <1>2, <1>4, <1>7, <2>1, MetricTypes, ItselfIs
  <2> QED
    BY <1>1, <2>1, <2>2, AddressSizes DEF IsKind
<1>8. CASE n.tc \notin OwnTypes \cup {"PhysAddress"} /\ n.hint \in TextHints
  <2>1. W = "DisplayString"
    BY <1>8 DEF TweakedType, OwnTypes, TextHints
  <2>2. M = "DisplayString" /\ Octetted(n) /\ n.tc \notin {"InetAddressType", "LldpPortIdSubtype"}
    BY <1>1, <1>2, <1>4, <1>8, <2>1, MetricTypes, ItselfIs
  <2> QED
    BY <1>8, <2>2 DEF IsKind, Strings, PairTypes, OwnTypes
<1>9. CASE n.tc \notin OwnTypes \cup {"PhysAddress"} /\ n.hint = "1x:" /\ n.fixedSize \in {0, 6}
  <2>1. W = "PhysAddress48"
    BY <1>9 DEF TweakedType, TextHints
  <2>2. M = "PhysAddress48" /\ Octetted(n) /\ n.tc \notin {"InetAddressType", "LldpPortIdSubtype"}
    BY <1>1, <1>2, <1>4, <1>9, <2>1, MetricTypes, ItselfIs
  <2> QED
    BY <1>1, <1>9, <2>2, AddressSizes DEF IsKind, PairTypes, OwnTypes
<1>10. CASE n.tc \notin OwnTypes \cup {"PhysAddress"} /\ n.hint \notin TextHints /\ ~(n.hint = "1x:" /\ n.fixedSize \in {0, 6})
  <2>1. W = n.type
    BY <1>10 DEF TweakedType
  <2>2. n.tc \notin {"InetAddress", "LldpPortId"}
    BY <1>10 DEF OwnTypes
  <2>3. CASE n.type \in {"OCTETSTR", "OBJID"}
    <3>1. M = "OctetString" /\ Octetted(n)
      BY <1>1, <1>2, <1>3, <2>1, <2>3, MetricTypes DEF Octetted
    <3> QED
      BY <1>2, <2>2, <2>3, <3>1 DEF IsKind, Strings, PairTypes
  <2>4. CASE n.type \in IpTypes
    <3>1. M = "InetAddressIPv4" /\ ~Octetted(n)
      BY <1>1, <1>2, <1>3, <2>1, <2>4, MetricTypes DEF Octetted, IpTypes
    <3> QED
      BY <1>2, <2>2, <2>4, <3>1 DEF IsKind, PairTypes, IpTypes
  <2>5. CASE n.type \notin {"OCTETSTR", "OBJID"} \cup IpTypes
    <3>1. M \in {"gauge", "counter", "EnumAsInfo"} /\ ~Octetted(n)
      BY <1>1, <1>2, <1>3, <2>1, <2>5, MetricTypes DEF Octetted
    <3> QED
      BY <2>2, <2>5, <3>1 DEF IsKind, Singles, Numbers
  <2> QED
    BY <2>3, <2>4, <2>5
<1> QED
  BY <1>6, <1>7, <1>8, <1>9, <1>10

\* The type that is generated is of the same kind.
MadeKind(n, T) == IsKind(n, T) \/ (T = "InetAddressMissingSize" /\ n.tc = "InetAddress" /\ Octetted(n))
\* The same after overrides that keep the encoding.
LEMMA MadeKinds ==
  ASSUME NEW n, NEW T, Fits(n, T)
  PROVE  MadeKind(n, T)
<1> DEFINE M == MibType(n)
<1>1. IsKind(n, M) /\ KeepsEncoding(M, T)
  BY MibKinds DEF Fits
<1> HIDE DEF M
<1>2. CASE T = M
  BY <1>1, <1>2 DEF MadeKind
<1>3. CASE T = "InetAddressMissingSize" /\ M = "InetAddress"
  <2>1. M \notin Singles \cup Strings \cup DOMAIN Addresses
    BY <1>3, AddressSizes DEF Singles, Numbers, Strings
  <2> QED
    BY <1>1, <1>3, <2>1 DEF MadeKind, IsKind
<1>4. CASE M \in Strings /\ T \in Strings
  <2>1. M \notin Singles \cup DOMAIN Addresses \cup {"InetAddress", "LldpPortId", "InetAddressIPv4"}
    BY <1>4, AddressSizes DEF Singles, Numbers, Strings
  <2> QED
    BY <1>1, <1>4, <2>1 DEF MadeKind, IsKind
<1>5. CASE M \in Singles /\ T \in Singles
  <2>1. M \notin Strings \cup DOMAIN Addresses \cup {"InetAddress", "LldpPortId", "InetAddressIPv4"}
    BY <1>5, AddressSizes DEF Singles, Numbers, Strings
  <2> QED
    BY <1>1, <1>5, <2>1 DEF MadeKind, IsKind
<1>6. T = M \/ (T = "InetAddressMissingSize" /\ M = "InetAddress") \/ (M \in Strings /\ T \in Strings)
        \/ (M \in Singles /\ T \in Singles)
  BY <1>1 DEF KeepsEncoding, Singles
<1> QED
  BY <1>2, <1>3, <1>4, <1>5, <1>6

-----------------------------------------------------------------------------
(* The values of index objects and their encoding                             *)

\* The value of a string that is no address of two objects.
StringValue(n) == [k \in 1..(IF n.fixedSize > 0 THEN n.fixedSize ELSE 2) |-> (64 + k) % 256]
\* Values are octets, or one number.
LEMMA Values ==
  ASSUME NEW n, NEW T, MadeKind(n, T)
  PROVE  Value(n) = IF T \in Singles
                      THEN (IF n.tc = "InetAddressType" THEN <<1>>
                            ELSE IF n.tc = "LldpPortIdSubtype" THEN <<3>> ELSE <<2>>)
                    ELSE IF T \in Inet THEN <<10, 0, 0, 9>>
                    ELSE IF T = "LldpPortId" THEN <<0, 1, 2, 3, 4, 0>>
                    ELSE IF Octetted(n) THEN StringValue(n) ELSE <<10, 0, 0, 1>>
<1> DEFINE V == Value(n)
<1>1. V = CASE n.tc = "InetAddressType" -> <<1>>
            [] n.tc = "InetAddress" -> <<10, 0, 0, 9>>
            [] n.tc = "LldpPortIdSubtype" -> <<3>>
            [] n.tc = "LldpPortId" -> <<0, 1, 2, 3, 4, 0>>
            [] n.type \in IpTypes -> <<10, 0, 0, 1>>
            [] Octetted(n) /\ n.tc \notin {"InetAddress", "LldpPortId"} -> StringValue(n)
            [] OTHER -> <<2>>
  BY DEF Value, IpTypes, StringValue
<1>2. Octetted(n) => n.type \notin IpTypes
  BY DEF Octetted, IpTypes
<1>3. \A t \in Singles : t \notin Strings /\ t \notin DOMAIN Addresses /\ t \notin Inet /\ t # "LldpPortId"
  BY AddressSizes DEF Singles, Numbers, Strings, Inet
<1>4. \A t \in Inet \cup {"LldpPortId"} : t \notin Strings /\ t \notin DOMAIN Addresses
  BY AddressSizes DEF Strings, Inet
<1>5. "LldpPortId" \notin Inet /\ "InetAddressIPv4" \in DOMAIN Addresses
  BY AddressSizes DEF Inet
<1>6. "InetAddress" \in Inet /\ "InetAddressMissingSize" \in Inet
  BY DEF Inet
<1> HIDE DEF V
<1>7. CASE T \in Singles
  <2>1. ~Octetted(n) /\ n.type \notin IpTypes /\ n.tc \notin {"InetAddress", "LldpPortId"}
    BY <1>3, <1>5, <1>6, <1>7 DEF MadeKind, IsKind
  <2>2. V = IF n.tc = "InetAddressType" THEN <<1>> ELSE IF n.tc = "LldpPortIdSubtype" THEN <<3>> ELSE <<2>>
    BY <1>1, <2>1
  <2> QED
    BY <1>7, <2>2 DEF V
<1>8. CASE T \in Inet
  <2>1. n.tc = "InetAddress" /\ Octetted(n)
    BY <1>3, <1>4, <1>5, <1>8 DEF MadeKind, IsKind
  <2>2. V = <<10, 0, 0, 9>>
    BY <1>1, <1>2, <2>1
  <2> QED
    BY <1>3, <1>8, <2>2 DEF V
<1>9. CASE T = "LldpPortId"
  <2>1. n.tc = "LldpPortId" /\ Octetted(n)
    BY <1>3, <1>4, <1>5, <1>6, <1>9 DEF MadeKind, IsKind
  <2>2. V = <<0, 1, 2, 3, 4, 0>>
    BY <1>1, <1>2, <2>1
  <2> QED
    BY <1>3, <1>5, <1>9, <2>2 DEF V
<1>10. CASE T \notin Singles \cup Inet \cup {"LldpPortId"}
  <2>1. n.tc \notin PairTypes /\ (Octetted(n) \/ n.type \in IpTypes)
    BY <1>6, <1>10 DEF MadeKind, IsKind
  <2>2. V = IF Octetted(n) THEN StringValue(n) ELSE <<10, 0, 0, 1>>
    BY <1>1, <1>2, <2>1 DEF PairTypes
  <2> QED
    BY <1>10, <2>2 DEF V
<1> QED
  BY <1>7, <1>8, <1>9, <1>10

Bytes == 0..255
\* A value is octets, or a number, and begins with its length where it may vary.
IsPiece(n, T) ==
  /\ Value(n) \in Seq(Bytes) /\ Value(n) # <<>>
  /\ T \in Singles => Len(Value(n)) = 1 /\ ~Octetted(n)
  /\ T \in DOMAIN Addresses => Len(Value(n)) = Addresses[T] /\ (Octetted(n) => n.fixedSize # 0)
  /\ T \in Strings => Octetted(n) /\ (n.fixedSize # 0 => Len(Value(n)) = n.fixedSize)
  /\ T \in Inet => Len(Value(n)) = 4
  /\ T = "LldpPortId" => Len(Value(n)) = 6
  /\ n.tc = "InetAddressType" => T \in Singles /\ Value(n) = <<1>>
  /\ n.tc = "LldpPortIdSubtype" => T \in Singles /\ Value(n) = <<3>>

LEMMA StringValues ==
  ASSUME NEW n, n.fixedSize \in Nat
  PROVE  /\ StringValue(n) \in Seq(Bytes) /\ StringValue(n) # <<>>
         /\ n.fixedSize # 0 => Len(StringValue(n)) = n.fixedSize
<1> DEFINE m == IF n.fixedSize > 0 THEN n.fixedSize ELSE 2
<1>1. m \in Nat \ {0} /\ (n.fixedSize # 0 => m = n.fixedSize)
  OBVIOUS
<1>2. StringValue(n) = [k \in 1..m |-> (64 + k) % 256]
  BY DEF StringValue
<1> HIDE DEF m
<1>3. \A k \in 1..m : (64 + k) % 256 \in Bytes
  BY <1>1 DEF Bytes
<1>4. StringValue(n) \in [1..m -> Bytes]
  BY <1>2, <1>3
<1>5. StringValue(n) \in Seq(Bytes) /\ Len(StringValue(n)) = m
  BY <1>1, <1>4
<1> QED
  BY <1>1, <1>5

\* How long the value of an object is, by its type.
LEMMA Pieces ==
  ASSUME NEW n, NEW T, Fits(n, T)
  PROVE  IsPiece(n, T)
<1>1. MadeKind(n, T) /\ n \in Nodes /\ n.fixedSize \in Nat
  BY MadeKinds DEF Fits, Nodes
<1>2. n.tc \in {"InetAddressType", "LldpPortIdSubtype"} => ~Octetted(n) /\ n.type \notin IpTypes
  BY <1>1 DEF Fits, Conventional, Octetted, IpTypes
<1>3. /\ <<1>> \in Seq(Bytes) /\ <<2>> \in Seq(Bytes) /\ <<3>> \in Seq(Bytes)
      /\ <<10, 0, 0, 9>> \in Seq(Bytes) /\ <<0, 1, 2, 3, 4, 0>> \in Seq(Bytes) /\ <<10, 0, 0, 1>> \in Seq(Bytes)
  BY DEF Bytes
<1>4. /\ <<1>> # <<>> /\ <<2>> # <<>> /\ <<3>> # <<>> /\ <<10, 0, 0, 9>> # <<>>
      /\ <<0, 1, 2, 3, 4, 0>> # <<>> /\ <<10, 0, 0, 1>> # <<>>
      /\ Len(<<1>>) = 1 /\ Len(<<2>>) = 1 /\ Len(<<3>>) = 1 /\ Len(<<10, 0, 0, 9>>) = 4
      /\ Len(<<0, 1, 2, 3, 4, 0>>) = 6 /\ Len(<<10, 0, 0, 1>>) = 4
  OBVIOUS
<1>5. \A t \in Singles : t \notin Strings /\ t \notin DOMAIN Addresses /\ t \notin Inet /\ t # "LldpPortId"
  BY AddressSizes DEF Singles, Numbers, Strings, Inet
<1>6. \A t \in Inet \cup {"LldpPortId"} : t \notin Strings /\ t \notin DOMAIN Addresses /\ t \notin Singles
  BY AddressSizes DEF Strings, Inet, Singles, Numbers
<1>7. \A t \in Strings : t \notin DOMAIN Addresses /\ t \notin Singles
  BY AddressSizes DEF Strings, Inet, Singles, Numbers
<1>8. "LldpPortId" \notin Inet /\ "InetAddressIPv4" \in DOMAIN Addresses /\ Addresses["InetAddressIPv4"] = 4
      /\ \A t \in DOMAIN Addresses : Addresses[t] # 0
      /\ "InetAddress" \in Inet /\ "InetAddressMissingSize" \in Inet
  BY AddressSizes DEF Inet
<1>9. CASE T \in Singles
  <2>1. ~Octetted(n)
    BY <1>5, <1>8, <1>9, <1>1 DEF MadeKind, IsKind
  <2>2. Value(n) = IF n.tc = "InetAddressType" THEN <<1>> ELSE IF n.tc = "LldpPortIdSubtype" THEN <<3>> ELSE <<2>>
    BY <1>1, <1>9, Values
  <2>3. n.tc = "LldpPortIdSubtype" => n.tc # "InetAddressType"
    OBVIOUS
  <2> QED
    BY <1>3, <1>4, <1>5, <1>9, <2>1, <2>2, <2>3 DEF IsPiece
<1>10. T \notin Singles => n.tc \notin {"InetAddressType", "LldpPortIdSubtype"}
  BY <1>1, <1>2 DEF MadeKind, IsKind
<1>11. CASE T \in Inet
  <2>1. Value(n) = <<10, 0, 0, 9>>
    BY <1>1, <1>6, <1>11, Values
  <2> QED
    BY <1>3, <1>4, <1>6, <1>8, <1>10, <1>11, <2>1 DEF IsPiece
<1>12. CASE T = "LldpPortId"
  <2>1. Value(n) = <<0, 1, 2, 3, 4, 0>>
    BY <1>1, <1>6, <1>8, <1>12, Values
  <2> QED
    BY <1>3, <1>4, <1>6, <1>8, <1>10, <1>12, <2>1 DEF IsPiece
<1>13. CASE T \notin Singles \cup Inet \cup {"LldpPortId"}
  <2>1. Value(n) = IF Octetted(n) THEN StringValue(n) ELSE <<10, 0, 0, 1>>
    BY <1>1, <1>13, Values
  <2>2. CASE T \in Strings
    <3>1. Octetted(n)
      BY <1>1, <1>7, <1>8, <1>13, <2>2 DEF MadeKind, IsKind
    <3> QED
      BY <1>1, <1>7, <1>10, <1>13, <2>1, <2>2, <3>1, StringValues DEF IsPiece
  <2>3. CASE T \in DOMAIN Addresses
    <3>1. (Octetted(n) => n.fixedSize = Addresses[T]) /\ (~Octetted(n) => T = "InetAddressIPv4")
      BY <1>1, <1>7, <1>8, <1>13, <2>3 DEF MadeKind, IsKind
    <3>2. CASE Octetted(n)
      <4>1. n.fixedSize = Addresses[T] /\ n.fixedSize # 0 /\ Value(n) = StringValue(n)
        BY <1>8, <2>1, <2>3, <3>1, <3>2
      <4>2. Value(n) \in Seq(Bytes) /\ Value(n) # <<>> /\ Len(Value(n)) = Addresses[T]
        BY <1>1, <4>1, StringValues
      <4> QED
        BY <1>7, <1>10, <1>13, <2>3, <4>1, <4>2 DEF IsPiece
    <3>3. CASE ~Octetted(n)
      BY <1>3, <1>4, <1>7, <1>8, <1>10, <1>13, <2>1, <2>3, <3>1, <3>3 DEF IsPiece
    <3> QED
      BY <3>2, <3>3
  <2>4. T \in Strings \cup DOMAIN Addresses
    BY <1>1, <1>8, <1>13 DEF MadeKind, IsKind
  <2> QED
    BY <2>2, <2>3, <2>4
<1> QED
  BY <1>9, <1>11, <1>12, <1>13

-----------------------------------------------------------------------------
(* Decoding what was encoded                                                  *)

Splits(oid, c, a, b) == splitOid(oid, c).head = a /\ splitOid(oid, c).tail = b
\* splitOid cuts where one part ends.
LEMMA SplitAt ==
  ASSUME NEW a \in Seq(Nat), NEW b \in Seq(Nat), NEW c, c = Len(a)
  PROVE  Splits(a \o b, c, a, b)
<1> DEFINE oid == a \o b
<1>1. /\ Len(a) \in Nat /\ Len(b) \in Nat /\ Len(oid) = Len(a) + Len(b) /\ oid \in Seq(Nat)
      /\ \A i \in 1..Len(a) : oid[i] = a[i]
      /\ \A i \in 1..Len(b) : oid[Len(a) + i] = b[i]
  OBVIOUS
<1> HIDE DEF oid
<1>2. a = [i \in 1..Len(a) |-> IF i <= Len(oid) THEN oid[i] ELSE 0]
  BY <1>1
<1>3. SubSeq(oid, Len(a) + 1, Len(oid)) = b
  <2> DEFINE t == SubSeq(oid, Len(a) + 1, Len(oid))
  <2>1. t \in Seq(Nat) /\ Len(t) = Len(b) /\ \A i \in 1..Len(b) : t[i] = oid[Len(a) + i]
    BY <1>1
  <2> HIDE DEF t
  <2>2. t = [i \in 1..Len(t) |-> t[i]] /\ b = [i \in 1..Len(b) |-> b[i]]
    BY <2>1, SeqIsList DEF IsList
  <2>3. t = b
    BY <1>1, <2>1, <2>2
  <2> QED
    BY <2>3 DEF t
<1>4. Splits(oid, c, a, b)
  BY <1>2, <1>3 DEF splitOid, Splits
<1> QED
  BY <1>4 DEF oid

LEMMA Appending ==
  ASSUME NEW a \in Seq(Nat), NEW b \in Seq(Nat), NEW c \in Seq(Nat)
  PROVE  (a \o b) \o c = a \o (b \o c) /\ a \o b \in Seq(Nat) /\ <<>> \o a = a /\ a \o <<>> = a
OBVIOUS
Regroups(a, b, c) == (a \o b) \o c = a \o (b \o c) /\ a \o b \in Seq(Nat)
LEMMA Regrouping ==
  ASSUME NEW a \in Seq(Nat), NEW b \in Seq(Nat), NEW c \in Seq(Nat)
  PROVE  Regroups(a, b, c)
BY Appending DEF Regroups
LEMMA Joined ==
  ASSUME NEW a \in Seq(Nat), NEW b \in Seq(Nat)
  PROVE  Len(a \o b) = Len(a) + Len(b) /\ (Len(a) = 1 => (a \o b)[1] = a[1])
OBVIOUS

LEMMA BytesAre == ASSUME NEW v \in Seq(Bytes) PROVE v \in Seq(Nat) /\ v = [i \in DOMAIN v |-> v[i] % 256]
<1>1. \A b \in Bytes : b \in Nat /\ b % 256 = b
  BY DEF Bytes
<1>2. v \in Seq(Nat)
  BY <1>1
<1>3. \A i \in 1..Len(v) : v[i] % 256 = v[i]
  BY <1>1
<1> QED
  BY <1>2, <1>3

\* oid decodes to value, and leaves rest: as a simple type, and as any.
SimpleTo(oid, T, size, imp, enums, value, rest) ==
  LET d == SimpleIndex(oid, T, size, imp, enums) IN d.text.of = value /\ d.rest = rest
DecodesTo(oid, T, size, imp, enums, value, rest) ==
  LET d == indexOidsAsString(oid, T, size, imp, enums) IN d.text.of = value /\ d.rest = rest

\* pduValueAsString and indexOidsAsString by kind of type.
LEMMA SimpleCases ==
  ASSUME NEW oid, NEW T, NEW size, NEW imp, NEW enums
  PROVE  LET s == splitOid(oid, IF T \in DOMAIN Addresses THEN Addresses[T] ELSE 1)
         IN  /\ T \in Numbers => SimpleIndex(oid, T, size, imp, enums) = Decoded(Decimal(s.head[1]), s.head, s.tail)
             /\ T = "EnumAsInfo" =>
                  SimpleIndex(oid, T, size, imp, enums) = Decoded(Enum(enums, s.head[1]), s.head, s.tail)
             /\ T \in DOMAIN Addresses =>
                  SimpleIndex(oid, T, size, imp, enums) = Decoded(Octets(T, s.head), s.head, s.tail)
             /\ T \in Strings => SimpleIndex(oid, T, size, imp, enums) = StringIndex(oid, T, size, imp, enums)
<1> DEFINE s == splitOid(oid, IF T \in DOMAIN Addresses THEN Addresses[T] ELSE 1)
           I == SimpleIndex(oid, T, size, imp, enums)
<1>1. I = CASE T \in Numbers -> Decoded(Decimal(s.head[1]), s.head, s.tail)
            [] T = "EnumAsInfo" -> Decoded(Enum(enums, s.head[1]), s.head, s.tail)
            [] T \in DOMAIN Addresses -> Decoded(Octets(T, s.head), s.head, s.tail)
            [] T \in Strings -> StringIndex(oid, T, size, imp, enums)
  BY DEF SimpleIndex
<1> HIDE DEF I, s
<1>2. /\ T \in Numbers => T # "EnumAsInfo" /\ T \notin DOMAIN Addresses /\ T \notin Strings
      /\ T = "EnumAsInfo" => T \notin DOMAIN Addresses /\ T \notin Strings
      /\ T \in DOMAIN Addresses => T \notin Strings
  BY AddressSizes DEF Numbers, Strings
<1>3. /\ T \in Numbers => I = Decoded(Decimal(s.head[1]), s.head, s.tail)
      /\ T = "EnumAsInfo" => I = Decoded(Enum(enums, s.head[1]), s.head, s.tail)
      /\ T \in DOMAIN Addresses => I = Decoded(Octets(T, s.head), s.head, s.tail)
      /\ T \in Strings => I = StringIndex(oid, T, size, imp, enums)
  BY <1>1, <1>2
<1> QED
  BY <1>3 DEF I, s

LEMMA AddressDecodes ==
  ASSUME NEW T \in DOMAIN Addresses, NEW size, NEW imp, NEW enums,
         NEW v \in Seq(Bytes), Len(v) = Addresses[T], v # <<>>, NEW rest \in Seq(Nat)
  PROVE  SimpleTo(v \o rest, T, size, imp, enums, v, rest)
<1> DEFINE s == splitOid(v \o rest, Addresses[T])
<1>1. s.head = v /\ s.tail = rest
  BY BytesAre, SplitAt DEF Splits
<1> HIDE DEF s
<1>2. SimpleIndex(v \o rest, T, size, imp, enums) = Decoded(Octets(T, s.head), s.head, s.tail)
  BY SimpleCases DEF s
<1> QED
  BY <1>1, <1>2 DEF SimpleTo, Decoded, Octets

\* One number, and a string of fixed, given or implied length.
LEMMA SingleDecodes ==
  ASSUME NEW T \in Singles, NEW size, NEW imp, NEW enums,
         NEW v \in Seq(Bytes), Len(v) = 1, NEW rest \in Seq(Nat)
  PROVE  SimpleTo(v \o rest, T, size, imp, enums, v, rest)
<1> DEFINE s == splitOid(v \o rest, 1)
           I == SimpleIndex(v \o rest, T, size, imp, enums)
<1>1. s.head = v /\ s.tail = rest /\ v = <<v[1]>>
  <2>1. s.head = v /\ s.tail = rest
    <3>1. v \in Seq(Nat)
      BY BytesAre
    <3>2. Splits(v \o rest, 1, v, rest)
      BY <3>1, SplitAt
    <3> QED
      BY <3>2 DEF Splits
  <2>2. v = <<v[1]>>
    OBVIOUS
  <2> QED
    BY <2>1, <2>2
<1>2. T \notin DOMAIN Addresses
  BY AddressSizes DEF Singles, Numbers
<1> HIDE DEF s
<1>3. I = Decoded(Decimal(s.head[1]), s.head, s.tail) \/ I = Decoded(Enum(enums, s.head[1]), s.head, s.tail)
  BY <1>2, SimpleCases DEF s, Singles
<1> HIDE DEF I
<1>4. I.text.of = <<v[1]>> /\ I.rest = rest
  BY <1>1, <1>3 DEF Decoded, Decimal, Enum
<1> QED
  BY <1>1, <1>4 DEF SimpleTo, I

\* The octets of a string are those after its length, when that is in front.
LEMMA StringTexts ==
  ASSUME NEW T \in Strings, NEW size, NEW imp, NEW enums, NEW oid, NEW v \in Seq(Bytes), NEW rest
  PROVE  LET given == IF imp THEN Len(oid) ELSE size
             prefix == splitOid(oid, IF given = 0 THEN 1 ELSE 0)
             count == IF given = 0 THEN prefix.head[1] ELSE given
         IN  Splits(prefix.tail, count, v, rest) => SimpleTo(oid, T, size, imp, enums, v, rest)
<1> DEFINE given == IF imp THEN Len(oid) ELSE size
           prefix == splitOid(oid, IF given = 0 THEN 1 ELSE 0)
           content == splitOid(prefix.tail, IF given = 0 THEN prefix.head[1] ELSE given)
           I == SimpleIndex(oid, T, size, imp, enums)
<1>1. I = Decoded(Octets(T, [i \in DOMAIN content.head |-> content.head[i] % 256]),
                  prefix.head \o content.head, content.tail)
  <2>1. I = StringIndex(oid, T, size, imp, enums)
    BY SimpleCases
  <2> QED
    BY <2>1 DEF StringIndex
<1>2. v = [i \in DOMAIN v |-> v[i] % 256]
  BY BytesAre
<1> HIDE DEF I
<1>3. ASSUME content.head = v, content.tail = rest PROVE I.text.of = v /\ I.rest = rest
  <2> HIDE DEF content, prefix
  <2>1. [i \in DOMAIN content.head |-> content.head[i] % 256] = v
    BY <1>2, <1>3
  <2>2. I = Decoded(Octets(T, v), prefix.head \o content.head, rest)
    BY <1>1, <1>3, <2>1, Zenon
  <2> QED
    BY <2>2 DEF Decoded, Octets, EmptyText
<1> QED
  BY <1>3 DEF Splits, SimpleTo, I

\* A string with its length in front.
LEMMA PrefixedString ==
  ASSUME NEW T \in Strings, NEW enums, NEW first \in Seq(Nat), NEW v \in Seq(Bytes), NEW rest \in Seq(Nat),
         Len(first) = 1, first[1] = Len(v)
  PROVE  SimpleTo(first \o (v \o rest), T, 0, FALSE, enums, v, rest)
<1> DEFINE tail == v \o rest
           oid == first \o tail
           prefix == splitOid(oid, 1)
<1>1. v \in Seq(Nat) /\ tail \in Seq(Nat)
  BY BytesAre, Appending
<1>2. Splits(tail, Len(v), v, rest)
  BY <1>1, SplitAt
<1> HIDE DEF tail
<1>3. Splits(oid, 1, first, tail)
  BY <1>1, SplitAt
<1> HIDE DEF oid
<1>4. prefix.head = first /\ prefix.tail = tail
  BY <1>3 DEF Splits
<1> HIDE DEF prefix
<1>5. Splits(prefix.tail, prefix.head[1], v, rest)
  BY <1>2, <1>4
<1>6. SimpleTo(oid, T, 0, FALSE, enums, v, rest)
  BY <1>5, StringTexts DEF prefix
<1> QED
  BY <1>6 DEF oid, tail

\* A string of fixed size or to the end.
LEMMA PlainString ==
  ASSUME NEW T \in Strings, NEW size \in Nat, NEW imp \in BOOLEAN, NEW enums,
         NEW v \in Seq(Bytes), v # <<>>, NEW rest \in Seq(Nat),
         imp \/ size # 0, imp => rest = <<>>, ~imp => Len(v) = size
  PROVE  SimpleTo(v \o rest, T, size, imp, enums, v, rest)
<1> DEFINE oid == v \o rest
           given == IF imp THEN Len(oid) ELSE size
           prefix == splitOid(oid, IF given = 0 THEN 1 ELSE 0)
           none == <<>>
<1>1. v \in Seq(Nat) /\ oid \in Seq(Nat) /\ none \o oid = oid /\ none \in Seq(Nat) /\ Len(none) = 0
  BY BytesAre, Appending
<1>2. Splits(oid, Len(v), v, rest)
  BY <1>1, SplitAt
<1>3. imp => oid = v
  BY <1>1, Appending
<1>4. Len(v) \in Nat \ {0}
  OBVIOUS
<1> HIDE DEF oid, none
<1>5. given = Len(v) /\ given # 0
  BY <1>3, <1>4
<1>6. Splits(none \o oid, 0, none, oid)
  BY <1>1, SplitAt
<1> HIDE DEF given
<1>7. prefix.tail = oid
  BY <1>1, <1>5, <1>6 DEF Splits
<1>8. Splits(prefix.tail, given, v, rest)
  BY <1>2, <1>5, <1>7
<1> HIDE DEF prefix
<1>9. SimpleTo(oid, T, size, imp, enums, v, rest)
  BY <1>5, <1>8, StringTexts DEF prefix, given
<1> QED
  BY <1>9 DEF oid

LEMMA StringDecodes ==
  ASSUME NEW T \in Strings, NEW size \in Nat, NEW imp \in BOOLEAN, NEW enums,
         NEW v \in Seq(Bytes), v # <<>>, NEW rest \in Seq(Nat),
         imp => rest = <<>>, size # 0 /\ ~imp => Len(v) = size,
         NEW e, e = IF size = 0 /\ ~imp THEN <<Len(v)>> \o v ELSE v
  PROVE  SimpleTo(e \o rest, T, size, imp, enums, v, rest)
<1>1. CASE size = 0 /\ ~imp
  <2> DEFINE first == <<Len(v)>>
  <2>1. first \in Seq(Nat) /\ Len(first) = 1 /\ first[1] = Len(v) /\ e = first \o v
    BY <1>1
  <2> HIDE DEF first
  <2>2. v \in Seq(Nat)
    BY BytesAre
  <2>3. (first \o v) \o rest = first \o (v \o rest)
    <3>1. Regroups(first, v, rest)
      BY <2>1, <2>2, Regrouping
    <3> QED
      BY <3>1, Zenon DEF Regroups
  <2>4. SimpleTo(first \o (v \o rest), T, 0, FALSE, enums, v, rest)
    BY <2>1, PrefixedString
  <2> QED
    BY <1>1, <2>1, <2>3, <2>4
<1>2. CASE ~(size = 0 /\ ~imp)
  BY <1>2, PlainString
<1> QED
  BY <1>1, <1>2

\* An address after its subtype and what is between them.
LEMMA CombinedDecodes ==
  ASSUME NEW T \in Combined, NEW size, NEW imp, NEW enums, 
         NEW first \in Seq(Nat), Len(first) = 1, first[1] = (IF T \in Inet THEN 1 ELSE 3),
         NEW between \in Seq(Nat), Len(between) = (IF T = "InetAddressMissingSize" THEN 0 ELSE 1),
         NEW v \in Seq(Bytes), Len(v) = (IF T \in Inet THEN 4 ELSE 6), NEW rest \in Seq(Nat)
  PROVE  DecodesTo(first \o (between \o (v \o rest)), T, size, imp, enums, v, rest)
<1> DEFINE oid == first \o (between \o (v \o rest))
           front == splitOid(oid, IF T = "InetAddressMissingSize" THEN 1 ELSE 2)
           subtype == front.head[1]
           of == combinedTypeMapping[T][subtype]
           value == SimpleIndex(front.tail, of, 0, FALSE, enums)
           D == indexOidsAsString(oid, T, size, imp, enums)
           A == IF T \in Inet THEN "InetAddressIPv4" ELSE "PhysAddress48"
<1>1. v \in Seq(Nat) /\ v \o rest \in Seq(Nat)
  BY BytesAre, Appending
<1> DEFINE lead == first \o between
           tail == v \o rest
<1>2. lead \in Seq(Nat) /\ oid = lead \o tail
  <2>1. tail \in Seq(Nat)
    BY <1>1
  <2>2. oid = first \o (between \o tail)
    OBVIOUS
  <2> HIDE DEF tail
  <2>3. Regroups(first, between, tail)
    BY <2>1, Regrouping
  <2> HIDE DEF oid
  <2> QED
    BY <2>2, <2>3, Zenon DEF Regroups
<1>3. Len(lead) = (IF T = "InetAddressMissingSize" THEN 1 ELSE 2) /\ lead[1] = first[1]
  <2>1. Len(lead) = Len(first) + Len(between) /\ lead[1] = first[1]
    BY Joined, Zenon
  <2> HIDE DEF lead
  <2> QED
    BY <2>1
<1>4. front.head = lead /\ front.tail = v \o rest
  <2> HIDE DEF oid, lead, tail
  <2>1. lead \in Seq(Nat) /\ tail \in Seq(Nat) /\ oid = lead \o tail
    BY <1>1, <1>2 DEF lead, tail
  <2>2. Splits(lead \o tail, Len(lead), lead, tail)
    BY <2>1, SplitAt
  <2>3. front.head = lead /\ front.tail = tail
    BY <1>3, <2>1, <2>2 DEF Splits
  <2> QED
    BY <2>3 DEF tail
<1>5. D = IF subtype \in DOMAIN combinedTypeMapping[T]
            THEN Decoded(value.text, front.head \o value.used, value.rest)
          ELSE IF T = "InetAddressMissingSize" THEN SimpleIndex(oid, "OctetString", 0, TRUE, enums)
          ELSE SimpleIndex(oid, "OctetString", front.head[2] + 2, FALSE, enums)
  BY DEF indexOidsAsString
<1> HIDE DEF D, oid, value, front, lead
<1> DEFINE sub == IF T \in Inet THEN 1 ELSE 3
<1>6. subtype = sub
  BY <1>3, <1>4
<1>7. sub \in DOMAIN combinedTypeMapping[T] /\ combinedTypeMapping[T][sub] = A
  <2>1. CASE T \in Inet
    <3>1. T = "InetAddress" \/ T = "InetAddressMissingSize"
      BY <2>1 DEF Inet
    <3>2. combinedTypeMapping[T] = [t \in {1, 2} |-> IF t = 1 THEN "InetAddressIPv4" ELSE "InetAddressIPv6"]
      <4>1. CASE T = "InetAddress"
        BY <4>1 DEF combinedTypeMapping
      <4>2. CASE T = "InetAddressMissingSize"
        BY <4>2 DEF combinedTypeMapping
      <4> QED
        BY <3>1, <4>1, <4>2
    <3> QED
      BY <2>1, <3>2
  <2>2. CASE T \notin Inet
    <3>1. T = "LldpPortId"
      BY <2>2, CombinedTypes
    <3>2. combinedTypeMapping[T] = [t \in {1, 2, 3, 5, 7} |-> IF t = 3 THEN "PhysAddress48" ELSE "DisplayString"]
      BY <3>1 DEF combinedTypeMapping
    <3> QED
      BY <2>2, <3>2
  <2> QED
    BY <2>1, <2>2
<1>8. A \in DOMAIN Addresses /\ Len(v) = Addresses[A] /\ v # <<>>
  <2>1. Len(v) # 0 => v # <<>>
    OBVIOUS
  <2> QED
    BY <2>1, AddressSizes
<1> HIDE DEF A
<1>9. SimpleTo(v \o rest, A, 0, FALSE, enums, v, rest)
  BY <1>8, AddressDecodes
<1>10. value = SimpleIndex(v \o rest, A, 0, FALSE, enums)
  BY <1>4, <1>6, <1>7 DEF value
<1>11. value.text.of = v /\ value.rest = rest
  BY <1>9, <1>10 DEF SimpleTo
<1>12. D = Decoded(value.text, front.head \o value.used, value.rest)
  BY <1>5, <1>6, <1>7
<1> QED
  BY <1>11, <1>12 DEF DecodesTo, Decoded, D, oid

-----------------------------------------------------------------------------
(* A row, index by index                                                      *)

\* d is the recursive function of DecodeRow.
IsDecoding(d, list, oid) ==
  /\ d[0] = [texts |-> <<>>, rest |-> oid]
  /\ \A i \in 1..Len(list) : d[i] = DecodeNext(d[i - 1], list[i])
\* The indexes of a list show objects of K, among them those of N, and leave
\* what is given as last.
IsShown(index, text, lab, V, j) == index.labelname = lab[j] /\ text = V[j]
ShowsObjects(list, texts, lab, V, K, N) ==
  /\ texts \in Seq(Seq(Bytes)) /\ Len(texts) = Len(list)
  /\ \A i \in 1..Len(list) : \E j \in K : IsShown(list[i], texts[i], lab, V, j)
  /\ \A j \in N : \E i \in 1..Len(list) : IsShown(list[i], texts[i], lab, V, j)
ShowsRow(d, list, oid, last, lab, V, K, N) ==
  /\ IsDecoding(d, list, oid) /\ d[Len(list)].rest = last
  /\ ShowsObjects(list, d[Len(list)].texts, lab, V, K, N)

\* With k, the objects K become K2 and those of N become N2.
Gains(K, N, k, K2, N2) == K \subseteq K2 /\ k \in K2 /\ N2 \subseteq N \cup {k}

LEMMA NothingShown ==
  ASSUME NEW oid, NEW lab, NEW V
  PROVE  \E d : ShowsRow(d, <<>>, oid, oid, lab, V, {}, {})
<1> DEFINE d == [i \in {0} |-> [texts |-> <<>>, rest |-> oid]]
<1>1. d[0].rest = oid /\ d[0].texts = <<>> /\ d[0] = [texts |-> <<>>, rest |-> oid]
  OBVIOUS
<1>2. <<>> \in Seq(Seq(Bytes)) /\ Len(<<>>) = 0 /\ \A i : i \notin 1..0
  OBVIOUS
<1>3. ShowsObjects(<<>>, <<>>, lab, V, {}, {})
  BY <1>2 DEF ShowsObjects
<1> HIDE DEF d
<1>4. ShowsRow(d, <<>>, oid, oid, lab, V, {}, {})
  BY <1>1, <1>2, <1>3 DEF ShowsRow, IsDecoding
<1> QED
  BY <1>4

LEMMA ShownObjects ==
  ASSUME NEW M, NEW list \in Seq(M), NEW texts, NEW lab, NEW V, NEW K, NEW N,
         ShowsObjects(list, texts, lab, V, K, N), NEW k, V[k] \in Seq(Bytes),
         NEW index \in M, index.labelname = lab[k],
         NEW K2, NEW N2, K \subseteq K2, k \in K2, N2 \subseteq N \cup {k}
  PROVE  ShowsObjects(Append(list, index), Append(texts, V[k]), lab, V, K2, N2)
<1> DEFINE m == Len(list)
           l2 == Append(list, index)
           t2 == Append(texts, V[k])
<1>1. texts \in Seq(Seq(Bytes)) /\ Len(texts) = m /\ m \in Nat
  BY DEF ShowsObjects
<1>2. /\ Len(l2) = m + 1 /\ l2[m + 1] = index /\ \A i \in 1..m : l2[i] = list[i]
  OBVIOUS
<1>3. /\ t2 \in Seq(Seq(Bytes)) /\ Len(t2) = m + 1 /\ t2[m + 1] = V[k] /\ \A i \in 1..m : t2[i] = texts[i]
  BY <1>1
<1>4. /\ \A i \in 1..m : \E j \in K : IsShown(list[i], texts[i], lab, V, j)
      /\ \A j \in N : \E i \in 1..m : IsShown(list[i], texts[i], lab, V, j)
  BY DEF ShowsObjects
<1> HIDE DEF m, l2, t2
<1>5. IsShown(l2[m + 1], t2[m + 1], lab, V, k)
  BY <1>2, <1>3 DEF IsShown
<1>6. \A i \in 1..(m + 1) : i \in 1..m \/ i = m + 1
  BY <1>1
<1>7. \A i \in 1..m : i \in 1..(m + 1)
  BY <1>1
<1>8. m + 1 \in 1..(m + 1)
  BY <1>1
<1>9. \A i \in 1..(m + 1) : \E j \in K2 : IsShown(l2[i], t2[i], lab, V, j)
  <2> SUFFICES ASSUME NEW i \in 1..(m + 1) PROVE \E j \in K2 : IsShown(l2[i], t2[i], lab, V, j)
    OBVIOUS
  <2>1. CASE i = m + 1
    BY <1>5, <2>1
  <2>2. CASE i \in 1..m
    <3>1. PICK j \in K : IsShown(list[i], texts[i], lab, V, j)
      BY <1>4, <2>2
    <3>2. l2[i] = list[i] /\ t2[i] = texts[i]
      BY <1>2, <1>3, <2>2
    <3> QED
      BY <3>1, <3>2, Zenon
  <2> QED
    BY <1>6, <2>1, <2>2
<1>10. \A j \in N2 : \E i \in 1..(m + 1) : IsShown(l2[i], t2[i], lab, V, j)
  <2> SUFFICES ASSUME NEW j \in N2 PROVE \E i \in 1..(m + 1) : IsShown(l2[i], t2[i], lab, V, j)
    OBVIOUS
  <2>1. CASE j = k
    BY <1>5, <1>8, <2>1
  <2>2. CASE j \in N
    <3>1. PICK i \in 1..m : IsShown(list[i], texts[i], lab, V, j)
      BY <1>4, <2>2
    <3>2. l2[i] = list[i] /\ t2[i] = texts[i] /\ i \in 1..(m + 1)
      BY <1>2, <1>3, <1>7
    <3> QED
      BY <3>1, <3>2, Zenon
  <2> QED
    BY <2>1, <2>2
<1> QED
  BY <1>2, <1>3, <1>9, <1>10 DEF ShowsObjects, l2, t2

\* One index more shows one object more.
LEMMA ShowsMore ==
  ASSUME NEW M, NEW list \in Seq(M), NEW d, NEW oid, NEW last, NEW lab, NEW V, NEW K, NEW N,
         ShowsRow(d, list, oid, last, lab, V, K, N), NEW k, V[k] \in Seq(Bytes),
         NEW index \in M, index.labelname = lab[k], NEW next,
         DecodesTo(last, index.type, index.fixedSize, index.implied, index.enumValues, V[k], next),
         NEW K2, NEW N2, Gains(K, N, k, K2, N2)
  PROVE  \E e : ShowsRow(e, Append(list, index), oid, next, lab, V, K2, N2)
<1> DEFINE m == Len(list)
           new == DecodeNext(d[m], index)
           e == [i \in 0..(m + 1) |-> IF i <= m THEN d[i] ELSE new]
           l2 == Append(list, index)
<1>1. m \in Nat /\ Len(l2) = m + 1 /\ l2[m + 1] = index /\ \A i \in 1..m : l2[i] = list[i]
  OBVIOUS
<1>2. new.texts = Append(d[m].texts, V[k]) /\ new.rest = next
  <2>1. d[m].rest = last
    BY DEF ShowsRow
  <2> QED
    BY <2>1 DEF DecodeNext, DecodesTo
<1>3. e[m + 1] = new /\ \A i \in 0..m : e[i] = d[i]
  <2> HIDE DEF m, new
  <2>1. \A i \in 0..m : i \in 0..(m + 1) /\ i <= m
    BY <1>1
  <2>2. m + 1 \in 0..(m + 1) /\ ~(m + 1 <= m)
    BY <1>1
  <2> QED
    BY <2>1, <2>2
<1>4. IsDecoding(d, list, oid) /\ ShowsObjects(list, d[m].texts, lab, V, K, N)
  BY DEF ShowsRow
<1>5. ShowsObjects(l2, new.texts, lab, V, K2, N2)
  <2> DEFINE texts == d[m].texts
  <2>1. ShowsObjects(list, texts, lab, V, K, N)
    BY <1>4
  <2> HIDE DEF texts
  <2>2. ShowsObjects(l2, Append(texts, V[k]), lab, V, K2, N2)
    BY <2>1, ShownObjects DEF Gains
  <2> HIDE DEF new, l2
  <2>3. new.texts = Append(texts, V[k])
    BY <1>2 DEF texts
  <2> QED
    BY <2>2, <2>3, Zenon
<1> HIDE DEF e, l2, m
<1>6. IsDecoding(e, l2, oid)
  <2>1. e[0] = [texts |-> <<>>, rest |-> oid]
    BY <1>1, <1>3, <1>4 DEF IsDecoding
  <2>2. ASSUME NEW i \in 1..(m + 1) PROVE e[i] = DecodeNext(e[i - 1], l2[i])
    <3>1. CASE i = m + 1
      <4>1. i - 1 = m /\ m \in 0..m
        BY <1>1, <3>1
      <4>2. e[i - 1] = d[m]
        BY <1>3, <4>1
      <4>3. e[i] = new /\ l2[i] = index
        BY <1>1, <1>3, <3>1
      <4> QED
        BY <4>2, <4>3
    <3>2. CASE i # m + 1
      <4>1. i \in 1..m /\ i \in 0..m /\ i - 1 \in 0..m
        BY <1>1, <3>2
      <4>2. d[i] = DecodeNext(d[i - 1], list[i])
        BY <1>4, <4>1 DEF IsDecoding, m
      <4> HIDE DEF new
      <4> QED
        BY <1>1, <1>3, <4>1, <4>2
    <3> QED
      BY <3>1, <3>2
  <2> QED
    BY <1>1, <2>1, <2>2 DEF IsDecoding
<1>7. e[Len(l2)] = new
  BY <1>1, <1>3
<1>8. ShowsRow(e, l2, oid, next, lab, V, K2, N2)
  <2> HIDE DEF new
  <2> QED
    BY <1>2, <1>5, <1>6, <1>7 DEF ShowsRow
<1> QED
  BY <1>8 DEF l2

\* Each object is shown when the next, with what it takes, is decoded.
RowSteps(L, M, q, t, I, rest, lab, V, lacks) ==
  /\ q[0] = <<>> /\ \A k \in 0..L : q[k] \in Seq(M)
  /\ \A k \in 1..L :
       /\ t[k] \in {0, 1, 2} /\ t[k] < k /\ I[k] \in M
       /\ q[k] = Append(q[(k - 1) - t[k]], I[k])
       /\ I[k].labelname = lab[k] /\ V[k] \in Seq(Bytes)
       /\ DecodesTo(rest[(k - 1) - t[k]], I[k].type, I[k].fixedSize, I[k].implied, I[k].enumValues, V[k], rest[k])
       /\ \A j \in 1..L : j < k /\ j > (k - 1) - t[k] => j \in lacks

\* By induction over the objects, keeping all shorter lists: a row is shown.
LEMMA RowShown ==
  ASSUME NEW L \in Nat, NEW M, NEW q, NEW t, NEW I, NEW rest, NEW lab, NEW V, NEW lacks,
         RowSteps(L, M, q, t, I, rest, lab, V, lacks)
  PROVE  \E d : ShowsRow(d, q[L], rest[0], rest[L], lab, V, 1..L, (1..L) \ lacks)
<1> DEFINE Is(k) == \E d : ShowsRow(d, q[k], rest[0], rest[k], lab, V, 1..k, (1..k) \ lacks)
           S == {k \in 0..L : \A j \in 0..k : Is(j)}
<1>1. 0 \in S
  <2>1. q[0] = <<>>
    BY DEF RowSteps
  <2>2. \E d : ShowsRow(d, <<>>, rest[0], rest[0], lab, V, {}, {})
    BY NothingShown
  <2>3. 1..0 = {} /\ {} \ lacks = {} /\ \A j \in 0..0 : j = 0
    OBVIOUS
  <2>4. Is(0)
    BY <2>1, <2>2, <2>3
  <2> HIDE DEF Is
  <2> QED
    BY <2>3, <2>4
<1>2. ASSUME NEW k \in 1..L, k - 1 \in S PROVE k \in S
  <2> DEFINE p == (k - 1) - t[k]
  <2>1. /\ t[k] \in {0, 1, 2} /\ t[k] < k /\ I[k] \in M /\ q[k] = Append(q[p], I[k])
        /\ I[k].labelname = lab[k] /\ V[k] \in Seq(Bytes)
        /\ DecodesTo(rest[p], I[k].type, I[k].fixedSize, I[k].implied, I[k].enumValues, V[k], rest[k])
        /\ \A j \in 1..L : j < k /\ j > p => j \in lacks
    BY DEF RowSteps
  <2>2. p \in 0..(k - 1) /\ p \in 0..L
    BY <2>1
  <2>3. q[p] \in Seq(M)
    BY <2>2 DEF RowSteps
  <2> HIDE DEF p
  <2>4. Is(p)
    <3> HIDE DEF Is
    <3> QED
      BY <1>2, <2>2
  <2>5. PICK d : ShowsRow(d, q[p], rest[0], rest[p], lab, V, 1..p, (1..p) \ lacks)
    BY <2>4
  <2>6. 1..p \subseteq 1..k /\ k \in 1..k
    BY <2>2
  <2>7. (1..k) \ lacks \subseteq ((1..p) \ lacks) \cup {k}
    <3> SUFFICES ASSUME NEW j \in 1..k, j \notin lacks, j # k PROVE j \in 1..p
      OBVIOUS
    <3>1. j \in 1..L /\ j < k
      OBVIOUS
    <3> QED
      BY <2>1, <2>2, <3>1
  <2>8. Is(k)
    <3> DEFINE list == q[p]
               index == I[k]
               oid == rest[0]
               last == rest[p]
               next == rest[k]
               K == 1..p
               N == (1..p) \ lacks
               K2 == 1..k
               N2 == (1..k) \ lacks
    <3>1. /\ list \in Seq(M) /\ ShowsRow(d, list, oid, last, lab, V, K, N) /\ index \in M
          /\ index.labelname = lab[k] /\ V[k] \in Seq(Bytes)
          /\ DecodesTo(last, index.type, index.fixedSize, index.implied, index.enumValues, V[k], next)
          /\ Gains(K, N, k, K2, N2)
      BY <2>1, <2>3, <2>5, <2>6, <2>7 DEF Gains
    <3>2. q[k] = Append(list, index)
      BY <2>1
    <3> HIDE DEF list, index, oid, last, next, K, N, K2, N2, Is, S
    <3>3. \E e : ShowsRow(e, Append(list, index), oid, next, lab, V, K2, N2)
      BY <3>1, ShowsMore
    <3>4. \E e : ShowsRow(e, q[k], oid, next, lab, V, K2, N2)
      BY <3>2, <3>3, Zenon
    <3> QED
      BY <3>4 DEF oid, next, K2, N2, Is
  <2> HIDE DEF Is
  <2>9. \A j \in 0..k : j = k \/ j \in 0..(k - 1)
    OBVIOUS
  <2> QED
    BY <1>2, <2>8, <2>9
<1>3. \A k \in 0..L : k \in S
  <2> HIDE DEF S
  <2> QED
    BY <1>1, <1>2, InductionTo
<1>4. L \in 0..L
  OBVIOUS
<1>5. Is(L)
  <2> HIDE DEF Is
  <2> QED
    BY <1>3, <1>4
<1> QED
  BY <1>5

-----------------------------------------------------------------------------
(* What is left of a row after each of its objects                            *)

LEMMA RestAfter ==
  ASSUME NEW F \in Seq(Nat), NEW u \in Seq(Nat), NEW a \in 0..Len(F), NEW b \in 0..Len(F),
         b = a + Len(u), \A i \in 1..Len(u) : F[a + i] = u[i]
  PROVE  SubSeq(F, a + 1, Len(F)) = u \o SubSeq(F, b + 1, Len(F))
<1> DEFINE l == SubSeq(F, a + 1, Len(F))
           t == SubSeq(F, b + 1, Len(F))
           r == u \o t
<1>1. Len(F) \in Nat /\ Len(u) \in Nat
  OBVIOUS
<1>2. l \in Seq(Nat) /\ Len(l) = Len(F) - a /\ \A i \in 1..(Len(F) - a) : l[i] = F[a + i]
  BY <1>1
<1>3. t \in Seq(Nat) /\ Len(t) = Len(F) - b /\ \A i \in 1..(Len(F) - b) : t[i] = F[b + i]
  BY <1>1
<1> HIDE DEF l, t
<1>4. r \in Seq(Nat) /\ Len(r) = Len(u) + Len(t) /\ (\A i \in 1..Len(u) : r[i] = u[i])
      /\ \A i \in 1..Len(t) : r[Len(u) + i] = t[i]
  BY <1>3
<1> HIDE DEF r
<1>5. Len(r) = Len(l)
  BY <1>1, <1>2, <1>3, <1>4
<1>6. ASSUME NEW i \in 1..Len(l) PROVE l[i] = r[i]
  <2>1. i \in 1..(Len(F) - a) /\ l[i] = F[a + i]
    BY <1>2
  <2>2. CASE i <= Len(u)
    <3>1. i \in 1..Len(u)
      BY <1>1, <2>1, <2>2
    <3> QED
      BY <1>4, <2>1, <3>1
  <2>3. CASE ~(i <= Len(u))
    <3> DEFINE j == i - Len(u)
    <3>1. j \in 1..Len(t) /\ j \in 1..(Len(F) - b) /\ Len(u) + j = i /\ b + j = a + i
      BY <1>1, <1>3, <2>1, <2>3
    <3>2. r[Len(u) + j] = t[j] /\ t[j] = F[b + j]
      BY <1>3, <1>4, <3>1
    <3> HIDE DEF j
    <3> QED
      BY <2>1, <3>1, <3>2
  <2> QED
    BY <2>2, <2>3
<1>7. l = r
  <2>1. l = [i \in 1..Len(l) |-> l[i]] /\ r = [i \in 1..Len(r) |-> r[i]]
    BY <1>2, <1>4, SeqIsList DEF IsList
  <2> QED
    BY <1>5, <1>6, <2>1
<1> QED
  BY <1>7 DEF l, r, t

\* What is left of a row after its first a arcs, and after each of its parts.
After(F, a) == SubSeq(F, a + 1, Len(F))
LEMMA AfterFacts ==
  ASSUME NEW F \in Seq(Nat)
  PROVE  After(F, 0) = F /\ After(F, Len(F)) = <<>> /\ \A a \in 0..Len(F) : After(F, a) \in Seq(Nat)
<1>1. F = [i \in 1..Len(F) |-> F[i]] /\ Len(F) \in Nat
  BY SeqIsList DEF IsList
<1>2. After(F, 0) = F
  BY <1>1 DEF After
<1>3. After(F, Len(F)) = <<>>
  BY <1>1 DEF After
<1>4. ASSUME NEW a \in 0..Len(F) PROVE After(F, a) \in Seq(Nat)
  BY <1>1 DEF After
<1> QED
  BY <1>2, <1>3, <1>4

IsRest(rest, s) ==
  /\ rest[0] = FlattenSeq(s) /\ rest[Len(s)] = <<>> /\ \A k \in 0..Len(s) : rest[k] \in Seq(Nat)
  /\ \A k \in 1..Len(s) : rest[k - 1] = s[k] \o rest[k]
LEMMA RestOfRow == ASSUME NEW s \in Seq(Seq(Nat)) PROVE \E rest : IsRest(rest, s)
<1> DEFINE F == FlattenSeq(s)
           L == Len(s)
<1>1. F \in Seq(Nat) /\ L \in Nat
  BY FlattenFacts
<1>2. PICK start : Begins(start, s)
  BY FlattenFacts
<1>3. /\ start \in [0..L -> 0..Len(F)] /\ start[0] = 0 /\ start[L] = Len(F)
      /\ \A k \in 1..L : /\ start[k] = start[k - 1] + Len(s[k])
                         /\ \A i \in 1..Len(s[k]) : F[start[k - 1] + i] = s[k][i]
  BY <1>2 DEF Begins
<1> HIDE DEF F
<1> DEFINE rest == [k \in 0..L |-> After(F, start[k])]
<1>4. /\ \A k \in 0..L : start[k] \in 0..Len(F)
      /\ \A k \in 0..L : rest[k] = After(F, start[k])
  BY <1>3
<1>5. \A k \in 1..L : s[k] \in Seq(Nat) /\ k \in 0..L /\ k - 1 \in 0..L
  BY <1>1
<1>6. 0 \in 0..L /\ L \in 0..L
  BY <1>1
<1> HIDE DEF rest, L
<1>7. rest[0] = F /\ rest[L] = <<>>
  BY <1>1, <1>3, <1>4, <1>6, AfterFacts
<1>8. \A k \in 0..L : rest[k] \in Seq(Nat)
  BY <1>1, <1>4, AfterFacts
<1>9. ASSUME NEW k \in 1..L PROVE rest[k - 1] = s[k] \o rest[k]
  <2> DEFINE a == start[k - 1]
             b == start[k]
             u == s[k]
  <2>1. /\ a \in 0..Len(F) /\ b \in 0..Len(F) /\ u \in Seq(Nat) /\ b = a + Len(u)
        /\ \A i \in 1..Len(u) : F[a + i] = u[i]
    BY <1>3, <1>4, <1>5
  <2>2. rest[k - 1] = After(F, a) /\ rest[k] = After(F, b)
    BY <1>4, <1>5
  <2> HIDE DEF a, b, u
  <2>3. After(F, a) = u \o After(F, b)
    BY <1>1, <2>1, RestAfter DEF After
  <2>4. rest[k - 1] = u \o rest[k]
    BY <2>2, <2>3, Zenon
  <2> QED
    BY <2>4 DEF u
<1>10. IsRest(rest, s)
  BY <1>7, <1>8, <1>9 DEF IsRest, F, L
<1> QED
  BY <1>10

-----------------------------------------------------------------------------
(* The rows of a node                                                         *)

\* What is known of an index object o[k] of the node n.
IsObject(n, o, k) ==
  LET i == IndexAt(n, k)
  IN  /\ i \in MadeIndexes /\ o[k] \in Nodes /\ Fits(o[k], i.type)
      /\ i.fixedSize = o[k].fixedSize /\ i.labelname = o[k].label
      /\ i.implied = (n.implied /\ k = Len(n.indexes))
      /\ tree[Place(n, k)].tc = o[k].tc
      /\ o[k].tc \in DOMAIN combinedTypes =>
           Between(o, n.implied, k) = IF i.type = "InetAddressMissingSize" THEN 0 ELSE 1
      /\ k > 1 /\ o[k].tc \in DOMAIN combinedTypes => o[k - 1].tc \notin DOMAIN combinedTypes
\* The index objects o of the node n, and what Indexes collected of them.
HasObjects(n, L, A, o) ==
  /\ L \in Nat /\ L = Len(n.indexes) /\ Len(o) = L /\ DOMAIN o = 1..L /\ n.implied \in BOOLEAN
  /\ A[0] = NoIndexes /\ \A k \in 0..L : A[k].indexes \in Seq(MadeIndexes)
  /\ \A k \in 1..L : IsAdded(n, A[k - 1], k, A[k]) /\ IsObject(n, o, k)

LEMMA LabelOf ==
  ASSUME NEW node, NEW l, Label(l) \in Names(node)
  PROVE  node.label = l
BY DEF Label, Names, OidName, Qualified

LEMMA IndexFields ==
  ASSUME NEW n, NEW k
  PROVE  /\ IndexAt(n, k).type = LabelType(tree[Place(n, k)])
         /\ IndexAt(n, k).fixedSize = tree[Place(n, k)].fixedSize
         /\ IndexAt(n, k).labelname = n.indexes[k]
         /\ IndexAt(n, k).implied = (n.implied /\ k = Len(n.indexes))
BY DEF IndexAt, IndexOf

\* A decodable metric knows its index objects.
LEMMA ObjectsKnown ==
  ASSUME InHand, NEW p \in DOMAIN tree, NEW x, Origin(x) = tree[p], Indexes(tree[p]).result = "metric",
         Decodable(x), AddressesFit(x), ~SharedAddressType(x), NEW A, Collects(A, tree[p])
  PROVE  HasObjects(tree[p], Len(tree[p].indexes), A, IndexObjects(x))
<1> DEFINE n == tree[p]
           L == Len(n.indexes)
           o == IndexObjects(x)
<1>1. n.indexes \in Seq(STRING) /\ n.implied \in BOOLEAN
  BY TreeNodes DEF AsGiven
<1>2. L \in Nat /\ DOMAIN n.indexes = 1..L /\ \A k \in 1..L : n.indexes[k] \in STRING
  BY <1>1
<1>3. /\ A[0] = NoIndexes /\ \A k \in 0..L : A[k].indexes \in Seq(MadeIndexes)
  <2>1. \A k \in 0..L : A[k] \in Collected
    BY DEF Collects
  <2> QED
    BY <2>1 DEF Collects, Collected, CollectedFrom
<1>4. \A k \in 1..L : IsAdded(n, A[k - 1], k, A[k])
  BY AllAdded
<1>5. Origin(x) = n
  OBVIOUS
<1> HIDE DEF n
<1>6. o = [k \in 1..L |-> scenario.tree[Place(n, k)]] /\ \A k \in 1..L : Places(x)[k] = Place(n, k)
  BY <1>2, <1>5 DEF IndexObjects, Places, Place
<1>7. DOMAIN o = 1..L /\ \A k \in 1..L : o[k] = scenario.tree[Place(n, k)]
  BY <1>6
<1>8. Len(o) = L
  BY <1>2, <1>6
<1> HIDE DEF o, L
<1>9. ASSUME NEW k \in 1..L PROVE IsObject(n, o, k)
  <2> DEFINE i == IndexAt(n, k)
             q == Place(n, k)
  <2>1. q \in DOMAIN tree /\ q \in Named(tree, Label(n.indexes[k]))
    BY <1>4, TreeNodes DEF IsAdded, Place
  <2>2. AsGiven(tree[q], o[k]) /\ o[k] \in Nodes
    BY <1>7, <2>1, TreeNodes
  <2>3. tree[q].label = n.indexes[k]
    BY <2>1, LabelOf DEF Named
  <2>4. /\ i.type = LabelType(tree[q]) /\ i.fixedSize = tree[q].fixedSize /\ i.labelname = n.indexes[k]
        /\ i.implied = (n.implied /\ k = Len(n.indexes))
    BY IndexFields
  <2>5. i \in MadeIndexes
    <3> DEFINE b == n.implied /\ k = Len(n.indexes)
               l == n.indexes[k]
    <3>1. i = IndexOf(l, tree[q], b)
      BY DEF IndexAt
    <3>2. l \in STRING /\ q \in DOMAIN tree /\ b \in BOOLEAN
      BY <1>2, <2>1
    <3> HIDE DEF i, b, q, l
    <3> QED
      BY <3>1, <3>2 DEF MadeIndexes
  <2>6. MadeType(x, k) = i.type
    BY <1>6, <2>4 DEF MadeType
  <2>7. Fits(o[k], i.type)
    <3>1. k \in DOMAIN IndexObjects(x) /\ IndexObjects(x)[k] = o[k]
      BY <1>7 DEF o
    <3>2. /\ Conventional(o[k]) /\ TweakedType(o[k]) \in DOMAIN metricType
          /\ MibType(o[k]) \in IndexTypes /\ o[k].type # "BITSTRING"
          /\ MibType(o[k]) = "PhysAddress48" => o[k].fixedSize = 6
          /\ KeepsEncoding(MibType(o[k]), MadeType(x, k))
      BY <3>1 DEF Decodable
    <3> HIDE DEF i
    <3> QED
      BY <2>2, <2>6, <3>2 DEF Fits
  <2>8. o[k].tc \in DOMAIN combinedTypes =>
          Between(o, n.implied, k) = IF i.type = "InetAddressMissingSize" THEN 0 ELSE 1
    <3>1. k \in DOMAIN IndexObjects(x) /\ IndexObjects(x) = o
      BY <1>7 DEF o
    <3> HIDE DEF i
    <3> QED
      BY <1>5, <2>6, <3>1 DEF AddressesFit
  <2>9. k > 1 /\ o[k].tc \in DOMAIN combinedTypes => o[k - 1].tc \notin DOMAIN combinedTypes
    <3>1. IndexObjects(x) = o
      BY DEF o
    <3>2. k > 1 => k \in 2..Len(o)
      BY <1>2, <1>8
    <3> QED
      BY <3>1, <3>2 DEF SharedAddressType
  <2> HIDE DEF i, q
  <2>10. i.fixedSize = o[k].fixedSize /\ i.labelname = o[k].label /\ tree[q].tc = o[k].tc
    BY <2>2, <2>3, <2>4 DEF AsGiven
  <2> QED
    BY <2>2, <2>4, <2>5, <2>7, <2>8, <2>9, <2>10 DEF IsObject, i, q
<1>10. HasObjects(n, L, A, o)
  BY <1>1, <1>2, <1>3, <1>4, <1>7, <1>8, <1>9 DEF HasObjects, L
<1> QED
  BY <1>10 DEF n, L, o

-----------------------------------------------------------------------------
(* Addresses, and the objects they take the place of                          *)

\* What is left of a list without what was appended last.
Cut(s, j) == SubSeq(s, 1, Len(s) - j)
LEMMA Cuts ==
  ASSUME NEW M, NEW s \in Seq(M)
  PROVE  /\ Cut(s, 0) = s
         /\ \A a \in M : Cut(Append(s, a), 1) = s /\ \A b \in M : Cut(Append(Append(s, a), b), 2) = s
<1>1. Len(s) \in Nat /\ s = [i \in 1..Len(s) |-> s[i]]
  BY SeqIsList DEF IsList
<1>2. Cut(s, 0) = s
  BY <1>1 DEF Cut
<1>3. ASSUME NEW a \in M PROVE Cut(Append(s, a), 1) = s
  BY <1>1 DEF Cut
<1>4. ASSUME NEW a \in M, NEW b \in M PROVE Cut(Append(Append(s, a), b), 2) = s
  <2> DEFINE u == Append(s, a)
  <2>1. u \in Seq(M) /\ Len(u) = Len(s) + 1 /\ \A i \in 1..Len(s) : u[i] = s[i]
    OBVIOUS
  <2> HIDE DEF u
  <2> DEFINE w == Append(u, b)
  <2>2. w \in Seq(M) /\ Len(w) = Len(u) + 1 /\ \A i \in 1..Len(u) : w[i] = u[i]
    BY <2>1
  <2>3. Len(w) - 2 = Len(s) /\ \A i \in 1..Len(s) : w[i] = s[i]
    BY <1>1, <2>1, <2>2
  <2> HIDE DEF w
  <2>4. Cut(w, 2) = s
    BY <1>1, <2>2, <2>3 DEF Cut
  <2> QED
    BY <2>4 DEF w, u
<1> QED
  BY <1>2, <1>3, <1>4

Subtypes == {"InetAddressType", "LldpPortIdSubtype"}
LEMMA SubtypesOf ==
  /\ \A T \in DOMAIN combinedTypes : combinedTypes[T] \in Subtypes /\ combinedTypes[T] # ""
  /\ \A T \in Inet : combinedTypes[T] = "InetAddressType"
  /\ combinedTypes["LldpPortId"] = "LldpPortIdSubtype"
<1>1. /\ DOMAIN combinedTypes = {"InetAddress", "InetAddressMissingSize", "LldpPortId"}
      /\ combinedTypes["InetAddress"] = "InetAddressType" /\ combinedTypes["InetAddressMissingSize"] = "InetAddressType"
      /\ combinedTypes["LldpPortId"] = "LldpPortIdSubtype"
  BY DEF combinedTypes
<1> QED
  BY <1>1 DEF Subtypes, Inet

\* An object of a combined type is an address by its convention, a subtype is a number.
LEMMA CombinedObjects ==
  ASSUME NEW m, NEW T, Fits(m, T)
  PROVE  /\ T \in DOMAIN combinedTypes =>
              m.tc \in DOMAIN combinedTypes /\ combinedTypes[m.tc] = combinedTypes[T] /\ Octetted(m)
         /\ m.tc \in Subtypes => T \in Singles /\ T \notin DOMAIN combinedTypes
<1>1. MadeKind(m, T)
  BY MadeKinds
<1>2. IsPiece(m, T)
  BY Pieces
<1>3. \A t \in DOMAIN combinedTypes : t \notin Singles /\ t \notin Strings /\ t \notin DOMAIN Addresses
  BY CombinedTypes, AddressSizes DEF Singles, Numbers, Strings, Inet
<1>4. m.tc \in Subtypes => T \in Singles /\ T \notin DOMAIN combinedTypes
  BY <1>2, <1>3 DEF IsPiece, Subtypes
<1>5. ASSUME T \in DOMAIN combinedTypes
      PROVE  m.tc \in DOMAIN combinedTypes /\ combinedTypes[m.tc] = combinedTypes[T] /\ Octetted(m)
  <2>1. \/ T \in Inet /\ m.tc = "InetAddress" /\ Octetted(m)
        \/ T = "LldpPortId" /\ m.tc = "LldpPortId" /\ Octetted(m)
    <3>1. "InetAddressIPv4" \in DOMAIN Addresses
      BY AddressSizes
    <3> QED
      BY <1>1, <1>3, <1>5, <3>1 DEF MadeKind, IsKind, Inet
  <2>2. "InetAddress" \in Inet
    BY DEF Inet
  <2> QED
    BY <2>1, <2>2, CombinedTypes, SubtypesOf
<1> QED
  BY <1>4, <1>5

\* The k-th object takes t indexes: those of its subtype and what follows it.
TakesRight(n, A, o, k, t) ==
  /\ t \in {0, 1, 2} /\ t < k
  /\ A[k].indexes = Append(A[(k - 1) - t].indexes, IndexAt(n, k))
  /\ t = 0 <=> ~IsCombined(n, k)
  /\ t = 1 => o[k - 1].tc = combinedTypes[IndexAt(n, k).type]
  /\ t = 2 => /\ o[k - 2].tc = combinedTypes[IndexAt(n, k).type]
              /\ o[k - 1].tc # combinedTypes[IndexAt(n, k).type]

\* An address takes the indexes of the objects before it, which were not taken
\* yet.
LEMMA Takes ==
  ASSUME NEW n, NEW L, NEW A, NEW o, HasObjects(n, L, A, o), NEW k \in 1..L
  PROVE  TakesRight(n, A, o, k, TakenAt(n, A[k - 1], k))
<1> DEFINE t == TakenAt(n, A[k - 1], k)
           I(j) == IndexAt(n, j)
           q(j) == A[j].indexes
<1>0. L \in Nat /\ k \in Nat /\ k >= 1 /\ k <= L
  BY DEF HasObjects
<1>1. A[0].prevType = "" /\ A[0].prev2Type = "" /\ \A j \in 0..L : q(j) \in Seq(MadeIndexes)
  <2>1. A[0] = NoIndexes
    BY DEF HasObjects
  <2>2. A[0].prevType = "" /\ A[0].prev2Type = ""
    <3>1. NoIndexes.prevType = "" /\ NoIndexes.prev2Type = ""
      BY DEF NoIndexes
    <3> QED
      BY <2>1, <3>1, Zenon
  <2>3. \A j \in 0..L : q(j) \in Seq(MadeIndexes)
    BY DEF HasObjects
  <2> QED
    BY <2>2, <2>3
<1>2. ASSUME NEW j \in 1..L
      PROVE  /\ I(j) \in MadeIndexes /\ Fits(o[j], I(j).type)
             /\ IsCombined(n, j) = (I(j).type \in DOMAIN combinedTypes)
             /\ IsCombined(n, j) => TakenAt(n, A[j - 1], j) # 0
             /\ q(j) = Append(Cut(q(j - 1), TakenAt(n, A[j - 1], j)), I(j))
             /\ A[j].prevType = o[j].tc /\ A[j].prev2Type = A[j - 1].prevType
             /\ j > 1 /\ o[j].tc \in DOMAIN combinedTypes => o[j - 1].tc \notin DOMAIN combinedTypes
  <2>1. IsAdded(n, A[j - 1], j, A[j]) /\ IsObject(n, o, j)
    BY DEF HasObjects
  <2> QED
    BY <2>1 DEF IsAdded, IsObject, IsCombined, Cut
<1> HIDE DEF I, q
<1>3. ASSUME NEW j \in 1..L, ~IsCombined(n, j) PROVE q(j) = Append(q(j - 1), I(j))
  <2>1. TakenAt(n, A[j - 1], j) = 0
    BY <1>3 DEF TakenAt
  <2>2. j - 1 \in 0..L
    BY <1>0
  <2>3. Cut(q(j - 1), 0) = q(j - 1)
    BY <1>1, <2>2, Cuts
  <2>4. q(j) = Append(Cut(q(j - 1), 0), I(j))
    BY <1>2, <2>1
  <2> QED
    BY <2>3, <2>4, Zenon
<1>4. ASSUME NEW j \in 1..L, o[j].tc \in Subtypes PROVE ~IsCombined(n, j)
  BY <1>2, <1>4, CombinedObjects
<1>5. CASE ~IsCombined(n, k)
  <2>1. t = 0
    BY <1>5 DEF TakenAt
  <2>2. q(k) = Append(q((k - 1) - 0), I(k))
    <3>1. (k - 1) - 0 = k - 1
      BY <1>0
    <3> QED
      BY <1>3, <1>5, <3>1
  <2> QED
    BY <1>5, <2>1, <2>2 DEF TakesRight, q, I
<1>6. CASE IsCombined(n, k)
  <2> DEFINE sub == combinedTypes[I(k).type]
  <2>1. /\ sub \in Subtypes /\ sub # "" /\ o[k].tc \in DOMAIN combinedTypes
        /\ t # 0 /\ t = Taken(sub, A[k - 1])
    <3>1. I(k).type \in DOMAIN combinedTypes /\ t # 0
      BY <1>2, <1>6
    <3>2. t = Taken(sub, A[k - 1])
      BY <1>6 DEF TakenAt, I
    <3> QED
      BY <1>2, <3>1, <3>2, SubtypesOf, CombinedObjects
  <2> HIDE DEF sub, t
  <2>2. \/ t = 1 /\ sub = A[k - 1].prevType
        \/ t = 2 /\ sub # A[k - 1].prevType /\ sub = A[k - 1].prev2Type
    BY <2>1 DEF Taken
  <2>3. k > 1
    <3>1. k = 1 => k - 1 = 0
      OBVIOUS
    <3>2. k # 1
      BY <1>1, <2>1, <2>2, <3>1
    <3> QED
      BY <1>0, <3>2
  <2>4. k - 1 \in 1..L /\ (k - 1) - 1 \in 0..L
    BY <1>0, <2>3
  <2>5. A[k - 1].prevType = o[k - 1].tc /\ A[k - 1].prev2Type = A[(k - 1) - 1].prevType
    BY <1>2, <2>4
  <2>6. ~IsCombined(n, k - 1)
    <3>1. o[k - 1].tc \notin DOMAIN combinedTypes
      BY <1>2, <2>1, <2>3
    <3> QED
      BY <1>2, <2>4, <3>1, CombinedObjects
  <2>7. q(k - 1) = Append(q((k - 1) - 1), I(k - 1))
    BY <1>3, <2>4, <2>6
  <2>8. q(k) = Append(Cut(q(k - 1), t), I(k))
    BY <1>2 DEF t
  <2>9. CASE t = 1
    <3>1. o[k - 1].tc = sub
      BY <2>2, <2>5, <2>9
    <3> DEFINE before == q((k - 1) - 1)
               last == I(k - 1)
    <3>2. before \in Seq(MadeIndexes) /\ last \in MadeIndexes
      BY <1>1, <1>2, <2>4
    <3>3. q(k - 1) = Append(before, last)
      BY <2>7
    <3> HIDE DEF before, last
    <3>4. Cut(Append(before, last), 1) = before
      BY <3>2, Cuts
    <3>5. q(k) = Append(before, I(k))
      BY <2>8, <2>9, <3>3, <3>4, Zenon
    <3> QED
      BY <1>6, <2>3, <2>9, <3>1, <3>5 DEF TakesRight, q, I, before, sub, t
  <2>10. CASE t = 2
    <3>1. o[k - 1].tc # sub /\ A[(k - 1) - 1].prevType = sub
      BY <2>2, <2>5, <2>10
    <3>2. k > 2
      <4>1. k = 2 => (k - 1) - 1 = 0
        OBVIOUS
      <4>2. k # 2
        BY <1>1, <2>1, <3>1, <4>1
      <4> QED
        BY <1>0, <2>3, <4>2
    <3>3. (k - 1) - 1 = k - 2 /\ k - 2 \in 1..L /\ (k - 2) - 1 = (k - 1) - 2 /\ (k - 1) - 2 \in 0..L
      BY <1>0, <3>2
    <3>4. o[k - 2].tc = sub
      BY <1>2, <3>1, <3>3
    <3>5. q(k - 2) = Append(q((k - 1) - 2), I(k - 2))
      <4>1. ~IsCombined(n, k - 2)
        BY <1>4, <2>1, <3>3, <3>4
      <4>2. q(k - 2) = Append(q((k - 2) - 1), I(k - 2))
        BY <1>3, <3>3, <4>1
      <4> QED
        BY <3>3, <4>2
    <3> DEFINE before == q((k - 1) - 2)
               one == I(k - 2)
               two == I(k - 1)
    <3>6. before \in Seq(MadeIndexes) /\ one \in MadeIndexes /\ two \in MadeIndexes
      BY <1>1, <1>2, <2>4, <3>3
    <3>7. q(k - 1) = Append(Append(before, one), two)
      BY <2>7, <3>3, <3>5
    <3> HIDE DEF before, one, two
    <3>8. Cut(Append(Append(before, one), two), 2) = before
      BY <3>6, Cuts
    <3>9. q(k) = Append(before, I(k))
      BY <2>8, <2>10, <3>7, <3>8, Zenon
    <3> QED
      BY <1>6, <2>10, <3>1, <3>2, <3>4, <3>9 DEF TakesRight, q, I, before, sub, t
  <2> QED
    BY <2>2, <2>9, <2>10
<1> QED
  BY <1>5, <1>6

-----------------------------------------------------------------------------
(* Each index decodes its object                                              *)

LEMMA KindOfType ==
  ASSUME NEW m, NEW T, Fits(m, T)
  PROVE  T \in Singles \cup Strings \cup DOMAIN Addresses \cup Combined
<1>1. MadeKind(m, T) /\ "InetAddressIPv4" \in DOMAIN Addresses
  BY MadeKinds, AddressSizes
<1> QED
  BY <1>1, CombinedTypes DEF MadeKind, IsKind, Inet

LEMMA PlainTo ==
  ASSUME NEW oid, NEW T, T \notin Combined, NEW size, NEW imp, NEW enums, NEW v, NEW rest,
         SimpleTo(oid, T, size, imp, enums, v, rest)
  PROVE  DecodesTo(oid, T, size, imp, enums, v, rest)
BY DEF SimpleTo, DecodesTo, indexOidsAsString

\* An object of one index.
LEMMA PlainDecodes ==
  ASSUME NEW m, NEW T, Fits(m, T), T \notin DOMAIN combinedTypes, NEW imp \in BOOLEAN, NEW enums,
         NEW rest \in Seq(Nat), imp => rest = <<>>
  PROVE  DecodesTo(Encoded(m, imp) \o rest, T, m.fixedSize, imp, enums, Value(m), rest)
<1> DEFINE v == Value(m)
           e == Encoded(m, imp)
           size == m.fixedSize
<1>1. IsPiece(m, T) /\ m \in Nodes
  BY Pieces DEF Fits
<1>2. v \in Seq(Bytes) /\ v # <<>> /\ size \in Nat
  BY <1>1 DEF IsPiece, Nodes
<1>3. e = IF Octetted(m) /\ size = 0 /\ ~imp THEN <<Len(v)>> \o v ELSE v
  BY DEF Encoded
<1>4. T \notin Combined
  BY CombinedTypes
<1>5. /\ T \in Singles => Len(v) = 1 /\ ~Octetted(m)
      /\ T \in DOMAIN Addresses => Len(v) = Addresses[T] /\ (Octetted(m) => size # 0)
      /\ T \in Strings => Octetted(m) /\ (size # 0 => Len(v) = size)
  BY <1>1 DEF IsPiece
<1> HIDE DEF v, e, size
<1>6. SimpleTo(e \o rest, T, size, imp, enums, v, rest)
  <2>1. CASE T \in Singles
    <3>1. e = v
      BY <1>3, <1>5, <2>1
    <3>2. SimpleTo(v \o rest, T, size, imp, enums, v, rest)
      BY <1>2, <1>5, <2>1, SingleDecodes
    <3> QED
      BY <3>1, <3>2, Zenon
  <2>2. CASE T \in DOMAIN Addresses
    <3>1. e = v
      BY <1>3, <1>5, <2>2
    <3>2. SimpleTo(v \o rest, T, size, imp, enums, v, rest)
      BY <1>2, <1>5, <2>2, AddressDecodes
    <3> QED
      BY <3>1, <3>2, Zenon
  <2>3. CASE T \in Strings
    <3>1. e = IF size = 0 /\ ~imp THEN <<Len(v)>> \o v ELSE v
      BY <1>3, <1>5, <2>3
    <3>2. size # 0 /\ ~imp => Len(v) = size
      BY <1>5, <2>3
    <3> QED
      BY <1>2, <2>3, <3>1, <3>2, StringDecodes
  <2> QED
    BY <1>4, <2>1, <2>2, <2>3, KindOfType
<1> QED
  BY <1>4, <1>6, PlainTo DEF v, e, size

\* An address, with what is between its subtype and its octets.
LEMMA AddressOf ==
  ASSUME NEW m, NEW T, Fits(m, T), T \in DOMAIN combinedTypes, NEW imp \in BOOLEAN, NEW enums, NEW size,
         NEW first \in Seq(Nat), Len(first) = 1, first[1] = (IF T \in Inet THEN 1 ELSE 3),
         NEW mid \in Seq(Nat), NEW rest \in Seq(Nat),
         Len(mid) + (Len(Encoded(m, imp)) - Len(Value(m))) = (IF T = "InetAddressMissingSize" THEN 0 ELSE 1)
  PROVE  DecodesTo(first \o (mid \o (Encoded(m, imp) \o rest)), T, size, imp, enums, Value(m), rest)
<1> DEFINE v == Value(m)
           e == Encoded(m, imp)
           pre == IF Octetted(m) /\ m.fixedSize = 0 /\ ~imp THEN <<Len(v)>> ELSE <<>>
           between == mid \o pre
<1>1. IsPiece(m, T)
  BY Pieces
<1>2. v \in Seq(Bytes) /\ v \in Seq(Nat)
  <2>1. v \in Seq(Bytes)
    BY <1>1 DEF IsPiece
  <2> QED
    BY <2>1, BytesAre
<1>3. Len(v) = IF T \in Inet THEN 4 ELSE 6
  BY <1>1, CombinedTypes DEF IsPiece
<1>4. e = pre \o v
  <2>1. e = IF Octetted(m) /\ m.fixedSize = 0 /\ ~imp THEN <<Len(v)>> \o v ELSE v
    BY DEF Encoded
  <2>2. <<>> \o v = v
    BY <1>2, Appending
  <2> HIDE DEF v, e
  <2>3. CASE Octetted(m) /\ m.fixedSize = 0 /\ ~imp
    BY <2>1, <2>3
  <2>4. CASE ~(Octetted(m) /\ m.fixedSize = 0 /\ ~imp)
    BY <2>1, <2>2, <2>4
  <2> QED
    BY <2>3, <2>4
<1>5. pre \in Seq(Nat)
  BY <1>3
<1> DEFINE IsLong == Len(mid) + (Len(e) - Len(v)) = IF T = "InetAddressMissingSize" THEN 0 ELSE 1
<1>6. IsLong
  OBVIOUS
<1> HIDE DEF v, e, pre
<1>7. Len(e) = Len(pre) + Len(v) /\ Len(between) = Len(mid) + Len(pre) /\ between \in Seq(Nat)
  <2>1. Len(pre \o v) = Len(pre) + Len(v) /\ Len(mid \o pre) = Len(mid) + Len(pre)
    BY <1>2, <1>5, Joined
  <2>2. mid \o pre \in Seq(Nat)
    BY <1>5, Appending
  <2> QED
    BY <1>4, <2>1, <2>2, Zenon
<1>8. Len(between) = IF T = "InetAddressMissingSize" THEN 0 ELSE 1
  <2>1. Len(pre) \in Nat /\ Len(v) \in Nat /\ Len(mid) \in Nat
    BY <1>2, <1>5
  <2> HIDE DEF between
  <2> QED
    BY <1>6, <1>7, <2>1 DEF IsLong
<1>9. mid \o (e \o rest) = between \o (v \o rest)
  <2>1. Regroups(pre, v, rest)
    BY <1>2, <1>5, Regrouping
  <2> DEFINE end == v \o rest
  <2>2. end \in Seq(Nat)
    BY <1>2, Appending
  <2> HIDE DEF end
  <2>3. Regroups(mid, pre, end)
    BY <1>5, <2>2, Regrouping
  <2>4. (pre \o v) \o rest = pre \o end
    BY <2>1, Zenon DEF Regroups, end
  <2>5. (mid \o pre) \o end = mid \o (pre \o end)
    BY <2>3, Zenon DEF Regroups
  <2>6. mid \o (e \o rest) = (mid \o pre) \o end
    BY <1>4, <2>4, <2>5, Zenon
  <2> QED
    BY <2>6, Zenon DEF end
<1> HIDE DEF between
<1>10. DecodesTo(first \o (between \o (v \o rest)), T, size, imp, enums, v, rest)
  BY <1>2, <1>3, <1>7, <1>8, CombinedTypes, CombinedDecodes
<1>11. DecodesTo(first \o (mid \o (e \o rest)), T, size, imp, enums, v, rest)
  BY <1>9, <1>10, Zenon
<1> QED
  BY <1>11 DEF v, e

-----------------------------------------------------------------------------
(* The next index of a row                                                    *)

LEMMA EncodedLists ==
  ASSUME NEW m, NEW T, Fits(m, T), NEW imp
  PROVE  /\ Value(m) \in Seq(Bytes) /\ Encoded(m, imp) \in Seq(Nat)
         /\ m.tc \in Subtypes => Encoded(m, imp) = Value(m) /\ Len(Value(m)) = 1
                                 /\ Value(m)[1] = IF m.tc = "InetAddressType" THEN 1 ELSE 3
<1>1. IsPiece(m, T)
  BY Pieces
<1>2. Value(m) \in Seq(Bytes) /\ Value(m) \in Seq(Nat)
  <2>1. Value(m) \in Seq(Bytes)
    BY <1>1 DEF IsPiece
  <2> QED
    BY <2>1, BytesAre
<1>3. Encoded(m, imp) \in Seq(Nat)
  <2> DEFINE v == Value(m)
             first == <<Len(v)>>
  <2>1. Encoded(m, imp) = first \o v \/ Encoded(m, imp) = v
    BY DEF Encoded
  <2>2. first \in Seq(Nat) /\ v \in Seq(Nat)
    BY <1>2
  <2> HIDE DEF first, v
  <2>3. first \o v \in Seq(Nat)
    BY <2>2, Appending
  <2> QED
    BY <2>1, <2>2, <2>3, Zenon
<1>4. ASSUME m.tc \in Subtypes
      PROVE  Encoded(m, imp) = Value(m) /\ Len(Value(m)) = 1
             /\ Value(m)[1] = IF m.tc = "InetAddressType" THEN 1 ELSE 3
  <2>1. ~Octetted(m) /\ Len(Value(m)) = 1
    BY <1>1, <1>4 DEF IsPiece, Subtypes
  <2>2. Value(m) = IF m.tc = "InetAddressType" THEN <<1>> ELSE <<3>>
    BY <1>1, <1>4 DEF IsPiece, Subtypes
  <2>3. Encoded(m, imp) = Value(m)
    BY <2>1 DEF Encoded
  <2> QED
    BY <2>1, <2>2, <2>3
<1> QED
  BY <1>2, <1>3, <1>4

\* What is left for an object of a node, with the objects it takes, is decoded.
LEMMA NextDecodes ==
  ASSUME NEW n, NEW L, NEW A, NEW o, HasObjects(n, L, A, o),
         NEW rest, IsRest(rest, Row(o, n.implied)), NEW k \in 1..L,
         NEW t, TakesRight(n, A, o, k, t), NEW i, i = IndexAt(n, k)
  PROVE  DecodesTo(rest[(k - 1) - t], i.type, i.fixedSize, i.implied, i.enumValues, Value(o[k]), rest[k])
<1> DEFINE imp == n.implied /\ k = Len(o)
           T == i.type
           m == o[k]
           e == Encoded(m, imp)
           r == rest[k]
<1>0. L \in Nat /\ k \in Nat /\ k >= 1 /\ k <= L /\ Len(o) = L /\ DOMAIN o = 1..L /\ n.implied \in BOOLEAN
  BY DEF HasObjects
<1>1. ASSUME NEW j \in 1..L
      PROVE  /\ Fits(o[j], IndexAt(n, j).type)
             /\ rest[j] \in Seq(Nat) /\ rest[j - 1] = Encoded(o[j], n.implied /\ j = Len(o)) \o rest[j]
  <2>1. Fits(o[j], IndexAt(n, j).type)
    BY DEF HasObjects, IsObject
  <2> DEFINE s == Row(o, n.implied)
  <2>2. Len(s) = L /\ s[j] = Encoded(o[j], n.implied /\ j = Len(o))
    BY <1>0 DEF Row
  <2> HIDE DEF s
  <2>3. j \in 0..Len(s) /\ j \in 1..Len(s)
    BY <1>0, <2>2
  <2>4. rest[j] \in Seq(Nat) /\ rest[j - 1] = s[j] \o rest[j]
    BY <2>3 DEF IsRest, s
  <2> QED
    BY <2>1, <2>2, <2>4, Zenon
<1>2. rest[L] = <<>>
  <2>1. Len(Row(o, n.implied)) = L
    BY <1>0 DEF Row
  <2> QED
    BY <2>1 DEF IsRest
<1>3. IsObject(n, o, k)
  BY DEF HasObjects
<1>4. /\ Fits(m, T) /\ i.fixedSize = m.fixedSize /\ i.implied = imp
      /\ m.tc \in DOMAIN combinedTypes =>
           Between(o, n.implied, k) = IF T = "InetAddressMissingSize" THEN 0 ELSE 1
  BY <1>0, <1>3 DEF IsObject, HasObjects
<1>5. imp \in BOOLEAN /\ (imp => r = <<>>)
  BY <1>0, <1>2
<1>6. r \in Seq(Nat) /\ rest[k - 1] = e \o r
  BY <1>1
<1>7. IsCombined(n, k) = (T \in DOMAIN combinedTypes)
  BY DEF IsCombined
<1>8. e \in Seq(Nat)
  BY <1>4, EncodedLists
<1> HIDE DEF imp, e, r, m, T
<1>9. CASE T \notin DOMAIN combinedTypes
  <2>1. t = 0
    BY <1>7, <1>9 DEF TakesRight
  <2>2. rest[(k - 1) - t] = e \o r
    <3>1. (k - 1) - t = k - 1
      BY <1>0, <2>1
    <3> QED
      BY <1>6, <3>1
  <2>3. DecodesTo(e \o r, T, m.fixedSize, imp, i.enumValues, Value(m), r)
    BY <1>4, <1>5, <1>6, <1>9, PlainDecodes DEF e
  <2>4. DecodesTo(rest[(k - 1) - t], T, i.fixedSize, i.implied, i.enumValues, Value(m), r)
    BY <1>4, <2>2, <2>3, Zenon
  <2> QED
    BY <2>4 DEF T, m, r
<1>10. CASE T \in DOMAIN combinedTypes
  <2> DEFINE size == Len(e) - Len(Value(m))
             sub == combinedTypes[T]
  <2>1. /\ m.tc \in DOMAIN combinedTypes /\ combinedTypes[m.tc] = sub
    BY <1>4, <1>10, CombinedObjects
  <2>2. sub \in Subtypes /\ sub = (IF T \in Inet THEN "InetAddressType" ELSE "LldpPortIdSubtype")
    BY <1>10, CombinedTypes, SubtypesOf
  <2>3. Between(o, n.implied, k) =
          IF k > 1 /\ o[k - 1].tc = sub THEN size
          ELSE IF k > 2 THEN Len(Encoded(o[k - 1], FALSE)) + size ELSE 0
    BY <2>1 DEF Between, m, e, imp
  <2>4. Between(o, n.implied, k) = IF T = "InetAddressMissingSize" THEN 0 ELSE 1
    BY <1>4, <2>1
  <2>5. t \in {1, 2} /\ t < k
    BY <1>7, <1>10 DEF TakesRight
  <2> HIDE DEF sub, size
  <2>6. ASSUME NEW j \in 1..L, o[j].tc = sub, j # L
        PROVE  /\ Encoded(o[j], n.implied /\ j = Len(o)) \in Seq(Nat)
               /\ Len(Encoded(o[j], n.implied /\ j = Len(o))) = 1
               /\ Encoded(o[j], n.implied /\ j = Len(o))[1] = IF T \in Inet THEN 1 ELSE 3
    <3> DEFINE b == n.implied /\ j = Len(o)
    <3>1. Fits(o[j], IndexAt(n, j).type)
      BY <1>1
    <3>2. o[j].tc \in Subtypes /\ (o[j].tc = "InetAddressType" <=> T \in Inet)
      BY <2>2, <2>6
    <3> HIDE DEF b
    <3>3. /\ Encoded(o[j], b) \in Seq(Nat) /\ Encoded(o[j], b) = Value(o[j]) /\ Len(Value(o[j])) = 1
          /\ Value(o[j])[1] = IF o[j].tc = "InetAddressType" THEN 1 ELSE 3
      BY <3>1, <3>2, EncodedLists
    <3>4. Encoded(o[j], b) \in Seq(Nat) /\ Len(Encoded(o[j], b)) = 1 /\ Encoded(o[j], b)[1] = IF T \in Inet THEN 1 ELSE 3
      BY <3>2, <3>3
    <3> QED
      BY <3>4 DEF b
  <2>7. CASE t = 1
    <3>1. o[k - 1].tc = sub /\ k > 1 /\ k - 1 \in 1..L /\ k - 1 # L /\ (k - 1) - t = (k - 1) - 1
      BY <1>0, <2>5, <2>7 DEF TakesRight, sub, T
    <3> DEFINE first == Encoded(o[k - 1], n.implied /\ k - 1 = Len(o))
               mid == <<>>
    <3>2. first \in Seq(Nat) /\ Len(first) = 1 /\ first[1] = IF T \in Inet THEN 1 ELSE 3
      BY <2>6, <3>1
    <3>3. rest[(k - 1) - 1] = first \o rest[k - 1]
      BY <1>1, <3>1
    <3>4. mid \in Seq(Nat) /\ Len(mid) = 0 /\ mid \o (e \o r) = e \o r
      <4> DEFINE oid == e \o r
      <4>1. oid \in Seq(Nat)
        BY <1>6, <1>8, Appending
      <4> HIDE DEF oid
      <4>2. mid \o oid = oid
        BY <4>1
      <4>3. mid \in Seq(Nat) /\ Len(mid) = 0
        OBVIOUS
      <4> QED
        BY <4>2, <4>3, Zenon DEF oid
    <3> HIDE DEF first, mid
    <3>5. Len(mid) + (Len(e) - Len(Value(m))) = IF T = "InetAddressMissingSize" THEN 0 ELSE 1
      <4>1. size = IF T = "InetAddressMissingSize" THEN 0 ELSE 1
        BY <2>3, <2>4, <3>1
      <4>2. Len(mid) + size = size
        BY <3>4, <4>1
      <4> QED
        BY <4>1, <4>2 DEF size
    <3>6. DecodesTo(first \o (mid \o (e \o r)), T, m.fixedSize, imp, i.enumValues, Value(m), r)
      BY <1>4, <1>5, <1>6, <1>10, <3>2, <3>4, <3>5, AddressOf DEF e
    <3>7. rest[(k - 1) - t] = first \o (mid \o (e \o r))
      BY <1>6, <3>1, <3>3, <3>4, Zenon
    <3>8. DecodesTo(rest[(k - 1) - t], T, i.fixedSize, i.implied, i.enumValues, Value(m), r)
      BY <1>4, <3>6, <3>7, Zenon
    <3> QED
      BY <3>8 DEF T, m, r
  <2>8. CASE t = 2
    <3>1. /\ o[k - 2].tc = sub /\ o[k - 1].tc # sub /\ k > 2 /\ k - 2 \in 1..L /\ k - 2 # L /\ k - 1 \in 1..L
          /\ k - 1 # L /\ (k - 1) - t = (k - 2) - 1 /\ (k - 1) - 1 = k - 2
      BY <1>0, <2>5, <2>8 DEF TakesRight, sub, T
    <3> DEFINE first == Encoded(o[k - 2], n.implied /\ k - 2 = Len(o))
               mid == Encoded(o[k - 1], n.implied /\ k - 1 = Len(o))
    <3>2. first \in Seq(Nat) /\ Len(first) = 1 /\ first[1] = IF T \in Inet THEN 1 ELSE 3
      BY <2>6, <3>1
    <3>3. rest[(k - 2) - 1] = first \o rest[k - 2]
      BY <1>1, <3>1
    <3>4. rest[(k - 1) - 1] = mid \o rest[k - 1]
      BY <1>1, <3>1
    <3>5. mid = Encoded(o[k - 1], FALSE)
      BY <1>0, <3>1 DEF Encoded
    <3>6. mid \in Seq(Nat)
      <4>1. Fits(o[k - 1], IndexAt(n, k - 1).type)
        BY <1>1, <3>1
      <4> QED
        BY <4>1, EncodedLists
    <3> HIDE DEF first, mid
    <3>7. Len(mid) + (Len(e) - Len(Value(m))) = IF T = "InetAddressMissingSize" THEN 0 ELSE 1
      BY <2>3, <2>4, <3>1, <3>5 DEF size
    <3>8. DecodesTo(first \o (mid \o (e \o r)), T, m.fixedSize, imp, i.enumValues, Value(m), r)
      BY <1>4, <1>5, <1>6, <1>10, <3>2, <3>6, <3>7, AddressOf DEF e
    <3>9. rest[(k - 1) - t] = first \o (mid \o (e \o r))
      <4>1. rest[(k - 1) - t] = first \o rest[k - 2]
        BY <3>1, <3>3, Zenon
      <4>2. rest[k - 2] = mid \o rest[k - 1]
        BY <3>1, <3>4, Zenon
      <4> QED
        BY <1>6, <4>1, <4>2, Zenon
    <3>10. DecodesTo(rest[(k - 1) - t], T, i.fixedSize, i.implied, i.enumValues, Value(m), r)
      BY <1>4, <3>8, <3>9, Zenon
    <3> QED
      BY <3>10 DEF T, m, r
  <2> QED
    BY <2>5, <2>7, <2>8
<1> QED
  BY <1>9, <1>10

-----------------------------------------------------------------------------
(* The rows of a metric                                                       *)

LEMMA RowList ==
  ASSUME NEW n, NEW L, NEW A, NEW o, HasObjects(n, L, A, o)
  PROVE  Row(o, n.implied) \in Seq(Seq(Nat)) /\ Len(Row(o, n.implied)) = L
<1> DEFINE s == [k \in 1..L |-> Encoded(o[k], n.implied /\ k = Len(o))]
<1>1. L \in Nat /\ Row(o, n.implied) = s
  BY DEF HasObjects, Row
<1>2. \A k \in 1..L : Encoded(o[k], n.implied /\ k = Len(o)) \in Seq(Nat)
  <2> SUFFICES ASSUME NEW k \in 1..L PROVE Encoded(o[k], n.implied /\ k = Len(o)) \in Seq(Nat)
    OBVIOUS
  <2>1. Fits(o[k], IndexAt(n, k).type)
    BY DEF HasObjects, IsObject
  <2> DEFINE b == n.implied /\ k = Len(o)
  <2> HIDE DEF b
  <2>2. Encoded(o[k], b) \in Seq(Nat)
    BY <2>1, EncodedLists
  <2> QED
    BY <2>2 DEF b
<1>3. s \in [1..L -> Seq(Nat)]
  BY <1>2
<1> HIDE DEF s
<1>4. s \in Seq(Seq(Nat)) /\ Len(s) = L
  BY <1>1, <1>3
<1> QED
  BY <1>1, <1>4

\* Labels and values of a row's objects, and those an address takes.
Labels(o) == [k \in DOMAIN o |-> o[k].label]
ObjectValues(o) == [k \in DOMAIN o |-> Value(o[k])]
Lacking(o) == {k \in DOMAIN o : MayLack(o, k)}

\* The rows of a node are shown by the indexes collected of it.
LEMMA NodeShown ==
  ASSUME NEW n, NEW L, NEW A, NEW o, HasObjects(n, L, A, o)
  PROVE  \E d : ShowsRow(d, A[L].indexes, FlattenSeq(Row(o, n.implied)), <<>>, Labels(o), ObjectValues(o),
                         1..L, (1..L) \ Lacking(o))
<1> DEFINE s == Row(o, n.implied)
           q == [k \in 0..L |-> A[k].indexes]
           t == [k \in 1..L |-> TakenAt(n, A[k - 1], k)]
           I == [k \in 1..L |-> IndexAt(n, k)]
           lab == Labels(o)
           V == ObjectValues(o)
           lacks == Lacking(o)
<1>1. L \in Nat /\ DOMAIN o = 1..L
  BY DEF HasObjects
<1>2. PICK rest : IsRest(rest, s)
  BY RowList, RestOfRow
<1>3. rest[0] = FlattenSeq(s) /\ rest[L] = <<>>
  BY <1>2, RowList DEF IsRest
<1>4. /\ \A k \in 0..L : q[k] = A[k].indexes
      /\ \A k \in 1..L : t[k] = TakenAt(n, A[k - 1], k) /\ I[k] = IndexAt(n, k)
                         /\ lab[k] = o[k].label /\ V[k] = Value(o[k])
  BY <1>1 DEF Labels, ObjectValues
<1>5. \A k \in 1..L : k \in lacks <=> MayLack(o, k)
  BY <1>1 DEF Lacking
<1> HIDE DEF q, t, I, lab, V, lacks, s
<1>6. q[0] = <<>> /\ \A k \in 0..L : q[k] \in Seq(MadeIndexes)
  <2>1. A[0] = NoIndexes /\ \A k \in 0..L : A[k].indexes \in Seq(MadeIndexes)
    BY DEF HasObjects
  <2>2. NoIndexes.indexes = <<>>
    BY DEF NoIndexes
  <2>3. 0 \in 0..L
    BY <1>1
  <2>4. q[0] = <<>>
    BY <1>4, <2>1, <2>2, <2>3, Zenon
  <2> QED
    BY <1>4, <2>1, <2>4
<1>7. ASSUME NEW k \in 1..L
      PROVE  /\ t[k] \in {0, 1, 2} /\ t[k] < k /\ I[k] \in MadeIndexes
             /\ q[k] = Append(q[(k - 1) - t[k]], I[k])
             /\ I[k].labelname = lab[k] /\ V[k] \in Seq(Bytes)
             /\ DecodesTo(rest[(k - 1) - t[k]], I[k].type, I[k].fixedSize, I[k].implied, I[k].enumValues, V[k], rest[k])
             /\ \A j \in 1..L : j < k /\ j > (k - 1) - t[k] => j \in lacks
  <2> DEFINE tk == t[k]
             Ik == I[k]
  <2>1. TakesRight(n, A, o, k, tk)
    <3>1. TakesRight(n, A, o, k, TakenAt(n, A[k - 1], k))
      BY Takes
    <3> QED
      BY <1>4, <3>1
  <2>2. IsObject(n, o, k)
    BY DEF HasObjects
  <2>3. Ik = IndexAt(n, k) /\ lab[k] = o[k].label /\ V[k] = Value(o[k])
    BY <1>4
  <2>4. Ik \in MadeIndexes /\ Ik.labelname = lab[k] /\ Fits(o[k], Ik.type)
    BY <2>2, <2>3 DEF IsObject
  <2>5. V[k] \in Seq(Bytes)
    BY <2>3, <2>4, EncodedLists
  <2> HIDE DEF tk, Ik
  <2>6. DecodesTo(rest[(k - 1) - tk], Ik.type, Ik.fixedSize, Ik.implied, Ik.enumValues, V[k], rest[k])
    <3>1. DecodesTo(rest[(k - 1) - tk], Ik.type, Ik.fixedSize, Ik.implied, Ik.enumValues, Value(o[k]), rest[k])
      BY <1>2, <2>1, <2>3, NextDecodes DEF s
    <3> QED
      BY <2>3, <3>1, Zenon
  <2>7. tk \in {0, 1, 2} /\ tk < k /\ A[k].indexes = Append(A[(k - 1) - tk].indexes, IndexAt(n, k))
        /\ (tk = 0 <=> ~IsCombined(n, k))
    BY <2>1 DEF TakesRight
  <2>8. q[k] = Append(q[(k - 1) - tk], Ik)
    <3>1. (k - 1) - tk \in 0..L /\ k \in 0..L
      BY <1>1, <2>7
    <3>2. q[k] = A[k].indexes /\ q[(k - 1) - tk] = A[(k - 1) - tk].indexes
      BY <1>4, <3>1
    <3> QED
      BY <2>3, <2>7, <3>2, Zenon
  <2>9. ASSUME NEW j \in 1..L, j < k, j > (k - 1) - tk PROVE j \in lacks
    <3>1. tk # 0 /\ k \in {j + 1, j + 2} /\ k \in DOMAIN o
      BY <1>1, <2>7, <2>9
    <3>2. o[k].tc \in DOMAIN combinedTypes
      <4>1. Ik.type \in DOMAIN combinedTypes
        BY <2>3, <2>7, <3>1 DEF IsCombined
      <4> QED
        BY <2>4, <4>1, CombinedObjects
    <3>3. MayLack(o, j)
      BY <3>1, <3>2 DEF MayLack
    <3> QED
      BY <1>5, <3>3
  <2>10. /\ tk \in {0, 1, 2} /\ tk < k /\ Ik \in MadeIndexes
         /\ q[k] = Append(q[(k - 1) - tk], Ik)
         /\ Ik.labelname = lab[k] /\ V[k] \in Seq(Bytes)
         /\ DecodesTo(rest[(k - 1) - tk], Ik.type, Ik.fixedSize, Ik.implied, Ik.enumValues, V[k], rest[k])
         /\ \A j \in 1..L : j < k /\ j > (k - 1) - tk => j \in lacks
    BY <2>4, <2>5, <2>6, <2>7, <2>8, <2>9
  <2> QED
    BY <2>10, Zenon DEF tk, Ik
<1>8. RowSteps(L, MadeIndexes, q, t, I, rest, lab, V, lacks)
  BY <1>6, <1>7 DEF RowSteps
<1>9. \E d : ShowsRow(d, q[L], rest[0], rest[L], lab, V, 1..L, (1..L) \ lacks)
  BY <1>1, <1>8, RowShown
<1>10. q[L] = A[L].indexes
  BY <1>1, <1>4
<1>11. \E d : ShowsRow(d, A[L].indexes, FlattenSeq(s), <<>>, lab, V, 1..L, (1..L) \ lacks)
  BY <1>3, <1>9, <1>10, Zenon
<1> QED
  BY <1>11 DEF s, lab, V, lacks

-----------------------------------------------------------------------------
(* A metric's own indexes are those of its node with their labels made valid. *)

IsMadeValid(own, list) ==
  /\ Len(own) = Len(list) /\ DOMAIN own = 1..Len(list)
  /\ \A i \in 1..Len(list) : own[i] = [list[i] EXCEPT !.labelname = sanitizeLabelName(@)]

LEMMA ValidIndex ==
  ASSUME NEW index \in MadeIndexes, NEW own, own = [index EXCEPT !.labelname = sanitizeLabelName(@)]
  PROVE  /\ own.labelname = sanitizeLabelName(index.labelname)
         /\ \A acc : DecodeNext(acc, own) = DecodeNext(acc, index)
<1>1. PICK l \in STRING, q \in DOMAIN tree, b \in BOOLEAN : index = IndexOf(l, tree[q], b)
  BY DEF MadeIndexes
<1>2. /\ own.labelname = sanitizeLabelName(index.labelname) /\ own.type = index.type
      /\ own.fixedSize = index.fixedSize /\ own.implied = index.implied /\ own.enumValues = index.enumValues
  BY <1>1 DEF IndexOf
<1> QED
  BY <1>2, Zenon DEF DecodeNext

\* Valid labels decode as the given ones.
LEMMA RowDecoded ==
  ASSUME NEW list \in Seq(MadeIndexes), NEW own, IsMadeValid(own, list), NEW d, NEW oid, IsDecoding(d, list, oid)
  PROVE  DecodeRow(own, oid) = d[Len(list)]
<1> DEFINE m == Len(list)
           none == [texts |-> <<>>, rest |-> oid]
           Goes(g) == g = [k \in 0..m |-> IF k = 0 THEN none ELSE DecodeNext(g[k - 1], own[k])]
           upTo == CHOOSE g : Goes(g)
           f == [k \in 0..m |-> d[k]]
<1>1. m \in Nat /\ Len(own) = m
  BY DEF IsMadeValid
<1>2. DecodeRow(own, oid) = upTo[m]
  BY <1>1 DEF DecodeRow
<1>3. d[0] = none /\ \A k \in 1..m : d[k] = DecodeNext(d[k - 1], own[k])
  <2> SUFFICES ASSUME NEW k \in 1..m PROVE d[k] = DecodeNext(d[k - 1], own[k])
    BY DEF IsDecoding
  <2>1. d[k] = DecodeNext(d[k - 1], list[k])
    BY DEF IsDecoding
  <2>2. list[k] \in MadeIndexes /\ own[k] = [list[k] EXCEPT !.labelname = sanitizeLabelName(@)]
    BY DEF IsMadeValid
  <2>3. \A acc : DecodeNext(acc, own[k]) = DecodeNext(acc, list[k])
    BY <2>2, ValidIndex
  <2> QED
    BY <2>1, <2>3, Zenon
<1> HIDE DEF m, none
<1>4. Goes(f)
  <2>1. \A k \in 0..m : f[k] = d[k]
    OBVIOUS
  <2>2. \A k \in 0..m : k # 0 => k \in 1..m /\ k - 1 \in 0..m
    BY <1>1
  <2>3. \A k \in 0..m : f[k] = IF k = 0 THEN none ELSE DecodeNext(f[k - 1], own[k])
    <3> HIDE DEF f
    <3> QED
      BY <1>3, <2>1, <2>2
  <2>4. f = [k \in 0..m |-> f[k]]
    OBVIOUS
  <2> HIDE DEF f
  <2> QED
    BY <2>3, <2>4
<1>5. Goes(upTo)
  <2> HIDE DEF Goes
  <2> QED
    BY <1>4
<1> HIDE DEF upTo, f
<1>6. upTo[0] = none /\ \A k \in 1..m : upTo[k] = DecodeNext(upTo[k - 1], own[k])
  <2>1. 0 \in 0..m /\ \A k \in 1..m : k \in 0..m /\ k # 0
    BY <1>1
  <2> QED
    BY <1>5, <2>1
<1> DEFINE S == {k \in 0..m : upTo[k] = d[k]}
<1>7. 0 \in S
  BY <1>1, <1>3, <1>6
<1>8. ASSUME NEW k \in 1..m, k - 1 \in S PROVE k \in S
  <2>1. upTo[k - 1] = d[k - 1]
    BY <1>8
  <2>2. upTo[k] = d[k]
    BY <1>3, <1>6, <2>1, Zenon
  <2> QED
    BY <1>1, <2>2
<1>9. \A k \in 0..m : k \in S
  <2> HIDE DEF S
  <2> QED
    BY <1>1, <1>7, <1>8, InductionTo
<1>10. m \in 0..m
  BY <1>1
<1> QED
  BY <1>2, <1>9, <1>10 DEF m

\* With the indexes of its node, a metric's rows are decoded in full.
LEMMA MetricDecoded ==
  ASSUME InHand, NEW p \in DOMAIN tree, NEW x, Origin(x) = tree[p], Indexes(tree[p]).result = "metric",
         IsMadeValid(OwnIndexes(x), Indexes(tree[p]).indexes),
         Decodable(x), AddressesFit(x), ~SharedAddressType(x)
  PROVE  DecodedInFull(x)
<1> DEFINE n == tree[p]
           L == Len(n.indexes)
           o == IndexObjects(x)
           own == OwnIndexes(x)
           list == Indexes(n).indexes
           oid == FlattenSeq(Row(o, n.implied))
<1>1. PICK A : Collects(A, n)
  BY IndexesFacts
<1>2. HasObjects(n, L, A, o)
  BY <1>1, ObjectsKnown
<1>3. A[L].indexes = list /\ L \in Nat /\ DOMAIN o = 1..L
  BY <1>1, <1>2 DEF Collects, HasObjects
<1>4. list \in Seq(MadeIndexes)
  <2>1. L \in 0..L
    BY <1>3
  <2>2. A[L].indexes \in Seq(MadeIndexes)
    BY <1>2, <2>1 DEF HasObjects
  <2> QED
    BY <1>3, <2>2
<1>5. Origin(x) = n /\ IsMadeValid(own, list)
  OBVIOUS
<1> HIDE DEF n, L, o, own, list, oid
<1>6. PICK d : ShowsRow(d, list, oid, <<>>, Labels(o), ObjectValues(o), 1..L, (1..L) \ Lacking(o))
  BY <1>2, <1>3, NodeShown DEF oid
<1>7. DecodeRow(own, oid) = d[Len(list)]
  BY <1>4, <1>5, <1>6, RowDecoded DEF ShowsRow
<1> DEFINE decoded == DecodeRow(own, oid)
           texts == decoded.texts
<1>8. decoded.rest = <<>> /\ ShowsObjects(list, texts, Labels(o), ObjectValues(o), 1..L, (1..L) \ Lacking(o))
  BY <1>6, <1>7 DEF ShowsRow
<1> HIDE DEF decoded, texts
<1> DEFINE Shows(i, k) == own[i].labelname = sanitizeLabelName(o[k].label) /\ texts[i] = Value(o[k])
<1>9. ASSUME NEW i \in 1..Len(list), NEW k \in 1..L, IsShown(list[i], texts[i], Labels(o), ObjectValues(o), k)
      PROVE  Shows(i, k)
  <2>1. list[i].labelname = o[k].label /\ texts[i] = Value(o[k])
    BY <1>3, <1>9 DEF IsShown, Labels, ObjectValues
  <2>2. own[i].labelname = sanitizeLabelName(list[i].labelname)
    <3>1. list[i] \in MadeIndexes /\ own[i] = [list[i] EXCEPT !.labelname = sanitizeLabelName(@)]
      BY <1>4, <1>5 DEF IsMadeValid
    <3> QED
      BY <3>1, ValidIndex
  <2> QED
    BY <2>1, <2>2, Zenon
<1>10. DOMAIN own = 1..Len(list)
  BY <1>5 DEF IsMadeValid
<1>11. \A i \in DOMAIN own : \E k \in DOMAIN o : Shows(i, k)
  <2> SUFFICES ASSUME NEW i \in 1..Len(list) PROVE \E k \in 1..L : Shows(i, k)
    BY <1>3, <1>10
  <2>1. PICK k \in 1..L : IsShown(list[i], texts[i], Labels(o), ObjectValues(o), k)
    BY <1>8 DEF ShowsObjects
  <2> HIDE DEF Shows
  <2> QED
    BY <1>9, <2>1
<1>12. \A k \in DOMAIN o : ~MayLack(o, k) => \E i \in DOMAIN own : Shows(i, k)
  <2> SUFFICES ASSUME NEW k \in 1..L, ~MayLack(o, k) PROVE \E i \in 1..Len(list) : Shows(i, k)
    BY <1>3, <1>10
  <2>1. k \in (1..L) \ Lacking(o)
    BY DEF Lacking
  <2>2. PICK i \in 1..Len(list) : IsShown(list[i], texts[i], Labels(o), ObjectValues(o), k)
    BY <1>8, <2>1 DEF ShowsObjects
  <2> HIDE DEF Shows
  <2> QED
    BY <1>9, <2>2
<1> QED
  BY <1>5, <1>8, <1>11, <1>12, Zenon DEF DecodedInFull, own, o, oid, decoded, texts

-----------------------------------------------------------------------------
(* The metrics' indexes, step by step                                         *)

\* The indexes s begin with those of the list, as given or with valid labels.
MadeFrom(s, list) ==
  IsList(s) /\ Len(list) \in Nat /\ Len(list) <= Len(s) /\ \A i \in 1..Len(list) : s[i] = list[i]
MadeValid(s, list) ==
  /\ IsList(s) /\ Len(list) \in Nat /\ Len(list) <= Len(s)
  /\ \A i \in 1..Len(list) : s[i] = [list[i] EXCEPT !.labelname = sanitizeLabelName(@)]
\* Nodes that become metrics, and their indexes.
Indexing(p) == Indexes(tree[p]).result = "metric"
NodeIndexes(p) == Indexes(tree[p]).indexes
\* A metric's indexes begin with those of its node, as given or with valid
\* labels.
IsIndexed(x) ==
  /\ {"oid", "indexes"} \subseteq DOMAIN x
  /\ \E p \in Named(tree, OidName(x.oid)) : Indexing(p) /\ MadeFrom(x.indexes, NodeIndexes(p))
IsValidlyIndexed(x) ==
  /\ {"oid", "indexes"} \subseteq DOMAIN x
  /\ \E p \in Named(tree, OidName(x.oid)) : Indexing(p) /\ MadeValid(x.indexes, NodeIndexes(p))
\* So it is from FindMetrics on, with valid labels from FinishLookups on.
IndexInv ==
  /\ generating = "lookups" => \A k \in DOMAIN metrics : IsIndexed(metrics[k])
  /\ generating = "overrides" \/ JustMade => \A k \in DOMAIN metrics : IsValidlyIndexed(metrics[k])

\* Only the tree matters.
LEMMA IndexedFrame ==
  ASSUME tree' = tree
  PROVE  /\ \A x : IsIndexed(x)' <=> IsIndexed(x)
         /\ \A x : IsValidlyIndexed(x)' <=> IsValidlyIndexed(x)
<1>1. \A p : (Indexing(p)' <=> Indexing(p)) /\ NodeIndexes(p)' = NodeIndexes(p)
  <2> SUFFICES ASSUME NEW p PROVE (Indexing(p)' <=> Indexing(p)) /\ NodeIndexes(p)' = NodeIndexes(p)
    OBVIOUS
  <2> DEFINE n == tree[p]
  <2>1. Indexes(tree[p])' = Indexes(tree[p])
    BY SMT DEF Indexes, AddIndex, IndexOf, Taken, LabelType, Enumerated
  <2> QED
    BY <2>1, Zenon DEF Indexing, NodeIndexes
<1> QED
  BY <1>1 DEF IsIndexed, IsValidlyIndexed

LEMMA ConcatBegins ==
  ASSUME NEW p, NEW q, IsList(p), IsList(q)
  PROVE  Len(p \o q) = Len(p) + Len(q) /\ \A i \in 1..Len(p) : (p \o q)[i] = p[i]
<1> DEFINE T == ToSet(p) \cup ToSet(q)
<1>1. p \in Seq(T) /\ q \in Seq(T)
  BY DEF IsList, ToSet
<1> HIDE DEF T
<1> QED
  BY <1>1

\* What keeps the OID and the indexes, or adds to them, keeps what they begin with.
LEMMA StillIndexed ==
  ASSUME NEW x, NEW y, DOMAIN y = DOMAIN x, y.oid = x.oid
  PROVE  /\ IsIndexed(x) /\ y.indexes = x.indexes => IsIndexed(y)
         /\ IsValidlyIndexed(x) /\ y.indexes = x.indexes => IsValidlyIndexed(y)
         /\ \A more : IsIndexed(x) /\ IsList(more) /\ y.indexes = x.indexes \o more => IsIndexed(y)
<1>1. IsIndexed(x) /\ y.indexes = x.indexes => IsIndexed(y)
  BY DEF IsIndexed
<1>2. IsValidlyIndexed(x) /\ y.indexes = x.indexes => IsValidlyIndexed(y)
  BY DEF IsValidlyIndexed
<1>3. ASSUME NEW more, IsIndexed(x), IsList(more), y.indexes = x.indexes \o more PROVE IsIndexed(y)
  <2>1. PICK p \in Named(tree, OidName(x.oid)) : Indexing(p) /\ MadeFrom(x.indexes, NodeIndexes(p))
    BY <1>3 DEF IsIndexed
  <2> DEFINE s == x.indexes
             list == NodeIndexes(p)
             r == s \o more
  <2>2. IsList(s) /\ Len(list) \in Nat /\ Len(list) <= Len(s) /\ \A i \in 1..Len(list) : s[i] = list[i]
    BY <2>1 DEF MadeFrom
  <2> HIDE DEF s, list
  <2>3. IsList(r) /\ Len(s) \in Nat /\ Len(more) \in Nat
    BY <1>3, <2>2, ListConcat DEF IsList
  <2>4. Len(r) = Len(s) + Len(more) /\ \A i \in 1..Len(s) : r[i] = s[i]
    BY <1>3, <2>2, ConcatBegins
  <2> HIDE DEF r
  <2>5. MadeFrom(r, list)
    BY <2>2, <2>3, <2>4 DEF MadeFrom
  <2>6. y.indexes = r
    BY <1>3 DEF r, s
  <2>7. MadeFrom(y.indexes, list)
    BY <2>5, <2>6, Zenon
  <2>8. {"oid", "indexes"} \subseteq DOMAIN y
    BY <1>3 DEF IsIndexed
  <2> QED
    BY <2>1, <2>7, <2>8 DEF IsIndexed, list
<1> QED
  BY <1>1, <1>2, <1>3

\* FindMetrics gives each metric the indexes of its node.
LEMMA FoundIndexed == ASSUME InHand, WalkValid, FindMetrics PROVE \A k \in DOMAIN metrics' : IsIndexed(metrics'[k])
<1> DEFINE S == {p \in ToSet(Candidates) : Indexes(tree[p]).result = "metric"}
           usable == Keep(Candidates, S)
<1>1. metrics' = [k \in DOMAIN usable |-> MetricOf(tree[usable[k]])]
  BY DEF FindMetrics
<1>2. Candidates \in Seq(DOMAIN tree)
  BY CandidateFacts
<1>3. usable \in Seq(DOMAIN tree) /\ \A p \in ToSet(usable) : p \in S
  <2> HIDE DEF S
  <2> QED
    BY <1>2, KeepFacts
<1>4. \A k \in DOMAIN usable : usable[k] \in DOMAIN tree /\ Indexing(usable[k])
  <2>1. \A k \in DOMAIN usable : usable[k] \in DOMAIN tree /\ usable[k] \in S
    <3> HIDE DEF usable, S
    <3> QED
      BY <1>3 DEF ToSet
  <2> QED
    BY <2>1 DEF Indexing
<1> HIDE DEF usable
<1>5. ASSUME NEW p \in DOMAIN tree, Indexing(p) PROVE IsIndexed(MetricOf(tree[p]))
  <2> DEFINE x == MetricOf(tree[p])
             list == NodeIndexes(p)
  <2>1. x.oid = tree[p].oid /\ x.indexes = list /\ {"oid", "indexes"} \subseteq DOMAIN x
    BY DEF MetricOf, NodeIndexes
  <2>2. p \in Named(tree, OidName(x.oid))
    BY <2>1 DEF Named, Names
  <2>3. list \in Seq(MadeIndexes)
    <3>1. PICK A : Collects(A, tree[p])
      BY IndexesFacts
    <3> DEFINE L == Len(tree[p].indexes)
    <3>2. L \in Nat
      <4>1. tree[p].indexes \in Seq(STRING)
        BY TreeNodes DEF AsGiven
      <4> QED
        BY <4>1
    <3>3. A[L] \in Collected /\ Indexes(tree[p]) = A[L]
      BY <3>1, <3>2 DEF Collects
    <3>4. A[L].indexes \in Seq(MadeIndexes)
      BY <3>3 DEF Collected, CollectedFrom
    <3> QED
      BY <3>3, <3>4, Zenon DEF NodeIndexes
  <2> HIDE DEF list, x
  <2>4. MadeFrom(list, list)
    BY <2>3, SeqIsList DEF MadeFrom, IsList
  <2> QED
    BY <1>5, <2>1, <2>2, <2>4 DEF IsIndexed, x, list
<1>6. DOMAIN metrics' = DOMAIN usable /\ \A k \in DOMAIN usable : metrics'[k] = MetricOf(tree[usable[k]])
  BY <1>1
<1> QED
  BY <1>4, <1>5, <1>6

\* FinishLookups makes the labels valid.
LEMMA MadeIsValid ==
  ASSUME NEW s, NEW list, MadeFrom(s, list)
  PROVE  MadeValid(ValidLabels(s), list)
<1> DEFINE r == ValidLabels(s)
<1>1. IsList(s) /\ Len(list) \in Nat /\ Len(list) <= Len(s) /\ \A i \in 1..Len(list) : s[i] = list[i]
  BY DEF MadeFrom
<1>2. DOMAIN s = 1..Len(s) /\ Len(s) \in Nat
  BY <1>1 DEF IsList
<1>3. r = [i \in DOMAIN s |-> r[i]] /\ \A i \in DOMAIN s : r[i] = [s[i] EXCEPT !.labelname = sanitizeLabelName(@)]
  BY DEF ValidLabels
<1> HIDE DEF r
<1>4. IsList(r) /\ Len(r) = Len(s)
  BY <1>1, <1>3, Mapped
<1>5. ASSUME NEW i \in 1..Len(list) PROVE r[i] = [list[i] EXCEPT !.labelname = sanitizeLabelName(@)]
  <2>1. i \in DOMAIN s /\ s[i] = list[i]
    BY <1>1, <1>2
  <2>2. r[i] = [s[i] EXCEPT !.labelname = sanitizeLabelName(@)]
    BY <1>3, <2>1
  <2> QED
    BY <2>1, <2>2, Zenon
<1>6. MadeValid(r, list)
  BY <1>1, <1>4, <1>5 DEF MadeValid
<1> QED
  BY <1>6 DEF r

LEMMA NowValid ==
  ASSUME NEW x, NEW y, IsIndexed(x), DOMAIN y = DOMAIN x, y.oid = x.oid,
         y.indexes = ValidLabels(x.indexes)
  PROVE  IsValidlyIndexed(y)
<1>1. PICK p \in Named(tree, OidName(x.oid)) : Indexing(p) /\ MadeFrom(x.indexes, NodeIndexes(p))
  BY DEF IsIndexed
<1>2. MadeValid(y.indexes, NodeIndexes(p))
  <2>1. MadeValid(ValidLabels(x.indexes), NodeIndexes(p))
    BY <1>1, MadeIsValid
  <2> QED
    BY <2>1, Zenon
<1> QED
  BY <1>1, <1>2 DEF IsIndexed, IsValidlyIndexed

\* The steps that keep the tree.
LEMMA IndexesFound == ASSUME GenInv, FindMetrics PROVE IndexInv'
<1>1. generating = "types" /\ generating' = "lookups" /\ tree' = tree /\ WalkValid
  BY DEF FindMetrics
<1>2. InHand
  BY <1>1, ModuleInHand DEF Working
<1>3. \A k \in DOMAIN metrics' : IsIndexed(metrics'[k])
  BY <1>1, <1>2, FoundIndexed
<1> QED
  BY <1>1, <1>3, IndexedFrame DEF IndexInv, JustMade

LEMMA IndexesApplied == ASSUME GenInv, IndexInv, ApplyLookup PROVE IndexInv'
<1>1. /\ generating = "lookups" /\ generating' = "lookups" /\ tree' = tree /\ at.metric \in DOMAIN metrics
      /\ \A k \in DOMAIN metrics : IsIndexed(metrics[k])
  BY DEF ApplyLookup, AtLookup, LookingUp, treeVars, IndexInv
<1> DEFINE m == at.metric
<1>2. PICK l, appended :
        /\ IsList(appended)
        /\ metrics' = [metrics EXCEPT ![m].lookups = Append(@, l), ![m].indexes = @ \o appended]
  <2>1. PICK p \in IndexNodes :
          LET l == LookupOf(tree[p])
              appended == IF l.labelname \in requiredAsIndex
                            THEN <<[IndexOf(l.labelname, tree[p], FALSE) EXCEPT !.fixedSize = 0]>>
                            ELSE <<>>
          IN  metrics' = [metrics EXCEPT ![at.metric].lookups = Append(@, l),
                                         ![at.metric].indexes = @ \o appended]
    BY DEF ApplyLookup
  <2> DEFINE l == LookupOf(tree[p])
             index == [IndexOf(l.labelname, tree[p], FALSE) EXCEPT !.fixedSize = 0]
             appended == IF l.labelname \in requiredAsIndex THEN <<index>> ELSE <<>>
  <2>2. metrics' = [metrics EXCEPT ![m].lookups = Append(@, l), ![m].indexes = @ \o appended]
    BY <2>1
  <2> HIDE DEF l, index
  <2>3. IsList(appended)
    BY DEF IsList
  <2> HIDE DEF appended
  <2> QED
    BY <2>2, <2>3
<1>3. /\ DOMAIN metrics' = DOMAIN metrics
      /\ DOMAIN metrics'[m] = DOMAIN metrics[m] /\ metrics'[m].oid = metrics[m].oid
      /\ metrics'[m].indexes = metrics[m].indexes \o appended
      /\ \A k \in DOMAIN metrics : k # m => metrics'[k] = metrics[k]
  BY <1>1, <1>2 DEF IsIndexed
<1>4. IsIndexed(metrics'[m])
  BY <1>1, <1>2, <1>3, StillIndexed
<1>5. \A k \in DOMAIN metrics' : IsIndexed(metrics'[k])
  BY <1>1, <1>3, <1>4
<1> QED
  BY <1>1, <1>5, IndexedFrame DEF IndexInv, JustMade

LEMMA IndexesDropped == ASSUME GenInv, IndexInv, DropSources PROVE IndexInv'
<1>1. /\ generating = "lookups" /\ generating' = "lookups" /\ tree' = tree /\ at.metric \in DOMAIN metrics
      /\ \A k \in DOMAIN metrics : IsIndexed(metrics[k])
  BY DEF DropSources, LookingUp, treeVars, IndexInv
<1> DEFINE m == at.metric
<1>2. PICK dropping : metrics' = [metrics EXCEPT ![m].lookups = @ \o dropping]
  BY DEF DropSources
<1>3. /\ DOMAIN metrics' = DOMAIN metrics
      /\ DOMAIN metrics'[m] = DOMAIN metrics[m] /\ metrics'[m].oid = metrics[m].oid
      /\ metrics'[m].indexes = metrics[m].indexes
      /\ \A k \in DOMAIN metrics : k # m => metrics'[k] = metrics[k]
  BY <1>1, <1>2 DEF IsIndexed
<1>4. IsIndexed(metrics'[m])
  BY <1>1, <1>3, StillIndexed
<1>5. \A k \in DOMAIN metrics' : IsIndexed(metrics'[k])
  BY <1>1, <1>3, <1>4
<1> QED
  BY <1>1, <1>5, IndexedFrame DEF IndexInv, JustMade

LEMMA IndexesValid == ASSUME GenInv, IndexInv, FinishLookups PROVE IndexInv'
<1>1. /\ generating = "lookups" /\ generating' = "overrides" /\ tree' = tree
      /\ \A k \in DOMAIN metrics : IsIndexed(metrics[k])
  BY DEF FinishLookups, treeVars, IndexInv
<1>2. metrics' =
        [k \in DOMAIN metrics |->
          [metrics[k] EXCEPT
            !.indexes = ValidLabels(@),
            !.type = IF IsAddress(metrics[k]) /\ ~HasType(metrics[k]) THEN "OctetString" ELSE @]]
  BY DEF FinishLookups
<1>3. ASSUME NEW k \in DOMAIN metrics PROVE IsValidlyIndexed(metrics'[k])
  <2>1. PICK type : metrics'[k] = [metrics[k] EXCEPT !.indexes = ValidLabels(@), !.type = type]
    BY <1>2
  <2>2. /\ DOMAIN metrics'[k] = DOMAIN metrics[k] /\ metrics'[k].oid = metrics[k].oid
        /\ metrics'[k].indexes = ValidLabels(metrics[k].indexes)
    BY <1>1, <2>1 DEF IsIndexed
  <2> QED
    BY <1>1, <2>2, NowValid
<1>4. \A k \in DOMAIN metrics' : IsValidlyIndexed(metrics'[k])
  BY <1>2, <1>3
<1> QED
  BY <1>1, <1>4, IndexedFrame DEF IndexInv, JustMade

LEMMA IndexesOverridden == ASSUME GenInv, IndexInv, NEW name, OverrideMetrics(name) PROVE IndexInv'
<1>1. /\ generating = "overrides" /\ generating' = "overrides" /\ tree' = tree
      /\ \A k \in DOMAIN metrics : IsValidlyIndexed(metrics[k])
      /\ metrics' = [k \in DOMAIN metrics |->
                       IF name \in {Label(metrics[k].name), OidName(metrics[k].oid)}
                         THEN Overridden(metrics[k], cfg.overrides[name]) ELSE metrics[k]]
  BY DEF OverrideMetrics, treeVars, IndexInv
<1>2. ASSUME NEW x, NEW params, IsValidlyIndexed(x) PROVE IsValidlyIndexed(Overridden(x, params))
  <2>1. PICK scale, newName, hint :
          Overridden(x, params) = [x EXCEPT !.scale = scale, !.name = newName, !.displayHint = hint]
    BY DEF Overridden
  <2>2. /\ DOMAIN Overridden(x, params) = DOMAIN x /\ Overridden(x, params).oid = x.oid
        /\ Overridden(x, params).indexes = x.indexes
    BY <1>2, <2>1 DEF IsValidlyIndexed
  <2> QED
    BY <1>2, <2>2, StillIndexed
<1>3. \A k \in DOMAIN metrics' : IsValidlyIndexed(metrics'[k])
  BY <1>1, <1>2
<1> QED
  BY <1>1, <1>3, IndexedFrame DEF IndexInv, JustMade

\* Steps that leave the tree and the metrics alone.
LEMMA IndexesKept ==
  ASSUME IndexInv, UNCHANGED <<tree, metrics>>,
         generating = "overrides" \/ (generating' = generating /\ UNCHANGED <<module, made>>),
         generating' \in {generating, "modules"}
  PROVE  IndexInv'
<1>1. \A k \in DOMAIN metrics : metrics'[k] = metrics[k]
  OBVIOUS
<1>2. generating' = "lookups" => generating = "lookups"
  OBVIOUS
<1>3. generating' = "overrides" \/ JustMade' => generating = "overrides" \/ JustMade
  BY DEF JustMade
<1> QED
  BY <1>2, <1>3, IndexedFrame DEF IndexInv

\* The indexes of the metrics stay those of their nodes.
LEMMA IndexInit == Init => IndexInv
BY DEF Init, GeneratorInit, IndexInv, JustMade

LEMMA IndexStep == ASSUME GenInv, IndexInv, GeneratorNext PROVE IndexInv'
<1>1. CASE ReadConfig
  <2>1. generating = "start" /\ generating' = "modules" /\ made' = made /\ module' = module
    BY <1>1 DEF ReadConfig, outVars
  <2>2. DOMAIN made' = {}
    BY <2>1 DEF GenInv, ModulesOK
  <2> QED
    BY <2>1, <2>2 DEF IndexInv, JustMade
<1>2. CASE \E m \in todo : PickModule(m)
  <2>1. generating' = "types"
    BY <1>2 DEF PickModule
  <2> QED
    BY <2>1 DEF IndexInv, JustMade
<1>3. CASE \E name \in pending : OverrideType(name) \/ OverrideMetrics(name)
  <2>1. ASSUME NEW name, OverrideType(name) PROVE IndexInv'
    <3>1. generating' = "types"
      BY <2>1 DEF OverrideType
    <3> QED
      BY <3>1 DEF IndexInv, JustMade
  <2> QED
    BY <1>3, <2>1, IndexesOverridden
<1>4. CASE FindMetrics
  BY <1>4, IndexesFound
<1>5. CASE SkipLookup
  <2>1. UNCHANGED <<tree, metrics, generating, module, made>>
    BY <1>5 DEF SkipLookup, treeVars
  <2> QED
    BY <2>1, IndexesKept
<1>6. CASE ApplyLookup \/ DropSources \/ FinishLookups
  BY <1>6, IndexesApplied, IndexesDropped, IndexesValid
<1>7. CASE FinishModule
  <2>1. UNCHANGED <<tree, metrics>> /\ generating = "overrides" /\ generating' = "modules"
    BY <1>7 DEF FinishModule
  <2> QED
    BY <2>1, IndexesKept
<1>8. CASE RejectConfig \/ WalkInvalid \/ LookupFails \/ CreateFails \/ IndexPanic \/ Marshal \/ CreateFile \/ Write \/ WriteFails
  <2>1. generating' \in Ended
    BY <1>8 DEF RejectConfig, WalkInvalid, LookupFails, CreateFails, IndexPanic, Marshal, CreateFile, Write,
                WriteFails, Fail, Ended
  <2> QED
    BY <2>1 DEF IndexInv, JustMade, Ended
<1> QED
  BY <1>1, <1>2, <1>3, <1>4, <1>5, <1>6, <1>7, <1>8, Zenon DEF GeneratorNext

LEMMA IndexNext == GenInv /\ IndexInv /\ [Next]_<<generatorVars, exporterVars>> => IndexInv'
<1>1. ASSUME IndexInv, UNCHANGED generatorVars PROVE IndexInv'
  <2>1. UNCHANGED <<tree, metrics, generating, module, made>>
    BY <1>1 DEF generatorVars
  <2> QED
    BY <1>1, <2>1, IndexesKept
<1> QED
  BY <1>1, IndexStep DEF Next

\* The indexes a metric has of its node, without those appended for lookups.
LEMMA ValidBegin ==
  ASSUME NEW s, NEW list, MadeValid(s, list)
  PROVE  IsMadeValid(SubSeq(s, 1, Len(list)), list)
<1> DEFINE n == Len(list)
           T == ToSet(s)
<1>1. IsList(s) /\ n \in Nat /\ n <= Len(s)
      /\ \A i \in 1..n : s[i] = [list[i] EXCEPT !.labelname = sanitizeLabelName(@)]
  BY DEF MadeValid
<1>2. s \in Seq(T) /\ Len(s) \in Nat
  BY <1>1 DEF IsList, ToSet
<1> HIDE DEF n, T
<1>3. /\ SubSeq(s, 1, n) = [i \in 1..n |-> s[i]]
      /\ Len(SubSeq(s, 1, n)) = n
  BY <1>1, <1>2
<1>4. DOMAIN SubSeq(s, 1, n) = 1..n /\ \A i \in 1..n : SubSeq(s, 1, n)[i] = s[i]
  BY <1>3
<1> QED
  BY <1>1, <1>3, <1>4 DEF IsMadeValid, n

\* What the invariant says of a module that has just been made.
LEMMA TablesHold == GenInv /\ IndexInv => TablesDecoded
<1> SUFFICES ASSUME GenInv, IndexInv, JustMade, NEW x \in ToSet(Made.metrics),
                    Decodable(x), AddressesFit(x), ~SharedAddressType(x)
             PROVE  DecodedInFull(x)
  BY DEF TablesDecoded
<1>1. InHand
  BY JustMadeInHand
<1>2. Made.metrics = metrics
  BY DEF GenInv, MadeNow
<1>3. IsValidlyIndexed(x)
  <2>1. PICK k \in DOMAIN metrics : x = metrics[k]
    BY <1>2 DEF ToSet
  <2> QED
    BY <2>1 DEF IndexInv
<1>4. PICK p \in Named(tree, OidName(x.oid)) : Indexing(p) /\ MadeValid(x.indexes, NodeIndexes(p))
  BY <1>3 DEF IsValidlyIndexed
<1>5. p \in DOMAIN tree
  BY DEF Named
<1>6. nameToNode(tree, OidName(x.oid)) = p
  <2>1. nameToNode(tree, OidName(x.oid)) \in Named(tree, OidName(x.oid))
    BY <1>1, <1>4, TreeNodes DEF Known
  <2>2. \A a, b \in Named(tree, OidName(x.oid)) : a = b
    BY DEF Decodable
  <2> QED
    BY <1>4, <2>1, <2>2
<1>7. Origin(x) = tree[p]
  BY <1>6 DEF Origin
<1>8. IsMadeValid(OwnIndexes(x), Indexes(tree[p]).indexes)
  BY <1>4, <1>7, ValidBegin DEF OwnIndexes, NodeIndexes
<1>9. Indexes(tree[p]).result = "metric"
  BY <1>4 DEF Indexing
<1> QED
  BY <1>1, <1>5, <1>7, <1>8, <1>9, MetricDecoded

\* TablesDecoded, for every MIB tree and generator.yml: with the indexes that
\* generateConfigModule makes of a table's index objects, indexOidsAsString finds
\* the value of each object of a row under its label, and leaves no arc.
THEOREM TablesAreDecoded == Spec => []TablesDecoded
<1>1. GenInv /\ IndexInv => TablesDecoded
  BY TablesHold
<1> QED
  BY GenInit, GenNext, IndexInit, IndexNext, <1>1, PTL DEF Spec
=============================================================================
