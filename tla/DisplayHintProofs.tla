-------------------------- MODULE DisplayHintProofs --------------------------
(* Theorems about DisplayHint for hints and values of any length, any width of *)
(* int and any limit of printable numbers.                                     *)
EXTENDS DisplayHintReference, DataLemmas

\* The digits, one by one.
LEMMA DigitsAre == Digits = {"0", "1", "2", "3", "4", "5", "6", "7", "8", "9"}
<1>1. DOMAIN Numerals = 1..10
  BY DEF Numerals
<1>2. \A i \in 1..10 : Numerals[i] \in {"0", "1", "2", "3", "4", "5", "6", "7", "8", "9"}
  BY DEF Numerals
<1>3. ASSUME NEW c \in {"0", "1", "2", "3", "4", "5", "6", "7", "8", "9"}
      PROVE  \E i \in 1..10 : Numerals[i] = c
  BY DEF Numerals
<1> QED
  BY <1>1, <1>2, <1>3 DEF Digits, ToSet

\* The scan over the digits of an octet count ends inside the hint.
LEMMA DigitsEnd ==
  ASSUME Len(hint) \in Nat, NEW i \in 0..Len(hint)
  PROVE  /\ AfterDigits(i) \in i..Len(hint)
         /\ At(AfterDigits(i)) \notin Digits
<1> DEFINE T == {j \in i..Len(hint) : At(j) \notin Digits}
<1>1. End \notin Digits
  BY DigitsAre DEF End
<1>2. Len(hint) \in T
  BY <1>1 DEF At
<1>3. T \subseteq Nat
  OBVIOUS
<1>4. PICK j \in T : \A m \in T : j <= m
  BY <1>2, <1>3, Least
<1>5. \A k \in i..(j - 1) : At(k) \in Digits
  BY <1>4
<1>6. \E l \in i..Len(hint) : At(l) \notin Digits /\ \A k \in i..(l - 1) : At(k) \in Digits
  BY <1>4, <1>5
<1> QED
  BY <1>6 DEF AfterDigits

\* Past the characters of a format, a separator or a terminator is at most the
\* end of the hint.
LEMMA AtInside ==
  ASSUME Len(hint) \in Nat, NEW i \in Nat, At(i) # End
  PROVE  i + 1 \in 0..Len(hint)
BY DEF At

\* A valid specification ends inside the hint.
LEMMA SpecInside ==
  ASSUME Len(hint) \in Nat, NEW i \in 0..Len(hint), IsValid(SpecAt(i))
  PROVE  SpecAt(i).next \in 0..Len(hint) /\ SpecAt(i).take \in Nat
<1> DEFINE first == IF At(i) = "*" THEN i + 1 ELSE i
           after == AfterDigits(first)
           hasSep == IsOther(At(after + 1))
           hasTerm == At(i) = "*" /\ hasSep /\ IsOther(At(after + 2))
<1>1. first \in 0..Len(hint)
  <2>1. At(i) = "*" => At(i) # End
    BY DEF End
  <2>2. CASE At(i) # End
    BY <2>2, AtInside
  <2> QED
    BY <2>1, <2>2
<1>2. after \in Nat
  BY <1>1, DigitsEnd
<1>3. /\ SpecAt(i).fmt = At(after) /\ SpecAt(i).take \in Nat
      /\ SpecAt(i).next = after + 1 + (IF hasSep THEN 1 ELSE 0) + (IF hasTerm THEN 1 ELSE 0)
  BY DEF SpecAt, IsValid
<1>4. At(after) # End
  BY <1>3 DEF IsValid, Formats, End
<1> HIDE DEF after
<1>5. after + 1 \in 0..Len(hint)
  BY <1>2, <1>4, AtInside
<1>6. hasSep => after + 2 \in 0..Len(hint)
  <2> SUFFICES ASSUME hasSep PROVE after + 2 \in 0..Len(hint)
    OBVIOUS
  <2>1. after + 1 \in Nat /\ At(after + 1) # End
    BY <1>2 DEF IsOther
  <2> QED
    BY <1>2, <2>1, AtInside
<1>7. hasTerm => after + 3 \in 0..Len(hint)
  <2> SUFFICES ASSUME hasTerm PROVE after + 3 \in 0..Len(hint)
    OBVIOUS
  <2>1. after + 2 \in Nat /\ At(after + 2) # End
    BY <1>2 DEF IsOther
  <2> QED
    BY <1>2, <2>1, AtInside
<1> QED
  BY <1>2, <1>3, <1>5, <1>6, <1>7

\* Wrapping yields an integer, whatever the width.
LEMMA WrapInt == ASSUME NEW n \in Int PROVE Wrap(n) \in Int
BY DisplayHintAssumption DEF Wrap

\* The inductive invariant.
IInv == TypeOK /\ EachByteOnce

\* What the type invariant says of the arguments.
LEMMA Arguments ==
  (TypeOK => Len(hint) \in Nat /\ Len(data) \in Nat /\ data \in Seq(Nat) /\ dataPos \in Nat)
BY DisplayHintAssumption DEF TypeOK

\* A chunk lies within the value: an end that overflowed is caught.
LEMMA ChunkInside == TypeOK /\ status = "apply" => ChunkEnd \in dataPos..Len(data)
<1> SUFFICES ASSUME TypeOK, status = "apply" PROVE ChunkEnd \in dataPos..Len(data)
  OBVIOUS
<1>1. dataPos + spec.take \in Int /\ Len(data) \in Nat /\ dataPos \in 0..Len(data)
  BY Arguments DEF TypeOK
<1>2. Wrap(dataPos + spec.take) \in Int
  BY <1>1, WrapInt
<1> QED
  BY <1>1, <1>2 DEF ChunkEnd

LEMMA InitInv == Init => IInv
<1> SUFFICES ASSUME Init PROVE IInv
  OBVIOUS
<1>1. Len(hint) \in Nat /\ Len(data) \in Nat
  BY DisplayHintAssumption DEF Init
<1>2. TypeOK
  <2>1. lastSpecConsumesByte \in BOOLEAN
    BY DEF Init
  <2>2. status \in {"spec", "apply", "ok", "failed"} /\ status # "apply"
    BY DEF Init
  <2> QED
    BY <1>1, <2>1, <2>2 DEF Init, TypeOK
<1>3. SubSeq(data, 1, 0) = <<>>
  BY SubSeqEmpty
<1>4. EachByteOnce
  BY <1>3 DEF Init, EachByteOnce
<1> QED
  BY <1>2, <1>4 DEF IInv

LEMMA StepInv == IInv /\ [Next]_vars => IInv'
<1> SUFFICES ASSUME TypeOK, EachByteOnce, [Next]_vars PROVE TypeOK' /\ EachByteOnce'
  BY DEF IInv
<1> USE DEF vars
<1>0. Len(hint) \in Nat /\ Len(data) \in Nat /\ data \in Seq(Nat) /\ dataPos \in 0..Len(data)
  BY Arguments DEF TypeOK
<1>1. CASE ParseSpec
  <2> DEFINE s == SpecAt(SpecStart)
             b == data[dataPos + 1]
  <2>1. SpecStart \in 0..Len(hint)
    BY DEF SpecStart, TypeOK
  <2>2. s.next \in 0..Len(hint) /\ s.take \in Nat
    BY <1>0, <1>1, <2>1, SpecInside DEF ParseSpec
  <2>3. dataPos + 1 \in 1..Len(data) /\ b \in Nat
    BY <1>0, <1>1, ElementOfSeq DEF ParseSpec, MoreData
  <2> HIDE DEF s
  <2>4. /\ spec' = s /\ hintPos' = s.next /\ status' = "apply" /\ r' = 0
        /\ lastSpecStart' = SpecStart
        /\ repeatCount' = IF s.star THEN b ELSE 1
        /\ UNCHANGED <<hint, data>>
    BY <1>1 DEF ParseSpec, s
  <2>5. /\ dataPos' = dataPos + (IF s.star THEN 1 ELSE 0)
        /\ eaten' = IF s.star THEN Append(eaten, b) ELSE eaten
    BY <1>1 DEF ParseSpec, CountBytes, s
  <2>6. lastSpecConsumesByte' \in BOOLEAN
    BY <1>1 DEF ParseSpec
  <2>7. TypeOK'
    BY <1>0, <2>1, <2>2, <2>3, <2>4, <2>5, <2>6 DEF TypeOK
  <2>8. CASE s.star
    <3>1. SubSeq(data, 1, dataPos + 1) = SubSeq(data, 1, dataPos) \o <<b>>
      BY <1>0, <2>3, SubSeqRecursiveSecond, dataPos + 1 - 1 = dataPos, 1 \in 1..Len(data)
    <3>2. SubSeq(data, 1, dataPos) \in Seq(Nat)
      BY <1>0, SubSeqProperties
    <3>3. eaten' = SubSeq(data, 1, dataPos')
      BY <1>0, <2>3, <2>5, <2>8, <3>1, <3>2 DEF EachByteOnce
    <3> QED
      BY <2>4, <2>7, <3>3 DEF EachByteOnce
  <2>9. CASE ~s.star
    BY <1>0, <2>4, <2>5, <2>7, <2>9 DEF EachByteOnce
  <2> QED
    BY <2>8, <2>9
<1>2. CASE ParseError
  BY <1>2 DEF ParseError, TypeOK, EachByteOnce
<1>3. CASE Apply
  <2> DEFINE end == ChunkEnd
  <2>1. end \in dataPos..Len(data)
    BY <1>3, ChunkInside DEF Apply, Applying
  <2> HIDE DEF end
  <2>2. /\ dataPos' = end /\ eaten' = eaten \o SubSeq(data, dataPos + 1, end) /\ r' = r + 1
        /\ UNCHANGED <<hint, data, status, hintPos, lastSpecStart, lastSpecConsumesByte,
                       spec, repeatCount>>
        /\ status = "apply"
    BY <1>3 DEF Apply, Applying, Chunk, end
  <2>3. SubSeq(data, 1, dataPos) \o SubSeq(data, dataPos + 1, end) = SubSeq(data, 1, end)
    BY <1>0, <2>1, ConcatAdjacentSubSeq
  <2>4. TypeOK'
    BY <1>0, <2>1, <2>2 DEF TypeOK
  <2> QED
    BY <2>2, <2>3, <2>4 DEF EachByteOnce
<1>4. CASE ChunkTooLong
  BY <1>4 DEF ChunkTooLong, TypeOK, EachByteOnce
<1>5. CASE EndGroup
  BY <1>5 DEF EndGroup, TypeOK, EachByteOnce
<1>6. CASE Return
  <2>1. dataPos = Len(data) /\ SubSeq(data, 1, Len(data)) = data
    BY <1>0, <1>6, SubSeqFull DEF Return, MoreData
  <2> QED
    BY <1>6, <2>1 DEF Return, TypeOK, EachByteOnce
<1>7. CASE Returned
  BY <1>7 DEF Returned, TypeOK, EachByteOnce
<1>8. CASE UNCHANGED vars
  BY <1>8 DEF TypeOK, EachByteOnce
<1> QED
  BY <1>1, <1>2, <1>3, <1>4, <1>5, <1>6, <1>7, <1>8 DEF Next

\* The inductive invariant of the loop.
THEOREM Invariant == Spec => []IInv
BY InitInv, StepInv, PTL DEF Spec

\* Positions stay inside the hint and the value, for any width of int.
THEOREM TypeCorrect == Spec => []TypeOK
<1>1. IInv => TypeOK
  BY DEF IInv
<1> QED
  BY <1>1, Invariant, PTL

\* No slice of the value is out of range: no octet count can make the exporter
\* panic, also one that overflows.
THEOREM NeverPanics == Spec => []NoPanic
<1>1. IInv => NoPanic
  BY ChunkInside DEF IInv, NoPanic, Applying
<1> QED
  BY <1>1, Invariant, PTL

\* What is displayed is the whole value, each byte used once and in order.
THEOREM NothingDropped == Spec => []EachByteOnce
<1>1. IInv => EachByteOnce
  BY DEF IInv
<1> QED
  BY <1>1, Invariant, PTL

-----------------------------------------------------------------------------
(* Numbers and the groups of the reference                                    *)

\* A digit is worth 0 to 9.
LEMMA ValueFacts == ASSUME NEW c \in Digits PROVE Value(c) \in 0..9
<1>1. \E k \in 0..9 : Numerals[k + 1] = c
  <2>1. DOMAIN Numerals = 1..10
    BY DEF Numerals
  <2>2. PICK i \in 1..10 : Numerals[i] = c
    BY <2>1 DEF Digits, ToSet
  <2> QED
    BY <2>2, i - 1 \in 0..9, i - 1 + 1 = i
<1> QED
  BY <1>1 DEF Value

\* An octet count is a number.
LEMMA DeclaredFacts == ASSUME NEW d \in Seq(Digits) PROVE Declared(d) \in Nat
<1> DEFINE L == Len(d)
           Step(n, k) == 10 * n + Value(d[k])
           G == [k \in 1..L |-> [n \in Nat |-> Step(n, k)]]
<1>1. L \in Nat /\ \A k \in 1..L : Value(d[k]) \in 0..9
  <2>1. \A k \in 1..L : d[k] \in Digits
    OBVIOUS
  <2> QED
    BY <2>1, ValueFacts
<1>2. \A k \in 1..L, n \in Nat : Step(n, k) \in Nat
  BY <1>1
<1>3. IsStepFor(G, Nat, L) /\ \A k \in 1..L, n \in Nat : G[k][n] = Step(n, k)
  <2> HIDE DEF Step, L
  <2> QED
    BY <1>2 DEF IsStepFor
<1>4. PICK f : f \in [0..L -> Nat] /\ f[0] = 0 /\ \A k \in 1..L : f[k] = Step(f[k - 1], k)
  <2> HIDE DEF G, L, Step
  <2>1. PICK f : Iterates(f, 0, G, Nat, L)
    BY <1>1, <1>3, RecursionTo
  <2>2. \A k \in 1..L : f[k - 1] \in Nat
    BY <1>1, <2>1 DEF Iterates
  <2> QED
    BY <1>3, <2>1, <2>2, ZenonT(30) DEF Iterates
<1> DEFINE Counts(g) == g = [k \in 0..L |-> IF k = 0 THEN 0 ELSE 10 * g[k - 1] + Value(d[k])]
           number == CHOOSE g : Counts(g)
<1>5. Declared(d) = number[L]
  BY DEF Declared
<1>6. Counts(f)
  <2> HIDE DEF L
  <2>1. \A k \in 0..L : k # 0 => k \in 1..L
    BY <1>1
  <2> QED
    BY <1>4, <2>1
<1>7. Counts(number)
  <2> HIDE DEF Counts
  <2> QED
    BY <1>6
<1>8. number[0] = 0 /\ \A k \in 1..L : number[k] = Step(number[k - 1], k)
  <2> HIDE DEF number, L, G
  <2>1. 0 \in 0..L /\ \A k \in 1..L : k \in 0..L /\ k # 0
    BY <1>1
  <2> QED
    BY <2>1, <1>7
<1> DEFINE P == {k \in 0..L : number[k] \in Nat}
<1> HIDE DEF number
<1>9. 0 \in P
  BY <1>1, <1>8
<1>10. ASSUME NEW k \in 1..L, k - 1 \in P PROVE k \in P
  <2>1. number[k - 1] \in Nat
    BY <1>10
  <2>2. number[k] = Step(number[k - 1], k) /\ k \in 0..L
    BY <1>1, <1>8
  <2> HIDE DEF Step, L
  <2>3. number[k] \in Nat
    BY <1>2, <2>1, <2>2
  <2> QED
    BY <2>2, <2>3
<1>11. \A k \in 0..L : k \in P
  <2> HIDE DEF P, L
  <2> QED
    BY <1>1, <1>9, <1>10, InductionTo
<1> QED
  BY <1>1, <1>5, <1>11

\* What is known of the arguments when the hint is a list of specifications.
IsReadable == hint \in WellFormed /\ data # <<>> /\ ~Overflows
GoodList ==
  /\ Len(Reading) \in Nat \ {0} /\ MaxGroups \in Nat \ {0}
  /\ hint = WrittenHint(Reading)
  /\ \A i \in 1..Len(Reading) : IsSpec(Reading[i]) /\ Declared(Reading[i].octets) \in 0..MaxInt
  /\ \A g \in 1..MaxGroups : IsSpec(SpecOf(g)) /\ Declared(SpecOf(g).octets) \in 0..MaxInt
GoodData == data \in Seq(Nat) /\ Len(data) \in 1..MaxInt /\ Len(data) \in Nat /\ MaxInt \in Nat
\* They follow from the assumptions on the constants.
LEMMA ReadableList ==
  ASSUME IsReadable, data \in Values
  PROVE  GoodList /\ GoodData
<1>1. GoodData
  <2>1. data \in Seq(Nat) /\ Len(data) <= MaxInt /\ MaxInt \in Nat
    BY DisplayHintAssumption
  <2> QED
    BY <2>1 DEF IsReadable, GoodData
<1>2. Reading \in SpecLists /\ WrittenHint(Reading) = hint
  <2>1. \E list \in SpecLists : WrittenHint(list) = hint
    BY DEF IsReadable, WellFormed
  <2>2. Reading = CHOOSE list \in SpecLists : WrittenHint(list) = hint
    BY DEF IsReadable, Reading, Readings
  <2> QED
    BY <2>1, <2>2
<1>3. IsList(Reading) /\ Reading # <<>> /\ \A s \in ToSet(Reading) : IsSpec(s)
  BY <1>2, ReferenceAssumption
<1>4. Len(Reading) \in Nat \ {0} /\ \A i \in 1..Len(Reading) : IsSpec(Reading[i])
  <2> DEFINE list == Reading
  <2>1. IsList(list) /\ list # <<>> /\ \A s \in ToSet(list) : IsSpec(s)
    BY <1>3
  <2> HIDE DEF list
  <2>2. Len(list) \in Nat \ {0} /\ \A i \in 1..Len(list) : IsSpec(list[i])
    BY <2>1 DEF IsList, ToSet
  <2> QED
    BY <2>2 DEF list
<1>5. ASSUME NEW i \in 1..Len(Reading) PROVE Declared(Reading[i].octets) \in 0..MaxInt
  <2>1. Declared(Reading[i].octets) \in Nat
    BY <1>4, DeclaredFacts DEF IsSpec
  <2>2. ~(Declared(Reading[i].octets) > MaxInt)
    BY DEF IsReadable, Overflows
  <2> QED
    BY <1>1, <2>1, <2>2 DEF GoodData
<1>6. MaxGroups \in Nat \ {0}
  BY <1>1, <1>4 DEF MaxGroups, GoodData
<1>7. \A g \in 1..MaxGroups : (IF g <= Len(Reading) THEN g ELSE Len(Reading)) \in 1..Len(Reading)
  BY <1>4, <1>6
<1> QED
  BY <1>1, <1>2, <1>4, <1>5, <1>6, <1>7 DEF GoodList, SpecOf

-----------------------------------------------------------------------------
(* Reading the hint                                                           *)

Pieces == [i \in 1..Len(Reading) |-> Written(Reading[i])]
\* Where each specification begins.
SpecStarts == CHOOSE start : Begins(start, Pieces)

\* Four lists put together.
IsJoined(c, w, d, e, q, T) ==
  /\ c \in Seq(T) /\ Len(c) = Len(w) + Len(d) + Len(e) + Len(q)
  /\ \A i \in 1..Len(w) : c[i] = w[i]
  /\ \A i \in 1..Len(d) : c[Len(w) + i] = d[i]
  /\ \A i \in 1..Len(e) : c[Len(w) + Len(d) + i] = e[i]
  /\ \A i \in 1..Len(q) : c[Len(w) + Len(d) + Len(e) + i] = q[i]
\* Two lists put together.
LEMMA TwoLists ==
  ASSUME NEW T, NEW x \in Seq(T), NEW z \in Seq(T)
  PROVE  /\ x \o z \in Seq(T) /\ Len(x \o z) = Len(x) + Len(z)
         /\ \A i \in 1..Len(x) : (x \o z)[i] = x[i]
         /\ \A i \in 1..Len(z) : (x \o z)[Len(x) + i] = z[i]
  OBVIOUS
LEMMA FourLists ==
  ASSUME NEW T, NEW w \in Seq(T), NEW d \in Seq(T), NEW e \in Seq(T), NEW q \in Seq(T)
  PROVE  IsJoined(w \o d \o e \o q, w, d, e, q, T)
<1> PICK x : x = w \o d
  OBVIOUS
<1>1. /\ x \in Seq(T) /\ Len(x) = Len(w) + Len(d)
      /\ \A i \in 1..Len(w) : x[i] = w[i]
      /\ \A i \in 1..Len(d) : x[Len(w) + i] = d[i]
  BY TwoLists
<1> PICK y : y = x \o e
  OBVIOUS
<1>3. /\ y \in Seq(T) /\ Len(y) = Len(x) + Len(e)
      /\ \A i \in 1..Len(x) : y[i] = x[i]
      /\ \A i \in 1..Len(e) : y[Len(x) + i] = e[i]
  <2>1. x \in Seq(T)
    BY <1>1
  <2> QED
    BY <2>1, TwoLists
<1> PICK c : c = y \o q
  OBVIOUS
<1>4. /\ c \in Seq(T) /\ Len(c) = Len(y) + Len(q)
      /\ \A i \in 1..Len(y) : c[i] = y[i]
      /\ \A i \in 1..Len(q) : c[Len(y) + i] = q[i]
  <2>1. y \in Seq(T)
    BY <1>3
  <2> QED
    BY <2>1, TwoLists
<1>2. c = w \o d \o e \o q
  OBVIOUS
<1>5. Len(w) \in Nat /\ Len(d) \in Nat /\ Len(e) \in Nat /\ Len(q) \in Nat
  OBVIOUS
<1>6. \A i \in 1..Len(w) : c[i] = w[i]
  <2>1. \A i \in 1..Len(w) : i \in 1..Len(x) /\ i \in 1..Len(y)
    BY <1>1, <1>3, <1>5
  <2> QED
    BY <1>1, <1>3, <1>4, <2>1
<1>7. \A i \in 1..Len(d) : c[Len(w) + i] = d[i]
  <2>1. \A i \in 1..Len(d) : Len(w) + i \in 1..Len(x) /\ Len(w) + i \in 1..Len(y)
    BY <1>1, <1>3, <1>5
  <2> QED
    BY <1>1, <1>3, <1>4, <2>1
<1>8. \A i \in 1..Len(e) : c[Len(w) + Len(d) + i] = e[i]
  <2>1. \A i \in 1..Len(e) : Len(x) + i \in 1..Len(y)
    BY <1>1, <1>3, <1>5
  <2> QED
    BY <1>1, <1>3, <1>4, <2>1
<1>9. \A i \in 1..Len(q) : c[Len(w) + Len(d) + Len(e) + i] = q[i]
  BY <1>1, <1>3, <1>4
<1>10. Len(c) = Len(w) + Len(d) + Len(e) + Len(q)
  BY <1>1, <1>3, <1>4
<1> QED
  BY <1>2, <1>4, <1>6, <1>7, <1>8, <1>9, <1>10 DEF IsJoined

\* What is written where in a specification: behind a marks come n digits.
Places(s, w, a, n, m) ==
  /\ a \in 0..1 /\ (s.star => a = 1 /\ w[1] = "*") /\ (~s.star => a = 0)
  /\ n \in Nat \ {0} /\ m \in 0..2 /\ Len(w) = a + n + 1 + m
  /\ \A i \in 1..n : w[a + i] = s.octets[i] /\ s.octets[i] \in Digits
  /\ w[a + n + 1] = s.fmt
  /\ \A i \in 1..m : w[a + n + 1 + i] = s.marks[i] /\ IsOther(s.marks[i])
\* A specification is written as a repeat indicator, digits, a format and marks.
LEMMA WrittenFacts ==
  ASSUME NEW s, IsSpec(s), NEW T, Digits \cup Formats \cup {"*"} \cup ToSet(s.marks) \subseteq T
  PROVE  /\ Written(s) \in Seq(T)
         /\ \E a : Places(s, Written(s), a, Len(s.octets), Len(s.marks))
<1> DEFINE a == IF s.star THEN 1 ELSE 0
           n == Len(s.octets)
           m == Len(s.marks)
           w == IF s.star THEN <<"*">> ELSE <<>>
           d == s.octets
           e == <<s.fmt>>
           q == s.marks
<1>1. w \in Seq(T) /\ Len(w) = a /\ (s.star => w[1] = "*") /\ a \in 0..1
  OBVIOUS
<1>2. d \in Seq(Digits) /\ d # <<>> /\ s.fmt \in Formats /\ IsList(q) /\ m <= 2
      /\ \A c \in ToSet(q) : IsOther(c)
  BY DEF IsSpec
<1>3. d \in Seq(T) /\ n \in Nat \ {0} /\ \A i \in 1..n : d[i] \in Digits
  <2> HIDE DEF d
  <2> QED
    BY <1>2, SeqOfSubset DEF d
<1>4. e \in Seq(T) /\ Len(e) = 1 /\ e[1] = s.fmt
  BY <1>2
<1>5. q \in Seq(T) /\ m \in 0..2 /\ \A i \in 1..m : IsOther(q[i])
  <2> HIDE DEF q
  <2>1. Len(q) \in Nat /\ q = [i \in 1..Len(q) |-> q[i]] /\ \A i \in 1..Len(q) : q[i] \in ToSet(q)
    BY <1>2 DEF IsList, ToSet
  <2>2. ToSet(q) \subseteq T
    BY DEF q
  <2>3. q \in [1..Len(q) -> T]
    BY <2>1, <2>2
  <2>4. q \in Seq(T)
    BY <2>1, <2>3
  <2>5. m = Len(q)
    BY DEF q
  <2> QED
    BY <1>2, <2>1, <2>4, <2>5
<1>6. Written(s) = w \o d \o e \o q
  BY DEF Written
<1>7. s.star \in BOOLEAN /\ (s.star => a = 1) /\ (~s.star => a = 0)
  BY DEF IsSpec
<1>8. Len(d) = n /\ Len(q) = m
  OBVIOUS
<1> HIDE DEF w, d, e, q, a, n, m
<1> PICK c : c = Written(s)
  OBVIOUS
<1>9. /\ c \in Seq(T) /\ Len(c) = a + n + 1 + m
      /\ \A i \in 1..a : c[i] = w[i]
      /\ \A i \in 1..n : c[a + i] = d[i]
      /\ c[a + n + 1] = e[1]
      /\ \A i \in 1..m : c[a + n + 1 + i] = q[i]
  <2>0. IsJoined(c, w, d, e, q, T)
    BY <1>1, <1>3, <1>4, <1>5, <1>6, FourLists
  <2>1. /\ c \in Seq(T) /\ Len(c) = Len(w) + Len(d) + Len(e) + Len(q)
        /\ \A i \in 1..Len(w) : c[i] = w[i]
        /\ \A i \in 1..Len(d) : c[Len(w) + i] = d[i]
        /\ \A i \in 1..Len(e) : c[Len(w) + Len(d) + i] = e[i]
        /\ \A i \in 1..Len(q) : c[Len(w) + Len(d) + Len(e) + i] = q[i]
    BY <2>0 DEF IsJoined
  <2> QED
    BY <1>1, <1>4, <1>8, <2>1
<1>10. s.star => c[1] = "*"
  BY <1>1, <1>7, <1>9, 1 \in 1..1
<1>11. Places(s, c, a, n, m)
  BY <1>1, <1>3, <1>4, <1>5, <1>7, <1>9, <1>10 DEF d, q, Places
<1> QED
  BY <1>9, <1>11 DEF n, m

\* No specification is empty.
LEMMA WrittenLength == ASSUME NEW s, IsSpec(s) PROVE Len(Written(s)) \in Nat \ {0}
<1> PICK w, n, m : w = Written(s) /\ n = Len(s.octets) /\ m = Len(s.marks)
  OBVIOUS
<1> DEFINE T == Digits \cup Formats \cup {"*"} \cup ToSet(s.marks)
<1>1. PICK a : Places(s, w, a, n, m)
  BY WrittenFacts, T \subseteq T
<1>2. a \in 0..1 /\ n \in Nat \ {0} /\ m \in 0..2 /\ Len(w) = a + n + 1 + m
  BY <1>1 DEF Places
<1>3. ASSUME NEW k, NEW i, NEW j, k \in 0..1 /\ i \in Nat \ {0} /\ j \in 0..2
      PROVE  k + i + 1 + j \in Nat \ {0}
  BY <1>3
<1>4. a + n + 1 + m \in Nat \ {0}
  BY <1>2, <1>3, Zenon
<1> QED
  BY <1>2, <1>4

\* The characters of the hint.
Chars == Digits \cup Formats \cup {"*"} \cup UNION {ToSet(s.marks) : s \in {Reading[i] : i \in 1..Len(Reading)}}

\* Each specification is in its place.
LEMMA PiecesFacts ==
  ASSUME GoodList
  PROVE  /\ hint \in Seq(Chars)
         /\ SpecStarts \in [0..Len(Reading) -> 0..Len(hint)]
         /\ SpecStarts[0] = 0 /\ SpecStarts[Len(Reading)] = Len(hint)
         /\ \A i \in 1..Len(Reading) :
              /\ SpecStarts[i] = SpecStarts[i - 1] + Len(Written(Reading[i]))
              /\ \A j \in 1..Len(Written(Reading[i])) : hint[SpecStarts[i - 1] + j] = Written(Reading[i])[j]
<1>1. ASSUME NEW i \in 1..Len(Reading) PROVE Written(Reading[i]) \in Seq(Chars)
  <2>1. Digits \cup Formats \cup {"*"} \cup ToSet(Reading[i].marks) \subseteq Chars
    BY DEF Chars
  <2> QED
    BY <2>1, WrittenFacts DEF GoodList
<1> DEFINE L == Len(Reading)
<1>2. Pieces \in Seq(Seq(Chars)) /\ Len(Pieces) = L
  <2>1. L \in Nat
    BY DEF GoodList
  <2>2. Pieces \in [1..L -> Seq(Chars)]
    BY <1>1 DEF Pieces
  <2> HIDE DEF L
  <2> QED
    BY <2>1, <2>2
<1>3. hint = FlattenSeq(Pieces)
  BY DEF GoodList, WrittenHint, Pieces
<1>4. hint \in Seq(Chars) /\ \E start : Begins(start, Pieces)
  BY <1>2, <1>3, FlattenFacts
<1>5. Begins(SpecStarts, Pieces)
  BY <1>4 DEF SpecStarts
<1>6. \A i \in 1..L : Pieces[i] = Written(Reading[i])
  BY DEF Pieces
<1> HIDE DEF L
<1>7. /\ SpecStarts \in [0..L -> 0..Len(hint)]
      /\ SpecStarts[0] = 0 /\ SpecStarts[L] = Len(hint)
      /\ \A i \in 1..L :
           /\ SpecStarts[i] = SpecStarts[i - 1] + Len(Pieces[i])
           /\ \A j \in 1..Len(Pieces[i]) : hint[SpecStarts[i - 1] + j] = Pieces[i][j]
  BY <1>2, <1>3, <1>5 DEF Begins
<1>8. \A i \in 1..L :
           /\ SpecStarts[i] = SpecStarts[i - 1] + Len(Written(Reading[i]))
           /\ \A j \in 1..Len(Written(Reading[i])) : hint[SpecStarts[i - 1] + j] = Written(Reading[i])[j]
  BY <1>6, <1>7
<1> QED
  BY <1>4, <1>7, <1>8 DEF L

\* What the parser makes of a specification.
IsRead(x, s) ==
  /\ (x.star <=> s.star) /\ x.octets = s.octets /\ x.take = Wrap(Declared(s.octets)) /\ x.fmt = s.fmt
  /\ (x.hasSep <=> Len(s.marks) >= 1) /\ (Len(s.marks) >= 1 => x.sep = s.marks[1])
  /\ (x.hasTerm <=> Len(s.marks) = 2) /\ (Len(s.marks) = 2 => x.term = s.marks[2])

\* Where the digits of an octet count end.
LEMMA DigitsUpTo ==
  ASSUME NEW i \in Nat, NEW j \in Nat, i <= j, j <= Len(hint), Len(hint) \in Nat,
         \A k \in i..(j - 1) : At(k) \in Digits, At(j) \notin Digits
  PROVE  AfterDigits(i) = j
<1> DEFINE P(l) == At(l) \notin Digits /\ \A k \in i..(l - 1) : At(k) \in Digits
<1>1. j \in i..Len(hint) /\ P(j)
  OBVIOUS
<1>2. ASSUME NEW l \in i..Len(hint), P(l) PROVE l = j
  <2>1. ~(l < j)
    <3> SUFFICES ASSUME l < j PROVE FALSE
      OBVIOUS
    <3>1. l \in i..(j - 1)
      OBVIOUS
    <3> QED
      BY <1>2, <3>1
  <2>2. ~(j < l)
    <3> SUFFICES ASSUME j < l PROVE FALSE
      OBVIOUS
    <3>1. j \in i..(l - 1)
      OBVIOUS
    <3> QED
      BY <1>2, <3>1
  <2> QED
    BY <2>1, <2>2
<1>3. AfterDigits(i) = CHOOSE l \in i..Len(hint) : P(l)
  BY DEF AfterDigits
<1> HIDE DEF P
<1> QED
  BY <1>1, <1>2, <1>3

\* From where a specification begins, the parser reads it, and stops where the next
\* one begins: no mark is taken for a digit, and no digit for a mark.
LEMMA SpecIsRead ==
  ASSUME GoodList, NEW i \in 1..Len(Reading)
  PROVE  /\ IsRead(SpecAt(SpecStarts[i - 1]), Reading[i])
         /\ SpecAt(SpecStarts[i - 1]).next = SpecStarts[i]
<1> DEFINE s == Reading[i]
           p == SpecStarts[i - 1]
           w == Written(s)
           n == Len(s.octets)
           m == Len(s.marks)
           e == SpecStarts[i]
<1>1. IsSpec(s)
  BY DEF GoodList
<1> PICK a : Places(s, w, a, n, m)
  BY <1>1, WrittenFacts, Digits \cup Formats \cup {"*"} \cup ToSet(s.marks) \subseteq
                         Digits \cup Formats \cup {"*"} \cup ToSet(s.marks)
<1> HIDE DEF s, p, w, e, n, m
<1>2. /\ a \in 0..1 /\ (s.star => a = 1 /\ w[1] = "*") /\ (~s.star => a = 0)
      /\ n \in Nat \ {0} /\ m \in 0..2 /\ Len(w) = a + n + 1 + m
      /\ \A k \in 1..n : w[a + k] = s.octets[k] /\ s.octets[k] \in Digits
      /\ w[a + n + 1] = s.fmt
      /\ \A k \in 1..m : w[a + n + 1 + k] = s.marks[k] /\ IsOther(s.marks[k])
  BY DEF Places
<1>0. a \in 0..1 /\ n \in Nat \ {0} /\ m \in 0..2 /\ Len(w) = a + n + 1 + m
  BY <1>2
<1>3. /\ p \in Nat /\ e \in Nat /\ Len(hint) \in Nat /\ e = p + Len(w) /\ e <= Len(hint) /\ p < Len(hint)
      /\ \A j \in 1..Len(w) : hint[p + j] = w[j]
  <2>1. i \in 0..Len(Reading) /\ i - 1 \in 0..Len(Reading)
    BY DEF GoodList
  <2>2. Len(hint) \in Nat /\ p \in 0..Len(hint) /\ e \in 0..Len(hint)
    <3>1. SpecStarts \in [0..Len(Reading) -> 0..Len(hint)] /\ hint \in Seq(Chars)
      BY PiecesFacts
    <3> QED
      BY <2>1, <3>1 DEF p, e
  <2>3. e = p + Len(w) /\ \A j \in 1..Len(w) : hint[p + j] = w[j]
    BY PiecesFacts DEF e, p, w, s
  <2>4. Len(w) \in Nat \ {0}
    BY <1>2
  <2> QED
    BY <2>2, <2>3, <2>4
<1>4. ASSUME NEW j \in 0..(a + n + m) PROVE At(p + j) = w[j + 1]
  <2>1. j + 1 \in 1..Len(w) /\ p + j < Len(hint) /\ p + (j + 1) = p + j + 1
    BY <1>2, <1>3
  <2> QED
    BY <1>3, <2>1 DEF At
\* The next specification begins with a digit or an asterisk.
<1>5. At(e) \in Digits \cup {"*", End}
  <2>1. CASE i = Len(Reading)
    <3>1. e = Len(hint)
      BY <2>1, PiecesFacts DEF e
    <3> QED
      BY <3>1 DEF At
  <2>2. CASE i # Len(Reading)
    <3> DEFINE t == Reading[i + 1]
               v == Written(t)
    <3>1. i + 1 \in 1..Len(Reading) /\ i + 1 - 1 = i
      BY <2>2 DEF GoodList
    <3>2. IsSpec(t)
      BY <3>1 DEF GoodList
    <3>3. Len(v) \in Nat \ {0} /\ v[1] \in Digits \cup {"*"}
      <4> DEFINE k == Len(t.octets)
                 l == Len(t.marks)
      <4> PICK b : Places(t, v, b, k, l)
        BY <3>2, WrittenFacts, Digits \cup Formats \cup {"*"} \cup ToSet(t.marks) \subseteq
                               Digits \cup Formats \cup {"*"} \cup ToSet(t.marks)
      <4> HIDE DEF t, v, k, l
      <4>1. /\ b \in 0..1 /\ (t.star => v[1] = "*") /\ (~t.star => b = 0)
            /\ k \in Nat \ {0} /\ l \in 0..2 /\ Len(v) = b + k + 1 + l
            /\ \A j \in 1..k : v[b + j] = t.octets[j] /\ t.octets[j] \in Digits
        BY DEF Places
      <4>2. ~t.star => v[1] \in Digits
        BY <4>1
      <4>3. t.star \in BOOLEAN
        BY <3>2 DEF IsSpec, t
      <4> QED
        BY <4>1, <4>2, <4>3
    <3>4. hint[e + 1] = v[1] /\ SpecStarts[i + 1] = e + Len(v) /\ SpecStarts[i + 1] <= Len(hint)
      <4>1. SpecStarts[i + 1] \in 0..Len(hint)
        <5>1. i + 1 \in 0..Len(Reading)
          BY <3>1
        <5>2. SpecStarts \in [0..Len(Reading) -> 0..Len(hint)]
          BY PiecesFacts
        <5> QED
          BY <5>1, <5>2
      <4>2. 1 \in 1..Len(v)
        BY <3>3
      <4>3. hint[SpecStarts[i + 1 - 1] + 1] = v[1] /\ SpecStarts[i + 1] = SpecStarts[i + 1 - 1] + Len(v)
        BY <3>1, <4>2, PiecesFacts
      <4> QED
        BY <3>1, <4>1, <4>3 DEF e
    <3>5. e < Len(hint)
      BY <1>3, <3>3, <3>4
    <3> QED
      BY <1>3, <3>3, <3>4, <3>5 DEF At
  <2> QED
    BY <2>1, <2>2
<1>6. a \in 0..1 /\ s.star \in BOOLEAN
  BY <1>1, <1>2 DEF IsSpec
<1>7. (At(p) = "*") <=> s.star
  <2>1. At(p) = w[1]
    <3>1. 0 \in 0..(a + n + m) /\ p + 0 = p /\ 0 + 1 = 1
      BY <1>2, <1>3, <1>6
    <3> QED
      BY <1>4, <3>1
  <2>2. ~s.star => w[1] \in Digits
    <3>1. ~s.star => a + 1 = 1
      BY <1>2
    <3>2. 1 \in 1..n
      BY <1>0
    <3> QED
      BY <1>2, <3>1, <3>2
  <2>3. "*" \notin Digits
    BY DigitsAre
  <2> QED
    BY <1>2, <1>6, <2>1, <2>2, <2>3
<1> DEFINE first == p + a
           after == p + a + n
<1>8. \A k \in first..(after - 1) : At(k) \in Digits
  <2> SUFFICES ASSUME NEW k \in first..(after - 1) PROVE At(k) \in Digits
    OBVIOUS
  <2>1. k - p \in 0..(a + n + m) /\ p + (k - p) = k /\ k - p + 1 = a + (k - p - a + 1) /\ k - p - a + 1 \in 1..n
    BY <1>2, <1>3, <1>6
  <2>2. At(k) = w[a + (k - p - a + 1)]
    BY <1>4, <2>1
  <2> QED
    BY <1>2, <2>1, <2>2
<1>9. At(after) = s.fmt /\ s.fmt \in Formats /\ s.fmt \notin Digits
  <2>1. a + n \in 0..(a + n + m) /\ p + (a + n) = after
    BY <1>2, <1>3, <1>6
  <2>2. s.fmt \in Formats
    BY <1>1 DEF IsSpec
  <2> QED
    BY <1>2, <1>4, <2>1, <2>2, DigitsAre DEF Formats
<1>10. AfterDigits(first) = after
  <2>1. first \in Nat /\ after \in Nat /\ first <= after /\ after <= Len(hint)
    BY <1>2, <1>3, <1>6
  <2> HIDE DEF first, after
  <2> QED
    BY <1>3, <1>8, <1>9, <2>1, DigitsUpTo
<1>11. SubSeq(hint, first + 1, after) = s.octets
  <2>1. hint \in Seq(Chars) /\ s.octets \in Seq(Digits)
    BY <1>1, PiecesFacts DEF IsSpec
  <2>2. first + 1 \in Nat /\ after \in Nat /\ after <= Len(hint) /\ after - first = n
    BY <1>2, <1>3, <1>6
  <2>3. ASSUME NEW k \in 1..n PROVE hint[first + k] = s.octets[k]
    <3>1. a + k \in 1..Len(w) /\ p + (a + k) = first + k
      BY <1>2, <1>3, <1>6
    <3> QED
      BY <1>2, <1>3, <3>1
  <2> HIDE DEF first, after
  <2>4. SubSeq(hint, first + 1, after) = [k \in 1..n |-> hint[first + k]]
    <3>1. n \in Nat /\ first \in Nat /\ after = first + n
      BY <1>2, <1>3, <1>6, <2>2 DEF first
    <3> QED
      BY <2>1, <2>2, <3>1
  <2>5. s.octets = [k \in 1..n |-> s.octets[k]]
    BY <2>1 DEF n
  <2>6. [k \in 1..n |-> hint[first + k]] = [k \in 1..n |-> s.octets[k]]
    BY <2>3
  <2> QED
    BY <2>4, <2>5, <2>6
\* The marks, and what follows them.
<1>12. ASSUME NEW k \in 1..m PROVE At(after + k) = s.marks[k] /\ IsOther(At(after + k))
  <2>0. a \in Nat /\ n \in Nat /\ m \in Nat /\ p \in Nat /\ k \in Nat /\ k <= m
    BY <1>0, <1>3
  <2>1. a + n + k \in 0..(a + n + m) /\ p + (a + n + k) = after + k /\ a + n + k + 1 = a + n + 1 + k
    BY <2>0
  <2> QED
    BY <1>2, <1>4, <2>1 DEF IsOther
<1>13. ~IsOther(At(after + m + 1))
  <2>1. after + m + 1 = e
    BY <1>2, <1>3, <1>6
  <2> QED
    BY <1>5, <2>1 DEF IsOther
<1>14. m <= IF s.star THEN 2 ELSE 1
  BY <1>1 DEF IsSpec, m
<1>15. after \in Nat
  BY <1>2, <1>3, <1>6
<1> HIDE DEF after
<1>16. IsOther(At(after + 1)) <=> m >= 1
  <2>1. CASE m = 0
    <3>1. after + m + 1 = after + 1
      BY <1>15, <2>1
    <3> QED
      BY <1>13, <2>1, <3>1
  <2>2. CASE m # 0
    <3>1. 1 \in 1..m /\ m >= 1
      BY <1>2, <2>2
    <3> QED
      BY <1>12, <3>1 DEF IsOther
  <2> QED
    BY <2>1, <2>2
<1>17. (s.star /\ m >= 1 /\ IsOther(At(after + 2))) <=> m = 2
  <2>1. CASE m = 0
    BY <2>1
  <2>2. CASE m = 1
    <3>1. after + m + 1 = after + 2
      BY <1>15, <2>2
    <3> QED
      BY <1>13, <2>2, <3>1
  <2>3. CASE m = 2
    <3>1. 2 \in 1..m /\ s.star
      BY <1>14, <2>3
    <3> QED
      BY <1>12, <2>3, <3>1 DEF IsOther
  <2> QED
    BY <1>2, <2>1, <2>2, <2>3
<1> DEFINE x == SpecAt(p)
<1>18. first = IF At(p) = "*" THEN p + 1 ELSE p
  BY <1>2, <1>3, <1>7
<1>19. /\ (x.star <=> s.star) /\ x.octets = s.octets /\ x.take = Wrap(Declared(s.octets)) /\ x.fmt = s.fmt
       /\ (x.hasSep <=> m >= 1) /\ x.sep = At(after + 1) /\ (x.hasTerm <=> m = 2) /\ x.term = At(after + 2)
       /\ x.next = after + 1 + (IF m >= 1 THEN 1 ELSE 0) + (IF m = 2 THEN 1 ELSE 0)
  <2> HIDE DEF first
  <2> QED
    BY <1>7, <1>9, <1>10, <1>11, <1>16, <1>17, <1>18 DEF SpecAt
<1>20. x.next = e
  <2>1. x.next = after + 1 + m
    BY <1>2, <1>15, <1>19
  <2> QED
    BY <1>2, <1>3, <1>6, <2>1 DEF after
<1>21. (m >= 1 => x.sep = s.marks[1]) /\ (m = 2 => x.term = s.marks[2])
  BY <1>2, <1>12, <1>19
<1> QED
  BY <1>19, <1>20, <1>21 DEF IsRead, m, s, p, e

-----------------------------------------------------------------------------
(* Groups and chunks by their position                                        *)

\* Below its capacity, an int is what it was; above, it is negative.
LEMMA WrapFacts ==
  ASSUME MaxInt \in Nat, NEW n \in Nat, n <= 2 * MaxInt + 1
  PROVE  Wrap(n) = IF n <= MaxInt THEN n ELSE n - 2 * MaxInt - 2
<1>1. CASE n <= MaxInt
  <2>1. n + MaxInt + 1 \in 0..(2 * MaxInt + 1)
    BY <1>1
  <2>2. (n + MaxInt + 1) % (2 * MaxInt + 2) = n + MaxInt + 1
    BY <2>1
  <2> QED
    BY <1>1, <2>2 DEF Wrap
<1>2. CASE n > MaxInt
  <2>1. n + MaxInt + 1 - (2 * MaxInt + 2) \in 0..(2 * MaxInt + 1)
    BY <1>2
  <2>2. (n + MaxInt + 1) % (2 * MaxInt + 2) = n - MaxInt - 1
    BY <2>1
  <2> QED
    BY <1>2, <2>2 DEF Wrap
<1> QED
  BY <1>1, <1>2

\* Multiples of an octet count grow.
LEMMA Multiples ==
  ASSUME NEW o \in Nat, NEW c \in Nat, NEW e \in Nat, c <= e
  PROVE  c * o \in Nat /\ c * o <= e * o /\ (c + 1) * o = c * o + o
OBVIOUS

\* The chunks of a group that begins at p.
LEMMA UpToFacts ==
  ASSUME GoodData, NEW s, IsSpec(s), Declared(s.octets) \in Nat, NEW p \in 0..Len(data), p < Len(data)
  PROVE  /\ Repeats(s, p) \in Nat /\ (~s.star => Repeats(s, p) = 1)
         /\ Body(s, p) \in p..Len(data) /\ Body(s, p) = IF s.star THEN p + 1 ELSE p
         /\ UpTo(s, p, 0) = Body(s, p)
         /\ \A c \in Nat : UpTo(s, p, c) \in Body(s, p)..Len(data)
         /\ \A c \in Nat : UpTo(s, p, c + 1) =
              IF UpTo(s, p, c) + Declared(s.octets) <= Len(data)
                THEN UpTo(s, p, c) + Declared(s.octets) ELSE Len(data)
         /\ \A c \in Nat, e \in Nat : c <= e => UpTo(s, p, c) <= UpTo(s, p, e)
<1> DEFINE o == Declared(s.octets)
           L == Len(data)
           b == Body(s, p)
           EndOf(c) == b + c * o
<1>1. L \in Nat /\ p \in 0..L /\ p < L /\ o \in Nat /\ s.star \in BOOLEAN
  BY DEF GoodData, IsSpec
<1>2. Repeats(s, p) \in Nat /\ (~s.star => Repeats(s, p) = 1)
  <2>1. p + 1 \in 1..L
    BY <1>1
  <2>2. data[p + 1] \in Nat
    BY <2>1, ElementOfSeq DEF GoodData
  <2> QED
    BY <2>2 DEF Repeats
<1>3. b \in p..L /\ b = IF s.star THEN p + 1 ELSE p
  BY <1>1 DEF Body
<1>4. \A c : UpTo(s, p, c) = IF EndOf(c) <= L THEN EndOf(c) ELSE L
  BY DEF UpTo
<1> HIDE DEF o, L, b
<1>5. \A c \in Nat : EndOf(c) \in Nat /\ EndOf(c) >= b /\ EndOf(c + 1) = EndOf(c) + o
  BY <1>1, <1>3, Multiples
<1>6. EndOf(0) = b
  BY <1>1, <1>3
<1>7. ASSUME NEW c \in Nat, NEW e \in Nat, c <= e PROVE EndOf(c) <= EndOf(e)
  <2>1. c * o \in Nat /\ e * o \in Nat /\ c * o <= e * o
    BY <1>1, <1>7, Multiples
  <2> QED
    BY <1>1, <1>3, <2>1
<1> HIDE DEF EndOf
<1>8. UpTo(s, p, 0) = b
  BY <1>1, <1>3, <1>4, <1>6
<1>9. ASSUME NEW c \in Nat
      PROVE  UpTo(s, p, c) \in b..L
             /\ UpTo(s, p, c + 1) = IF UpTo(s, p, c) + o <= L THEN UpTo(s, p, c) + o ELSE L
  <2>1. EndOf(c) \in Nat /\ EndOf(c) >= b /\ EndOf(c + 1) = EndOf(c) + o
    BY <1>5
  <2>2. UpTo(s, p, c) = (IF EndOf(c) <= L THEN EndOf(c) ELSE L)
        /\ UpTo(s, p, c + 1) = (IF EndOf(c + 1) <= L THEN EndOf(c + 1) ELSE L)
    BY <1>4
  <2> QED
    BY <1>1, <1>3, <2>1, <2>2
<1>10. ASSUME NEW c \in Nat, NEW e \in Nat, c <= e PROVE UpTo(s, p, c) <= UpTo(s, p, e)
  <2>1. EndOf(c) \in Nat /\ EndOf(e) \in Nat /\ EndOf(c) <= EndOf(e)
    BY <1>5, <1>7, <1>10
  <2>2. UpTo(s, p, c) = (IF EndOf(c) <= L THEN EndOf(c) ELSE L)
        /\ UpTo(s, p, e) = (IF EndOf(e) <= L THEN EndOf(e) ELSE L)
    BY <1>4
  <2> QED
    BY <1>1, <2>1, <2>2
<1> QED
  BY <1>2, <1>3, <1>8, <1>9, <1>10 DEF o, L, b

\* How much of the data the first g groups use.
LEMMA UsedFacts ==
  ASSUME GoodList, GoodData
  PROVE  /\ Used[0] = 0 /\ \A g \in 0..MaxGroups : Used[g] \in 0..Len(data)
         /\ \A g \in 1..MaxGroups : Used[g] =
              IF Used[g - 1] = Len(data) THEN Len(data)
              ELSE UpTo(SpecOf(g), Used[g - 1], Repeats(SpecOf(g), Used[g - 1]))
<1> DEFINE N == MaxGroups
           X == 0..Len(data)
           Step(u, g) == IF u = Len(data) THEN Len(data) ELSE UpTo(SpecOf(g), u, Repeats(SpecOf(g), u))
           G == [g \in 1..N |-> [u \in X |-> Step(u, g)]]
<1>1. N \in Nat /\ 0 \in X /\ Len(data) \in Nat
  BY DEF GoodList, GoodData
<1>2. ASSUME NEW g \in 1..N, NEW u \in X PROVE Step(u, g) \in X
  <2>1. CASE u = Len(data)
    BY <1>1, <2>1
  <2>2. CASE u # Len(data)
    <3>1. IsSpec(SpecOf(g)) /\ Declared(SpecOf(g).octets) \in Nat
      BY DEF GoodList, GoodData
    <3>2. u < Len(data)
      BY <1>1, <2>2
    <3>3. /\ Repeats(SpecOf(g), u) \in Nat /\ Body(SpecOf(g), u) \in u..Len(data)
          /\ \A c \in Nat : UpTo(SpecOf(g), u, c) \in Body(SpecOf(g), u)..Len(data)
      BY <3>1, <3>2, UpToFacts
    <3> QED
      BY <1>1, <2>2, <3>3
  <2> QED
    BY <2>1, <2>2
<1>3. IsStepFor(G, X, N) /\ \A g \in 1..N, u \in X : G[g][u] = Step(u, g)
  <2> HIDE DEF Step, N, X
  <2> QED
    BY <1>2 DEF IsStepFor
<1>4. PICK f : f \in [0..N -> X] /\ f[0] = 0 /\ \A g \in 1..N : f[g] = Step(f[g - 1], g)
  <2> HIDE DEF G, N, X, Step
  <2>1. PICK f : Iterates(f, 0, G, X, N)
    BY <1>1, <1>3, RecursionTo
  <2>2. \A g \in 1..N : f[g - 1] \in X
    BY <1>1, <2>1 DEF Iterates
  <2> QED
    BY <1>3, <2>1, <2>2, ZenonT(30) DEF Iterates
<1> DEFINE Counts(h) == h = [g \in 0..N |-> IF g = 0 THEN 0
                                            ELSE IF h[g - 1] = Len(data) THEN Len(data)
                                            ELSE UpTo(SpecOf(g), h[g - 1], Repeats(SpecOf(g), h[g - 1]))]
           used == CHOOSE h : Counts(h)
<1>5. Used = used
  BY DEF Used
<1>6. Counts(f)
  <2> HIDE DEF N, X
  <2>1. \A g \in 0..N : g # 0 => g \in 1..N
    BY <1>1
  <2> QED
    BY <1>4, <2>1
<1>7. Counts(used)
  <2> HIDE DEF Counts
  <2> QED
    BY <1>6
<1>8. used[0] = 0 /\ \A g \in 1..N : used[g] = Step(used[g - 1], g)
  <2> HIDE DEF used, N, X, G
  <2>1. 0 \in 0..N /\ \A g \in 1..N : g \in 0..N /\ g # 0
    BY <1>1
  <2> QED
    BY <2>1, <1>7
<1> DEFINE P == {g \in 0..N : used[g] \in X}
<1> HIDE DEF used
<1>9. 0 \in P
  BY <1>1, <1>8
<1>10. ASSUME NEW g \in 1..N, g - 1 \in P PROVE g \in P
  <2> HIDE DEF Step, N, X
  <2>1. used[g - 1] \in X
    BY <1>10
  <2>2. used[g] = Step(used[g - 1], g) /\ g \in 0..N
    BY <1>1, <1>8
  <2>3. used[g] \in X
    BY <1>2, <2>1, <2>2
  <2> QED
    BY <2>2, <2>3
<1>11. \A g \in 0..N : g \in P
  <2> HIDE DEF P, N, X, Step
  <2> QED
    BY <1>1, <1>9, <1>10, InductionTo
<1> QED
  BY <1>5, <1>8, <1>11

\* Once the data is used up, it stays so.
LEMMA UsedUp ==
  ASSUME GoodList, GoodData, NEW g \in 1..MaxGroups, Used[g] = Len(data)
  PROVE  \A k \in (g + 1)..MaxGroups : ~IsGroup(k)
<1> DEFINE N == MaxGroups - g
           P == {d \in 0..N : Used[g + d] = Len(data)}
<1>1. N \in Nat /\ g \in Nat /\ MaxGroups \in Nat /\ Len(data) \in Nat
  BY DEF GoodList, GoodData
<1>2. 0 \in P
  BY <1>1
<1>3. ASSUME NEW d \in 1..N, d - 1 \in P PROVE d \in P
  <2>1. Used[g + (d - 1)] = Len(data) /\ g + (d - 1) = g + d - 1 /\ g + d \in 1..MaxGroups
    BY <1>1, <1>3
  <2>2. Used[g + d] = Len(data)
    BY <2>1, UsedFacts
  <2> QED
    BY <1>1, <2>2
<1>4. \A d \in 0..N : d \in P
  <2> HIDE DEF P, N
  <2> QED
    BY <1>1, <1>2, <1>3, InductionTo
<1> SUFFICES ASSUME NEW k \in (g + 1)..MaxGroups PROVE ~IsGroup(k)
  OBVIOUS
<1>5. k - 1 - g \in 0..N /\ g + (k - 1 - g) = k - 1
  BY <1>1
<1>6. Used[k - 1] = Len(data)
  BY <1>4, <1>5
<1> QED
  BY <1>1, <1>6 DEF IsGroup

\* A group, its specification and where it begins.
LEMMA GroupFacts ==
  ASSUME GoodList, GoodData, NEW g \in 1..MaxGroups
  PROVE  /\ IsSpec(SpecOf(g)) /\ Declared(SpecOf(g).octets) \in 0..MaxInt /\ Declared(SpecOf(g).octets) \in Nat
         /\ Used[g - 1] \in 0..Len(data)
         /\ IsGroup(g) => Used[g - 1] < Len(data) /\ Repeats(SpecOf(g), Used[g - 1]) \in Nat
<1> PICK s, p : s = SpecOf(g) /\ p = Used[g - 1]
  OBVIOUS
<1>1. IsSpec(s) /\ Declared(s.octets) \in 0..MaxInt /\ Declared(s.octets) \in Nat
  BY DEF GoodList, GoodData
<1>2. p \in 0..Len(data)
  <2>1. g - 1 \in 0..MaxGroups
    BY DEF GoodList
  <2> QED
    BY <2>1, UsedFacts
<1>3. IsGroup(g) => p < Len(data)
  BY DEF IsGroup
<1>4. p < Len(data) => Repeats(s, p) \in Nat
  BY <1>1, <1>2, UpToFacts
<1> QED
  BY <1>1, <1>2, <1>3, <1>4

-----------------------------------------------------------------------------
(* Their texts                                                                *)

\* The texts of the groups, and of the chunks of a group.
Texts == [g \in 1..MaxGroups |-> TextOf(g)]
Chunks(s, p) == [c \in 1..Repeats(s, p) |-> ChunkText(s, p, c)]
Entries ==
  {Printed(f, q) : f \in Formats, q \in Seq(Nat)} \cup
  {Mark(c) : c \in UNION {ToSet(SpecOf(g).marks) : g \in 1..MaxGroups}}

\* A printed chunk is not a mark.
LEMMA KindFacts ==
  /\ \A f \in Formats : \A q : Printed(f, q).kind # "mark"
  /\ \A c : Mark(c).kind = "mark"
BY DEF Printed, Mark, Formats

\* Separators and terminators are marks.
LEMMA MarksFacts ==
  ASSUME GoodList, NEW g \in 1..MaxGroups, NEW i \in 1..2
  PROVE  /\ Marks(SpecOf(g), i) \in Seq(Entries)
         /\ \A k \in 1..Len(Marks(SpecOf(g), i)) : Marks(SpecOf(g), i)[k].kind = "mark"
<1> DEFINE m == SpecOf(g).marks
<1>1. CASE Len(m) >= i
  <2>1. m[i] \in ToSet(m)
    <3>1. IsList(m)
      BY DEF GoodList, IsSpec
    <3> HIDE DEF m
    <3> QED
      BY <1>1, <3>1 DEF IsList, ToSet
  <2>2. Mark(m[i]) \in Entries
    BY <2>1 DEF Entries
  <2>3. Marks(SpecOf(g), i) = <<Mark(m[i])>>
    BY <1>1 DEF Marks
  <2> HIDE DEF m
  <2>4. Mark(m[i]).kind = "mark"
    BY KindFacts
  <2> QED
    BY <2>2, <2>3, <2>4
<1>2. CASE ~(Len(m) >= i)
  BY <1>2 DEF Marks
<1> QED
  BY <1>1, <1>2

\* A chunk is printed as an entry of the text.
LEMMA PrintedFacts ==
  ASSUME GoodData, NEW s, IsSpec(s), Declared(s.octets) \in Nat, NEW p \in 0..Len(data), p < Len(data),
         NEW c \in Nat \ {0}
  PROVE  <<Printed(s.fmt, ChunkOf(s, p, c))>> \in Seq(Entries)
<1>1. c - 1 \in Nat /\ s.fmt \in Formats
  BY DEF IsSpec
<1>2. Body(s, p) \in p..Len(data) /\ \A k \in Nat : UpTo(s, p, k) \in Body(s, p)..Len(data)
  BY UpToFacts
<1>3. UpTo(s, p, c - 1) \in Body(s, p)..Len(data) /\ UpTo(s, p, c) \in Body(s, p)..Len(data)
  BY <1>1, <1>2
<1>4. Body(s, p) \in Nat /\ Len(data) \in Nat
  BY <1>2 DEF GoodData
<1>5. UpTo(s, p, c - 1) \in Nat /\ UpTo(s, p, c) \in 0..Len(data)
  BY <1>3, <1>4
<1>6. ChunkOf(s, p, c) \in Seq(Nat)
  BY <1>5, SubSeqProperties DEF ChunkOf, GoodData
<1>7. Printed(s.fmt, ChunkOf(s, p, c)) \in Entries
  BY <1>1, <1>6 DEF Entries
<1> QED
  BY <1>7

\* So is each chunk with its separator a list of entries.
LEMMA ChunkTextFacts ==
  ASSUME GoodList, GoodData, NEW g \in 1..MaxGroups, IsGroup(g)
  PROVE  Chunks(SpecOf(g), Used[g - 1]) \in [1..Repeats(SpecOf(g), Used[g - 1]) -> Seq(Entries)]
<1> DEFINE s == SpecOf(g)
           p == Used[g - 1]
<1>1. IsSpec(s) /\ Declared(s.octets) \in Nat
  BY GroupFacts
<1>2. p \in 0..Len(data) /\ p < Len(data) /\ Repeats(s, p) \in Nat
  BY GroupFacts
<1>3. Marks(s, 1) \in Seq(Entries)
  BY MarksFacts
<1> HIDE DEF s, p
<1>4. ASSUME NEW c \in 1..Repeats(s, p) PROVE ChunkText(s, p, c) \in Seq(Entries)
  <2>1. c \in Nat \ {0}
    BY <1>2
  <2>2. <<Printed(s.fmt, ChunkOf(s, p, c))>> \in Seq(Entries) /\ <<>> \in Seq(Entries)
    BY <1>1, <1>2, <2>1, PrintedFacts
  <2> QED
    BY <1>3, <2>2 DEF ChunkText
<1>5. Chunks(s, p) \in [1..Repeats(s, p) -> Seq(Entries)]
  BY <1>4 DEF Chunks
<1> QED
  BY <1>5 DEF s, p

\* The text of a group is the text of its chunks and the terminator.
LEMMA TextFacts ==
  ASSUME GoodList, GoodData
  PROVE  /\ Texts \in [1..MaxGroups -> Seq(Entries)]
         /\ \A g \in 1..MaxGroups :
              /\ ~IsGroup(g) => Texts[g] = <<>>
              /\ IsGroup(g) => Texts[g] = FlattenSeq(Chunks(SpecOf(g), Used[g - 1])) \o Marks(SpecOf(g), 2)
<1>1. ASSUME NEW g \in 1..MaxGroups
      PROVE  /\ Texts[g] \in Seq(Entries)
             /\ ~IsGroup(g) => Texts[g] = <<>>
             /\ IsGroup(g) => Texts[g] = FlattenSeq(Chunks(SpecOf(g), Used[g - 1])) \o Marks(SpecOf(g), 2)
  <2>1. Texts[g] = TextOf(g)
    BY DEF Texts
  <2>2. CASE ~IsGroup(g)
    BY <2>1, <2>2 DEF TextOf
  <2>3. CASE IsGroup(g)
    <3>1. Texts[g] = FlattenSeq(Chunks(SpecOf(g), Used[g - 1])) \o Marks(SpecOf(g), 2)
      BY <2>1, <2>3 DEF TextOf, GroupText, Chunks
    <3>2. Marks(SpecOf(g), 2) \in Seq(Entries)
      BY MarksFacts, 2 \in 1..2
    <3>3. FlattenSeq(Chunks(SpecOf(g), Used[g - 1])) \in Seq(Entries)
      <4> PICK n, f : n = Repeats(SpecOf(g), Used[g - 1]) /\ f = Chunks(SpecOf(g), Used[g - 1])
        OBVIOUS
      <4>1. n \in Nat
        BY <2>3, GroupFacts
      <4>2. f \in [1..n -> Seq(Entries)]
        BY <2>3, ChunkTextFacts
      <4>3. JoinTo(f, n) = FlattenSeq(f) /\ \A k \in 0..n : JoinTo(f, k) \in Seq(Entries)
        BY <4>1, <4>2, JoinNext DEF JoinsUp
      <4>4. n \in 0..n
        BY <4>1
      <4> QED
        BY <4>3, <4>4
    <3> QED
      BY <2>3, <3>1, <3>2, <3>3
  <2> QED
    BY <2>2, <2>3
<1>2. Texts = [g \in 1..MaxGroups |-> Texts[g]]
  BY DEF Texts
<1> QED
  BY <1>1, <1>2

-----------------------------------------------------------------------------
(* Trailing marks                                                             *)

\* What is left of a text without its trailing marks: n entries.
LeftOf(text, n) ==
  /\ n > 0 => text[n].kind # "mark"
  /\ \A i \in (n + 1)..Len(text) : text[i].kind = "mark"
AllMarks(q) == \A i \in 1..Len(q) : q[i].kind = "mark"

\* Something is left of every text, if only nothing.
LEMMA SomeLeft == ASSUME NEW T, NEW p \in Seq(T) PROVE \E n \in 0..Len(p) : LeftOf(p, n)
<1> DEFINE C == {n \in 0..Len(p) : \A i \in (n + 1)..Len(p) : p[i].kind = "mark"}
<1>1. Len(p) \in C /\ C \subseteq Nat
  OBVIOUS
<1>2. PICK n \in C : \A m \in C : n <= m
  <2> HIDE DEF C
  <2> QED
    BY <1>1, Least
<1>3. n \in 0..Len(p) /\ \A i \in (n + 1)..Len(p) : p[i].kind = "mark"
  OBVIOUS
<1>4. ASSUME n > 0, p[n].kind = "mark" PROVE FALSE
  <2>1. n - 1 \in 0..Len(p)
    BY <1>3, <1>4
  <2>2. \A i \in (n - 1 + 1)..Len(p) : p[i].kind = "mark"
    <3> SUFFICES ASSUME NEW i \in (n - 1 + 1)..Len(p) PROVE p[i].kind = "mark"
      OBVIOUS
    <3>1. i = n \/ i \in (n + 1)..Len(p)
      BY <1>3
    <3> QED
      BY <1>3, <1>4, <3>1
  <2>3. n - 1 \in C
    BY <2>1, <2>2
  <2> HIDE DEF C
  <2>4. n <= n - 1
    BY <1>2, <2>3
  <2> QED
    BY <1>3, <2>4
<1> QED
  BY <1>3, <1>4 DEF LeftOf

\* Nothing else is left, with or without marks behind the text.
LEMMA MarksDropped ==
  ASSUME NEW T, NEW p \in Seq(T), NEW q \in Seq(T), NEW n \in 0..Len(p), LeftOf(p, n), AllMarks(q)
  PROVE  WithoutTrailingMarks(p \o q) = SubSeq(p, 1, n)
<1> PICK t : t = p \o q
  OBVIOUS
<1>1. /\ t \in Seq(T) /\ Len(t) = Len(p) + Len(q) /\ Len(p) \in Nat /\ Len(q) \in Nat
      /\ \A i \in 1..Len(p) : t[i] = p[i]
      /\ \A i \in 1..Len(q) : t[Len(p) + i] = q[i]
  BY TwoLists
<1>2. n \in 0..Len(t) /\ LeftOf(t, n)
  <2>1. n > 0 => t[n].kind # "mark"
    BY <1>1 DEF LeftOf
  <2>2. ASSUME NEW i \in (n + 1)..Len(t) PROVE t[i].kind = "mark"
    <3>1. CASE i <= Len(p)
      BY <1>1, <3>1 DEF LeftOf
    <3>2. CASE i > Len(p)
      <4>1. i - Len(p) \in 1..Len(q) /\ Len(p) + (i - Len(p)) = i
        BY <1>1, <3>2
      <4> QED
        BY <1>1, <4>1 DEF AllMarks
    <3> QED
      BY <1>1, <3>1, <3>2
  <2> QED
    BY <1>1, <2>1, <2>2 DEF LeftOf
<1>3. ASSUME NEW m \in 0..Len(t), LeftOf(t, m) PROVE m = n
  <2>1. ~(m < n)
    <3> SUFFICES ASSUME m < n PROVE FALSE
      OBVIOUS
    <3>1. n \in (m + 1)..Len(t) /\ n > 0
      BY <1>1
    <3> QED
      BY <1>2, <1>3, <3>1 DEF LeftOf
  <2>2. ~(n < m)
    <3> SUFFICES ASSUME n < m PROVE FALSE
      OBVIOUS
    <3>1. m \in (n + 1)..Len(t) /\ m > 0
      BY <1>1
    <3> QED
      BY <1>2, <1>3, <3>1 DEF LeftOf
  <2> QED
    BY <1>1, <2>1, <2>2
<1>4. WithoutTrailingMarks(t) = SubSeq(t, 1, CHOOSE m \in 0..Len(t) : LeftOf(t, m))
  BY DEF WithoutTrailingMarks, LeftOf
<1>5. WithoutTrailingMarks(t) = SubSeq(t, 1, n)
  BY <1>2, <1>3, <1>4
<1>6. SubSeq(t, 1, n) = SubSeq(p, 1, n)
  BY <1>1
<1> QED
  BY <1>5, <1>6

\* Marks behind a text that ends in something else are dropped, and they alone;
\* marks behind any text make no difference.
LEMMA TrailingMarks ==
  ASSUME NEW T, NEW p \in Seq(T), NEW q \in Seq(T), AllMarks(q)
  PROVE  /\ WithoutTrailingMarks(p \o q) = WithoutTrailingMarks(p)
         /\ p = <<>> \/ p[Len(p)].kind # "mark" => WithoutTrailingMarks(p \o q) = p
<1>1. PICK n \in 0..Len(p) : LeftOf(p, n)
  BY SomeLeft
<1>2. WithoutTrailingMarks(p \o q) = SubSeq(p, 1, n)
  BY <1>1, MarksDropped
<1>3. p \o <<>> = p /\ <<>> \in Seq(T) /\ AllMarks(<<>>)
  BY DEF AllMarks
<1>4. WithoutTrailingMarks(p \o <<>>) = SubSeq(p, 1, n)
  BY <1>1, <1>3, MarksDropped
<1>5. ASSUME p = <<>> \/ p[Len(p)].kind # "mark" PROVE WithoutTrailingMarks(p \o q) = p
  <2>1. Len(p) \in 0..Len(p) /\ LeftOf(p, Len(p))
    <3>1. Len(p) \in Nat /\ (p = <<>> => Len(p) = 0)
      OBVIOUS
    <3> QED
      BY <1>5, <3>1 DEF LeftOf
  <2>2. WithoutTrailingMarks(p \o q) = SubSeq(p, 1, Len(p))
    BY <2>1, MarksDropped
  <2> QED
    BY <2>2, SubSeqFull
<1> QED
  BY <1>2, <1>3, <1>4, <1>5

-----------------------------------------------------------------------------
(* The loop against the reference                                             *)

\* The specification that group g is displayed with, by its position.
Place(g) == IF g <= Len(Reading) THEN g ELSE Len(Reading)
\* The first n groups are there and can be displayed.
Displayed(n) == \A k \in 1..n : IsGroup(k) /\ ~Fails(k)
\* Chunk c is there and is displayed.
IsShown(s, p, c) ==
  IsChunk(s, p, c) /\ ~(s.fmt \in {"d", "o"} /\ Len(ChunkOf(s, p, c)) > MaxOctets)

\* Group g is next.
Between(g) ==
  /\ g \in Nat \ {0} /\ g <= Len(Reading) + dataPos + 1
  /\ Displayed(g - 1)
  /\ dataPos = Used[g - 1]
  /\ hintPos = SpecStarts[Place(g - 1)]
  /\ g > 1 => /\ lastSpecStart = SpecStarts[Place(g - 1) - 1]
              /\ lastSpecConsumesByte <=> ~UsesNothing(SpecOf(g - 1))
  /\ result = JoinTo(Texts, g - 1)

\* The text of the chunks so far; at the end of the data no mark follows the last.
ShownOf(s, p) ==
  IF MoreData \/ r = 0 THEN JoinTo(Chunks(s, p), r)
  ELSE JoinTo(Chunks(s, p), r - 1) \o <<Printed(s.fmt, ChunkOf(s, p, r))>>

\* Chunk r + 1 of group g is next.
InGroup(g, s, p) ==
  /\ g \in 1..MaxGroups /\ s = SpecOf(g) /\ p = Used[g - 1]
  /\ Displayed(g - 1) /\ IsGroup(g) /\ g <= Len(Reading) + p + 1
  /\ g > Len(Reading) => ~UsesNothing(s)
  /\ IsRead(spec, s)
  /\ repeatCount = Repeats(s, p) /\ r \in 0..repeatCount
  /\ dataPos = UpTo(s, p, r)
  /\ hintPos = SpecStarts[Place(g)] /\ lastSpecStart = SpecStarts[Place(g) - 1]
  /\ lastSpecConsumesByte <=> ~UsesNothing(s)
  /\ \A c \in 1..r : IsShown(s, p, c)
  /\ result = JoinTo(Texts, g - 1) \o ShownOf(s, p)

\* The loop is where the reference says; what it returns is what it should be.
Explained ==
  IsReadable =>
    /\ status = "spec" /\ MoreData => \E g : Between(g)
    /\ status = "apply" \/ (status = "spec" /\ ~MoreData) => \E g, s, p : InGroup(g, s, p)
    /\ status = "ok" => 
         Reference = IF EndsInCount THEN WithoutTrailingMarks(result) ELSE result
    /\ status = "failed" => Reference = Failure

\* The arguments do not change, and nothing that is said of them.
LEMMA Same ==
  ASSUME hint' = hint, data' = data
  PROVE  /\ Reading' = Reading /\ MaxGroups' = MaxGroups /\ SpecStarts' = SpecStarts
         /\ Used' = Used /\ Texts' = Texts /\ Reference' = Reference
         /\ \A g : SpecOf(g)' = SpecOf(g) /\ Place(g)' = Place(g)
         /\ \A g : (IsGroup(g)' <=> IsGroup(g)) /\ (Displayed(g)' <=> Displayed(g))
         /\ \A s, p : Repeats(s, p)' = Repeats(s, p) /\ Chunks(s, p)' = Chunks(s, p)
         /\ \A s, p, c : UpTo(s, p, c)' = UpTo(s, p, c) /\ ChunkOf(s, p, c)' = ChunkOf(s, p, c)
         /\ \A s, p, c : IsShown(s, p, c)' <=> IsShown(s, p, c)
         /\ IsReadable' <=> IsReadable
<1>1. Reading' = Reading
  BY DEF Reading
<1>2. MaxGroups' = MaxGroups
  BY <1>1 DEF MaxGroups
<1>3. SpecStarts' = SpecStarts
  <2>1. Pieces' = Pieces
    BY <1>1 DEF Pieces
  <2> QED
    BY <2>1 DEF SpecStarts
<1>4. Used' = Used
  BY <1>1, <1>2 DEF Used, SpecOf, UpTo, Body, Repeats
<1>5. \A g : SpecOf(g)' = SpecOf(g) /\ Place(g)' = Place(g)
  BY <1>1 DEF SpecOf, Place
<1>6. \A s, p, c : UpTo(s, p, c)' = UpTo(s, p, c) /\ ChunkOf(s, p, c)' = ChunkOf(s, p, c)
  BY DEF UpTo, Body, ChunkOf
<1>7. \A s, p, c : IsShown(s, p, c)' <=> IsShown(s, p, c)
  BY DEF IsShown, IsChunk, UpTo, Body, ChunkOf
<1>8. \A s, p : Repeats(s, p)' = Repeats(s, p) /\ Chunks(s, p)' = Chunks(s, p)
  BY DEF Chunks, Repeats, ChunkText, IsChunk, UpTo, Body, ChunkOf
<1>9. \A g : TextOf(g)' = TextOf(g)
  <2>1. \A s, p : GroupText(s, p)' = GroupText(s, p)
    BY DEF GroupText, Repeats, ChunkText, IsChunk, UpTo, Body, ChunkOf
  <2> QED
    BY <1>4, <1>5, <2>1 DEF TextOf, IsGroup
<1>10. Texts' = Texts
  BY <1>2, <1>9 DEF Texts
<1>11. \A g : IsGroup(g)' <=> IsGroup(g)
  BY <1>4 DEF IsGroup
<1>12. \A g : Fails(g)' <=> Fails(g)
  <2>1. \A s, p : HasLongNumber(s, p)' <=> HasLongNumber(s, p)
    BY DEF HasLongNumber, IsChunk, ChunkOf, Repeats, UpTo, Body
  <2> QED
    BY <1>1, <1>4, <1>5, <1>11, <2>1 DEF Fails
<1>13. \A g : Displayed(g)' <=> Displayed(g)
  BY <1>11, <1>12 DEF Displayed
<1>14. Reference' = Reference
  BY <1>2, <1>9, <1>12 DEF Reference
<1>15. IsReadable' <=> IsReadable
  BY <1>1 DEF IsReadable, Overflows
<1> QED
  BY <1>1, <1>2, <1>3, <1>4, <1>5, <1>6, <1>7, <1>8, <1>10, <1>11, <1>13, <1>14, <1>15

\* Before group g, the loop reads the group's specification, or is stuck at the
\* last one when that would be repeated for ever.
LEMMA Located ==
  ASSUME GoodList, GoodData, TypeOK, MoreData, NEW g, Between(g)
  PROVE  /\ g \in 1..MaxGroups /\ IsGroup(g)
         /\ SpecStart = SpecStarts[Place(g) - 1]
         /\ IF Stuck THEN Fails(g) ELSE g > Len(Reading) => ~UsesNothing(SpecOf(g))
         /\ IsRead(SpecAt(SpecStart), SpecOf(g)) /\ SpecAt(SpecStart).next = SpecStarts[Place(g)]
         /\ SpecAt(SpecStart).take = Declared(SpecOf(g).octets) /\ IsValid(SpecAt(SpecStart))
<1> DEFINE L == Len(Reading)
<1>1. L \in Nat \ {0} /\ MaxGroups = L + Len(data) /\ Len(data) \in Nat /\ dataPos \in 0..Len(data)
  BY DEF GoodList, GoodData, MaxGroups, TypeOK
<1>2. g \in 1..MaxGroups
  BY <1>1 DEF Between, MoreData
<1>3. IsGroup(g)
  BY DEF Between, MoreData, IsGroup
<1>4. /\ SpecStarts[0] = 0 /\ SpecStarts[L] = Len(hint) /\ Len(hint) \in Nat
      /\ \A i \in 0..L : SpecStarts[i] \in 0..Len(hint)
  <2>1. hint \in Seq(Chars) /\ SpecStarts \in [0..L -> 0..Len(hint)]
    BY PiecesFacts
  <2> QED
    BY <2>1, PiecesFacts
<1>5. Place(g) \in 1..L /\ SpecOf(g) = Reading[Place(g)]
  BY <1>1, <1>2 DEF Place, SpecOf
<1>6. ASSUME g <= L
      PROVE  SpecStart = SpecStarts[Place(g) - 1] /\ ~Stuck
  <2>1. Place(g) = g /\ Place(g - 1) = g - 1
    BY <1>1, <1>2, <1>6 DEF Place
  <2>2. hintPos = SpecStarts[g - 1]
    BY <2>1 DEF Between
  <2>3. SpecStarts[g - 1] < Len(hint)
    <3>1. SpecStarts[g] = SpecStarts[g - 1] + Len(Written(Reading[g])) /\ g \in 1..L
      BY <1>2, <1>6, PiecesFacts
    <3>2. Len(Written(Reading[g])) \in Nat \ {0}
      <4>1. IsSpec(Reading[g])
        BY <3>1 DEF GoodList
      <4> QED
        BY <4>1, WrittenLength
    <3>3. SpecStarts[g] \in 0..Len(hint) /\ SpecStarts[g - 1] \in 0..Len(hint)
      BY <1>1, <1>4, <3>1
    <3> QED
      BY <1>4, <3>1, <3>2, <3>3
  <2>4. ~(hintPos >= Len(hint))
    BY <1>1, <1>2, <1>4, <1>6, <2>2, <2>3
  <2> QED
    BY <2>1, <2>2, <2>4 DEF SpecStart, Stuck
<1>7. ASSUME g > L
      PROVE  SpecStart = SpecStarts[Place(g) - 1] /\ IF Stuck THEN Fails(g) ELSE ~UsesNothing(SpecOf(g))
  <2>1. Place(g) = L /\ Place(g - 1) = L /\ g > 1 /\ SpecOf(g - 1) = SpecOf(g)
    BY <1>1, <1>2, <1>7 DEF Place, SpecOf
  <2>2. hintPos = Len(hint) /\ lastSpecStart = SpecStarts[L - 1] /\ (lastSpecConsumesByte <=> ~UsesNothing(SpecOf(g)))
    BY <1>4, <2>1 DEF Between
  <2>3. SpecStart = SpecStarts[Place(g) - 1] /\ (Stuck <=> UsesNothing(SpecOf(g)))
    BY <1>4, <2>1, <2>2 DEF SpecStart, Stuck
  <2>4. UsesNothing(SpecOf(g)) => Fails(g)
    BY <1>3, <1>7 DEF Fails
  <2> QED
    BY <2>3, <2>4
<1>8. SpecStart = SpecStarts[Place(g) - 1]
      /\ IF Stuck THEN Fails(g) ELSE g > L => ~UsesNothing(SpecOf(g))
  BY <1>1, <1>2, <1>6, <1>7
<1>9. IsRead(SpecAt(SpecStart), SpecOf(g)) /\ SpecAt(SpecStart).next = SpecStarts[Place(g)]
  BY <1>5, <1>8, SpecIsRead
<1> PICK s, x, o : s = SpecOf(g) /\ x = SpecAt(SpecStart) /\ o = Declared(s.octets)
  OBVIOUS
<1>10. IsSpec(s) /\ o \in 0..MaxInt /\ MaxInt \in Nat
  BY <1>2, GroupFacts DEF GoodData
<1>11. Wrap(o) = o
  BY <1>10, WrapFacts
<1>12. IsRead(x, s)
  BY <1>9
<1>13. x.take = o /\ IsValid(x)
  BY <1>10, <1>11, <1>12 DEF IsRead, IsValid, IsSpec
<1> QED
  BY <1>2, <1>3, <1>8, <1>9, <1>13

\* The texts put together, one group more and one chunk more.
LEMMA GroupsJoin ==
  ASSUME GoodList, GoodData
  PROVE  /\ JoinTo(Texts, 0) = <<>> /\ JoinTo(Texts, MaxGroups) = FlattenSeq(Texts)
         /\ \A n \in 0..MaxGroups : JoinTo(Texts, n) \in Seq(Entries)
         /\ \A n \in 1..MaxGroups : JoinTo(Texts, n) = JoinTo(Texts, n - 1) \o Texts[n]
<1>1. MaxGroups \in Nat /\ Texts \in [1..MaxGroups -> Seq(Entries)]
  BY TextFacts DEF GoodList
<1>2. JoinsUp(Texts, MaxGroups, Entries)
  BY <1>1, JoinNext
<1> QED
  BY <1>2 DEF JoinsUp

AreJoined(s, p) ==
  /\ Repeats(s, p) \in Nat
  /\ JoinTo(Chunks(s, p), 0) = <<>>
  /\ JoinTo(Chunks(s, p), Repeats(s, p)) = FlattenSeq(Chunks(s, p))
  /\ \A n \in 0..Repeats(s, p) : JoinTo(Chunks(s, p), n) \in Seq(Entries)
  /\ \A n \in 1..Repeats(s, p) :
       JoinTo(Chunks(s, p), n) = JoinTo(Chunks(s, p), n - 1) \o ChunkText(s, p, n)
\* The same for the chunks of a group.
LEMMA ChunksJoin ==
  ASSUME GoodList, GoodData, NEW g \in 1..MaxGroups, IsGroup(g)
  PROVE  AreJoined(SpecOf(g), Used[g - 1])
<1> DEFINE s == SpecOf(g)
           p == Used[g - 1]
<1>1. Repeats(s, p) \in Nat
  BY GroupFacts
<1>2. Chunks(s, p) \in [1..Repeats(s, p) -> Seq(Entries)]
  BY ChunkTextFacts
<1> HIDE DEF s, p
<1>3. JoinsUp(Chunks(s, p), Repeats(s, p), Entries)
  BY <1>1, <1>2, JoinNext
<1>4. \A n \in 1..Repeats(s, p) : Chunks(s, p)[n] = ChunkText(s, p, n)
  BY DEF Chunks
<1>5. AreJoined(s, p)
  BY <1>1, <1>3, <1>4 DEF JoinsUp, AreJoined
<1> QED
  BY <1>5 DEF s, p

\* A specification is read: its group begins.
LEMMA ReadStep ==
  ASSUME GoodList, GoodData, TypeOK, ParseSpec, NEW g, Between(g)
  PROVE  \E s, p : InGroup(g, s, p)'
<1> PICK s, p, x : s = SpecOf(g) /\ p = Used[g - 1] /\ x = SpecAt(SpecStart)
  OBVIOUS
<1>1. MoreData /\ ~Stuck
  BY DEF ParseSpec
<1>2. /\ g \in 1..MaxGroups /\ IsGroup(g)
      /\ SpecStart = SpecStarts[Place(g) - 1]
      /\ g > Len(Reading) => ~UsesNothing(s)
      /\ IsRead(x, s) /\ x.next = SpecStarts[Place(g)] /\ x.take = Declared(s.octets)
  BY <1>1, Located
<1>3. IsSpec(s) /\ Declared(s.octets) \in Nat /\ p \in 0..Len(data) /\ p < Len(data)
  BY <1>2, GroupFacts
<1>4. /\ Repeats(s, p) \in Nat /\ UpTo(s, p, 0) = Body(s, p)
      /\ Body(s, p) = IF s.star THEN p + 1 ELSE p
  BY <1>3, UpToFacts
<1>5. p = dataPos
  BY DEF Between
<1>6. (x.star <=> s.star) /\ s.star \in BOOLEAN
  BY <1>2, <1>3 DEF IsRead, IsSpec
<1>7. /\ hint' = hint /\ data' = data /\ r' = 0 /\ result' = result
      /\ spec' = x /\ hintPos' = x.next /\ lastSpecStart' = SpecStart
      /\ lastSpecConsumesByte' = (x.take > 0 \/ x.star)
      /\ repeatCount' = IF x.star THEN data[dataPos + 1] ELSE 1
      /\ dataPos' = dataPos + CountBytes(x)
  BY DEF ParseSpec
<1>8. repeatCount' = Repeats(s, p)
  BY <1>5, <1>6, <1>7 DEF Repeats
<1>9. dataPos' = UpTo(s, p, 0)
  BY <1>3, <1>4, <1>5, <1>6, <1>7 DEF CountBytes
<1>10. lastSpecConsumesByte' <=> ~UsesNothing(s)
  <2>1. (x.take > 0 \/ x.star) <=> ~UsesNothing(s)
    BY <1>2, <1>3, <1>6 DEF UsesNothing
  <2> QED
    BY <1>7, <2>1, Zenon
<1>11. result' = JoinTo(Texts, g - 1) \o JoinTo(Chunks(s, p), 0)
  <2>1. JoinTo(Texts, g - 1) \in Seq(Entries) /\ JoinTo(Chunks(s, p), 0) = <<>>
    <3>1. g - 1 \in 0..MaxGroups
      BY <1>2 DEF GoodList
    <3>2. AreJoined(s, p)
      BY <1>2, ChunksJoin
    <3> QED
      BY <3>1, <3>2, GroupsJoin DEF AreJoined
  <2> QED
    BY <1>7, <2>1 DEF Between
<1>12. ShownOf(s, p)' = JoinTo(Chunks(s, p), 0)
  BY <1>7, Same DEF ShownOf
<1>13. Displayed(g - 1) /\ g <= Len(Reading) + p + 1
  BY <1>5 DEF Between
<1>14. \A c \in 1..r' : IsShown(s, p, c)'
  BY <1>7
<1>15. r' \in 0..repeatCount'
  BY <1>4, <1>7, <1>8
<1>16. InGroup(g, s, p)'
  BY <1>2, <1>7, <1>8, <1>9, <1>10, <1>11, <1>12, <1>13, <1>14, <1>15, Same DEF InGroup
<1> QED
  BY <1>16

\* What a step inside a group knows.
LEMMA Inside ==
  ASSUME GoodList, GoodData, NEW g, NEW s, NEW p, InGroup(g, s, p)
  PROVE  /\ IsSpec(s) /\ Declared(s.octets) \in 0..MaxInt /\ Declared(s.octets) \in Nat
         /\ p \in 0..Len(data) /\ p < Len(data)
         /\ Repeats(s, p) \in Nat /\ r \in Nat /\ r <= Repeats(s, p) /\ repeatCount = Repeats(s, p)
         /\ dataPos \in Body(s, p)..Len(data) /\ dataPos \in 0..Len(data)
         /\ (spec.star <=> s.star) /\ spec.fmt = s.fmt /\ spec.take = Declared(s.octets)
         /\ (spec.hasSep <=> Len(s.marks) >= 1) /\ (Len(s.marks) >= 1 => spec.sep = s.marks[1])
         /\ (spec.hasTerm <=> Len(s.marks) = 2) /\ (Len(s.marks) = 2 => spec.term = s.marks[2])
         /\ Len(s.marks) \in 0..2
<1>1. /\ g \in 1..MaxGroups /\ s = SpecOf(g) /\ p = Used[g - 1] /\ IsGroup(g)
      /\ IsRead(spec, s) /\ repeatCount = Repeats(s, p) /\ r \in 0..repeatCount
      /\ dataPos = UpTo(s, p, r)
  BY DEF InGroup
<1>2. /\ IsSpec(s) /\ Declared(s.octets) \in 0..MaxInt /\ Declared(s.octets) \in Nat
      /\ p \in 0..Len(data) /\ p < Len(data)
  BY <1>1, GroupFacts
<1>3. /\ Repeats(s, p) \in Nat /\ Body(s, p) \in p..Len(data)
      /\ \A c \in Nat : UpTo(s, p, c) \in Body(s, p)..Len(data)
  BY <1>2, UpToFacts
<1>4. r \in Nat /\ r <= Repeats(s, p)
  BY <1>1, <1>3
<1>5. dataPos \in Body(s, p)..Len(data) /\ dataPos \in 0..Len(data)
  <2>1. dataPos \in Body(s, p)..Len(data)
    BY <1>1, <1>3, <1>4
  <2> QED
    BY <1>2, <1>3, <2>1 DEF GoodData
<1>6. Wrap(Declared(s.octets)) = Declared(s.octets)
  <2> PICK o : o = Declared(s.octets)
    OBVIOUS
  <2>1. o \in 0..MaxInt /\ MaxInt \in Nat
    BY <1>2 DEF GoodData
  <2> QED
    BY <2>1, WrapFacts
<1>7. Len(s.marks) \in 0..2
  <2>1. \A k \in Nat : k <= 2 => k \in 0..2
    OBVIOUS
  <2>2. Len(s.marks) \in Nat /\ Len(s.marks) <= 2
    BY <1>2 DEF IsSpec, IsList
  <2> QED
    BY <2>1, <2>2, Zenon
<1> QED
  BY <1>1, <1>2, <1>3, <1>4, <1>5, <1>6, <1>7 DEF IsRead

\* The slice of the code is the chunk of the reference, also when its end overflows.
LEMMA ChunkIs ==
  ASSUME GoodList, GoodData, NEW g, NEW s, NEW p, InGroup(g, s, p)
  PROVE  /\ ChunkEnd = UpTo(s, p, r + 1) /\ Chunk = ChunkOf(s, p, r + 1)
         /\ IsChunk(s, p, r + 1) <=> MoreData
<1>1. /\ IsSpec(s) /\ Declared(s.octets) \in 0..MaxInt /\ Declared(s.octets) \in Nat
      /\ p \in 0..Len(data) /\ p < Len(data) /\ r \in Nat /\ dataPos \in 0..Len(data)
      /\ spec.take = Declared(s.octets)
  BY Inside
<1>2. dataPos = UpTo(s, p, r)
  BY DEF InGroup
<1> PICK o : o = Declared(s.octets)
  OBVIOUS
<1>3. UpTo(s, p, r + 1) = IF dataPos + o <= Len(data) THEN dataPos + o ELSE Len(data)
  <2>1. \A c \in Nat : UpTo(s, p, c + 1) =
          IF UpTo(s, p, c) + Declared(s.octets) <= Len(data)
            THEN UpTo(s, p, c) + Declared(s.octets) ELSE Len(data)
    BY <1>1, UpToFacts
  <2> QED
    BY <1>1, <1>2, <2>1
<1>4. MaxInt \in Nat /\ Len(data) \in Nat /\ Len(data) <= MaxInt
  BY DEF GoodData
<1> PICK n : n = dataPos + o
  OBVIOUS
<1>5. n \in Nat /\ n <= 2 * MaxInt + 1 /\ n >= dataPos
  BY <1>1, <1>4
<1>6. Wrap(n) = IF n <= MaxInt THEN n ELSE n - 2 * MaxInt - 2
  BY <1>4, <1>5, WrapFacts
<1>7. ChunkEnd = IF Wrap(n) > Len(data) \/ Wrap(n) < dataPos THEN Len(data) ELSE Wrap(n)
  BY <1>1 DEF ChunkEnd
<1>8. ChunkEnd = UpTo(s, p, r + 1)
  BY <1>1, <1>3, <1>4, <1>5, <1>6, <1>7
<1>9. (r + 1) - 1 = r
  BY <1>1
<1>10. UpTo(s, p, (r + 1) - 1) = dataPos
  BY <1>2, <1>9
<1>11. Chunk = ChunkOf(s, p, r + 1)
  BY <1>8, <1>10 DEF Chunk, ChunkOf
<1>12. IsChunk(s, p, r + 1) <=> MoreData
  BY <1>10 DEF IsChunk, MoreData
<1> QED
  BY <1>8, <1>11, <1>12

\* One chunk more is displayed.
LEMMA ApplyStep ==
  ASSUME GoodList, GoodData, Apply, NEW g, NEW s, NEW p, InGroup(g, s, p)
  PROVE  InGroup(g, s, p)'
<1>1. /\ IsSpec(s) /\ Declared(s.octets) \in Nat /\ p \in 0..Len(data) /\ p < Len(data)
      /\ Repeats(s, p) \in Nat /\ r \in Nat /\ repeatCount = Repeats(s, p)
      /\ (spec.star <=> s.star) /\ spec.fmt = s.fmt
      /\ (spec.hasSep <=> Len(s.marks) >= 1) /\ (Len(s.marks) >= 1 => spec.sep = s.marks[1])
      /\ (spec.hasTerm <=> Len(s.marks) = 2)
  BY Inside
<1>2. ChunkEnd = UpTo(s, p, r + 1) /\ Chunk = ChunkOf(s, p, r + 1) /\ IsChunk(s, p, r + 1)
  <2>1. MoreData
    BY DEF Apply, Applying
  <2> QED
    BY <2>1, ChunkIs
<1>3. r < Repeats(s, p) /\ MoreData /\ ~TooLong
  BY <1>1 DEF Apply, Applying
<1>4. /\ r' = r + 1 /\ dataPos' = ChunkEnd /\ hint' = hint /\ data' = data /\ spec' = spec
      /\ hintPos' = hintPos /\ lastSpecStart' = lastSpecStart /\ repeatCount' = repeatCount
      /\ lastSpecConsumesByte' = lastSpecConsumesByte
  BY DEF Apply
<1>5. r' \in 0..repeatCount'
  BY <1>1, <1>3, <1>4
<1>6. IsShown(s, p, r + 1)
  BY <1>1, <1>2, <1>3 DEF IsShown, TooLong
<1>7. \A c \in 1..r' : IsShown(s, p, c)'
  <2> SUFFICES ASSUME NEW c \in 1..r' PROVE IsShown(s, p, c)
    BY <1>4, Same
  <2>1. c \in 1..r \/ c = r + 1
    BY <1>1, <1>4
  <2> QED
    BY <1>6, <2>1 DEF InGroup
<1>8. g \in 1..MaxGroups /\ IsGroup(g) /\ s = SpecOf(g) /\ p = Used[g - 1] /\ g - 1 \in 0..MaxGroups
  BY DEF InGroup, GoodList
<1> PICK n : n = r + 1
  OBVIOUS
<1>9. n \in Nat /\ n - 1 = r /\ n # 0 /\ n \in 1..Repeats(s, p) /\ n - 1 \in 0..Repeats(s, p)
  BY <1>1, <1>3
<1> DEFINE a == JoinTo(Texts, g - 1)
           b == JoinTo(Chunks(s, p), n - 1)
           e == <<Printed(s.fmt, ChunkOf(s, p, n))>>
           m == IF n = Repeats(s, p) /\ Len(s.marks) = 2 THEN <<>> ELSE Marks(s, 1)
<1>10. result = a \o b
  <2>1. ShownOf(s, p) = b
    BY <1>3, <1>9 DEF ShownOf
  <2> QED
    BY <2>1 DEF InGroup
<1>11. ChunkText(s, p, n) = e \o m
  BY <1>2 DEF ChunkText
<1>12. JoinTo(Chunks(s, p), n) = b \o (e \o m) /\ b \in Seq(Entries) /\ a \in Seq(Entries)
  <2>1. a \in Seq(Entries)
    BY <1>8, GroupsJoin
  <2>2. AreJoined(s, p)
    BY <1>8, ChunksJoin
  <2> QED
    BY <1>9, <1>11, <2>1, <2>2 DEF AreJoined
<1>13. e \in Seq(Entries)
  BY <1>1, <1>9, PrintedFacts
<1>14. m \in Seq(Entries)
  <2>1. Marks(s, 1) \in Seq(Entries)
    BY <1>8, MarksFacts, 1 \in 1..2
  <2> QED
    BY <2>1
<1> HIDE DEF a, b, e, m
<1>15. result' = (result \o e) \o IF Separated(ChunkEnd < Len(data)) THEN <<Mark(spec.sep)>> ELSE <<>>
  BY <1>1, <1>2 DEF Apply, e
<1>16. CASE ChunkEnd < Len(data)
  <2>1. ShownOf(s, p)' = b \o (e \o m)
    <3>1. MoreData'
      BY <1>4, <1>16 DEF MoreData
    <3> QED
      BY <1>4, <1>12, <3>1, Same DEF ShownOf
  <2>2. (IF Separated(ChunkEnd < Len(data)) THEN <<Mark(spec.sep)>> ELSE <<>>) = m
    <3>1. Separated(ChunkEnd < Len(data)) <=> Len(s.marks) >= 1 /\ ~(n = Repeats(s, p) /\ Len(s.marks) = 2)
      BY <1>1, <1>9, <1>16 DEF Separated
    <3>2. Len(s.marks) >= 1 => Marks(s, 1) = <<Mark(spec.sep)>>
      BY <1>1 DEF Marks
    <3>3. ~(Len(s.marks) >= 1) => Marks(s, 1) = <<>>
      BY DEF Marks
    <3> QED
      BY <3>1, <3>2, <3>3, Zenon DEF m
  <2>3. result' = a \o (b \o (e \o m))
    <3>1. result' = ((a \o b) \o e) \o m
      BY <1>10, <1>15, <2>2
    <3>2. ((a \o b) \o e) \o m = a \o (b \o (e \o m))
      <4>1. a \in Seq(Entries) /\ b \in Seq(Entries)
        BY <1>12
      <4>2. a \o b \in Seq(Entries) /\ e \o m \in Seq(Entries)
        BY <1>13, <1>14, <4>1
      <4>3. ((a \o b) \o e) \o m = (a \o b) \o (e \o m)
        BY <1>13, <1>14, <4>2, ConcatAssociative
      <4>4. (a \o b) \o (e \o m) = a \o (b \o (e \o m))
        BY <4>1, <4>2, ConcatAssociative
      <4> QED
        BY <4>3, <4>4
    <3> QED
      BY <3>1, <3>2
  <2>4. result' = a \o ShownOf(s, p)'
    BY <2>1, <2>3
  <2> QED
    BY <1>2, <1>4, <1>5, <1>7, <2>4, Same DEF InGroup, a
<1>17. CASE ~(ChunkEnd < Len(data))
  <2>1. ShownOf(s, p)' = b \o e
    <3>1. ~MoreData'
      BY <1>4, <1>17 DEF MoreData
    <3>2. r' = n /\ r' # 0
      BY <1>4, <1>9
    <3>3. ChunkOf(s, p, r)' = ChunkOf(s, p, n)
      BY <1>4, <3>2 DEF ChunkOf, UpTo, Body
    <3> QED
      BY <1>4, <3>1, <3>2, <3>3, <1>9, Same DEF ShownOf, b, e
  <2>2. ~Separated(ChunkEnd < Len(data))
    BY <1>17 DEF Separated
  <2>3. result' = a \o (b \o e)
    <3>1. result' = ((a \o b) \o e) \o <<>>
      BY <1>10, <1>15, <2>2
    <3>2. ((a \o b) \o e) \o <<>> = (a \o b) \o e
      BY <1>12, <1>13
    <3>3. (a \o b) \o e = a \o (b \o e)
      BY <1>12, <1>13, ConcatAssociative
    <3> QED
      BY <3>1, <3>2, <3>3
  <2>4. result' = a \o ShownOf(s, p)'
    BY <2>1, <2>3
  <2> QED
    BY <1>2, <1>4, <1>5, <1>7, <2>4, Same DEF InGroup, a
<1> QED
  BY <1>16, <1>17

\* A number that is too long: the group fails.
LEMMA TooLongStep ==
  ASSUME GoodList, GoodData, ChunkTooLong, NEW g, NEW s, NEW p, InGroup(g, s, p)
  PROVE  Reference = Failure
<1>1. MoreData /\ r < repeatCount /\ spec.fmt \in {"d", "o"} /\ Len(Chunk) > MaxOctets
  BY DEF ChunkTooLong, Applying, TooLong
<1>2. /\ spec.fmt = s.fmt /\ repeatCount = Repeats(s, p) /\ r \in Nat /\ Repeats(s, p) \in Nat
  BY Inside
<1>3. Chunk = ChunkOf(s, p, r + 1) /\ IsChunk(s, p, r + 1)
  BY <1>1, ChunkIs
<1>4. r + 1 \in 1..Repeats(s, p)
  BY <1>1, <1>2
<1>5. HasLongNumber(s, p)
  BY <1>1, <1>2, <1>3, <1>4 DEF HasLongNumber
<1>6. g \in 1..MaxGroups /\ Fails(g)
  BY <1>5 DEF InGroup, Fails
<1> QED
  BY <1>6 DEF Reference

\* No group so far fails, nor does this one when each chunk is displayed.
LEMMA GroupDisplayed ==
  ASSUME NEW g, NEW s, NEW p, InGroup(g, s, p), GoodList,
         \A c \in 1..Repeats(s, p) : IsShown(s, p, c) \/ ~IsChunk(s, p, c)
  PROVE  Displayed(g)
<1>1. ~HasLongNumber(s, p)
  BY DEF HasLongNumber, IsShown
<1>2. IsGroup(g) /\ ~Fails(g)
  BY <1>1 DEF InGroup, Fails
<1>3. g \in Nat \ {0}
  BY DEF InGroup, GoodList
<1>4. ASSUME NEW k \in 1..g PROVE IsGroup(k) /\ ~Fails(k)
  <2>1. k \in 1..(g - 1) \/ k = g
    BY <1>3
  <2> QED
    BY <1>2, <2>1 DEF InGroup, Displayed
<1> QED
  BY <1>4 DEF Displayed

\* A group ends before the data does: the next one is due.
LEMMA EndStep ==
  ASSUME GoodList, GoodData, EndGroup, MoreData, NEW g, NEW s, NEW p, InGroup(g, s, p)
  PROVE  Between(g + 1)'
<1>1. /\ IsSpec(s) /\ Declared(s.octets) \in Nat /\ p \in 0..Len(data) /\ p < Len(data)
      /\ Repeats(s, p) \in Nat /\ r \in Nat /\ r <= Repeats(s, p) /\ repeatCount = Repeats(s, p)
      /\ dataPos \in Body(s, p)..Len(data) /\ dataPos \in 0..Len(data)
      /\ (spec.hasTerm <=> Len(s.marks) = 2) /\ (Len(s.marks) = 2 => spec.term = s.marks[2])
      /\ Len(s.marks) \in 0..2
  BY Inside
<1>2. r = Repeats(s, p)
  BY <1>1 DEF EndGroup, Applying
<1>3. /\ g \in 1..MaxGroups /\ s = SpecOf(g) /\ p = Used[g - 1] /\ IsGroup(g) /\ g \in Nat \ {0}
      /\ g <= Len(Reading) + p + 1 /\ (g > Len(Reading) => ~UsesNothing(s))
      /\ dataPos = UpTo(s, p, r)
      /\ hintPos = SpecStarts[Place(g)] /\ lastSpecStart = SpecStarts[Place(g) - 1]
      /\ (lastSpecConsumesByte <=> ~UsesNothing(s))
  BY DEF InGroup, GoodList
<1>4. dataPos = Used[g]
  <2>1. p # Len(data)
    BY <1>1 DEF GoodData
  <2> QED
    BY <1>2, <1>3, <2>1, UsedFacts
<1>5. Displayed(g)
  <2>1. \A c \in 1..Repeats(s, p) : IsShown(s, p, c)
    BY <1>2 DEF InGroup
  <2> QED
    BY <2>1, GroupDisplayed
\* A specification that is repeated uses data.
<1>6. g + 1 <= Len(Reading) + dataPos + 1
  <2>1. Len(Reading) \in Nat /\ Len(data) \in Nat
    BY DEF GoodList, GoodData
  <2>2. Body(s, p) \in p..Len(data) /\ Body(s, p) = IF s.star THEN p + 1 ELSE p
    BY <1>1, UpToFacts
  <2>3. dataPos \in Nat /\ dataPos >= p
    BY <1>1, <2>1, <2>2
  <2>4. CASE g <= Len(Reading)
    BY <1>3, <2>1, <2>3, <2>4
  <2>5. CASE g > Len(Reading) /\ s.star
    <3>1. dataPos >= p + 1
      BY <1>1, <2>1, <2>2, <2>5
    <3> QED
      BY <1>1, <1>3, <2>1, <2>3, <3>1
  <2>6. CASE g > Len(Reading) /\ ~s.star
    <3>1. Declared(s.octets) > 0
      BY <1>1, <1>3, <2>6 DEF UsesNothing
    <3>2. r = 0 + 1
      BY <1>2, <2>6 DEF Repeats
    <3>3. UpTo(s, p, 0 + 1) = IF UpTo(s, p, 0) + Declared(s.octets) <= Len(data)
                                THEN UpTo(s, p, 0) + Declared(s.octets) ELSE Len(data)
      BY <1>1, UpToFacts, 0 \in Nat
    <3>4. UpTo(s, p, 0) = p
      BY <1>1, <2>2, <2>6, UpToFacts
    <3>5. dataPos = IF p + Declared(s.octets) <= Len(data) THEN p + Declared(s.octets) ELSE Len(data)
      BY <1>3, <3>2, <3>3, <3>4
    <3>6. dataPos >= p + 1
      BY <1>1, <2>1, <3>1, <3>5
    <3> QED
      BY <1>1, <1>3, <2>1, <2>3, <3>6
  <2>7. g <= Len(Reading) \/ g > Len(Reading)
    BY <1>3, <2>1
  <2>8. s.star \in BOOLEAN
    BY <1>1 DEF IsSpec
  <2> QED
    BY <2>4, <2>5, <2>6, <2>7, <2>8
<1>7. /\ hint' = hint /\ data' = data /\ dataPos' = dataPos /\ hintPos' = hintPos
      /\ lastSpecStart' = lastSpecStart /\ lastSpecConsumesByte' = lastSpecConsumesByte
      /\ result' = IF spec.hasTerm THEN Append(result, Mark(spec.term)) ELSE result
  BY DEF EndGroup
<1>8. AreJoined(s, p)
  BY <1>3, ChunksJoin
<1>9. result' = JoinTo(Texts, g)
  <2> DEFINE a == JoinTo(Texts, g - 1)
             b == JoinTo(Chunks(s, p), Repeats(s, p))
             m == Marks(s, 2)
  <2>1. result = a \o b
    <3>1. ShownOf(s, p) = b
      BY <1>2 DEF ShownOf
    <3> QED
      BY <3>1 DEF InGroup
  <2>2. JoinTo(Texts, g) = a \o (b \o m)
    <3>1. JoinTo(Texts, g) = a \o Texts[g]
      BY <1>3, GroupsJoin
    <3>2. Texts[g] = FlattenSeq(Chunks(s, p)) \o m
      BY <1>3, TextFacts
    <3>3. FlattenSeq(Chunks(s, p)) = b
      BY <1>8 DEF AreJoined
    <3> QED
      BY <3>1, <3>2, <3>3
  <2>3. a \in Seq(Entries)
    BY <1>3, GroupsJoin, g - 1 \in 0..MaxGroups DEF GoodList
  <2>4. b \in Seq(Entries)
    BY <1>8, Repeats(s, p) \in 0..Repeats(s, p) DEF AreJoined
  <2>5. m \in Seq(Entries)
    BY <1>3, MarksFacts, 2 \in 1..2
  <2>6. m = IF spec.hasTerm THEN <<Mark(spec.term)>> ELSE <<>>
    BY <1>1 DEF Marks
  <2> HIDE DEF a, b, m
  <2>7. a \o b \in Seq(Entries)
    BY <2>3, <2>4
  <2>8. result' = (a \o b) \o m
    BY <1>7, <2>1, <2>6, <2>7
  <2>9. (a \o b) \o m = a \o (b \o m)
    BY <2>3, <2>4, <2>5, ConcatAssociative
  <2> QED
    BY <2>2, <2>8, <2>9
<1>10. (g + 1) - 1 = g /\ g + 1 \in Nat \ {0}
  BY <1>3
<1> QED
  BY <1>3, <1>4, <1>5, <1>6, <1>7, <1>9, <1>10, Same DEF Between

\* At the end of the data nothing is left to display: what was displayed is what
\* the reference displays.
LEMMA ReturnStep ==
  ASSUME GoodList, GoodData, ~MoreData, NEW g, NEW s, NEW p, InGroup(g, s, p)
  PROVE  Reference = IF EndsInCount THEN WithoutTrailingMarks(result) ELSE result
<1>1. /\ IsSpec(s) /\ Declared(s.octets) \in Nat /\ p \in 0..Len(data) /\ p < Len(data)
      /\ Repeats(s, p) \in Nat /\ r \in Nat /\ r <= Repeats(s, p)
      /\ dataPos \in 0..Len(data) /\ (spec.star <=> s.star)
  BY Inside
<1>2. /\ g \in 1..MaxGroups /\ g \in Nat \ {0} /\ MaxGroups \in Nat
      /\ s = SpecOf(g) /\ p = Used[g - 1] /\ IsGroup(g)
      /\ dataPos = UpTo(s, p, r)
  BY DEF InGroup, GoodList
<1>3. dataPos = Len(data)
  BY <1>1 DEF MoreData, GoodData
<1>4. \A c \in Nat : c >= r => UpTo(s, p, c) = Len(data)
  <2> SUFFICES ASSUME NEW c \in Nat, c >= r PROVE UpTo(s, p, c) = Len(data)
    OBVIOUS
  <2>1. UpTo(s, p, r) <= UpTo(s, p, c) /\ UpTo(s, p, c) \in Body(s, p)..Len(data) /\ Body(s, p) \in p..Len(data)
    BY <1>1, UpToFacts
  <2> QED
    BY <1>1, <1>2, <1>3, <2>1 DEF GoodData
<1>5. \A c \in (r + 1)..Repeats(s, p) : ~IsChunk(s, p, c)
  <2> SUFFICES ASSUME NEW c \in (r + 1)..Repeats(s, p) PROVE ~IsChunk(s, p, c)
    OBVIOUS
  <2>1. c - 1 \in Nat /\ c - 1 >= r
    BY <1>1
  <2>2. UpTo(s, p, c - 1) = Len(data)
    BY <1>4, <2>1
  <2> QED
    BY <2>2 DEF IsChunk, GoodData
<1>6. Displayed(g)
  <2> SUFFICES ASSUME NEW c \in 1..Repeats(s, p) PROVE IsShown(s, p, c) \/ ~IsChunk(s, p, c)
    BY GroupDisplayed
  <2>1. c \in 1..r \/ c \in (r + 1)..Repeats(s, p)
    BY <1>1
  <2> QED
    BY <1>5, <2>1 DEF InGroup
<1>7. \A k \in (g + 1)..MaxGroups : ~IsGroup(k)
  <2>1. UpTo(s, p, Repeats(s, p)) = Len(data)
    BY <1>1, <1>4
  <2>2. Used[g] = Len(data)
    BY <1>2, <2>1, UsedFacts
  <2> QED
    BY <1>2, <2>2, UsedUp
<1>8. Reference = WithoutTrailingMarks(FlattenSeq(Texts))
  <2>1. \A k \in 1..MaxGroups : ~Fails(k)
    <3> SUFFICES ASSUME NEW k \in 1..MaxGroups PROVE ~Fails(k)
      OBVIOUS
    <3>1. k \in 1..g \/ k \in (g + 1)..MaxGroups
      BY <1>2
    <3> QED
      BY <1>6, <1>7, <3>1 DEF Displayed, Fails
  <2> QED
    BY <2>1 DEF Reference, Texts
<1>9. AreJoined(s, p)
  BY <1>2, ChunksJoin
<1> DEFINE a == JoinTo(Texts, g - 1)
           b == JoinTo(Chunks(s, p), r)
           m == Marks(s, 2)
<1>10. a \in Seq(Entries)
  BY <1>2, GroupsJoin, g - 1 \in 0..MaxGroups
<1>11. b \in Seq(Entries) /\ r \in 0..Repeats(s, p)
  BY <1>1, <1>9 DEF AreJoined
<1>12. m \in Seq(Entries) /\ AllMarks(m)
  BY <1>2, MarksFacts, 2 \in 1..2 DEF AllMarks
<1>13. FlattenSeq(Texts) = a \o (b \o m)
  <2>1. FlattenSeq(Texts) = JoinTo(Texts, g)
    <3>1. \A k \in (g + 1)..MaxGroups : Texts[k] = <<>>
      <4>1. \A k \in (g + 1)..MaxGroups : k \in 1..MaxGroups
        BY <1>2
      <4> QED
        BY <1>7, <4>1, TextFacts
    <3>2. g \in 0..MaxGroups /\ Texts \in [1..MaxGroups -> Seq(Entries)]
      BY <1>2, TextFacts
    <3> QED
      BY <1>2, <3>1, <3>2, JoinRest
  <2>2. JoinTo(Texts, g) = a \o Texts[g]
    BY <1>2, GroupsJoin
  <2>3. Texts[g] = FlattenSeq(Chunks(s, p)) \o m
    BY <1>2, TextFacts
  <2>4. FlattenSeq(Chunks(s, p)) = b
    <3>1. \A c \in (r + 1)..Repeats(s, p) : Chunks(s, p)[c] = <<>>
      <4>1. \A c \in (r + 1)..Repeats(s, p) : c \in 1..Repeats(s, p)
        BY <1>1
      <4>2. \A c \in 1..Repeats(s, p) : Chunks(s, p)[c] = ChunkText(s, p, c)
        BY DEF Chunks
      <4> QED
        BY <1>5, <4>1, <4>2 DEF ChunkText
    <3>2. Chunks(s, p) \in [1..Repeats(s, p) -> Seq(Entries)]
      BY <1>2, ChunkTextFacts
    <3> QED
      BY <1>1, <1>11, <3>1, <3>2, JoinRest
  <2> QED
    BY <2>1, <2>2, <2>3, <2>4
<1> HIDE DEF a, b, m
<1>14. CASE r = 0
  <2>1. b = <<>> /\ ShownOf(s, p) = <<>>
    <3>1. JoinTo(Chunks(s, p), 0) = <<>>
      BY <1>9 DEF AreJoined
    <3> QED
      BY <1>14, <3>1 DEF b, ShownOf
  <2>2. result = a
    <3>1. result = a \o <<>>
      BY <2>1 DEF InGroup, a
    <3> QED
      BY <1>10, <3>1
  \* Only a repeat count uses data.
  <2>3. EndsInCount
    <3>1. UpTo(s, p, 0) = Body(s, p) /\ Body(s, p) = IF s.star THEN p + 1 ELSE p
      BY <1>1, UpToFacts
    <3>2. s.star
      <4>1. Body(s, p) = Len(data)
        BY <1>2, <1>3, <1>14, <3>1
      <4>2. p # Len(data) /\ s.star \in BOOLEAN
        BY <1>1 DEF IsSpec, GoodData
      <4> QED
        BY <3>1, <4>1, <4>2
    <3> QED
      BY <1>1, <1>14, <3>2 DEF EndsInCount
  <2>4. WithoutTrailingMarks(a \o m) = WithoutTrailingMarks(a)
    BY <1>10, <1>12, TrailingMarks
  <2>5. a \o (b \o m) = a \o m
    BY <1>12, <2>1
  <2> QED
    BY <1>8, <1>13, <2>2, <2>3, <2>4, <2>5
<1>15. CASE r # 0
  <2> DEFINE c == JoinTo(Chunks(s, p), r - 1)
             e == <<Printed(s.fmt, ChunkOf(s, p, r))>>
             q == IF r = Repeats(s, p) /\ Len(s.marks) = 2 THEN <<>> ELSE Marks(s, 1)
  <2>1. r \in 1..Repeats(s, p) /\ r - 1 \in 0..Repeats(s, p)
    BY <1>1, <1>15
  <2>2. c \in Seq(Entries)
    BY <1>9, <2>1 DEF AreJoined
  <2>3. e \in Seq(Entries)
    BY <1>1, <2>1, PrintedFacts, r \in Nat \ {0}
  <2>4. q \in Seq(Entries) /\ AllMarks(q)
    <3>1. Marks(s, 1) \in Seq(Entries) /\ AllMarks(Marks(s, 1))
      BY <1>2, MarksFacts, 1 \in 1..2 DEF AllMarks
    <3>2. <<>> \in Seq(Entries) /\ AllMarks(<<>>)
      BY DEF AllMarks
    <3> QED
      BY <3>1, <3>2
  <2>5. Len(e) = 1 /\ e[1].kind # "mark"
    <3>1. s.fmt \in Formats
      BY <1>1 DEF IsSpec
    <3> QED
      BY <3>1, KindFacts
  <2>6. b = c \o (e \o q)
    <3>1. ChunkText(s, p, r) = e \o q
      <4>1. IsChunk(s, p, r)
        BY <2>1 DEF InGroup, IsShown
      <4> QED
        BY <4>1 DEF ChunkText
    <3> QED
      BY <1>9, <2>1, <3>1 DEF b, AreJoined
  <2>7. result = a \o (c \o e)
    <3>1. ShownOf(s, p) = c \o e
      BY <1>15 DEF ShownOf
    <3> QED
      BY <3>1 DEF InGroup, a
  <2>8. ~EndsInCount
    BY <1>15 DEF EndsInCount
  <2> HIDE DEF c, e, q
  <2>9. a \o (c \o e) \in Seq(Entries) /\ q \o m \in Seq(Entries) /\ c \o e \in Seq(Entries)
    BY <1>10, <1>12, <2>2, <2>3, <2>4
  <2>10. AllMarks(q \o m)
    <3>1. \A i \in 1..Len(q \o m) : IF i <= Len(q) THEN (q \o m)[i] = q[i] ELSE (q \o m)[i] = m[i - Len(q)]
      BY <1>12, <2>4
    <3>2. Len(q \o m) = Len(q) + Len(m) /\ Len(q) \in Nat /\ Len(m) \in Nat
      BY <1>12, <2>4
    <3> QED
      BY <1>12, <2>4, <3>1, <3>2 DEF AllMarks
  <2>11. a \o (b \o m) = (a \o (c \o e)) \o (q \o m)
    <3> DEFINE d == c \o e
               n == q \o m
    <3>1. d \in Seq(Entries) /\ n \in Seq(Entries)
      BY <2>9
    <3>2. c \o (e \o q) = d \o q
      BY <2>2, <2>3, <2>4, ConcatAssociative
    <3> HIDE DEF d
    <3>3. (d \o q) \o m = d \o n
      BY <1>12, <2>4, <3>1, ConcatAssociative
    <3> HIDE DEF n
    <3>4. a \o (d \o n) = (a \o d) \o n
      BY <1>10, <3>1, ConcatAssociative
    <3>5. a \o (b \o m) = (a \o d) \o n
      BY <2>6, <3>2, <3>3, <3>4
    <3> QED
      BY <3>5 DEF d, n
  <2>12. LET t == a \o (c \o e) IN t[Len(t)].kind # "mark"
    <3> DEFINE d == c \o e
    <3>1. d \in Seq(Entries) /\ Len(d) = Len(c) + 1 /\ d[Len(d)] = e[1] /\ Len(d) \in Nat \ {0}
      <4>1. d \in Seq(Entries) /\ Len(d) = Len(c) + Len(e) /\ Len(c) \in Nat
        BY <2>2, <2>3
      <4>2. \A i \in 1..Len(e) : d[Len(c) + i] = e[i]
        BY <2>2, <2>3, TwoLists
      <4>3. 1 \in 1..Len(e)
        BY <2>5
      <4> HIDE DEF d
      <4> QED
        BY <2>5, <4>1, <4>2, <4>3
    <3> HIDE DEF d
    <3>2. Len(a \o d) = Len(a) + Len(d) /\ (a \o d)[Len(a \o d)] = d[Len(d)]
      BY <1>10, <3>1
    <3> QED
      BY <2>5, <3>1, <3>2 DEF d
  <2>13. WithoutTrailingMarks((a \o (c \o e)) \o (q \o m)) = a \o (c \o e)
    <3> DEFINE t == a \o (c \o e)
               n == q \o m
    <3>1. t \in Seq(Entries) /\ n \in Seq(Entries) /\ AllMarks(n) /\ t[Len(t)].kind # "mark"
      BY <2>9, <2>10, <2>12
    <3> HIDE DEF t, n
    <3>2. WithoutTrailingMarks(t \o n) = t
      BY <3>1, TrailingMarks
    <3> QED
      BY <3>2 DEF t, n
  <2> QED
    BY <1>8, <1>13, <2>7, <2>8, <2>11, <2>13
<1> QED
  BY <1>14, <1>15

\* A step that moves nothing leaves the loop where it is.
LEMMA StayStep ==
  ASSUME UNCHANGED <<hint, data, hintPos, dataPos, lastSpecStart, lastSpecConsumesByte, spec,
                     repeatCount, r, result>>
  PROVE  /\ \A g : Between(g) => Between(g)'
         /\ \A g, s, p : InGroup(g, s, p) => InGroup(g, s, p)'
         /\ EndsInCount' <=> EndsInCount
<1>1. \A g : Between(g) => Between(g)'
  BY Same DEF Between
<1>2. ASSUME NEW g, NEW s, NEW p, InGroup(g, s, p) PROVE InGroup(g, s, p)'
  <2>1. ShownOf(s, p)' = ShownOf(s, p)
    <3>1. ChunkOf(s, p, r)' = ChunkOf(s, p, r)
      BY DEF ChunkOf, UpTo, Body
    <3> QED
      BY <3>1, Same DEF ShownOf, MoreData
  <2>2. UpTo(s, p, r)' = UpTo(s, p, r)
    BY DEF UpTo, Body
  <2>3. \A c \in 1..r : IsShown(s, p, c)
    BY <1>2 DEF InGroup
  <2> QED
    BY <1>2, <2>1, <2>2, <2>3, Same DEF InGroup
<1>3. EndsInCount' <=> EndsInCount
  BY DEF EndsInCount
<1> QED
  BY <1>1, <1>2, <1>3

\* The loop begins before the first group.
LEMMA ExplainedInit == Init => Explained
<1> SUFFICES ASSUME Init, IsReadable
             PROVE  status = "spec" /\ MoreData /\ Between(1)
  BY DEF Explained
<1>1. GoodList /\ GoodData
  BY ReadableList DEF Init
<1>2. MoreData
  BY <1>1 DEF Init, MoreData, GoodData
<1>3. hint # <<>>
  <2>1. 1 \in 1..Len(Reading) /\ Len(Reading) \in Nat /\ 0 \in 0..Len(Reading) /\ 1 \in 0..Len(Reading) /\ 1 - 1 = 0
    BY <1>1 DEF GoodList
  <2>2. Len(Written(Reading[1])) \in Nat \ {0}
    BY <1>1, <2>1, WrittenLength DEF GoodList
  <2>3. SpecStarts[1] = SpecStarts[0] + Len(Written(Reading[1])) /\ SpecStarts[0] = 0
    BY <1>1, <2>1, PiecesFacts
  <2>4. hint \in Seq(Chars) /\ SpecStarts \in [0..Len(Reading) -> 0..Len(hint)]
    BY <1>1, PiecesFacts
  <2>5. SpecStarts[1] \in 0..Len(hint)
    BY <2>1, <2>4
  <2>6. Len(hint) # 0
    BY <2>2, <2>3, <2>4, <2>5
  <2> QED
    BY <2>6
<1>4. status = "spec"
  BY <1>3 DEF Init, IsReadable
<1>5. Between(1)
  <2>1. 1 - 1 = 0 /\ Len(Reading) \in Nat \ {0} /\ Place(0) = 0
    BY <1>1 DEF GoodList, Place
  <2>2. Used[0] = 0 /\ SpecStarts[0] = 0 /\ JoinTo(Texts, 0) = <<>>
    BY <1>1, UsedFacts, PiecesFacts, GroupsJoin
  <2>3. Displayed(0)
    BY DEF Displayed
  <2> QED
    BY <2>1, <2>2, <2>3 DEF Init, Between
<1> QED
  BY <1>2, <1>4, <1>5

\* Every step takes it to the next place in the reference.
LEMMA ExplainedStep == TypeOK /\ Explained /\ [Next]_vars => Explained'
<1> SUFFICES ASSUME TypeOK, Explained, [Next]_vars, IsReadable'
             PROVE  /\ status' = "spec" /\ MoreData' => \E g : Between(g)'
                    /\ status' = "apply" \/ (status' = "spec" /\ ~MoreData') => \E g, s, p : InGroup(g, s, p)'
                    /\ status' = "ok" =>
                         (Reference = IF EndsInCount THEN WithoutTrailingMarks(result) ELSE result)'
                    /\ status' = "failed" => (Reference = Failure)'
  BY DEF Explained
<1> USE DEF vars
<1>1. hint' = hint /\ data' = data
  BY DEF Next, ParseSpec, ParseError, Apply, ChunkTooLong, EndGroup, Return, Returned
<1>2. IsReadable /\ Reference' = Reference
  BY <1>1, Same
<1>3. GoodList /\ GoodData
  BY <1>2, ReadableList DEF TypeOK
<1>4. /\ status = "spec" /\ MoreData => \E g : Between(g)
      /\ status = "apply" \/ (status = "spec" /\ ~MoreData) => \E g, s, p : InGroup(g, s, p)
      /\ status = "ok" => Reference = IF EndsInCount THEN WithoutTrailingMarks(result) ELSE result
      /\ status = "failed" => Reference = Failure
  BY <1>2 DEF Explained
<1>5. CASE ParseSpec
  <2>1. PICK g : Between(g)
    BY <1>4, <1>5 DEF ParseSpec
  <2>2. \E s, p : InGroup(g, s, p)'
    BY <1>3, <1>5, <2>1, ReadStep
  <2>3. status' = "apply"
    BY <1>5 DEF ParseSpec
  <2> QED
    BY <2>2, <2>3
<1>6. CASE ParseError
  <2>1. status = "spec" /\ MoreData /\ (Stuck \/ ~IsValid(SpecAt(SpecStart))) /\ status' = "failed"
    BY <1>6 DEF ParseError
  <2>2. PICK g : Between(g)
    BY <1>4, <2>1
  <2>3. g \in 1..MaxGroups /\ (Stuck => Fails(g)) /\ IsValid(SpecAt(SpecStart))
    BY <1>3, <2>1, <2>2, Located
  <2>4. Reference = Failure
    BY <2>1, <2>3 DEF Reference
  <2> QED
    BY <1>2, <2>1, <2>4
<1>7. CASE Apply
  <2>1. status = "apply" /\ status' = "apply"
    BY <1>7 DEF Apply, Applying
  <2>2. PICK g, s, p : InGroup(g, s, p)
    BY <1>4, <2>1
  <2>3. InGroup(g, s, p)'
    BY <1>3, <1>7, <2>2, ApplyStep
  <2> QED
    BY <2>1, <2>3
<1>8. CASE ChunkTooLong
  <2>1. status = "apply" /\ status' = "failed"
    BY <1>8 DEF ChunkTooLong, Applying
  <2>2. PICK g, s, p : InGroup(g, s, p)
    BY <1>4, <2>1
  <2>3. Reference = Failure
    BY <1>3, <1>8, <2>2, TooLongStep
  <2> QED
    BY <1>2, <2>1, <2>3
<1>9. CASE EndGroup
  <2>1. status = "apply" /\ status' = "spec" /\ (MoreData' <=> MoreData)
    BY <1>9 DEF EndGroup, MoreData
  <2>2. PICK g, s, p : InGroup(g, s, p)
    BY <1>4, <2>1
  <2>3. CASE MoreData
    <3>1. Between(g + 1)'
      BY <1>3, <1>9, <2>2, <2>3, EndStep
    <3> QED
      BY <2>1, <2>3, <3>1
  <2>4. CASE ~MoreData
    <3>1. InGroup(g, s, p)'
      BY <1>9, <2>2, <2>4, StayStep DEF EndGroup
    <3> QED
      BY <2>1, <2>4, <3>1
  <2> QED
    BY <2>3, <2>4
<1>10. CASE Return
  <2>1. status = "spec" /\ ~MoreData /\ status' = "ok"
    BY <1>10 DEF Return
  <2>2. PICK g, s, p : InGroup(g, s, p)
    BY <1>4, <2>1
  <2>3. Reference = IF EndsInCount THEN WithoutTrailingMarks(result) ELSE result
    BY <1>3, <2>1, <2>2, ReturnStep
  <2>4. result' = result /\ (EndsInCount' <=> EndsInCount)
    BY <1>10, StayStep DEF Return
  <2> QED
    BY <1>2, <2>1, <2>3, <2>4
<1>11. CASE Returned \/ UNCHANGED vars
  <2>1. UNCHANGED vars
    BY <1>11 DEF Returned
  <2>2. status' = status /\ result' = result /\ (EndsInCount' <=> EndsInCount) /\ (MoreData' <=> MoreData)
    BY <2>1, StayStep DEF MoreData
  <2>3. (\A g : Between(g) => Between(g)') /\ (\A g, s, p : InGroup(g, s, p) => InGroup(g, s, p)')
    BY <2>1, StayStep
  <2>4. status' = "spec" /\ MoreData' => \E g : Between(g)'
    BY <1>4, <2>2, <2>3
  <2>5. status' = "apply" \/ (status' = "spec" /\ ~MoreData') => \E g, s, p : InGroup(g, s, p)'
    BY <1>4, <2>2, <2>3
  <2> QED
    BY <1>2, <1>4, <2>2, <2>4, <2>5
<1> QED
  BY <1>5, <1>6, <1>7, <1>8, <1>9, <1>10, <1>11 DEF Next

\* The parser and the printing loop together display what RFC 2579 says, for any
\* list of specifications whose octet counts fit an int and any value that does not
\* end in a repeat count, or fail where the list has no meaning for the value.
THEOREM MeansWhatIsSpecified == Spec => []AsSpecified
<1>1. Explained => AsSpecified
  BY DEF Explained, AsSpecified, IsReadable
<1>2. Init => Explained
  BY ExplainedInit
<1>3. TypeOK /\ Explained /\ [Next]_vars => Explained'
  BY ExplainedStep
<1> QED
  BY <1>1, <1>2, <1>3, TypeCorrect, PTL DEF Spec
=============================================================================
