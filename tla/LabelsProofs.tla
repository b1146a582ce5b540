----------------------------- MODULE LabelsProofs -----------------------------
(* Proofs about Labels, for all metrics, PDUs and tables of PDUs.              *)
EXTENDS LabelsReference, DataLemmas, FiniteSetTheorems

-----------------------------------------------------------------------------
(* Samples: they are made in the last step, from labels that no longer change *)

\* Nothing is emitted before the last step.
EmittedLast == phase # "done" => samples = {}
DuplicateInv == EmittedLast /\ NoDuplicateLabelButSets
DistinctInv == EmittedLast /\ SeriesDistinct

\* The steps before the last.
LEMMA BeforeSamples ==
  ASSUME Next, EmittedLast
  PROVE  \/ PduToSamples
         \/ input' = input /\ samples' = samples /\ phase' # "done" /\ samples = {}
         \/ UNCHANGED vars
<1>1. CASE DecodeIndex
  BY <1>1 DEF DecodeIndex, EmittedLast
<1>2. CASE IndexesDone
  BY <1>2 DEF IndexesDone, EmittedLast
<1>3. CASE DropLabel \/ LookupFound \/ LookupMissing
  BY <1>3 DEF DropLabel, LookupFound, LookupMissing, LookingUp, EmittedLast
<1>4. CASE LookupsDone
  BY <1>4 DEF LookupsDone, EmittedLast
<1>5. CASE UnknownIndexType
  BY <1>5 DEF UnknownIndexType, Unknown, LookingUp, EmittedLast
<1>6. CASE Done
  BY <1>6 DEF Done
<1> QED
  BY <1>1, <1>2, <1>3, <1>4, <1>5, <1>6 DEF Next

\* A label named after the metric is not added to labels that have it.
LEMMA NoDuplicateStep == ASSUME PduToSamples PROVE NoDuplicateLabelButSets'
<1>1. UNCHANGED <<input, labels>> /\ metric' = metric
  BY DEF PduToSamples, metric
<1> SUFFICES ASSUME metric.type \notin {"EnumAsStateSet", "Bits"}, NEW s \in samples', s.own # {}
             PROVE  metric.name \notin DOMAIN s.labels
  BY <1>1 DEF NoDuplicateLabelButSets, NoDuplicateLabel
<1>2. CASE EmitValue
  BY <1>2 DEF EmitValue, Sample
<1>3. CASE EmitEnumAsInfo
  BY <1>3 DEF EmitEnumAsInfo, Sample, NameIsLabel
<1>4. CASE EmitEnumAsStateSet \/ EmitBits
  BY <1>4 DEF EmitEnumAsStateSet, EmitBits
<1>5. CASE EmitString
  BY <1>5 DEF EmitString, Sample, NameIsLabel
<1>6. CASE EmitExtracts
  BY <1>6 DEF EmitExtracts, Sample
<1> QED
  BY <1>2, <1>3, <1>4, <1>5, <1>6 DEF PduToSamples

\* Prometheus accepts the labels of every sample: none has the label named
\* after the metric twice, whatever indexes and lookups are called.
THEOREM LabelsUnique == Spec => []NoDuplicateLabelButSets
<1>1. Init => DuplicateInv
  BY DEF Init, DuplicateInv, EmittedLast, NoDuplicateLabelButSets, NoDuplicateLabel
<1>2. DuplicateInv /\ [Next]_vars => DuplicateInv'
  <2> SUFFICES ASSUME DuplicateInv, [Next]_vars PROVE DuplicateInv'
    OBVIOUS
  <2>1. CASE PduToSamples
    BY <2>1, NoDuplicateStep DEF PduToSamples, DuplicateInv, EmittedLast
  <2>2. CASE input' = input /\ samples' = samples /\ phase' # "done" /\ samples = {}
    BY <2>2 DEF DuplicateInv, EmittedLast, NoDuplicateLabelButSets, NoDuplicateLabel
  <2>3. CASE UNCHANGED vars
    BY <2>3 DEF vars, DuplicateInv, EmittedLast, NoDuplicateLabelButSets, NoDuplicateLabel, metric
  <2> QED
    BY <2>1, <2>2, <2>3, BeforeSamples DEF DuplicateInv
<1>3. DuplicateInv => NoDuplicateLabelButSets
  BY DEF DuplicateInv
<1> QED
  BY <1>1, <1>2, <1>3, PTL DEF Spec

\* Two states have two texts.
LEMMA StatesDiffer ==
  ASSUME NEW j, NEW k, j # k, j \in metric.enumValues \/ k \in metric.enumValues
  PROVE  State(j) # State(k)
<1>1. <<j>> # <<k>>
  OBVIOUS
<1>2. State(j).of = <<j>> /\ State(k).of = <<k>>
  BY DEF State, Enum, Decimal
<1> QED
  BY <1>1, <1>2

Distinct(some) == \A s, t \in some : s # t => <<s.name, s.labels, s.own>> # <<t.name, t.labels, t.own>>

\* The samples of states, each with its own text.
LEMMA StatesDistinct ==
  ASSUME NEW some, NEW K, NEW value,
         \A k \in K : \A j \in K : j # k => State(j) # State(k),
         some = {Sample(metric.name, {State(k)}, value[k]) : k \in K}
  PROVE  Distinct(some)
<1> SUFFICES ASSUME NEW j \in K, NEW k \in K,
                    Sample(metric.name, {State(j)}, value[j]) # Sample(metric.name, {State(k)}, value[k])
             PROVE  State(j) # State(k)
  BY DEF Distinct, Sample
<1> QED
  BY DEF Sample

LEMMA DistinctStep == ASSUME PduToSamples PROVE SeriesDistinct'
<1>1. UNCHANGED <<input, labels>> /\ metric' = metric /\ phase' = "done"
  BY DEF PduToSamples, metric
<1> DEFINE n == IntegerOf(input.pdu)
           Current == Sample(metric.name, {State(n)}, 1)
<1>2. ASSUME EmitEnumAsStateSet
      PROVE  Distinct(samples') /\ Cardinality({s \in samples' : s.value = 1}) = 1
  <2> DEFINE K == metric.enumValues \cup {n}
             value == [k \in K |-> IF k = n THEN 1 ELSE 0]
  <2>1. samples' = {Sample(metric.name, {State(n)}, 1)} \cup
                   {Sample(metric.name, {State(k)}, 0) : k \in metric.enumValues \ {n}}
    BY <1>2 DEF EmitEnumAsStateSet, Others
  <2>2. samples' = {Sample(metric.name, {State(k)}, value[k]) : k \in K}
    BY <2>1
  <2>3. \A j, k \in K : j # k => State(j) # State(k)
    BY StatesDiffer
  <2>4. Distinct(samples')
    <3> HIDE DEF K, value
    <3> QED
      BY <2>2, <2>3, StatesDistinct
  <2>5. {s \in samples' : s.value = 1} = {Current}
    BY <2>1 DEF Sample
  <2> QED
    BY <2>4, <2>5, FS_Singleton
<1>3. ASSUME EmitBits PROVE Distinct(samples')
  <2>1. CASE input.pdu.kind # "octets"
    BY <1>3, <2>1 DEF EmitBits, Sample, Distinct
  <2>2. CASE input.pdu.kind = "octets"
    <3> DEFINE K == metric.enumValues
               value == [k \in K |-> Bit(input.pdu.of, k)]
    <3>1. samples' = {Sample(metric.name, {State(k)}, value[k]) : k \in K}
      BY <1>3, <2>2 DEF EmitBits
    <3>2. \A j, k \in K : j # k => State(j) # State(k)
      BY StatesDiffer
    <3> HIDE DEF K, value
    <3> QED
      BY <3>1, <3>2, StatesDistinct
  <2> QED
    BY <2>1, <2>2
<1>4. ASSUME EmitValue \/ EmitEnumAsInfo \/ EmitString PROVE Distinct(samples')
  BY <1>4 DEF EmitValue, EmitEnumAsInfo, EmitString, Distinct
<1>5. ASSUME EmitExtracts PROVE Distinct(samples')
  BY <1>5 DEF EmitExtracts, Sample, Distinct
<1>6. metric.type = "EnumAsStateSet" => EmitEnumAsStateSet
  BY DEF PduToSamples, EmitValue, EmitEnumAsInfo, EmitBits, EmitString, EmitExtracts,
         Measured, Dates, IsString
<1>7. Distinct(samples')
  BY <1>2, <1>3, <1>4, <1>5 DEF PduToSamples
<1> QED
  BY <1>1, <1>2, <1>6, <1>7 DEF SeriesDistinct, Distinct

\* Samples of one PDU never collide, and of a state set exactly one state is
\* current, also when the agent reports a number without a name.
THEOREM SeriesUnique == Spec => []SeriesDistinct
<1>1. Init => DistinctInv
  BY DEF Init, DistinctInv, EmittedLast, SeriesDistinct
<1>2. DistinctInv /\ [Next]_vars => DistinctInv'
  <2> SUFFICES ASSUME DistinctInv, [Next]_vars PROVE DistinctInv'
    OBVIOUS
  <2>1. CASE PduToSamples
    BY <2>1, DistinctStep DEF PduToSamples, DistinctInv, EmittedLast
  <2>2. CASE input' = input /\ samples' = samples /\ phase' # "done" /\ samples = {}
    BY <2>2 DEF DistinctInv, EmittedLast, SeriesDistinct
  <2>3. CASE UNCHANGED vars
    BY <2>3 DEF vars, DistinctInv, EmittedLast, SeriesDistinct, metric
  <2> QED
    BY <2>1, <2>2, <2>3, BeforeSamples DEF DistinctInv
<1>3. DistinctInv => SeriesDistinct
  BY DEF DistinctInv
<1> QED
  BY <1>1, <1>2, <1>3, PTL DEF Spec

-----------------------------------------------------------------------------
(* Decoding: some arcs are used, and what is left are arcs.                   *)

Forms == {"decimal", "name", "string", "OctetString"} \cup DOMAIN Addresses

LEMMA SplitType ==
  ASSUME NEW oid \in Seq(Nat), NEW count \in Nat
  PROVE  /\ splitOid(oid, count).head \in Seq(Nat) /\ Len(splitOid(oid, count).head) = count
         /\ splitOid(oid, count).tail \in Seq(Nat)
<1> DEFINE head == [i \in 1..count |-> IF i <= Len(oid) THEN oid[i] ELSE 0]
<1>1. head \in Seq(Nat) /\ Len(head) = count
  BY Z3
<1>2. SubSeq(oid, count + 1, Len(oid)) \in Seq(Nat)
  OBVIOUS
<1> QED
  BY <1>1, <1>2 DEF splitOid

\* What is decoded from arcs.
Decodes(d) == d.text.form \in Forms /\ d.used \in Seq(Nat) /\ d.used # <<>> /\ d.rest \in Seq(Nat)

LEMMA DecodedDecodes ==
  ASSUME NEW text, text.form \in Forms, NEW used \in Seq(Nat), used # <<>>, NEW rest \in Seq(Nat)
  PROVE  Decodes(Decoded(text, used, rest))
BY DEF Decodes, Decoded

LEMMA OctetsForm ==
  ASSUME NEW typ \in Strings \cup DOMAIN Addresses, NEW bytes
  PROVE  Octets(typ, bytes).form \in Forms
BY DEF Octets, EmptyText, Forms, Strings

LEMMA EnumForm ==
  ASSUME NEW n, NEW enumValues
  PROVE  Decimal(n).form \in Forms /\ Enum(enumValues, n).form \in Forms
BY DEF Enum, Decimal, Forms

LEMMA StringDecodes ==
  ASSUME NEW oid \in Seq(Nat), NEW typ \in Strings, NEW fixedSize \in Nat, NEW implied \in BOOLEAN,
         NEW enumValues
  PROVE  Decodes(StringIndex(oid, typ, fixedSize, implied, enumValues))
<1> DEFINE given == IF implied THEN Len(oid) ELSE fixedSize
           prefix == splitOid(oid, IF given = 0 THEN 1 ELSE 0)
           content == splitOid(prefix.tail, IF given = 0 THEN prefix.head[1] ELSE given)
<1>1. given \in Nat
  OBVIOUS
<1>2. /\ prefix.head \in Seq(Nat) /\ prefix.tail \in Seq(Nat)
      /\ Len(prefix.head) = IF given = 0 THEN 1 ELSE 0
  BY SplitType
<1>3. /\ content.head \in Seq(Nat) /\ content.tail \in Seq(Nat)
      /\ Len(content.head) = IF given = 0 THEN prefix.head[1] ELSE given
  <2>1. (IF given = 0 THEN prefix.head[1] ELSE given) \in Nat
    BY <1>1, <1>2
  <2> QED
    BY <1>2, <2>1, SplitType
<1>4. StringIndex(oid, typ, fixedSize, implied, enumValues) =
        Decoded(Octets(typ, [i \in DOMAIN content.head |-> content.head[i] % 256]),
                prefix.head \o content.head, content.tail)
  BY DEF StringIndex
<1> HIDE DEF given, prefix, content
<1>5. prefix.head \o content.head \in Seq(Nat) /\ prefix.head \o content.head # <<>>
  <2>1. Len(prefix.head \o content.head) = Len(prefix.head) + Len(content.head)
    BY <1>2, <1>3, ConcatProperties
  <2>2. Len(prefix.head) + Len(content.head) > 0
    BY <1>1, <1>2, <1>3
  <2>3. Len(<<>>) = 0
    OBVIOUS
  <2> QED
    BY <1>2, <1>3, <2>1, <2>2, <2>3
<1> QED
  BY <1>3, <1>4, <1>5, OctetsForm, DecodedDecodes

Simple == IndexTypes \ DOMAIN combinedTypeMapping
LEMMA SimpleDecodes ==
  ASSUME NEW oid \in Seq(Nat), NEW typ \in Simple, NEW fixedSize \in Nat, NEW implied \in BOOLEAN,
         NEW enumValues
  PROVE  Decodes(SimpleIndex(oid, typ, fixedSize, implied, enumValues))
<1> DEFINE s == splitOid(oid, IF typ \in DOMAIN Addresses THEN Addresses[typ] ELSE 1)
<1>1. s.head \in Seq(Nat) /\ s.head # <<>> /\ s.tail \in Seq(Nat)
  <2>1. (IF typ \in DOMAIN Addresses THEN Addresses[typ] ELSE 1) \in Nat \ {0}
    BY DEF Addresses
  <2>2. Len(s.head) # 0 /\ s.head \in Seq(Nat) /\ s.tail \in Seq(Nat)
    BY <2>1, SplitType
  <2> QED
    BY <2>2
<1>2. CASE typ \in Numbers
  <2>1. SimpleIndex(oid, typ, fixedSize, implied, enumValues) = Decoded(Decimal(s.head[1]), s.head, s.tail)
    BY <1>2 DEF SimpleIndex, Numbers, Addresses, Strings
  <2> HIDE DEF s
  <2> QED
    BY <1>1, <2>1, EnumForm, DecodedDecodes
<1>3. CASE typ = "EnumAsInfo"
  <2>1. SimpleIndex(oid, typ, fixedSize, implied, enumValues) =
          Decoded(Enum(enumValues, s.head[1]), s.head, s.tail)
    BY <1>3 DEF SimpleIndex, Numbers, Addresses, Strings
  <2> HIDE DEF s
  <2> QED
    BY <1>1, <2>1, EnumForm, DecodedDecodes
<1>4. CASE typ \in DOMAIN Addresses
  <2>1. SimpleIndex(oid, typ, fixedSize, implied, enumValues) = Decoded(Octets(typ, s.head), s.head, s.tail)
    BY <1>4 DEF SimpleIndex, Numbers, Addresses, Strings
  <2> HIDE DEF s
  <2> QED
    BY <1>1, <1>4, <2>1, OctetsForm, DecodedDecodes
<1>5. CASE typ \in Strings
  <2>1. SimpleIndex(oid, typ, fixedSize, implied, enumValues) =
          StringIndex(oid, typ, fixedSize, implied, enumValues)
    BY <1>5 DEF SimpleIndex, Numbers, Addresses, Strings
  <2> QED
    BY <1>5, <2>1, StringDecodes
<1> QED
  BY <1>2, <1>3, <1>4, <1>5 DEF Simple, IndexTypes, Combined

\* The subtypes of a combined type are simple.
LEMMA Subtypes ==
  ASSUME NEW typ \in Combined, NEW t \in DOMAIN combinedTypeMapping[typ]
  PROVE  combinedTypeMapping[typ][t] \in Simple
<1>1. CASE typ \in {"InetAddress", "InetAddressMissingSize"}
  <2>1. combinedTypeMapping[typ] =
          [u \in {1, 2} |-> IF u = 1 THEN "InetAddressIPv4" ELSE "InetAddressIPv6"]
    BY <1>1 DEF combinedTypeMapping
  <2>2. combinedTypeMapping[typ][t] \in {"InetAddressIPv4", "InetAddressIPv6"}
    BY <2>1
  <2> QED
    BY <2>2 DEF Simple, IndexTypes, Addresses, combinedTypeMapping
<1>2. CASE typ = "LldpPortId"
  <2>1. combinedTypeMapping[typ] =
          [u \in {1, 2, 3, 5, 7} |-> IF u = 3 THEN "PhysAddress48" ELSE "DisplayString"]
    BY <1>2 DEF combinedTypeMapping
  <2>2. combinedTypeMapping[typ][t] \in {"PhysAddress48", "DisplayString"}
    BY <2>1
  <2> QED
    BY <2>2 DEF Simple, IndexTypes, Addresses, Strings, combinedTypeMapping
<1>3. Combined = {"InetAddress", "InetAddressMissingSize", "LldpPortId"}
  BY DEF Combined, combinedTypeMapping
<1> QED
  BY <1>1, <1>2, <1>3

\* Whatever the arcs and the type of an index, what is decoded uses at least one
\* arc, and leaves arcs.
LEMMA IndexDecodes ==
  ASSUME NEW oid \in Seq(Nat), NEW typ \in IndexTypes, NEW fixedSize \in Nat, NEW implied \in BOOLEAN,
         NEW enumValues
  PROVE  Decodes(indexOidsAsString(oid, typ, fixedSize, implied, enumValues))
<1> DEFINE d == indexOidsAsString(oid, typ, fixedSize, implied, enumValues)
           front == splitOid(oid, IF typ = "InetAddressMissingSize" THEN 1 ELSE 2)
           subtype == front.head[1]
           value == SimpleIndex(front.tail, combinedTypeMapping[typ][subtype], 0, FALSE, enumValues)
<1>1. CASE typ \notin Combined
  <2>1. d = SimpleIndex(oid, typ, fixedSize, implied, enumValues)
    BY <1>1 DEF indexOidsAsString
  <2>2. typ \in Simple
    BY <1>1 DEF Simple, Combined
  <2> QED
    BY <2>1, <2>2, SimpleDecodes
<1>2. CASE typ \in Combined
  <2>1. /\ front.head \in Seq(Nat) /\ front.tail \in Seq(Nat)
        /\ Len(front.head) = IF typ = "InetAddressMissingSize" THEN 1 ELSE 2
    BY SplitType
  <2>2. "OctetString" \in Simple
    BY DEF Simple, IndexTypes, Strings, combinedTypeMapping
  <2>3. CASE subtype \in DOMAIN combinedTypeMapping[typ]
    <3>1. Decodes(value)
      BY <1>2, <2>1, <2>3, Subtypes, SimpleDecodes
    <3>2. d = Decoded(value.text, front.head \o value.used, value.rest)
      BY <1>2, <2>3 DEF indexOidsAsString
    <3> HIDE DEF value, front
    <3>3. front.head \o value.used \in Seq(Nat) /\ front.head \o value.used # <<>>
      <4>1. Len(front.head \o value.used) = Len(front.head) + Len(value.used)
        BY <2>1, <3>1, ConcatProperties DEF Decodes
      <4>2. Len(front.head) > 0 /\ Len(value.used) \in Nat /\ Len(<<>>) = 0
        BY <2>1, <3>1 DEF Decodes
      <4> QED
        BY <2>1, <3>1, <4>1, <4>2, ConcatProperties DEF Decodes
    <3> QED
      BY <3>1, <3>2, <3>3, DecodedDecodes DEF Decodes
  <2>4. CASE subtype \notin DOMAIN combinedTypeMapping[typ] /\ typ = "InetAddressMissingSize"
    <3>1. d = SimpleIndex(oid, "OctetString", 0, TRUE, enumValues)
      BY <1>2, <2>4 DEF indexOidsAsString
    <3> QED
      BY <2>2, <3>1, SimpleDecodes
  <2>5. CASE subtype \notin DOMAIN combinedTypeMapping[typ] /\ typ # "InetAddressMissingSize"
    <3>1. d = SimpleIndex(oid, "OctetString", front.head[2] + 2, FALSE, enumValues)
      BY <1>2, <2>5 DEF indexOidsAsString
    <3>2. front.head[2] + 2 \in Nat
      BY <2>1, <2>5
    <3> HIDE DEF front
    <3> QED
      BY <2>2, <3>1, <3>2, SimpleDecodes
  <2> QED
    BY <2>3, <2>4, <2>5
<1> QED
  BY <1>1, <1>2

LEMMA BytesAreArcs == ASSUME NEW bytes \in Seq(0..255) PROVE bytes \in Seq(Nat)
<1>1. 0..255 \subseteq Nat
  OBVIOUS
<1> QED
  BY <1>1, SeqOfSubset

\* The text of a value that can be shown.
LEMMA ValueForm ==
  ASSUME NEW value \in Values, NEW typ, CanShow(value, typ)
  PROVE  pduValueAsString(value, typ).form \in Forms
<1>1. CASE value.kind = "integer"
  BY <1>1, EnumForm DEF pduValueAsString
<1>2. CASE value.kind # "integer"
  <2> DEFINE t == IF typ \in {"", "Bits"} THEN "OctetString" ELSE typ
             oid == IF t \in Strings THEN <<Len(value.of)>> \o value.of ELSE value.of
  <2>1. value.of \in Seq(Nat) /\ Len(value.of) \in Nat
    <3>1. value.of \in Seq(0..255)
      BY <1>2 DEF Values
    <3> QED
      BY <3>1, BytesAreArcs
  <2>2. oid \in Seq(Nat)
    <3>1. <<Len(value.of)>> \in Seq(Nat)
      BY <2>1
    <3> QED
      BY <2>1, <3>1, ConcatProperties
  <2>3. t \in IndexTypes
    BY <1>2 DEF CanShow, IndexTypes, Strings
  <2>4. pduValueAsString(value, typ) = indexOidsAsString(oid, t, 0, FALSE, {}).text
    BY <1>2 DEF pduValueAsString
  <2> HIDE DEF t, oid
  <2> QED
    BY <2>2, <2>3, <2>4, IndexDecodes DEF Decodes
<1> QED
  BY <1>1, <1>2

-----------------------------------------------------------------------------
(* The type invariant                                                         *)

LEMMA PutValues ==
  ASSUME NEW f, NEW k, NEW v, NEW x \in DOMAIN Put(f, k, v)
  PROVE  Put(f, k, v)[x] = v \/ (x \in DOMAIN f /\ Put(f, k, v)[x] = f[x])
BY DEF Put

\* What the labels are.
LabelsOK ==
  /\ \A l \in DOMAIN labelOids : labelOids[l] \in Seq(Int) /\ labelOids[l] # <<>>
  /\ \A l \in DOMAIN labels : labels[l].form \in Forms

\* A label and its arcs are put in place of the ones it had.
LEMMA LabelPut ==
  ASSUME LabelsOK, NEW l, NEW text, text.form \in Forms, NEW oid, oid \in Seq(Int), oid # <<>>,
         labels' = Put(labels, l, text), labelOids' \in {labelOids, Put(labelOids, l, oid)}
  PROVE  LabelsOK'
BY PutValues DEF LabelsOK

LEMMA TypeStep == TypeOK /\ [Next]_vars => TypeOK'
<1> SUFFICES ASSUME TypeOK, [Next]_vars PROVE TypeOK'
  OBVIOUS
<1>0. /\ input \in Inputs /\ arcs \in Seq(Nat) /\ LabelsOK
      /\ metric.indexes \in Seq(Indexes) /\ metric.lookups \in Seq(Lookups)
      /\ Len(metric.indexes) \in Nat /\ Len(metric.lookups) \in Nat
      /\ \A oid \in DOMAIN oidToPdu : oidToPdu[oid] \in Values
  BY LabelsAssumption DEF TypeOK, LabelsOK, Forms, metric, oidToPdu
<1>1. CASE DecodeIndex
  <2> DEFINE index == metric.indexes[next]
             d == indexOidsAsString(arcs, index.type, index.fixedSize, index.implied, index.enumValues)
  <2>1. /\ phase = "indexes" /\ next <= Len(metric.indexes) /\ index.type \in IndexTypes
        /\ labels' = Put(labels, index.labelname, d.text)
        /\ labelOids' = Put(labelOids, index.labelname, d.used)
        /\ arcs' = d.rest /\ next' = next + 1 /\ UNCHANGED <<input, phase>>
    BY <1>1 DEF DecodeIndex, Rest
  <2>2. next \in 1..Len(metric.indexes)
    BY <1>0, <2>1 DEF TypeOK
  <2>3. index \in Indexes
    BY <1>0, <2>2, ElementOfSeq
  <2>4. Decodes(d)
    BY <1>0, <2>1, <2>3, IndexDecodes DEF Indexes
  <2> HIDE DEF d
  <2>5. LabelsOK'
    <3>1. d.used \in Seq(Int)
      BY <2>4, SeqOfSubset DEF Decodes
    <3> QED
      BY <1>0, <2>1, <2>4, <3>1, LabelPut DEF Decodes
  <2>6. next' \in 1..(1 + Len(metric.indexes))
    BY <1>0, <2>1, <2>2
  <2> QED
    BY <1>0, <2>1, <2>4, <2>5, <2>6 DEF TypeOK, LabelsOK, Forms, Decodes, metric
<1>2. CASE IndexesDone
  <2>1. phase' = "lookups" /\ next' = 1 /\ UNCHANGED <<input, arcs, labels, labelOids>>
    BY <1>2 DEF IndexesDone
  <2>2. 1 \in 1..(1 + Len(metric.lookups))
    BY <1>0
  <2> QED
    BY <1>0, <2>1, <2>2 DEF TypeOK, LabelsOK, Forms, metric
<1>3. ASSUME LookingUp, next' = next + 1, UNCHANGED <<input, phase, arcs>>, LabelsOK'
      PROVE  TypeOK'
  <2>1. next \in 1..Len(metric.lookups) /\ phase = "lookups"
    BY <1>0, <1>3 DEF LookingUp, TypeOK
  <2>2. next' \in 1..(1 + Len(metric.lookups))
    BY <1>0, <1>3, <2>1
  <2> QED
    BY <1>0, <1>3, <2>1, <2>2 DEF TypeOK, LabelsOK, Forms, metric
<1>4. CASE DropLabel
  <2>1. LabelsOK'
    BY <1>0, <1>4 DEF DropLabel, LabelsOK
  <2> QED
    BY <1>3, <1>4, <2>1 DEF DropLabel
<1>5. CASE LookupFound
  <2> DEFINE lookup == metric.lookups[next]
             value == oidToPdu[LookupOid(lookup)]
  <2>1. /\ LookupOid(lookup) \in DOMAIN oidToPdu /\ CanShow(value, LookupType(lookup))
        /\ labels' = Put(labels, lookup.labelname, LookupText(lookup, value))
        /\ labelOids' = Put(labelOids, lookup.labelname, <<IntegerOf(value)>>)
    BY <1>5 DEF LookupFound, ResultOid
  <2>2. value \in Values
    BY <1>0, <2>1
  <2> HIDE DEF value
  <2>3. IntegerOf(value) \in Int
    BY <2>2 DEF Values, IntegerOf
  <2>4. LookupText(lookup, value).form \in Forms
    BY <2>1, <2>2, ValueForm, EnumForm DEF LookupText
  <2>5. LabelsOK'
    <3>1. <<IntegerOf(value)>> \in Seq(Int) /\ <<IntegerOf(value)>> # <<>>
      BY <2>3
    <3> QED
      BY <1>0, <2>1, <2>4, <3>1, LabelPut
  <2> QED
    BY <1>3, <1>5, <2>5 DEF LookupFound
<1>6. CASE LookupMissing
  <2>1. labels' = Put(labels, metric.lookups[next].labelname, EmptyText) /\ labelOids' = labelOids
    BY <1>6 DEF LookupMissing
  <2>2. EmptyText.form \in Forms
    BY DEF EmptyText, Forms
  <2>3. LabelsOK'
    <3>1. <<0>> \in Seq(Int) /\ <<0>> # <<>>
      OBVIOUS
    <3> QED
      BY <1>0, <2>1, <2>2, <3>1, LabelPut
  <2> QED
    BY <1>3, <1>6, <2>3 DEF LookupMissing
<1>7. CASE LookupsDone
  <2>1. phase = "lookups" /\ phase' = "samples" /\ UNCHANGED <<input, next, arcs, labels, labelOids>>
    BY <1>7 DEF LookupsDone
  <2> QED
    BY <2>1 DEF TypeOK, metric
<1>8. CASE UnknownIndexType
  BY <1>8 DEF UnknownIndexType, TypeOK, metric
<1>9. CASE PduToSamples
  <2>1. phase = "samples" /\ phase' = "done" /\ UNCHANGED <<input, next, arcs, labels, labelOids>>
    BY <1>9 DEF PduToSamples
  <2> QED
    BY <2>1 DEF TypeOK, metric
<1>10. CASE UNCHANGED vars
  BY <1>10 DEF vars, TypeOK, metric
<1> QED
  BY <1>1, <1>2, <1>4, <1>5, <1>6, <1>7, <1>8, <1>9, <1>10 DEF Next, Done

LEMMA InitTypes == Init => TypeOK
<1> SUFFICES ASSUME Init PROVE TypeOK
  OBVIOUS
<1>1. input \in Inputs /\ phase = "indexes" /\ next = 1 /\ arcs = input.arcs /\ labels = <<>> /\ labelOids = <<>>
  BY DEF Init
<1>2. arcs \in Seq(Nat) /\ Len(metric.indexes) \in Nat
  BY <1>1, LabelsAssumption DEF metric
<1>3. DOMAIN labels = {} /\ DOMAIN labelOids = {}
  BY <1>1
<1>4. next \in 1..(1 + Len(metric.indexes))
  BY <1>1, <1>2
<1> QED
  BY <1>1, <1>2, <1>3, <1>4 DEF TypeOK

\* Decoding and lookups never leave the lists of the metric, never run out of
\* arcs, and every label has arcs that lookups can use, whatever the agent sent.
THEOREM TypeCorrect == Spec => []TypeOK
  BY InitTypes, TypeStep, PTL DEF Spec

-----------------------------------------------------------------------------
(* Decoding is the inverse of encoding                                        *)

\* The arcs of oid after the first n, and whether oid begins with e when the
\* zeros at its end are put back.
After(oid, n) == SubSeq(oid, n + 1, Len(oid))
BeginsWith(oid, e) == \A i \in 1..Len(e) : e[i] = IF i <= Len(oid) THEN oid[i] ELSE 0

\* splitOid takes off what the arcs begin with.
LEMMA SplitOff ==
  ASSUME NEW oid \in Seq(Nat), NEW e \in Seq(Nat), BeginsWith(oid, e)
  PROVE  splitOid(oid, Len(e)).head = e /\ splitOid(oid, Len(e)).tail = After(oid, Len(e))
<1> DEFINE head == [i \in 1..Len(e) |-> IF i <= Len(oid) THEN oid[i] ELSE 0]
<1>1. e = [i \in 1..Len(e) |-> e[i]]
  OBVIOUS
<1>2. head = e
  <2>1. \A i \in 1..Len(e) : head[i] = e[i]
    BY DEF BeginsWith
  <2> QED
    BY <1>1, <2>1
<1> QED
  BY <1>2 DEF splitOid, After

LEMMA AfterType == ASSUME NEW oid \in Seq(Nat), NEW n \in Nat PROVE After(oid, n) \in Seq(Nat)
BY DEF After

LEMMA AfterList ==
  ASSUME NEW oid \in Seq(Nat), NEW n \in Nat, n + 1 <= Len(oid)
  PROVE  /\ After(oid, n) = [i \in 1..(Len(oid) - n) |-> oid[n + i]]
         /\ Len(After(oid, n)) = Len(oid) - n
         /\ \A i \in 1..(Len(oid) - n) : After(oid, n)[i] = oid[n + i]
<1>1. Len(oid) \in Nat /\ Len(oid) - n \in Nat
  OBVIOUS
<1>2. /\ Len(After(oid, n)) = Len(oid) - n /\ After(oid, n) \in Seq(Nat)
      /\ \A i \in 1..(Len(oid) - n) : After(oid, n)[i] = oid[(n + 1) + i - 1]
  BY <1>1, SubSeqProperties DEF After
<1>3. \A i \in 1..(Len(oid) - n) : (n + 1) + i - 1 = n + i
  OBVIOUS
<1>4. \A i \in 1..(Len(oid) - n) : After(oid, n)[i] = oid[n + i]
  BY <1>2, <1>3
<1>5. After(oid, n) = [i \in 1..Len(After(oid, n)) |-> After(oid, n)[i]]
  BY <1>2
<1> QED
  BY <1>2, <1>4, <1>5

\* Element i of what comes after the first n.
LEMMA AfterElement ==
  ASSUME NEW oid \in Seq(Nat), NEW n \in Nat, NEW i \in Nat \ {0}
  PROVE  (IF i <= Len(After(oid, n)) THEN After(oid, n)[i] ELSE 0)
           = (IF n + i <= Len(oid) THEN oid[n + i] ELSE 0)
<1>1. Len(oid) \in Nat
  OBVIOUS
<1>2. CASE n + 1 <= Len(oid)
  <2>1. Len(After(oid, n)) = Len(oid) - n
    BY <1>2, AfterList
  <2>2. i <= Len(oid) - n => After(oid, n)[i] = oid[n + i]
    BY <1>1, <1>2, AfterList
  <2> QED
    BY <1>1, <2>1, <2>2
<1>3. CASE ~(n + 1 <= Len(oid))
  <2>1. After(oid, n) = <<>>
    BY <1>1, <1>3 DEF After
  <2> QED
    BY <1>1, <1>3, <2>1
<1> QED
  BY <1>2, <1>3

\* What comes after the first m of what comes after the first n.
LEMMA AfterAfter ==
  ASSUME NEW oid \in Seq(Nat), NEW n \in Nat, NEW m \in Nat
  PROVE  After(After(oid, n), m) = After(oid, n + m)
<1>1. Len(oid) \in Nat
  OBVIOUS
<1>2. CASE n + m + 1 <= Len(oid)
  <2>1. Len(After(oid, n)) = Len(oid) - n /\ \A i \in 1..(Len(oid) - n) : After(oid, n)[i] = oid[n + i]
    <3>1. n + 1 <= Len(oid)
      BY <1>1, <1>2
    <3> QED
      BY <3>1, AfterList
  <2>2. After(After(oid, n), m) = [i \in 1..(Len(oid) - n - m) |-> After(oid, n)[m + i]]
    <3>1. m + 1 <= Len(After(oid, n)) /\ After(oid, n) \in Seq(Nat) /\ Len(After(oid, n)) - m = Len(oid) - n - m
      BY <1>1, <1>2, <2>1, AfterType
    <3> DEFINE rest == After(oid, n)
    <3> HIDE DEF rest
    <3>2. After(rest, m) = [i \in 1..(Len(rest) - m) |-> rest[m + i]]
      <4>1. rest \in Seq(Nat) /\ m + 1 <= Len(rest)
        BY <3>1 DEF rest
      <4> QED
        BY <4>1, AfterList
    <3>3. Len(rest) - m = Len(oid) - n - m
      BY <3>1 DEF rest
    <3>4. After(rest, m) = [i \in 1..(Len(oid) - n - m) |-> rest[m + i]]
      BY <3>2, <3>3, Zenon
    <3> QED
      BY <3>4 DEF rest
  <2>3. After(oid, n + m) = [i \in 1..(Len(oid) - n - m) |-> oid[n + m + i]]
    <3>1. (n + m) + 1 <= Len(oid) /\ n + m \in Nat /\ Len(oid) - (n + m) = Len(oid) - n - m
      BY <1>1, <1>2
    <3> QED
      BY <3>1, AfterList
  <2>4. \A i \in 1..(Len(oid) - n - m) : m + i \in 1..(Len(oid) - n) /\ n + (m + i) = n + m + i
    BY <1>1, <1>2
  <2> QED
    BY <2>1, <2>2, <2>3, <2>4
<1>3. CASE ~(n + m + 1 <= Len(oid))
  <2>1. After(oid, n + m) = <<>>
    BY <1>1, <1>3 DEF After
  <2>2. Len(After(oid, n)) <= m
    BY <1>1, <1>3 DEF After
  <2>3. After(After(oid, n), m) = <<>>
    BY <2>2, AfterType DEF After
  <2> QED
    BY <2>1, <2>3
<1> QED
  BY <1>2, <1>3

\* Arcs that begin with p and then q.
LEMMA BeginsWithBoth ==
  ASSUME NEW oid \in Seq(Nat), NEW p \in Seq(Nat), NEW q \in Seq(Nat), BeginsWith(oid, p \o q)
  PROVE  /\ BeginsWith(oid, p) /\ BeginsWith(After(oid, Len(p)), q)
         /\ After(After(oid, Len(p)), Len(q)) = After(oid, Len(p \o q))
<1>1. /\ Len(p) \in Nat /\ Len(q) \in Nat /\ Len(p \o q) = Len(p) + Len(q)
      /\ \A i \in 1..Len(p) : (p \o q)[i] = p[i]
      /\ \A i \in 1..Len(q) : (p \o q)[Len(p) + i] = q[i]
  OBVIOUS
<1>2. BeginsWith(oid, p)
  <2>1. \A i \in 1..Len(p) : i \in 1..Len(p \o q)
    BY <1>1
  <2> QED
    BY <1>1, <2>1 DEF BeginsWith
<1>3. ASSUME NEW i \in 1..Len(q)
      PROVE  q[i] = IF i <= Len(After(oid, Len(p))) THEN After(oid, Len(p))[i] ELSE 0
  <2>1. Len(p) + i \in 1..Len(p \o q) /\ i \in Nat \ {0}
    BY <1>1
  <2>2. (p \o q)[Len(p) + i] = IF Len(p) + i <= Len(oid) THEN oid[Len(p) + i] ELSE 0
    BY <2>1 DEF BeginsWith
  <2> QED
    BY <1>1, <2>1, <2>2, AfterElement
<1>4. BeginsWith(After(oid, Len(p)), q)
  BY <1>3 DEF BeginsWith
<1> QED
  BY <1>1, <1>2, <1>4, AfterAfter

\* What is shown is text, what is used is e, and what is left comes after it.
TakesOff(d, text, oid, e) ==
  d.text = text /\ d.rest = After(oid, Len(e)) /\ (e # <<>> => d.used = e)

Result(d, text, used, rest) == d.text = text /\ d.used = used /\ d.rest = rest

LEMMA ShownOctets ==
  ASSUME NEW octets \in Seq(0..255)
  PROVE  [i \in DOMAIN octets |-> octets[i] % 256] = octets
<1>1. octets = [i \in DOMAIN octets |-> octets[i]]
  OBVIOUS
<1>2. \A i \in DOMAIN octets : octets[i] \in 0..255
  <2>1. DOMAIN octets = 1..Len(octets)
    OBVIOUS
  <2> QED
    BY <2>1, ElementOfSeq
<1>3. \A b \in 0..255 : b % 256 = b
  OBVIOUS
<1> QED
  BY <1>1, <1>2, <1>3

\* All that is left, a fixed size, or a size in front.
LEMMA StringTakenOff ==
  ASSUME NEW oid \in Seq(Nat), NEW typ \in Strings, NEW fixedSize \in Nat, NEW implied \in BOOLEAN,
         NEW enumValues, NEW octets \in Seq(0..255),
         implied => oid = octets,
         ~implied /\ fixedSize > 0 => Len(octets) = fixedSize,
         NEW e, e = IF implied \/ fixedSize > 0 THEN octets ELSE <<Len(octets)>> \o octets,
         BeginsWith(oid, e)
  PROVE  TakesOff(StringIndex(oid, typ, fixedSize, implied, enumValues), Octets(typ, octets), oid, e)
<1> DEFINE d == StringIndex(oid, typ, fixedSize, implied, enumValues)
           given == IF implied THEN Len(oid) ELSE fixedSize
           prefix == splitOid(oid, IF given = 0 THEN 1 ELSE 0)
           content == splitOid(prefix.tail, IF given = 0 THEN prefix.head[1] ELSE given)
           shown == Octets(typ, [i \in DOMAIN content.head |-> content.head[i] % 256])
<1>1. octets \in Seq(Nat) /\ Len(octets) \in Nat /\ Len(oid) \in Nat /\ <<>> \in Seq(Nat) /\ Len(<<>>) = 0
  BY BytesAreArcs
<1>2. d.text = shown /\ d.rest = content.tail /\ d.used = prefix.head \o content.head
  BY DEF StringIndex, Decoded
<1>3. CASE given > 0
  <2>1. BeginsWith(oid, octets) /\ Len(octets) = given /\ (implied \/ fixedSize > 0)
    BY <1>1, <1>3
  <2>2. prefix.tail = oid /\ prefix.head = <<>>
    <3>1. BeginsWith(oid, <<>>)
      BY DEF BeginsWith
    <3>2. prefix = splitOid(oid, Len(<<>>))
      BY <1>1, <1>3
    <3> HIDE DEF prefix
    <3>3. prefix.tail = After(oid, Len(<<>>)) /\ prefix.head = <<>>
      BY <1>1, <3>1, <3>2, SplitOff
    <3>4. After(oid, 0) = oid
      BY SubSeqFull DEF After
    <3> QED
      BY <1>1, <3>3, <3>4
  <2>3. content.head = octets /\ content.tail = After(oid, Len(octets))
    <3>1. content = splitOid(oid, Len(octets))
      BY <1>3, <2>1, <2>2
    <3> QED
      BY <1>1, <2>1, <3>1, SplitOff
  <2>4. shown = Octets(typ, octets)
    <3> HIDE DEF content
    <3>1. shown = Octets(typ, [i \in DOMAIN octets |-> octets[i] % 256])
      BY <2>3, Zenon
    <3> QED
      BY <3>1, ShownOctets, Zenon
  <2>5. <<>> \o octets = octets
    BY <1>1
  <2> HIDE DEF content, prefix, d
  <2>6. d.used = octets
    BY <1>2, <2>2, <2>3, <2>5
  <2> QED
    BY <1>2, <2>1, <2>3, <2>4, <2>6 DEF TakesOff, d
<1>4. CASE given = 0 /\ ~implied
  <2> DEFINE size == <<Len(octets)>>
  <2>1. size \in Seq(Nat) /\ Len(size) = 1 /\ size[1] = Len(octets)
    BY <1>1
  <2>2. BeginsWith(oid, size \o octets) /\ e = size \o octets
    BY <1>4
  <2>3. prefix = splitOid(oid, 1)
    BY <1>4
  <2> HIDE DEF size, prefix
  <2>4. prefix.head = size /\ prefix.tail = After(oid, 1) /\ BeginsWith(prefix.tail, octets)
        /\ After(prefix.tail, Len(octets)) = After(oid, Len(size \o octets))
    <3>1. /\ BeginsWith(oid, size) /\ BeginsWith(After(oid, Len(size)), octets)
          /\ After(After(oid, Len(size)), Len(octets)) = After(oid, Len(size \o octets))
      BY <1>1, <2>1, <2>2, BeginsWithBoth
    <3>2. prefix = splitOid(oid, Len(size))
      BY <2>1, <2>3
    <3>3. prefix.head = size /\ prefix.tail = After(oid, Len(size))
      BY <2>1, <3>1, <3>2, SplitOff
    <3> QED
      BY <2>1, <3>1, <3>3
  <2>5. content = splitOid(prefix.tail, Len(octets))
    BY <1>4, <2>1, <2>4
  <2>6. prefix.tail \in Seq(Nat)
    BY <2>4, AfterType
  <2>7. content.head = octets /\ content.tail = After(oid, Len(size \o octets))
    BY <1>1, <2>4, <2>5, <2>6, SplitOff
  <2>8. shown = Octets(typ, octets)
    <3> HIDE DEF content
    <3>1. shown = Octets(typ, [i \in DOMAIN octets |-> octets[i] % 256])
      BY <2>7, Zenon
    <3> QED
      BY <3>1, ShownOctets, Zenon
  <2> HIDE DEF content, shown
  <2>9. d.used = size \o octets
    <3> HIDE DEF d
    <3> QED
      BY <1>2, <2>4, <2>7
  <2> QED
    BY <1>2, <2>2, <2>7, <2>8, <2>9 DEF TakesOff
<1>5. CASE given = 0 /\ implied
  <2>1. oid = <<>> /\ octets = <<>>
    BY <1>5
  <2>2. prefix.head[1] = 0 /\ prefix.tail = <<>>
    BY <1>5, <2>1 DEF splitOid
  <2>3. content.head = <<>> /\ content.tail = <<>>
    <3>1. content = splitOid(<<>>, 0)
      BY <1>5, <2>2
    <3> QED
      BY <3>1, SMTT(30) DEF splitOid
  <2>4. shown = Octets(typ, octets)
    BY <2>1, <2>3
  <2>5. After(oid, Len(octets)) = <<>>
    BY <2>1 DEF After
  <2> QED
    BY <1>2, <1>5, <2>3, <2>4, <2>5, SMTT(30) DEF TakesOff
<1>6. given \in Nat
  BY <1>1
<1> QED
  BY <1>3, <1>4, <1>5, <1>6

\* An address: as many arcs as its type has.
LEMMA AddressTakenOff ==
  ASSUME NEW oid \in Seq(Nat), NEW typ \in DOMAIN Addresses, NEW fixedSize, NEW implied, NEW enumValues,
         NEW octets \in Seq(Nat), Len(octets) = Addresses[typ], BeginsWith(oid, octets)
  PROVE  TakesOff(SimpleIndex(oid, typ, fixedSize, implied, enumValues), Octets(typ, octets), oid, octets)
<1> DEFINE s == splitOid(oid, Len(octets))
<1>1. SimpleIndex(oid, typ, fixedSize, implied, enumValues) = Decoded(Octets(typ, s.head), s.head, s.tail)
  BY DEF SimpleIndex, Numbers, Addresses, Strings
<1>2. s.head = octets /\ s.tail = After(oid, Len(octets))
  BY SplitOff
<1> QED
  BY <1>1, <1>2 DEF TakesOff, Decoded

\* A number: one arc.
LEMMA NumberTakenOff ==
  ASSUME NEW oid \in Seq(Nat), NEW typ \in Numbers \cup {"EnumAsInfo"}, NEW fixedSize, NEW implied,
         NEW enumValues, NEW n \in Nat, BeginsWith(oid, <<n>>)
  PROVE  TakesOff(SimpleIndex(oid, typ, fixedSize, implied, enumValues),
                  IF typ = "EnumAsInfo" THEN Enum(enumValues, n) ELSE Decimal(n), oid, <<n>>)
<1> DEFINE s == splitOid(oid, 1)
<1>1. SimpleIndex(oid, typ, fixedSize, implied, enumValues) =
        Decoded(IF typ = "EnumAsInfo" THEN Enum(enumValues, s.head[1]) ELSE Decimal(s.head[1]), s.head, s.tail)
  BY DEF SimpleIndex, Numbers, Addresses, Strings
<1>2. <<n>> \in Seq(Nat) /\ Len(<<n>>) = 1
  OBVIOUS
<1>3. s.head = <<n>> /\ s.tail = After(oid, Len(<<n>>))
  BY <1>2, SplitOff
<1> QED
  BY <1>1, <1>3 DEF TakesOff, Decoded

\* What is between the front of a combined type and what comes after.
LEMMA FrontTakenOff ==
  ASSUME NEW oid \in Seq(Nat), NEW front \in Seq(Nat), NEW octets \in Seq(Nat), BeginsWith(oid, front \o octets),
         NEW typ \in DOMAIN Addresses, Len(octets) = Addresses[typ], NEW enumValues,
         NEW value, value = SimpleIndex(splitOid(oid, Len(front)).tail, typ, 0, FALSE, enumValues)
  PROVE  /\ splitOid(oid, Len(front)).head = front
         /\ Result(value, Octets(typ, octets), octets, After(oid, Len(front \o octets)))
<1> DEFINE rest == splitOid(oid, Len(front)).tail
<1>1. /\ BeginsWith(oid, front) /\ BeginsWith(After(oid, Len(front)), octets)
      /\ After(After(oid, Len(front)), Len(octets)) = After(oid, Len(front \o octets))
  BY BeginsWithBoth
<1>2. splitOid(oid, Len(front)).head = front /\ rest = After(oid, Len(front))
  BY <1>1, SplitOff
<1>3. rest \in Seq(Nat)
  <2>1. Len(front) \in Nat
    OBVIOUS
  <2> QED
    BY <1>2, <2>1, AfterType
<1>4. TakesOff(value, Octets(typ, octets), rest, octets)
  <2>1. value = SimpleIndex(rest, typ, 0, FALSE, enumValues)
    OBVIOUS
  <2> HIDE DEF rest
  <2> QED
    BY <1>1, <1>2, <1>3, <2>1, AddressTakenOff
<1>5. octets # <<>>
  BY DEF Addresses
<1> HIDE DEF rest
<1> QED
  BY <1>1, <1>2, <1>4, <1>5 DEF TakesOff, Result, rest

LEMMA IndexTypesApart ==
  /\ Combined = Sized \cup {"InetAddressMissingSize"}
  /\ IndexTypes = Numbers \cup {"EnumAsInfo"} \cup DOMAIN Addresses \cup Strings \cup Combined
  /\ (Numbers \cup {"EnumAsInfo"} \cup DOMAIN Addresses \cup Strings) \cap Combined = {}
BY DEF Combined, combinedTypeMapping, Sized, IndexTypes, Numbers, Addresses, Strings

\* An encoding is arcs.
LEMMA EncodingType ==
  ASSUME NEW index \in Indexes, NEW value \in RowValues, Fits(index, value)
  PROVE  Encode(index, value) \in Seq(Nat)
<1> DEFINE n == value.n
           octets == value.octets
           size == Len(octets)
<1>1. n \in Nat /\ octets \in Seq(Nat) /\ size \in Nat
  BY BytesAreArcs DEF RowValues
<1>2. Encode(index, value) \in {<<n>>, octets, <<size>> \o octets, <<n>> \o octets, <<n, size>> \o octets}
  BY IndexTypesApart DEF Fits, Encode, Numbers, Addresses, Strings, Sized
<1>3. <<n>> \in Seq(Nat) /\ <<size>> \in Seq(Nat) /\ <<n, size>> \in Seq(Nat)
  BY <1>1
<1> HIDE DEF n, octets, size
<1> QED
  BY <1>1, <1>2, <1>3, ConcatProperties

\* An index of any type is decoded as the value that was encoded, and takes the
\* arcs of its encoding off, whatever comes after.
LEMMA IndexTakenOff ==
  ASSUME NEW index \in Indexes, NEW value \in RowValues, Fits(index, value),
         NEW oid \in Seq(Nat), BeginsWith(oid, Encode(index, value)),
         TakesRest(index, value) => oid = Encode(index, value)
  PROVE  /\ Encode(index, value) \in Seq(Nat)
         /\ TakesOff(indexOidsAsString(oid, index.type, index.fixedSize, index.implied, index.enumValues),
                     Meaning(index, value), oid, Encode(index, value))
<1> DEFINE e == Encode(index, value)
           d == indexOidsAsString(oid, index.type, index.fixedSize, index.implied, index.enumValues)
           n == value.n
           octets == value.octets
           size == Len(octets)
<1>1. /\ index.fixedSize \in Nat /\ index.implied \in BOOLEAN
      /\ n \in Nat /\ octets \in Seq(0..255) /\ octets \in Seq(Nat) /\ size \in Nat
  BY BytesAreArcs DEF Indexes, RowValues
<1>2. index.type \notin Combined =>
        d = SimpleIndex(oid, index.type, index.fixedSize, index.implied, index.enumValues)
  BY DEF indexOidsAsString
<1>3. CASE index.type \in Numbers \cup {"EnumAsInfo"}
  <2>1. e = <<n>> /\ index.type \notin Combined
    BY <1>3, IndexTypesApart DEF Encode, Numbers, Addresses, Strings, Sized
  <2>2. Meaning(index, value) = IF index.type = "EnumAsInfo" THEN Enum(index.enumValues, n) ELSE Decimal(n)
    BY <1>3 DEF Meaning, Numbers, Addresses, Strings, Combined, combinedTypeMapping
  <2>3. <<n>> \in Seq(Nat)
    BY <1>1
  <2>4. TakesOff(SimpleIndex(oid, index.type, index.fixedSize, index.implied, index.enumValues),
                 IF index.type = "EnumAsInfo" THEN Enum(index.enumValues, n) ELSE Decimal(n), oid, <<n>>)
    <3>1. BeginsWith(oid, <<n>>)
      BY <2>1
    <3> HIDE DEF n
    <3> QED
      BY <1>1, <1>3, <3>1, NumberTakenOff
  <2> QED
    BY <1>2, <2>1, <2>2, <2>3, <2>4
<1>4. CASE index.type \in DOMAIN Addresses
  <2>1. e = octets /\ index.type \notin Combined /\ size = Addresses[index.type]
    BY <1>4, IndexTypesApart DEF Encode, Numbers, Addresses, Strings, Sized, Fits
  <2>2. Meaning(index, value) = Octets(index.type, octets)
    BY <1>4 DEF Meaning, Numbers, Addresses, Strings, Combined, combinedTypeMapping
  <2> QED
    BY <1>1, <1>2, <1>4, <2>1, <2>2, AddressTakenOff
<1>5. CASE index.type \in Strings
  <2>1. /\ e = IF index.implied \/ index.fixedSize > 0 THEN octets ELSE <<size>> \o octets
        /\ index.type \notin Combined
    BY <1>5, IndexTypesApart DEF Encode, FixedLength, Numbers, Addresses, Strings, Sized
  <2>2. Meaning(index, value) = Octets(index.type, octets)
    BY <1>5 DEF Meaning, Numbers, Addresses, Strings, Combined, combinedTypeMapping
  <2>3. d = StringIndex(oid, index.type, index.fixedSize, index.implied, index.enumValues)
    BY <1>2, <1>5, <2>1 DEF SimpleIndex, Numbers, Addresses, Strings
  <2>4. /\ index.implied => oid = octets
        /\ ~index.implied /\ index.fixedSize > 0 => size = index.fixedSize
    BY <1>5, <2>1 DEF TakesRest, Fits
  <2>5. e \in Seq(Nat)
    <3>1. <<size>> \in Seq(Nat)
      BY <1>1
    <3>2. <<size>> \o octets \in Seq(Nat)
      BY <1>1, <3>1, ConcatProperties
    <3> QED
      BY <1>1, <2>1, <3>2
  <2>6. TakesOff(StringIndex(oid, index.type, index.fixedSize, index.implied, index.enumValues),
                 Octets(index.type, octets), oid, e)
    <3>1. oid \in Seq(Nat) /\ BeginsWith(oid, e)
      OBVIOUS
    <3> HIDE DEF e, octets
    <3>2. CASE index.implied = TRUE
      <4>1. e = octets /\ oid = octets
        BY <2>1, <2>4, <3>2
      <4>2. TakesOff(StringIndex(oid, index.type, index.fixedSize, TRUE, index.enumValues),
                     Octets(index.type, octets), oid, octets)
        BY <1>1, <1>5, <3>1, <4>1, StringTakenOff, ZenonT(40)
      <4> QED
        BY <3>2, <4>1, <4>2
    <3>3. CASE index.implied = FALSE
      <4>1. /\ e = IF index.fixedSize > 0 THEN octets ELSE <<Len(octets)>> \o octets
            /\ index.fixedSize > 0 => Len(octets) = index.fixedSize
        BY <2>1, <2>4, <3>3 DEF size
      <4>2. TakesOff(StringIndex(oid, index.type, index.fixedSize, FALSE, index.enumValues),
                     Octets(index.type, octets), oid, e)
        BY <1>1, <1>5, <3>1, <4>1, StringTakenOff, ZenonT(40)
      <4> QED
        BY <3>3, <4>2
    <3> QED
      BY <1>1, <3>2, <3>3
  <2> QED
    BY <2>2, <2>3, <2>5, <2>6
<1>6. CASE index.type \in Combined
  <2> DEFINE missing == index.type = "InetAddressMissingSize"
             front == IF missing THEN <<n>> ELSE <<n, size>>
             subtype == combinedTypeMapping[index.type][n]
  <2>1. e = front \o octets
    BY <1>6, IndexTypesApart DEF Encode, Numbers, Addresses, Strings, Sized
  <2>2. /\ n \in 0..255 /\ size \in 0..255
        /\ KnownSubtype(index, value) => subtype \in DOMAIN Addresses /\ size = Addresses[subtype]
    <3>1. n <= 255 /\ size <= 255
      BY <1>6 DEF Fits
    <3>2. KnownSubtype(index, value) => subtype \in DOMAIN Addresses /\ size = Addresses[subtype]
      BY <1>6, Zenon DEF Fits
    <3> HIDE DEF n, size, subtype
    <3>3. n \in 0..255 /\ size \in 0..255
      BY <1>1, <3>1
    <3> QED
      BY <3>2, <3>3
  <2>3. /\ front \in Seq(0..255) /\ front \in Seq(Nat) /\ front[1] = n
        /\ Len(front) = (IF missing THEN 1 ELSE 2)
        /\ ~missing => front[2] = size
    <3>1. <<n>> \in Seq(0..255) /\ <<n, size>> \in Seq(0..255)
      BY <2>2
    <3> QED
      BY <3>1, BytesAreArcs
  <2>4. /\ e \in Seq(0..255) /\ e \in Seq(Nat) /\ Len(e) = Len(front) + size
    <3> HIDE DEF front, size, octets
    <3>1. e \in Seq(0..255)
      BY <1>1, <2>1, <2>3, ConcatProperties
    <3>2. Len(e) = Len(front) + Len(octets)
      BY <1>1, <2>1, <2>3, ConcatProperties
    <3> QED
      BY <3>1, <3>2, BytesAreArcs DEF size
  <2> DEFINE s == splitOid(oid, IF missing THEN 1 ELSE 2)
  <2>5. s = splitOid(oid, Len(front))
    BY <2>3
  <2>6. s.head = front
    <3> HIDE DEF s, front, size, octets
    <3>1. BeginsWith(oid, front)
      BY <1>1, <2>1, <2>3, BeginsWithBoth
    <3> QED
      BY <2>3, <2>5, <3>1, SplitOff
  <2>7. /\ s.head[1] = n
        /\ ~missing => s.head[2] = size
    BY <2>3, <2>6
  <2>8. CASE KnownSubtype(index, value)
    <3> DEFINE v == SimpleIndex(s.tail, combinedTypeMapping[index.type][s.head[1]], 0, FALSE, index.enumValues)
    <3>1. d = Decoded(v.text, s.head \o v.used, v.rest)
      BY <1>6, <2>7, <2>8 DEF indexOidsAsString, KnownSubtype
    <3>2. Meaning(index, value) = Octets(subtype, octets)
      BY <1>6, <2>8, IndexTypesApart DEF Meaning, Numbers, Addresses, Strings, Sized
    <3>3. Result(v, Octets(subtype, octets), octets, After(oid, Len(front \o octets)))
      <4> DEFINE w == SimpleIndex(splitOid(oid, Len(front)).tail, subtype, 0, FALSE, index.enumValues)
      <4>1. v = w
        <5> HIDE DEF s
        <5> QED
          BY <2>5, <2>7
      <4>2. Result(w, Octets(subtype, octets), octets, After(oid, Len(front \o octets)))
        <5>1. /\ BeginsWith(oid, front \o octets) /\ subtype \in DOMAIN Addresses
              /\ Len(octets) = Addresses[subtype]
          BY <2>1, <2>2, <2>8
        <5>2. w = SimpleIndex(splitOid(oid, Len(front)).tail, subtype, 0, FALSE, index.enumValues)
          OBVIOUS
        <5>3. front \in Seq(Nat) /\ octets \in Seq(Nat)
          BY <1>1, <2>3
        <5> HIDE DEF front, subtype, octets, w, v, s, n, e, d, missing, size
        <5> QED
          BY <5>1, <5>2, <5>3, FrontTakenOff
      <4> QED
        BY <4>1, <4>2
    <3> HIDE DEF v, front, s
    <3> QED
      BY <2>1, <2>4, <2>6, <3>1, <3>2, <3>3 DEF TakesOff, Result, Decoded
  <2>9. CASE ~KnownSubtype(index, value)
    <3>1. Meaning(index, value) = Octets("OctetString", e)
      BY <1>6, <2>9, IndexTypesApart DEF Meaning, Numbers, Addresses, Strings, Sized
    <3>2. "OctetString" \in Strings
      BY DEF Strings
    <3>3. ASSUME NEW fixedSize, NEW implied
          PROVE  SimpleIndex(oid, "OctetString", fixedSize, implied, index.enumValues)
                   = StringIndex(oid, "OctetString", fixedSize, implied, index.enumValues)
      BY DEF SimpleIndex, Numbers, Addresses, Strings
    <3>4. CASE missing
      <4>1. d = StringIndex(oid, "OctetString", 0, TRUE, index.enumValues)
        BY <1>6, <2>7, <2>9, <3>3, <3>4 DEF indexOidsAsString, KnownSubtype
      <4>2. oid = e
        BY <2>9, <3>4 DEF TakesRest
      <4>3. TakesOff(StringIndex(oid, "OctetString", 0, TRUE, index.enumValues), Octets("OctetString", e), oid, e)
        <5> HIDE DEF e
        <5> QED
          BY <2>4, <3>2, <4>2, StringTakenOff DEF e
      <4> QED
        BY <2>4, <3>1, <4>1, <4>3
    <3>5. CASE ~missing
      <4>1. d = StringIndex(oid, "OctetString", size + 2, FALSE, index.enumValues)
        BY <1>6, <2>7, <2>9, <3>3, <3>5 DEF indexOidsAsString, KnownSubtype
      <4>2. Len(e) = size + 2 /\ size + 2 \in Nat /\ size + 2 > 0
        BY <1>1, <2>3, <2>4, <3>5
      <4>3. TakesOff(StringIndex(oid, "OctetString", size + 2, FALSE, index.enumValues), Octets("OctetString", e), oid, e)
        <5> DEFINE m == size + 2
        <5>1. Len(e) = m /\ m \in Nat /\ m > 0
          BY <4>2
        <5> HIDE DEF m, e
        <5>2. TakesOff(StringIndex(oid, "OctetString", m, FALSE, index.enumValues), Octets("OctetString", e), oid, e)
          BY <2>4, <3>2, <5>1, StringTakenOff DEF e
        <5> QED
          BY <5>2 DEF m
      <4> QED
        BY <2>4, <3>1, <4>1, <4>3
    <3> QED
      BY <3>4, <3>5
  <2> QED
    BY <2>8, <2>9
<1> QED
  BY <1>3, <1>4, <1>5, <1>6, IndexTypesApart DEF Fits

\* Nothing is left of nothing.
LEMMA SplitNothing == ASSUME NEW n \in Nat PROVE splitOid(<<>>, n).tail = <<>>
<1>1. SubSeq(<<>>, n + 1, Len(<<>>)) = <<>>
  <2>1. Len(<<>>) < n + 1 /\ n + 1 \in Int /\ Len(<<>>) \in Int
    OBVIOUS
  <2> QED
    BY <2>1, SubSeqEmpty
<1> QED
  BY <1>1 DEF splitOid

LEMMA SimpleNothing ==
  ASSUME NEW typ \in Simple, NEW fixedSize \in Nat, NEW implied \in BOOLEAN, NEW enumValues
  PROVE  SimpleIndex(<<>>, typ, fixedSize, implied, enumValues).rest = <<>>
<1> DEFINE d == SimpleIndex(<<>>, typ, fixedSize, implied, enumValues)
           s == splitOid(<<>>, IF typ \in DOMAIN Addresses THEN Addresses[typ] ELSE 1)
<1>1. CASE typ \in Strings
  <2> DEFINE given == IF implied THEN 0 ELSE fixedSize
             prefix == splitOid(<<>>, IF given = 0 THEN 1 ELSE 0)
             content == splitOid(prefix.tail, IF given = 0 THEN prefix.head[1] ELSE given)
  <2>1. d.rest = content.tail
    <3>1. Len(<<>>) = 0
      OBVIOUS
    <3> QED
      BY <1>1, <3>1 DEF SimpleIndex, StringIndex, Decoded, Numbers, Addresses, Strings
  <2>2. prefix.tail = <<>>
    BY SplitNothing
  <2>3. (IF given = 0 THEN prefix.head[1] ELSE given) \in Nat
    <3>1. CASE given = 0
      <4>1. <<>> \in Seq(Nat)
        OBVIOUS
      <4>2. prefix.head \in Seq(Nat) /\ Len(prefix.head) = 1
        BY <3>1, <4>1, SplitType
      <4> QED
        BY <3>1, <4>2
    <3>2. CASE given # 0
      BY <3>2
    <3> QED
      BY <3>1, <3>2
  <2> HIDE DEF prefix, given
  <2> QED
    BY <2>1, <2>2, <2>3, SplitNothing
<1>2. CASE typ \notin Strings
  <2>1. d.rest = s.tail
    BY <1>2 DEF SimpleIndex, Decoded, Numbers, Addresses, Strings, Simple, IndexTypes, Combined
  <2>2. (IF typ \in DOMAIN Addresses THEN Addresses[typ] ELSE 1) \in Nat
    BY DEF Addresses
  <2> QED
    BY <2>1, <2>2, SplitNothing
<1> QED
  BY <1>1, <1>2

LEMMA IndexNothing ==
  ASSUME NEW typ \in IndexTypes, NEW fixedSize \in Nat, NEW implied \in BOOLEAN, NEW enumValues
  PROVE  indexOidsAsString(<<>>, typ, fixedSize, implied, enumValues).rest = <<>>
<1> DEFINE d == indexOidsAsString(<<>>, typ, fixedSize, implied, enumValues)
           front == splitOid(<<>>, IF typ = "InetAddressMissingSize" THEN 1 ELSE 2)
           subtype == front.head[1]
<1>1. CASE typ \notin Combined
  <2>1. typ \in Simple
    BY <1>1 DEF Simple, Combined
  <2> QED
    BY <1>1, <2>1, SimpleNothing DEF indexOidsAsString
<1>2. CASE typ \in Combined
  <2>1. front.tail = <<>>
    BY SplitNothing
  <2>2. "OctetString" \in Simple
    BY DEF Simple, IndexTypes, Strings, combinedTypeMapping
  <2>3. CASE subtype \in DOMAIN combinedTypeMapping[typ]
    <3>1. combinedTypeMapping[typ][subtype] \in Simple
      BY <1>2, <2>3, Subtypes
    <3>2. d.rest = SimpleIndex(front.tail, combinedTypeMapping[typ][subtype], 0, FALSE, enumValues).rest
      BY <1>2, <2>3 DEF indexOidsAsString, Decoded
    <3> HIDE DEF front
    <3> QED
      BY <2>1, <3>1, <3>2, SimpleNothing
  <2>4. CASE subtype \notin DOMAIN combinedTypeMapping[typ] /\ typ = "InetAddressMissingSize"
    <3>1. d = SimpleIndex(<<>>, "OctetString", 0, TRUE, enumValues)
      BY <1>2, <2>4 DEF indexOidsAsString
    <3> QED
      BY <2>2, <3>1, SimpleNothing
  <2>5. CASE subtype \notin DOMAIN combinedTypeMapping[typ] /\ typ # "InetAddressMissingSize"
    <3>1. d = SimpleIndex(<<>>, "OctetString", front.head[2] + 2, FALSE, enumValues)
      BY <1>2, <2>5 DEF indexOidsAsString
    <3>2. front.head[2] + 2 \in Nat
      <4>1. <<>> \in Seq(Nat)
        OBVIOUS
      <4>2. front.head \in Seq(Nat) /\ Len(front.head) = 2
        BY <2>5, <4>1, SplitType
      <4> QED
        BY <4>2
    <3> HIDE DEF front
    <3> QED
      BY <2>2, <3>1, <3>2, SimpleNothing
  <2> QED
    BY <2>3, <2>4, <2>5
<1> QED
  BY <1>1, <1>2

-----------------------------------------------------------------------------
(* A row is decoded value after value                                         *)

Encodings == [k \in Own |-> Encode(metric.indexes[k], input.row[k])]
\* How many values of the row are decoded.
Taken == IF next <= Len(input.row) THEN next - 1 ELSE Len(input.row)
\* Labels of the first values of the row are as they should be.
Correct(some) ==
  \A k \in some :
    /\ metric.indexes[k].labelname \in DOMAIN labels
    /\ labels[metric.indexes[k].labelname] = Meaning(metric.indexes[k], input.row[k])
\* While indexes are decoded, the arcs left are those after the encodings of the
\* values decoded.
RowInv ==
  /\ phase = "indexes" =>
       /\ Correct(1..Taken)
       /\ \A start : Begins(start, Encodings) => arcs = After(input.arcs, start[Taken])
  /\ RowDecoded

\* The row of the call, and where its encodings begin.
LEMMA RowFacts ==
  ASSUME TypeOK
  PROVE  /\ input.row \in Seq(RowValues) /\ input.arcs \in Seq(Nat)
         /\ metric.indexes \in Seq(Indexes) /\ metric.lookups \in Seq(Lookups)
         /\ Len(input.row) \in Nat /\ Len(metric.indexes) \in Nat /\ Len(input.row) <= Len(metric.indexes)
         /\ Own = 1..Len(input.row) /\ DOMAIN metric.indexes = 1..Len(metric.indexes)
         /\ IsRow(metric.indexes, input.row, input.arcs)
<1>1. input \in Inputs
  BY DEF TypeOK
<1>2. IsRow(metric.indexes, input.row, input.arcs)
  BY <1>1, RowAssumption DEF metric
<1>3. /\ metric.indexes \in Seq(Indexes) /\ metric.lookups \in Seq(Lookups) /\ input.arcs \in Seq(Nat)
  BY <1>1, LabelsAssumption DEF metric
<1>4. input.row \in Seq(RowValues) /\ Len(input.row) <= Len(metric.indexes)
  BY <1>2 DEF IsRow
<1> QED
  BY <1>2, <1>3, <1>4 DEF Own

\* A value of the row, and the index it is for.
LEMMA RowValue ==
  ASSUME TypeOK, NEW k \in Own
  PROVE  /\ k \in 1..Len(metric.indexes) /\ metric.indexes[k] \in Indexes /\ input.row[k] \in RowValues
         /\ Fits(metric.indexes[k], input.row[k])
         /\ \A j \in 1..Len(metric.indexes) :
              metric.indexes[j].labelname = metric.indexes[k].labelname => j = k
         /\ TakesRest(metric.indexes[k], input.row[k]) =>
              k = Len(input.row) /\ input.arcs = FlattenSeq(Encodings)
<1>1. k \in 1..Len(input.row) /\ k \in 1..Len(metric.indexes)
  BY RowFacts
<1>2. metric.indexes[k] \in Indexes /\ input.row[k] \in RowValues
  BY <1>1, RowFacts, ElementOfSeq
<1>3. EncodeRow(metric.indexes, input.row) = FlattenSeq(Encodings)
  BY DEF EncodeRow, Encodings, Own
<1> QED
  BY <1>1, <1>2, <1>3, RowFacts DEF IsRow, Own

LEMMA EncodingsFacts ==
  ASSUME TypeOK
  PROVE  /\ Encodings \in Seq(Seq(Nat)) /\ Len(Encodings) = Len(input.row)
         /\ FlattenSeq(Encodings) \in Seq(Nat)
         /\ WithoutZeros(input.arcs, FlattenSeq(Encodings))
         /\ \E start : Begins(start, Encodings)
<1>1. ASSUME NEW k \in Own PROVE Encode(metric.indexes[k], input.row[k]) \in Seq(Nat)
  <2>1. /\ metric.indexes[k] \in Indexes /\ input.row[k] \in RowValues
        /\ Fits(metric.indexes[k], input.row[k])
    BY RowValue
  <2> QED
    BY <2>1, EncodingType
<1>2. Encodings \in [1..Len(input.row) -> Seq(Nat)] /\ Len(input.row) \in Nat
  BY <1>1, RowFacts DEF Encodings
<1>3. Encodings \in Seq(Seq(Nat)) /\ Len(Encodings) = Len(input.row)
  BY <1>2
<1>4. WithoutZeros(input.arcs, FlattenSeq(Encodings))
  <2>1. EncodeRow(metric.indexes, input.row) = FlattenSeq(Encodings)
    BY DEF EncodeRow, Encodings, Own
  <2> QED
    BY <2>1, RowFacts DEF IsRow
<1> QED
  BY <1>3, <1>4, FlattenFacts

\* A part of the encodings, at b, as it is found in what was sent of them.
HasAt(all, b, e) == b + Len(e) <= Len(all) /\ \A i \in 1..Len(e) : all[b + i] = e[i]
LEMMA PartOfSent ==
  ASSUME NEW sent \in Seq(Nat), NEW all \in Seq(Nat), WithoutZeros(sent, all),
         NEW b \in Nat, NEW e \in Seq(Nat), HasAt(all, b, e)
  PROVE  /\ BeginsWith(After(sent, b), e)
         /\ After(After(sent, b), Len(e)) = After(sent, b + Len(e))
         /\ sent = all /\ b + Len(e) = Len(all) => After(sent, b) = e
<1>1. /\ Len(e) \in Nat /\ Len(all) \in Nat /\ Len(sent) \in Nat /\ DOMAIN all = 1..Len(all)
      /\ b + Len(e) <= Len(all) /\ \A i \in 1..Len(e) : all[b + i] = e[i]
  BY DEF HasAt
<1>2. ASSUME NEW i \in 1..Len(e)
      PROVE  e[i] = IF i <= Len(After(sent, b)) THEN After(sent, b)[i] ELSE 0
  <2>1. b + i \in DOMAIN all /\ i \in Nat \ {0}
    BY <1>1
  <2>2. all[b + i] = IF b + i <= Len(sent) THEN sent[b + i] ELSE 0
    BY <2>1 DEF WithoutZeros
  <2>3. e[i] = all[b + i]
    BY <1>1
  <2>4. (IF i <= Len(After(sent, b)) THEN After(sent, b)[i] ELSE 0)
          = (IF b + i <= Len(sent) THEN sent[b + i] ELSE 0)
    BY <2>1, AfterElement
  <2> QED
    BY <2>2, <2>3, <2>4
<1>3. ASSUME sent = all, b + Len(e) = Len(all) PROVE After(sent, b) = e
  <2>1. CASE Len(e) = 0
    <3>1. After(all, b) = <<>>
      BY <1>1, <1>3, <2>1 DEF After
    <3>2. e = <<>>
      BY <2>1
    <3> QED
      BY <1>3, <3>1, <3>2
  <2>2. CASE Len(e) # 0
    <3>1. b + 1 <= Len(all) /\ Len(all) - b = Len(e)
      <4> DEFINE n == Len(e)
                 m == Len(all)
      <4>1. n \in Nat /\ m \in Nat /\ n # 0 /\ b + n = m
        BY <1>1, <1>3, <2>2
      <4> HIDE DEF n, m
      <4>2. b + 1 <= m /\ m - b = n
        BY <4>1
      <4> QED
        BY <4>2 DEF n, m
    <3>2. After(all, b) = [i \in 1..Len(e) |-> all[b + i]]
      BY <3>1, AfterList, ZenonT(40)
    <3>3. e = [i \in 1..Len(e) |-> e[i]]
      OBVIOUS
    <3> QED
      BY <1>1, <1>3, <3>2, <3>3
  <2> QED
    BY <2>1, <2>2
<1>4. After(After(sent, b), Len(e)) = After(sent, b + Len(e))
  BY <1>1, AfterAfter
<1> QED
  BY <1>2, <1>3, <1>4 DEF BeginsWith

\* The arcs after the encodings of k - 1 values begin with the encoding of the
\* next, and are it when it has to be the last.
LEMMA NextEncoding ==
  ASSUME TypeOK, NEW k \in Own, NEW start, Begins(start, Encodings),
         NEW e, e = Encode(metric.indexes[k], input.row[k])
  PROVE  /\ start[k - 1] \in Nat /\ BeginsWith(After(input.arcs, start[k - 1]), e)
         /\ After(After(input.arcs, start[k - 1]), Len(e)) = After(input.arcs, start[k])
         /\ TakesRest(metric.indexes[k], input.row[k]) => After(input.arcs, start[k - 1]) = e
<1> DEFINE all == FlattenSeq(Encodings)
           L == Len(input.row)
<1>1. k \in 1..L /\ L \in Nat /\ Len(Encodings) = L /\ Encodings[k] = e /\ input.arcs \in Seq(Nat)
  BY RowFacts, EncodingsFacts DEF Encodings
<1>2. e \in Seq(Nat) /\ all \in Seq(Nat) /\ WithoutZeros(input.arcs, all)
  <2>1. e \in Seq(Nat)
    BY <1>1, EncodingsFacts, ElementOfSeq
  <2> QED
    BY <2>1, EncodingsFacts
<1>3. k - 1 \in 0..L /\ k \in 0..L /\ L \in 0..L
  BY <1>1
<1> HIDE DEF L, all
<1>4. start \in [0..L -> 0..Len(all)] /\ start[L] = Len(all)
  BY <1>1 DEF Begins, all
<1>5. start[k] = start[k - 1] + Len(e) /\ \A i \in 1..Len(e) : all[start[k - 1] + i] = e[i]
  BY <1>1 DEF Begins, all
<1>6. start[k - 1] \in 0..Len(all) /\ start[k] \in 0..Len(all)
  BY <1>3, <1>4
<1>7. Len(all) \in Nat /\ Len(e) \in Nat
  BY <1>2
<1> DEFINE b == start[k - 1]
<1>8. b \in Nat /\ b + Len(e) <= Len(all) /\ b + Len(e) = start[k]
  BY <1>5, <1>6, <1>7
<1> HIDE DEF b
<1>9. HasAt(all, b, e)
  BY <1>5, <1>8 DEF b, HasAt
<1>10. /\ BeginsWith(After(input.arcs, b), e)
       /\ After(After(input.arcs, b), Len(e)) = After(input.arcs, b + Len(e))
       /\ input.arcs = all /\ b + Len(e) = Len(all) => After(input.arcs, b) = e
  BY <1>1, <1>2, <1>8, <1>9, PartOfSent
<1>11. TakesRest(metric.indexes[k], input.row[k]) => input.arcs = all /\ k = L
  BY RowValue DEF all, L
<1> QED
  BY <1>4, <1>8, <1>10, <1>11 DEF b

\* The next index is one of the row's: its value is decoded as it was encoded.
LEMMA OwnDecoded ==
  ASSUME TypeOK, RowInv, DecodeIndex, next <= Len(input.row)
  PROVE  RowInv'
<1> DEFINE k == next
           index == metric.indexes[k]
           value == input.row[k]
           d == indexOidsAsString(arcs, index.type, index.fixedSize, index.implied, index.enumValues)
           e == Encode(index, value)
<1>1. /\ phase = "indexes" /\ phase' = "indexes" /\ input' = input /\ next' = next + 1
      /\ labels' = Put(labels, index.labelname, d.text) /\ arcs' = d.rest
  BY DEF DecodeIndex, Rest
<1>2. /\ k \in Own /\ k \in 1..Len(input.row) /\ Len(input.row) \in Nat /\ Own = 1..Len(input.row)
      /\ metric' = metric /\ Own' = Own /\ Encodings' = Encodings
      /\ Taken = k - 1 /\ Taken' = k
  <2>1. k \in 1..Len(input.row) /\ Len(input.row) \in Nat /\ Own = 1..Len(input.row)
    BY <1>1, RowFacts DEF TypeOK
  <2>2. metric' = metric /\ Own' = Own /\ Encodings' = Encodings
    BY <1>1 DEF metric, Own, Encodings
  <2>3. Taken = k - 1 /\ Taken' = k
    BY <1>1, <2>1 DEF Taken
  <2> QED
    BY <2>1, <2>2, <2>3
<1>3. /\ index \in Indexes /\ value \in RowValues /\ Fits(index, value)
      /\ \A j \in 1..Len(metric.indexes) : metric.indexes[j].labelname = index.labelname => j = k
      /\ arcs \in Seq(Nat)
  BY <1>2, RowValue DEF TypeOK
<1>4. ASSUME NEW start, Begins(start, Encodings)
      PROVE  d.text = Meaning(index, value) /\ d.rest = After(input.arcs, start[k])
  <2>1. arcs = After(input.arcs, start[k - 1])
    BY <1>1, <1>2, <1>4 DEF RowInv
  <2>2. /\ BeginsWith(arcs, e) /\ After(arcs, Len(e)) = After(input.arcs, start[k])
        /\ TakesRest(index, value) => arcs = e
    <3> HIDE DEF k
    <3> QED
      BY <1>2, <1>4, <2>1, NextEncoding
  <2>3. TakesOff(d, Meaning(index, value), arcs, e)
    <3> HIDE DEF index, value
    <3> QED
      BY <1>3, <2>2, IndexTakenOff
  <2> QED
    BY <2>2, <2>3 DEF TakesOff
<1> HIDE DEF d
<1>5. d.text = Meaning(index, value)
  BY <1>4, EncodingsFacts
<1>6. Correct(1..Taken)'
  <2> SUFFICES ASSUME NEW j \in 1..k
               PROVE  /\ metric.indexes[j].labelname \in DOMAIN labels'
                      /\ labels'[metric.indexes[j].labelname] = Meaning(metric.indexes[j], input.row[j])
    BY <1>1, <1>2 DEF Correct
  <2>1. CASE j = k
    BY <1>1, <1>5, <2>1 DEF Put
  <2>2. CASE j # k
    <3>1. j \in 1..(k - 1) /\ j \in Own
      BY <1>2, <2>2
    <3>2. /\ metric.indexes[j].labelname \in DOMAIN labels
          /\ labels[metric.indexes[j].labelname] = Meaning(metric.indexes[j], input.row[j])
      BY <1>1, <1>2, <3>1 DEF RowInv, Correct
    <3>3. metric.indexes[j].labelname # index.labelname
      <4>1. j \in 1..Len(metric.indexes)
        BY <3>1, RowFacts
      <4> QED
        BY <1>3, <2>2, <4>1
    <3> QED
      BY <1>1, <3>2, <3>3 DEF Put
  <2> QED
    BY <2>1, <2>2
<1>7. \A start : Begins(start, Encodings) => arcs' = After(input.arcs, start[k])
  BY <1>1, <1>4
<1>8. (phase = "indexes" =>
         /\ Correct(1..Taken)
         /\ \A start : Begins(start, Encodings) => arcs = After(input.arcs, start[Taken]))'
  BY <1>1, <1>2, <1>6, <1>7
<1>9. RowDecoded'
  BY <1>1 DEF RowDecoded
<1> QED
  BY <1>8, <1>9 DEF RowInv

\* No arcs are left when the row is decoded.
LEMMA RowUsedUp ==
  ASSUME TypeOK, RowInv, phase = "indexes", Taken = Len(input.row)
  PROVE  arcs = <<>>
<1> DEFINE all == FlattenSeq(Encodings)
<1>1. PICK start : Begins(start, Encodings)
  BY EncodingsFacts
<1>2. start[Len(input.row)] = Len(all)
  BY <1>1, EncodingsFacts DEF Begins
<1>3. arcs = After(input.arcs, Len(all))
  BY <1>1, <1>2 DEF RowInv
<1>4. Len(all) \in Nat /\ Len(input.arcs) \in Nat /\ Len(input.arcs) <= Len(all)
  BY RowFacts, EncodingsFacts DEF WithoutZeros
<1> HIDE DEF all
<1>5. SubSeq(input.arcs, Len(all) + 1, Len(input.arcs)) = <<>>
  <2>1. Len(input.arcs) < Len(all) + 1 /\ Len(all) + 1 \in Int /\ Len(input.arcs) \in Int
    BY <1>4
  <2> QED
    BY <2>1, SubSeqEmpty
<1> QED
  BY <1>3, <1>5 DEF After

\* An index that the generator appended: it changes no label of the row.
LEMMA AppendedDecoded ==
  ASSUME TypeOK, RowInv, DecodeIndex, next > Len(input.row)
  PROVE  RowInv'
<1> DEFINE index == metric.indexes[next]
           d == indexOidsAsString(arcs, index.type, index.fixedSize, index.implied, index.enumValues)
           L == Len(input.row)
<1>1. /\ phase = "indexes" /\ phase' = "indexes" /\ input' = input /\ next' = next + 1
      /\ labels' = Put(labels, index.labelname, d.text) /\ arcs' = d.rest
      /\ next <= Len(metric.indexes) /\ index.type \in IndexTypes
  BY DEF DecodeIndex, Rest
<1>2. /\ next \in 1..Len(metric.indexes) /\ L \in Nat /\ Own = 1..L
      /\ metric' = metric /\ Own' = Own /\ Encodings' = Encodings
      /\ Taken = L /\ Taken' = L
  <2>1. next \in 1..Len(metric.indexes) /\ L \in Nat /\ Own = 1..L
    BY <1>1, RowFacts DEF TypeOK
  <2>2. metric' = metric /\ Own' = Own /\ Encodings' = Encodings
    BY <1>1 DEF metric, Own, Encodings
  <2>3. Taken = L /\ Taken' = L
    BY <1>1, <2>1 DEF Taken
  <2> QED
    BY <2>1, <2>2, <2>3
<1>3. arcs = <<>> /\ arcs' = <<>>
  <2>1. arcs = <<>>
    BY <1>1, <1>2, RowUsedUp
  <2>2. index \in Indexes
    BY <1>2, RowFacts, ElementOfSeq
  <2>3. d.rest = <<>>
    BY <1>1, <2>1, <2>2, IndexNothing DEF Indexes
  <2> QED
    BY <1>1, <2>1, <2>3
<1> HIDE DEF d
<1>4. Correct(1..Taken)'
  <2> SUFFICES ASSUME NEW j \in 1..L
               PROVE  /\ metric.indexes[j].labelname \in DOMAIN labels'
                      /\ labels'[metric.indexes[j].labelname] = Meaning(metric.indexes[j], input.row[j])
    BY <1>1, <1>2 DEF Correct
  <2>1. /\ metric.indexes[j].labelname \in DOMAIN labels
        /\ labels[metric.indexes[j].labelname] = Meaning(metric.indexes[j], input.row[j])
    BY <1>1, <1>2 DEF RowInv, Correct
  <2>2. metric.indexes[j].labelname # index.labelname
    <3>1. j # next
      BY <1>2
    <3>2. j \in Own
      BY <1>2
    <3> QED
      BY <1>2, <3>1, <3>2, RowValue
  <2> QED
    BY <1>1, <2>1, <2>2 DEF Put
<1>5. (\A start : Begins(start, Encodings) => arcs = After(input.arcs, start[Taken]))'
  BY <1>1, <1>2, <1>3 DEF RowInv
<1>6. RowDecoded'
  BY <1>1 DEF RowDecoded
<1> QED
  BY <1>4, <1>5, <1>6 DEF RowInv

LEMMA RowStep == TypeOK /\ RowInv /\ [Next]_vars => RowInv'
<1> SUFFICES ASSUME TypeOK, RowInv, [Next]_vars PROVE RowInv'
  OBVIOUS
<1>1. CASE DecodeIndex
  <2>1. next \in Nat /\ Len(input.row) \in Nat
    BY <1>1, RowFacts DEF DecodeIndex, TypeOK
  <2> QED
    BY <1>1, <2>1, OwnDecoded, AppendedDecoded
<1>2. CASE IndexesDone
  <2>1. /\ phase = "indexes" /\ phase' = "lookups" /\ next > Len(metric.indexes)
        /\ UNCHANGED <<input, arcs, labels>>
    BY <1>2 DEF IndexesDone
  <2>2. Taken = Len(input.row) /\ Own = 1..Len(input.row)
    <3>1. next \in Nat
      BY <2>1, RowFacts DEF TypeOK
    <3> QED
      BY <2>1, <3>1, RowFacts DEF Taken
  <2>3. arcs = <<>>
    BY <2>1, <2>2, RowUsedUp
  <2>4. \A k \in Own : labels[metric.indexes[k].labelname] = Meaning(metric.indexes[k], input.row[k])
    BY <2>1, <2>2 DEF RowInv, Correct
  <2> QED
    BY <2>1, <2>3, <2>4 DEF RowInv, RowDecoded, metric, Own
<1>3. CASE DropLabel \/ LookupFound \/ LookupMissing
  <2>1. phase' = "lookups" /\ next' = next + 1 /\ next \in Nat /\ next >= 1
    BY <1>3, RowFacts DEF DropLabel, LookupFound, LookupMissing, LookingUp, TypeOK
  <2>2. next' # 1
    BY <2>1
  <2> QED
    BY <2>1, <2>2 DEF RowInv, RowDecoded
<1>4. CASE LookupsDone \/ UnknownIndexType \/ PduToSamples
  BY <1>4 DEF LookupsDone, UnknownIndexType, PduToSamples, RowInv, RowDecoded
<1>5. CASE UNCHANGED vars
  BY <1>5 DEF vars, RowInv, RowDecoded, Correct, Taken, Encodings, Own, metric
<1> QED
  BY <1>1, <1>2, <1>3, <1>4, <1>5 DEF Next, Done

LEMMA InitRow == Init => RowInv
<1> SUFFICES ASSUME Init PROVE RowInv
  OBVIOUS
<1>1. TypeOK
  BY InitTypes
<1>2. phase = "indexes" /\ next = 1 /\ arcs = input.arcs
  BY DEF Init
<1>3. Taken = 0 /\ 1..Taken = {}
  BY <1>1, <1>2, RowFacts DEF Taken
<1>4. ASSUME NEW start, Begins(start, Encodings) PROVE arcs = After(input.arcs, start[Taken])
  <2>1. start[0] = 0
    BY <1>4 DEF Begins
  <2>2. After(input.arcs, 0) = input.arcs
    BY <1>1, RowFacts, SubSeqFull DEF After
  <2> QED
    BY <1>2, <1>3, <2>1, <2>2
<1>5. RowDecoded
  BY <1>2 DEF RowDecoded
<1> QED
  BY <1>3, <1>4, <1>5 DEF RowInv, Correct

\* Whatever the types, sizes and number of a table's indexes, and whether or not
\* an agent leaves out zeros at the end: the labels are the values it encoded,
\* and no arcs are left.
THEOREM RowsDecoded == Spec => []RowDecoded
<1>1. RowInv => RowDecoded
  BY DEF RowInv
<1> QED
  BY <1>1, InitTypes, InitRow, TypeStep, RowStep, PTL DEF Spec

-----------------------------------------------------------------------------
(* Lookups, one after the other                                               *)

KeyTables(i) == [Names(i) -> Seq(Int)]

\* The call, as it is assumed to be.
LEMMA CallFacts ==
  ASSUME NEW i \in Inputs
  PROVE  /\ i.metric.indexes \in Seq(Indexes) /\ i.metric.lookups \in Seq(Lookups)
         /\ i.row \in Seq(RowValues) /\ Len(i.row) <= Len(i.metric.indexes)
         /\ IsRow(i.metric.indexes, i.row, i.arcs) /\ IsLinked(i)
         /\ \A oid \in DOMAIN i.oidToPdu : i.oidToPdu[oid] \in Values
         /\ Len(i.metric.lookups) \in Nat /\ DOMAIN i.metric.lookups = 1..Len(i.metric.lookups)
         /\ \A j \in 1..Len(i.metric.lookups) :
              i.metric.lookups[j] \in Lookups /\ i.metric.lookups[j].labels \in Seq(STRING)
<1>1. i.metric.indexes \in Seq(Indexes) /\ i.metric.lookups \in Seq(Lookups)
      /\ \A oid \in DOMAIN i.oidToPdu : i.oidToPdu[oid] \in Values
  BY LabelsAssumption
<1>2. IsRow(i.metric.indexes, i.row, i.arcs) /\ IsLinked(i)
  BY RowAssumption, LinkAssumption
<1>3. i.row \in Seq(RowValues) /\ Len(i.row) <= Len(i.metric.indexes)
  BY <1>2 DEF IsRow
<1>4. \A j \in 1..Len(i.metric.lookups) : i.metric.lookups[j] \in Lookups
  BY <1>1, ElementOfSeq
<1> QED
  BY <1>1, <1>2, <1>3, <1>4 DEF Lookups

\* The key of an index of the row is the only encoding for its label.
LEMMA IndexKeyOf ==
  ASSUME NEW i \in Inputs, NEW k \in DOMAIN i.row
  PROVE  /\ IndexKey(i, i.metric.indexes[k].labelname) = Encode(i.metric.indexes[k], i.row[k])
         /\ Encode(i.metric.indexes[k], i.row[k]) \in Seq(Nat)
<1> DEFINE label == i.metric.indexes[k].labelname
<1>1. DOMAIN i.row = 1..Len(i.row) /\ DOMAIN i.row \subseteq DOMAIN i.metric.indexes
      /\ DOMAIN i.metric.indexes = 1..Len(i.metric.indexes)
  BY CallFacts
<1>2. \A j \in DOMAIN i.row : i.metric.indexes[j].labelname = label => j = k
  BY <1>1, CallFacts DEF IsRow
<1>3. (CHOOSE j \in DOMAIN i.row : i.metric.indexes[j].labelname = label) = k
  BY <1>2
<1>4. IndexKey(i, label) = Encode(i.metric.indexes[k], i.row[k])
  BY <1>3 DEF IndexKey
<1>5. Fits(i.metric.indexes[k], i.row[k])
  BY CallFacts DEF IsRow
<1>6. i.metric.indexes[k] \in Indexes /\ i.row[k] \in RowValues
  <2>1. k \in 1..Len(i.row) /\ k \in 1..Len(i.metric.indexes)
    BY <1>1
  <2> QED
    BY <2>1, CallFacts, ElementOfSeq
<1> QED
  BY <1>4, <1>5, <1>6, EncodingType

LEMMA IndexKeyType ==
  ASSUME NEW i \in Inputs, NEW label
  PROVE  IndexKey(i, label) \in Seq(Int)
<1>1. CASE \E k \in DOMAIN i.row : i.metric.indexes[k].labelname = label
  <2>1. PICK k \in DOMAIN i.row : i.metric.indexes[k].labelname = label
    BY <1>1
  <2>2. IndexKey(i, label) \in Seq(Nat)
    BY <2>1, IndexKeyOf
  <2> HIDE DEF IndexKey
  <2> QED
    BY <2>2
<1>2. CASE ~\E k \in DOMAIN i.row : i.metric.indexes[k].labelname = label
  BY <1>2 DEF IndexKey, NoKey, NoArc
<1> QED
  BY <1>1, <1>2

LEMMA IntegerOfType == ASSUME NEW value \in Values PROVE IntegerOf(value) \in Int
BY DEF Values, IntegerOf

\* A lookup changes the key of its own label only.
ChangesOwnKey(i, lookup, keys, new) ==
  /\ new \in KeyTables(i)
  /\ lookup.labels = <<>> => new = keys
  /\ \A l \in Names(i) : l # lookup.labelname => new[l] = keys[l]
  /\ lookup.labels # <<>> =>
       new[lookup.labelname] =
         IF lookup.oid \o Link(lookup, keys) \in DOMAIN i.oidToPdu
           THEN <<IntegerOf(i.oidToPdu[lookup.oid \o Link(lookup, keys)])>> ELSE NoKey
LEMMA NextKeysFacts ==
  ASSUME NEW i \in Inputs, NEW j \in 1..Len(i.metric.lookups), NEW keys \in KeyTables(i),
         NEW lookup, lookup = i.metric.lookups[j],
         NEW new, new = NextKeys(i, lookup, keys)
  PROVE  ChangesOwnKey(i, lookup, keys, new)
<1> DEFINE key == lookup.oid \o Link(lookup, keys)
           result == IF key \in DOMAIN i.oidToPdu THEN <<IntegerOf(i.oidToPdu[key])>> ELSE NoKey
<1>1. lookup.labelname \in Names(i)
  BY CallFacts DEF Names
<1>2. result \in Seq(Int)
  <2>1. CASE key \in DOMAIN i.oidToPdu
    <3>1. i.oidToPdu[key] \in Values
      BY <2>1, CallFacts
    <3> HIDE DEF key
    <3>2. IntegerOf(i.oidToPdu[key]) \in Int
      BY <3>1, IntegerOfType
    <3> QED
      BY <2>1, <3>2
  <2>2. CASE key \notin DOMAIN i.oidToPdu
    BY <2>2 DEF NoKey, NoArc
  <2> QED
    BY <2>1, <2>2
<1>3. new = IF lookup.labels = <<>> THEN keys ELSE [keys EXCEPT ![lookup.labelname] = result]
  BY DEF NextKeys
<1> HIDE DEF result
<1>4. lookup.labels # <<>> => new[lookup.labelname] = result
  BY <1>1, <1>3 DEF KeyTables
<1>5. new \in KeyTables(i) /\ (lookup.labels = <<>> => new = keys)
      /\ \A l \in Names(i) : l # lookup.labelname => new[l] = keys[l]
  BY <1>1, <1>2, <1>3 DEF KeyTables
<1> QED
  BY <1>4, <1>5 DEF result, ChangesOwnKey

\* The keys before the first lookup, and after each.
LEMMA KeysFacts ==
  ASSUME NEW i \in Inputs, NEW L, L = Len(i.metric.lookups)
  PROVE  /\ Keys(i)[0] = [l \in Names(i) |-> IndexKey(i, l)]
         /\ \A n \in 1..L : Keys(i)[n] = NextKeys(i, i.metric.lookups[n], Keys(i)[n - 1])
         /\ \A n \in 0..L : Keys(i)[n] \in KeyTables(i)
<1> DEFINE X == KeyTables(i)
           first == [l \in Names(i) |-> IndexKey(i, l)]
           Step(keys, k) == NextKeys(i, i.metric.lookups[k], keys)
           G == [k \in 1..L |-> [keys \in X |-> Step(keys, k)]]
<1>1. L \in Nat
  BY CallFacts
<1>2. first \in X /\ \A k \in 1..L, keys \in X : Step(keys, k) \in X
  <2>1. first \in X
    BY IndexKeyType DEF KeyTables
  <2>2. ASSUME NEW k \in 1..L, NEW keys \in X PROVE Step(keys, k) \in X
    BY <2>2, NextKeysFacts DEF ChangesOwnKey
  <2> QED
    BY <2>1, <2>2
<1>3. IsStepFor(G, X, L) /\ \A k \in 1..L, keys \in X : G[k][keys] = Step(keys, k)
  <2> HIDE DEF Step, X
  <2> QED
    BY <1>2 DEF IsStepFor
<1>4. PICK f : f \in [0..L -> X] /\ f[0] = first /\ \A k \in 1..L : f[k] = Step(f[k - 1], k)
  <2> HIDE DEF G, X, Step, first
  <2>1. PICK f : Iterates(f, first, G, X, L)
    BY <1>1, <1>2, <1>3, RecursionTo
  <2>2. \A k \in 1..L : f[k - 1] \in X
    BY <1>1, <2>1 DEF Iterates
  <2> QED
    BY <1>3, <2>1, <2>2 DEF Iterates
<1> DEFINE After_(g) == g = [n \in 0..L |-> IF n = 0 THEN [l \in Names(i) |-> IndexKey(i, l)]
                                            ELSE NextKeys(i, i.metric.lookups[n], g[n - 1])]
           keys == CHOOSE g : After_(g)
<1>5. Keys(i) = keys
  BY DEF Keys
<1>6. After_(f)
  <2> HIDE DEF X
  <2>1. \A k \in 0..L : k # 0 => k \in 1..L
    BY <1>1
  <2> QED
    BY <1>4, <2>1
<1>7. After_(keys)
  <2> HIDE DEF After_
  <2> QED
    BY <1>6
<1>8. keys[0] = first /\ \A k \in 1..L : keys[k] = Step(keys[k - 1], k)
  <2> HIDE DEF keys, X, G
  <2>1. 0 \in 0..L /\ \A k \in 1..L : k \in 0..L /\ k # 0
    BY <1>1
  <2> QED
    BY <2>1, <1>7
<1> HIDE DEF keys
<1>9. \A k \in 0..L : keys[k] \in X
  <2> DEFINE S == {k \in 0..L : keys[k] \in X}
  <2>1. 0 \in S
    BY <1>1, <1>2, <1>8
  <2>2. ASSUME NEW k \in 1..L, k - 1 \in S PROVE k \in S
    <3> HIDE DEF X, Step
    <3> QED
      BY <1>1, <1>2, <1>8, <2>2
  <2> HIDE DEF S
  <2>3. \A k \in 0..L : k \in S
    BY <1>1, <2>1, <2>2, InductionTo
  <2> QED
    BY <2>3 DEF S
<1> QED
  BY <1>5, <1>8, <1>9

LEMMA BeginsWithItself == ASSUME NEW e \in Seq(Nat) PROVE BeginsWith(e, e)
BY DEF BeginsWith

\* A value that a lookup finds is shown in the form of its type.
LEMMA TextShown ==
  ASSUME NEW value \in Values, NEW typ, Showable(typ, value), CanShow(value, typ), NEW enumValues
  PROVE  (IF typ = "EnumAsInfo" /\ enumValues # {} THEN Enum(enumValues, IntegerOf(value))
          ELSE pduValueAsString(value, typ))
         = (IF value.kind = "integer" /\ typ = "EnumAsInfo" THEN Enum(enumValues, value.of)
            ELSE IF value.kind = "integer" THEN Decimal(value.of)
            ELSE Octets(IF typ \in {"", "Bits"} THEN "OctetString" ELSE typ, value.of))
<1>1. CASE value.kind = "integer"
  BY <1>1 DEF IntegerOf, pduValueAsString, Enum
<1>2. CASE value.kind # "integer"
  <2> DEFINE t == IF typ \in {"", "Bits"} THEN "OctetString" ELSE typ
             of == value.of
  <2>1. of \in Seq(0..255) /\ value.kind = "octets"
    BY <1>2 DEF Values
  <2>2. \/ typ \in Strings \cup {"", "Bits"}
        \/ typ \in DOMAIN Addresses /\ Len(of) = Addresses[typ]
    BY <2>1 DEF Showable
  <2>3. typ # "EnumAsInfo"
    BY <2>2 DEF Strings, Addresses
  <2>4. pduValueAsString(value, typ)
          = indexOidsAsString(IF t \in Strings THEN <<Len(of)>> \o of ELSE of, t, 0, FALSE, {}).text
    BY <1>2 DEF pduValueAsString
  <2>5. CASE t \in Strings
    <3> DEFINE e == <<Len(of)>> \o of
    <3>1. indexOidsAsString(e, t, 0, FALSE, {}) = StringIndex(e, t, 0, FALSE, {})
      <4>1. t \notin Combined /\ t \notin Numbers /\ t # "EnumAsInfo" /\ t \notin DOMAIN Addresses
        BY <2>5, IndexTypesApart DEF Numbers, Addresses, Strings, Sized
      <4> HIDE DEF t, e
      <4> QED
        BY <2>5, <4>1 DEF indexOidsAsString, SimpleIndex
    <3>2. e \in Seq(Nat)
      <4>1. <<Len(of)>> \in Seq(Nat) /\ of \in Seq(Nat)
        BY <2>1, BytesAreArcs
      <4> QED
        BY <4>1, ConcatProperties
    <3>3. BeginsWith(e, e)
      <4> HIDE DEF e
      <4> QED
        BY <3>2, BeginsWithItself
    <3> DEFINE none == 0
    <3>4. none \in Nat /\ (none > 0 => Len(of) = none) /\ e = IF none > 0 THEN of ELSE <<Len(of)>> \o of
      OBVIOUS
    <3> HIDE DEF e, t, of, none
    <3>6. TakesOff(StringIndex(e, t, none, FALSE, {}), Octets(t, of), e, e)
      BY <2>1, <2>5, <3>2, <3>3, <3>4, StringTakenOff, ZenonT(40)
    <3>5. TakesOff(StringIndex(e, t, 0, FALSE, {}), Octets(t, of), e, e)
      BY <3>6 DEF none
    <3> QED
      BY <1>2, <2>3, <2>4, <2>5, <3>1, <3>5 DEF TakesOff, e, t, of
  <2>6. CASE t \notin Strings
    <3>1. typ \in DOMAIN Addresses /\ Len(of) = Addresses[typ] /\ t = typ /\ of \in Seq(Nat)
      BY <2>1, <2>2, <2>6, BytesAreArcs DEF Strings
    <3>2. typ \notin Combined
      BY <3>1, IndexTypesApart
    <3>3. indexOidsAsString(of, typ, 0, FALSE, {}) = SimpleIndex(of, typ, 0, FALSE, {})
      BY <3>2 DEF indexOidsAsString
    <3> HIDE DEF of, t
    <3>4. BeginsWith(of, of)
      BY <3>1, BeginsWithItself
    <3>5. TakesOff(SimpleIndex(of, typ, 0, FALSE, {}), Octets(typ, of), of, of)
      BY <3>1, <3>4, AddressTakenOff
    <3> QED
      BY <1>2, <2>3, <2>4, <2>6, <3>1, <3>3, <3>5 DEF TakesOff, t, of
  <2> QED
    BY <2>5, <2>6
<1> QED
  BY <1>1, <1>2

-----------------------------------------------------------------------------
(* The labels follow the links                                                *)

LookedUp(l, n) ==
  \E h \in 1..(n - 1) : metric.lookups[h].labelname = l /\ metric.lookups[h].labels # <<>>
\* An index that the generator appended, before the first lookup for it.
Waiting(l, n) ==
  /\ \E k \in DOMAIN metric.indexes : k \notin Own /\ metric.indexes[k].labelname = l
  /\ ~LookedUp(l, n)
\* Before lookup n: the arcs of the labels that it and those that follow use.
KeysAgree(n) ==
  \A j \in n..Len(metric.lookups) : \A l \in ToSet(metric.lookups[j].labels) :
    Waiting(l, n) \/ LabelOid(l) = Keys(input)[n - 1][l]
\* Only indexes and lookups have arcs.
Known(n) ==
  \A l \in DOMAIN labelOids :
    \/ \E k \in DOMAIN metric.indexes : metric.indexes[k].labelname = l
    \/ \E h \in 1..(n - 1) : metric.lookups[h].labelname = l
ShownAt(j) ==
  LET label == metric.lookups[j].labelname
  IN  IF metric.lookups[j].labels = <<>> THEN label \notin DOMAIN labels
      ELSE label \in DOMAIN labels /\ labels[label] = Shown(input, j)
\* After n lookups, each label is as the last of them for it left it.
FollowedTo(n) ==
  \A j \in 1..n :
    (\A k \in 1..n : k > j => metric.lookups[k].labelname # metric.lookups[j].labelname) => ShownAt(j)
\* The arcs of the labels decoded so far are their encodings.
Keyed ==
  /\ \A l \in DOMAIN labelOids : \E k \in 1..(next - 1) : metric.indexes[k].labelname = l
  /\ \A k \in 1..Taken :
       /\ metric.indexes[k].labelname \in DOMAIN labelOids
       /\ Encodings[k] # <<>> => labelOids[metric.indexes[k].labelname] = Encodings[k]
LinkInv ==
  /\ phase = "indexes" => Keyed
  /\ phase = "lookups" =>
       /\ Known(next)
       /\ ~Leftover(input) => KeysAgree(next) /\ FollowedTo(next - 1)
  /\ LookupsFollowed

\* One more label is decoded; its arcs are those of its encoding.
LEMMA KeyedStep ==
  ASSUME TypeOK, RowInv, Keyed, DecodeIndex
  PROVE  Keyed'
<1> DEFINE k == next
           index == metric.indexes[k]
           d == indexOidsAsString(arcs, index.type, index.fixedSize, index.implied, index.enumValues)
           L == Len(input.row)
<1>1. /\ phase = "indexes" /\ input' = input /\ next' = next + 1
      /\ labelOids' = Put(labelOids, index.labelname, d.used)
      /\ next <= Len(metric.indexes)
  BY DEF DecodeIndex
<1>2. /\ next \in 1..Len(metric.indexes) /\ L \in Nat /\ L <= Len(metric.indexes) /\ Own = 1..L
      /\ metric' = metric /\ Own' = Own /\ Encodings' = Encodings
  <2>1. next \in 1..Len(metric.indexes) /\ L \in Nat /\ Own = 1..L /\ L <= Len(metric.indexes)
    BY <1>1, RowFacts DEF TypeOK
  <2>2. metric' = metric /\ Own' = Own /\ Encodings' = Encodings
    BY <1>1 DEF metric, Own, Encodings
  <2> QED
    BY <2>1, <2>2
<1>3. /\ Taken = IF k <= L THEN k - 1 ELSE L
      /\ Taken' = IF k + 1 <= L THEN k ELSE L
  BY <1>1, <1>2 DEF Taken
<1>4. k \in Own /\ Encodings[k] # <<>> => d.used = Encodings[k]
  <2> SUFFICES ASSUME k \in Own, Encodings[k] # <<>> PROVE d.used = Encodings[k]
    OBVIOUS
  <2> DEFINE value == input.row[k]
             e == Encode(index, value)
  <2>1. PICK start : Begins(start, Encodings)
    BY EncodingsFacts
  <2>2. Taken = k - 1
    BY <1>2, <1>3
  <2>3. arcs = After(input.arcs, start[k - 1])
    BY <1>1, <2>1, <2>2 DEF RowInv
  <2>4. BeginsWith(arcs, e) /\ (TakesRest(index, value) => arcs = e)
    <3> HIDE DEF k
    <3> QED
      BY <2>1, <2>3, NextEncoding
  <2>5. index \in Indexes /\ value \in RowValues /\ Fits(index, value) /\ arcs \in Seq(Nat)
    BY RowValue DEF TypeOK
  <2>6. TakesOff(d, Meaning(index, value), arcs, e)
    <3> HIDE DEF index, value
    <3> QED
      BY <2>4, <2>5, IndexTakenOff
  <2>7. Encodings[k] = e
    BY DEF Encodings
  <2> QED
    BY <2>6, <2>7 DEF TakesOff
<1> HIDE DEF d
<1>5. \A l \in DOMAIN labelOids' : \E j \in 1..(next' - 1) : metric.indexes[j].labelname = l
  <2> SUFFICES ASSUME NEW l \in DOMAIN labelOids'
               PROVE  \E j \in 1..k : metric.indexes[j].labelname = l
    BY <1>1, <1>2
  <2>1. CASE l = index.labelname
    BY <1>2, <2>1
  <2>2. CASE l # index.labelname
    <3>1. l \in DOMAIN labelOids
      BY <1>1, <2>2 DEF Put
    <3>2. PICK j \in 1..(k - 1) : metric.indexes[j].labelname = l
      BY <3>1 DEF Keyed
    <3> QED
      BY <1>2, <3>2
  <2> QED
    BY <2>1, <2>2
<1>6. ASSUME NEW j \in 1..Taken'
      PROVE  /\ metric.indexes[j].labelname \in DOMAIN labelOids'
             /\ Encodings[j] # <<>> => labelOids'[metric.indexes[j].labelname] = Encodings[j]
  <2>1. j \in Own /\ j \in 1..Len(metric.indexes)
    BY <1>2, <1>3
  <2>2. CASE j = k
    BY <1>1, <1>4, <2>1, <2>2 DEF Put
  <2>3. CASE j # k
    <3>1. j \in 1..Taken
      BY <1>2, <1>3, <2>1, <2>3
    <3>2. metric.indexes[j].labelname # index.labelname
      BY <1>2, <2>1, <2>3, RowValue
    <3>3. /\ metric.indexes[j].labelname \in DOMAIN labelOids
          /\ Encodings[j] # <<>> => labelOids[metric.indexes[j].labelname] = Encodings[j]
      BY <3>1 DEF Keyed
    <3> QED
      BY <1>1, <3>2, <3>3 DEF Put
  <2> QED
    BY <2>2, <2>3
<1> QED
  BY <1>2, <1>5, <1>6 DEF Keyed

\* What the lookups start from: of each label one of them uses, the encoding of
\* the row's index, or no arcs.
LEMMA KeysBegin ==
  ASSUME TypeOK, phase = "indexes", Keyed, Taken = Len(input.row), next <= Len(metric.indexes) + 1
  PROVE  Known(1) /\ KeysAgree(1)
<1>1. /\ input \in Inputs /\ metric = input.metric /\ Own = 1..Len(input.row) /\ Own = DOMAIN input.row
      /\ DOMAIN metric.indexes = 1..Len(metric.indexes) /\ next \in Nat
  BY RowFacts DEF TypeOK, metric, Own
<1>2. \A l \in DOMAIN labelOids : \E k \in DOMAIN metric.indexes : metric.indexes[k].labelname = l
  <2>1. 1..(next - 1) \subseteq DOMAIN metric.indexes
    BY <1>1, RowFacts
  <2> QED
    BY <2>1 DEF Keyed
<1>3. ASSUME NEW j \in 1..Len(metric.lookups), NEW l \in ToSet(metric.lookups[j].labels),
             ~Waiting(l, 1)
      PROVE  LabelOid(l) = Keys(input)[0][l]
  <2>1. l \in Names(input) /\ j \in DOMAIN input.metric.lookups
    BY <1>1, CallFacts DEF Names
  <2>2. Keys(input)[0][l] = IndexKey(input, l)
    BY <1>1, <2>1, KeysFacts
  <2>3. ASSUME NEW k \in Own, metric.indexes[k].labelname = l PROVE LabelOid(l) = IndexKey(input, l)
    <3>1. IndexKey(input, l) = Encode(metric.indexes[k], input.row[k])
      BY <1>1, <2>3, IndexKeyOf
    <3>2. Encode(metric.indexes[k], input.row[k]) # <<>>
      <4>1. IsLinked(input) /\ k \in DOMAIN input.metric.indexes /\ k \in DOMAIN input.row
        BY <1>1, RowFacts, CallFacts
      <4> QED
        BY <1>1, <1>3, <2>1, <2>3, <4>1 DEF IsLinked
    <3>3. Encodings[k] = Encode(metric.indexes[k], input.row[k]) /\ k \in 1..Taken
      BY <1>1 DEF Encodings
    <3> QED
      BY <2>3, <3>1, <3>2, <3>3 DEF Keyed, LabelOid
  <2>4. CASE ~\E k \in Own : metric.indexes[k].labelname = l
    <3>1. ~\E k \in DOMAIN metric.indexes : metric.indexes[k].labelname = l
      BY <1>3, <2>4 DEF Waiting, LookedUp
    <3>2. l \notin DOMAIN labelOids
      BY <1>2, <3>1
    <3>3. IndexKey(input, l) = NoKey
      BY <1>1, <2>4 DEF IndexKey
    <3> QED
      BY <2>2, <3>2, <3>3 DEF LabelOid, NoKey
  <2> QED
    BY <2>2, <2>3, <2>4
<1>4. 1 - 1 = 0
  OBVIOUS
<1> QED
  BY <1>2, <1>3, <1>4 DEF Known, KeysAgree

\* The object that lookup n asks for is the one its sources lead to.
LEMMA AsksForTarget ==
  ASSUME TypeOK, LookingUp, KeysAgree(next)
  PROVE  /\ SourceOids(metric.lookups[next]) = Link(metric.lookups[next], Keys(input)[next - 1])
         /\ LookupOid(metric.lookups[next]) = Target(input, next)
         /\ LookupType(metric.lookups[next]) = TargetType(input, next)
<1> DEFINE n == next
           lookup == metric.lookups[n]
           keys == Keys(input)[n - 1]
<1>1. /\ input \in Inputs /\ metric = input.metric /\ n \in 1..Len(metric.lookups) /\ n \in Nat
      /\ lookup.labels \in Seq(STRING) /\ n \in DOMAIN input.metric.lookups /\ oidToPdu = input.oidToPdu
  <2>1. input \in Inputs /\ metric = input.metric /\ n \in 1..Len(metric.lookups)
    BY RowFacts DEF TypeOK, LookingUp, metric
  <2> QED
    BY <2>1, CallFacts DEF oidToPdu
<1>2. ASSUME NEW m \in DOMAIN lookup.labels PROVE LabelOid(lookup.labels[m]) = keys[lookup.labels[m]]
  <2> DEFINE l == lookup.labels[m]
  <2>1. l \in ToSet(lookup.labels)
    BY DEF ToSet
  <2>2. ~Waiting(l, n)
    <3> SUFFICES ASSUME NEW k \in DOMAIN metric.indexes, k \notin Own, metric.indexes[k].labelname = l
                 PROVE  \E h \in 1..(n - 1) : metric.lookups[h].labelname = l /\ metric.lookups[h].labels # <<>>
      BY DEF Waiting, LookedUp
    <3>1. IsLinked(input) /\ Own = DOMAIN input.row
      BY <1>1, CallFacts DEF Own
    <3> HIDE DEF n, l
    <3> QED
      BY <1>1, <2>1, <3>1, ZenonT(40) DEF IsLinked
  <2>3. n \in n..Len(metric.lookups)
    BY <1>1
  <2> QED
    BY <2>1, <2>2, <2>3 DEF KeysAgree
<1>3. SourceOids(lookup) = Link(lookup, keys)
  <2>1. [m \in DOMAIN lookup.labels |-> LabelOid(lookup.labels[m])]
          = [m \in DOMAIN lookup.labels |-> keys[lookup.labels[m]]]
    BY <1>2
  <2> HIDE DEF keys
  <2> QED
    BY <2>1 DEF SourceOids, Link
<1>4. LookupOid(lookup) = Target(input, n)
  BY <1>1, <1>3 DEF LookupOid, Target
<1>5. LookupType(lookup) = TargetType(input, n)
  BY <1>1, <1>3 DEF LookupType, TargetType, Subtype
<1> QED
  BY <1>3, <1>4, <1>5

\* Labels that lookup n is not for are as they were.
Untouched(n) ==
  \A l : l # metric.lookups[n].labelname =>
    /\ l \in DOMAIN labels' <=> l \in DOMAIN labels
    /\ l \in DOMAIN labels => labels'[l] = labels[l]
    /\ LabelOid(l)' = LabelOid(l)
    /\ l \in DOMAIN labelOids' <=> l \in DOMAIN labelOids

\* When lookup n leaves its label as it should, and the arcs the lookups after
\* it use, the invariant holds after it.
LEMMA LookupKeeps ==
  ASSUME TypeOK, LinkInv, LookingUp, input' = input, phase' = phase,
         NEW n, n = next, next' = n + 1, Untouched(n),
         NEW lookup, lookup = metric.lookups[n],
         ~Leftover(input) => ShownAt(n)',
         ~Leftover(input) =>
           \A j \in (n + 1)..Len(metric.lookups) :
             lookup.labelname \in ToSet(metric.lookups[j].labels) =>
               \/ Waiting(lookup.labelname, n + 1)
               \/ LabelOid(lookup.labelname)' = Keys(input)[n][lookup.labelname]
  PROVE  LinkInv'
<1> DEFINE L == Len(metric.lookups)
<1>1. /\ input \in Inputs /\ metric = input.metric /\ metric' = metric /\ Own' = Own
      /\ phase = "lookups" /\ n \in 1..L /\ n \in Nat /\ L \in Nat
  BY RowFacts DEF TypeOK, LookingUp, metric, Own
<1>2. Known(next)'
  <2> SUFFICES ASSUME NEW l \in DOMAIN labelOids'
               PROVE  \/ \E k \in DOMAIN metric.indexes : metric.indexes[k].labelname = l
                      \/ \E h \in 1..n : metric.lookups[h].labelname = l
    BY <1>1 DEF Known
  <2>1. CASE l = lookup.labelname
    BY <1>1, <2>1
  <2>2. CASE l # lookup.labelname
    <3>1. l \in DOMAIN labelOids
      BY <2>2 DEF Untouched
    <3>2. \/ \E k \in DOMAIN metric.indexes : metric.indexes[k].labelname = l
          \/ \E h \in 1..(n - 1) : metric.lookups[h].labelname = l
      BY <1>1, <3>1 DEF LinkInv, Known
    <3>3. 1..(n - 1) \subseteq 1..n
      BY <1>1
    <3> QED
      BY <3>2, <3>3
  <2> QED
    BY <2>1, <2>2
<1>3. ASSUME ~Leftover(input) PROVE KeysAgree(next)'
  <2> SUFFICES ASSUME NEW j \in (n + 1)..L, NEW l \in ToSet(metric.lookups[j].labels)
               PROVE  Waiting(l, n + 1) \/ LabelOid(l)' = Keys(input)[n][l]
    BY <1>1 DEF KeysAgree, Waiting, LookedUp
  <2>1. CASE l = lookup.labelname
    BY <1>3, <2>1
  <2>2. CASE l # lookup.labelname
    <3>1. j \in n..L /\ KeysAgree(n)
      BY <1>1, <1>3 DEF LinkInv
    <3>2. Waiting(l, n) \/ LabelOid(l) = Keys(input)[n - 1][l]
      BY <3>1 DEF KeysAgree
    <3>3. Waiting(l, n) => Waiting(l, n + 1)
      <4>1. ASSUME LookedUp(l, n + 1) PROVE LookedUp(l, n)
        <5>1. PICK h \in 1..n : metric.lookups[h].labelname = l /\ metric.lookups[h].labels # <<>>
          <6>1. (n + 1) - 1 = n
            BY <1>1
          <6> QED
            BY <4>1, <6>1 DEF LookedUp
        <5>2. h \in 1..(n - 1)
          BY <1>1, <2>2, <5>1
        <5> QED
          BY <5>1, <5>2 DEF LookedUp
      <4> QED
        BY <4>1 DEF Waiting
    <3>4. l \in Names(input)
      <4>1. j \in DOMAIN input.metric.lookups
        BY <1>1, CallFacts
      <4> QED
        BY <1>1, <4>1 DEF Names
    <3>5. Keys(input)[n][l] = Keys(input)[n - 1][l]
      <4> DEFINE old == Keys(input)[n - 1]
                 new == Keys(input)[n]
      <4>1. L = Len(input.metric.lookups) /\ n \in 1..L /\ n - 1 \in 0..L /\ lookup = input.metric.lookups[n]
        BY <1>1
      <4> HIDE DEF L
      <4>2. new = NextKeys(input, lookup, old) /\ old \in KeyTables(input)
        BY <1>1, <4>1, KeysFacts
      <4> HIDE DEF old, new
      <4>3. ChangesOwnKey(input, lookup, old, new)
        BY <1>1, <4>1, <4>2, NextKeysFacts
      <4>4. new[l] = old[l]
        BY <2>2, <3>4, <4>3 DEF ChangesOwnKey
      <4> QED
        BY <4>4 DEF old, new
    <3> QED
      BY <2>2, <3>2, <3>3, <3>5 DEF Untouched
  <2> QED
    BY <2>1, <2>2
<1>4. ASSUME ~Leftover(input) PROVE FollowedTo(next - 1)'
  <2> SUFFICES ASSUME NEW j \in 1..n,
                      \A k \in 1..n : k > j => metric.lookups[k].labelname # metric.lookups[j].labelname
               PROVE  ShownAt(j)'
    <3>1. next' - 1 = n
      BY <1>1
    <3> QED
      BY <1>1, <3>1 DEF FollowedTo
  <2>1. CASE j = n
    BY <1>4, <2>1
  <2>2. CASE j # n
    <3>1. j \in 1..(n - 1) /\ n > j
      BY <1>1, <2>2
    <3>2. metric.lookups[j].labelname # lookup.labelname
      BY <1>1, <3>1
    <3>3. \A k \in 1..(n - 1) : k > j => metric.lookups[k].labelname # metric.lookups[j].labelname
      BY <1>1
    <3>4. ShownAt(j)
      BY <1>1, <1>4, <3>1, <3>3 DEF LinkInv, FollowedTo
    <3> QED
      BY <1>1, <3>2, <3>4 DEF ShownAt, Untouched
  <2> QED
    BY <2>1, <2>2
<1>5. LookupsFollowed'
  BY <1>1 DEF LookupsFollowed, Followed
<1>6. phase' = "lookups" /\ Leftover(input)' = Leftover(input)
  BY <1>1
<1> QED
  BY <1>2, <1>3, <1>4, <1>5, <1>6 DEF LinkInv

\* The key of the label of lookup n after it.
LEMMA KeyAfter ==
  ASSUME TypeOK, LookingUp, NEW n, n = next, NEW lookup, lookup = metric.lookups[n], lookup.labels # <<>>
  PROVE  Keys(input)[n][lookup.labelname] =
           IF Target(input, n) \in DOMAIN oidToPdu THEN <<IntegerOf(oidToPdu[Target(input, n)])>> ELSE NoKey
<1> DEFINE old == Keys(input)[n - 1]
           new == Keys(input)[n]
           L == Len(input.metric.lookups)
<1>1. input \in Inputs /\ n \in 1..L /\ n - 1 \in 0..L /\ lookup = input.metric.lookups[n]
  BY RowFacts DEF TypeOK, LookingUp, metric
<1>2. Target(input, n) = lookup.oid \o Link(lookup, old)
  BY <1>1 DEF Target
<1> HIDE DEF L
<1>3. new = NextKeys(input, lookup, old) /\ old \in KeyTables(input)
  BY <1>1, KeysFacts DEF L
<1> HIDE DEF old, new
<1>4. ChangesOwnKey(input, lookup, old, new)
  BY <1>1, <1>3, NextKeysFacts DEF L
<1> QED
  BY <1>2, <1>4 DEF ChangesOwnKey, new, oidToPdu

\* A label is dropped: its arcs and key stay as they are.
LEMMA DropStep ==
  ASSUME TypeOK, LinkInv, DropLabel, NEW n, n = next, NEW lookup, lookup = metric.lookups[n]
  PROVE  LinkInv'
<1> DEFINE L == Len(metric.lookups)
<1>1. /\ LookingUp /\ lookup.labels = <<>> /\ next' = n + 1 /\ input' = input /\ phase' = phase
      /\ labels' = [l \in DOMAIN labels \ {lookup.labelname} |-> labels[l]] /\ labelOids' = labelOids
  BY DEF DropLabel
<1>2. /\ input \in Inputs /\ metric = input.metric /\ metric' = metric
      /\ n \in 1..L /\ n \in Nat /\ L \in Nat /\ phase = "lookups"
  BY <1>1, RowFacts DEF TypeOK, LookingUp, metric
<1>3. Untouched(n)
  BY <1>1 DEF Untouched, LabelOid
<1>4. ShownAt(n)'
  BY <1>1, <1>2 DEF ShownAt
<1>5. ASSUME ~Leftover(input), NEW j \in (n + 1)..L, lookup.labelname \in ToSet(metric.lookups[j].labels)
      PROVE  \/ Waiting(lookup.labelname, n + 1)
             \/ LabelOid(lookup.labelname)' = Keys(input)[n][lookup.labelname]
  <2> DEFINE l == lookup.labelname
  <2>1. j \in n..L /\ KeysAgree(n)
    BY <1>2, <1>5 DEF LinkInv
  <2>2. Waiting(l, n) \/ LabelOid(l) = Keys(input)[n - 1][l]
    BY <1>5, <2>1 DEF KeysAgree
  <2>3. Waiting(l, n) => Waiting(l, n + 1)
    <3>1. ASSUME LookedUp(l, n + 1) PROVE LookedUp(l, n)
      <4>1. PICK h \in 1..n : metric.lookups[h].labelname = l /\ metric.lookups[h].labels # <<>>
        <5>1. (n + 1) - 1 = n
          BY <1>2
        <5> QED
          BY <3>1, <5>1 DEF LookedUp
      <4>2. h \in 1..(n - 1)
        BY <1>1, <1>2, <4>1
      <4> QED
        BY <4>1, <4>2 DEF LookedUp
    <3> QED
      BY <3>1 DEF Waiting
  <2>4. Keys(input)[n] = Keys(input)[n - 1]
    <3> DEFINE M == Len(input.metric.lookups)
               old == Keys(input)[n - 1]
               new == Keys(input)[n]
    <3>1. n \in 1..M /\ n - 1 \in 0..M /\ lookup = input.metric.lookups[n]
      BY <1>2
    <3> HIDE DEF M
    <3>2. new = NextKeys(input, lookup, old) /\ old \in KeyTables(input)
      BY <1>2, <3>1, KeysFacts DEF M
    <3> HIDE DEF old, new
    <3>3. ChangesOwnKey(input, lookup, old, new)
      BY <1>2, <3>1, <3>2, NextKeysFacts DEF M
    <3> QED
      BY <1>1, <3>3 DEF ChangesOwnKey, old, new
  <2>5. LabelOid(l)' = LabelOid(l)
    BY <1>1 DEF LabelOid
  <2> QED
    BY <2>2, <2>3, <2>4, <2>5
<1> QED
  BY <1>1, <1>3, <1>4, <1>5, LookupKeeps

\* The object is there: the label shows it, and its number is the next key.
LEMMA FoundStep ==
  ASSUME TypeOK, LinkInv, LookupFound, NEW n, n = next, NEW lookup, lookup = metric.lookups[n]
  PROVE  LinkInv'
<1> DEFINE l == lookup.labelname
           value == oidToPdu[LookupOid(lookup)]
<1>1. /\ LookingUp /\ lookup.labels # <<>> /\ next' = n + 1 /\ input' = input /\ phase' = phase
      /\ LookupOid(lookup) \in DOMAIN oidToPdu /\ CanShow(value, LookupType(lookup))
      /\ labels' = Put(labels, l, LookupText(lookup, value))
      /\ labelOids' = Put(labelOids, l, <<IntegerOf(value)>>)
  BY DEF LookupFound, ResultOid
<1>2. /\ input \in Inputs /\ metric = input.metric /\ metric' = metric /\ oidToPdu = input.oidToPdu
      /\ n \in 1..Len(metric.lookups) /\ n \in DOMAIN input.metric.lookups /\ phase = "lookups"
  <2>1. input \in Inputs /\ n \in 1..Len(metric.lookups)
    BY <1>1, RowFacts DEF TypeOK, LookingUp
  <2> QED
    BY <1>1, <2>1, CallFacts DEF LookingUp, metric, oidToPdu
<1>3. Untouched(n)
  <2> HIDE DEF value
  <2> QED
    BY <1>1 DEF Untouched, LabelOid, Put
<1>4. ASSUME ~Leftover(input)
      PROVE  LookupOid(lookup) = Target(input, n) /\ LookupType(lookup) = TargetType(input, n)
  <2>1. KeysAgree(next)
    BY <1>2, <1>4 DEF LinkInv
  <2> QED
    BY <1>1, <2>1, AsksForTarget
<1>5. ASSUME ~Leftover(input) PROVE ShownAt(n)'
  <2>1. LookupText(lookup, value) = Shown(input, n)
    <3> DEFINE typ == TargetType(input, n)
    <3>1. value = input.oidToPdu[Target(input, n)] /\ Target(input, n) \in DOMAIN input.oidToPdu
      BY <1>1, <1>2, <1>4, <1>5
    <3>2. value \in Values
      BY <1>2, <3>1, CallFacts
    <3>3. Showable(typ, value)
      <4>1. IsLinked(input)
        BY <1>2, CallFacts
      <4> HIDE DEF value
      <4> QED
        BY <1>2, <3>1, <4>1 DEF IsLinked
    <3>4. LookupType(lookup) = typ /\ CanShow(value, typ)
      BY <1>1, <1>4, <1>5
    <3> HIDE DEF value, typ
    <3>5. LookupText(lookup, value) =
            IF typ = "EnumAsInfo" /\ lookup.enumValues # {} THEN Enum(lookup.enumValues, IntegerOf(value))
            ELSE pduValueAsString(value, typ)
      BY <3>4 DEF LookupText
    <3>6. Shown(input, n) =
            IF value.kind = "integer" /\ typ = "EnumAsInfo" THEN Enum(lookup.enumValues, value.of)
            ELSE IF value.kind = "integer" THEN Decimal(value.of)
            ELSE Octets(IF typ \in {"", "Bits"} THEN "OctetString" ELSE typ, value.of)
      BY <1>2, <3>1 DEF Shown, typ
    <3> QED
      BY <3>2, <3>3, <3>4, <3>5, <3>6, TextShown
  <2>2. l \in DOMAIN labels' /\ labels'[l] = Shown(input, n)
    BY <1>1, <2>1 DEF Put
  <2> QED
    BY <1>1, <1>2, <2>2 DEF ShownAt
<1>6. ASSUME ~Leftover(input) PROVE LabelOid(l)' = Keys(input)[n][l]
  <2>1. Keys(input)[n][l] = <<IntegerOf(value)>>
    BY <1>1, <1>2, <1>4, <1>6, KeyAfter
  <2>2. LabelOid(l)' = <<IntegerOf(value)>>
    <3> HIDE DEF value
    <3> QED
      BY <1>1 DEF LabelOid, Put
  <2> QED
    BY <2>1, <2>2
<1> QED
  BY <1>1, <1>3, <1>5, <1>6, LookupKeeps

\* The object is missing: the label is empty, and what is not left over is no key.
LEMMA MissingStep ==
  ASSUME TypeOK, LinkInv, LookupMissing, NEW n, n = next, NEW lookup, lookup = metric.lookups[n]
  PROVE  LinkInv'
<1> DEFINE l == lookup.labelname
<1>1. /\ LookingUp /\ lookup.labels # <<>> /\ next' = n + 1 /\ input' = input /\ phase' = phase
      /\ LookupOid(lookup) \notin DOMAIN oidToPdu
      /\ labels' = Put(labels, l, EmptyText) /\ labelOids' = labelOids
  BY DEF LookupMissing
<1>2. /\ input \in Inputs /\ metric = input.metric /\ metric' = metric /\ oidToPdu = input.oidToPdu
      /\ n \in 1..Len(metric.lookups) /\ DOMAIN input.metric.lookups = 1..Len(metric.lookups)
      /\ phase = "lookups"
  <2>1. input \in Inputs /\ n \in 1..Len(metric.lookups)
    BY <1>1, RowFacts DEF TypeOK, LookingUp
  <2> QED
    BY <1>1, <2>1, CallFacts DEF LookingUp, metric, oidToPdu
<1>3. Untouched(n)
  BY <1>1 DEF Untouched, LabelOid, Put
<1>4. ASSUME ~Leftover(input) PROVE Target(input, n) \notin DOMAIN input.oidToPdu
  <2>1. KeysAgree(next)
    BY <1>2, <1>4 DEF LinkInv
  <2> QED
    BY <1>1, <1>2, <2>1, AsksForTarget
<1>5. ASSUME ~Leftover(input) PROVE ShownAt(n)'
  <2>1. Shown(input, n) = EmptyText
    BY <1>4, <1>5 DEF Shown
  <2>2. l \in DOMAIN labels' /\ labels'[l] = Shown(input, n)
    BY <1>1, <2>1 DEF Put
  <2> QED
    BY <1>1, <1>2, <2>2 DEF ShownAt
<1>6. ASSUME ~Leftover(input), NEW j \in (n + 1)..Len(metric.lookups), l \in ToSet(metric.lookups[j].labels)
      PROVE  LabelOid(l)' = Keys(input)[n][l]
  <2>1. Keys(input)[n][l] = NoKey
    BY <1>1, <1>2, <1>4, <1>6, KeyAfter
  <2>2. j \in DOMAIN input.metric.lookups /\ j > n
    BY <1>2, <1>6
  <2>3. /\ ~\E k \in DOMAIN metric.indexes : metric.indexes[k].labelname = l
        /\ ~\E h \in 1..(n - 1) : metric.lookups[h].labelname = l
    BY <1>1, <1>2, <1>4, <1>6, <2>2 DEF Leftover
  <2>4. l \notin DOMAIN labelOids
    <3>1. Known(n)
      BY <1>2 DEF LinkInv
    <3> QED
      BY <2>3, <3>1 DEF Known
  <2> QED
    BY <1>1, <2>1, <2>4 DEF LabelOid, NoKey
<1> QED
  BY <1>1, <1>3, <1>5, <1>6, LookupKeeps

LEMMA LinkStep ==
  ASSUME TypeOK, RowInv, LinkInv, [Next]_vars
  PROVE  LinkInv'
<1>1. CASE DecodeIndex
  <2>1. phase = "indexes" /\ phase' = "indexes"
    BY <1>1 DEF DecodeIndex
  <2>2. Keyed'
    BY <1>1, <2>1, KeyedStep DEF LinkInv
  <2> QED
    BY <2>1, <2>2 DEF LinkInv, LookupsFollowed, Followed
<1>2. CASE IndexesDone
  <2>1. /\ phase = "indexes" /\ phase' = "lookups" /\ next' = 1 /\ next > Len(metric.indexes)
        /\ UNCHANGED <<input, arcs, labels, labelOids>>
    BY <1>2 DEF IndexesDone
  <2>2. Taken = Len(input.row) /\ next <= Len(metric.indexes) + 1
    BY <2>1, RowFacts DEF Taken, TypeOK
  <2>3. Known(1) /\ KeysAgree(1)
    BY <2>1, <2>2, KeysBegin DEF LinkInv
  <2>4. Known(1)' /\ KeysAgree(1)'
    BY <2>1, <2>3 DEF Known, KeysAgree, Waiting, LookedUp, LabelOid, metric, Own
  <2>5. FollowedTo(0)'
    BY DEF FollowedTo
  <2>6. Known(next)' /\ KeysAgree(next)' /\ FollowedTo(next - 1)'
    <3>1. next' - 1 = 0
      BY <2>1
    <3> QED
      BY <2>1, <2>4, <2>5, <3>1 DEF Known, KeysAgree, FollowedTo
  <2>7. LookupsFollowed'
    BY <2>1 DEF LookupsFollowed, Followed
  <2> QED
    BY <2>1, <2>6, <2>7 DEF LinkInv
<1>3. CASE DropLabel \/ LookupFound \/ LookupMissing
  <2>1. PICK n, lookup : n = next /\ lookup = metric.lookups[n]
    OBVIOUS
  <2> QED
    BY <1>3, <2>1, DropStep, FoundStep, MissingStep
<1>4. CASE LookupsDone
  <2>1. phase = "lookups" /\ phase' = "samples" /\ next > Len(metric.lookups)
        /\ UNCHANGED <<input, labels, labelOids>>
    BY <1>4 DEF LookupsDone
  <2>2. next - 1 = Len(metric.lookups) /\ DOMAIN metric.lookups = 1..Len(metric.lookups) /\ metric' = metric
    BY <2>1, RowFacts DEF TypeOK, metric
  <2>3. ~Leftover(input) => FollowedTo(Len(metric.lookups))
    BY <2>1, <2>2 DEF LinkInv
  <2>4. LookupsFollowed'
    BY <2>1, <2>2, <2>3 DEF LookupsFollowed, Followed, FollowedTo, Deciding, ShownAt
  <2> QED
    BY <2>1, <2>4 DEF LinkInv
<1>5. CASE UnknownIndexType \/ PduToSamples
  BY <1>5 DEF UnknownIndexType, PduToSamples, LinkInv, LookupsFollowed, Followed
<1>6. CASE UNCHANGED vars
  <2>1. /\ input' = input /\ phase' = phase /\ next' = next
        /\ arcs' = arcs /\ labels' = labels /\ labelOids' = labelOids
        /\ metric' = metric /\ Own' = Own
    BY <1>6 DEF vars, metric, Own
  <2>2. Keyed => Keyed'
    BY <2>1, ZenonT(40) DEF Keyed, Taken, Encodings
  <2>3. Known(next) => Known(next)'
    BY <2>1 DEF Known
  <2>4. KeysAgree(next) => KeysAgree(next)'
    BY <2>1 DEF KeysAgree, Waiting, LookedUp, LabelOid
  <2>5. FollowedTo(next - 1) => FollowedTo(next - 1)'
    BY <2>1 DEF FollowedTo, ShownAt
  <2>6. LookupsFollowed => LookupsFollowed'
    BY <2>1 DEF LookupsFollowed, Followed
  <2> QED
    BY <2>1, <2>2, <2>3, <2>4, <2>5, <2>6 DEF LinkInv
<1> QED
  BY <1>1, <1>2, <1>3, <1>4, <1>5, <1>6 DEF Next, Done

\* Over any number of lookups, with any of their objects missing: each label that
\* is looked up shows the object its sources lead to, or nothing; unless arcs
\* are left over from an index or an earlier lookup of the same label.
THEOREM LinksFollowed == Spec => []LookupsFollowed
<1>1. Init => TypeOK /\ RowInv
  BY InitTypes, InitRow
<1>2. Init => LinkInv
  <2> SUFFICES ASSUME Init PROVE LinkInv
    OBVIOUS
  <2>1. phase = "indexes" /\ next = 1 /\ labelOids = <<>> /\ TypeOK
    BY InitTypes DEF Init
  <2>2. 1..Taken = {} /\ DOMAIN labelOids = {}
    BY <2>1, RowFacts DEF Taken
  <2> QED
    BY <2>1, <2>2 DEF LinkInv, Keyed, LookupsFollowed, Followed
<1>3. LinkInv => LookupsFollowed
  BY DEF LinkInv
<1>4. TypeOK /\ RowInv /\ LinkInv /\ [Next]_vars => LinkInv'
  BY LinkStep
<1> QED
  BY <1>1, <1>2, <1>3, <1>4, TypeStep, RowStep, PTL DEF Spec
=============================================================================
