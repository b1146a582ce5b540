-------------------------------- MODULE Labels --------------------------------
(* What collector.go makes of one PDU of a metric: its index arcs are decoded  *)
(* into labels (indexesToLabels, indexOidsAsString), lookups replace or add    *)
(* labels, possibly one after the other, and the samples are built             *)
(* (pduToSamples).  An OID is a sequence of numbers.                           *)
EXTENDS IndexText, FiniteSets, SequencesExt, Functions

CONSTANT
  Inputs \* [metric, arcs, pdu, oidToPdu]: the arguments of pduToSamples, and
         \* row, the values the agent encoded in arcs

\* The configuration and the PDUs, as far as their types go.
Indexes == [labelname: STRING, type: STRING, fixedSize: Nat, implied: BOOLEAN, enumValues: SUBSET Int]
Lookups == [labelname: STRING, labels: Seq(STRING), oid: Seq(Nat), type: STRING, enumValues: SUBSET Int]
Values == [kind: {"integer"}, of: Int] \cup [kind: {"octets"}, of: Seq(0..255)]
ASSUME LabelsAssumption ==
  \A i \in Inputs :
    /\ i.metric.indexes \in Seq(Indexes) /\ i.metric.lookups \in Seq(Lookups)
    /\ i.arcs \in Seq(Nat) /\ i.pdu \in Values
    /\ \A oid \in DOMAIN i.oidToPdu : i.oidToPdu[oid] \in Values

VARIABLES
  input,     \* constant
  phase,     \* "indexes", "lookups", "samples", "done" or "panicked"
  next,      \* the index or lookup that is next
  arcs,      \* index arcs left
  labels,    \* text by label name
  labelOids, \* arcs by label name, for lookups
  samples
vars == <<input, phase, next, arcs, labels, labelOids, samples>>

metric == input.metric
oidToPdu == input.oidToPdu
Put(f, k, v) == [x \in DOMAIN f \cup {k} |-> IF x = k THEN v ELSE f[x]]

-----------------------------------------------------------------------------
(* Values                                                                     *)

Measured == {"gauge", "counter", "Float", "Double"}
Dates == {"DateAndTime", "ParseDateAndTime", "NTPTimeStamp"}

\* A PDU's value is a number or octets.
IntegerOf(value) == IF value.kind = "integer" THEN value.of ELSE 0
CanShow(value, typ) == value.kind = "integer" \/ typ \in IndexTypes \cup {"", "Bits"}
\* The octets of a value go through the decoder of index arcs, with their length
\* in front where an index would have it.
pduValueAsString(value, typ) ==
  LET t == IF typ \in {"", "Bits"} THEN "OctetString" ELSE typ
      oid == IF t \in Strings THEN <<Len(value.of)>> \o value.of ELSE value.of
  IN  IF value.kind = "integer" THEN Decimal(value.of)
      ELSE indexOidsAsString(oid, t, 0, FALSE, {}).text

getPrevOid(oid) == Front(oid) \o <<Last(oid) - 1>>

-----------------------------------------------------------------------------
(* indexesToLabels                                                            *)

Init ==
  /\ input \in Inputs
  /\ phase = "indexes" /\ next = 1
  /\ arcs = input.arcs
  /\ labels = <<>> /\ labelOids = <<>>
  /\ samples = {}

\* Mutant: the arcs an index used are not taken away when it is a string.
RestKeepsStrings(d, index) == IF index.type \in Strings THEN arcs ELSE d.rest
Rest(d, index) == d.rest

DecodeIndex ==
  /\ phase = "indexes" /\ next <= Len(metric.indexes)
  /\ LET index == metric.indexes[next] IN
     /\ index.type \in IndexTypes
     /\ LET d == indexOidsAsString(arcs, index.type, index.fixedSize, index.implied, index.enumValues)
        IN  /\ labels' = Put(labels, index.labelname, d.text)
            /\ labelOids' = Put(labelOids, index.labelname, d.used)
            /\ arcs' = Rest(d, index)
  /\ next' = next + 1
  /\ UNCHANGED <<input, phase, samples>>

\* Mutant: lookups start where the indexes ended.
IndexesDoneNoReset ==
  /\ phase = "indexes" /\ next > Len(metric.indexes)
  /\ phase' = "lookups" /\ next' = next
  /\ UNCHANGED <<input, arcs, labels, labelOids, samples>>
IndexesDone ==
  /\ phase = "indexes" /\ next > Len(metric.indexes)
  /\ phase' = "lookups" /\ next' = 1
  /\ UNCHANGED <<input, arcs, labels, labelOids, samples>>

\* No OID has it: what an empty or missing element leaves in a joined OID.
NoArc == -1
LabelOid(label) == IF label \in DOMAIN labelOids THEN labelOids[label] ELSE <<NoArc>>
SourceOids(lookup) == FlattenSeq([k \in DOMAIN lookup.labels |-> LabelOid(lookup.labels[k])])
LookupOid(lookup) == lookup.oid \o SourceOids(lookup)

\* The type of a combined type's value is in the object before.
Subtype(typ, prevOid, otherwise) ==
  IF typ \notin Combined THEN typ
  ELSE IF prevOid \in DOMAIN oidToPdu
          /\ IntegerOf(oidToPdu[prevOid]) \in DOMAIN combinedTypeMapping[typ]
    THEN combinedTypeMapping[typ][IntegerOf(oidToPdu[prevOid])]
  ELSE otherwise
LookupType(lookup) ==
  Subtype(lookup.type, getPrevOid(lookup.oid) \o SourceOids(lookup), lookup.type)
LookupText(lookup, value) ==
  IF LookupType(lookup) = "EnumAsInfo" /\ lookup.enumValues # {}
    THEN Enum(lookup.enumValues, IntegerOf(value))
  ELSE pduValueAsString(value, LookupType(lookup))

LookingUp == phase = "lookups" /\ next <= Len(metric.lookups)

\* A lookup without sources removes a label; its arcs stay for later lookups.
DropLabel ==
  /\ LookingUp
  /\ metric.lookups[next].labels = <<>>
  /\ labels' = [l \in DOMAIN labels \ {metric.lookups[next].labelname} |-> labels[l]]
  /\ next' = next + 1
  /\ UNCHANGED <<input, phase, arcs, labelOids, samples>>

\* Mutant: a chained lookup gets the key of the one before, not its result.
KeepOid(lookup, value) == SourceOids(lookup)
ResultOid(lookup, value) == <<IntegerOf(value)>>

LookupFound ==
  /\ LookingUp
  /\ LET lookup == metric.lookups[next] IN
     /\ lookup.labels # <<>>
     /\ LookupOid(lookup) \in DOMAIN oidToPdu
     /\ LET value == oidToPdu[LookupOid(lookup)] IN
        /\ CanShow(value, LookupType(lookup))
        /\ labels' = Put(labels, lookup.labelname, LookupText(lookup, value))
        /\ labelOids' = Put(labelOids, lookup.labelname, ResultOid(lookup, value))
  /\ next' = next + 1
  /\ UNCHANGED <<input, phase, arcs, samples>>

LookupMissing ==
  /\ LookingUp
  /\ LET lookup == metric.lookups[next] IN
     /\ lookup.labels # <<>>
     /\ LookupOid(lookup) \notin DOMAIN oidToPdu
     /\ labels' = Put(labels, lookup.labelname, EmptyText)
  /\ next' = next + 1
  /\ UNCHANGED <<input, phase, arcs, labelOids, samples>>

LookupsDone ==
  /\ phase = "lookups" /\ next > Len(metric.lookups)
  /\ phase' = "samples"
  /\ UNCHANGED <<input, next, arcs, labels, labelOids, samples>>

SampleType == Subtype(metric.type, getPrevOid(metric.oid) \o input.arcs, "OctetString")
IsString ==
  metric.type \notin Measured \cup Dates \cup {"EnumAsInfo", "EnumAsStateSet", "Bits"}
\* Mutant: the label is added once more.
NeverLabel == FALSE
\* The metric is an index or a lookup of its own, too.
NameIsLabel == metric.name \in DOMAIN labels
\* The PDU is shown as text: to be matched, or in a label that is not there yet.
ShowsPdu == IsString /\ (metric.extracts # {} \/ ~NameIsLabel)
\* An index, or octets that are looked up or shown, of a type without a text.
Unknown ==
  \/ /\ phase = "indexes" /\ next <= Len(metric.indexes)
     /\ metric.indexes[next].type \notin IndexTypes
  \/ /\ LookingUp
     /\ LET lookup == metric.lookups[next] IN
        /\ lookup.labels # <<>>
        /\ LookupOid(lookup) \in DOMAIN oidToPdu
        /\ ~CanShow(oidToPdu[LookupOid(lookup)], LookupType(lookup))
  \/ phase = "samples" /\ ShowsPdu /\ ~CanShow(input.pdu, SampleType)
UnknownIndexType ==
  /\ Unknown
  /\ phase' = "panicked"
  /\ UNCHANGED <<input, next, arcs, labels, labelOids, samples>>

-----------------------------------------------------------------------------
(* pduToSamples                                                               *)

\* own is the label named after the metric, or none.
Sample(name, own, value) == [name |-> name, labels |-> labels, own |-> own, value |-> value]
\* The names of an enum's values are taken to differ from each other and from
\* decimal numbers, as the SMI asks of a MIB; nothing in the code checks it.
State(n) == Enum(metric.enumValues, n)

EmitValue ==
  \/ /\ metric.type \in Measured
     /\ samples' = {Sample(metric.name, {}, IntegerOf(input.pdu))}
  \/ /\ metric.type \in Dates
     /\ samples' \in {{}, {Sample(metric.name, {}, 0)}} \* {} if it does not parse

EmitEnumAsInfo ==
  /\ metric.type = "EnumAsInfo"
  /\ samples' = IF NameIsLabel THEN {}
                ELSE {Sample(metric.name \o "_info", {State(IntegerOf(input.pdu))}, 1)}

\* Mutant: the current state is among the others, too.
OthersAll(n) == metric.enumValues
Others(n) == metric.enumValues \ {n}
EmitEnumAsStateSet ==
  /\ metric.type = "EnumAsStateSet"
  /\ LET n == IntegerOf(input.pdu) IN
     samples' = {Sample(metric.name, {State(n)}, 1)} \cup
                {Sample(metric.name, {State(k)}, 0) : k \in Others(n)}

\* Most significant bit first.
Bit(bytes, k) ==
  IF k < Len(bytes) * 8 THEN (bytes[k \div 8 + 1] \div 2 ^ (7 - (k % 8))) % 2 ELSE 0
EmitBits ==
  /\ metric.type = "Bits"
  /\ samples' = IF input.pdu.kind # "octets" THEN {Sample("snmp_error", {}, 0)}
                ELSE {Sample(metric.name, {State(k)}, Bit(input.pdu.of, k)) : k \in metric.enumValues}

EmitString ==
  /\ IsString /\ metric.extracts = {}
  /\ ShowsPdu => CanShow(input.pdu, SampleType)
  /\ samples' = {Sample(metric.name,
                        IF NameIsLabel THEN {} ELSE {pduValueAsString(input.pdu, SampleType)}, 1)}

\* applyRegexExtracts: one sample for each name of which some regex matches and
\* yields a number.
EmitExtracts ==
  /\ IsString /\ metric.extracts # {} /\ CanShow(input.pdu, SampleType)
  /\ \E matching \in SUBSET metric.extracts :
       samples' = {Sample(metric.name \o name, {}, 0) : name \in matching}

PduToSamples ==
  /\ phase = "samples"
  /\ EmitValue \/ EmitEnumAsInfo \/ EmitEnumAsStateSet \/ EmitBits \/ EmitString \/ EmitExtracts
  /\ phase' = "done"
  /\ UNCHANGED <<input, next, arcs, labels, labelOids>>

Done == phase \in {"done", "panicked"} /\ UNCHANGED vars

Next ==
  \/ DecodeIndex \/ IndexesDone
  \/ DropLabel \/ LookupFound \/ LookupMissing \/ LookupsDone
  \/ UnknownIndexType
  \/ PduToSamples \/ Done

Spec == Init /\ [][Next]_vars

-----------------------------------------------------------------------------
(* Properties                                                                 *)

TypeOK ==
  /\ input \in Inputs
  /\ phase \in {"indexes", "lookups", "samples", "done", "panicked"}
  /\ next \in 1..(1 + Len(IF phase = "indexes" THEN metric.indexes ELSE metric.lookups))
       \/ phase = "panicked"
  /\ arcs \in Seq(Nat)
  /\ \A l \in DOMAIN labelOids : labelOids[l] \in Seq(Int) /\ labelOids[l] # <<>>
  /\ \A l \in DOMAIN labels : labels[l].form \in
       {"decimal", "name", "string", "OctetString"} \cup DOMAIN Addresses

\* No sample has the same label twice: Prometheus would refuse it, and with it
\* the whole scrape.  "We must not add it again or Prometheus will reject the
\* duplicate label" (enumAsInfo).
NoDuplicateLabel == \A s \in samples : s.own # {} => metric.name \notin DOMAIN s.labels

\* It holds for every type but state sets and bits, which append the metric's
\* name unseen (enumAsStateSet, bits), also when it is looked up or an index.
NoDuplicateLabelButSets == metric.type \notin {"EnumAsStateSet", "Bits"} => NoDuplicateLabel

\* Samples of one PDU differ in their labels, and of the states of a state set
\* one is current.
SeriesDistinct ==
  /\ \A s, t \in samples : s # t => <<s.name, s.labels, s.own>> # <<t.name, t.labels, t.own>>
  /\ phase = "done" /\ metric.type = "EnumAsStateSet" =>
       Cardinality({s \in samples : s.value = 1}) = 1
=============================================================================
