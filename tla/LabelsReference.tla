--------------------------- MODULE LabelsReference ---------------------------
(* What the labels of a row should be: the index values the agent encoded by   *)
(* the rules of RFC 2578 section 7.7 and RFC 4001, each shown in the form of   *)
(* its type, and the values lookups lead to from there.  A value is a number   *)
(* n, octets, or both (subtype and octets).                                    *)
EXTENDS Labels

FixedLength(index) == index.implied \/ index.fixedSize > 0
\* Combined types whose size is between the subtype and the octets.
Sized == {"InetAddress", "LldpPortId"}
Encode(index, value) ==
  CASE index.type \in Numbers \cup {"EnumAsInfo"} -> <<value.n>>
    [] index.type \in DOMAIN Addresses -> value.octets
    [] index.type \in Strings -> IF FixedLength(index) THEN value.octets
                                 ELSE <<Len(value.octets)>> \o value.octets
    [] index.type = "InetAddressMissingSize" -> <<value.n>> \o value.octets
    [] index.type \in Sized -> <<value.n, Len(value.octets)>> \o value.octets
EncodeRow(indexes, row) == FlattenSeq([k \in DOMAIN row |-> Encode(indexes[k], row[k])])

\* An unknown subtype is shown in hexadecimal with all that belongs to it.
KnownSubtype(index, value) == value.n \in DOMAIN combinedTypeMapping[index.type]
Meaning(index, value) ==
  CASE index.type \in Numbers -> Decimal(value.n)
    [] index.type = "EnumAsInfo" -> Enum(index.enumValues, value.n)
    [] index.type \in DOMAIN Addresses \cup Strings -> Octets(index.type, value.octets)
    [] index.type \in Combined ->
         IF KnownSubtype(index, value)
           THEN Octets(combinedTypeMapping[index.type][value.n], value.octets)
         ELSE Octets("OctetString", Encode(index, value))

\* The row has a value for each index of the table; the generator may have
\* appended indexes named after chained lookups.
Own == DOMAIN input.row

-----------------------------------------------------------------------------
(* The rows: values that fit their indexes, encoded by the agent              *)

RowValues == [n: Nat, octets: Seq(0..255)]
\* A value as the index's type and size describe it.  A subtype shown as
\* DisplayString is left out: its size would be read twice.
Fits(index, value) ==
  /\ index.type \in IndexTypes
  /\ index.type \in DOMAIN Addresses => Len(value.octets) = Addresses[index.type]
  /\ index.type \in Strings /\ ~index.implied /\ index.fixedSize > 0 =>
       Len(value.octets) = index.fixedSize
  /\ index.type \in Combined =>
       /\ value.n <= 255 /\ Len(value.octets) <= 255
       /\ KnownSubtype(index, value) =>
            LET subtype == combinedTypeMapping[index.type][value.n]
            IN  subtype \in DOMAIN Addresses /\ Len(value.octets) = Addresses[subtype]
\* No size is in the encoding, so that all arcs that are left belong to it.
TakesRest(index, value) ==
  \/ index.type \in Strings /\ index.implied
  \/ index.type = "InetAddressMissingSize" /\ ~KnownSubtype(index, value)
\* arcs are those of oid, without some or all of the zeros at its end.
WithoutZeros(sent, oid) ==
  /\ Len(sent) <= Len(oid)
  /\ \A i \in DOMAIN oid : oid[i] = IF i <= Len(sent) THEN sent[i] ELSE 0
\* One row of a table as an agent sends it; its own indexes have own names.
IsRow(indexes, row, sent) ==
  /\ row \in Seq(RowValues) /\ Len(row) <= Len(indexes)
  /\ \A k \in DOMAIN row : Fits(indexes[k], row[k])
  /\ \A k \in DOMAIN row, j \in DOMAIN indexes : indexes[j].labelname = indexes[k].labelname => j = k
  /\ WithoutZeros(sent, EncodeRow(indexes, row))
  /\ \A k \in DOMAIN row : TakesRest(indexes[k], row[k]) =>
       k = Len(row) /\ sent = EncodeRow(indexes, row)
ASSUME RowAssumption == \A i \in Inputs : IsRow(i.metric.indexes, i.row, i.arcs)

\* Whatever the types, sizes and order of the indexes, and also when a router
\* left out trailing zeros, the labels are the values of the row, no index takes
\* arcs of the next, and nothing is left.
RowDecoded ==
  phase = "lookups" /\ next = 1 =>
    /\ \A k \in Own : labels[metric.indexes[k].labelname] = Meaning(metric.indexes[k], input.row[k])
    /\ arcs = <<>>

-----------------------------------------------------------------------------
(* Lookups, for a call i of pduToSamples: as a function of their number, the   *)
(* key that each label stands for after the first n.                           *)

NoKey == <<NoArc>>
IndexKey(i, label) ==
  IF \E k \in DOMAIN i.row : i.metric.indexes[k].labelname = label
    THEN LET k == CHOOSE k \in DOMAIN i.row : i.metric.indexes[k].labelname = label
         IN  Encode(i.metric.indexes[k], i.row[k])
  ELSE NoKey
Names(i) == {i.metric.lookups[j].labelname : j \in DOMAIN i.metric.lookups} \cup
            UNION {ToSet(i.metric.lookups[j].labels) : j \in DOMAIN i.metric.lookups}
Link(lookup, keys) == FlattenSeq([k \in DOMAIN lookup.labels |-> keys[lookup.labels[k]]])
NextKeys(i, lookup, keys) ==
  LET key == lookup.oid \o Link(lookup, keys)
  IN  IF lookup.labels = <<>> THEN keys
      ELSE [keys EXCEPT ![lookup.labelname] =
              IF key \in DOMAIN i.oidToPdu THEN <<IntegerOf(i.oidToPdu[key])>> ELSE NoKey]
Keys(i) ==
  LET after[n \in 0..Len(i.metric.lookups)] ==
        IF n = 0 THEN [l \in Names(i) |-> IndexKey(i, l)]
        ELSE NextKeys(i, i.metric.lookups[n], after[n - 1])
  IN  after
\* Where lookup j leads to, and the type of what is there.
Target(i, j) == i.metric.lookups[j].oid \o Link(i.metric.lookups[j], Keys(i)[j - 1])
TargetType(i, j) ==
  LET lookup == i.metric.lookups[j]
      subtype == getPrevOid(lookup.oid) \o Link(lookup, Keys(i)[j - 1])
  IN  IF /\ lookup.type \in Combined /\ subtype \in DOMAIN i.oidToPdu
         /\ IntegerOf(i.oidToPdu[subtype]) \in DOMAIN combinedTypeMapping[lookup.type]
        THEN combinedTypeMapping[lookup.type][IntegerOf(i.oidToPdu[subtype])]
      ELSE lookup.type
\* What lookup j should show: the object its sources lead to, or nothing.
Shown(i, j) ==
  LET lookup == i.metric.lookups[j]
      value == i.oidToPdu[Target(i, j)]
      typ == TargetType(i, j)
  IN  IF Target(i, j) \notin DOMAIN i.oidToPdu THEN EmptyText
      ELSE IF value.kind = "integer" /\ typ = "EnumAsInfo" THEN Enum(lookup.enumValues, value.of)
      ELSE IF value.kind = "integer" THEN Decimal(value.of)
      ELSE Octets(IF typ \in {"", "Bits"} THEN "OctetString" ELSE typ, value.of)

\* Octets come with a type they fit, and one that can be shown.
Showable(typ, value) ==
  value.kind = "octets" =>
    \/ typ \in Strings \cup {"", "Bits"}
    \/ typ \in DOMAIN Addresses /\ Len(value.of) = Addresses[typ]
    \/ ~CanShow(value, typ)
\* Lookups as the generator makes them: an index it appended is that of a lookup
\* before those that use it.  An index of the row that is used has arcs.
IsLinked(i) ==
  /\ \A j \in DOMAIN i.metric.lookups : \A label \in ToSet(i.metric.lookups[j].labels) :
       \A k \in DOMAIN i.metric.indexes : i.metric.indexes[k].labelname = label =>
         IF k \in DOMAIN i.row THEN Encode(i.metric.indexes[k], i.row[k]) # <<>>
         ELSE \E h \in 1..(j - 1) : /\ i.metric.lookups[h].labelname = label
                                    /\ i.metric.lookups[h].labels # <<>>
  /\ \A j \in DOMAIN i.metric.lookups :
       Target(i, j) \in DOMAIN i.oidToPdu => Showable(TargetType(i, j), i.oidToPdu[Target(i, j)])
ASSUME LinkAssumption == \A i \in Inputs : IsLinked(i)

\* The last lookup for a label.
Deciding(lookups, j) ==
  \A k \in DOMAIN lookups : k > j => lookups[k].labelname # lookups[j].labelname
Followed ==
  phase = "samples" =>
    \A j \in DOMAIN metric.lookups : Deciding(metric.lookups, j) =>
      LET label == metric.lookups[j].labelname
      IN  IF metric.lookups[j].labels = <<>> THEN label \notin DOMAIN labels
          ELSE label \in DOMAIN labels /\ labels[label] = Shown(input, j)

\* A lookup finds nothing, but its label is an index or an earlier lookup, too,
\* and the arcs of that one are left for the lookups that follow.
Leftover(i) ==
  LET lookups == i.metric.lookups
  IN  \E j \in DOMAIN lookups :
        /\ lookups[j].labels # <<>> /\ Target(i, j) \notin DOMAIN i.oidToPdu
        /\ \/ \E k \in DOMAIN i.metric.indexes : i.metric.indexes[k].labelname = lookups[j].labelname
           \/ \E h \in 1..(j - 1) : lookups[h].labelname = lookups[j].labelname
        /\ \E k \in DOMAIN lookups : k > j /\ lookups[j].labelname \in ToSet(lookups[k].labels)

\* Each looked up label shows the object of the row its sources lead to, over
\* any number of lookups, and is empty when a link is missing; a dropped label
\* is gone.
LookupsFollowed == ~Leftover(input) => Followed

\* "Using the newly added label, we have another lookup" (generator/README.md):
\* the same, also with the indexes the generator appends for chained lookups.
ChainFollowed == Followed
=============================================================================
