------------------------------- MODULE MibTree -------------------------------
(* The MIB tree of the generator (tree.go, net_snmp.go) and what is read from  *)
(* it.  A tree is the sequence of its nodes in the order of walkNode: parents  *)
(* first, siblings by number.  An OID is the sequence of the parts between     *)
(* its dots; it ends in an empty part when it is asked for by a Get.           *)
EXTENDS Integers, Sequences, FiniteSets, SequencesExt, FiniteSetsExt, ListOps

CONSTANT
  Sanitized \* the form in which a label that is no valid label name is written

Oids == Seq(Nat) \ {<<>>}
Empty == -1
Get(oid) == Append(oid, Empty)
IsGet(oid) == Last(oid) = Empty

\* An OID as text: a dot is Empty and comes before the digits.
Digits(n) ==
  LET text[k \in 0..n] == IF k < 10 THEN <<k>> ELSE Append(text[k \div 10], k % 10)
  IN  text[n]
ArcText(arc) == IF arc = Empty THEN <<>> ELSE Digits(arc)
Text(oid) ==
  FlattenSeq([k \in DOMAIN oid |-> (IF k > 1 THEN <<Empty>> ELSE <<>>) \o ArcText(oid[k])])

DigitsBefore(s, t) == \E k \in DOMAIN t : EndsAt(s, t, k) \/ (DifferAt(s, t, k) /\ s[k] < t[k])
ArcBefore(a, b) == DigitsBefore(ArcText(a), ArcText(b))
\* The texts of two OIDs compare part by part, the parts as text: a dot is less
\* than the digits and more than the end.
TextBefore(o, p) ==
  \E k \in DOMAIN p : EndsAt(o, p, k) \/ (DifferAt(o, p, k) /\ ArcBefore(o[k], p[k]))

\* sort.Strings
FirstOf(oids) == CHOOSE o \in oids : \A p \in oids \ {o} : TextBefore(o, p)
AddNext(oids, sorted) == Append(sorted, FirstOf(oids \ ToSet(sorted)))
Sorted(oids) ==
  LET sorted[k \in 0..Cardinality(oids)] == IF k = 0 THEN <<>> ELSE AddNext(oids, sorted[k - 1])
  IN  sorted[Cardinality(oids)]

\* Mutant: a subtree is compared with the OID before it, kept or not.
minimizeByNeighbour(oids) ==
  LET sorted == Sorted(oids)
      kept[k \in 0..Len(sorted)] ==
        IF k = 0 THEN <<>>
        ELSE IF k > 1 /\ IsPrefix(sorted[k - 1], sorted[k]) THEN kept[k - 1]
        ELSE Append(kept[k - 1], sorted[k])
  IN  kept[Len(sorted)]
\* Reduce a set of overlapping OID subtrees.
AddSubtree(kept, oid) == IF kept # <<>> /\ IsPrefix(Last(kept), oid) THEN kept ELSE Append(kept, oid)
minimizeOids(oids) ==
  LET sorted == Sorted(oids)
      kept[k \in 0..Len(sorted)] == IF k = 0 THEN <<>> ELSE AddSubtree(kept[k - 1], sorted[k])
  IN  kept[Len(sorted)]

sanitizeLabelName(label) == IF label \in DOMAIN Sanitized THEN Sanitized[label] ELSE label

-----------------------------------------------------------------------------
(* Nodes, as NetSNMP gives them                                               *)

Nodes ==
  [ oid : Oids, module : STRING, label : STRING, augments : STRING, type : STRING, hint : STRING,
    tc : STRING, fixedSize : Nat, access : STRING, enums : SUBSET Nat, indexes : Seq(STRING),
    implied : BOOLEAN ]

-----------------------------------------------------------------------------
(* Names: an OID, a label, or a label qualified with its module               *)

OidName(oid) == <<"oid", oid>>
Label(label) == <<"label", label>>
Qualified(module, label) == <<"qualified", module, label>>
Names(node) == {OidName(node.oid), Label(node.label), Qualified(node.module, node.label)}
Named(tree, name) == {p \in DOMAIN tree : name \in Names(tree[p])}
\* Of several nodes with one label the map keeps the last.
nameToNode(tree, name) == Max(Named(tree, name))
Known(tree, name) == Named(tree, name) # {}
\* The OID of a known name; what is not known is taken for an OID.
Resolve(tree, name) == IF Known(tree, name) THEN tree[nameToNode(tree, name)].oid ELSE name[2]

Under(tree, oid) == Keep([p \in DOMAIN tree |-> p], {p \in DOMAIN tree : IsPrefix(oid, tree[p].oid)})
Children(tree, p) == {q \in DOMAIN tree : Front(tree[q].oid) = tree[p].oid}

-----------------------------------------------------------------------------
(* Types                                                                      *)

combinedTypes ==
  [ InetAddress |-> "InetAddressType", InetAddressMissingSize |-> "InetAddressType",
    LldpPortId |-> "LldpPortIdSubtype" ]
Itself ==
  {"gauge", "counter", "OctetString", "PhysAddress48", "DisplayString", "Float", "Double",
   "InetAddressIPv4", "InetAddressIPv6", "DateAndTime", "ParseDateAndTime", "NTPTimeStamp",
   "EnumAsInfo", "EnumAsStateSet"} \cup DOMAIN combinedTypes
\* The type of a metric by the type of its object; others are not supported.
metricType ==
  LET of(t) == CASE t \in Itself -> t
                 [] t \in {"COUNTER", "COUNTER64"} -> "counter"
                 [] t \in {"OCTETSTR", "OBJID"} -> "OctetString"
                 [] t = "BITSTRING" -> "Bits"
                 [] t \in {"IpAddr", "IPADDR", "NETADDR"} -> "InetAddressIPv4"
                 [] OTHER -> "gauge"
  IN  [t \in Itself \cup {"COUNTER", "COUNTER64", "OCTETSTR", "OBJID", "BITSTRING", "IpAddr",
                          "IPADDR", "NETADDR", "INTEGER", "GAUGE", "TIMETICKS", "UINTEGER",
                          "UNSIGNED32", "INTEGER32"} |-> of(t)]
metricAccess == {"ACCESS_READONLY", "ACCESS_READWRITE", "ACCESS_CREATE", "ACCESS_NOACCESS"}
Usable(node) == node.type \in DOMAIN metricType /\ node.access \in metricAccess

-----------------------------------------------------------------------------
(* prepareTree                                                                *)

\* An index "INTEGER" stands for the entry itself.
FixIndexes(node) ==
  [node EXCEPT !.indexes = [k \in DOMAIN @ |-> IF @[k] = "INTEGER" THEN node.label ELSE @[k]]]

IndexedLike(tree, some, from) ==
  [p \in DOMAIN tree |->
     IF p \in some THEN [tree[p] EXCEPT !.indexes = from.indexes, !.implied = from.implied] ELSE tree[p]]
Augmented(tree, p) ==
  LET name == Label(tree[p].augments)
  IN  IF tree[p].augments = "" \/ ~Known(tree, name) THEN tree
      ELSE IndexedLike(tree, Children(tree, p) \cup {p}, tree[nameToNode(tree, name)])
PassDown(tree, p) ==
  IF tree[p].indexes = <<>> THEN tree ELSE IndexedLike(tree, Children(tree, p), tree[p])
\* Two walks over the nodes, the second after the first.
AugmentTo(tree) ==
  LET augmented[p \in 0..Len(tree)] == IF p = 0 THEN tree ELSE Augmented(augmented[p - 1], p)
  IN  augmented[Len(tree)]
PassTo(tree) ==
  LET passed[p \in 0..Len(tree)] == IF p = 0 THEN tree ELSE PassDown(passed[p - 1], p)
  IN  passed[Len(tree)]

TextHints == {"32a", "255a", "255t"} \* those of digits and a or t
OwnTypes ==
  {"DisplayString", "Float", "Double", "DateAndTime", "ParseDateAndTime", "NTPTimeStamp",
   "InetAddressIPv4", "InetAddressIPv6", "InetAddress", "LldpPortId"}
\* The textual convention decides before the hint, and the hint before the type.
TweakedType(node) ==
  CASE node.tc \in OwnTypes -> node.tc
    [] node.tc = "PhysAddress" -> "PhysAddress48"
    [] node.tc \notin OwnTypes \cup {"PhysAddress"} /\ node.hint \in TextHints -> "DisplayString"
    [] node.tc \notin OwnTypes \cup {"PhysAddress"} /\ node.hint = "1x:"
         /\ node.fixedSize \in {0, 6} -> "PhysAddress48"
    [] OTHER -> node.type

prepareTree(tree) ==
  LET indexed == PassTo(AugmentTo([p \in DOMAIN tree |-> FixIndexes(tree[p])]))
  IN  [p \in DOMAIN tree |->
         [tree[p] EXCEPT !.type = TweakedType(tree[p]), !.indexes = indexed[p].indexes,
                         !.implied = indexed[p].implied]]

-----------------------------------------------------------------------------
(* Finding nodes                                                              *)

\* The nodes on the way to an OID; the last is the longest match.
searchNodeTree(tree, oid) == {p \in DOMAIN tree : IsPrefix(tree[p].oid, oid)}

\* A top-level node of the walk and how its OID is to be asked for.
getMetricNode(tree, oid) ==
  LET name == OidName(oid)
      found == searchNodeTree(tree, oid)
      match(kind, p) == [kind |-> kind, node |-> p]
  IN  IF Known(tree, name)
        THEN LET n == nameToNode(tree, name)
             IN  match(IF Usable(tree[n]) /\ tree[n].indexes = <<>> THEN "scalar" ELSE "subtree", n)
      ELSE IF found # {} /\ Usable(tree[Max(found)]) /\ tree[Max(found)].indexes # <<>>
        THEN match("instance", Max(found))
      ELSE match("notFound", 0)

\* The nodes a lookup may mean: one that shares all but the last part of the
\* metric's OID, in the order of a map, or else the one the name stands for.
\* The OIDs are compared as strings.
getIndexNode(tree, lookup, metricOid) ==
  LET close == {p \in DOMAIN tree : /\ Label(tree[p].label) = lookup
                                    /\ IsPrefix(Text(Front(metricOid)), Text(tree[p].oid))}
  IN  IF close # {} THEN close ELSE {nameToNode(tree, lookup)}
=============================================================================
