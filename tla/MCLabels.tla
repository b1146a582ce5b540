------------------------------- MODULE MCLabels -------------------------------
(* Instances of LabelsReference for TLC: every pair of index types with short  *)
(* values, zeros at the end left out or not; lookups over one or two links,    *)
(* complete and with parts missing; every type of metric.                      *)
EXTENDS LabelsReference

NoEnum == {}
States == {1, 2}
Index(label, typ, size, implied) ==
  [labelname |-> label, type |-> typ, fixedSize |-> size, implied |-> implied,
   enumValues |-> IF typ = "EnumAsInfo" THEN States ELSE NoEnum]
N(n) == [n |-> n, octets |-> <<>>]
S(octets) == [n |-> 0, octets |-> octets]
V(n, octets) == [n |-> n, octets |-> octets]
MAC == <<1, 2, 3, 4, 0, 0>>
IPv6 == [k \in 1..16 |-> IF k < 15 THEN k ELSE 0]

\* The kinds of index, without those that must come last, and values of each.
Kinds ==
  { <<"gauge", 0, {N(0), N(3)}>>,
    <<"EnumAsInfo", 0, {N(1), N(9)}>>,
    <<"DisplayString", 0, {S(<<>>), S(<<65>>), S(<<65, 0>>)}>>,
    <<"OctetString", 2, {S(<<0, 0>>), S(<<255, 1>>)}>>,
    <<"PhysAddress48", 0, {S(MAC)}>>,
    <<"InetAddressIPv4", 0, {S(<<10, 0, 0, 0>>), S(<<10, 0, 0, 1>>)}>>,
    <<"InetAddress", 0, {V(1, <<10, 0, 0, 0>>), V(2, IPv6), V(3, <<7, 8>>), V(0, <<>>)}>>,
    <<"InetAddressMissingSize", 0, {V(1, <<10, 0, 0, 1>>)}>>,
    <<"LldpPortId", 0, {V(3, MAC), V(4, <<9>>)}>> }
LastKinds ==
  { <<"DisplayString", 0, {S(<<65, 66>>), S(<<>>)}>>, <<"InetAddressMissingSize", 0, {V(3, <<7, 8>>)}>> }

NoLookups == <<>>
Metric(name, typ, indexes, lookups) ==
  [oid |-> <<9, 2>>, name |-> name, type |-> typ, indexes |-> indexes, lookups |-> lookups,
   enumValues |-> IF typ \in {"EnumAsInfo", "EnumAsStateSet", "Bits"} THEN States ELSE NoEnum,
   extracts |-> {}]
Input(m, row, cut, pdu, pdus) ==
  LET all == EncodeRow(m.indexes, row)
  IN  [metric |-> m, row |-> row, arcs |-> SubSeq(all, 1, Len(all) - cut), pdu |-> pdu, oidToPdu |-> pdus]
Integer(n) == [kind |-> "integer", of |-> n]
Bytes(bytes) == [kind |-> "octets", of |-> bytes]

\* How many zeros a router may leave out.
Cuts(oid) == {c \in 0..Len(oid) : \A k \in (Len(oid) - c + 1)..Len(oid) : oid[k] = 0}
Rows ==
  UNION { LET m == Metric("m", "gauge", <<Index("a", x[1], x[2], FALSE), Index("b", y[1], y[2], FALSE)>>, NoLookups)
          IN  UNION {{Input(m, row, cut, Integer(1), <<>>) : cut \in Cuts(EncodeRow(m.indexes, row))}
                     : row \in {<<v, w>> : v \in x[3], w \in y[3]}}
        : x, y \in Kinds }
LastRows ==
  UNION { LET m == Metric("m", "gauge", <<Index("a", x[1], x[2], FALSE), Index("b", y[1], y[2], y[1] = "DisplayString")>>, NoLookups)
          IN  {Input(m, <<v, w>>, 0, Integer(1), <<>>) : v \in x[3], w \in y[3]}
        : x \in Kinds, y \in LastKinds }

\* a leads to x by 5.1, x leads to y by 6.1; a and b lead to z by 7.3, a type in 7.2.
Lookup(label, sources, oid, typ) ==
  [labelname |-> label, labels |-> sources, oid |-> oid, type |-> typ,
   enumValues |-> IF typ = "EnumAsInfo" THEN States ELSE NoEnum]
ToX == Lookup("x", <<"a">>, <<5, 1>>, "gauge")
ToY == Lookup("y", <<"x">>, <<6, 1>>, "EnumAsInfo")
ToZ == Lookup("z", <<"a", "b">>, <<7, 3>>, "LldpPortId")
DropA == Lookup("a", <<>>, <<>>, "")
Objects ==
  { <<<<5, 1, 3>>, Integer(4)>>, <<<<6, 1, 4>>, Integer(2)>>, <<<<6, 1, 0>>, Integer(1)>>,
    <<<<7, 2, 3, 0>>, Integer(3)>>, <<<<7, 3, 3, 0>>, Bytes(MAC)>>,
    <<<<9, 1, 3, 0>>, Integer(1)>> }
Tables ==
  {t \in {[o \in {p[1] : p \in some} |-> (CHOOSE p \in some : p[1] = o)[2]] : some \in SUBSET Objects} :
     <<7, 3, 3, 0>> \in DOMAIN t => <<7, 2, 3, 0>> \in DOMAIN t}
AB == <<Index("a", "gauge", 0, FALSE), Index("b", "gauge", 0, FALSE)>>
Appended == Append(AB, Index("x", "gauge", 0, FALSE))
LookupLists == {<<ToX, ToY>>, <<ToX, ToY, DropA, ToZ>>, <<DropA, ToZ, ToX>>}
LookupRows ==
  {Input(Metric("m", "gauge", indexes, list), <<N(3), N(0)>>, cut, Integer(1), t) :
     indexes \in {AB, Appended}, list \in LookupLists, cut \in {0}, t \in Tables}

\* The metric's name is a label, by index (a) or lookup (x), or not.
TypesOfMetric == {"gauge", "DateAndTime", "EnumAsInfo", "EnumAsStateSet", "Bits", "DisplayString", "InetAddress"}
Pdus == {Integer(1), Integer(7), Bytes(<<96>>)}
Table == [o \in {<<5, 1, 3>>, <<9, 1, 3, 0>>} |-> Integer(1)]
TypeRows ==
  {Input(Metric(name, typ, AB, <<ToX>>), <<N(3), N(0)>>, 0, pdu, Table) :
     name \in {"m", "a", "x"}, typ \in TypesOfMetric, pdu \in Pdus}
ExtractRows ==
  {Input([Metric("m", "DisplayString", AB, NoLookups) EXCEPT !.extracts = {"Temp", "Status"}],
         <<N(3), N(0)>>, 0, Bytes(<<65>>), <<>>)}
UnknownRows ==
  { Input(Metric("m", "gauge", <<Index("a", "gauge", 0, FALSE), Index("b", "EnumAsStateSet", 0, FALSE)>>, NoLookups),
          <<N(3)>>, 0, Integer(1), <<>>),
    Input(Metric("m", "gauge", AB, <<Lookup("x", <<"a">>, <<5, 1>>, "DateAndTime")>>),
          <<N(3), N(0)>>, 0, Integer(1), [o \in {<<5, 1, 3>>} |-> Bytes(<<1, 2>>)]) }
  \cup { Input(Metric(name, "Unsupported", AB, NoLookups), <<N(3), N(0)>>, 0, pdu, <<>>) :
          name \in {"m", "a"}, pdu \in {Integer(1), Bytes(<<1, 2>>)} }
MCInputs == Rows \cup LastRows \cup LookupRows \cup TypeRows \cup ExtractRows \cup UnknownRows
=============================================================================
