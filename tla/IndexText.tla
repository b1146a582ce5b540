------------------------------ MODULE IndexText ------------------------------
(* How the exporter decodes the arcs of an index (indexOidsAsString).  A text  *)
(* is the form it is written in and the numbers written.                       *)
EXTENDS Integers, Sequences

combinedTypeMapping ==
  LET inet == [t \in {1, 2} |-> IF t = 1 THEN "InetAddressIPv4" ELSE "InetAddressIPv6"]
  IN  [ InetAddress |-> inet, InetAddressMissingSize |-> inet,
        LldpPortId |-> [t \in {1, 2, 3, 5, 7} |-> IF t = 3 THEN "PhysAddress48" ELSE "DisplayString"] ]
Combined == DOMAIN combinedTypeMapping
Addresses == [PhysAddress48 |-> 6, InetAddressIPv4 |-> 4, InetAddressIPv6 |-> 16]
Numbers == {"Integer32", "Integer", "gauge", "counter"}
Strings == {"OctetString", "DisplayString"}
IndexTypes == Combined \cup DOMAIN Addresses \cup Numbers \cup Strings \cup {"EnumAsInfo"}

Decimal(n) == [form |-> "decimal", of |-> <<n>>]
\* enumValues are the numbers that have a name.
Enum(enumValues, n) ==
  IF n \in enumValues THEN [form |-> "name", of |-> <<n>>] ELSE Decimal(n)
EmptyText == [form |-> "string", of |-> <<>>]
\* Octets in the form of their type; an empty octet string has no 0x.
Octets(typ, bytes) ==
  IF bytes = <<>> THEN EmptyText
  ELSE [form |-> IF typ = "DisplayString" THEN "string" ELSE typ, of |-> bytes]

\* Trailing zeros that a router left out are put back.
splitOid(oid, count) ==
  [head |-> [i \in 1..count |-> IF i <= Len(oid) THEN oid[i] ELSE 0],
   tail |-> SubSeq(oid, count + 1, Len(oid))]

Decoded(text, used, rest) == [text |-> text, used |-> used, rest |-> rest]

\* A string: of fixed size, all that is left, or with its length in front.
StringIndex(oid, typ, fixedSize, implied, enumValues) ==
  LET given == IF implied THEN Len(oid) ELSE fixedSize
      prefix == splitOid(oid, IF given = 0 THEN 1 ELSE 0)
      content == splitOid(prefix.tail, IF given = 0 THEN prefix.head[1] ELSE given)
  IN  Decoded(Octets(typ, [i \in DOMAIN content.head |-> content.head[i] % 256]),
              prefix.head \o content.head, content.tail)

\* indexOidsAsString for a type that is not combined.
SimpleIndex(oid, typ, fixedSize, implied, enumValues) ==
  LET s == splitOid(oid, IF typ \in DOMAIN Addresses THEN Addresses[typ] ELSE 1)
  IN  CASE typ \in Numbers -> Decoded(Decimal(s.head[1]), s.head, s.tail)
        [] typ = "EnumAsInfo" -> Decoded(Enum(enumValues, s.head[1]), s.head, s.tail)
        [] typ \in DOMAIN Addresses -> Decoded(Octets(typ, s.head), s.head, s.tail)
        [] typ \in Strings -> StringIndex(oid, typ, fixedSize, implied, enumValues)

\* A combined type: a subtype, a size that may be missing, and a value of the
\* subtype; a subtype that is not known is shown as octets with all in front.
indexOidsAsString(oid, typ, fixedSize, implied, enumValues) ==
  LET front == splitOid(oid, IF typ = "InetAddressMissingSize" THEN 1 ELSE 2)
      subtype == front.head[1]
      value == SimpleIndex(front.tail, combinedTypeMapping[typ][subtype], 0, FALSE, enumValues)
  IN  IF typ \notin Combined THEN SimpleIndex(oid, typ, fixedSize, implied, enumValues)
      ELSE IF subtype \in DOMAIN combinedTypeMapping[typ]
        THEN Decoded(value.text, front.head \o value.used, value.rest)
      ELSE IF typ = "InetAddressMissingSize" THEN SimpleIndex(oid, "OctetString", 0, TRUE, enumValues)
      ELSE SimpleIndex(oid, "OctetString", front.head[2] + 2, FALSE, enumValues)
=============================================================================
