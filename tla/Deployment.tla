------------------------------ MODULE Deployment ------------------------------
(* Generator and exporter together: the generator makes snmp.yml from a MIB    *)
(* tree and generator.yml, the exporter loads it next to other files, possibly *)
(* while it is written, and answers requests from it.                          *)
EXTENDS Generator, ConfigLoad, IndexText

Init == GeneratorInit /\ ExporterInit
Next ==
  \/ GeneratorNext /\ UNCHANGED exporterVars
  \/ ExporterNext /\ UNCHANGED generatorVars
Spec == Init /\ [][Next]_<<generatorVars, exporterVars>>

\* Modules, metrics and lookups are gone through in order; each loaded module
\* points to its own number of retries.
TypeOK ==
  /\ scenario \in Scenarios
  /\ generating \in {"start", "modules", "types", "lookups", "overrides", "create", "write",
                     "done", "failed", "panicked"}
  /\ \E picked \in {{}, {module}} : todo \cup DOMAIN made \cup picked = DOMAIN input.modules
  /\ at.metric \in 1..(Len(metrics) + 1) /\ at.lookup \in Nat \ {0}
  /\ \A oid \in need : oid \in Oids \/ (IsGet(oid) /\ Front(oid) \in Oids)
  /\ Len(files) = Len(scenario.files)
  /\ exporter \in {"idle", "read", "unmarshal", "exited"}
  /\ loads \in 0..MaxLoads /\ fileNo \in 1..(Len(files) + 1)
  /\ answer.status \in {0, 200, 400}
  /\ \A c \in {conf, C} : \A m \in DOMAIN c.modules : c.modules[m].params.retries \in 2..Len(heap)

-----------------------------------------------------------------------------
(* A generated module, when it has just been made                            *)

JustMade == generating = "modules" /\ module \in DOMAIN made
Made == made[module]
Walked(oid) == \E w \in ToSet(Made.walk) : IsPrefix(w, oid)
Asked(oid) == Walked(oid) \/ oid \in ToSet(Made.get)
Restricted == UNION {Targets(f) : f \in ToSet(cfg.static)}
Looked(x) == {l \in ToSet(x.lookups) : l.oid # <<>>}

\* What is asked for is what the metrics, their lookups and their types need,
\* each subtree once: nothing needed is lost because its text sorts behind
\* another subtree, nothing is fetched twice (minimizeOids), and no table is
\* walked for metrics that are asked for by instance.
TypeOf(x, oid) == IsAddress(x) /\ HasType(x) /\ oid = prevOid(x.oid)
WalkedFor(x, oid) == TypeOf(x, oid) \/ \E l \in Looked(x) : l.oid = oid
NeedCovered ==
  JustMade =>
    LET asked == ToSet(Made.walk) \cup {Get(oid) : oid \in ToSet(Made.get)}
    IN  /\ asked \subseteq need
        /\ \A oid \in need : \E a \in asked : IsPrefix(a, oid)
        /\ \A a, b \in asked : IsPrefix(a, b) => a = b
        /\ \A oid \in ToSet(Made.walk) \ ToSet(toWalk) :
             \E x \in ToSet(Made.metrics) : WalkedFor(x, oid) /\ InstancesOf(x.oid) = {}

\* The object a metric looks up is asked for where the metric is, in full or in
\* the same rows, so no label is empty because its object was not fetched.  A
\* restricted object is asked for as its filter says, and so is a metric that
\* looks one up and is itself looked up by others (FiltersRestrict).  When a
\* metric that is asked for by instance gets other rows, from a filter or since
\* it is looked up itself, these come without its lookups.
Narrowed(oid) ==
  \E y \in ToSet(metrics) : y.oid = oid /\ \E l \in Looked(y) : l.oid \in Restricted
LookupsWalked ==
  JustMade =>
    \A x \in ToSet(Made.metrics) : \A l \in Looked(x) :
      /\ InstancesOf(x.oid) = {} /\ l.oid \notin Restricted /\ ~Narrowed(l.oid) => Walked(l.oid)
      /\ \A row \in InstancesOf(x.oid) : Asked(l.oid \o row)

\* A static filter also applies to the metrics that look its target up: both are
\* asked for in all rows of one filter of the target, and the metric not as a
\* whole, unless the walk names an ancestor, or a metric looks it up or has its
\* type from it.
FiltersRestrict ==
  JustMade =>
    \A x \in ToSet(Made.metrics) : \A l \in Looked(x) : l.oid \in Restricted =>
      /\ x.oid \in ToSet(Made.walk) => \E y \in ToSet(Made.metrics) : WalkedFor(y, x.oid)
      /\ \E f \in ToSet(cfg.static) :
           /\ l.oid \in Targets(f)
           /\ \A row \in ToSet(f.indices) : Asked(x.oid \o row) /\ Asked(l.oid \o row)

\* "Give each module a copy of the tree so that it can be modified": the type
\* of a metric comes from the MIB or from an override of its own module.
OwnTypesOf(mib, m, p) ==
  LET overrides == input.modules[m].overrides
      own == {n \in DOMAIN overrides : overrides[n].type # "" /\ Known(mib, n) /\ nameToNode(mib, n) = p}
  IN  IF own = {} THEN {mib[p].type} ELSE {overrides[n].type : n \in own}
ModulesApart ==
  JustMade =>
    LET mib == prepareTree(scenario.tree)
    IN  \A x \in ToSet(Made.metrics) : \E p \in Named(mib, OidName(x.oid)) :
          \E t \in OwnTypesOf(mib, module, p) :
            x.type = metricType[t] \/ (metricType[t] \in Combined /\ x.type = "OctetString")

-----------------------------------------------------------------------------
(* Rows as an agent encodes them and as the exporter decodes them with the    *)
(* generated indexes                                                          *)

\* RFC 2578 section 7.7; the tree as NetSNMP gives it.
Octetted(node) == node.type \in {"OCTETSTR", "OBJID", "BITSTRING"}
Value(node) ==
  CASE node.tc = "InetAddressType" -> <<1>>
    [] node.tc = "InetAddress" -> <<10, 0, 0, 9>>
    [] node.tc = "LldpPortIdSubtype" -> <<3>>
    [] node.tc = "LldpPortId" -> <<0, 1, 2, 3, 4, 0>>
    [] node.type \in {"IpAddr", "IPADDR", "NETADDR"} -> <<10, 0, 0, 1>>
    [] Octetted(node) /\ node.tc \notin {"InetAddress", "LldpPortId"} ->
         [k \in 1..(IF node.fixedSize > 0 THEN node.fixedSize ELSE 2) |-> (64 + k) % 256]
    [] OTHER -> <<2>>
Encoded(node, implied) ==
  IF Octetted(node) /\ node.fixedSize = 0 /\ ~implied THEN <<Len(Value(node))>> \o Value(node)
  ELSE Value(node)
Row(objects, implied) == [k \in DOMAIN objects |-> Encoded(objects[k], implied /\ k = Len(objects))]
DecodeNext(acc, index) ==
  LET d == indexOidsAsString(acc.rest, index.type, index.fixedSize, index.implied, index.enumValues)
  IN  [texts |-> Append(acc.texts, d.text.of), rest |-> d.rest]
DecodeRow(indexes, oid) ==
  LET upTo[k \in 0..Len(indexes)] ==
        IF k = 0 THEN [texts |-> <<>>, rest |-> oid] ELSE DecodeNext(upTo[k - 1], indexes[k])
  IN  upTo[Len(indexes)]

\* What a metric is made of: its node, the nodes of its index objects, these
\* objects in the MIB, and its indexes without those appended for lookups.
Origin(x) == tree[nameToNode(tree, OidName(x.oid))]
Places(x) == [k \in DOMAIN Origin(x).indexes |-> nameToNode(tree, Label(Origin(x).indexes[k]))]
IndexObjects(x) == [k \in DOMAIN Origin(x).indexes |-> scenario.tree[Places(x)[k]]]
OwnIndexes(x) == SubSeq(x.indexes, 1, Len(Indexes(Origin(x)).indexes))
\* A label is lost only to an address within the next two indexes.
MayLack(objects, k) ==
  \E j \in {k + 1, k + 2} \cap DOMAIN objects : objects[j].tc \in DOMAIN combinedTypes
DecodedInFull(x) ==
  LET own == OwnIndexes(x)
      objects == IndexObjects(x)
      decoded == DecodeRow(own, FlattenSeq(Row(objects, Origin(x).implied)))
      Shows(i, k) == own[i].labelname = sanitizeLabelName(objects[k].label)
                       /\ decoded.texts[i] = Value(objects[k])
  IN  /\ decoded.rest = <<>>
      /\ \A i \in DOMAIN own : \E k \in DOMAIN objects : Shows(i, k)
      /\ \A k \in DOMAIN objects : ~MayLack(objects, k) => \E i \in DOMAIN own : Shows(i, k)

\* Types as the SMI and the textual conventions have them: named numbers are of
\* integers and bits; strings and addresses are octet strings, of fixed size where
\* their convention says so; subtypes are integers.
Conventional(node) ==
  /\ node.type \notin Itself
  /\ node.enums # {} => node.type \in {"INTEGER", "BITSTRING"}
  /\ node.tc \in OwnTypes \cup {"PhysAddress"} \/ node.hint \in TextHints \cup {"1x:"} => node.type = "OCTETSTR"
  /\ node.tc \in {"InetAddressType", "LldpPortIdSubtype"} => node.type = "INTEGER"
  /\ node.tc = "InetAddressIPv4" => node.fixedSize = 4
  /\ node.tc = "InetAddressIPv6" => node.fixedSize = 16
\* The type of an index by the MIB, and the one that was generated, after overrides.
MibType(node) == LabelType([node EXCEPT !.type = TweakedType(node)])
MadeType(x, k) == LabelType(tree[Places(x)[k]])
\* An override of an index object's type keeps its encoding when both types are
\* single numbers, or strings, or an address has no size.
KeepsEncoding(type, generated) ==
  \/ generated = type
  \/ generated = "InetAddressMissingSize" /\ type = "InetAddress"
  \/ \E alike \in {Strings, Numbers \cup {"EnumAsInfo"}} : {generated, type} \subseteq alike
\* The exporter takes one arc between the subtype of an address and its octets, be
\* it the size or an object in between, and none when the size is said to miss.
Between(objects, implied, k) ==
  LET size == Len(Encoded(objects[k], implied /\ k = Len(objects))) - Len(Value(objects[k]))
  IN  IF k > 1 /\ objects[k - 1].tc = combinedTypes[objects[k].tc] THEN size
      ELSE IF k > 2 THEN Len(Encoded(objects[k - 1], FALSE)) + size ELSE 0
AddressesFit(x) ==
  \A k \in DOMAIN IndexObjects(x) : IndexObjects(x)[k].tc \in DOMAIN combinedTypes =>
    Between(IndexObjects(x), Origin(x).implied, k) =
      IF MadeType(x, k) = "InetAddressMissingSize" THEN 0 ELSE 1

\* Of one node only, and all but types the exporter cannot decode in an index, a
\* PhysAddress of any length, which is taken for a MAC address, and BITS, which are
\* taken for a number because they have names.
Decodable(x) ==
  /\ \A p, q \in Named(tree, OidName(x.oid)) : p = q
  /\ \A k \in DOMAIN IndexObjects(x) :
       LET n == IndexObjects(x)[k]
       IN  /\ Conventional(n) /\ TweakedType(n) \in DOMAIN metricType
           /\ MibType(n) \in IndexTypes /\ n.type # "BITSTRING"
           /\ MibType(n) = "PhysAddress48" => n.fixedSize = 6
           /\ KeepsEncoding(MibType(n), MadeType(x, k))
\* Two addresses that have one type object.
SharedAddressType(x) ==
  LET o == IndexObjects(x)
  IN  \E k \in 2..Len(o) : o[k].tc \in DOMAIN combinedTypes /\ o[k - 1].tc \in DOMAIN combinedTypes

\* The exporter finds the values of a row's index objects under their labels,
\* takes no arc of one for the next and leaves none, with the indexes the
\* generator made of them: types, sizes, implied lengths and addresses that
\* stand for several objects.
TablesDecoded ==
  JustMade =>
    \A x \in ToSet(Made.metrics) : Decodable(x) /\ AddressesFit(x) /\ ~SharedAddressType(x) => DecodedInFull(x)
\* "Convert (InetAddressType,InetAddress) to (InetAddress)", or else "Can't
\* handle index type on node, missing preceding" and the node is left out
\* (tree.go): the same for every table that is not left out.
EveryTableDecoded ==
  /\ generating # "panicked"
  /\ JustMade => \A x \in ToSet(Made.metrics) : Decodable(x) => DecodedInFull(x)

-----------------------------------------------------------------------------
(* The configuration that runs                                                *)

DefinedIn(kind, name) == {k \in DOMAIN runningFrom : name \in DOMAIN runningFrom[k][kind]}
AllDefined(kind) == UNION {DOMAIN runningFrom[k][kind] : k \in DOMAIN runningFrom}
\* What runs is what the files said when they were read: each entry is in one
\* of them, and its fields are those written there or the defaults, never those
\* of another entry, file or earlier load (UnmarshalStrict over all files; the
\* copy of the retries a module starts from).
LoadedAsWritten ==
  LET written(kind, name) == runningFrom[CHOOSE k \in DefinedIn(kind, name) : TRUE][kind][name]
  IN  /\ DOMAIN C.auths = AllDefined("auths") /\ DOMAIN C.modules = AllDefined("modules")
      /\ \A a \in DOMAIN C.auths :
           /\ Cardinality(DefinedIn("auths", a)) = 1
           /\ C.auths[a] = ExpandedAuth(Over(written("auths", a), DefaultAuth))
      /\ \A m \in DOMAIN C.modules :
           /\ Cardinality(DefinedIn("modules", m)) = 1
           /\ Params(m) = Over(written("modules", m).params, DefaultWalkParams)

\* An explicit zero where the default is none is not written (omitempty).
Zeroed(given, zero, default) == \E f \in DOMAIN given : given[f] = zero[f] /\ default[f] # zero[f]
\* From generator.yml over snmp.yml to the client: a request is answered with
\* the auth and the walk parameters generator.yml gives, and the defaults for
\* the rest.
ServedAsConfigured ==
  answer.status = 200 /\ generating = "done" /\ Last(answer.from) = output =>
    LET r == answer.request
        given == input.auths[AuthName(r)]
    IN  /\ AuthName(r) \in DOMAIN input.auths /\ ~Zeroed(given, ZeroAuth, DefaultAuth) =>
             answer.client = ConfigureSNMP(ExpandedAuth(Over(given, DefaultAuth)), First(r.snmp_context))
        /\ \A m \in DOMAIN answer.params \cap DOMAIN made :
             ~Zeroed(input.modules[m].params, ZeroWalkParams, DefaultWalkParams) =>
               answer.params[m] = Over(input.modules[m].params, DefaultWalkParams)

\* A v3 client has what its flags need: a user, and passphrases and protocols
\* for authentication and privacy.  The check is made before variables are
\* expanded, so an empty variable empties what was checked.
NoEmptyVariable == \A v \in DOMAIN scenario.env : scenario.env[v] # Nothing
Complete(c) ==
  /\ c.user # Nothing
  /\ c.flags # "noAuthNoPriv" => c.passphrase # Nothing /\ c.auth_protocol # ""
  /\ c.flags = "authPriv" => c.priv_passphrase # Nothing /\ c.priv_protocol # ""
AuthUsable ==
  answer.status = 200 /\ answer.client.version = 3 /\ NoEmptyVariable => Complete(answer.client)
=============================================================================
