----------------------------- MODULE MCDeployment -----------------------------
(* Instances of Deployment for TLC: one MIB with the tables that are hard to   *)
(* handle, modules over it that use every option of generator.yml, and files   *)
(* and requests the exporter has to tell apart.                                *)
EXTENDS Deployment

MCSanitized == [x \in {"if-alias"} |-> "if_alias"]

Node(oid, label) ==
  [ oid |-> oid, module |-> "M", label |-> label, augments |-> "", type |-> "unknown", hint |-> "",
    tc |-> "", fixedSize |-> 0, access |-> "unknown", enums |-> {}, indexes |-> <<>>, implied |-> FALSE ]
Object(oid, label, type) == [Node(oid, label) EXCEPT !.type = type, !.access = "ACCESS_READONLY"]
Conv(oid, label, type, tc) == [Object(oid, label, type) EXCEPT !.tc = tc]
Entry(oid, label, indexes) == [Node(oid, label) EXCEPT !.indexes = indexes]
Hidden(node) == [node EXCEPT !.access = "ACCESS_NOTIFY"]

Interfaces ==
  << Node(<<1, 2>>, "ifTable"), Entry(<<1, 2, 1>>, "ifEntry", <<"ifIndex">>),
     Object(<<1, 2, 1, 1>>, "ifIndex", "INTEGER32"),
     [Conv(<<1, 2, 1, 2>>, "ifDescr", "OCTETSTR", "DisplayString") EXCEPT !.hint = "255a"],
     [Object(<<1, 2, 1, 3>>, "ifPhys", "OCTETSTR") EXCEPT !.hint = "1x:", !.fixedSize = 6],
     [Object(<<1, 2, 1, 4>>, "ifState", "INTEGER") EXCEPT !.enums = {1, 2}],
     Object(<<1, 2, 1, 5>>, "ifIn", "COUNTER"),
     Object(<<1, 2, 1, 6>>, "ifOpaque", "OPAQUE"),
     Object(<<1, 2, 1, 10>>, "ifOut", "COUNTER64") >>
Extended ==
  << Node(<<1, 3>>, "ifXTable"), [Node(<<1, 3, 1>>, "ifXEntry") EXCEPT !.augments = "ifEntry"],
     [Object(<<1, 3, 1, 1>>, "if-alias", "OCTETSTR") EXCEPT !.hint = "255t"],
     Object(<<1, 3, 1, 2>>, "policy", "UNSIGNED32"),
     Node(<<1, 3, 2>>, "noEntry") >>
\* Policies, looked up by a looked up number; two objects with one name.
Policies ==
  << Node(<<1, 4>>, "policyTable"), Entry(<<1, 4, 1>>, "policyEntry", <<"policyIndex">>),
     Object(<<1, 4, 1, 1>>, "policyIndex", "UNSIGNED32"),
     Conv(<<1, 4, 1, 2>>, "policyName", "OCTETSTR", "DisplayString"),
     Conv(<<1, 4, 1, 3>>, "ifDescr", "OCTETSTR", "DisplayString") >>
\* A table with one column.
Table(n, label, indexes, implied) ==
  << Node(<<1, n>>, label \o "Table"),
     [Entry(<<1, n, 1>>, label \o "Entry", indexes) EXCEPT !.implied = implied],
     Object(<<1, n, 1, 1>>, label, "GAUGE") >>
Indexing ==
  << Node(<<1, 5>>, "indexObjects"),
     Hidden(Conv(<<1, 5, 1>>, "addrType", "INTEGER", "InetAddressType")),
     Hidden(Conv(<<1, 5, 2>>, "addr", "OCTETSTR", "InetAddress")),
     Hidden(Conv(<<1, 5, 3>>, "addr2", "OCTETSTR", "InetAddress")),
     Hidden(Conv(<<1, 5, 4>>, "name", "OCTETSTR", "DisplayString")),
     Hidden([Object(<<1, 5, 5>>, "key", "OCTETSTR") EXCEPT !.fixedSize = 3]),
     Hidden(Object(<<1, 5, 6>>, "ip", "IPADDR")),
     Hidden([Object(<<1, 5, 7>>, "mac", "OCTETSTR") EXCEPT !.hint = "1x:", !.fixedSize = 6]),
     Hidden(Conv(<<1, 5, 8>>, "phys", "OCTETSTR", "PhysAddress")),
     Hidden(Conv(<<1, 5, 9>>, "portSubtype", "INTEGER", "LldpPortIdSubtype")),
     Hidden(Conv(<<1, 5, 10>>, "port", "OCTETSTR", "LldpPortId")),
     Hidden(Conv(<<1, 5, 11>>, "safi", "INTEGER", "Safi")),
     Hidden([Object(<<1, 5, 12>>, "flags", "BITSTRING") EXCEPT !.enums = {0, 1}]),
     Hidden([Object(<<1, 5, 13>>, "kind", "INTEGER") EXCEPT !.enums = {1, 2}]),
     Hidden([Object(<<1, 5, 14>>, "name2", "OCTETSTR") EXCEPT !.hint = "32a"]) >>
Indexed(lists) == FlattenSeq([k \in DOMAIN lists |-> Table(100 + k, ToString(k), lists[k], FALSE)])
Implied(lists) == FlattenSeq([k \in DOMAIN lists |-> Table(200 + k, "i" \o ToString(k), lists[k], TRUE)])
Plain ==
  Indexed(<< <<"addrType", "addr">>, <<"kind", "addrType", "addr", "name">>, <<"name", "key", "name2">>,
             <<"portSubtype", "port">>, <<"addr", "addrType">>, <<"phys">>, <<"ifIndex", "flags">>,
             <<"INTEGER">>, <<"ifIndex", "missing">>, <<"ip", "kind">> >>)
    \o Implied(<< <<"name", "ip">>, <<"key", "mac", "name">>, <<"addrType", "safi", "addr">> >>)
Shared == Indexed(<< <<"ifIndex", "addrType", "addr", "addr2">> >>)
TooShort == Indexed(<< <<"addrType", "addr", "addr2">> >>)
\* Addresses as columns, with and without their type before them.
Peers ==
  << Node(<<1, 6>>, "peerTable"), Entry(<<1, 6, 1>>, "peerEntry", <<"ifIndex">>),
     Hidden(Conv(<<1, 6, 1, 1>>, "peerType", "INTEGER", "InetAddressType")),
     Conv(<<1, 6, 1, 2>>, "peer", "OCTETSTR", "InetAddress"),
     Conv(<<1, 6, 1, 3>>, "nextHop", "OCTETSTR", "InetAddress") >>
Root == << Node(<<1>>, "root"), Object(<<1, 1>>, "sysUp", "TIMETICKS") >>
Mib == Root \o Interfaces \o Extended \o Policies
Tables(some) == Root \o SubSeq(Interfaces, 1, 3) \o Indexing \o Peers \o some

-----------------------------------------------------------------------------
(* Modules of generator.yml, each the only one of its scenario or with others *)

Module(walk) ==
  [walk |-> walk, lookups |-> <<>>, overrides |-> NoEntries, static |-> <<>>, dynamic |-> <<>>, params |-> NoEntries]
Lookup(sources, label, drop) ==
  [source |-> sources, lookup |-> Label(label), drop |-> drop, displayHint |-> ""]
NoOverride == [type |-> "", ignore |-> FALSE, name |-> "", scale |-> 0, displayHint |-> ""]
Typed(type) == [NoOverride EXCEPT !.type = type]
Filter(label, indices) == [targets |-> <<Label(label)>>, indices |-> indices]

ByDescr == Lookup(<<"ifIndex">>, "ifDescr", TRUE)
ByAlias == Lookup(<<"ifIndex">>, "if-alias", FALSE)
ByState == Lookup(<<"ifIndex">>, "ifState", FALSE)
Chain == <<Lookup(<<"ifIndex">>, "policy", FALSE), Lookup(<<"policy">>, "policyName", TRUE)>>
Unknown == <<Lookup(<<"ifIndex">>, "nothing", FALSE)>>
NoType == <<Lookup(<<"ifIndex">>, "ifOpaque", FALSE)>>
LookupLists ==
  {<<>>, <<ByDescr>>, <<ByAlias, ByDescr, ByState>>, Chain, Chain \o <<ByDescr>>}
In(row) == OidName(<<1, 2, 1, 5, row>>)
Walks ==
  { <<Label("ifTable"), Label("policyTable")>>, <<Label("ifOut"), Label("ifIndex"), OidName(<<1, 2, 1>>)>>,
    <<Label("ifXTable"), Label("ifOut"), Label("ifIndex"), Label("ifDescr")>>,
    <<In(7), In(70), Label("sysUp"), Label("ifDescr")>>, <<Qualified("M", "ifIn"), Label("policy"), Label("if-alias")>>,
    <<Label("ifTable"), Label("if-alias")>> }
FilterLists ==
  {<<>>, <<Filter("ifState", <<<<7>>>>)>>, <<Filter("if-alias", <<<<7>>, <<8>>>>), Filter("ifState", <<<<9>>>>)>>}
LookupModules ==
  {[Module(w) EXCEPT !.lookups = l, !.static = f] : w \in Walks, l \in LookupLists, f \in FilterLists}
    \cup {[Module(<<Label("ifIn")>>) EXCEPT !.lookups = l] : l \in {Unknown, NoType}}

\* Overrides by label, OID and qualified name; of types, names, and ignored.
Overriding ==
  [n \in {Label("ifIn"), Label("ifState"), OidName(<<1, 2, 1, 10>>), Label("if_alias"), Label("ifRenamed"), Label("none")} |->
     CASE n = Label("ifIn") -> Typed("gauge")
       [] n = Label("ifState") -> Typed("EnumAsStateSet")
       [] n = OidName(<<1, 2, 1, 10>>) -> [Typed("Double") EXCEPT !.name = "ifRenamed", !.displayHint = "@mib"]
       [] n = Label("if_alias") -> [NoOverride EXCEPT !.ignore = TRUE]
       [] n = Label("ifRenamed") -> [NoOverride EXCEPT !.scale = 2]
       [] OTHER -> Typed("gauge")]
Overridden1 == [Module(<<Label("ifIn"), Label("ifState"), Label("ifOut"), Label("if-alias")>>) EXCEPT !.overrides = Overriding]
AllTables == Module(<<OidName(<<1>>)>>)
MissingSizes ==
  [Module(<<OidName(<<1, 6, 1, 2, 4>>), Label("nextHop"), Label("peerType")>>) EXCEPT
     !.overrides = [n \in {Label("nextHop")} |-> Typed("InetAddressMissingSize")]]
\* An address whose type is a metric that a filter reaches; a metric asked for by
\* instance that another one looks up.
TypedPeers == [Peers EXCEPT ![3].access = "ACCESS_READONLY"]
Peering ==
  [Module(<<Label("peerType"), Label("peer")>>) EXCEPT !.lookups = <<ByState>>, !.static = <<Filter("ifState", <<<<7>>>>)>>]
OneRow ==
  [Module(<<In(7), Label("policyTable")>>) EXCEPT
     !.lookups = <<Lookup(<<"policyIndex">>, "ifIn", FALSE), ByDescr>>]
Invalid ==
  { [Module(<<>>) EXCEPT !.overrides = [n \in {Label("ifIn")} |-> Typed("COUNTER")]],
    [Module(<<>>) EXCEPT !.static = <<Filter("ifIn", <<<<1, 2>>>>)>>] }
BadWalks == {<<Label("nothing")>>, <<<<"dotted", <<1>>>>>>, <<OidName(<<2, 7>>)>>, <<OidName(<<1, 9, 9>>)>>}

-----------------------------------------------------------------------------
(* Scenarios                                                                  *)

Scenario(mib, modules) ==
  [ tree |-> mib, generator |-> [auths |-> NoEntries, modules |-> modules], files |-> <<Torn>>,
    env |-> NoEntries, expand |-> FALSE, requests |-> {} ]
One(m) == [n \in {"a"} |-> m]
GeneratorScenarios ==
  {Scenario(Mib, One(m)) : m \in LookupModules \cup Invalid \cup {Module(w) : w \in BadWalks}}
    \cup {Scenario(Mib, [n \in {"a", "b"} |-> IF n = "a" THEN Overridden1 ELSE Module(<<Label("ifIn"), Label("ifState")>>)]),
          Scenario(Tables(TooShort), One(AllTables))}
    \cup {Scenario(Tables(Plain \o Shared), One(m)) : m \in {AllTables, MissingSizes}}
    \cup {Scenario(Mib \o TypedPeers, One(m)) : m \in {Peering, OneRow}}

Secrets == [password |-> Variable("PASSWORD"), priv_password |-> Literal("privacy"), username |-> Variable("USER")]
V3(level) == [version |-> 3, security_level |-> level] @@ Secrets
Auths ==
  { [n \in {"public_v2", "v3"} |-> IF n = "v3" THEN V3("authPriv") @@ [priv_protocol |-> "AES", auth_protocol |-> "SHA"]
                                   ELSE [community |-> "c", security_level |-> "none", context_name |-> "x"]],
    [n \in {"v3"} |-> V3("authNoPriv")], [n \in {"public_v2"} |-> [community |-> "", version |-> 1]],
    [n \in {"v3"} |-> [version |-> 3, security_level |-> "authPriv", username |-> Literal("u"), priv_password |-> Literal("p")]],
    [n \in {"v3"} |-> V3("none")], [n \in {"v3"} |-> [version |-> 4]] }
Written(params) == [metrics |-> <<>>, filters |-> <<>>, walk |-> <<>>, get |-> <<>>, params |-> params]
ByHand ==
  { Missing, Torn, Document([n \in {"v3"} |-> [version |-> 2]], NoEntries),
    Document(NoEntries, [n \in {"m", "n"} |-> Written(IF n = "m" THEN [retries |-> 7] ELSE NoEntries)]),
    Document(NoEntries, [n \in {"a"} |-> Written([timeout |-> 1])]) }
Old == Document([n \in {"public_v2"} |-> [version |-> 1]], [n \in {"a"} |-> Written([retries |-> 2])])
Environments ==
  { [v \in {"USER", "PASSWORD"} |-> Literal("secret")], [v \in {"USER"} |-> Literal("u")],
    [v \in {"USER", "PASSWORD"} |-> IF v = "USER" THEN Literal("u") ELSE Nothing] }
Request(auth, modules) ==
  [target |-> <<"host">>, auth |-> auth, snmp_context |-> <<>>, snmp_engineid |-> <<>>, module |-> modules]
Requests ==
  { Request(<<>>, <<<<"a", "", "a">>>>), [Request(<<"v3">>, <<<<"a">>>>) EXCEPT !.snmp_context = <<"ctx">>],
    Request(<<"">>, <<<<"n">>>>), Request(<<>>, <<>>), [Request(<<>>, <<>>) EXCEPT !.target = <<"">>] }
LoadScenarios ==
  { [ tree |-> Root,
      generator |-> [auths |-> auths, modules |-> One([Module(<<Label("sysUp")>>) EXCEPT !.params = params])],
      files |-> <<file, Old>>, env |-> start[1], expand |-> start[2], requests |-> Requests ] :
    auths \in Auths, params \in {[retries |-> 0, timeout |-> 9], [timeout |-> 0]}, file \in ByHand,
    start \in (Environments \X {TRUE}) \cup {<<NoEntries, FALSE>>} }
MCScenarios == GeneratorScenarios \cup LoadScenarios
MCSharedScenarios == {Scenario(Tables(s), One(AllTables)) : s \in {Shared, TooShort}}
=============================================================================
