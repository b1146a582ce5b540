------------------------------- MODULE Generator -------------------------------
(* The generator: generateConfig reads generator.yml, makes the configuration  *)
(* of each module from its own copy of the MIB tree (generateConfigModule) and *)
(* writes snmp.yml.  Where the code ranges over a map, any order is possible.  *)
EXTENDS MibTree, ConfigFormat

\* Where generator.yml says an OID there is one, and a static filter's target is
\* an OID or the name of an object.
IsName(name) == name[1] = "oid" => name[2] \in Oids
IsTarget(tree, name) == (name[1] = "oid" /\ name[2] \in Oids) \/ Known(tree, name)
IsModule(tree, m) ==
  /\ IsList(m.walk) /\ IsList(m.lookups) /\ IsList(m.static)
  /\ \A name \in ToSet(m.walk) : IsName(name)
  /\ \A l \in ToSet(m.lookups) : l.source \in Seq(STRING)
  /\ \A filter \in ToSet(m.static) :
       /\ IsList(filter.targets) /\ filter.indices \in Seq(Seq(Nat))
       /\ \A name \in ToSet(filter.targets) : IsTarget(tree, name)
ASSUME GeneratorAssumption ==
  \A s \in Scenarios :
    /\ s.tree \in Seq(Nodes)
    /\ \A m \in DOMAIN s.generator.modules : IsModule(s.tree, s.generator.modules[m])

VARIABLES
  generating, \* where the generator is
  todo,       \* modules of generator.yml that are left
  module,     \* the module in progress
  tree,       \* its copy of the tree
  pending,    \* its overrides that are left to be applied
  metrics,    \* out.Metrics
  need,       \* needToWalk
  instances,  \* tableInstances
  at,         \* the metric and the lookup that are next
  drops,      \* toDelete
  made        \* outputConfig.Modules
generatorVars ==
  <<scenario, generating, todo, module, tree, pending, metrics, need, instances, at, drops, made, files>>
treeVars == <<tree, instances, scenario, todo, module, made, files>>
outVars == <<scenario, todo, module, tree, pending, metrics, need, instances, at, drops, made>>

input == scenario.generator
cfg == input.modules[module]

GeneratorInit ==
  /\ scenario \in Scenarios
  /\ generating = "start" /\ todo = DOMAIN input.modules /\ module = ""
  /\ tree = prepareTree(scenario.tree) /\ pending = {}
  /\ metrics = <<>> /\ need = {} /\ instances = NoEntries
  /\ at = [metric |-> 1, lookup |-> 1] /\ drops = <<>>
  /\ made = NoEntries /\ files = scenario.files

Fail == generating' = "failed" /\ UNCHANGED <<outVars, files>>

-----------------------------------------------------------------------------
(* generator.yml (config.go of the generator)                                 *)

ValidModule(m) ==
  /\ \A name \in DOMAIN m.overrides :
       LET t == m.overrides[name].type
       IN  t = "" \/ (t \in DOMAIN metricType /\ metricType[t] = t)
  /\ \A filter \in ToSet(m.static) : \A index \in ToSet(filter.indices) : Len(index) = 1
ValidInput ==
  /\ \A m \in DOMAIN input.modules : ValidModule(input.modules[m])
  /\ \A a \in DOMAIN input.auths : ValidAuth(Over(input.auths[a], DefaultAuth))

ReadConfig ==
  /\ generating = "start" /\ ValidInput
  /\ generating' = "modules" /\ UNCHANGED <<outVars, files>>
RejectConfig == generating = "start" /\ ~ValidInput /\ Fail

\* Mutant: all modules share one tree.
SharedTree == tree
ModuleTree == prepareTree(scenario.tree)
PickModule(m) ==
  /\ generating = "modules" /\ m \in todo
  /\ generating' = "types" /\ module' = m /\ todo' = todo \ {m}
  /\ tree' = ModuleTree
  /\ pending' = {name \in DOMAIN input.modules[m].overrides : input.modules[m].overrides[name].type # ""}
  /\ UNCHANGED <<scenario, metrics, need, instances, at, drops, made, files>>

OverrideType(name) ==
  /\ generating = "types" /\ name \in pending
  /\ pending' = pending \ {name}
  /\ tree' = IF ~Known(tree, name) THEN tree
             ELSE [tree EXCEPT ![nameToNode(tree, name)].type = cfg.overrides[name].type]
  /\ UNCHANGED <<scenario, generating, todo, module, metrics, need, instances, at, drops, made, files>>

-----------------------------------------------------------------------------
(* The walk and its metrics                                                   *)

Walkable(name) == name[1] = "oid" \/ (name[1] # "dotted" /\ Known(tree, name))
toWalk == minimizeOids({Resolve(tree, name) : name \in ToSet(cfg.walk)})
Match(oid) == getMetricNode(tree, oid)
WalkValid ==
  /\ \A name \in ToSet(cfg.walk) : Walkable(name)
  /\ \A oid \in ToSet(toWalk) : Match(oid).kind # "notFound"
WalkInvalid == generating = "types" /\ pending = {} /\ ~WalkValid /\ Fail

AskFor(oid) ==
  CASE Match(oid).kind = "subtree" -> oid
    [] Match(oid).kind = "instance" -> Get(oid)
    [] OTHER -> Get(Append(oid, 0))
Suffix(oid, prefix) == SubSeq(oid, Len(prefix) + 1, Len(oid))
tableInstances ==
  LET rows == {oid \in ToSet(toWalk) : Match(oid).kind = "instance"}
      column(oid) == tree[Match(oid).node].oid
  IN  [o \in {column(oid) : oid \in rows} |-> {Suffix(oid, o) : oid \in {r \in rows : column(r) = o}}]
InstancesOf(oid) == IF oid \in DOMAIN instances THEN instances[oid] ELSE {}

Enumerated(node) == node.enums # {} /\ node.type \notin {"EnumAsStateSet", "gauge"}
LabelType(node) == IF Enumerated(node) THEN "EnumAsInfo" ELSE metricType[node.type]
IndexOf(label, node, implied) ==
  [labelname |-> label, type |-> LabelType(node), fixedSize |-> node.fixedSize,
   implied |-> implied, enumValues |-> node.enums]

\* Mutant: a subtype two objects before is one before.
TakenAsPrevious(subtype, acc) == IF subtype \in {acc.prevType, acc.prev2Type} THEN 1 ELSE 0
\* How many indexes an address takes the place of; the subtype is the object
\* before it or the one before that.
Taken(subtype, acc) ==
  CASE subtype = acc.prevType -> 1
    [] subtype # acc.prevType /\ subtype = acc.prev2Type -> 2
    [] OTHER -> 0
AddIndex(n, acc, k) ==
  LET label == Label(n.indexes[k])
      node == tree[nameToNode(tree, label)]
      index == IndexOf(n.indexes[k], node, n.implied /\ k = Len(n.indexes))
      combined == index.type \in DOMAIN combinedTypes
      taken == IF combined THEN Taken(combinedTypes[index.type], acc) ELSE 0
  IN  IF acc.result # "metric" THEN acc
      ELSE IF ~Known(tree, label) \/ node.type \notin DOMAIN metricType \/ (combined /\ taken = 0)
        THEN [acc EXCEPT !.result = "skipped"]
      ELSE IF taken > Len(acc.indexes) THEN [acc EXCEPT !.result = "panicked"]
      ELSE [acc EXCEPT !.indexes = Append(SubSeq(@, 1, Len(@) - taken), index),
                       !.prevType = node.tc, !.prev2Type = acc.prevType]
NoIndexes == [result |-> "metric", indexes |-> <<>>, prevType |-> "", prev2Type |-> ""]
Indexes(n) ==
  LET upTo[k \in 0..Len(n.indexes)] == IF k = 0 THEN NoIndexes ELSE AddIndex(n, upTo[k - 1], k)
  IN  upTo[Len(n.indexes)]

Ignored(n) ==
  LET name == Label(sanitizeLabelName(n.label))
  IN  name \in DOMAIN cfg.overrides /\ cfg.overrides[name].ignore
MetricOf(n) ==
  [name |-> sanitizeLabelName(n.label), oid |-> n.oid, type |-> metricType[n.type],
   indexes |-> Indexes(n).indexes, lookups |-> <<>>, enumValues |-> n.enums,
   scale |-> 0, displayHint |-> ""]
\* The usable nodes below the top-level ones, which are sorted by their OIDs.
Candidates ==
  LET tops == Sorted({tree[Match(oid).node].oid : oid \in ToSet(toWalk)})
  IN  Keep(FlattenSeq([k \in DOMAIN tops |-> Under(tree, tops[k])]),
           {p \in DOMAIN tree : Usable(tree[p]) /\ ~Ignored(tree[p])})
Panicking == \E p \in ToSet(Candidates) : Indexes(tree[p]).result = "panicked"

FindMetrics ==
  /\ generating = "types" /\ pending = {} /\ WalkValid /\ ~Panicking
  /\ generating' = "lookups"
  /\ need' = {AskFor(oid) : oid \in ToSet(toWalk)}
  /\ instances' = tableInstances
  /\ LET usable == Keep(Candidates, {p \in ToSet(Candidates) : Indexes(tree[p]).result = "metric"})
     IN  metrics' = [k \in DOMAIN usable |-> MetricOf(tree[usable[k]])]
  /\ at' = [metric |-> 1, lookup |-> 1] /\ drops' = <<>>
  /\ UNCHANGED <<scenario, todo, module, tree, pending, made, files>>

\* metric.Indexes[:len(metric.Indexes)-2] with fewer than two indexes.
IndexPanic ==
  /\ generating = "types" /\ pending = {} /\ WalkValid /\ Panicking
  /\ generating' = "panicked" /\ UNCHANGED <<outVars, files>>

-----------------------------------------------------------------------------
(* Lookups                                                                    *)

lookup == cfg.lookups[at.lookup]
metric == metrics[at.metric]
LookingUp == generating = "lookups" /\ at.metric \in DOMAIN metrics
AtLookup == LookingUp /\ at.lookup \in DOMAIN cfg.lookups
\* All sources are indexes, counted by pairs.
Applies ==
  Cardinality({p \in (DOMAIN metric.indexes) \X (DOMAIN lookup.source) :
                 metric.indexes[p[1]].labelname = lookup.source[p[2]]}) = Len(lookup.source)
IndexNodes == getIndexNode(tree, lookup.lookup, metric.oid)
requiredAsIndex == UNION {ToSet(l.source) : l \in ToSet(cfg.lookups)}
\* The last filter of an OID.
filterMap(oid) == {k \in DOMAIN cfg.static : oid \in {Resolve(tree, t) : t \in ToSet(cfg.static[k].targets)}}
Rows(oid, indices) == {Get(oid \o index) : index \in indices}

SkipLookup ==
  /\ AtLookup /\ ~Applies
  /\ at' = [at EXCEPT !.lookup = @ + 1]
  /\ UNCHANGED <<treeVars, generating, pending, metrics, need, drops>>

LookupFails ==
  /\ AtLookup /\ Applies
  /\ \/ ~Known(tree, lookup.lookup)
     \/ Known(tree, lookup.lookup) /\ \E p \in IndexNodes : tree[p].type \notin DOMAIN metricType
  /\ Fail

LookupOf(node) ==
  [labelname |-> sanitizeLabelName(node.label), type |-> LabelType(node), oid |-> node.oid,
   enumValues |-> node.enums,
   labels |-> [k \in DOMAIN lookup.source |-> sanitizeLabelName(lookup.source[k])],
   displayHint |-> IF lookup.displayHint = "@mib" THEN node.hint ELSE lookup.displayHint]
\* Mutant: only what is asked for by instance has its lookups asked for.
ObjectsByInstance(oid) == Rows(oid, InstancesOf(metric.oid))
\* What the lookup is made of is asked for as the metric is.
ObjectsOf(oid) ==
  IF InstancesOf(metric.oid) = {} THEN {oid} ELSE Rows(oid, InstancesOf(metric.oid))
\* Mutant: the filter of the looked up object does not reach the metric.
Unfiltered(asked, oid) == asked
\* A metric is filtered as the object it looks up.
FilteredLike(asked, oid) ==
  IF filterMap(oid) = {} THEN asked
  ELSE (asked \ {metric.oid}) \cup Rows(metric.oid, ToSet(cfg.static[Max(filterMap(oid))].indices))

ApplyLookup ==
  /\ AtLookup /\ Applies /\ Known(tree, lookup.lookup)
  /\ \E p \in IndexNodes :
       LET l == LookupOf(tree[p])
           appended == IF l.labelname \in requiredAsIndex
                         THEN <<[IndexOf(l.labelname, tree[p], FALSE) EXCEPT !.fixedSize = 0]>>
                         ELSE <<>>
       IN  /\ tree[p].type \in DOMAIN metricType
           /\ metrics' = [metrics EXCEPT ![at.metric].lookups = Append(@, l),
                                         ![at.metric].indexes = @ \o appended]
           /\ need' = FilteredLike(need \cup ObjectsOf(tree[p].oid), tree[p].oid)
  /\ drops' = IF lookup.drop THEN drops \o lookup.source ELSE drops
  /\ at' = [at EXCEPT !.lookup = @ + 1]
  /\ UNCHANGED <<treeVars, generating, pending>>

\* A lookup without sources takes a label away.
Dropping(label) ==
  [labelname |-> sanitizeLabelName(label), type |-> "", oid |-> <<>>, enumValues |-> {},
   labels |-> <<>>, displayHint |-> ""]
DropSources ==
  /\ LookingUp /\ at.lookup > Len(cfg.lookups)
  /\ metrics' = [metrics EXCEPT ![at.metric].lookups = @ \o [k \in DOMAIN drops |-> Dropping(drops[k])]]
  /\ drops' = <<>>
  /\ at' = [metric |-> at.metric + 1, lookup |-> 1]
  /\ UNCHANGED <<treeVars, generating, pending, need>>

-----------------------------------------------------------------------------
(* The rest of a module                                                       *)

prevOid(oid) == Front(oid) \o <<Last(oid) - 1>>
IsAddress(m) == m.type \in {"InetAddress", "InetAddressMissingSize"}
HasType(m) ==
  LET prev == OidName(prevOid(m.oid))
  IN  Known(tree, prev) /\ tree[nameToNode(tree, prev)].tc = "InetAddressType"
TypeObjects(m) ==
  IF InstancesOf(m.oid) = {} THEN {prevOid(m.oid)} ELSE Rows(prevOid(m.oid), InstancesOf(m.oid))

ValidLabels(indexes) ==
  [k \in DOMAIN indexes |-> [indexes[k] EXCEPT !.labelname = sanitizeLabelName(@)]]
\* Index labels are made valid; an address without its type is an octet string.
FinishLookups ==
  /\ generating = "lookups" /\ at.metric > Len(metrics)
  /\ generating' = "overrides" /\ pending' = DOMAIN cfg.overrides
  /\ metrics' =
       [k \in DOMAIN metrics |->
         [metrics[k] EXCEPT
           !.indexes = ValidLabels(@),
           !.type = IF IsAddress(metrics[k]) /\ ~HasType(metrics[k]) THEN "OctetString" ELSE @]]
  /\ need' = need \cup UNION {TypeObjects(m) : m \in {x \in ToSet(metrics) : IsAddress(x) /\ HasType(x)}}
  /\ UNCHANGED <<treeVars, at, drops>>

Overridden(m, params) ==
  LET mib == tree[nameToNode(tree, OidName(m.oid))].hint
      hint == IF params.displayHint = "@mib" THEN mib ELSE params.displayHint
  IN  [m EXCEPT !.scale = params.scale,
                !.name = IF params.name = "" THEN @ ELSE params.name,
                !.displayHint = IF hint = "" THEN @ ELSE hint]
OverrideMetrics(name) ==
  /\ generating = "overrides" /\ name \in pending
  /\ pending' = pending \ {name}
  /\ metrics' = [k \in DOMAIN metrics |->
                   IF name \in {Label(metrics[k].name), OidName(metrics[k].oid)}
                     THEN Overridden(metrics[k], cfg.overrides[name]) ELSE metrics[k]]
  /\ UNCHANGED <<treeVars, generating, need, at, drops>>

Targets(filter) == {Resolve(tree, t) : t \in ToSet(filter.targets)}
Filtered(asked) ==
  (asked \ UNION {Targets(f) : f \in ToSet(cfg.static)})
    \cup UNION {UNION {Rows(oid, ToSet(f.indices)) : oid \in Targets(f)} : f \in ToSet(cfg.static)}
FinishModule ==
  /\ generating = "overrides" /\ pending = {}
  /\ generating' = "modules"
  /\ need' = Filtered(need)
  /\ LET asked == minimizeOids(need')
         gets == Keep(asked, {oid \in ToSet(asked) : IsGet(oid)})
     IN  made' = Put(made, module,
                   [ metrics |-> metrics, filters |-> cfg.dynamic,
                     walk |-> Keep(asked, {oid \in ToSet(asked) : ~IsGet(oid)}),
                     get |-> [k \in DOMAIN gets |-> Front(gets[k])],
                     params |-> WrittenWalkParams(Over(cfg.params, ZeroWalkParams)) ])
  /\ UNCHANGED <<scenario, todo, module, tree, pending, metrics, instances, at, drops, files>>

-----------------------------------------------------------------------------
(* snmp.yml                                                                   *)

output ==
  Document([a \in DOMAIN input.auths |-> WrittenAuth(Over(input.auths[a], DefaultAuth))], made)
\* The marshalled output is read again before the file is touched.
Marshal ==
  /\ generating = "modules" /\ todo = {}
  /\ generating' = IF \A a \in DOMAIN output.auths : ValidAuth(Over(output.auths[a], DefaultAuth))
                     THEN "create" ELSE "failed"
  /\ UNCHANGED <<outVars, files>>
WriteFile(content) == files' = [files EXCEPT ![Len(files)] = content] /\ UNCHANGED outVars
CreateFile == generating = "create" /\ generating' = "write" /\ WriteFile(EmptyFile)
Write == generating = "write" /\ generating' = "done" /\ WriteFile(output)
\* The file cannot be opened, or the write or the process ends early.
CreateFails == generating = "create" /\ Fail
WriteFails ==
  /\ generating = "write" /\ generating' = "failed"
  /\ \E content \in {EmptyFile, Torn} : WriteFile(content)

GeneratorNext ==
  \/ ReadConfig \/ RejectConfig
  \/ \E m \in todo : PickModule(m)
  \/ \E name \in pending : OverrideType(name) \/ OverrideMetrics(name)
  \/ WalkInvalid \/ FindMetrics \/ IndexPanic
  \/ SkipLookup \/ LookupFails \/ ApplyLookup \/ DropSources \/ FinishLookups
  \/ FinishModule
  \/ Marshal \/ CreateFile \/ CreateFails \/ Write \/ WriteFails
=============================================================================
