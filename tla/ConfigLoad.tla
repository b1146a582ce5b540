------------------------------ MODULE ConfigLoad ------------------------------
(* What the exporter makes of the configuration files: LoadFile reads them one *)
(* after the other into one configuration, and a request to /snmp is answered  *)
(* by a client made from it (handler, parseModules, ConfigureSNMP).  When      *)
(* loads and requests may happen, and the lock, are the subject of SafeConfig. *)
EXTENDS ConfigFormat, FiniteSets, SequencesExt

CONSTANT MaxLoads \* bound: calls of LoadFile
ASSUME ConfigLoadAssumption == MaxLoads \in Nat

VARIABLES
  exporter,    \* where the exporter is
  loads,       \* calls of LoadFile so far
  fileNo,      \* the file that is next
  left,        \* entries of the file being read that are left
  conf,        \* the configuration being read
  heap,        \* the integers retries point to; the first is defaultRetries
  C,           \* sc.C
  answer,      \* the last answer of /snmp
  readFrom,    \* history: the documents conf is made of
  runningFrom  \* history: the documents C is made of
exporterVars == <<exporter, loads, fileNo, left, conf, heap, C, answer, readFrom, runningFrom>>
servedVars == <<C, answer, runningFrom, scenario, files>>

NoConfig == [auths |-> NoEntries, modules |-> NoEntries]
NoAnswer == [status |-> 0]
ExporterInit ==
  /\ exporter = "idle" /\ loads = 0 /\ fileNo = 1 /\ left = EmptyFile
  /\ conf = NoConfig /\ heap = <<DefaultWalkParams.retries>>
  /\ C = NoConfig /\ answer = NoAnswer /\ readFrom = <<>> /\ runningFrom = <<>>

-----------------------------------------------------------------------------
(* LoadFile                                                                   *)

StartLoad ==
  /\ exporter = "idle" /\ loads < MaxLoads
  /\ exporter' = "read" /\ loads' = loads + 1 /\ fileNo' = 1
  /\ conf' = NoConfig /\ readFrom' = <<>>
  /\ UNCHANGED <<servedVars, left, heap>>

\* A pattern that matches no file is only logged.
ReadFile ==
  /\ exporter = "read" /\ fileNo \in DOMAIN files /\ files[fileNo] # Torn
  /\ exporter' = "unmarshal" /\ fileNo' = fileNo + 1
  /\ left' = IF files[fileNo] = Missing THEN EmptyFile ELSE files[fileNo]
  /\ readFrom' = Append(readFrom, left')
  /\ UNCHANGED <<servedVars, loads, conf, heap>>

FullAuth(a) == Over(left.auths[a], DefaultAuth)
\* Mutant: an entry that is there already is replaced.
NotYet(name, entries) == TRUE
\* UnmarshalStrict refuses an entry that is there already.
New(name, entries) == name \notin DOMAIN entries
UnmarshalAuth(a) ==
  /\ exporter = "unmarshal" /\ New(a, conf.auths) /\ ValidAuth(FullAuth(a))
  /\ conf' = [conf EXCEPT !.auths = Put(@, a, FullAuth(a))]
  /\ left' = [left EXCEPT !.auths = Without(@, a)]
  /\ UNCHANGED <<servedVars, exporter, loads, fileNo, heap, readFrom>>

\* Mutant: the module points to the default itself.
DefaultRetries == heap
\* A module starts with a copy of the default.
CopyRetries == Append(heap, heap[1])
UnmarshalModule(m) ==
  LET written == left.modules[m]
      cell == Len(CopyRetries)
      params == [Over(written.params, DefaultWalkParams) EXCEPT !.retries = cell]
  IN  /\ exporter = "unmarshal" /\ New(m, conf.modules)
      /\ heap' = IF "retries" \in DOMAIN written.params
                   THEN [CopyRetries EXCEPT ![cell] = written.params.retries] ELSE CopyRetries
      /\ conf' = [conf EXCEPT !.modules = Put(@, m, [written EXCEPT !.params = params])]
      /\ left' = [left EXCEPT !.modules = Without(@, m)]
      /\ UNCHANGED <<servedVars, exporter, loads, fileNo, readFrom>>

FileRead ==
  /\ exporter = "unmarshal" /\ left = EmptyFile
  /\ exporter' = "read"
  /\ UNCHANGED <<servedVars, loads, fileNo, left, conf, heap, readFrom>>

\* substituteEnvVariables, for the fields it is called on.
Fields == {"username", "password", "priv_password"}
IsVariable(secret) == secret # Nothing /\ secret[1] = "variable"
Expandable(secret) == IsVariable(secret) => secret[2] \in DOMAIN scenario.env
Expanded(secret) ==
  IF IsVariable(secret) THEN (IF Expandable(secret) THEN scenario.env[secret[2]] ELSE Nothing) ELSE secret
ExpandedAuth(auth) ==
  IF scenario.expand THEN [f \in DOMAIN auth |-> IF f \in Fields THEN Expanded(auth[f]) ELSE auth[f]]
  ELSE auth
CanExpand ==
  scenario.expand => \A a \in DOMAIN conf.auths : \A f \in Fields : Expandable(conf.auths[a][f])

\* main starts only with modules and auths; a reload does not ask.
Startable == runningFrom # <<>> \/ (conf.auths # NoEntries /\ conf.modules # NoEntries)
LoadSucceeds ==
  /\ exporter = "read" /\ fileNo > Len(files) /\ CanExpand
  /\ exporter' = IF Startable THEN "idle" ELSE "exited"
  /\ C' = [conf EXCEPT !.auths = [a \in DOMAIN @ |-> ExpandedAuth(@[a])]]
  /\ runningFrom' = readFrom
  /\ UNCHANGED <<loads, fileNo, left, conf, heap, answer, readFrom, scenario, files>>

\* The first load decides whether the exporter starts.
LoadFails ==
  /\ \/ exporter = "read" /\ fileNo \in DOMAIN files /\ files[fileNo] = Torn
     \/ /\ exporter = "unmarshal"
        /\ \/ \E a \in DOMAIN left.auths : ~New(a, conf.auths) \/ ~ValidAuth(FullAuth(a))
           \/ \E m \in DOMAIN left.modules : ~New(m, conf.modules)
     \/ exporter = "read" /\ fileNo > Len(files) /\ ~CanExpand
  /\ exporter' = IF runningFrom = <<>> THEN "exited" ELSE "idle"
  /\ UNCHANGED <<servedVars, loads, fileNo, left, conf, heap, readFrom>>

-----------------------------------------------------------------------------
(* /snmp.  Each parameter of a request is the sequence of its values; a value  *)
(* of module is the sequence of the names between its commas.                 *)

Serving == exporter # "exited" /\ runningFrom # <<>>
First(values) == IF values = <<>> THEN "" ELSE Head(values)
parseModules(values) ==
  LET add(seen, m) == IF m = "" \/ m \in ToSet(seen) THEN seen ELSE Append(seen, m)
  IN  FoldLeft(add, <<>>, FlattenSeq(IF values = <<>> THEN <<<<"if_mib">>>> ELSE values))
AuthName(r) == IF First(r.auth) = "" THEN "public_v2" ELSE First(r.auth)
WellFormed(r) ==
  /\ Len(r.target) = 1 /\ First(r.target) # ""
  /\ Len(r.auth) <= 1 /\ Len(r.snmp_context) <= 1 /\ Len(r.snmp_engineid) <= 1
  /\ parseModules(r.module) # <<>>
Found(r) == AuthName(r) \in DOMAIN C.auths /\ ToSet(parseModules(r.module)) \subseteq DOMAIN C.modules

\* A security level that is none of v3's leaves flags and passphrases unset.
ConfigureSNMP(auth, snmpContext) ==
  LET priv == auth.security_level = "authPriv"
      authn == auth.security_level \in {"authNoPriv", "authPriv"}
  IN  [ version |-> auth.version, community |-> auth.community, user |-> auth.username,
        context |-> IF snmpContext = "" THEN auth.context_name ELSE snmpContext,
        flags |-> IF authn THEN auth.security_level ELSE "noAuthNoPriv",
        passphrase |-> IF authn THEN auth.password ELSE Nothing,
        auth_protocol |-> IF authn /\ auth.auth_protocol \in AuthProtocols THEN auth.auth_protocol ELSE "",
        priv_passphrase |-> IF priv THEN auth.priv_password ELSE Nothing,
        priv_protocol |-> IF priv /\ auth.priv_protocol \in PrivProtocols THEN auth.priv_protocol ELSE "" ]
\* The parameters with what retries point to.
Params(m) == [C.modules[m].params EXCEPT !.retries = heap[@]]

BadRequest(r) ==
  /\ Serving /\ ~(WellFormed(r) /\ Found(r))
  /\ answer' = [status |-> 400]
  /\ UNCHANGED <<scenario, files, exporter, loads, fileNo, left, conf, heap, C, readFrom, runningFrom>>
Scrape(r) ==
  /\ Serving /\ WellFormed(r) /\ Found(r)
  /\ answer' = [ status |-> 200, request |-> r, from |-> runningFrom,
                 client |-> ConfigureSNMP(C.auths[AuthName(r)], First(r.snmp_context)),
                 params |-> [m \in ToSet(parseModules(r.module)) |-> Params(m)] ]
  /\ UNCHANGED <<scenario, files, exporter, loads, fileNo, left, conf, heap, C, readFrom, runningFrom>>

ExporterNext ==
  \/ StartLoad \/ ReadFile \/ FileRead \/ LoadSucceeds \/ LoadFails
  \/ \E a \in DOMAIN left.auths : UnmarshalAuth(a)
  \/ \E m \in DOMAIN left.modules : UnmarshalModule(m)
  \/ \E r \in scenario.requests : BadRequest(r) \/ Scrape(r)
=============================================================================
