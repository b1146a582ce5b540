--------------------------- MODULE DeploymentProofs ---------------------------
(* Proofs about Deployment, for every scenario and number of loads.            *)
EXTENDS Deployment, DataLemmas, FiniteSetTheorems

-----------------------------------------------------------------------------
(* Auths: what has been validated stays usable when variables are expanded.   *)

FullyValid(auth) == DOMAIN auth = DOMAIN DefaultAuth /\ ValidAuth(auth)
ReadAuths == "auths" \in DOMAIN conf /\ \A a \in DOMAIN conf.auths : FullyValid(conf.auths[a])
RunningAuths == NoEmptyVariable => \A a \in DOMAIN C.auths : ValidAuth(C.auths[a])
AuthInv == ReadAuths /\ RunningAuths /\ AuthUsable

\* What is given over the defaults has the fields of the defaults.
LEMMA OverDomain ==
  ASSUME NEW given, NEW base
  PROVE  DOMAIN Over(given, base) = DOMAIN base
BY DEF Over

\* Expansion leaves no field empty that was not, unless a variable is empty.
LEMMA ExpandedNotEmpty ==
  ASSUME NEW secret, NoEmptyVariable, secret # Nothing, Expandable(secret)
  PROVE  Expanded(secret) # Nothing
BY DEF NoEmptyVariable, Expandable, Expanded, IsVariable

\* A valid auth is still valid when its variables are expanded.
LEMMA ExpandedValid ==
  ASSUME NEW auth, FullyValid(auth), NoEmptyVariable,
         scenario.expand => \A f \in Fields : Expandable(auth[f])
  PROVE  ValidAuth(ExpandedAuth(auth))
<1>1. CASE ~scenario.expand
  BY <1>1 DEF ExpandedAuth, FullyValid
<1>2. CASE scenario.expand
  <2> DEFINE e == ExpandedAuth(auth)
  <2>1. e = [f \in DOMAIN auth |-> IF f \in Fields THEN Expanded(auth[f]) ELSE auth[f]]
    BY <1>2 DEF ExpandedAuth
  <2>2. DOMAIN auth = {"community", "security_level", "username", "password", "auth_protocol",
                       "priv_protocol", "priv_password", "context_name", "version"}
    BY DEF FullyValid, DefaultAuth
  <2>3. /\ e.security_level = auth.security_level /\ e.version = auth.version
        /\ e.auth_protocol = auth.auth_protocol /\ e.priv_protocol = auth.priv_protocol
    BY <2>1, <2>2 DEF Fields
  <2>4. /\ e.username = Expanded(auth.username) /\ e.password = Expanded(auth.password)
        /\ e.priv_password = Expanded(auth.priv_password)
    BY <2>1, <2>2 DEF Fields
  <2>5. /\ Expandable(auth.username) /\ Expandable(auth.password) /\ Expandable(auth.priv_password)
    BY <1>2 DEF Fields
  <2>6. /\ auth.username # Nothing => e.username # Nothing
        /\ auth.password # Nothing => e.password # Nothing
        /\ auth.priv_password # Nothing => e.priv_password # Nothing
    BY <2>4, <2>5, ExpandedNotEmpty
  <2>7. ValidAuth(auth)
    BY DEF FullyValid
  <2> HIDE DEF e
  <2>8. ValidAuth(e)
    BY <2>3, <2>6, <2>7 DEF ValidAuth, ValidLevel, ValidPriv, ValidPassword
  <2> QED  BY <2>8 DEF e
<1> QED  BY <1>1, <1>2

\* The client of a valid auth has what its flags need.
LEMMA ValidComplete ==
  ASSUME NEW auth, NEW snmpContext, ValidAuth(auth), ConfigureSNMP(auth, snmpContext).version = 3
  PROVE  Complete(ConfigureSNMP(auth, snmpContext))
<1> DEFINE c == ConfigureSNMP(auth, snmpContext)
<1>1. auth.version = 3 /\ c.user = auth.username
  BY DEF ConfigureSNMP
<1>2. ValidLevel(auth)
  BY <1>1 DEF ValidAuth
<1>3. auth.username # Nothing /\ auth.security_level \in {"authPriv", "authNoPriv", "noAuthNoPriv"}
  BY <1>2 DEF ValidLevel
<1>4. c.flags # "noAuthNoPriv" => auth.security_level \in {"authNoPriv", "authPriv"}
  BY DEF ConfigureSNMP
<1>5. c.flags = "authPriv" => auth.security_level = "authPriv"
  BY DEF ConfigureSNMP
<1>6. auth.security_level \in {"authNoPriv", "authPriv"} =>
        c.passphrase # Nothing /\ c.auth_protocol # ""
  BY <1>2 DEF ValidLevel, ValidPassword, ConfigureSNMP, AuthProtocols
<1>7. auth.security_level = "authPriv" => c.priv_passphrase # Nothing /\ c.priv_protocol # ""
  BY <1>2 DEF ValidLevel, ValidPriv, ConfigureSNMP, PrivProtocols
<1> QED  BY <1>1, <1>3, <1>4, <1>5, <1>6, <1>7 DEF Complete

\* The generator touches no variable of the exporter but the files.
LEMMA GeneratorKeepsScenario == GeneratorNext => UNCHANGED scenario
<1> USE DEF outVars, treeVars
<1> SUFFICES ASSUME GeneratorNext PROVE UNCHANGED scenario  OBVIOUS
<1>1. CASE ReadConfig \/ RejectConfig \/ WalkInvalid \/ FindMetrics \/ IndexPanic
  BY <1>1, Zenon DEF ReadConfig, RejectConfig, WalkInvalid, FindMetrics, IndexPanic, Fail
<1>2. CASE \E m \in todo : PickModule(m)
  BY <1>2, Zenon DEF PickModule
<1>3. CASE \E name \in pending : OverrideType(name) \/ OverrideMetrics(name)
  BY <1>3, Zenon DEF OverrideType, OverrideMetrics
<1>4. CASE SkipLookup \/ LookupFails \/ ApplyLookup \/ DropSources \/ FinishLookups
  BY <1>4, Zenon DEF SkipLookup, LookupFails, ApplyLookup, DropSources, FinishLookups, Fail
<1>5. CASE FinishModule
  BY <1>5, Zenon DEF FinishModule
<1>6. CASE Marshal \/ CreateFile \/ CreateFails \/ Write \/ WriteFails
  BY <1>6, Zenon DEF Marshal, CreateFile, CreateFails, Write, WriteFails, WriteFile, Fail
<1> QED  BY <1>1, <1>2, <1>3, <1>4, <1>5, <1>6, Zenon DEF GeneratorNext

-----------------------------------------------------------------------------
(* The invariant                                                              *)

LEMMA AuthInit == Init => AuthInv
<1> SUFFICES ASSUME Init PROVE AuthInv  OBVIOUS
<1>1. conf = NoConfig /\ C = NoConfig /\ answer = NoAnswer
  BY DEF Init, ExporterInit
<1>2. DOMAIN NoConfig.auths = {} /\ "auths" \in DOMAIN NoConfig /\ NoAnswer.status # 200
  BY DEF NoConfig, NoEntries, NoAnswer
<1> QED  BY <1>1, <1>2 DEF AuthInv, ReadAuths, RunningAuths, AuthUsable

\* A step that leaves the configurations and the answer alone.
LEMMA AuthFrame ==
  ASSUME AuthInv, UNCHANGED <<scenario, C, answer>>,
         conf' = conf \/ conf' = NoConfig
  PROVE  AuthInv'
<1>1. DOMAIN NoConfig.auths = {} /\ "auths" \in DOMAIN NoConfig
  BY DEF NoConfig, NoEntries
<1>2. ReadAuths'
  BY <1>1 DEF AuthInv, ReadAuths, FullyValid, ValidAuth, ValidLevel, ValidPriv, ValidPassword
<1>3. RunningAuths'
  BY DEF AuthInv, RunningAuths, NoEmptyVariable, ValidAuth, ValidLevel, ValidPriv, ValidPassword
<1>4. AuthUsable'
  BY DEF AuthInv, AuthUsable, NoEmptyVariable, Complete
<1> QED  BY <1>2, <1>3, <1>4 DEF AuthInv

\* Each step of the exporter keeps the auths valid and the answer usable.
LEMMA AuthStep == AuthInv /\ ExporterNext /\ UNCHANGED scenario => AuthInv'
<1> SUFFICES ASSUME AuthInv, ExporterNext, UNCHANGED scenario PROVE AuthInv'  OBVIOUS
<1> USE DEF servedVars
<1>1. CASE StartLoad
  BY <1>1, AuthFrame DEF StartLoad
<1>2. CASE ReadFile \/ FileRead
  BY <1>2, AuthFrame DEF ReadFile, FileRead
<1>3. CASE LoadFails
  BY <1>3, AuthFrame DEF LoadFails
<1>4. CASE LoadSucceeds
  <2>1. ReadAuths' /\ UNCHANGED answer
    BY <1>4 DEF LoadSucceeds, AuthInv, ReadAuths, FullyValid, ValidAuth, ValidLevel, ValidPriv, ValidPassword
  <2>2. ASSUME NoEmptyVariable, NEW a \in DOMAIN conf.auths
        PROVE  ValidAuth(ExpandedAuth(conf.auths[a]))
    <3>1. FullyValid(conf.auths[a])
      BY DEF AuthInv, ReadAuths
    <3>2. scenario.expand => \A f \in Fields : Expandable(conf.auths[a][f])
      BY <1>4 DEF LoadSucceeds, CanExpand
    <3> QED  BY <2>2, <3>1, <3>2, ExpandedValid
  <2>3. C'.auths = [a \in DOMAIN conf.auths |-> ExpandedAuth(conf.auths[a])]
    BY <1>4 DEF LoadSucceeds, AuthInv, ReadAuths
  <2>4. NoEmptyVariable => \A a \in DOMAIN C'.auths : ValidAuth(C'.auths[a])
    BY <2>2, <2>3
  <2>5. RunningAuths'
    BY <2>4 DEF RunningAuths, NoEmptyVariable, ValidAuth, ValidLevel, ValidPriv, ValidPassword
  <2>6. AuthUsable'
    BY <2>1 DEF AuthInv, AuthUsable, NoEmptyVariable, Complete
  <2> QED  BY <2>1, <2>5, <2>6 DEF AuthInv
<1>5. ASSUME NEW a \in DOMAIN left.auths, UnmarshalAuth(a) PROVE AuthInv'
  <2>1. FullyValid(FullAuth(a))
    BY <1>5, OverDomain DEF UnmarshalAuth, FullyValid, FullAuth
  <2>2. /\ UNCHANGED <<C, answer>> /\ "auths" \in DOMAIN conf'
        /\ conf'.auths = Put(conf.auths, a, FullAuth(a))
    BY <1>5 DEF UnmarshalAuth, AuthInv, ReadAuths
  <2>3. \A b \in DOMAIN conf'.auths : FullyValid(conf'.auths[b])
    BY <2>1, <2>2 DEF Put, AuthInv, ReadAuths
  <2>4. ReadAuths'
    BY <2>2, <2>3 DEF ReadAuths, FullyValid, ValidAuth, ValidLevel, ValidPriv, ValidPassword
  <2>5. RunningAuths' /\ AuthUsable'
    BY <2>2 DEF AuthInv, RunningAuths, AuthUsable, NoEmptyVariable, Complete,
                ValidAuth, ValidLevel, ValidPriv, ValidPassword
  <2> QED  BY <2>4, <2>5 DEF AuthInv
<1>6. ASSUME NEW m \in DOMAIN left.modules, UnmarshalModule(m) PROVE AuthInv'
  <2>1. UNCHANGED <<C, answer>> /\ "auths" \in DOMAIN conf' /\ conf'.auths = conf.auths
    BY <1>6 DEF UnmarshalModule, AuthInv, ReadAuths
  <2>2. ReadAuths' /\ RunningAuths' /\ AuthUsable'
    BY <2>1 DEF AuthInv, ReadAuths, FullyValid, RunningAuths, AuthUsable, NoEmptyVariable, Complete,
                ValidAuth, ValidLevel, ValidPriv, ValidPassword
  <2> QED  BY <2>2 DEF AuthInv
<1>7. ASSUME NEW r \in scenario.requests, BadRequest(r) PROVE AuthInv'
  <2>1. UNCHANGED <<C, conf>> /\ answer'.status = 400
    BY <1>7 DEF BadRequest
  <2> QED
    BY <2>1 DEF AuthInv, ReadAuths, FullyValid, RunningAuths, AuthUsable, NoEmptyVariable,
                ValidAuth, ValidLevel, ValidPriv, ValidPassword
<1>8. ASSUME NEW r \in scenario.requests, Scrape(r) PROVE AuthInv'
  <2>1. /\ UNCHANGED <<C, conf>> /\ AuthName(r) \in DOMAIN C.auths
        /\ answer'.client = ConfigureSNMP(C.auths[AuthName(r)], First(r.snmp_context))
    BY <1>8 DEF Scrape, Found
  <2>2. ASSUME NoEmptyVariable, answer'.client.version = 3
        PROVE  Complete(answer'.client)
    <3>1. ValidAuth(C.auths[AuthName(r)])
      BY <2>1, <2>2 DEF AuthInv, RunningAuths
    <3> QED  BY <2>1, <2>2, <3>1, ValidComplete
  <2>3. AuthUsable'
    BY <2>2 DEF AuthUsable, NoEmptyVariable, Complete
  <2>4. ReadAuths' /\ RunningAuths'
    BY <2>1 DEF AuthInv, ReadAuths, FullyValid, RunningAuths, NoEmptyVariable,
                ValidAuth, ValidLevel, ValidPriv, ValidPassword
  <2> QED  BY <2>3, <2>4 DEF AuthInv
<1> QED  BY <1>1, <1>2, <1>3, <1>4, <1>5, <1>6, <1>7, <1>8, Zenon DEF ExporterNext

\* Whatever the files, the environment and the requests, and however generator
\* and exporter interleave: a v3 client has the user, passphrases and protocols
\* its flags need, unless a variable is empty.
THEOREM ClientsComplete == Spec => []AuthUsable
<1>1. Init => AuthInv
  BY AuthInit
<1>2. AuthInv /\ [Next]_<<generatorVars, exporterVars>> => AuthInv'
  <2> SUFFICES ASSUME AuthInv, [Next]_<<generatorVars, exporterVars>> PROVE AuthInv'  OBVIOUS
  <2>1. CASE GeneratorNext /\ UNCHANGED exporterVars
    BY <2>1, GeneratorKeepsScenario, AuthFrame DEF exporterVars
  <2>2. CASE ExporterNext /\ UNCHANGED generatorVars
    BY <2>2, AuthStep DEF generatorVars
  <2>3. CASE UNCHANGED <<generatorVars, exporterVars>>
    BY <2>3, AuthFrame DEF generatorVars, exporterVars
  <2> QED  BY <2>1, <2>2, <2>3 DEF Next
<1>3. AuthInv => AuthUsable
  BY DEF AuthInv
<1> QED  BY <1>1, <1>2, <1>3, PTL DEF Spec

-----------------------------------------------------------------------------
(* What runs is what the files said.                                          *)

Kinds == {"auths", "modules"}
\* The entries of document k of readFrom that are in conf already.
TakenFrom(k, kind) ==
  IF exporter = "unmarshal" /\ k = Len(readFrom) THEN DOMAIN readFrom[k][kind] \ DOMAIN left[kind]
  ELSE DOMAIN readFrom[k][kind]

\* conf is made of what was taken, each entry of one document, and what is left
\* is what the document has.
ReadOnce(kind) ==
  /\ DOMAIN conf[kind] = UNION {TakenFrom(k, kind) : k \in DOMAIN readFrom}
  /\ \A j, k \in DOMAIN readFrom : \A x \in TakenFrom(j, kind) \cap TakenFrom(k, kind) : j = k
LeftAsWritten(kind) ==
  \A x \in DOMAIN left[kind] :
    x \in DOMAIN readFrom[Len(readFrom)][kind] /\ left[kind][x] = readFrom[Len(readFrom)][kind][x]

\* The parameters of a module with what its retries point to, in conf.
Pointed(params) == params.retries \in 2..Len(heap)
Dereferenced(params) == [params EXCEPT !.retries = heap[@]]
AuthsRead ==
  \A k \in DOMAIN readFrom : \A a \in TakenFrom(k, "auths") :
    conf.auths[a] = Over(readFrom[k].auths[a], DefaultAuth)
ModulesRead ==
  \A k \in DOMAIN readFrom : \A m \in TakenFrom(k, "modules") :
    /\ Pointed(conf.modules[m].params)
    /\ Dereferenced(conf.modules[m].params) = Over(readFrom[k].modules[m].params, DefaultWalkParams)

\* While LoadFile runs.
Reading ==
  /\ IsList(readFrom) /\ Kinds \subseteq DOMAIN conf
  /\ \A kind \in Kinds : ReadOnce(kind)
  /\ AuthsRead /\ ModulesRead
  /\ exporter = "unmarshal" =>
       /\ readFrom # <<>> /\ IsDocument(left)
       /\ \A kind \in Kinds : LeftAsWritten(kind)

\* The same of the configuration that runs, whose variables are expanded.
RunsOnce(kind) ==
  /\ DOMAIN C[kind] = UNION {DOMAIN runningFrom[k][kind] : k \in DOMAIN runningFrom}
  /\ \A j, k \in DOMAIN runningFrom :
       \A x \in DOMAIN runningFrom[j][kind] \cap DOMAIN runningFrom[k][kind] : j = k
AuthsRun ==
  \A k \in DOMAIN runningFrom : \A a \in DOMAIN runningFrom[k].auths :
    C.auths[a] = ExpandedAuth(Over(runningFrom[k].auths[a], DefaultAuth))
ModulesRun ==
  \A k \in DOMAIN runningFrom : \A m \in DOMAIN runningFrom[k].modules :
    /\ Pointed(C.modules[m].params)
    /\ Dereferenced(C.modules[m].params) = Over(runningFrom[k].modules[m].params, DefaultWalkParams)
Running == IsList(runningFrom) /\ (\A kind \in Kinds : RunsOnce(kind)) /\ AuthsRun /\ ModulesRun

\* The first integer is the default and is never written; files are documents.
HeapOK == IsList(heap) /\ Len(heap) > 0 /\ heap[1] = DefaultWalkParams.retries
FilesOK == \A k \in DOMAIN files : files[k] \in {Missing, Torn} \/ IsDocument(files[k])
MadeOK ==
  \A m \in DOMAIN made : "params" \in DOMAIN made[m] /\
    made[m].params = WrittenWalkParams(Over(input.modules[m].params, ZeroWalkParams))

LoadInv ==
  /\ scenario \in Scenarios /\ HeapOK /\ FilesOK /\ MadeOK
  /\ exporter \in {"read", "unmarshal"} => Reading
  /\ Running

\* One entry of the document being read goes into conf.
LEMMA TakeEntry ==
  ASSUME NEW kind \in Kinds, NEW x \in DOMAIN left[kind], Reading,
         exporter = "unmarshal", UNCHANGED <<exporter, readFrom>>, x \notin DOMAIN conf[kind],
         left'[kind] = Without(left[kind], x), DOMAIN conf'[kind] = DOMAIN conf[kind] \cup {x}
  PROVE  /\ ReadOnce(kind)' /\ LeftAsWritten(kind)'
         /\ \A k \in DOMAIN readFrom :
              TakenFrom(k, kind)' = TakenFrom(k, kind) \cup (IF k = Len(readFrom) THEN {x} ELSE {})
<1> DEFINE L == Len(readFrom)
<1>1. ReadOnce(kind) /\ LeftAsWritten(kind) /\ IsList(readFrom) /\ readFrom # <<>>
  BY DEF Reading
<1>2. L \in DOMAIN readFrom
  BY <1>1, LastOfList
<1>3. DOMAIN left'[kind] = DOMAIN left[kind] \ {x}
  BY DEF Without
<1>4. ASSUME NEW k \in DOMAIN readFrom
      PROVE  TakenFrom(k, kind)' = TakenFrom(k, kind) \cup (IF k = L THEN {x} ELSE {})
  <2>1. CASE k = L
    <3>1. x \in DOMAIN readFrom[k][kind]
      BY <1>1, <2>1 DEF LeftAsWritten
    <3>2. TakenFrom(k, kind) = DOMAIN readFrom[k][kind] \ DOMAIN left[kind]
      BY <2>1 DEF TakenFrom
    <3>3. TakenFrom(k, kind)' = DOMAIN readFrom[k][kind] \ DOMAIN left'[kind]
      BY <2>1 DEF TakenFrom
    <3> QED
      BY <1>3, <2>1, <3>1, <3>2, <3>3
  <2>2. CASE k # L
    BY <2>2 DEF TakenFrom
  <2> QED
    BY <2>1, <2>2
<1>5. LeftAsWritten(kind)'
  BY <1>1, <1>3 DEF LeftAsWritten, Without
<1>6. DOMAIN conf'[kind] = UNION {TakenFrom(k, kind)' : k \in DOMAIN readFrom}
  <2>1. DOMAIN conf[kind] = UNION {TakenFrom(k, kind) : k \in DOMAIN readFrom}
    BY <1>1 DEF ReadOnce
  <2> QED
    BY <1>2, <1>4, <2>1
<1>7. ASSUME NEW j \in DOMAIN readFrom, NEW k \in DOMAIN readFrom,
             NEW y \in TakenFrom(j, kind)' \cap TakenFrom(k, kind)'
      PROVE  j = k
  <2>1. \A i \in DOMAIN readFrom : x \notin TakenFrom(i, kind)
    BY <1>1 DEF ReadOnce
  <2>2. CASE y = x
    BY <1>4, <2>1, <2>2
  <2>3. CASE y # x
    <3>1. y \in TakenFrom(j, kind) \cap TakenFrom(k, kind)
      BY <1>4, <2>3
    <3> QED
      BY <1>1, <3>1 DEF ReadOnce
  <2> QED
    BY <2>2, <2>3
<1>8. ReadOnce(kind)'
  BY <1>6, <1>7 DEF ReadOnce
<1> QED
  BY <1>4, <1>5, <1>8

\* The other kind is left alone.
LEMMA KeepEntries ==
  ASSUME NEW kind \in Kinds, Reading, UNCHANGED <<exporter, readFrom>>, exporter = "unmarshal",
         left'[kind] = left[kind], conf'[kind] = conf[kind]
  PROVE  /\ ReadOnce(kind)' /\ LeftAsWritten(kind)'
         /\ \A k \in DOMAIN readFrom : TakenFrom(k, kind)' = TakenFrom(k, kind)
<1>1. ReadOnce(kind) /\ LeftAsWritten(kind)
  BY DEF Reading
<1>2. \A k \in DOMAIN readFrom : TakenFrom(k, kind)' = TakenFrom(k, kind)
  BY DEF TakenFrom
<1>3. LeftAsWritten(kind)'
  BY <1>1 DEF LeftAsWritten
<1>4. ReadOnce(kind)'
  BY <1>1, <1>2 DEF ReadOnce
<1> QED
  BY <1>2, <1>3, <1>4

\* What retries point to stays when the heap grows.
LEMMA HeapGrows ==
  ASSUME NEW params, Pointed(params), Len(heap') \in Nat, Len(heap) \in Nat, Len(heap') >= Len(heap),
         \A i \in 1..Len(heap) : heap'[i] = heap[i]
  PROVE  Pointed(params)' /\ Dereferenced(params)' = Dereferenced(params)
<1>1. params.retries \in 1..Len(heap) /\ params.retries \in 2..Len(heap')
  BY DEF Pointed
<1> QED
  BY <1>1 DEF Pointed, Dereferenced

\* Reading is about LoadFile's variables only.
LEMMA ReadingFrame ==
  ASSUME Reading, UNCHANGED <<exporter, left, conf, heap, readFrom>>
  PROVE  Reading'
BY DEF Reading, ReadOnce, TakenFrom, LeftAsWritten, AuthsRead, ModulesRead, Pointed, Dereferenced

LEMMA RunningFrame ==
  ASSUME Running, UNCHANGED <<C, runningFrom, scenario>>, HeapOK, HeapOK', Len(heap') >= Len(heap),
         \A i \in 1..Len(heap) : heap'[i] = heap[i]
  PROVE  Running'
<1>1. IsList(runningFrom)' /\ \A kind \in Kinds : RunsOnce(kind)'
  BY DEF Running, RunsOnce
<1>2. AuthsRun'
  <2>1. \A auth : ExpandedAuth(auth)' = ExpandedAuth(auth)
    BY DEF ExpandedAuth, Expanded, Expandable
  <2> QED
    BY <2>1 DEF Running, AuthsRun
<1>3. ASSUME NEW k \in DOMAIN runningFrom, NEW m \in DOMAIN runningFrom[k].modules
      PROVE  /\ Pointed(C.modules[m].params)'
             /\ Dereferenced(C.modules[m].params)' = Over(runningFrom[k].modules[m].params, DefaultWalkParams)
  <2>1. PICK params : params = C.modules[m].params
    OBVIOUS
  <2>2. Pointed(params) /\ Dereferenced(params) = Over(runningFrom[k].modules[m].params, DefaultWalkParams)
    BY <2>1 DEF Running, ModulesRun
  <2>3. Len(heap') \in Nat /\ Len(heap) \in Nat
    BY DEF HeapOK, IsList
  <2>4. Pointed(params)' /\ Dereferenced(params)' = Dereferenced(params)
    BY <2>2, <2>3, HeapGrows
  <2>5. C'.modules[m].params = params
    BY <2>1
  <2> QED
    BY <2>2, <2>4, <2>5 DEF Pointed, Dereferenced
<1>4. ModulesRun'
  BY <1>3 DEF ModulesRun
<1> QED
  BY <1>1, <1>2, <1>4 DEF Running

\* The next file: none of its entries is taken yet.
LEMMA FileBegins == ASSUME LoadInv, ReadFile PROVE Reading'
<1> DEFINE L == Len(readFrom)
<1>1. exporter = "read" /\ exporter' = "unmarshal" /\ UNCHANGED <<conf, heap>>
      /\ readFrom' = Append(readFrom, left') /\ Reading
  BY DEF ReadFile, LoadInv
<1>2. IsDocument(left')
  <2>1. fileNo \in DOMAIN files /\ files[fileNo] # Torn
        /\ left' = IF files[fileNo] = Missing THEN EmptyFile ELSE files[fileNo]
    BY DEF ReadFile
  <2>2. IsDocument(EmptyFile)
    BY DEF IsDocument, EmptyFile, Document, NoEntries
  <2> QED
    BY <2>1, <2>2 DEF LoadInv, FilesOK
<1>3. IsList(readFrom)
  BY <1>1 DEF Reading
<1>4. /\ IsList(readFrom') /\ Len(readFrom') = L + 1 /\ readFrom'[L + 1] = left'
      /\ \A i \in 1..L : readFrom'[i] = readFrom[i]
  BY <1>1, <1>3, AppendList
<1>5. DOMAIN readFrom = 1..L /\ DOMAIN readFrom' = 1..(L + 1) /\ L \in Nat
  BY <1>3, <1>4 DEF IsList
<1>6. ASSUME NEW kind, NEW k \in DOMAIN readFrom PROVE TakenFrom(k, kind)' = TakenFrom(k, kind)
  <2>1. k # L + 1 /\ readFrom'[k] = readFrom[k]
    BY <1>4, <1>5
  <2> QED
    BY <1>1, <1>4, <2>1 DEF TakenFrom
<1>7. ASSUME NEW kind, NEW k, k = L + 1 PROVE TakenFrom(k, kind)' = {}
  BY <1>1, <1>4, <1>7 DEF TakenFrom
<1>8. \A k \in DOMAIN readFrom' : k \in DOMAIN readFrom \/ k = L + 1
  BY <1>5
<1>9. \A k \in DOMAIN readFrom : k \in DOMAIN readFrom' /\ readFrom'[k] = readFrom[k]
  BY <1>4, <1>5
<1>10. ASSUME NEW kind \in Kinds PROVE ReadOnce(kind)' /\ LeftAsWritten(kind)'
  <2>1. ReadOnce(kind)
    BY <1>1 DEF Reading
  <2>2. DOMAIN conf'[kind] = UNION {TakenFrom(k, kind)' : k \in DOMAIN readFrom'}
    BY <1>1, <1>6, <1>7, <1>8, <1>9, <2>1 DEF ReadOnce
  <2>3. ASSUME NEW j \in DOMAIN readFrom', NEW k \in DOMAIN readFrom',
               NEW x \in TakenFrom(j, kind)' \cap TakenFrom(k, kind)'
        PROVE  j = k
    <3>1. j \in DOMAIN readFrom /\ k \in DOMAIN readFrom
      BY <1>7, <1>8
    <3> QED
      BY <1>6, <2>1, <3>1 DEF ReadOnce
  <2>4. LeftAsWritten(kind)'
    BY <1>4 DEF LeftAsWritten
  <2> QED
    BY <2>2, <2>3, <2>4 DEF ReadOnce
<1>11. AuthsRead'
  <2>1. AuthsRead
    BY <1>1 DEF Reading
  <2>2. \A k \in DOMAIN readFrom' : \A a \in TakenFrom(k, "auths")' :
          k \in DOMAIN readFrom /\ a \in TakenFrom(k, "auths") /\ readFrom'[k] = readFrom[k]
    BY <1>6, <1>7, <1>8, <1>9
  <2> QED
    BY <1>1, <2>1, <2>2 DEF AuthsRead
<1>12. ModulesRead'
  <2>1. ModulesRead
    BY <1>1 DEF Reading
  <2>2. \A k \in DOMAIN readFrom' : \A m \in TakenFrom(k, "modules")' :
          k \in DOMAIN readFrom /\ m \in TakenFrom(k, "modules") /\ readFrom'[k] = readFrom[k]
    BY <1>6, <1>7, <1>8, <1>9
  <2> QED
    BY <1>1, <2>1, <2>2 DEF ModulesRead, Pointed, Dereferenced
<1>13. readFrom' # <<>> /\ Kinds \subseteq DOMAIN conf'
  BY <1>1, <1>4, <1>5 DEF Reading
<1> QED
  BY <1>2, <1>4, <1>10, <1>11, <1>12, <1>13 DEF Reading

\* All of the file is taken.
LEMMA FileEnds == ASSUME LoadInv, FileRead PROVE Reading'
<1>1. exporter = "unmarshal" /\ exporter' = "read" /\ left = EmptyFile /\ UNCHANGED <<conf, heap, readFrom, left>>
      /\ Reading
  BY DEF FileRead, LoadInv
<1>2. \A kind \in Kinds : DOMAIN left[kind] = {}
  BY <1>1 DEF EmptyFile, Document, NoEntries, Kinds
<1>3. ASSUME NEW kind \in Kinds, NEW k PROVE TakenFrom(k, kind)' = TakenFrom(k, kind)
  BY <1>1, <1>2 DEF TakenFrom
<1>4. \A kind \in Kinds : ReadOnce(kind)'
  BY <1>1, <1>3 DEF Reading, ReadOnce
<1>5. AuthsRead' /\ ModulesRead'
  <2>1. AuthsRead /\ ModulesRead /\ "auths" \in Kinds /\ "modules" \in Kinds
    BY <1>1 DEF Reading, Kinds
  <2>2. AuthsRead'
    BY <1>1, <1>3, <2>1 DEF AuthsRead
  <2>3. ModulesRead'
    BY <1>1, <1>3, <2>1 DEF ModulesRead, Pointed, Dereferenced
  <2> QED
    BY <2>2, <2>3
<1> QED
  BY <1>1, <1>4, <1>5 DEF Reading

\* An auth is taken: nothing of it comes from anywhere else.
LEMMA AuthTaken ==
  ASSUME LoadInv, NEW a \in DOMAIN left.auths, UnmarshalAuth(a)
  PROVE  Reading'
<1>1. /\ exporter = "unmarshal" /\ Reading /\ a \notin DOMAIN conf.auths
      /\ conf' = [conf EXCEPT !.auths = Put(conf.auths, a, FullAuth(a))]
      /\ left' = [left EXCEPT !.auths = Without(left.auths, a)]
      /\ UNCHANGED <<exporter, heap, readFrom>>
  BY DEF UnmarshalAuth, LoadInv, New
<1>2. /\ Kinds \subseteq DOMAIN conf /\ IsDocument(left) /\ IsList(readFrom) /\ readFrom # <<>>
      /\ AuthsRead /\ ModulesRead /\ LeftAsWritten("auths")
  BY <1>1 DEF Reading, Kinds
<1>3. /\ conf'.auths = Put(conf.auths, a, FullAuth(a)) /\ conf'.modules = conf.modules
      /\ left'.auths = Without(left.auths, a) /\ left'.modules = left.modules
      /\ DOMAIN conf' = DOMAIN conf /\ DOMAIN left' = DOMAIN left
  BY <1>1, <1>2 DEF Kinds, IsDocument
<1>4. /\ ReadOnce("auths")' /\ LeftAsWritten("auths")'
      /\ \A k \in DOMAIN readFrom :
           TakenFrom(k, "auths")' = TakenFrom(k, "auths") \cup (IF k = Len(readFrom) THEN {a} ELSE {})
  <2>1. DOMAIN conf'.auths = DOMAIN conf.auths \cup {a}
    BY <1>3 DEF Put
  <2> QED
    BY <1>1, <1>3, <2>1, TakeEntry DEF Kinds
<1>5. /\ ReadOnce("modules")' /\ LeftAsWritten("modules")'
      /\ \A k \in DOMAIN readFrom : TakenFrom(k, "modules")' = TakenFrom(k, "modules")
  BY <1>1, <1>3, KeepEntries DEF Kinds
<1>6. AuthsRead'
  <2> SUFFICES ASSUME NEW k \in DOMAIN readFrom, NEW b \in TakenFrom(k, "auths")'
               PROVE  conf'.auths[b] = Over(readFrom[k].auths[b], DefaultAuth)
    BY <1>1 DEF AuthsRead
  <2>1. b \in DOMAIN conf'.auths
    BY <1>1, <1>4 DEF ReadOnce
  <2>2. CASE b = a
    <3>1. b \notin TakenFrom(k, "auths")
      BY <1>1, <2>2 DEF Reading, ReadOnce, Kinds
    <3>2. k = Len(readFrom)
      BY <1>4, <3>1
    <3>3. left.auths[a] = readFrom[k].auths[a]
      BY <1>2, <3>2 DEF LeftAsWritten
    <3>4. conf'.auths[b] = Over(left.auths[a], DefaultAuth)
      BY <1>3, <2>1, <2>2 DEF Put, FullAuth
    <3> QED
      BY <2>2, <3>3, <3>4
  <2>3. CASE b # a
    <3>1. b \in TakenFrom(k, "auths")
      BY <1>4, <2>3
    <3>2. conf'.auths[b] = conf.auths[b]
      BY <1>3, <2>1, <2>3 DEF Put
    <3> QED
      BY <1>2, <3>1, <3>2 DEF AuthsRead
  <2> QED
    BY <2>2, <2>3
<1>7. ModulesRead'
  BY <1>1, <1>2, <1>3, <1>5 DEF ModulesRead, Pointed, Dereferenced
<1>8. IsDocument(left')
  BY <1>2, <1>3 DEF IsDocument
<1>9. (IsList(readFrom) /\ Kinds \subseteq DOMAIN conf /\ readFrom # <<>>)'
  BY <1>1, <1>2, <1>3
<1>10. \A kind \in Kinds : ReadOnce(kind)' /\ LeftAsWritten(kind)'
  BY <1>4, <1>5 DEF Kinds
<1> QED
  BY <1>6, <1>7, <1>8, <1>9, <1>10 DEF Reading

\* What a module's retries point to when it has been read: its own integer, a
\* copy of the default or what is written.
LEMMA ModuleParams ==
  ASSUME LoadInv, NEW m \in DOMAIN left.modules, UnmarshalModule(m), IsDocument(left), "modules" \in DOMAIN conf
  PROVE  /\ HeapOK' /\ Len(heap') >= Len(heap) /\ \A i \in 1..Len(heap) : heap'[i] = heap[i]
         /\ Pointed(conf.modules[m].params)'
         /\ Dereferenced(conf.modules[m].params)' = Over(left.modules[m].params, DefaultWalkParams)
         /\ DOMAIN conf'.modules = DOMAIN conf.modules \cup {m}
         /\ \A n \in DOMAIN conf.modules \ {m} : conf'.modules[n] = conf.modules[n]
<1> DEFINE written == left.modules[m]
           copied == Append(heap, heap[1])
           cell == Len(copied)
           over == Over(written.params, DefaultWalkParams)
           params == [over EXCEPT !.retries = cell]
<1>1. /\ heap' = IF "retries" \in DOMAIN written.params
                   THEN [copied EXCEPT ![cell] = written.params.retries] ELSE copied
      /\ conf' = [conf EXCEPT !.modules = Put(conf.modules, m, [written EXCEPT !.params = params])]
  BY DEF UnmarshalModule, CopyRetries
<1>2. HeapOK
  BY DEF LoadInv
<1>3. /\ IsList(copied) /\ cell = Len(heap) + 1 /\ copied[cell] = heap[1]
      /\ Len(heap) \in Nat /\ \A i \in 1..Len(heap) : copied[i] = heap[i]
  <2>1. IsList(heap)
    BY <1>2 DEF HeapOK
  <2> QED
    BY <2>1, AppendList DEF IsList
<1>4. DOMAIN copied = 1..cell /\ cell \in Nat
  BY <1>3 DEF IsList
<1> HIDE DEF copied, cell
<1>5. /\ DOMAIN heap' = 1..cell /\ IsList(heap') /\ Len(heap') = cell
      /\ heap'[cell] = IF "retries" \in DOMAIN written.params THEN written.params.retries ELSE heap[1]
      /\ \A i \in 1..Len(heap) : heap'[i] = heap[i]
  <2>1. CASE "retries" \in DOMAIN written.params
    <3>1. heap' = [i \in 1..cell |-> IF i = cell THEN written.params.retries ELSE copied[i]]
      BY <1>1, <1>4, <2>1
    <3>2. Len(heap') = cell
      BY <1>4, <3>1
    <3>3. IsList(heap')
      BY <1>4, <3>1, <3>2 DEF IsList
    <3>4. \A i \in 1..Len(heap) : i \in 1..cell /\ i # cell
      BY <1>3, <1>4
    <3>5. cell \in 1..cell
      BY <1>3, <1>4
    <3> QED
      BY <1>3, <2>1, <3>1, <3>2, <3>3, <3>4, <3>5
  <2>2. CASE "retries" \notin DOMAIN written.params
    <3>1. heap' = copied
      BY <1>1, <2>2
    <3> QED
      BY <1>3, <1>4, <2>2, <3>1 DEF cell
  <2> QED
    BY <2>1, <2>2
<1>6. HeapOK' /\ Len(heap') >= Len(heap)
  BY <1>2, <1>3, <1>5 DEF HeapOK
<1>7. "params" \in DOMAIN written
  BY DEF IsDocument
<1>8. conf'.modules = Put(conf.modules, m, [written EXCEPT !.params = params])
  BY <1>1
<1>9. conf'.modules[m].params = params
  BY <1>7, <1>8 DEF Put
<1>10. DOMAIN over = DOMAIN DefaultWalkParams /\ "retries" \in DOMAIN over
  BY DEF Over, DefaultWalkParams
<1>11. params.retries = cell /\ \A f \in DOMAIN over : f # "retries" => params[f] = over[f]
  BY <1>10
<1>12. [params EXCEPT !.retries = heap'[cell]] = over
  <2>1. over.retries = heap'[cell]
    BY <1>2, <1>5 DEF Over, DefaultWalkParams, HeapOK
  <2>2. [params EXCEPT !.retries = heap'[cell]] =
          [f \in DOMAIN over |-> IF f = "retries" THEN heap'[cell] ELSE over[f]]
    BY <1>10, <1>11
  <2>3. over = [f \in DOMAIN over |-> over[f]]
    BY DEF Over
  <2> HIDE DEF over, params
  <2> QED
    BY <2>1, <2>2, <2>3
<1>13. Pointed(conf.modules[m].params)' /\ Dereferenced(conf.modules[m].params)' = over
  <2>1. cell \in 2..Len(heap')
    BY <1>2, <1>3, <1>5 DEF HeapOK
  <2> HIDE DEF over, params
  <2> QED
    BY <1>9, <1>11, <1>12, <2>1 DEF Pointed, Dereferenced
<1>14. /\ DOMAIN conf'.modules = DOMAIN conf.modules \cup {m}
       /\ \A n \in DOMAIN conf.modules \ {m} : conf'.modules[n] = conf.modules[n]
  BY <1>8 DEF Put
<1> QED
  BY <1>5, <1>6, <1>13, <1>14

LEMMA ModuleTaken ==
  ASSUME LoadInv, NEW m \in DOMAIN left.modules, UnmarshalModule(m)
  PROVE  Reading'
<1>1. /\ exporter = "unmarshal" /\ Reading /\ m \notin DOMAIN conf.modules
      /\ left' = [left EXCEPT !.modules = Without(left.modules, m)]
      /\ UNCHANGED <<exporter, readFrom>>
      /\ \E entry : conf' = [conf EXCEPT !.modules = entry]
  BY DEF UnmarshalModule, LoadInv, New
<1>2. /\ Kinds \subseteq DOMAIN conf /\ IsDocument(left) /\ IsList(readFrom) /\ readFrom # <<>>
      /\ AuthsRead /\ ModulesRead /\ LeftAsWritten("modules") /\ HeapOK
  BY <1>1 DEF Reading, Kinds, LoadInv
<1>3. /\ conf'.auths = conf.auths /\ DOMAIN conf' = DOMAIN conf
      /\ left'.modules = Without(left.modules, m) /\ left'.auths = left.auths
      /\ DOMAIN left' = DOMAIN left
  BY <1>1, <1>2 DEF Kinds, IsDocument
<1>4. /\ HeapOK' /\ Len(heap') >= Len(heap) /\ \A i \in 1..Len(heap) : heap'[i] = heap[i]
      /\ Pointed(conf.modules[m].params)'
      /\ Dereferenced(conf.modules[m].params)' = Over(left.modules[m].params, DefaultWalkParams)
      /\ DOMAIN conf'.modules = DOMAIN conf.modules \cup {m}
      /\ \A n \in DOMAIN conf.modules \ {m} : conf'.modules[n] = conf.modules[n]
  BY <1>2, ModuleParams DEF Kinds
<1>5. /\ ReadOnce("modules")' /\ LeftAsWritten("modules")'
      /\ \A k \in DOMAIN readFrom :
           TakenFrom(k, "modules")' = TakenFrom(k, "modules") \cup (IF k = Len(readFrom) THEN {m} ELSE {})
  BY <1>1, <1>3, <1>4, TakeEntry DEF Kinds
<1>6. /\ ReadOnce("auths")' /\ LeftAsWritten("auths")'
      /\ \A k \in DOMAIN readFrom : TakenFrom(k, "auths")' = TakenFrom(k, "auths")
  BY <1>1, <1>3, KeepEntries DEF Kinds
<1>7. ASSUME NEW k \in DOMAIN readFrom, NEW n \in TakenFrom(k, "modules")'
      PROVE  /\ Pointed(conf.modules[n].params)'
             /\ Dereferenced(conf.modules[n].params)' = Over(readFrom[k].modules[n].params, DefaultWalkParams)
  <2>1. CASE n = m
    <3>1. n \notin TakenFrom(k, "modules")
      BY <1>1, <2>1 DEF Reading, ReadOnce, Kinds
    <3>2. k = Len(readFrom)
      BY <1>5, <3>1
    <3>3. left.modules[m] = readFrom[k].modules[m]
      BY <1>2, <3>2 DEF LeftAsWritten
    <3> QED
      BY <1>4, <2>1, <3>3
  <2>2. CASE n # m
    <3>1. n \in TakenFrom(k, "modules") /\ n \in DOMAIN conf.modules
      BY <1>1, <1>5, <2>2 DEF Reading, ReadOnce, Kinds
    <3>2. PICK params : params = conf.modules[n].params
      OBVIOUS
    <3>3. conf'.modules[n].params = params
      BY <1>4, <2>2, <3>1, <3>2
    <3>4. Pointed(params) /\ Dereferenced(params) = Over(readFrom[k].modules[n].params, DefaultWalkParams)
      BY <1>2, <3>1, <3>2 DEF ModulesRead
    <3>5. Len(heap') \in Nat /\ Len(heap) \in Nat
      BY <1>2, <1>4 DEF HeapOK, IsList
    <3>6. Pointed(params)' /\ Dereferenced(params)' = Dereferenced(params)
      BY <1>4, <3>4, <3>5, HeapGrows
    <3> QED
      BY <3>3, <3>4, <3>6 DEF Pointed, Dereferenced
  <2> QED
    BY <2>1, <2>2
<1>8. ModulesRead'
  BY <1>1, <1>7 DEF ModulesRead
<1>9. AuthsRead'
  BY <1>1, <1>2, <1>3, <1>6 DEF AuthsRead
<1>10. IsDocument(left')
  BY <1>2, <1>3 DEF IsDocument, Without
<1>11. (IsList(readFrom) /\ Kinds \subseteq DOMAIN conf /\ readFrom # <<>>)'
  BY <1>1, <1>2, <1>3
<1>12. \A kind \in Kinds : ReadOnce(kind)' /\ LeftAsWritten(kind)'
  BY <1>5, <1>6 DEF Kinds
<1> QED
  BY <1>8, <1>9, <1>10, <1>11, <1>12 DEF Reading

\* The configuration that was read becomes the one that runs.
LEMMA ReadRuns == ASSUME LoadInv, LoadSucceeds PROVE Running'
<1>1. /\ exporter = "read" /\ Reading /\ runningFrom' = readFrom /\ UNCHANGED <<heap, scenario>>
      /\ C' = [conf EXCEPT !.auths = [a \in DOMAIN conf.auths |-> ExpandedAuth(conf.auths[a])]]
  BY DEF LoadSucceeds, LoadInv
<1>2. Kinds \subseteq DOMAIN conf /\ AuthsRead /\ ModulesRead /\ \A kind \in Kinds : ReadOnce(kind)
  BY <1>1 DEF Reading
<1>3. C'.auths = [a \in DOMAIN conf.auths |-> ExpandedAuth(conf.auths[a])] /\ C'.modules = conf.modules
  BY <1>1, <1>2 DEF Kinds
<1>4. \A k, kind : TakenFrom(k, kind) = DOMAIN readFrom[k][kind]
  BY <1>1 DEF TakenFrom
<1>5. \A kind \in Kinds : DOMAIN C'[kind] = DOMAIN conf[kind]
  BY <1>3 DEF Kinds
<1>6. \A kind \in Kinds : RunsOnce(kind)'
  BY <1>1, <1>2, <1>4, <1>5 DEF RunsOnce, ReadOnce
<1>7. AuthsRun'
  <2>1. \A auth : ExpandedAuth(auth)' = ExpandedAuth(auth)
    BY <1>1 DEF ExpandedAuth, Expanded, Expandable
  <2>2. \A k \in DOMAIN readFrom : \A a \in DOMAIN readFrom[k].auths : a \in DOMAIN conf.auths
    BY <1>2, <1>4 DEF ReadOnce, Kinds
  <2> QED
    BY <1>1, <1>2, <1>3, <1>4, <2>1, <2>2 DEF AuthsRun, AuthsRead
<1>8. ModulesRun'
  BY <1>1, <1>2, <1>3, <1>4 DEF ModulesRun, ModulesRead, Pointed, Dereferenced
<1> QED
  BY <1>1, <1>6, <1>7, <1>8 DEF Running, Reading

\* What the generator does to the files and to the modules it has made.
LEMMA GeneratorWrites ==
  GeneratorNext => UNCHANGED <<made, files>> \/ FinishModule \/ CreateFile \/ Write \/ WriteFails
<1> USE DEF outVars, treeVars
<1> SUFFICES ASSUME GeneratorNext, ~(FinishModule \/ CreateFile \/ Write \/ WriteFails)
             PROVE  UNCHANGED <<made, files>>
  OBVIOUS
<1>1. CASE ReadConfig \/ RejectConfig \/ WalkInvalid \/ FindMetrics \/ IndexPanic
  BY <1>1, Zenon DEF ReadConfig, RejectConfig, WalkInvalid, FindMetrics, IndexPanic, Fail
<1>2. CASE \E m \in todo : PickModule(m)
  BY <1>2, Zenon DEF PickModule
<1>3. CASE \E name \in pending : OverrideType(name) \/ OverrideMetrics(name)
  BY <1>3, Zenon DEF OverrideType, OverrideMetrics
<1>4. CASE SkipLookup \/ LookupFails \/ ApplyLookup \/ DropSources \/ FinishLookups
  BY <1>4, Zenon DEF SkipLookup, LookupFails, ApplyLookup, DropSources, FinishLookups, Fail
<1>5. CASE Marshal \/ CreateFails
  BY <1>5, Zenon DEF Marshal, CreateFails, Fail
<1> QED
  BY <1>1, <1>2, <1>3, <1>4, <1>5, Zenon DEF GeneratorNext

LEMMA MadeStep == ASSUME MadeOK, GeneratorNext PROVE MadeOK'
<1>1. UNCHANGED scenario
  BY GeneratorKeepsScenario
<1>2. CASE UNCHANGED made
  BY <1>1, <1>2 DEF MadeOK, input
<1>3. CASE FinishModule
  <2>1. PICK new : /\ made' = Put(made, module, new) /\ "params" \in DOMAIN new
                   /\ new.params = WrittenWalkParams(Over(input.modules[module].params, ZeroWalkParams))
    <3>1. PICK walk, get :
            made' = Put(made, module,
                        [metrics |-> metrics, filters |-> cfg.dynamic, walk |-> walk, get |-> get,
                         params |-> WrittenWalkParams(Over(cfg.params, ZeroWalkParams))])
      BY <1>3, Zenon DEF FinishModule
    <3> QED
      BY <3>1 DEF cfg
  <2>2. /\ DOMAIN made' = DOMAIN made \cup {module} /\ made'[module] = new
        /\ \A m \in DOMAIN made \ {module} : made'[m] = made[m]
    BY <2>1 DEF Put
  <2> QED
    BY <1>1, <2>1, <2>2 DEF MadeOK, input
<1> QED
  BY <1>2, <1>3, GeneratorWrites DEF CreateFile, Write, WriteFails, WriteFile, outVars

LEMMA FilesStep == ASSUME MadeOK, FilesOK, GeneratorNext PROVE FilesOK'
<1>1. CASE UNCHANGED files
  BY <1>1 DEF FilesOK, IsDocument
<1>2. ASSUME NEW content, WriteFile(content), content = Torn \/ IsDocument(content) PROVE FilesOK'
  <2>1. \A k \in DOMAIN files' : k \in DOMAIN files /\ files'[k] \in {files[k], content}
    BY <1>2 DEF WriteFile
  <2> QED
    BY <1>2, <2>1 DEF FilesOK
<1>3. IsDocument(EmptyFile)
  BY DEF IsDocument, EmptyFile, Document, NoEntries
<1>4. IsDocument(output)
  BY DEF IsDocument, output, Document, MadeOK
<1> QED
  BY <1>1, <1>2, <1>3, <1>4, GeneratorWrites DEF FinishModule, CreateFile, Write, WriteFails

LEMMA LoadInit == Init => LoadInv
<1> SUFFICES ASSUME Init PROVE LoadInv
  OBVIOUS
<1>1. /\ scenario \in Scenarios /\ made = NoEntries /\ files = scenario.files
      /\ exporter = "idle" /\ heap = <<DefaultWalkParams.retries>> /\ C = NoConfig /\ runningFrom = <<>>
  BY DEF Init, GeneratorInit, ExporterInit
<1>2. HeapOK /\ MadeOK
  BY <1>1 DEF HeapOK, IsList, MadeOK, NoEntries
<1>3. FilesOK
  BY <1>1, ConfigFormatAssumption DEF FilesOK
<1>4. Running
  <2>1. DOMAIN NoConfig.auths = {} /\ DOMAIN NoConfig.modules = {}
    BY DEF NoConfig, NoEntries
  <2>2. DOMAIN runningFrom = {} /\ IsList(runningFrom)
    BY <1>1 DEF IsList
  <2> QED
    BY <1>1, <2>1, <2>2 DEF Running, RunsOnce, AuthsRun, ModulesRun, Kinds
<1> QED
  BY <1>1, <1>2, <1>3, <1>4 DEF LoadInv

\* Steps that change neither what was read nor what runs.
LEMMA LoadFrame ==
  ASSUME LoadInv, UNCHANGED <<scenario, made, files, heap, C, runningFrom>>,
         exporter' \in {"read", "unmarshal"} => Reading'
  PROVE  LoadInv'
<1>1. HeapOK' /\ FilesOK' /\ MadeOK' /\ (scenario \in Scenarios)'
  BY DEF LoadInv, HeapOK, FilesOK, MadeOK, IsDocument, input
<1>2. Running'
  <2>1. Len(heap') >= Len(heap) /\ \A i \in 1..Len(heap) : heap'[i] = heap[i]
    BY DEF LoadInv, HeapOK, IsList
  <2> QED
    BY <1>1, <2>1, RunningFrame DEF LoadInv
<1> QED
  BY <1>1, <1>2 DEF LoadInv

LEMMA LoadStep == ASSUME LoadInv, ExporterNext, UNCHANGED generatorVars PROVE LoadInv'
<1>0. UNCHANGED <<scenario, made, files>>
  BY DEF generatorVars
<1>1. CASE StartLoad
  <2>1. /\ conf' = NoConfig /\ readFrom' = <<>> /\ exporter' = "read"
        /\ UNCHANGED <<heap, C, runningFrom>>
    BY <1>1 DEF StartLoad, servedVars
  <2>2. DOMAIN NoConfig.auths = {} /\ DOMAIN NoConfig.modules = {} /\ DOMAIN NoConfig = Kinds
    BY DEF NoConfig, NoEntries, Kinds
  <2>3. DOMAIN readFrom' = {} /\ IsList(readFrom')
    BY <2>1 DEF IsList
  <2>4. Reading'
    BY <2>1, <2>2, <2>3 DEF Reading, ReadOnce, AuthsRead, ModulesRead, Kinds
  <2> QED
    BY <1>0, <2>1, <2>4, LoadFrame
<1>2. CASE ReadFile
  <2>1. UNCHANGED <<heap, C, runningFrom>>
    BY <1>2 DEF ReadFile, servedVars
  <2> QED
    BY <1>0, <1>2, <2>1, FileBegins, LoadFrame
<1>3. CASE FileRead
  <2>1. UNCHANGED <<heap, C, runningFrom>>
    BY <1>3 DEF FileRead, servedVars
  <2> QED
    BY <1>0, <1>3, <2>1, FileEnds, LoadFrame
<1>4. CASE LoadSucceeds
  <2>1. exporter' \notin {"read", "unmarshal"} /\ UNCHANGED heap
    BY <1>4 DEF LoadSucceeds
  <2>2. HeapOK' /\ FilesOK' /\ MadeOK' /\ (scenario \in Scenarios)'
    BY <1>0, <2>1 DEF LoadInv, HeapOK, FilesOK, MadeOK, IsDocument, input
  <2> QED
    BY <1>4, <2>1, <2>2, ReadRuns DEF LoadInv
<1>5. CASE LoadFails
  <2>1. exporter' \notin {"read", "unmarshal"} /\ UNCHANGED <<heap, C, runningFrom>>
    BY <1>5 DEF LoadFails, servedVars
  <2> QED
    BY <1>0, <2>1, LoadFrame
<1>6. ASSUME NEW a \in DOMAIN left.auths, UnmarshalAuth(a) PROVE LoadInv'
  <2>1. UNCHANGED <<heap, C, runningFrom>>
    BY <1>6 DEF UnmarshalAuth, servedVars
  <2> QED
    BY <1>0, <1>6, <2>1, AuthTaken, LoadFrame
<1>7. ASSUME NEW m \in DOMAIN left.modules, UnmarshalModule(m) PROVE LoadInv'
  <2>1. /\ exporter = "unmarshal" /\ exporter' = "unmarshal" /\ UNCHANGED <<C, runningFrom>>
    BY <1>7 DEF UnmarshalModule, servedVars
  <2>2. Reading'
    BY <1>7, ModuleTaken
  <2>3. IsDocument(left) /\ "modules" \in DOMAIN conf
    BY <2>1 DEF LoadInv, Reading, Kinds
  <2>4. HeapOK' /\ Len(heap') >= Len(heap) /\ \A i \in 1..Len(heap) : heap'[i] = heap[i]
    BY <1>7, <2>3, ModuleParams
  <2>5. Running'
    BY <1>0, <2>1, <2>4, RunningFrame DEF LoadInv
  <2>6. FilesOK' /\ MadeOK' /\ (scenario \in Scenarios)'
    BY <1>0 DEF LoadInv, FilesOK, MadeOK, IsDocument, input
  <2> QED
    BY <2>2, <2>4, <2>5, <2>6 DEF LoadInv
<1>8. ASSUME NEW r \in scenario.requests, BadRequest(r) \/ Scrape(r) PROVE LoadInv'
  <2>1. UNCHANGED <<exporter, left, conf, heap, C, readFrom, runningFrom>>
    BY <1>8 DEF BadRequest, Scrape
  <2>2. exporter' \in {"read", "unmarshal"} => Reading'
    BY <2>1, ReadingFrame DEF LoadInv
  <2> QED
    BY <1>0, <2>1, <2>2, LoadFrame
<1> QED
  BY <1>1, <1>2, <1>3, <1>4, <1>5, <1>6, <1>7, <1>8, Zenon DEF ExporterNext

\* The generator changes no variable of LoadFile but the files.
LEMMA LoadGeneratorStep == ASSUME LoadInv, GeneratorNext, UNCHANGED exporterVars PROVE LoadInv'
<1>1. UNCHANGED <<exporter, left, conf, heap, C, readFrom, runningFrom, scenario>>
  BY GeneratorKeepsScenario DEF exporterVars
<1>2. FilesOK' /\ MadeOK'
  BY FilesStep, MadeStep DEF LoadInv
<1>3. HeapOK' /\ (scenario \in Scenarios)'
  BY <1>1 DEF LoadInv, HeapOK
<1>4. exporter' \in {"read", "unmarshal"} => Reading'
  BY <1>1, ReadingFrame DEF LoadInv
<1>5. Running'
  <2>1. Len(heap') >= Len(heap) /\ \A i \in 1..Len(heap) : heap'[i] = heap[i]
    BY <1>1 DEF LoadInv, HeapOK, IsList
  <2> QED
    BY <1>1, <1>3, <2>1, RunningFrame DEF LoadInv
<1> QED
  BY <1>2, <1>3, <1>4, <1>5 DEF LoadInv

LEMMA LoadNext == LoadInv /\ [Next]_<<generatorVars, exporterVars>> => LoadInv'
<1> SUFFICES ASSUME LoadInv, [Next]_<<generatorVars, exporterVars>> PROVE LoadInv'
  OBVIOUS
<1>1. CASE GeneratorNext /\ UNCHANGED exporterVars
  BY <1>1, LoadGeneratorStep
<1>2. CASE ExporterNext /\ UNCHANGED generatorVars
  BY <1>2, LoadStep
<1>3. CASE UNCHANGED <<generatorVars, exporterVars>>
  <2>1. UNCHANGED <<exporter, left, conf, heap, C, readFrom, runningFrom, scenario, made, files>>
    BY <1>3 DEF generatorVars, exporterVars
  <2>2. exporter' \in {"read", "unmarshal"} => Reading'
    BY <2>1, ReadingFrame DEF LoadInv
  <2> QED
    BY <2>1, <2>2, LoadFrame
<1> QED
  BY <1>1, <1>2, <1>3 DEF Next

\* An entry that runs is in one document.
LEMMA DefinedOnce ==
  ASSUME Running, NEW kind \in Kinds, NEW x \in DOMAIN C[kind]
  PROVE  /\ Cardinality(DefinedIn(kind, x)) = 1
         /\ \E k \in DOMAIN runningFrom :
              x \in DOMAIN runningFrom[k][kind] /\ k = CHOOSE j \in DefinedIn(kind, x) : TRUE
<1>1. RunsOnce(kind)
  BY DEF Running
<1>2. PICK k \in DOMAIN runningFrom : x \in DOMAIN runningFrom[k][kind]
  BY <1>1 DEF RunsOnce
<1>3. DefinedIn(kind, x) = {k}
  BY <1>1, <1>2 DEF RunsOnce, DefinedIn
<1>4. (CHOOSE j \in {k} : TRUE) = k
  OBVIOUS
<1> QED
  BY <1>2, <1>3, <1>4, FS_Singleton

LEMMA RunningAsWritten == LoadInv => LoadedAsWritten
<1> SUFFICES ASSUME LoadInv PROVE LoadedAsWritten
  OBVIOUS
<1> DEFINE written(kind, name) == runningFrom[CHOOSE k \in DefinedIn(kind, name) : TRUE][kind][name]
<1>1. Running
  BY DEF LoadInv
<1>2. DOMAIN C.auths = AllDefined("auths") /\ DOMAIN C.modules = AllDefined("modules")
  BY <1>1 DEF Running, RunsOnce, AllDefined, Kinds
<1>3. ASSUME NEW a \in DOMAIN C.auths
      PROVE  /\ Cardinality(DefinedIn("auths", a)) = 1
             /\ C.auths[a] = ExpandedAuth(Over(written("auths", a), DefaultAuth))
  BY <1>1, DefinedOnce DEF Kinds, Running, AuthsRun
<1>4. ASSUME NEW m \in DOMAIN C.modules
      PROVE  /\ Cardinality(DefinedIn("modules", m)) = 1
             /\ Params(m) = Over(written("modules", m).params, DefaultWalkParams)
  BY <1>1, DefinedOnce DEF Kinds, Running, ModulesRun, Params, Dereferenced
<1> QED
  BY <1>2, <1>3, <1>4 DEF LoadedAsWritten

\* However loads, requests and the generator's writes interleave, what runs is
\* what the files said when they were read: no entry is lost, twice defined or
\* mixed with another's, and a module's retries are its own.
THEOREM ConfigurationAsWritten == Spec => []LoadedAsWritten
BY LoadInit, LoadNext, RunningAsWritten, PTL DEF Spec

-----------------------------------------------------------------------------
(* From generator.yml over snmp.yml to the client.                            *)

Once(docs) ==
  \A kind \in Kinds : \A j, k \in DOMAIN docs : \A x \in DOMAIN docs[j][kind] \cap DOMAIN docs[k][kind] : j = k
\* What an answer was made of stays true of it whatever is loaded later.
AnswerAsLoaded ==
  answer.status = 200 =>
    /\ IsList(answer.from) /\ Once(answer.from)
    /\ \E k \in DOMAIN answer.from :
         /\ AuthName(answer.request) \in DOMAIN answer.from[k].auths
         /\ answer.client =
              ConfigureSNMP(ExpandedAuth(Over(answer.from[k].auths[AuthName(answer.request)], DefaultAuth)),
                            First(answer.request.snmp_context))
    /\ \A m \in DOMAIN answer.params : \E k \in DOMAIN answer.from :
         /\ m \in DOMAIN answer.from[k].modules
         /\ answer.params[m] = Over(answer.from[k].modules[m].params, DefaultWalkParams)

LEMMA AnswerFrame ==
  ASSUME AnswerAsLoaded, UNCHANGED <<answer, scenario>>
  PROVE  AnswerAsLoaded'
<1>1. \A auth : ExpandedAuth(auth)' = ExpandedAuth(auth)
  BY DEF ExpandedAuth, Expanded, Expandable
<1> QED
  BY <1>1 DEF AnswerAsLoaded

LEMMA AnswerScrape ==
  ASSUME LoadInv, NEW r \in scenario.requests, Scrape(r)
  PROVE  AnswerAsLoaded'
<1> DEFINE name == AuthName(r)
<1>1. /\ answer' = [ status |-> 200, request |-> r, from |-> runningFrom,
                     client |-> ConfigureSNMP(C.auths[name], First(r.snmp_context)),
                     params |-> [m \in ToSet(parseModules(r.module)) |-> Params(m)] ]
      /\ name \in DOMAIN C.auths /\ ToSet(parseModules(r.module)) \subseteq DOMAIN C.modules
      /\ UNCHANGED scenario
  BY DEF Scrape, Found
<1>2. Running /\ "auths" \in Kinds /\ "modules" \in Kinds
  BY DEF LoadInv, Kinds
<1>3. /\ answer'.request = r /\ answer'.from = runningFrom
      /\ answer'.client = ConfigureSNMP(C.auths[name], First(r.snmp_context))
      /\ answer'.params = [m \in ToSet(parseModules(r.module)) |-> Params(m)]
  BY <1>1
<1>4. PICK k \in DOMAIN runningFrom : name \in DOMAIN runningFrom[k].auths
  BY <1>1, <1>2 DEF Running, RunsOnce
<1>5. C.auths[name] = ExpandedAuth(Over(runningFrom[k].auths[name], DefaultAuth))
  BY <1>2, <1>4 DEF Running, AuthsRun
<1>6. \A auth : ExpandedAuth(auth)' = ExpandedAuth(auth)
  BY <1>1 DEF ExpandedAuth, Expanded, Expandable
<1>7. IsList(runningFrom) /\ Once(runningFrom)
  BY <1>2 DEF Running, RunsOnce, Once
<1>8. ASSUME NEW m \in DOMAIN answer'.params
      PROVE  \E j \in DOMAIN runningFrom :
               /\ m \in DOMAIN runningFrom[j].modules
               /\ answer'.params[m] = Over(runningFrom[j].modules[m].params, DefaultWalkParams)
  <2>1. m \in DOMAIN C.modules /\ answer'.params[m] = Params(m)
    BY <1>1, <1>3
  <2>2. PICK j \in DOMAIN runningFrom : m \in DOMAIN runningFrom[j].modules
    BY <1>2, <2>1 DEF Running, RunsOnce
  <2>3. Params(m) = Over(runningFrom[j].modules[m].params, DefaultWalkParams)
    BY <1>2, <2>2 DEF Running, ModulesRun, Params, Dereferenced
  <2> QED
    BY <2>1, <2>2, <2>3
<1> QED
  BY <1>3, <1>4, <1>5, <1>6, <1>7, <1>8 DEF AnswerAsLoaded

ServedInv == LoadInv /\ AnswerAsLoaded

LEMMA ServedInit == Init => ServedInv
<1> SUFFICES ASSUME Init PROVE ServedInv
  OBVIOUS
<1>1. answer.status # 200
  BY DEF Init, ExporterInit, NoAnswer
<1> QED
  BY <1>1, LoadInit DEF ServedInv, AnswerAsLoaded

LEMMA ServedNext == ServedInv /\ [Next]_<<generatorVars, exporterVars>> => ServedInv'
<1> SUFFICES ASSUME ServedInv, [Next]_<<generatorVars, exporterVars>> PROVE AnswerAsLoaded'
  BY LoadNext DEF ServedInv
<1>0. LoadInv /\ AnswerAsLoaded
  BY DEF ServedInv
<1>1. CASE GeneratorNext /\ UNCHANGED exporterVars
  BY <1>0, <1>1, GeneratorKeepsScenario, AnswerFrame DEF exporterVars
<1>2. CASE ExporterNext /\ UNCHANGED generatorVars
  <2>0. UNCHANGED scenario
    BY <1>2 DEF generatorVars
  <2>1. CASE StartLoad \/ ReadFile \/ FileRead \/ LoadFails
    BY <1>0, <2>0, <2>1, AnswerFrame DEF StartLoad, ReadFile, FileRead, LoadFails, servedVars
  <2>2. CASE LoadSucceeds
    BY <1>0, <2>0, <2>2, AnswerFrame DEF LoadSucceeds
  <2>3. ASSUME NEW a \in DOMAIN left.auths, UnmarshalAuth(a) PROVE AnswerAsLoaded'
    BY <1>0, <2>0, <2>3, AnswerFrame DEF UnmarshalAuth, servedVars
  <2>4. ASSUME NEW m \in DOMAIN left.modules, UnmarshalModule(m) PROVE AnswerAsLoaded'
    BY <1>0, <2>0, <2>4, AnswerFrame DEF UnmarshalModule, servedVars
  <2>5. ASSUME NEW r \in scenario.requests, BadRequest(r) PROVE AnswerAsLoaded'
    BY <2>5 DEF BadRequest, AnswerAsLoaded
  <2>6. ASSUME NEW r \in scenario.requests, Scrape(r) PROVE AnswerAsLoaded'
    BY <1>0, <2>6, AnswerScrape
  <2> QED
    BY <1>2, <2>1, <2>2, <2>3, <2>4, <2>5, <2>6, Zenon DEF ExporterNext
<1>3. CASE UNCHANGED <<generatorVars, exporterVars>>
  BY <1>0, <1>3, AnswerFrame DEF generatorVars, exporterVars
<1> QED
  BY <1>1, <1>2, <1>3 DEF Next

\* A value that is written without its zeros and read over the defaults is the
\* value, unless a zero was given where the default is none.
LEMMA WrittenAndRead ==
  ASSUME NEW given, NEW zero, NEW default, DOMAIN zero = DOMAIN default,
         ~Zeroed(given, zero, default)
  PROVE  /\ Over(OmitEmpty(Over(given, default), zero), default) = Over(given, default)
         /\ Over(OmitEmpty(Over(given, zero), zero), default) = Over(given, default)
<1> DEFINE D == DOMAIN default
<1>1. ASSUME NEW base \in {zero, default}
      PROVE  Over(OmitEmpty(Over(given, base), zero), default) = Over(given, default)
  <2> DEFINE x == Over(given, base)
             w == OmitEmpty(x, zero)
  <2>1. DOMAIN x = D /\ \A f \in D : x[f] = IF f \in DOMAIN given THEN given[f] ELSE base[f]
    BY DEF Over
  <2>2. DOMAIN w = {f \in D : x[f] # zero[f]} /\ \A f \in DOMAIN w : w[f] = x[f]
    BY DEF OmitEmpty
  <2>3. Over(w, default) = [f \in D |-> IF f \in DOMAIN w THEN w[f] ELSE default[f]]
    BY DEF Over
  <2>4. Over(given, default) = [f \in D |-> IF f \in DOMAIN given THEN given[f] ELSE default[f]]
    BY DEF Over
  <2> HIDE DEF x, w
  <2>5. ASSUME NEW f \in D
        PROVE  (IF f \in DOMAIN w THEN w[f] ELSE default[f]) = (IF f \in DOMAIN given THEN given[f] ELSE default[f])
    <3>1. f \in DOMAIN given /\ given[f] = zero[f] => default[f] = zero[f]
      BY DEF Zeroed
    <3>2. CASE f \in DOMAIN given
      BY <2>1, <2>2, <3>1, <3>2
    <3>3. CASE f \notin DOMAIN given
      BY <2>1, <2>2, <3>3
    <3> QED
      BY <3>2, <3>3
  <2> QED
    BY <2>3, <2>4, <2>5 DEF w, x
<1> QED
  BY <1>1

LEMMA AnswerAsConfigured == ServedInv => ServedAsConfigured
<1> SUFFICES ASSUME ServedInv, answer.status = 200, Last(answer.from) = output
             PROVE  ServedAsConfigured
  BY DEF ServedAsConfigured
<1> DEFINE r == answer.request
           name == AuthName(r)
           given == input.auths[name]
           from == answer.from
           L == Len(from)
<1>1. AnswerAsLoaded /\ MadeOK
  BY DEF ServedInv, LoadInv
<1>2. IsList(from) /\ Once(from)
  BY <1>1 DEF AnswerAsLoaded
<1>3. PICK k \in DOMAIN from :
        /\ name \in DOMAIN from[k].auths
        /\ answer.client = ConfigureSNMP(ExpandedAuth(Over(from[k].auths[name], DefaultAuth)), First(r.snmp_context))
  BY <1>1 DEF AnswerAsLoaded
<1>4. L \in DOMAIN from /\ from[L] = output
  <2>1. from # <<>>
    BY <1>3
  <2> QED
    BY <1>2, <2>1, LastOfList
<1>5. /\ output.auths = [a \in DOMAIN input.auths |-> WrittenAuth(Over(input.auths[a], DefaultAuth))]
      /\ output.modules = made
  BY DEF output, Document
<1>6. ASSUME name \in DOMAIN input.auths, ~Zeroed(given, ZeroAuth, DefaultAuth)
      PROVE  answer.client = ConfigureSNMP(ExpandedAuth(Over(given, DefaultAuth)), First(r.snmp_context))
  <2>1. k = L
    BY <1>2, <1>3, <1>4, <1>5, <1>6 DEF Once, Kinds
  <2>2. from[k].auths[name] = WrittenAuth(Over(given, DefaultAuth))
    BY <1>4, <1>5, <1>6, <2>1
  <2>3. WrittenAuth(Over(given, DefaultAuth)) = OmitEmpty(Over(given, DefaultAuth), ZeroAuth)
    <3> DEFINE x == Over(given, DefaultAuth)
    <3>1. x = [f \in DOMAIN DefaultAuth |-> x[f]]
      BY DEF Over
    <3>2. [x EXCEPT !.password = WrittenSecret(x.password), !.priv_password = WrittenSecret(x.priv_password)] = x
      <4> HIDE DEF x
      <4> QED
        BY <3>1 DEF WrittenSecret
    <3> QED
      BY <3>2 DEF WrittenAuth
  <2>4. DOMAIN ZeroAuth = DOMAIN DefaultAuth
    BY DEF ZeroAuth, DefaultAuth
  <2>5. Over(OmitEmpty(Over(given, DefaultAuth), ZeroAuth), DefaultAuth) = Over(given, DefaultAuth)
    BY <1>6, <2>4, WrittenAndRead
  <2> QED
    BY <1>3, <2>2, <2>3, <2>5
<1>7. ASSUME NEW m \in DOMAIN answer.params \cap DOMAIN made,
             ~Zeroed(input.modules[m].params, ZeroWalkParams, DefaultWalkParams)
      PROVE  answer.params[m] = Over(input.modules[m].params, DefaultWalkParams)
  <2>1. PICK j \in DOMAIN from :
          /\ m \in DOMAIN from[j].modules
          /\ answer.params[m] = Over(from[j].modules[m].params, DefaultWalkParams)
    BY <1>1 DEF AnswerAsLoaded
  <2>2. j = L
    BY <1>2, <1>4, <1>5, <2>1 DEF Once, Kinds
  <2>3. from[j].modules[m].params = OmitEmpty(Over(input.modules[m].params, ZeroWalkParams), ZeroWalkParams)
    BY <1>1, <1>4, <1>5, <2>2 DEF MadeOK, WrittenWalkParams
  <2>4. DOMAIN ZeroWalkParams = DOMAIN DefaultWalkParams
    BY DEF ZeroWalkParams, DefaultWalkParams
  <2>5. Over(OmitEmpty(Over(input.modules[m].params, ZeroWalkParams), ZeroWalkParams), DefaultWalkParams)
          = Over(input.modules[m].params, DefaultWalkParams)
    BY <1>7, <2>4, WrittenAndRead
  <2> QED
    BY <2>1, <2>3, <2>5
<1> QED
  BY <1>6, <1>7 DEF ServedAsConfigured

\* A request answered from a generated file is answered with the auth and the
\* walk parameters of generator.yml, whatever other files are loaded with it.
THEOREM EndToEnd == Spec => []ServedAsConfigured
BY ServedInit, ServedNext, AnswerAsConfigured, PTL DEF Spec
=============================================================================
