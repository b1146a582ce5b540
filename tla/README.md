# A verification project for the SNMP exporter

TLA+ models of `snmp_exporter`, the configurations under which TLC checks
them, and theorems about them that TLAPS proves.  Line numbers refer to the
files under `src/`; those of `tree.go`, `main.go` and `config.go` of the
generator are written `generator/...`.

## 1. The system

The exporter answers `GET /snmp?target=..&module=..&auth=..`: it looks up the
auth and the modules in its configuration, asks the target for the OIDs of
each module over SNMP, and turns the answers into Prometheus samples.  The
configuration is written by a second program, the generator, from MIBs.

| Component | Where | State | Operations |
|---|---|---|---|
| HTTP handler | `main.go:87-186` | none of its own | parse parameters, look up auth and modules under the read lock, register a `Collector` with a fresh registry |
| Configuration service | `main.go:188-284`, `389-399` | `sc.C`, `sc.mu`, `hup` (capacity 1), `reloadCh` (unbuffered), one reply channel per POST | `ReloadConfig`, the reload goroutine's select loop, `POST /-/reload`, SIGHUP, `GET /config`, start-up checks |
| Configuration files | `config/config.go` | the `Config` being built | read and merge files, defaults, validation of auths, substitution of environment variables, `ConfigureSNMP` |
| Collector | `collector/collector.go:301-523` | derived context, `workerChan`, one SNMP client per worker, counters and closures of the module in progress, the in-flight gauge | `Collect` (dispatcher and workers), `collect` (one module) |
| ScrapeTarget | `collector/collector.go:91-267` | the rewritten get and walk lists, the batches, the PDUs so far | filter walks, batched gets, subtree walks |
| Samples and labels | `collector/collector.go:63-85`, `276-290`, `525-1073` | none (functions of one PDU and the table of all PDUs) | metric tree, values, index decoding, lookups, enums, bits, extracts |
| Display hints | `collector/display_hint.go` | positions in hint and data | parse and apply a DISPLAY-HINT |
| SNMP client | `scraper/gosnmp.go` | the `gosnmp.GoSNMP` of one worker | `NewGoSNMP`, `SetOptions`, `Connect`, `Get`, `WalkAll`, `Close` |
| Generator | `generator/tree.go`, `main.go`, `config.go` | the MIB tree and its name table, copied per module; per module `needToWalk`, `tableInstances`, the metrics | read `generator.yml`, `prepareTree`, `generateConfigModule`, write `snmp.yml` |
| NetSNMP binding | `generator/net_snmp.go` | a C library's tree | load the MIBs, build the tree, copy it |

### How they interact

* The handler and `/config` **share** `sc.C` with the reload goroutine under
  `sc.mu`, an `RWMutex`; a waiting writer keeps new readers out.  A request
  keeps the `*Auth` and `*Module` pointers after `RUnlock`; a reload replaces
  `sc.C` and never changes what the pointers lead to.
* `/-/reload` **sends** a reply channel on `reloadCh` and waits on it; SIGHUP
  arrives in `hup`.  One goroutine serves both, so loads are serial.
* `Collect` starts `max(concurrency, 1)` workers, **offers** the modules one by
  one on `workerChan` or stops when the context is done, closes the channel and
  waits for the workers.  Workers **share** the context (any of them may cancel
  it) and the metrics channel, and reuse one client for all their modules.
* `collect` **hooks closures** over its local counters into the client, calls
  `ScrapeTarget`, and sends metrics.  promhttp answers 200 unless an invalid
  metric (`snmp_error`) was collected.
* The generator **writes** `snmp.yml` and the exporter **reads** it: what the
  generator makes of a MIB's indexes, types and lookups is what
  `indexesToLabels` decodes rows with, and what it leaves out of the file is
  replaced by defaults.  Nothing locks the file.
* `ScrapeTarget` calls the client's `Get` and `WalkAll`, each of which may
  fail, time out after retries, or be refused by an agent of SNMPv1.

### What is hard here

* *Cancellation and early returns.*  A worker that cannot start cancels the
  context, once before its error is sent (`collector.go:457`) and once after
  (`:492`), and once with no error at all (`:476`).  The dispatcher's `select`
  may take either branch.  Can an answer be 200 and lack a module?  Can the
  dispatcher offer a module nobody will take?
* *State carried from module to module* in a worker's client: hooks, retries,
  the socket, `AppOpts`.
* *The lock and its early returns*, and a reload in the middle of a request.
* *Reloads that overlap*: signals during a load, POSTs during a load, edits
  during a load, files that fail to parse after others were read.
* *Filters that overlap*, fail, or name OIDs that are each other's string
  prefixes; batches, their last one, and `max_repetitions: 0`.
* Decoding of indexes, chained lookups, display hints: pure code with many
  corners.
* *What a lookup, a filter, an address or an instance adds to the walk*, in a loop
  over metrics and lookups that changes `needToWalk` as it goes, before it is
  reduced by comparing text.
* *One program writes what the other decodes*: a mistake in an index shows as a
  wrong label, on one vendor's table only.

### What makes each component correct

| Component | Properties |
|---|---|
| Configuration service | a request sees one configuration; an acknowledged reload is not stale; every POST is answered, every signal honoured, every request served; a failed load changes nothing |
| Collector | no silently partial answer; exactly one outcome per module handed out; metrics, retries and sockets belong to the right module; the gauge is exact; nothing outlives `Collect`; `Collect` returns |
| ScrapeTarget | filters act as documented; a failed filter loses nothing; every OID is asked for once; SNMPv1 errors lose no other instance; it ends |
| Display hints | no out-of-range slice, termination, each byte rendered once, the result is what RFC 2579 says |
| Samples and labels | the decoder consumes what it reports, lookups use current OIDs, label names are distinct |
| Configuration files | auths that load can be used; merging is strict; no entry takes anything from another; what is written is read back |
| Generator | lookups and subtypes of generated metrics are walked, walks and gets are minimal, static filters reach what depends on them, modules do not see each other's overrides, rows decode with the generated indexes |


## 2. The plan

Most important first.  A specification, its instance for TLC (`MC...`) and its
proofs (`...Proofs`) are modules of their own.

| # | Modules | What they are | State |
|---|---|---|---|
| 1 | `Collector`, `ScrapeRequest`, `CollectorRefinement` | one `Collect`; what it promises the HTTP client; that it keeps the promise | checked, invariants and refinement proved |
| 2 | `SafeConfig`, `ConfigRegister` | configuration, lock and reloads; the atomic register they implement | checked, invariant and refinement proved |
| 3 | `ScrapeTarget` | the requests of one module's scrape | checked, invariants proved |
| 4 | `DisplayHint`, `DisplayHintReference` | the parser of display hints; RFC 2579 | checked, all invariants proved |
| 5 | `Labels`, `LabelsReference` | index decoding, lookups, samples of one PDU; RFC 2578 | checked, all five invariants proved |
| 6 | `MibTree`, `ListOps` | the MIB tree: `prepareTree`, names, types, `minimizeOids`, the searches; lists | checked; the order of OIDs as text, sorting and `minimizeOids` proved |
| 7 | `ConfigFormat`, `ConfigLoad` | configuration files and what both programs do with them; `LoadFile`, `/snmp`'s parameters, the client made of an auth | checked; auths and merging proved (in `Deployment`) |
| 8 | `Generator` | `generateConfig` and `generateConfigModule`, step by step | checked; `NeedCovered`, `LookupsWalked`, `FiltersRestrict` and `ModulesApart` proved (in `Deployment`) |
| 9 | `IndexText`, `Deployment` | index decoding on its own; generator, files and exporter composed | checked; all invariants proved, the last of them that rows are decoded with the indexes that were made |
| 10 | `DataLemmas` | induction, recursion and lists, as the proofs need them | proved |
| 11 | composition of `ScrapeTarget` with `Collector` | the bounded run of requests of `Collector` replaced by the requests `ScrapeTarget` makes | open |

Every invariant of the passing runs is proved, and so are both refinements; what is
left to TLC alone is liveness (section 5).

```
 main.go            SafeConfig ----implements----> ConfigRegister
   | handler
 collector.go       Collector ----implements----> ScrapeRequest   (CollectorRefinement)
   | collect           | a bounded run of requests, each sent 1 + retries times
                    ScrapeTarget        which OIDs are asked for, and when
   | pduToSamples
                    Labels -----agrees with----> LabelsReference
 display_hint.go    DisplayHint --agrees with--> DisplayHintReference

 generator          MibTree <-- Generator --+
 config.go          ConfigFormat <----------+-- Deployment  (the files are between them)
 main.go            ConfigFormat <-- ConfigLoad --+  |
 collector.go       IndexText (also of Labels) <-----+
```

## 3. The models and the code

### Collector (`collector/collector.go:301-523`, `scraper/gosnmp.go`)

A step is what a goroutine does between two points where another could notice:
a channel operation, a send on the metrics channel, a `cancel()`, a packet.

| Variable | In the code |
|---|---|
| `request` | port, SNMP version and engine ID of the HTTP request |
| `parentDone`, `cancelled` | the parent context is done; `cancel()` of the derived one was called |
| `dispatcher`, `next` | where `Collect` is; the module its loop offers |
| `worker`, `current` | where each goroutine is; the module it took |
| `client`, `socket` | the fields of its `gosnmp.GoSNMP` that modules change; its socket |
| `attempt`, `requests` | progress of the request in flight; requests begun, cut at `MaxRequests` |
| `counted` | the local counters of `collect` that the hooks increment |
| `wire` | history: the packets that were really sent for each module |
| `inflight` | the gauge `snmp_exporter_inflight_requests` |
| `reported`, `errors`, `workerErrors`, `finished` | what was sent on the metrics channel, by module |

`CreateClient`, `SendInitError`, `RejectEngineID`, `Configure`, `Connect`,
`ConnectFails` and `CancelAfterConnectError` are a worker up to its loop;
`Dispatch` is the rendezvous on `workerChan`; `BeginScrape` is `collect` up to
its call of `ScrapeTarget` and sets hooks, retries and options as
`SetOptions` does; `SendRequest` and `Retry` are the client's hooks;
`ScrapeSucceeds`, `ScrapeFails` and `ScrapeFailsInFlight` its return;
`SendSamples` the rest of `collect`; `Exit` the end of the loop with the
deferred `Close`.  `StopDispatch` and `FinishDispatch` are the two ways out of
the dispatcher's loop, `Return` is `wg.Wait()` and the deferred `cancel()`.
The order of error and `cancel()` differs between the two failures of a worker
and is kept: it is what `NoSilentPartial` depends on.

`ScrapeRequest` is what the client of `/snmp` may assume: modules are started in
the order asked for, each completes or fails or, after an abort, is skipped, and
an answer that lacks one reports a failure or is excused.  The mapping
(`CollectorRefinement`) takes a module to *running* when it is handed to a
worker, to *complete* at the send of its duration and to *failed* at the send of
its error.

### SafeConfig (`main.go:87-186`, `188-284`, `389-399`)

`ReloadConfig` is cut at each file it reads (`ReadFile`, `LoadFails`), at
`Lock` (a writer that waits and keeps new readers out), `Install` (no reader is
left, `sc.C` is assigned) and `Unlock`.  The select loop takes a signal
(`TakeHup`) or a POST (`TakePost`), and answers (`Reply`).  `hup` is the
channel with its one slot: a signal that finds it full is dropped.
The configuration is in two files, as the repository's README recommends, so
that a load can be interrupted between them.  Each file is abstracted to the
number of its last edit and whether it parses, does not, or is missing (a
pattern that matches nothing is a warning and not an error).  A reader is a
request of `/snmp` (`LookupAuth`, one `LookupModule` per module, `EndLookup`, or
`Reject` with its own `RUnlock`) or of `/config` (`Marshal`).  `view` collects
the configurations a request has looked at.

`ConfigRegister` is a register that is written whole and read whole.  A load begins,
and then succeeds, which writes the register once and with no file older than the
one that was served, or fails, which changes nothing.  The mapping is the identity
on `C` and `view`, and `Load` says how the last load goes: it is *loading* until `sc.C`
is assigned (`Install`) or `LoadFile` returns its error (`LoadFails`).

### ScrapeTarget (`collector/collector.go:91-267`)

The phases `filter`, `get` and `walk` are the three loops.  `FilterOK` walks one
filter's column and intersects the targets (`AddTarget`, `allowedTargetIndices`
with its order, `updateWalkConfig`: the recursive functions `AddTargets` and
`ApplyTargets` are their loops), `FilterFails` logs and goes on,
`FilterPanics` is `regexp.MustCompile` on a value that is no regular expression,
which ends the exporter if a row gets as far as that value (`Evaluates`);
`Combine` rewrites the get list (`updateGetConfig`); `GetOK` is one batch with the
agent's answers, `GetNoSuchName` the SNMPv1 error that makes the loop skip the
batch (of one OID, so that no other is lost), `WalkOK` one subtree, `RequestFails`
any error return.  An OID is a sequence of numbers, but the test that removes gets
is the code's, on the dotted string (`HasPrefix`, with `DecimalPrefix` for the
last number).

### Labels and IndexText (`collector/collector.go:525-1073`)

`IndexText` is `indexOidsAsString` on its own, which `Deployment` uses as well.
One PDU of one metric: `DecodeIndex` is one turn of the loop over the indexes
(`indexOidsAsString` and what it takes off), `DropLabel`, `LookupFound` and
`LookupMissing` one turn of the loop over the lookups, `PduToSamples` the
samples by type.  The names of an enum are taken to differ from each other and from
decimal numbers (`State`), as the SMI requires of a MIB; `SeriesDistinct` rests on that, and
nothing in the code checks it.  A text is the form it is written in and the numbers written;
two texts of a model are equal when the strings are.  `UnknownIndexType` is the
`panic` of `indexOidsAsString`.
`LabelsReference` says what the labels should be.  A row is a list of values that
fit their indexes (`Fits`), encoded the way an agent does it (`Encode`, RFC 2578
7.7) and sent with some, all or none of the zeros at its end cut off
(`WithoutZeros`), unless the last value has no length in front and takes all
arcs there are.  For lookups it says, as a function of how many have been made,
which key each label stands for (`Keys`), which object lookup `j` then leads to
(`Target`) and how that is shown (`Shown`); a combined type is that of the object
one column before.  `RowAssumption` and `LinkAssumption` say which calls are
meant: agents encode rows, and lookups are as the generator makes them (an index
it appended is used only after the lookup it was appended for).  The code runs on
other inputs as well; section 6 names those that the assumptions leave out.

### DisplayHint (`collector/display_hint.go`)

`ParseSpec` and `ParseError` are the numbered steps (1) to (5) of the outer loop,
`Apply` and `ChunkTooLong` a turn of the inner one, `EndGroup` the terminator.
The variables are the function's, `result` is kept as a sequence of printed
chunks and marks, `eaten` is a history of the bytes used.  `int` is as wide as
`MaxInt` says and wraps.  `DisplayHintReference` writes hints down from lists of
specifications (`WrittenHint`) and says of a list, with no parser, what RFC 2579 asks
for: the groups one after the other (`SpecOf`, the last specification again and
again), the bytes each of them uses (`UpTo`, `Used`), the text of each (`ChunkText`,
`GroupText`), the end without its marks (`WithoutTrailingMarks`), and when there is no
text at all (`Fails`).  `AsSpecified` compares the two, but for values that end in a
repeat count (`EndsInCount`), where they differ: `TrailingSeparatorsSuppressed` is about
these.

### MibTree and Generator (`generator/tree.go`, `generator/main.go`, `generator/config.go`)

`ListOps` has the filter of a list as a recursive function (`Keep`), and how two lists
compare, in the form that theorems are about.
A tree is the sequence of its nodes in the order of `walkNode`.  An OID is the
sequence of the parts between its dots, and one that ends in a dot (the code's
mark of a Get) ends in an empty part; where the code compares text, so do
`TextBefore` (`sort.Strings`) and `getIndexNode`.  A name is an OID, a label or a
label with its module.  Where the code ranges over a map, the model takes any order
(`PickModule`, `OverrideType`, `OverrideMetrics`) or any of the nodes
(`IndexNodes`).

| Variable | In the code |
|---|---|
| `generating`, `todo`, `module` | where `generateConfig` is; its loop over the modules |
| `tree` | `mNodes`, the module's copy |
| `pending` | overrides that a loop over `cfg.Overrides` has still to apply |
| `metrics`, `need`, `instances` | `out.Metrics`, `needToWalk`, `tableInstances` |
| `at`, `drops` | the loops over metrics and lookups; `toDelete` |
| `made` | `outputConfig.Modules` |
| `files` | the configuration files; the generator writes the last |

`ReadConfig` and `RejectConfig` read `generator.yml`; `OverrideType`,
`FindMetrics` (walks, top-level nodes, metrics and indexes), `SkipLookup`,
`LookupFails`, `ApplyLookup` and `DropSources` (one turn each of the loops over
lookups), `FinishLookups` (labels made valid by `ValidLabels`, address types), `OverrideMetrics` and
`FinishModule` (static filters, `minimizeOids`, walks and gets) are the parts of
`generateConfigModule` in their order; `IndexPanic` is the slice out of range in
the loop over indexes.  `Marshal` is the check of the output, `CreateFile` the
`os.Create` that leaves the file empty, `Write` and `WriteFails` what comes after.
The loop over nodes has no steps of its own, as nothing else can happen in it, and
neither has the one over a node's index objects: `Indexes` is its recursive function,
one `AddIndex` per object, from `NoIndexes`; `prepareTree`'s two walks that hand
indexes on are `AugmentTo` and `PassTo`.

### ConfigFormat and ConfigLoad (`config/config.go`, `main.go:87-186`, `206-256`)

`ReadFile` reads a file, `UnmarshalAuth` and `UnmarshalModule` one of its entries, in
any order, into `conf`; `FileRead` goes on to the next file; `LoadSucceeds` expands
variables and installs, `LoadFails` leaves `C` as it was, or ends a program that
has not started.  `heap` are the integers that `Retries` points to, the first of
them `defaultRetries`.  `readFrom` and `runningFrom` are histories of the
documents a configuration was made of.  `Scrape` and `BadRequest` are a request of
`/snmp` as one step, since `SafeConfig` shows that the lookups of one request are
one atomic read; the answer is the client and the walk parameters it would be
scraped with.  When loads happen, and the lock, are `SafeConfig`'s subject; here
they may come at any time, also between two steps of the generator.

### Deployment

`Deployment` interleaves `Generator` and `ConfigLoad`, which share `files`.  It
states what the two promise together: `TablesDecoded` encodes a row as RFC 2578
(7.7) says, from the MIB, and decodes it with the exporter's
`indexOidsAsString` (`IndexText`) and the indexes the generator made.  Each kind of
object has one value (`Value`; an address is an IPv4 address, a string has the size
the MIB gives it, or two octets): other values are `RowsDecoded`'s subject.  An index
shows an object when it has its label, made valid, and its value; every index shows
one, every object that no address takes is shown, and no arc is left.  What the
property leaves out is named in `Decodable`, `AddressesFit` and `SharedAddressType`;
section 6 says why.
`ServedAsConfigured` compares the client of a request with `generator.yml`.

## 4. The runs

| Run | Distinct states | Question |
|---|---|---|
| `collector` | 1.20 million | do accounting, hooks, retries, sockets, gauge and answer fit, in every interleaving of two workers and three modules; does `Collect` always return, and does it implement `ScrapeRequest`? |
| `config` | 0.13 million | one configuration per request, fresh reloads, everything answered, and is it a register that failed loads leave alone? |
| `scrape_target` | 9,012 | filters, batches, refusals and failures, for every module of the instance |
| `labels` | 8,357 | rows, lookups and samples |
| `display_hint` | 53,000 | every hint of up to two specifications |
| `deployment` | 0.13 million | do the generated walks, filters, types and indexes fit the MIB and the exporter, and is what is served what was configured? |
| `collector_options`, `scrape_target_prefix`, `config_incomplete`, `display_hint_trailing`, `labels_chain`, `generator_shared_type` | - | the findings of section 6: each ends in a counterexample |

Bounds, and why they are enough to show what they are for:

* `MCCollector`: two workers and three modules, so that one worker has two
  modules in succession while another fails, starts late or scrapes; retries 0
  and 1, the second module with the unusual options, so that options can be
  carried over in both directions.  A scrape makes at most `MaxRequests = 2`
  requests: the hooks and the retry count restart with each.
* `MCSafeConfig`: one reader with one module, two posters, one edit.  A request then
  has two lookups, its auth and its module, which a reload can come between; the
  theorems have any number of readers and modules.
  One edit may come before, between and after the reading of the two files,
  break or remove one, and either POST or a signal may be on either side of it.
  A second edit adds no new order between an edit and one load.
* `MCScrapeTarget`: two columns of one table, 2.1 and 2.10, whose names are
  string prefixes; another table; filters that share targets; at most two rows; up to
  three gets; `max_repetitions` 0, 2 and 25 (below and above the number of gets).
  One call has a malformed value in its second filter.  Agents have none, some or
  other OIDs.
* `MCLabels`: all pairs of nine kinds of index with every number of trailing
  zeros cut off, implied and rest-of-OID indexes at the end, one and two lookups
  over all subsets of the tables, with and without the index the generator
  appends for a chained lookup, and seven types of metric.
* `MCDisplayHint`: specifications of every count of interest (none, within, at
  and above the data's length, and overflowing an `int` of five bits), with and
  without repeat, separator and terminator; eleven malformed hints; values of up
  to three bytes.  `MaxOctets` is the limit 8 of the code, here 1.
  `MCDisplayHintTrailing` has hints that show every byte they do not count with, so
  that what it finds is not about data that a specification leaves unused.

* `MCDeployment`: 344 scenarios.  Ninety are one module of `generator.yml` over
  one MIB: six walks (tables, columns, an augmented table, instances whose text is
  each other's prefix, a scalar, overlapping and qualified names) by five lists of
  lookups (none, one that drops its source, three, chains) by three lists of
  static filters (on columns that are looked up, with several indices, two
  filters that meet in one metric).  Others have unknown and unsupported lookups,
  invalid walks and input, two modules with overrides of one object, tables with
  thirteen lists of indexes (addresses with and without their types, subtypes two
  before, implied, fixed and prefixed strings, enums, a missing index),
  addresses as columns, an address whose type a filter reaches, and a metric asked
  for by instance that another one looks up.  The other 240 are loads: six sets of auths over five files
  written by hand (missing, torn, clashing entries) and four environments, with an
  older `snmp.yml` in place, `MaxLoads = 2` (a start and a reload, so that one can
  come before and one in the middle of the generator's writing) and five requests.
  `MCDeploymentShared` has the two tables of the finding and no load.
  Taken as given: the file of a write that ended early does not parse; targets of a
  static filter are OIDs or names of the MIB; the hints that make a DisplayString
  are `32a`, `255a` and `255t`.  The generator ends and the exporter may
  exit, so this run does not check deadlock.

Fairness is what the Go runtime gives.  A goroutine that can run does run: weak
fairness of each worker, of the dispatcher, of the loader and of a handler's own
steps.  `select` chooses at random among ready cases, and blocked senders and
readers are queued, so a case that is ready again and again is taken: strong
fairness of `TakeHup`, `TakePost(p)` and `RLock(r)`.  Nothing is assumed of the
operator, the HTTP client (`ClientGone`), signals, or errors (`RequestFails`).
A request in flight ends because it is sent a bounded number of times and each
sending has a timeout.

States that a system stays in for good (`Collect` has returned, the process has
exited, the function has returned) have a step that changes nothing, so that
every other state without a step is reported as a deadlock.

## 5. The proofs

| Module | Theorems | For every |
|---|---|---|
| `CollectorProofs` | `Invariant`, `TypeCorrect`, `Completeness`, `ExactlyOnce`, `Attributed`, `Budget`, `Unconnectedness`, `Gauge`, `Clean`, `Implements` | finite set of workers, number of modules, options, length of scrapes |
| `SafeConfigProofs` | `Invariant`, `TypeCorrect`, `Snapshot`, `Fresh`, `Implements` | set of readers and posters, number of edits and modules |
| `ScrapeTargetProofs` | `Invariant`, `TypeCorrect`, `AskedOnce`, `NothingLost`, `AllWalked`, `Filtering` | module configuration, batch size, rows of the filters, agent |
| `DisplayHintProofs` | `TypeCorrect`, `NeverPanics`, `NothingDropped`, `MeansWhatIsSpecified` | hints and values of any length, lists of specifications, width of `int`, limit of octets |
| `LabelsProofs` | `TypeCorrect`, `RowsDecoded`, `LinksFollowed`, `LabelsUnique`, `SeriesUnique` | metric, number of indexes and lookups, row, PDU and table of PDUs |
| `DeploymentProofs` | `ClientsComplete`, `ConfigurationAsWritten`, `EndToEnd` | scenario (MIB, `generator.yml`, files, environment, requests), number of loads |
| `GeneratorProofs` | `DeploymentTypes`, `NeedsAreCovered`, `LookupObjects`, `FilterRows`, `OwnTypesOnly`, `TablesAreDecoded` | the same |
| `DataLemmas` | (lemmas only) | |

The assumptions are those on the constants, which TLC evaluates in the runs:

* `CollectorAssumption`: there is at least one worker.
* `SafeConfigAssumption`: the two tags of `cause` are no posters.
* `ScrapeTargetAssumption`, `LabelsAssumption`: the arguments have their types.  An
  OID that a filter's walk returned is not empty.
* `DisplayHintAssumption`: a value's length fits in an `int`, as Go guarantees.
* `ReferenceAssumption`: lists of specifications are lists, not empty, of what RFC 2579
  calls an octet-format specification: an octet count of at least one digit, a format,
  and marks that are neither digits nor `*`, at most a separator and, with a repeat
  indicator, a terminator.  Hints that no such list writes down are malformed; the other
  theorems hold for them, too.
* `ConfigFormatAssumption`: a file is missing, torn or a document, and a module of a
  document has walk parameters (maybe none of them given); the files are a list.
* `ConfigLoadAssumption`: the bound on loads is a number.
* `GeneratorAssumption`: the tree is a sequence of nodes, what is written as an OID in
  `generator.yml` is one, and the targets of static filters are OIDs or names of the
  MIB (the code walks an unknown one as it is written, which no agent answers).
* `RowAssumption`, `LinkAssumption` (section 3), which `RowsDecoded` and
  `LinksFollowed` use; the other theorems about `Labels` hold for all arcs and lookups.

TLC checks the properties; the strengthenings are proved.  The library states
induction for an operator, which none of the provers can instantiate.
`DataLemmas` states it for data: `InductionTo` says that a *set* of numbers that has
0 and with each number the next one has all numbers to a limit; `RecursionTo`
that iterating given *functions* from a given start gives one function with
values in a given set.  A recursive function of a model is then read as the
iteration of its own steps (see `KeepFacts`, `AddTargetsFacts`, `KeysFacts`), and
what is claimed of it as the set of numbers for which it holds.  So loops over
lists are written as recursive functions where a theorem is about them.
`FlattenFacts` does this once for `FlattenSeq` of the community modules: where each
of the lists begins in the whole (`Begins`), and that nothing else is there.
`JoinNext` and `JoinRest` are for a text that is built up: what has been joined so far
(`JoinTo`) grows by the next list, and is all there is when the lists left are empty.

**Collector.**  None of the properties is inductive.  `IInv` adds
`Accounting` (each module before `next` has a worker or an outcome, no module
after it has either), `Causes` (a cancelled context, and a dispatcher that
stopped early, have an excuse: the client is gone, the engine ID is malformed,
an error is already sent or a worker in `initError` is bound to send it),
`Attribution` (the hooks in a scraping worker's client are its module's, and
nothing counts for a module that is past its scrape) and `Sockets` (a worker
between connecting and leaving has the socket that the modules need).
`Completeness` follows: if all modules were dispatched, `Accounting` gives each
an outcome once all workers are done; if not, `Causes` gives an excuse, which
the answer's being 200 rules out.  `initError` cannot be that excuse then, since
all workers are done.  The proof has a lemma for each conjunct, with a step for
each action that can disturb it.

`CollectorProofs!Implements` maps every step of `Collector` to one of
`ScrapeRequest` or to none.  `Accounting` does most of it: a module that a worker has
is running and is no other worker's (`BusyIsRunning`), so that an outcome
changes the status of one module only; one that `Dispatch` hands out was not
started before (`UnreachedStatus`).  A worker's error sets *failed* and nothing
else; `StopDispatch` skips what is left in one step, and `FinishDispatch` is
silent since nothing is.  `Return` is where `Completeness`' argument is needed
once more: it must be shown that the abstract answer may be given.

**SafeConfig.**  `IInv` adds `Locking` (who holds the lock follows from where the
handlers are, so the early returns must unlock), `Viewing` (a reader that holds
the lock has seen nothing but the current configuration) and `Freshness` (edit
numbers grow from `C` over `conf` to `disk`; what a POST waits for is at least
what it saw).  `Implements` uses all three: an `Install` happens when no reader is in
the middle of its lookups and when every file has been read without an error, so it
is the success of the load that began, and writes no older file (`InstallSucceeds`);
`LoadFails` leaves the register as it is, after whichever file it comes; and every
lookup maps to the same atomic read.

**ScrapeTarget.**  `IInv` is `TypeOK /\ Combined /\ Accounted`.  `Combined` says what
the filters handled so far have made of the two lists: the targets with the
indices allowed for each, in an order without repetition, are a function of the
verdicts, and the walk list is that of the module without the targets.
`Accounted` says, for the later phases, that what was asked for followed by what is
pending *is* the get list, so that `AskedOnce` holds for any batch size; that what the
agent has of it is in `got`, also when a batch was refused by SNMPv1, which is then a
batch of one OID it does not have (`NothingLost`); and the same of the subtrees
(`AllWalked`).
`Filtering` needs two more arguments.  One is about the loops: what `AddTargets`,
`addAllowedIndices` and `ApplyTargets` make of a list is given by the *sets* of its
elements, so that the order of filters and targets does not matter.  The other is
about text: the code removes gets by *string* prefix, which for targets that are
`Separate` removes the target's own gets only
(`SeparateIsApart`, `PrefixIsTextPrefix`).

**DisplayHint.**  For safety, `IInv` is `TypeOK /\ EachByteOnce`.  The work is in `SpecInside`:
the positions the parser computes stay within the hint, for which the end of the
digits has to exist (`DigitsEnd`, from `Least`: a set of naturals that is not
empty has a least member).  `ChunkInside` is the arithmetic of the overflow check:
whatever the sum wraps to, the slice is within the data.

`MeansWhatIsSpecified` has a second inductive invariant, `Explained`, for hints that a
list of specifications writes down.  It says where in the list's meaning the loop is:
`Between(g)`, with the groups up to `g` displayed, or `InGroup(g, s, p)`, with `r` chunks
of the next one, of specification `s` from byte `p` on.  In either case `result` is the
text of these (`JoinTo`), `dataPos` is what they use, and `hintPos` is where the hint's
next specification begins, or its end.  Four arguments carry it over the loop:
* *parsing* (`SpecIsRead`): from the start of a specification, the five steps read this
  specification.  Digits end at the format, and what comes after the format is a mark
  of this one and never the beginning of the next, which is a digit or `*`
  (`PiecesFacts`, `DigitsUpTo`); that is where hints that are lists need it that marks
  are no digits.  An octet count that fits an `int` is read as it is (`WrapFacts`);
* *chunks* (`ChunkIs`, `Multiples`): `dataPos` after `c` chunks is `UpTo`, with the
  overflow check taking the place of the reference's end of data;
* *restarts* (`ReadStep`, `UsedFacts`): every group past the list's end uses a byte of the
  value, or is stuck, so that the reference's `MaxGroups` are enough for every run;
* *marks* (`TrailingMarks`): the reference drops marks at the end of the whole text, the
  code does not print them; nothing but marks comes after the chunk that uses up the
  value, and what comes before it ends in a chunk, unless the value ended in a repeat
  count (`EndsInCount`).  `Explained` says then that the two texts differ in marks at
  the end only; the theorem leaves the case out, since the code prints them
  (section 6).

**Labels.**  `TypeOK` is inductive: `IndexDecodes` gives the form of every text, by
the type of its index and for all arcs, `UnknownIndexType` being the only way to
get none.  `LabelsUnique` and `SeriesUnique` rest on `EmittedLast` (samples are made in
one step, from labels that do not change any more) and on what that step adds:
the column's own label, one label of a state or bit (`StatesDistinct`), nothing else.

`RowsDecoded`: decoding is the inverse of encoding.  `IndexTakenOff` says of each
type that `indexOidsAsString`, applied to arcs that *begin with* an encoding, gives
the value's text, uses exactly the encoding and leaves the rest.  `BeginsWith` lets
missing arcs stand for zeros, so that it holds for what a router cut off, too:
the subtlety is that an octet count of zero, or the tail of an address, may be among
them.  `RowInv` carries this over the loop: the arcs left are what was sent, after
the encodings of the indexes taken so far (`Begins` of `FlattenFacts`), and each of
their labels is the meaning of its value.  When the row's own indexes are taken,
nothing is left (`RowUsedUp`); each index the generator appended then decodes to a
zero and leaves nothing again (`AppendedDecoded`).

`LinksFollowed`: `LinkInv` adds, while indexes are decoded, that the arcs kept for a
label are its encoding (`Keyed`, from `IndexTakenOff`), and during the lookups, that
the arcs kept for each label a later lookup needs are those of `Keys`
(`KeysAgree`; but an index that the generator appended has none before its lookup),
that nothing but indexes and lookups has arcs (`Known`), and that the lookups so
far show what they should unless a later one decides (`FollowedTo`).  `KeysAgree` is
where the code's one weakness enters: a lookup that finds nothing leaves the arcs
of an earlier index or lookup with its label in place, and a later lookup uses
them.  `Leftover` describes just these calls, in terms of the arguments and not of
the run; without it the property is false (`labels_chain`, section 6).

**Deployment.**  `AuthUsable` speaks of an answer; it was given from a configuration
that may have been replaced since.  `AuthInv` follows the auths: each one that has
been unmarshalled in the load in progress has all fields and is valid
(`ReadAuths`), each one that runs is valid too unless a variable is empty
(`RunningAuths`), and the last answer was right when it was given.
`ExpandedValid` is the step between the first two: expansion keeps
levels and protocols, and empties no field.  `ValidComplete` is the step to the
client: the levels that set a flag in `ConfigureSNMP` are those for which
`Auth.UnmarshalYAML` asks for what the flag needs.  The generator takes no part in
this (`GeneratorKeepsScenario`): the exporter validates whatever file it finds.

`ConfigurationAsWritten` follows the loops over entries.  `Reading` says that the
entries taken so far, and those left, are of the documents read; each taken
entry is of one of them and of no other (`ReadOnce`: an entry that is there already
ends the load), an auth is what was given over the defaults, and a module's parameters
are, too, with `Retries` pointing into `heap`.  The heap is the hazard: `Pointed`
says that each module with retries of its own has a cell that was added for it, and
`HeapGrows` that no cell changes, in particular not the first, `defaultRetries`, which
all others share.  `Running` is the same for the installed configuration
(`ReadRuns`).  `EndToEnd` adds two things: an answer is the client of a configuration
whose documents it names (`AnswerAsLoaded`, which survives later loads), and what
`Marshal` leaves out, defaults put back (`WrittenAndRead`: `Over` after `OmitEmpty` is
the identity on entries with no explicit zero).

**Generator** (`GeneratorProofs`, about `Deployment`).  `GenInv` follows one module
through `generateConfigModule`, `TypeInv` adds the exporter's half.
`NeedCovered` has two halves.  *What is walked is needed*: `NeedFrom` says of each OID in
`needToWalk` that it is a Get, or of the walk, or the object of a lookup or of an address
type of a metric that is walked.  It is kept since metrics only gain lookups (`NeedStep`),
and an object is asked for by Get where the metric is (`ObjectsFacts`, `TypeObjectsFacts`).
*What is needed is asked for, once*: this is `minimizeOids`, and the hazard is that it
compares each text with the last one kept only.  The order of texts is first shown to be
a strict total order: of digits, of arcs as their digits with the dot in its place
(`DigitsInOrder`, `ArcsInOrder`), of lists of arcs (`BeforeIrreflexive`).  Nothing sorts
between a prefix and what it covers but what it covers too, since the dot is less than all
digits; so if any kept OID covers the next text the last one does (`AddSubtreeFacts`).
`MinimizeFacts` sums it up for any finite set of OIDs, and needs `SortedFacts`: that
repeatedly taking the first of what is left gives a list of all of it, in order.
The sets have to be finite for that, hence `FiniteImage` and its like.

`LookupsWalked` and `FiltersRestrict` follow the loop over metrics and lookups, which adds
to `needToWalk` and takes from it.  `LookupsNeeded` says of each lookup so far what must be
in `needToWalk` for it, and is kept for two reasons: a Get is never taken away (both
`delete`s take subtrees, `GetsAreGets`), and a subtree is only if a filter of the module has
it as a target or its metric looks such a target up (`WalkedStep`), the two cases that
`Restricted` and `Narrowed` name.  A metric that has been narrowed may be asked for again,
by a later turn: then a metric looks it up or has its type from it, which is all that
`FiltersRestrict` allows.  `FiltersApplied` is the last loop, over the filters; `NeedIsAsked`
carries both from `needToWalk` to the file, through `minimizeOids`.

`ModulesApart`: an override changes the tree only, and `MadeNow`, `MetricsTyped` and
`TypesSet` lead from the tree to the module.  While overrides are applied, in any order,
each node has the type of the MIB, or of one of the overrides that are done and name it
(`TypedBy`); names stand for the same nodes all along, in each copy, since only types
change (`SameNames`).  Then a metric has its node's type, or has become an octet string
when its type object is missing.

`TablesDecoded` has an invariant and an argument about data.  The invariant,
`IndexInv`, says of each metric that its indexes begin with those of a node of its OID,
as `Indexes` made them while lookups are applied (lookups append to them), with valid
labels from `FinishLookups` on.  It is needed because the property speaks of the finished
module and of `Indexes` of the tree as it was walked; nothing between changes the tree.
The argument goes through the index objects of one node.  `Indexes` is unfolded object by
object (`IndexesFacts`; `TreeNodes` is what `prepareTree` leaves of a node), and what
an address takes, one index or two, is shown to be there and to be the subtype and what
follows it (`Takes`): the memory of two types is that of the objects themselves, as no
address follows an address.  A row is cut after each object (`RestOfRow`).  `NextDecodes`
is one index: from where the first object it stands for begins, it gives the last one's
value and ends where the next object begins (`PlainDecodes` for an object of one index,
by its type; `AddressOf` for an address, where the arcs between subtype and octets
count).  `RowShown` puts these together by induction on the number of objects: the list
for k objects is the one for k - 1, k - 2 or k - 3 objects and an index, so the induction
keeps all shorter lists.  `NodeShown` and `MetricDecoded` carry the result to the metric.

Only model-checked: liveness (`Collect` returns, every POST is answered, every loop
ends), as the provers have no fairness and no ENABLED.

## 6. What the runs found

* `collector_options`: `collect` sets `g.AppOpts` for a module that allows
  non-increasing OIDs and nothing clears it, so the worker's later modules are
  walked without the check (`collector.go:376`).
* `scrape_target_prefix`: gets are removed by string prefix, so the target
  `1.2.1` removes `1.2.10.7` that another filter has added (`collector.go:245`).
* `config_incomplete`: a missing file is a warning; the test that there are
  modules and auths is made at start-up only.  A reload while a file is missing
  replaces a good configuration and reports success (`main.go:206`).
* `display_hint_trailing`: a separator is written when data is left, also when this is
  only the repeat count of the next group: the hint `1d.*1x:` shows the octets 1 5 as
  `1.` (`display_hint.go:193`; a terminator likewise, `:200`).
* `labels_chain`: when the first link of a chained lookup is missing, the second
  is made for row 0 (`collector.go:1068`).

* `generator_shared_type`: the loop over indexes remembers the types of the two
  objects before, also of one that an address has already taken.  With indexes
  (InetAddressType, InetAddress, InetAddress), source and destination with one
  type, `metric.Indexes[:len-2]` is out of range and the generator panics; with
  `ifIndex` in front it silently loses `ifIndex` and the first address, and the
  exporter reads rows with indexes they do not have (`generator/tree.go:405`).

Behaviour the models show that no document speaks of: a malformed engine ID stops the
scrape with no error (`RejectEngineID`, excluded by name from
`NoSilentPartial`); an explicit zero in `generator.yml` becomes the default
(`omitempty`); a variable that is set to nothing empties a password that was
validated; BITS and variable-length PhysAddress indexes are not decoded as RFC
2578 encodes them.  Each is excluded by name from the property it concerns.

Two more are excluded by name, of which a document or a comment speaks nearby.  A static
filter does not restrict a walk that names an ancestor of its target.
`generator/README.md:206-207` says that a filter "will reduce a walk of a table to only
the defined indices to get", and, of a target that is used in a lookup, that it "will
apply ALL tables using this lookup"; it does not say whether a walk of more than the
table is meant.  And state sets and bits append a label named after the metric without
looking whether it is there (`collector.go:775`, `:812`), which `enumAsInfo` takes care to
avoid (`:754`): when the column is looked up or is an index, the registry refuses the
samples, and with them the scrape (`NoDuplicateLabelButSets`).

A value of a dynamic filter that is no regular expression is not refused when the
configuration is loaded.  It ends the exporter at the first row that no earlier value
matches (`collector.go:206`, `FilterPanics`), since no worker of `Collect` recovers.  No
document says what should happen.

More came up in the proof of `TablesDecoded`, which names them.  An override of the type
of an object that is also an index object changes how the exporter reads the index, not
how the agent encodes it (`KeepsEncoding`; `InetAddressMissingSize` is there for agents
that leave an address's size out).  Between the subtype and the octets of an
address the exporter takes exactly one arc, be it the length or an object in between
(`collector.go:911`), so an address that has its subtype two before and its length in
front is not decoded, nor is one of fixed or implied length directly behind its subtype
(`AddressesFit`).  The hint `1x:` makes a MAC address of an octet string of any size.
When two nodes have one OID, which of them a metric comes from is lost.

Two came up in the proofs about lookups and filters, and the properties name them.  A
metric asked for by instance that another metric looks up gets more rows, or all,
and these come without its own lookups.  A filtered metric that is the type object of an
address which is walked is asked for as a whole again, since the loop over addresses comes
after the lookups (`generator/tree.go:551`).

Three more came up in the proofs and are left out by the assumptions on rows and
lookups: an `LldpPortId` index whose subtype is shown as a string reads its length
twice, once as the second arc of every combined type and once as a string
(`collector.go:911`; `Fits`); an empty implied string as an index has no arcs, and a
lookup made from it reads a zero (`IsLinked`; RFC 2578 forbids empty implied
strings); the octets of an address whose type is not in the table of PDUs are
decoded as if their first octet were the type (`Showable`).

## 7. What is not modelled

* Help texts, regular expressions, date patterns and offsets of overrides, which the
  generator copies; descriptions; logs.
* A null entry in a map of auths or modules (`v3: ~`), which YAML gives as a nil
  pointer, and a YAML key that is given twice in one file.
* Patterns of file names: `files` is the list after `filepath.Glob`.
* The failure of the generator on parse errors of MIBs, and its commands `dump` and
  `parse_errors`, which print.
* What the panics of `ScrapeTarget` and `Labels` do to the rest: they end the process, and
  each model ends in the phase `panicked`; `Collector` has no step for it.
* The conversion of values to floats, dates and regular expressions
  (`collector.go:525-660`, `716-746`): `Labels` keeps only whether there is a
  sample and which labels it has.
* `generator/net_snmp.go`, a binding of a C library, is input to the generator.
* The landing page, `/metrics`, `/-/healthy`, flags and logs have no state of
  their own that another part reads.
* `scraper/mock.go` is a test double.  The shipped `snmp.yml`, mixins and
  dashboards are data.
