------------------------------ MODULE Collector ------------------------------
(* One Collect of collector/collector.go: the dispatcher that hands the        *)
(* requested modules to a pool of workers, the workers that share the context, *)
(* the metrics channel and (module after module) one SNMP client each, and the *)
(* per-module scrape up to the requests it sends.  What a scrape asks for is   *)
(* in ScrapeTarget; here a scrape is a bounded run of requests, each sent up   *)
(* to 1 + retries times.                                                       *)
EXTENDS Integers, FiniteSets

CONSTANTS
  Workers,       \* the max(c.concurrency, 1) goroutines
  NumModules,    \* modules requested; parseModules makes them distinct
  Retries,       \* walk_params.retries of each module
  NonIncreasing, \* modules with allow_nonincreasing_oids
  Unconnected,   \* modules with use_unconnected_udp_socket
  MaxRequests    \* bound: requests of one module's scrape

Modules == 1..NumModules
NoModule == 0

ASSUME CollectorAssumption ==
  /\ IsFiniteSet(Workers) /\ Workers # {}
  /\ NumModules \in Nat
  /\ Retries \in [Modules -> Nat]
  /\ NonIncreasing \subseteq Modules
  /\ Unconnected \subseteq Modules
  /\ MaxRequests \in Nat

VARIABLES
  request,    \* what the HTTP request asked for, constant during Collect
  parentDone, \* the request's context ended: the HTTP client went away
  cancelled,  \* cancel() of the derived context was called
  dispatcher, \* "select" until workerChan is closed, then "wait", "returned"
  next,       \* the module the dispatcher offers next
  worker,     \* where each worker goroutine is
  current,    \* the module each worker scrapes
  client,     \* the options set in each worker's gosnmp client
  socket,     \* each worker's socket
  attempt,    \* times the request in flight was sent, 0 between requests
  requests,   \* requests begun by the scrape in progress
  counted,    \* the packets and retries variables of each module's collect
  wire,       \* history: packets really sent for each module
  inflight,   \* the gauge SNMPInflight
  reported,   \* snmp_scrape_packets_sent and _retried as sent on ch
  workerErrors, \* invalid metrics without module label sent on ch
  errors,     \* invalid metrics sent on ch for each module
  finished    \* snmp_scrape_duration_seconds sent on ch for each module

shared   == <<request, parentDone, cancelled>>
outcome  == <<reported, workerErrors, errors, finished>>
exchange == <<attempt, requests, counted, wire>>
vars == <<shared, dispatcher, next, worker, current, client, socket,
          exchange, inflight, outcome>>

Requests == [badPort: BOOLEAN, version: {1, 2, 3}, engineID: {"none", "hex", "malformed"}]
Packets == [sent: Nat, retried: Nat]
NoPackets == [sent |-> 0, retried |-> 0]
Clients == [owner: Modules \cup {NoModule}, retries: Nat,
            nonIncreasing: BOOLEAN, unconnected: BOOLEAN]
NewClient == [owner |-> NoModule, retries |-> 0,
              nonIncreasing |-> FALSE, unconnected |-> FALSE]
Working == {"begin", "scrape", "process"}
WorkerStates == Working \cup {"new", "initError", "configure", "connect", "connectError", "idle", "done"}

TypeOK ==
  /\ request \in Requests
  /\ parentDone \in BOOLEAN
  /\ cancelled \in BOOLEAN
  /\ dispatcher \in {"select", "wait", "returned"}
  /\ next \in 1..(NumModules + 1)
  /\ worker \in [Workers -> WorkerStates]
  /\ current \in [Workers -> Modules \cup {NoModule}]
  /\ \A w \in Workers : worker[w] \in Working => current[w] \in Modules
  /\ client \in [Workers -> Clients]
  /\ socket \in [Workers -> {"none", "connected", "unconnected"}]
  /\ attempt \in [Workers -> Nat]
  /\ requests \in [Workers -> Nat]
  /\ counted \in [Modules -> Packets]
  /\ wire \in [Modules -> Packets]
  /\ inflight \in Int
  /\ reported \in [Modules -> Packets]
  /\ workerErrors \in Nat
  /\ errors \in [Modules -> Nat]
  /\ finished \in [Modules -> Nat]

Init ==
  /\ request \in Requests
  /\ parentDone = FALSE
  /\ cancelled = FALSE
  /\ dispatcher = "select"
  /\ next = 1
  /\ worker = [w \in Workers |-> "new"]
  /\ current = [w \in Workers |-> NoModule]
  /\ client = [w \in Workers |-> NewClient]
  /\ socket = [w \in Workers |-> "none"]
  /\ attempt = [w \in Workers |-> 0]
  /\ requests = [w \in Workers |-> 0]
  /\ counted = [m \in Modules |-> NoPackets]
  /\ wire = [m \in Modules |-> NoPackets]
  /\ inflight = 0
  /\ reported = [m \in Modules |-> NoPackets]
  /\ workerErrors = 0
  /\ errors = [m \in Modules |-> 0]
  /\ finished = [m \in Modules |-> 0]

Goto(w, s) == worker' = [worker EXCEPT ![w] = s]
ContextDone == parentDone \/ cancelled
\* c.snmpEngineID != "" && c.auth.Version == 3, and hex.DecodeString fails
BadEngineID == request.version = 3 /\ request.engineID = "malformed"
\* Mutant: only the first module is asked.
FirstWantsUnconnected == 1 \in Unconnected
\* A worker opens an unconnected socket when any requested module wants one.
WantsUnconnected == \E m \in Modules : m \in Unconnected

\* Mutant: the error is logged and not sent.
LogWorkerError == UNCHANGED workerErrors
\* ch <- prometheus.NewInvalidMetric(... "snmp_error" ...) without labels
SendWorkerError == workerErrors' = workerErrors + 1

-----------------------------------------------------------------------------
(* A worker goroutine, up to its loop over workerChan                         *)

\* NewGoSNMP; on error cancel() runs before the error is sent.
CreateClient(w) ==
  /\ worker[w] = "new"
  /\ IF request.badPort
       THEN Goto(w, "initError") /\ cancelled' = TRUE
       ELSE Goto(w, "configure") /\ UNCHANGED cancelled
  /\ UNCHANGED <<request, parentDone, dispatcher, next, current, client, socket,
                 exchange, inflight, outcome>>

SendInitError(w) ==
  /\ worker[w] = "initError"
  /\ Goto(w, "done")
  /\ SendWorkerError
  /\ UNCHANGED <<shared, dispatcher, next, current, client, socket, exchange,
                 inflight, reported, errors, finished>>

\* Mutant: the worker returns without cancelling.
RejectEngineIDQuietly(w) ==
  /\ worker[w] = "configure"
  /\ BadEngineID
  /\ Goto(w, "done")
  /\ UNCHANGED <<shared, dispatcher, next, current, client, socket, exchange,
                 inflight, outcome>>

\* A malformed engine ID cancels the scrape and sends no metric.
RejectEngineID(w) ==
  /\ worker[w] = "configure"
  /\ BadEngineID
  /\ Goto(w, "done")
  /\ cancelled' = TRUE
  /\ UNCHANGED <<request, parentDone, dispatcher, next, current, client, socket,
                 exchange, inflight, outcome>>

Configure(w) ==
  /\ worker[w] = "configure"
  /\ ~BadEngineID
  /\ Goto(w, "connect")
  /\ client' = [client EXCEPT ![w].unconnected = WantsUnconnected]
  /\ UNCHANGED <<shared, dispatcher, next, current, socket, exchange, inflight, outcome>>

Connect(w) ==
  /\ worker[w] = "connect"
  /\ Goto(w, "idle")
  /\ socket' = [socket EXCEPT ![w] =
                  IF client[w].unconnected THEN "unconnected" ELSE "connected"]
  /\ UNCHANGED <<shared, dispatcher, next, current, client, exchange, inflight, outcome>>

\* Here the error is sent first, and cancel() runs after it.
ConnectFails(w) ==
  /\ worker[w] = "connect"
  /\ Goto(w, "connectError")
  /\ SendWorkerError
  /\ UNCHANGED <<shared, dispatcher, next, current, client, socket, exchange,
                 inflight, reported, errors, finished>>

CancelAfterConnectError(w) ==
  /\ worker[w] = "connectError"
  /\ Goto(w, "done")
  /\ cancelled' = TRUE
  /\ UNCHANGED <<request, parentDone, dispatcher, next, current, client, socket,
                 exchange, inflight, outcome>>

-----------------------------------------------------------------------------
(* collect: one module on one worker                                          *)

\* Mutants: the closures are hooked on the client's first module only; the walk
\* options are set on the client's first module only.
KeepFirstHooks(c, m) ==
  [c EXCEPT !.owner = IF @ = NoModule THEN m ELSE @, !.retries = Retries[m]]
KeepFirstOptions(c, m) ==
  [c EXCEPT !.owner = m, !.retries = IF c.owner = NoModule THEN Retries[m] ELSE @]
\* SetOptions hooks this call's packets and retries variables into the client
\* and sets the module's walk options; AppOpts is only ever set.
SetModuleOptions(c, m) ==
  [owner |-> m, retries |-> Retries[m],
   nonIncreasing |-> c.nonIncreasing \/ m \in NonIncreasing,
   unconnected |-> m \in Unconnected]

BeginScrape(w) ==
  /\ worker[w] = "begin"
  /\ Goto(w, "scrape")
  /\ client' = [client EXCEPT ![w] = SetModuleOptions(@, current[w])]
  /\ inflight' = inflight + 1
  /\ attempt' = [attempt EXCEPT ![w] = 0]
  /\ requests' = [requests EXCEPT ![w] = 0]
  /\ UNCHANGED <<shared, dispatcher, next, current, socket, counted, wire, outcome>>

\* gosnmp sends a packet: OnSent, and OnRetry before it when it is a retry,
\* run the closures hooked last.
OnSent(p) == [sent |-> p.sent + 1, retried |-> p.retried]
OnRetry(p) == [sent |-> p.sent, retried |-> p.retried + 1]

SendRequest(w) ==
  /\ worker[w] = "scrape"
  /\ ~ContextDone
  /\ attempt[w] = 0
  /\ requests[w] < MaxRequests
  /\ requests' = [requests EXCEPT ![w] = @ + 1]
  /\ attempt' = [attempt EXCEPT ![w] = 1]
  /\ counted' = [counted EXCEPT ![client[w].owner] = OnSent(@)]
  /\ wire' = [wire EXCEPT ![current[w]] = [sent |-> @.sent + 1, retried |-> @.retried]]
  /\ UNCHANGED <<shared, dispatcher, next, worker, current, client, socket, inflight, outcome>>

Retry(w) ==
  /\ worker[w] = "scrape"
  /\ ~ContextDone
  /\ attempt[w] \in 1..client[w].retries
  /\ attempt' = [attempt EXCEPT ![w] = @ + 1]
  /\ counted' = [counted EXCEPT ![client[w].owner] = OnSent(OnRetry(@))]
  /\ wire' = [wire EXCEPT ![current[w]] = [sent |-> @.sent + 1, retried |-> @.retried + 1]]
  /\ UNCHANGED <<shared, dispatcher, next, worker, current, client, socket,
                 requests, inflight, outcome>>

\* The request is over and the scrape goes on: an answer arrived, or a filter's
\* walk failed and ScrapeTarget skips that filter.
RequestOver(w) ==
  /\ worker[w] = "scrape"
  /\ attempt[w] > 0
  /\ attempt' = [attempt EXCEPT ![w] = 0]
  /\ UNCHANGED <<shared, dispatcher, next, worker, current, client, socket,
                 requests, counted, wire, inflight, outcome>>

ScrapeSucceeds(w) ==
  /\ worker[w] = "scrape"
  /\ attempt[w] = 0
  /\ Goto(w, "process")
  /\ inflight' = inflight - 1
  /\ reported' = [reported EXCEPT ![current[w]] = counted[current[w]]]
  /\ UNCHANGED <<shared, dispatcher, next, current, client, socket, exchange,
                 workerErrors, errors, finished>>

\* Mutant: the error returns before the gauge is decremented.
ScrapeFailsInFlight(w) ==
  /\ worker[w] = "scrape"
  /\ attempt[w] > 0 \/ ContextDone
  /\ Goto(w, "idle")
  /\ errors' = [errors EXCEPT ![current[w]] = @ + 1]
  /\ UNCHANGED <<shared, dispatcher, next, current, client, socket, exchange,
                 inflight, reported, workerErrors, finished>>

\* ScrapeTarget returns an error: the request in flight timed out or came back
\* with an error, or the context is done.
ScrapeFails(w) ==
  /\ worker[w] = "scrape"
  /\ attempt[w] > 0 \/ ContextDone
  /\ Goto(w, "idle")
  /\ inflight' = inflight - 1
  /\ errors' = [errors EXCEPT ![current[w]] = @ + 1]
  /\ UNCHANGED <<shared, dispatcher, next, current, client, socket, exchange,
                 reported, workerErrors, finished>>

\* The samples of the PDUs, then snmp_scrape_duration_seconds.
SendSamples(w) ==
  /\ worker[w] = "process"
  /\ Goto(w, "idle")
  /\ finished' = [finished EXCEPT ![current[w]] = @ + 1]
  /\ UNCHANGED <<shared, dispatcher, next, current, client, socket, exchange,
                 inflight, reported, workerErrors, errors>>

\* workerChan is closed: the range loop ends and the deferred Close runs.
Exit(w) ==
  /\ worker[w] = "idle"
  /\ dispatcher # "select"
  /\ Goto(w, "done")
  /\ socket' = [socket EXCEPT ![w] = "none"]
  /\ UNCHANGED <<shared, dispatcher, next, current, client, exchange, inflight, outcome>>

-----------------------------------------------------------------------------
(* The dispatcher, and the HTTP client                                        *)

\* Mutants: the loop runs once too often; the loop offers the same module again.
OneModuleTooMany == next \in 1..(NumModules + 1)
OfferAgain == next
\* for _, module := range c.modules
ModulesLeft == next \in Modules
NextModule == next + 1

\* case workerChan <- module: a rendezvous with a worker that is ranging.
Dispatch(w) ==
  /\ dispatcher = "select"
  /\ ModulesLeft
  /\ worker[w] = "idle"
  /\ Goto(w, "begin")
  /\ current' = [current EXCEPT ![w] = next]
  /\ next' = NextModule
  /\ UNCHANGED <<shared, dispatcher, client, socket, exchange, inflight, outcome>>

\* Mutant: the rest is dropped although nothing was cancelled.
StopDispatchEarly ==
  /\ dispatcher = "select"
  /\ ModulesLeft
  /\ dispatcher' = "wait"
  /\ UNCHANGED <<shared, next, worker, current, client, socket, exchange, inflight, outcome>>

\* case <-ctx.Done(): the rest of the modules is dropped.
StopDispatch ==
  /\ dispatcher = "select"
  /\ ModulesLeft
  /\ ContextDone
  /\ dispatcher' = "wait"
  /\ UNCHANGED <<shared, next, worker, current, client, socket, exchange, inflight, outcome>>

FinishDispatch ==
  /\ dispatcher = "select"
  /\ ~ModulesLeft
  /\ dispatcher' = "wait"
  /\ UNCHANGED <<shared, next, worker, current, client, socket, exchange, inflight, outcome>>

\* Mutant: wg.Wait() is missing.
NoWait == TRUE
\* wg.Wait()
WorkersDone == \A w \in Workers : worker[w] = "done"

\* wg.Wait() ends and the deferred cancel() runs.
Return ==
  /\ dispatcher = "wait"
  /\ WorkersDone
  /\ dispatcher' = "returned"
  /\ cancelled' = TRUE
  /\ UNCHANGED <<request, parentDone, next, worker, current, client, socket,
                 exchange, inflight, outcome>>

ClientGone ==
  /\ dispatcher # "returned"
  /\ ~parentDone
  /\ parentDone' = TRUE
  /\ UNCHANGED <<request, cancelled, dispatcher, next, worker, current, client,
                 socket, exchange, inflight, outcome>>

Terminated == dispatcher = "returned" /\ UNCHANGED vars

WorkerStep(w) ==
  \/ CreateClient(w) \/ SendInitError(w) \/ RejectEngineID(w) \/ Configure(w)
  \/ Connect(w) \/ ConnectFails(w) \/ CancelAfterConnectError(w)
  \/ BeginScrape(w) \/ SendRequest(w) \/ Retry(w) \/ RequestOver(w)
  \/ ScrapeSucceeds(w) \/ ScrapeFails(w) \/ SendSamples(w) \/ Exit(w)
DispatcherStep ==
  \/ \E w \in Workers : Dispatch(w)
  \/ StopDispatch \/ FinishDispatch \/ Return
Next ==
  \/ \E w \in Workers : WorkerStep(w)
  \/ DispatcherStep
  \/ ClientGone
  \/ Terminated

Spec == Init /\ [][Next]_vars
\* Goroutines are scheduled fairly; nothing makes the HTTP client go away.
FairSpec == Spec /\ WF_vars(DispatcherStep) /\ \A w \in Workers : WF_vars(WorkerStep(w))

-----------------------------------------------------------------------------
(* Properties                                                                 *)

Outcomes(m) == errors[m] + finished[m]
\* promhttp answers 200 unless an invalid metric was collected.
ResponseOK == dispatcher = "returned" /\ workerErrors = 0 /\ \A m \in Modules : errors[m] = 0

\* A scrape that answers 200 has all the samples of every requested module,
\* whatever the workers' failures and the dispatcher's select raced to: modules
\* are missing from it only when the HTTP client went away or the engine ID was
\* malformed (RejectEngineID, which cancels without sending an error).
NoSilentPartial ==
  ResponseOK /\ ~parentDone /\ ~BadEngineID => \A m \in Modules : finished[m] = 1

\* No module is scraped twice or by two workers (its metrics would collide in
\* the registry), and when Collect returns each module handed to a worker has
\* exactly one outcome, each module dropped has none.
OneOutcomePerModule ==
  /\ \A m \in Modules : Outcomes(m) <= 1
  /\ \A v, w \in Workers :
       worker[v] \in Working /\ worker[w] \in Working /\ current[v] = current[w] => v = w
  /\ dispatcher = "returned" =>
       \A m \in Modules : Outcomes(m) = (IF m < next THEN 1 ELSE 0)

\* snmp_scrape_packets_sent and _retried count the packets of their own module,
\* though the client and its hooks pass from module to module.
PacketsAttributed ==
  \A m \in Modules : finished[m] > 0 => reported[m] = wire[m]

\* A request is never sent more often than the module being scraped allows,
\* whatever module the worker's client served before.
RetryBudget ==
  \A w \in Workers : worker[w] = "scrape" => attempt[w] <= 1 + Retries[current[w]]

\* A module that needs an unconnected socket is never scraped over a connected
\* one, although the socket is opened before the worker knows its modules.
UnconnectedHonoured ==
  \A w \in Workers :
    worker[w] = "scrape" /\ current[w] \in Unconnected => socket[w] = "unconnected"

\* The in-flight gauge counts exactly the scrapes in progress, on error paths too.
InflightExact == inflight = Cardinality({w \in Workers : worker[w] = "scrape"})

\* When Collect returns, no goroutine is left to write to the closed metrics
\* channel, no gauge is left up and no socket is left open.
CleanReturn ==
  dispatcher = "returned" =>
    /\ inflight = 0
    /\ \A w \in Workers : worker[w] = "done" /\ socket[w] = "none"

\* Collect always returns: a failed worker never leaves the dispatcher offering
\* a module that nobody will take.
Termination == <>(dispatcher = "returned")

\* generator/README.md documents allow_nonincreasing_oids as a module's setting,
\* false by default: a module is walked under its own setting.
OwnWalkOptions ==
  \A w \in Workers :
    worker[w] = "scrape" => client[w].nonIncreasing = (current[w] \in NonIncreasing)

-----------------------------------------------------------------------------
(* The inductive invariant behind these properties                            *)

\* A module before next is being scraped by exactly one worker or has its one
\* outcome; a module from next on is untouched.
Accounting ==
  /\ \A w \in Workers : worker[w] \in Working =>
       current[w] \in Modules /\ current[w] < next /\ Outcomes(current[w]) = 0
  /\ \A v, w \in Workers :
       worker[v] \in Working /\ worker[w] \in Working /\ current[v] = current[w] => v = w
  /\ \A m \in Modules :
       IF m < next
         THEN \/ Outcomes(m) = 1
              \/ Outcomes(m) = 0 /\ \E w \in Workers : worker[w] \in Working /\ current[w] = m
         ELSE Outcomes(m) = 0
  /\ dispatcher = "returned" => \A w \in Workers : worker[w] = "done"

\* Whatever stopped the dispatcher early is visible in the answer, or is a
\* worker that has cancelled and is about to send its error.
Excuse == parentDone \/ BadEngineID \/ workerErrors > 0 \/ \E w \in Workers : worker[w] = "initError"
Causes ==
  /\ cancelled /\ dispatcher # "returned" => Excuse
  /\ dispatcher # "select" /\ next \in Modules => Excuse
  /\ \A w \in Workers : worker[w] = "connectError" => workerErrors > 0

\* The hooks in a scraping worker's client are those of the module it scrapes,
\* and nobody counts for a module once its samples are being sent.
Attribution ==
  /\ \A w \in Workers : worker[w] = "scrape" => client[w].owner = current[w]
  /\ counted = wire
  /\ \A w \in Workers : worker[w] = "process" => reported[current[w]] = counted[current[w]]
  /\ \A m \in Modules : finished[m] > 0 => reported[m] = counted[m]

\* The client's retries are the current module's; the socket is what some
\* requested module needs for as long as the worker has one.
Sockets ==
  /\ \A w \in Workers : worker[w] = "scrape" =>
       client[w].retries = Retries[current[w]] /\ attempt[w] <= 1 + client[w].retries
  /\ \A w \in Workers : worker[w] = "connect" => client[w].unconnected = WantsUnconnected
  /\ \A w \in Workers :
       socket[w] = IF worker[w] \in Working \cup {"idle"}
                     THEN IF WantsUnconnected THEN "unconnected" ELSE "connected"
                     ELSE "none"

\* The inductive invariant of Collector: how the bookkeeping of dispatcher,
\* workers and answer fits together in every state.
IInv == TypeOK /\ Accounting /\ Causes /\ Attribution /\ Sockets /\ InflightExact
=============================================================================
