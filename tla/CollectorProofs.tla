--------------------------- MODULE CollectorProofs ---------------------------
(* Theorems about Collector for any number of workers, modules, retries and   *)
(* requests.                                                                  *)
EXTENDS CollectorRefinement, FiniteSetTheorems, TLAPS

\* The hooks keep a count a count.
LEMMA OnSentType == ASSUME NEW p \in Packets PROVE OnSent(p) \in Packets
  BY DEF OnSent, Packets
LEMMA OnRetryType == ASSUME NEW p \in Packets PROVE OnRetry(p) \in Packets
  BY DEF OnRetry, Packets

\* Every variable keeps the type it is declared with.
LEMMA TypeStep == TypeOK /\ [Next]_vars => TypeOK'
<1> SUFFICES ASSUME TypeOK, [Next]_vars PROVE TypeOK'
  OBVIOUS
<1> USE CollectorAssumption
    DEF TypeOK, vars, shared, outcome, exchange, Goto, NoModule, WorkerStates, Working
<1>1. ASSUME NEW w \in Workers, CreateClient(w) PROVE TypeOK'
  BY <1>1 DEF CreateClient
<1>2. ASSUME NEW w \in Workers, SendInitError(w) PROVE TypeOK'
  BY <1>2 DEF SendInitError, SendWorkerError
<1>3. ASSUME NEW w \in Workers, RejectEngineID(w) PROVE TypeOK'
  BY <1>3 DEF RejectEngineID
<1>4. ASSUME NEW w \in Workers, Configure(w) PROVE TypeOK'
  <2>1. WantsUnconnected \in BOOLEAN
    BY DEF WantsUnconnected
  <2>2. client' \in [Workers -> Clients]
    BY <1>4, <2>1 DEF Configure, Clients
  <2> QED
    BY <1>4, <2>2 DEF Configure
<1>5. ASSUME NEW w \in Workers, Connect(w) PROVE TypeOK'
  BY <1>5 DEF Connect
<1>6. ASSUME NEW w \in Workers, ConnectFails(w) PROVE TypeOK'
  BY <1>6 DEF ConnectFails, SendWorkerError
<1>7. ASSUME NEW w \in Workers, CancelAfterConnectError(w) PROVE TypeOK'
  BY <1>7 DEF CancelAfterConnectError
<1>8. ASSUME NEW w \in Workers, BeginScrape(w) PROVE TypeOK'
  BY <1>8 DEF BeginScrape, SetModuleOptions, Clients
<1>9. ASSUME NEW w \in Workers, SendRequest(w) PROVE TypeOK'
  <2>1. counted' \in [Modules -> Packets]
    BY <1>9, OnSentType DEF SendRequest
  <2>2. wire' \in [Modules -> Packets]
    BY <1>9 DEF SendRequest, Packets
  <2> QED
    BY <1>9, <2>1, <2>2 DEF SendRequest
<1>10. ASSUME NEW w \in Workers, Retry(w) PROVE TypeOK'
  <2>1. counted' \in [Modules -> Packets]
    BY <1>10, OnSentType, OnRetryType DEF Retry
  <2>2. wire' \in [Modules -> Packets]
    BY <1>10 DEF Retry, Packets
  <2>3. attempt' \in [Workers -> Nat]
    BY <1>10 DEF Retry
  <2> QED
    BY <1>10, <2>1, <2>2, <2>3 DEF Retry
<1>11. ASSUME NEW w \in Workers, RequestOver(w) PROVE TypeOK'
  BY <1>11 DEF RequestOver
<1>12. ASSUME NEW w \in Workers, ScrapeSucceeds(w) PROVE TypeOK'
  BY <1>12 DEF ScrapeSucceeds
<1>13. ASSUME NEW w \in Workers, ScrapeFails(w) PROVE TypeOK'
  BY <1>13 DEF ScrapeFails
<1>14. ASSUME NEW w \in Workers, SendSamples(w) PROVE TypeOK'
  BY <1>14 DEF SendSamples
<1>15. ASSUME NEW w \in Workers, Exit(w) PROVE TypeOK'
  BY <1>15 DEF Exit
<1>16. ASSUME NEW w \in Workers, Dispatch(w) PROVE TypeOK'
  <2>1. next' \in 1..(NumModules + 1)
    BY <1>16 DEF Dispatch, ModulesLeft, NextModule, Modules
  <2> QED
    BY <1>16, <2>1 DEF Dispatch, ModulesLeft
<1>17. CASE StopDispatch
  BY <1>17 DEF StopDispatch
<1>18. CASE FinishDispatch
  BY <1>18 DEF FinishDispatch, ModulesLeft, Modules
<1>19. CASE Return
  BY <1>19 DEF Return
<1>20. CASE ClientGone
  BY <1>20 DEF ClientGone
<1>21. CASE Terminated
  BY <1>21 DEF Terminated
<1>22. CASE UNCHANGED vars
  BY <1>22
<1>. QED
  BY <1>1, <1>2, <1>3, <1>4, <1>5, <1>6, <1>7, <1>8, <1>9, <1>10, <1>11,
     <1>12, <1>13, <1>14, <1>15, <1>16, <1>17, <1>18, <1>19, <1>20, <1>21,
     <1>22
  DEF Next, WorkerStep, DispatcherStep
\* A step that leaves the modules' outcomes and the set of busy workers alone
\* leaves the accounting alone.
LEMMA AccountingFrame ==
  ASSUME Accounting, UNCHANGED <<current, next, errors, finished>>,
         \A v \in Workers : worker'[v] \in Working <=> worker[v] \in Working,
         dispatcher' = "returned" => \A v \in Workers : worker'[v] = "done"
  PROVE  Accounting'
  BY DEF Accounting, Outcomes

\* A busy worker that gives its module its one outcome and leaves the busy
\* workers keeps the accounting.
LEMMA OutcomeGiven ==
  ASSUME TypeOK, Accounting, NEW w \in Workers,
         worker[w] \in Working, worker'[w] \notin Working,
         \A v \in Workers \ {w} : worker'[v] = worker[v],
         UNCHANGED <<current, next>>, dispatcher' # "returned",
         \A k \in Modules : errors'[k] + finished'[k] =
           IF k = current[w] THEN 1 ELSE errors[k] + finished[k]
  PROVE  Accounting'
<1>1. \A v \in Workers : worker'[v] \in Working =>
        v # w /\ worker[v] \in Working /\ current[v] # current[w]
  BY DEF Accounting
<1>2. \A v \in Workers : worker'[v] \in Working =>
        /\ current'[v] \in Modules /\ current'[v] < next'
        /\ errors'[current'[v]] + finished'[current'[v]] = 0
  BY <1>1 DEF Accounting, Outcomes
<1>3. ASSUME NEW k \in Modules
      PROVE  IF k < next'
               THEN \/ Outcomes(k)' = 1
                    \/ Outcomes(k)' = 0 /\ \E v \in Workers : worker'[v] \in Working /\ current'[v] = k
               ELSE Outcomes(k)' = 0
  <2>1. CASE k = current[w]
    BY <2>1 DEF Accounting, Outcomes
  <2>2. CASE k # current[w]
    <3>1. \A v \in Workers : worker[v] \in Working /\ current[v] = k => worker'[v] \in Working
      BY <2>2
    <3> QED
      BY <2>2, <3>1 DEF Accounting, Outcomes
  <2> QED
    BY <2>1, <2>2
<1>4. \A u, v \in Workers :
        worker'[u] \in Working /\ worker'[v] \in Working /\ current'[u] = current'[v] => u = v
  BY <1>1 DEF Accounting
<1> QED
  BY <1>2, <1>3, <1>4 DEF Accounting, Outcomes

\* Modules and outcomes stay accounted for: handing a module to a worker makes
\* it that worker's, and the worker leaves it with its one outcome.
LEMMA AccountingStep == IInv /\ TypeOK' /\ [Next]_vars => Accounting'
<1> SUFFICES ASSUME TypeOK, Accounting, TypeOK', [Next]_vars PROVE Accounting'
  BY DEF IInv
<1> USE CollectorAssumption
<1>1. ASSUME NEW w \in Workers, CreateClient(w) PROVE Accounting'
  BY <1>1, AccountingFrame DEF CreateClient, Goto, TypeOK, Working, shared, outcome, exchange, Accounting
<1>2. ASSUME NEW w \in Workers, SendInitError(w) PROVE Accounting'
  BY <1>2, AccountingFrame DEF SendInitError, Goto, TypeOK, Working, shared, outcome, exchange, Accounting
<1>3. ASSUME NEW w \in Workers, RejectEngineID(w) PROVE Accounting'
  BY <1>3, AccountingFrame DEF RejectEngineID, Goto, TypeOK, Working, shared, outcome, exchange, Accounting
<1>4. ASSUME NEW w \in Workers, Configure(w) PROVE Accounting'
  BY <1>4, AccountingFrame DEF Configure, Goto, TypeOK, Working, shared, outcome, exchange, Accounting
<1>5. ASSUME NEW w \in Workers, Connect(w) PROVE Accounting'
  BY <1>5, AccountingFrame DEF Connect, Goto, TypeOK, Working, shared, outcome, exchange, Accounting
<1>6. ASSUME NEW w \in Workers, ConnectFails(w) PROVE Accounting'
  BY <1>6, AccountingFrame DEF ConnectFails, Goto, TypeOK, Working, shared, outcome, exchange, Accounting
<1>7. ASSUME NEW w \in Workers, CancelAfterConnectError(w) PROVE Accounting'
  BY <1>7, AccountingFrame DEF CancelAfterConnectError, Goto, TypeOK, Working, shared, outcome, exchange, Accounting
<1>8. ASSUME NEW w \in Workers, BeginScrape(w) PROVE Accounting'
  BY <1>8, AccountingFrame DEF BeginScrape, Goto, TypeOK, Working, shared, outcome, exchange, Accounting
<1>9. ASSUME NEW w \in Workers, SendRequest(w) PROVE Accounting'
  BY <1>9, AccountingFrame DEF SendRequest, Goto, TypeOK, Working, shared, outcome, exchange, Accounting
<1>10. ASSUME NEW w \in Workers, Retry(w) PROVE Accounting'
  BY <1>10, AccountingFrame DEF Retry, Goto, TypeOK, Working, shared, outcome, exchange, Accounting
<1>11. ASSUME NEW w \in Workers, RequestOver(w) PROVE Accounting'
  BY <1>11, AccountingFrame DEF RequestOver, Goto, TypeOK, Working, shared, outcome, exchange, Accounting
<1>12. ASSUME NEW w \in Workers, ScrapeSucceeds(w) PROVE Accounting'
  BY <1>12, AccountingFrame DEF ScrapeSucceeds, Goto, TypeOK, Working, shared, outcome, exchange, Accounting
<1>13. ASSUME NEW w \in Workers, ScrapeFails(w) PROVE Accounting'
  BY <1>13, OutcomeGiven DEF ScrapeFails, Goto, TypeOK, Accounting, Outcomes, Working, shared
<1>14. ASSUME NEW w \in Workers, SendSamples(w) PROVE Accounting'
  BY <1>14, OutcomeGiven DEF SendSamples, Goto, TypeOK, Accounting, Outcomes, Working, shared
<1>15. ASSUME NEW w \in Workers, Exit(w) PROVE Accounting'
  BY <1>15, AccountingFrame DEF Exit, Goto, TypeOK, Working, shared, outcome, exchange, Accounting
<1>16. ASSUME NEW w \in Workers, Dispatch(w) PROVE Accounting'
  <2>1. /\ next \in Modules /\ Outcomes(next) = 0 /\ next' = next + 1
        /\ worker[w] = "idle" /\ worker'[w] = "begin" /\ current'[w] = next
        /\ \A v \in Workers \ {w} : worker'[v] = worker[v] /\ current'[v] = current[v]
        /\ dispatcher = "select" /\ dispatcher' = dispatcher
        /\ errors' = errors /\ finished' = finished
    BY <1>16 DEF Dispatch, ModulesLeft, NextModule, Goto, TypeOK, Accounting, Modules, outcome
  <2>2. \A k \in Modules : Outcomes(k)' = Outcomes(k)
    BY <2>1 DEF Outcomes
  <2>3. \A v \in Workers \ {w} : worker[v] \in Working =>
          current[v] \in Modules /\ current[v] < next /\ current[v] # next
    BY <2>1 DEF Accounting, Modules
  <2>4. \A k \in Modules : k < next + 1 <=> k < next \/ k = next
    BY <2>1 DEF Modules
  <2>5. \A v \in Workers : worker'[v] \in Working =>
          current'[v] \in Modules /\ current'[v] < next' /\ errors'[current'[v]] + finished'[current'[v]] = 0
    BY <2>1, <2>3, <2>4 DEF Accounting, Outcomes
  <2>6. \A u, v \in Workers :
          worker'[u] \in Working /\ worker'[v] \in Working /\ current'[u] = current'[v] => u = v
    BY <2>1, <2>3 DEF Accounting
  <2>7. ASSUME NEW k \in Modules
        PROVE  IF k < next'
                 THEN \/ Outcomes(k)' = 1
                      \/ Outcomes(k)' = 0 /\ \E v \in Workers : worker'[v] \in Working /\ current'[v] = k
                 ELSE Outcomes(k)' = 0
    <3>1. CASE k = next
      BY <3>1, <2>1, <2>2, <2>4 DEF Working
    <3>2. CASE k # next
      <4>1. \A v \in Workers : worker[v] \in Working => v # w
        BY <2>1 DEF Working
      <4> QED
        BY <3>2, <4>1, <2>1, <2>2, <2>4 DEF Accounting
    <3> QED
      BY <3>1, <3>2
  <2> QED
    BY <2>1, <2>5, <2>6, <2>7 DEF Accounting, Outcomes
<1>17. CASE StopDispatch
  BY <1>17, AccountingFrame DEF StopDispatch, Goto, TypeOK, Working, shared, outcome, exchange, Accounting
<1>18. CASE FinishDispatch
  BY <1>18, AccountingFrame DEF FinishDispatch, Goto, TypeOK, Working, shared, outcome, exchange, Accounting
<1>19. CASE Return
  BY <1>19, AccountingFrame DEF Return, Goto, TypeOK, Working, shared, outcome, exchange, WorkersDone
<1>20. CASE ClientGone
  BY <1>20, AccountingFrame DEF ClientGone, Goto, TypeOK, Working, shared, outcome, exchange, Accounting
<1>21. CASE Terminated
  BY <1>21, AccountingFrame DEF Terminated, Goto, TypeOK, Working, shared, outcome, exchange, Accounting, vars
<1>22. CASE UNCHANGED vars
  BY <1>22, AccountingFrame DEF vars, Accounting, shared, outcome, exchange
<1>. QED
  BY <1>1, <1>2, <1>3, <1>4, <1>5, <1>6, <1>7, <1>8, <1>9, <1>10, <1>11,
     <1>12, <1>13, <1>14, <1>15, <1>16, <1>17, <1>18, <1>19, <1>20, <1>21,
     <1>22
  DEF Next, WorkerStep, DispatcherStep

\* Every step that cancels, or that stops the dispatcher early, keeps its
\* excuse; the one excuse that goes away, a pending initialisation error,
\* becomes a reported error.
LEMMA CausesStep == IInv /\ TypeOK' /\ [Next]_vars => Causes'
<1> SUFFICES ASSUME TypeOK, Causes, Accounting, TypeOK', [Next]_vars PROVE Causes'
  BY DEF IInv
<1> USE CollectorAssumption
    DEF TypeOK, Causes, Excuse, BadEngineID, Goto, shared, outcome, vars, ContextDone
<1>1. ASSUME NEW w \in Workers, CreateClient(w) PROVE Causes'
  BY <1>1 DEF CreateClient
<1>2. ASSUME NEW w \in Workers, SendInitError(w) PROVE Causes'
  BY <1>2 DEF SendInitError, SendWorkerError
<1>3. ASSUME NEW w \in Workers, RejectEngineID(w) PROVE Causes'
  BY <1>3 DEF RejectEngineID
<1>4. ASSUME NEW w \in Workers, Configure(w) PROVE Causes'
  BY <1>4 DEF Configure
<1>5. ASSUME NEW w \in Workers, Connect(w) PROVE Causes'
  BY <1>5 DEF Connect
<1>6. ASSUME NEW w \in Workers, ConnectFails(w) PROVE Causes'
  BY <1>6 DEF ConnectFails, SendWorkerError
<1>7. ASSUME NEW w \in Workers, CancelAfterConnectError(w) PROVE Causes'
  BY <1>7 DEF CancelAfterConnectError
<1>8. ASSUME NEW w \in Workers, BeginScrape(w) PROVE Causes'
  BY <1>8 DEF BeginScrape
<1>9. ASSUME NEW w \in Workers, SendRequest(w) PROVE Causes'
  BY <1>9 DEF SendRequest
<1>10. ASSUME NEW w \in Workers, Retry(w) PROVE Causes'
  BY <1>10 DEF Retry
<1>11. ASSUME NEW w \in Workers, RequestOver(w) PROVE Causes'
  BY <1>11 DEF RequestOver
<1>12. ASSUME NEW w \in Workers, ScrapeSucceeds(w) PROVE Causes'
  BY <1>12 DEF ScrapeSucceeds
<1>13. ASSUME NEW w \in Workers, ScrapeFails(w) PROVE Causes'
  BY <1>13 DEF ScrapeFails
<1>14. ASSUME NEW w \in Workers, SendSamples(w) PROVE Causes'
  BY <1>14 DEF SendSamples
<1>15. ASSUME NEW w \in Workers, Exit(w) PROVE Causes'
  BY <1>15 DEF Exit
<1>16. ASSUME NEW w \in Workers, Dispatch(w) PROVE Causes'
  BY <1>16 DEF Dispatch, ModulesLeft, NextModule, Modules
<1>17. CASE StopDispatch
  BY <1>17 DEF StopDispatch, ModulesLeft
<1>18. CASE FinishDispatch
  BY <1>18 DEF FinishDispatch, ModulesLeft, Modules
<1>19. CASE Return
  BY <1>19 DEF Return, WorkersDone
<1>20. CASE ClientGone
  BY <1>20 DEF ClientGone
<1>21. CASE Terminated
  BY <1>21 DEF Terminated
<1>22. CASE UNCHANGED vars
  BY <1>22
<1>. QED
  BY <1>1, <1>2, <1>3, <1>4, <1>5, <1>6, <1>7, <1>8, <1>9, <1>10, <1>11,
     <1>12, <1>13, <1>14, <1>15, <1>16, <1>17, <1>18, <1>19, <1>20, <1>21,
     <1>22
  DEF Next, WorkerStep, DispatcherStep

\* The counters of a module move with the wire while its own hooks are in the
\* client, and stand still from the moment they are reported.
LEMMA AttributionStep == IInv /\ TypeOK' /\ [Next]_vars => Attribution'
<1> SUFFICES ASSUME TypeOK, Attribution, Accounting, TypeOK', [Next]_vars PROVE Attribution'
  BY DEF IInv
<1> USE CollectorAssumption
    DEF TypeOK, Attribution, Goto, shared, outcome, exchange, vars
<1>1. ASSUME NEW w \in Workers, CreateClient(w) PROVE Attribution'
  BY <1>1 DEF CreateClient
<1>2. ASSUME NEW w \in Workers, SendInitError(w) PROVE Attribution'
  BY <1>2 DEF SendInitError
<1>3. ASSUME NEW w \in Workers, RejectEngineID(w) PROVE Attribution'
  BY <1>3 DEF RejectEngineID
<1>4. ASSUME NEW w \in Workers, Configure(w) PROVE Attribution'
  BY <1>4 DEF Configure
<1>5. ASSUME NEW w \in Workers, Connect(w) PROVE Attribution'
  BY <1>5 DEF Connect
<1>6. ASSUME NEW w \in Workers, ConnectFails(w) PROVE Attribution'
  BY <1>6 DEF ConnectFails
<1>7. ASSUME NEW w \in Workers, CancelAfterConnectError(w) PROVE Attribution'
  BY <1>7 DEF CancelAfterConnectError
<1>8. ASSUME NEW w \in Workers, BeginScrape(w) PROVE Attribution'
  BY <1>8 DEF BeginScrape, SetModuleOptions, Accounting, Clients
<1>9. ASSUME NEW w \in Workers, SendRequest(w) PROVE Attribution'
  <2>1. /\ client[w].owner = current[w] /\ current[w] \in Modules
        /\ worker[w] = "scrape" /\ worker' = worker /\ client' = client /\ current' = current
        /\ reported' = reported /\ finished' = finished
    BY <1>9 DEF SendRequest, Accounting, Working
  <2>2. counted' = wire'
    BY <1>9, <2>1 DEF SendRequest, OnSent
  <2>3. \A m \in Modules \ {current[w]} : counted'[m] = counted[m]
    BY <1>9, <2>1 DEF SendRequest
  <2>4. \A v \in Workers : worker[v] = "process" => current[v] \in Modules \ {current[w]}
    BY <2>1 DEF Accounting, Working
  <2>5. \A m \in Modules : finished[m] > 0 => m # current[w]
    BY <2>1 DEF Accounting, Outcomes, Working
  <2> QED
    BY <2>1, <2>2, <2>3, <2>4, <2>5
<1>10. ASSUME NEW w \in Workers, Retry(w) PROVE Attribution'
  <2>1. /\ client[w].owner = current[w] /\ current[w] \in Modules
        /\ worker[w] = "scrape" /\ worker' = worker /\ client' = client /\ current' = current
        /\ reported' = reported /\ finished' = finished
    BY <1>10 DEF Retry, Accounting, Working
  <2>2. counted' = wire'
    BY <1>10, <2>1 DEF Retry, OnSent, OnRetry
  <2>3. \A m \in Modules \ {current[w]} : counted'[m] = counted[m]
    BY <1>10, <2>1 DEF Retry
  <2>4. \A v \in Workers : worker[v] = "process" => current[v] \in Modules \ {current[w]}
    BY <2>1 DEF Accounting, Working
  <2>5. \A m \in Modules : finished[m] > 0 => m # current[w]
    BY <2>1 DEF Accounting, Outcomes, Working
  <2> QED
    BY <2>1, <2>2, <2>3, <2>4, <2>5
<1>11. ASSUME NEW w \in Workers, RequestOver(w) PROVE Attribution'
  BY <1>11 DEF RequestOver
<1>12. ASSUME NEW w \in Workers, ScrapeSucceeds(w) PROVE Attribution'
  BY <1>12 DEF ScrapeSucceeds
<1>13. ASSUME NEW w \in Workers, ScrapeFails(w) PROVE Attribution'
  BY <1>13 DEF ScrapeFails
<1>14. ASSUME NEW w \in Workers, SendSamples(w) PROVE Attribution'
  BY <1>14 DEF SendSamples
<1>15. ASSUME NEW w \in Workers, Exit(w) PROVE Attribution'
  BY <1>15 DEF Exit
<1>16. ASSUME NEW w \in Workers, Dispatch(w) PROVE Attribution'
  BY <1>16 DEF Dispatch
<1>17. CASE StopDispatch
  BY <1>17 DEF StopDispatch
<1>18. CASE FinishDispatch
  BY <1>18 DEF FinishDispatch
<1>19. CASE Return
  BY <1>19 DEF Return
<1>20. CASE ClientGone
  BY <1>20 DEF ClientGone
<1>21. CASE Terminated
  BY <1>21 DEF Terminated
<1>22. CASE UNCHANGED vars
  BY <1>22
<1>. QED
  BY <1>1, <1>2, <1>3, <1>4, <1>5, <1>6, <1>7, <1>8, <1>9, <1>10, <1>11,
     <1>12, <1>13, <1>14, <1>15, <1>16, <1>17, <1>18, <1>19, <1>20, <1>21,
     <1>22
  DEF Next, WorkerStep, DispatcherStep

\* Retries and sockets follow the modules.
LEMMA SocketsStep == IInv /\ TypeOK' /\ [Next]_vars => Sockets'
<1> SUFFICES ASSUME TypeOK, Sockets, Accounting, TypeOK', [Next]_vars PROVE Sockets'
  BY DEF IInv
<1> USE CollectorAssumption
    DEF TypeOK, Sockets, Goto, shared, outcome, exchange, vars, Working
<1>1. ASSUME NEW w \in Workers, CreateClient(w) PROVE Sockets'
  <2>1. \A v \in Workers : worker'[v] = "scrape" =>
          client'[v].retries = Retries[current'[v]] /\ attempt'[v] <= 1 + client'[v].retries
    BY <1>1 DEF CreateClient
  <2>2. \A v \in Workers : worker'[v] = "connect" => client'[v].unconnected = WantsUnconnected
    BY <1>1 DEF CreateClient
  <2>3. \A v \in Workers :
          socket'[v] = IF worker'[v] \in Working \cup {"idle"}
                         THEN IF WantsUnconnected THEN "unconnected" ELSE "connected"
                         ELSE "none"
    BY <1>1 DEF CreateClient
  <2> QED
    BY <2>1, <2>2, <2>3
<1>2. ASSUME NEW w \in Workers, SendInitError(w) PROVE Sockets'
  BY <1>2 DEF SendInitError
<1>3. ASSUME NEW w \in Workers, RejectEngineID(w) PROVE Sockets'
  BY <1>3 DEF RejectEngineID
<1>4. ASSUME NEW w \in Workers, Configure(w) PROVE Sockets'
  <2>1. \A v \in Workers : worker'[v] = "scrape" =>
          client'[v].retries = Retries[current'[v]] /\ attempt'[v] <= 1 + client'[v].retries
    BY <1>4 DEF Configure, Clients
  <2>2. \A v \in Workers : worker'[v] = "connect" => client'[v].unconnected = WantsUnconnected
    BY <1>4 DEF Configure, Clients
  <2>3. \A v \in Workers :
          socket'[v] = IF worker'[v] \in Working \cup {"idle"}
                         THEN IF WantsUnconnected THEN "unconnected" ELSE "connected"
                         ELSE "none"
    BY <1>4 DEF Configure
  <2> QED
    BY <2>1, <2>2, <2>3
<1>5. ASSUME NEW w \in Workers, Connect(w) PROVE Sockets'
  BY <1>5 DEF Connect
<1>6. ASSUME NEW w \in Workers, ConnectFails(w) PROVE Sockets'
  BY <1>6 DEF ConnectFails
<1>7. ASSUME NEW w \in Workers, CancelAfterConnectError(w) PROVE Sockets'
  BY <1>7 DEF CancelAfterConnectError
<1>8. ASSUME NEW w \in Workers, BeginScrape(w) PROVE Sockets'
  <2>1. \A v \in Workers : worker'[v] = "scrape" =>
          client'[v].retries = Retries[current'[v]] /\ attempt'[v] <= 1 + client'[v].retries
    BY <1>8 DEF BeginScrape, SetModuleOptions, Clients
  <2>2. \A v \in Workers : worker'[v] = "connect" => client'[v].unconnected = WantsUnconnected
    BY <1>8 DEF BeginScrape, SetModuleOptions, Clients
  <2>3. \A v \in Workers :
          socket'[v] = IF worker'[v] \in Working \cup {"idle"}
                         THEN IF WantsUnconnected THEN "unconnected" ELSE "connected"
                         ELSE "none"
    BY <1>8 DEF BeginScrape
  <2> QED
    BY <2>1, <2>2, <2>3
<1>9. ASSUME NEW w \in Workers, SendRequest(w) PROVE Sockets'
  <2>1. \A v \in Workers : worker'[v] = "scrape" =>
          client'[v].retries = Retries[current'[v]] /\ attempt'[v] <= 1 + client'[v].retries
    BY <1>9 DEF SendRequest, Clients
  <2>2. \A v \in Workers : worker'[v] = "connect" => client'[v].unconnected = WantsUnconnected
    BY <1>9 DEF SendRequest, Clients
  <2>3. \A v \in Workers :
          socket'[v] = IF worker'[v] \in Working \cup {"idle"}
                         THEN IF WantsUnconnected THEN "unconnected" ELSE "connected"
                         ELSE "none"
    BY <1>9 DEF SendRequest
  <2> QED
    BY <2>1, <2>2, <2>3
<1>10. ASSUME NEW w \in Workers, Retry(w) PROVE Sockets'
  <2>1. \A v \in Workers : worker'[v] = "scrape" =>
          client'[v].retries = Retries[current'[v]] /\ attempt'[v] <= 1 + client'[v].retries
    BY <1>10 DEF Retry, Clients
  <2>2. \A v \in Workers : worker'[v] = "connect" => client'[v].unconnected = WantsUnconnected
    BY <1>10 DEF Retry, Clients
  <2>3. \A v \in Workers :
          socket'[v] = IF worker'[v] \in Working \cup {"idle"}
                         THEN IF WantsUnconnected THEN "unconnected" ELSE "connected"
                         ELSE "none"
    BY <1>10 DEF Retry
  <2> QED
    BY <2>1, <2>2, <2>3
<1>11. ASSUME NEW w \in Workers, RequestOver(w) PROVE Sockets'
  <2>1. \A v \in Workers : worker'[v] = "scrape" =>
          client'[v].retries = Retries[current'[v]] /\ attempt'[v] <= 1 + client'[v].retries
    BY <1>11 DEF RequestOver, Clients
  <2>2. \A v \in Workers : worker'[v] = "connect" => client'[v].unconnected = WantsUnconnected
    BY <1>11 DEF RequestOver, Clients
  <2>3. \A v \in Workers :
          socket'[v] = IF worker'[v] \in Working \cup {"idle"}
                         THEN IF WantsUnconnected THEN "unconnected" ELSE "connected"
                         ELSE "none"
    BY <1>11 DEF RequestOver
  <2> QED
    BY <2>1, <2>2, <2>3
<1>12. ASSUME NEW w \in Workers, ScrapeSucceeds(w) PROVE Sockets'
  BY <1>12 DEF ScrapeSucceeds
<1>13. ASSUME NEW w \in Workers, ScrapeFails(w) PROVE Sockets'
  BY <1>13 DEF ScrapeFails
<1>14. ASSUME NEW w \in Workers, SendSamples(w) PROVE Sockets'
  BY <1>14 DEF SendSamples
<1>15. ASSUME NEW w \in Workers, Exit(w) PROVE Sockets'
  BY <1>15 DEF Exit
<1>16. ASSUME NEW w \in Workers, Dispatch(w) PROVE Sockets'
  BY <1>16 DEF Dispatch
<1>17. CASE StopDispatch
  BY <1>17 DEF StopDispatch
<1>18. CASE FinishDispatch
  BY <1>18 DEF FinishDispatch
<1>19. CASE Return
  BY <1>19 DEF Return
<1>20. CASE ClientGone
  BY <1>20 DEF ClientGone
<1>21. CASE Terminated
  BY <1>21 DEF Terminated
<1>22. CASE UNCHANGED vars
  BY <1>22
<1>. QED
  BY <1>1, <1>2, <1>3, <1>4, <1>5, <1>6, <1>7, <1>8, <1>9, <1>10, <1>11,
     <1>12, <1>13, <1>14, <1>15, <1>16, <1>17, <1>18, <1>19, <1>20, <1>21,
     <1>22
  DEF Next, WorkerStep, DispatcherStep

\* The workers in ScrapeTarget, which the gauge counts.
Scraping == {v \in Workers : worker[v] = "scrape"}

LEMMA GaugeFrame ==
  ASSUME InflightExact, inflight' = inflight,
         \A v \in Workers : worker'[v] = "scrape" <=> worker[v] = "scrape"
  PROVE  InflightExact'
<1>1. Scraping' = Scraping
  BY DEF Scraping
<1> QED
  BY <1>1 DEF InflightExact, Scraping

LEMMA GaugeUp ==
  ASSUME InflightExact, NEW w \in Workers, worker[w] # "scrape", worker'[w] = "scrape",
         \A v \in Workers \ {w} : worker'[v] = worker[v], inflight' = inflight + 1
  PROVE  InflightExact'
<1>1. Scraping' = Scraping \cup {w} /\ w \notin Scraping
  BY DEF Scraping
<1>2. IsFiniteSet(Scraping)
  BY CollectorAssumption, FS_Subset DEF Scraping
<1>3. Cardinality(Scraping') = Cardinality(Scraping) + 1
  BY <1>1, <1>2, FS_AddElement
<1> QED
  BY <1>3 DEF InflightExact, Scraping

LEMMA GaugeDown ==
  ASSUME InflightExact, NEW w \in Workers, worker[w] = "scrape", worker'[w] # "scrape",
         \A v \in Workers \ {w} : worker'[v] = worker[v], inflight' = inflight - 1
  PROVE  InflightExact'
<1>1. Scraping' = Scraping \ {w} /\ w \in Scraping
  BY DEF Scraping
<1>2. IsFiniteSet(Scraping)
  BY CollectorAssumption, FS_Subset DEF Scraping
<1>3. Cardinality(Scraping') = Cardinality(Scraping) - 1
  BY <1>1, <1>2, FS_RemoveElement
<1> QED
  BY <1>3 DEF InflightExact, Scraping

\* The gauge moves with the set of scraping workers.
LEMMA InflightStep == IInv /\ TypeOK' /\ [Next]_vars => InflightExact'
<1> SUFFICES ASSUME TypeOK, InflightExact, TypeOK', [Next]_vars PROVE InflightExact'
  BY DEF IInv
<1> USE CollectorAssumption
    DEF TypeOK, Goto, shared, outcome, exchange, vars
<1>1. ASSUME NEW w \in Workers, CreateClient(w) PROVE InflightExact'
  BY <1>1, GaugeFrame DEF CreateClient
<1>2. ASSUME NEW w \in Workers, SendInitError(w) PROVE InflightExact'
  BY <1>2, GaugeFrame DEF SendInitError
<1>3. ASSUME NEW w \in Workers, RejectEngineID(w) PROVE InflightExact'
  BY <1>3, GaugeFrame DEF RejectEngineID
<1>4. ASSUME NEW w \in Workers, Configure(w) PROVE InflightExact'
  BY <1>4, GaugeFrame DEF Configure
<1>5. ASSUME NEW w \in Workers, Connect(w) PROVE InflightExact'
  BY <1>5, GaugeFrame DEF Connect
<1>6. ASSUME NEW w \in Workers, ConnectFails(w) PROVE InflightExact'
  BY <1>6, GaugeFrame DEF ConnectFails
<1>7. ASSUME NEW w \in Workers, CancelAfterConnectError(w) PROVE InflightExact'
  BY <1>7, GaugeFrame DEF CancelAfterConnectError
<1>8. ASSUME NEW w \in Workers, BeginScrape(w) PROVE InflightExact'
  BY <1>8, GaugeUp DEF BeginScrape
<1>9. ASSUME NEW w \in Workers, SendRequest(w) PROVE InflightExact'
  BY <1>9, GaugeFrame DEF SendRequest
<1>10. ASSUME NEW w \in Workers, Retry(w) PROVE InflightExact'
  BY <1>10, GaugeFrame DEF Retry
<1>11. ASSUME NEW w \in Workers, RequestOver(w) PROVE InflightExact'
  BY <1>11, GaugeFrame DEF RequestOver
<1>12. ASSUME NEW w \in Workers, ScrapeSucceeds(w) PROVE InflightExact'
  BY <1>12, GaugeDown DEF ScrapeSucceeds
<1>13. ASSUME NEW w \in Workers, ScrapeFails(w) PROVE InflightExact'
  BY <1>13, GaugeDown DEF ScrapeFails
<1>14. ASSUME NEW w \in Workers, SendSamples(w) PROVE InflightExact'
  BY <1>14, GaugeFrame DEF SendSamples
<1>15. ASSUME NEW w \in Workers, Exit(w) PROVE InflightExact'
  BY <1>15, GaugeFrame DEF Exit
<1>16. ASSUME NEW w \in Workers, Dispatch(w) PROVE InflightExact'
  BY <1>16, GaugeFrame DEF Dispatch
<1>17. CASE StopDispatch
  BY <1>17, GaugeFrame DEF StopDispatch
<1>18. CASE FinishDispatch
  BY <1>18, GaugeFrame DEF FinishDispatch
<1>19. CASE Return
  BY <1>19, GaugeFrame DEF Return
<1>20. CASE ClientGone
  BY <1>20, GaugeFrame DEF ClientGone
<1>21. CASE Terminated
  BY <1>21, GaugeFrame DEF Terminated
<1>22. CASE UNCHANGED vars
  BY <1>22, GaugeFrame
<1>. QED
  BY <1>1, <1>2, <1>3, <1>4, <1>5, <1>6, <1>7, <1>8, <1>9, <1>10, <1>11,
     <1>12, <1>13, <1>14, <1>15, <1>16, <1>17, <1>18, <1>19, <1>20, <1>21,
     <1>22
  DEF Next, WorkerStep, DispatcherStep

\* The initial states satisfy the inductive invariant.
LEMMA InitInv == Init => IInv
<1> SUFFICES ASSUME Init PROVE IInv
  OBVIOUS
<1> USE CollectorAssumption DEF Init
<1>1. TypeOK
  <2>1. NewClient \in Clients /\ NoPackets \in Packets /\ 1 \in 1..(NumModules + 1)
    BY DEF NewClient, Clients, NoPackets, Packets, NoModule
  <2>2. /\ worker \in [Workers -> WorkerStates]
        /\ \A w \in Workers : worker[w] \in Working => current[w] \in Modules
    BY DEF WorkerStates, Working
  <2>3. /\ client \in [Workers -> Clients]
        /\ counted \in [Modules -> Packets]
        /\ wire \in [Modules -> Packets]
        /\ reported \in [Modules -> Packets]
    BY <2>1
  <2>4. /\ current \in [Workers -> Modules \cup {NoModule}]
        /\ socket \in [Workers -> {"none", "connected", "unconnected"}]
        /\ attempt \in [Workers -> Nat] /\ requests \in [Workers -> Nat]
        /\ errors \in [Modules -> Nat] /\ finished \in [Modules -> Nat]
    OBVIOUS
  <2>5. parentDone \in BOOLEAN /\ cancelled \in BOOLEAN
    OBVIOUS
  <2>6. /\ request \in Requests /\ next \in 1..(NumModules + 1)
        /\ dispatcher \in {"select", "wait", "returned"}
        /\ inflight \in Int /\ workerErrors \in Nat
    BY <2>1
  <2> HIDE CollectorAssumption DEF Init
  <2> QED
    BY <2>2, <2>3, <2>4, <2>5, <2>6 DEF TypeOK
<1>2. Accounting
  BY DEF Accounting, Outcomes, Working, Modules
<1>3. Causes
  BY DEF Causes
<1>4. Attribution
  BY DEF Attribution
<1>5. Sockets
  BY DEF Sockets, Working
<1>6. InflightExact
  <2>1. Scraping = {}
    BY DEF Scraping
  <2> QED
    BY <2>1, FS_EmptySet DEF InflightExact, Scraping
<1> QED
  BY <1>1, <1>2, <1>3, <1>4, <1>5, <1>6 DEF IInv

\* IInv is inductive.
LEMMA StepInv == IInv /\ [Next]_vars => IInv'
<1> SUFFICES ASSUME IInv, [Next]_vars PROVE IInv'
  OBVIOUS
<1>1. TypeOK'
  BY TypeStep DEF IInv
<1> QED
  BY <1>1, AccountingStep, CausesStep, AttributionStep, SocketsStep, InflightStep DEF IInv

\* The bookkeeping of dispatcher, workers and answer fits in every state.
THEOREM Invariant == Spec => []IInv
  BY InitInv, StepInv, PTL DEF Spec

\* Every variable has its type, for any number of workers and modules.
THEOREM TypeCorrect == Spec => []TypeOK
  BY Invariant, PTL DEF IInv

\* An answer of 200 is complete unless the client left or the engine ID was
\* malformed, for any pool size, module list and interleaving.
THEOREM Completeness == Spec => []NoSilentPartial
<1>1. IInv => NoSilentPartial
  <2> SUFFICES ASSUME IInv, ResponseOK, ~parentDone, ~BadEngineID, NEW m \in Modules
               PROVE  finished[m] = 1
    BY DEF NoSilentPartial
  <2>1. \A w \in Workers : worker[w] = "done"
    BY DEF IInv, Accounting, ResponseOK
  <2>2. next \notin Modules
    BY <2>1 DEF IInv, Causes, Excuse, ResponseOK
  <2>3. m < next
    BY <2>2, CollectorAssumption DEF IInv, TypeOK, Modules
  <2>4. Outcomes(m) = 1
    BY <2>1, <2>3 DEF IInv, Accounting, Working
  <2> QED
    BY <2>4 DEF ResponseOK, Outcomes, IInv, TypeOK
<1> QED
  BY <1>1, Invariant, PTL

\* No module is scraped twice, and at return the modules handed out are
\* exactly those with an outcome.
THEOREM ExactlyOnce == Spec => []OneOutcomePerModule
<1>1. IInv => OneOutcomePerModule
  <2> SUFFICES ASSUME IInv PROVE OneOutcomePerModule
    OBVIOUS
  <2>1. \A m \in Modules : Outcomes(m) <= 1
    BY DEF IInv, Accounting
  <2>2. dispatcher = "returned" =>
          \A m \in Modules : Outcomes(m) = (IF m < next THEN 1 ELSE 0)
    BY DEF IInv, Accounting, Working
  <2> QED
    BY <2>1, <2>2 DEF IInv, Accounting, OneOutcomePerModule
<1> QED
  BY <1>1, Invariant, PTL

\* The packet metrics of a module count that module's packets, whatever other
\* modules the worker's client served before.
THEOREM Attributed == Spec => []PacketsAttributed
<1>1. IInv => PacketsAttributed
  BY DEF IInv, Attribution, PacketsAttributed
<1> QED
  BY <1>1, Invariant, PTL

\* No request of a module is sent more than 1 + retries times.
THEOREM Budget == Spec => []RetryBudget
<1>1. IInv => RetryBudget
  BY DEF IInv, Sockets, RetryBudget
<1> QED
  BY <1>1, Invariant, PTL

\* A module that needs an unconnected socket is scraped over one.
THEOREM Unconnectedness == Spec => []UnconnectedHonoured
<1>1. IInv => UnconnectedHonoured
  <2> SUFFICES ASSUME IInv, NEW w \in Workers, worker[w] = "scrape", current[w] \in Unconnected
               PROVE  socket[w] = "unconnected"
    BY DEF UnconnectedHonoured
  <2>1. WantsUnconnected
    BY CollectorAssumption DEF WantsUnconnected
  <2> QED
    BY <2>1 DEF IInv, Sockets, Working
<1> QED
  BY <1>1, Invariant, PTL

\* The in-flight gauge is exact in every state.
THEOREM Gauge == Spec => []InflightExact
  BY Invariant, PTL DEF IInv

\* When Collect returns, every goroutine has ended, its socket is closed and
\* the gauge is down.
THEOREM Clean == Spec => []CleanReturn
<1>1. IInv => CleanReturn
  <2> SUFFICES ASSUME IInv, dispatcher = "returned" PROVE CleanReturn
    BY DEF CleanReturn
  <2>1. \A w \in Workers : worker[w] = "done"
    BY DEF IInv, Accounting
  <2>2. Scraping = {}
    BY <2>1 DEF Scraping
  <2>3. inflight = 0
    BY <2>2, FS_EmptySet DEF IInv, InflightExact, Scraping
  <2> QED
    BY <2>1, <2>3 DEF CleanReturn, IInv, Sockets, Working
<1> QED
  BY <1>1, Invariant, PTL

-----------------------------------------------------------------------------
(* Collector implements ScrapeRequest.                                        *)

\* The five variables of ScrapeRequest, read off a state of Collector.
StatusMap == [m \in Modules |-> Status(m)]
Failed == workerErrors > 0 \/ \E m \in Modules : errors[m] > 0
Excused == parentDone \/ BadEngineID
Returned == dispatcher = "returned"
Mapped == <<StatusMap, ContextDone, Excused, Failed, Returned>>

-----------------------------------------------------------------------------
(* What the accounting says of a module's status                              *)

\* The module of a busy worker is running.
LEMMA BusyIsRunning ==
  ASSUME TypeOK, Accounting, NEW w \in Workers, worker[w] \in Working
  PROVE  Status(current[w]) = "running"
<1>1. /\ current[w] \in Modules /\ current[w] < next
      /\ errors[current[w]] + finished[current[w]] = 0
  BY DEF Accounting, Outcomes
<1>2. errors[current[w]] = 0 /\ finished[current[w]] = 0
  BY <1>1 DEF TypeOK
<1> QED
  BY <1>1, <1>2 DEF Status

\* A module the dispatcher has not reached is pending for as long as it may
\* still be offered, and skipped from then on.
LEMMA UnreachedStatus ==
  ASSUME TypeOK, Accounting, NEW m \in Modules, m >= next
  PROVE  Status(m) = IF dispatcher = "select" THEN "pending" ELSE "skipped"
<1>1. errors[m] + finished[m] = 0 /\ ~(m < next)
  BY CollectorAssumption DEF Accounting, Outcomes, TypeOK, Modules
<1>2. errors[m] = 0 /\ finished[m] = 0
  BY <1>1 DEF TypeOK
<1> QED
  BY <1>1, <1>2 DEF Status

\* A module the dispatcher handed out is running or has ended.
LEMMA ReachedStatus ==
  ASSUME TypeOK, Accounting, NEW m \in Modules, m < next
  PROVE  Status(m) \in {"running", "complete", "failed"}
<1>1. errors[m] \in Nat /\ finished[m] \in Nat
  BY DEF TypeOK
<1> QED
  BY <1>1 DEF Status

\* A step that changes no outcome, offers no module and leaves the dispatcher
\* in or out of its loop changes no status.
LEMMA StatusFrame ==
  ASSUME UNCHANGED <<next, errors, finished>>,
         dispatcher' = "select" <=> dispatcher = "select"
  PROVE  UNCHANGED StatusMap
<1>1. ASSUME NEW m \in Modules PROVE Status(m)' = Status(m)
  BY DEF Status
<1> QED
  BY <1>1 DEF StatusMap
-----------------------------------------------------------------------------
(* Every step is a step of ScrapeRequest, or none                             *)

\* A module handed to a ranging worker starts: all the modules before it have
\* started, and none was skipped.
LEMMA DispatchStarts ==
  ASSUME IInv, NEW w \in Workers, Dispatch(w)
  PROVE  \E m \in Abstract!Modules : Abstract!Start(m)
<1> USE DEF IInv
<1> PICK n \in Modules : n = next
  BY DEF Dispatch, ModulesLeft
<1>1. /\ next = n /\ next' = n + 1 /\ dispatcher = "select" /\ dispatcher' = dispatcher
      /\ errors' = errors /\ finished' = finished
  BY DEF Dispatch, ModulesLeft, NextModule, outcome
<1>2. Status(n) = "pending" /\ Status(n)' = "running"
  <2>1. Status(n) = "pending"
    BY <1>1, UnreachedStatus, CollectorAssumption DEF Modules
  <2> QED
    BY <1>1, <2>1, CollectorAssumption DEF Status, Modules
<1>3. \A k \in Modules : k < n => Status(k) \notin {"pending", "skipped"}
  BY <1>1, ReachedStatus
<1>4. ASSUME NEW k \in Modules, k # n
      PROVE  Status(k)' = Status(k)
  <2>1. k < n + 1 <=> k < n
    BY <1>1, <1>4, CollectorAssumption DEF Modules
  <2> QED
    BY <1>1, <2>1 DEF Status
<1>5. StatusMap' = [StatusMap EXCEPT ![n] = "running"]
  BY <1>1, <1>2, <1>4 DEF StatusMap
<1>6. UNCHANGED <<ContextDone, Excused, Failed, Returned>>
  BY <1>1 DEF Dispatch, shared, outcome, ContextDone, Excused, BadEngineID, Failed, Returned
<1> QED
  BY <1>1, <1>2, <1>3, <1>5, <1>6
  DEF Abstract!Start, Abstract!Set, Abstract!Modules, StatusMap, Excused, Failed, Returned, Modules

\* An error of a scrape fails its module.
LEMMA ScrapeErrorFails ==
  ASSUME IInv, NEW w \in Workers, ScrapeFails(w)
  PROVE  \E m \in Abstract!Modules : Abstract!Fail(m)
<1> USE DEF IInv
<1> PICK c \in Modules : c = current[w]
  BY DEF ScrapeFails, Working, TypeOK
<1>1. /\ worker[w] \in Working /\ c = current[w] /\ errors' = [errors EXCEPT ![c] = @ + 1]
      /\ finished' = finished /\ next' = next /\ dispatcher' = dispatcher
      /\ workerErrors' = workerErrors
  BY DEF ScrapeFails, Working, TypeOK
<1>2. Status(c) = "running"
  BY <1>1, BusyIsRunning
<1>3. errors \in [Modules -> Nat] /\ finished \in [Modules -> Nat]
  BY DEF TypeOK
<1>4. Status(c)' = "failed" /\ Failed'
  BY <1>1, <1>2, <1>3 DEF Status, Failed
<1>5. \A k \in Modules \ {c} : Status(k)' = Status(k)
  BY <1>1, <1>3 DEF Status
<1>6. StatusMap' = [StatusMap EXCEPT ![c] = "failed"]
  BY <1>1, <1>4, <1>5 DEF StatusMap
<1>7. UNCHANGED <<ContextDone, Excused, Returned>>
  BY <1>1 DEF ScrapeFails, shared, ContextDone, Excused, BadEngineID, Returned
<1> QED
  BY <1>1, <1>2, <1>4, <1>6, <1>7
  DEF Abstract!Fail, Abstract!Set, Abstract!Modules, StatusMap, Excused, Failed, Returned, Modules

\* The samples of a module complete it.
LEMMA SamplesComplete ==
  ASSUME IInv, NEW w \in Workers, SendSamples(w)
  PROVE  \E m \in Abstract!Modules : Abstract!Complete(m)
<1> USE DEF IInv
<1> PICK c \in Modules : c = current[w]
  BY DEF SendSamples, Working, TypeOK
<1>1. /\ worker[w] \in Working /\ c = current[w] /\ finished' = [finished EXCEPT ![c] = @ + 1]
      /\ errors' = errors /\ next' = next /\ dispatcher' = dispatcher
      /\ workerErrors' = workerErrors
  BY DEF SendSamples, Working, TypeOK
<1>2. Status(c) = "running"
  BY <1>1, BusyIsRunning
<1>3. errors \in [Modules -> Nat] /\ finished \in [Modules -> Nat]
  BY DEF TypeOK
<1>4. Status(c)' = "complete"
  BY <1>1, <1>3 DEF Status
<1>5. \A k \in Modules \ {c} : Status(k)' = Status(k)
  BY <1>1, <1>3 DEF Status
<1>6. StatusMap' = [StatusMap EXCEPT ![c] = "complete"]
  BY <1>1, <1>4, <1>5 DEF StatusMap
<1>7. UNCHANGED <<ContextDone, Excused, Failed, Returned>>
  BY <1>1 DEF SendSamples, shared, ContextDone, Excused, BadEngineID, Failed, Returned
<1> QED
  BY <1>1, <1>2, <1>6, <1>7
  DEF Abstract!Complete, Abstract!Set, Abstract!Modules, StatusMap, Excused, Failed, Returned, Modules

\* Leaving the dispatcher's loop skips every module not offered yet.
LEMMA StopSkips ==
  ASSUME IInv, StopDispatch
  PROVE  Abstract!SkipRest
<1> USE DEF IInv
<1>1. /\ next \in Modules /\ ContextDone /\ dispatcher = "select" /\ dispatcher' = "wait"
      /\ UNCHANGED <<next, errors, finished, workerErrors>>
  BY DEF StopDispatch, ModulesLeft, outcome
<1>2. Status(next) = "pending"
  BY <1>1, UnreachedStatus, CollectorAssumption DEF Modules
<1>3. ASSUME NEW m \in Modules
      PROVE  Status(m)' = IF Status(m) = "pending" THEN "skipped" ELSE Status(m)
  BY <1>1 DEF Status
<1>4. StatusMap' = [m \in Modules |-> IF StatusMap[m] = "pending" THEN "skipped" ELSE StatusMap[m]]
  BY <1>3 DEF StatusMap
<1>5. UNCHANGED <<ContextDone, Excused, Failed, Returned>>
  BY <1>1 DEF StopDispatch, shared, ContextDone, Excused, BadEngineID, Failed, Returned
<1> QED
  BY <1>1, <1>2, <1>4, <1>5
  DEF Abstract!SkipRest, Abstract!Modules, StatusMap, Excused, Failed, Returned, Modules

\* When Collect returns every module has ended, and what is missing is a
\* failure or excused.
LEMMA ReturnReturns ==
  ASSUME IInv, Return
  PROVE  Abstract!Return
<1> USE DEF IInv
<1>1. /\ dispatcher = "wait" /\ dispatcher' = "returned" /\ ContextDone'
      /\ UNCHANGED <<next, errors, finished, workerErrors>>
      /\ \A w \in Workers : worker[w] = "done"
  BY DEF Return, WorkersDone, ContextDone, outcome
<1>2. errors \in [Modules -> Nat] /\ finished \in [Modules -> Nat] /\ next \in 1..(NumModules + 1)
  BY DEF TypeOK
<1>3. ASSUME NEW m \in Modules, m < next
      PROVE  Status(m) = "complete" \/ (Status(m) = "failed" /\ Failed)
  <2>1. errors[m] + finished[m] = 1
    BY <1>1, <1>3 DEF Accounting, Outcomes, Working
  <2> QED
    BY <1>2, <2>1 DEF Status, Failed
<1>4. ASSUME NEW m \in Modules, ~(m < next)
      PROVE  Status(m) = "skipped" /\ (Failed \/ Excused)
  <2>1. Status(m) = "skipped"
    BY <1>1, <1>2, <1>4, UnreachedStatus, CollectorAssumption DEF Modules
  <2>2. next \in Modules
    BY <1>2, <1>4, CollectorAssumption DEF Modules
  <2>3. Excuse
    BY <1>1, <2>2 DEF Causes
  <2> QED
    BY <1>1, <2>1, <2>3 DEF Excuse, Excused, Failed
<1>5. StatusMap' = StatusMap
  BY <1>1, StatusFrame
<1>6. UNCHANGED <<Excused, Failed>>
  BY <1>1 DEF Return, Excused, BadEngineID, Failed
<1>7. \A m \in Modules : StatusMap[m] \in {"complete", "failed", "skipped"}
  BY <1>3, <1>4 DEF StatusMap
<1>8. Failed \/ Excused \/ \A m \in Modules : StatusMap[m] = "complete"
  BY <1>3, <1>4 DEF StatusMap
<1> QED
  BY <1>1, <1>5, <1>6, <1>7, <1>8
  DEF Abstract!Return, Abstract!Modules, StatusMap, Excused, Failed, Returned, Modules

\* Leaving the loop when no module is left skips none.
LEMMA FinishIsSilent ==
  ASSUME IInv, FinishDispatch
  PROVE  UNCHANGED Abstract!vars
<1>1. /\ next \notin Modules /\ dispatcher = "select" /\ dispatcher' = "wait"
      /\ UNCHANGED <<next, errors, finished, workerErrors>>
  BY DEF FinishDispatch, ModulesLeft, outcome
<1>2. ASSUME NEW m \in Modules PROVE Status(m)' = Status(m)
  <2>1. m < next
    BY <1>1, CollectorAssumption DEF IInv, TypeOK, Modules
  <2> QED
    BY <1>1, <2>1 DEF Status
<1>3. UNCHANGED <<ContextDone, Excused, Failed, Returned>>
  BY <1>1 DEF FinishDispatch, shared, ContextDone, Excused, BadEngineID, Failed, Returned
<1> QED
  BY <1>2, <1>3 DEF Abstract!vars, Excused, Failed, Returned

\* A step before Collect returned that changes no status and counts no error of
\* a module is an abort, an error that belongs to no module, or nothing a
\* request can see.
LEMMA RequestFrame ==
  ASSUME UNCHANGED <<next, dispatcher, errors, finished, request>>,
         \/ UNCHANGED <<parentDone, cancelled, workerErrors>>
         \/ /\ dispatcher # "returned"
            /\ UNCHANGED <<parentDone, cancelled>> /\ Failed'
         \/ /\ dispatcher # "returned"
            /\ parentDone' \in {parentDone, TRUE} /\ ContextDone'
            /\ UNCHANGED workerErrors
  PROVE  [Abstract!Next]_(Abstract!vars)
<1>1. UNCHANGED <<StatusMap, Returned>>
  BY StatusFrame DEF Returned
<1>2. CASE UNCHANGED <<parentDone, cancelled, workerErrors>>
  <2>1. UNCHANGED <<ContextDone, Excused, Failed>>
    BY <1>2 DEF ContextDone, Excused, BadEngineID, Failed
  <2> QED
    BY <1>1, <2>1 DEF Abstract!vars, StatusMap, Excused, Failed, Returned
<1>3. CASE dispatcher # "returned" /\ UNCHANGED <<parentDone, cancelled>> /\ Failed'
  <2>1. UNCHANGED <<ContextDone, Excused>> /\ ~Returned
    BY <1>3 DEF ContextDone, Excused, BadEngineID, Returned
  <2>2. Abstract!FailAll
    BY <1>1, <1>3, <2>1 DEF Abstract!FailAll, StatusMap, Excused, Failed, Returned
  <2> QED
    BY <2>2 DEF Abstract!Next
<1>4. CASE /\ dispatcher # "returned"
           /\ parentDone' \in {parentDone, TRUE} /\ ContextDone'
           /\ UNCHANGED workerErrors
  <2>1. UNCHANGED Failed /\ ~Returned
    BY <1>4 DEF Failed, Returned
  <2>2. Excused' = Excused \/ Excused' = TRUE
    <3>1. BadEngineID' = BadEngineID
      BY DEF BadEngineID
    <3>2. CASE parentDone' = parentDone
      BY <3>1, <3>2 DEF Excused
    <3>3. CASE parentDone' = TRUE
      BY <3>3, Zenon DEF Excused
    <3> QED
      BY <1>4, <3>2, <3>3
  <2>3. Abstract!Abort
    BY <1>1, <1>4, <2>1, <2>2 DEF Abstract!Abort, StatusMap, Excused, Failed, Returned
  <2> QED
    BY <2>3 DEF Abstract!Next
<1> QED
  BY <1>2, <1>3, <1>4

\* Every step of dispatcher, workers and HTTP client is one step of the
\* request, or none.
LEMMA RequestStep == IInv /\ [Next]_vars => [Abstract!Next]_(Abstract!vars)
<1> SUFFICES ASSUME IInv, [Next]_vars PROVE [Abstract!Next]_(Abstract!vars)
  OBVIOUS
<1> USE DEF shared, outcome, exchange
<1>0. ASSUME NEW w \in Workers, worker[w] # "done" PROVE dispatcher # "returned"
  BY <1>0 DEF IInv, Accounting
<1>1. ASSUME NEW w \in Workers, CreateClient(w) PROVE [Abstract!Next]_(Abstract!vars)
  BY <1>1, <1>0, RequestFrame DEF CreateClient, ContextDone
<1>2. ASSUME NEW w \in Workers, SendInitError(w) PROVE [Abstract!Next]_(Abstract!vars)
  BY <1>2, <1>0, RequestFrame DEF SendInitError, SendWorkerError, Failed, IInv, TypeOK
<1>3. ASSUME NEW w \in Workers, RejectEngineID(w) PROVE [Abstract!Next]_(Abstract!vars)
  BY <1>3, <1>0, RequestFrame DEF RejectEngineID, ContextDone
<1>4. ASSUME NEW w \in Workers, Configure(w) PROVE [Abstract!Next]_(Abstract!vars)
  BY <1>4, RequestFrame DEF Configure
<1>5. ASSUME NEW w \in Workers, Connect(w) PROVE [Abstract!Next]_(Abstract!vars)
  BY <1>5, RequestFrame DEF Connect
<1>6. ASSUME NEW w \in Workers, ConnectFails(w) PROVE [Abstract!Next]_(Abstract!vars)
  BY <1>6, <1>0, RequestFrame DEF ConnectFails, SendWorkerError, Failed, IInv, TypeOK
<1>7. ASSUME NEW w \in Workers, CancelAfterConnectError(w) PROVE [Abstract!Next]_(Abstract!vars)
  BY <1>7, <1>0, RequestFrame DEF CancelAfterConnectError, ContextDone
<1>8. ASSUME NEW w \in Workers, BeginScrape(w) PROVE [Abstract!Next]_(Abstract!vars)
  BY <1>8, RequestFrame DEF BeginScrape
<1>9. ASSUME NEW w \in Workers, SendRequest(w) PROVE [Abstract!Next]_(Abstract!vars)
  BY <1>9, RequestFrame DEF SendRequest
<1>10. ASSUME NEW w \in Workers, Retry(w) PROVE [Abstract!Next]_(Abstract!vars)
  BY <1>10, RequestFrame DEF Retry
<1>11. ASSUME NEW w \in Workers, RequestOver(w) PROVE [Abstract!Next]_(Abstract!vars)
  BY <1>11, RequestFrame DEF RequestOver
<1>12. ASSUME NEW w \in Workers, ScrapeSucceeds(w) PROVE [Abstract!Next]_(Abstract!vars)
  BY <1>12, RequestFrame DEF ScrapeSucceeds
<1>13. ASSUME NEW w \in Workers, ScrapeFails(w) PROVE [Abstract!Next]_(Abstract!vars)
  BY <1>13, ScrapeErrorFails DEF Abstract!Next
<1>14. ASSUME NEW w \in Workers, SendSamples(w) PROVE [Abstract!Next]_(Abstract!vars)
  BY <1>14, SamplesComplete DEF Abstract!Next
<1>15. ASSUME NEW w \in Workers, Exit(w) PROVE [Abstract!Next]_(Abstract!vars)
  BY <1>15, RequestFrame DEF Exit
<1>16. ASSUME NEW w \in Workers, Dispatch(w) PROVE [Abstract!Next]_(Abstract!vars)
  BY <1>16, DispatchStarts DEF Abstract!Next
<1>17. CASE StopDispatch
  BY <1>17, StopSkips DEF Abstract!Next
<1>18. CASE FinishDispatch
  BY <1>18, FinishIsSilent
<1>19. CASE Return
  BY <1>19, ReturnReturns DEF Abstract!Next
<1>20. CASE ClientGone
  BY <1>20, RequestFrame DEF ClientGone, ContextDone
<1>21. CASE Terminated
  BY <1>21, RequestFrame DEF Terminated, vars
<1>22. CASE UNCHANGED vars
  BY <1>22, RequestFrame DEF vars
<1>. QED
  BY <1>1, <1>2, <1>3, <1>4, <1>5, <1>6, <1>7, <1>8, <1>9, <1>10, <1>11,
     <1>12, <1>13, <1>14, <1>15, <1>16, <1>17, <1>18, <1>19, <1>20, <1>21,
     <1>22
  DEF Next, WorkerStep, DispatcherStep

\* Collect (collector.go:378-468) implements the request of a scrape: whatever
\* the workers do and in whatever order, the modules start in order, each ends
\* once, and none goes missing behind a success.
THEOREM Implements == Spec => ImplementsScrapeRequest
<1>1. Init => Abstract!Init
  <2> SUFFICES ASSUME Init PROVE Abstract!Init
    OBVIOUS
  <2>1. ASSUME NEW m \in Modules PROVE Status(m) = "pending"
    BY CollectorAssumption DEF Init, Status, Modules
  <2>2. ~ContextDone /\ ~Failed /\ ~Returned /\ Excused \in BOOLEAN
    BY DEF Init, ContextDone, Failed, Returned, Excused, BadEngineID
  <2> QED
    BY <2>1, <2>2 DEF Abstract!Init, Abstract!Modules, Modules, Excused, Failed, Returned
<1> QED
  BY <1>1, RequestStep, Invariant, PTL DEF Spec, ImplementsScrapeRequest, Abstract!Spec
=============================================================================
