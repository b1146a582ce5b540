------------------------------ MODULE SafeConfig ------------------------------
(* The configuration of the running exporter (main.go): startup, the reload    *)
(* goroutine with its two channels, the handlers of /-/reload, the handlers of *)
(* /snmp and /config that read the configuration under the read lock, and the  *)
(* operator who edits the files meanwhile.  The configuration is given in two  *)
(* files, as in README.md: one with the auths, one with the modules.           *)
EXTENDS Integers, Sequences, FiniteSets, SequencesExt

CONSTANTS
  Readers,  \* goroutines that serve /snmp and /config
  Posters,  \* goroutines that serve POST /-/reload
  MaxEdits, \* bound: edits of the files after the start
  MaxModules \* bound: modules one /snmp request names

Parts == {"auths", "modules"}
\* The order of the --config.file arguments.
FileOrder == <<"auths", "modules">>
\* A file that parses, one that does not, and a pattern that matches no file.
Kinds == {"good", "bad", "absent"}
Contents == [edit: Nat, kind: Kinds]
Configs == [Parts -> [edit: Nat, kind: {"good", "absent"}]]
Absent == [edit |-> 0, kind |-> "absent"]
NoConfig == [p \in Parts |-> Absent]

ASSUME SafeConfigAssumption ==
  /\ IsFiniteSet(Readers) /\ IsFiniteSet(Posters)
  /\ MaxEdits \in Nat /\ MaxModules \in Nat \ {0}
  /\ "boot" \notin Posters /\ "hup" \notin Posters

VARIABLES
  disk,     \* what each file holds now
  edits,    \* edits made so far
  process,  \* "starting", "serving" or "exited"
  C,        \* sc.C
  loader,   \* the goroutine that runs ReloadConfig: where it is
  cause,    \* what it runs for: "boot", "hup" or a poster
  toRead,   \* files LoadFile has not read yet
  conf,     \* the configuration LoadFile builds
  failed,   \* LoadFile returned an error
  writer,   \* of sc.mu: "none", "waiting" or "holding"
  rlocked,  \* readers that hold sc.mu
  reader,   \* where each reading handler is
  named,    \* modules each /snmp request still has to look up
  view,     \* configurations each reader has seen in this request
  hup,      \* signals in the channel, whose capacity is 1
  post,     \* where each handler of /-/reload is
  posted,   \* history: the last edit of each file when each POST arrived
  signalled, \* history: edits made when the last SIGHUP arrived
  attempted \* history: edits made when the last load began
vars == <<disk, edits, process, C, loader, cause, toRead, conf, failed, writer, rlocked,
          reader, named, view, hup, post, posted, signalled, attempted>>

operator == <<disk, edits>>
loading  == <<loader, cause, toRead, conf, failed>>
reading  == <<rlocked, reader, named, view>>
posting  == <<post, posted>>

Holding == {"auth", "module", "config"}
LoaderStates == {"select", "read", "lock", "unlock", "check", "reply", "stopped"}

TypeOK ==
  /\ disk \in [Parts -> Contents]
  /\ edits \in Nat
  /\ process \in {"starting", "serving", "exited"}
  /\ C \in Configs
  /\ loader \in LoaderStates
  /\ cause \in {"boot", "hup"} \cup Posters
  /\ toRead \in Seq(Parts)
  /\ conf \in Configs
  /\ failed \in BOOLEAN
  /\ writer \in {"none", "waiting", "holding"}
  /\ rlocked \subseteq Readers
  /\ reader \in [Readers -> {"idle", "rlock", "rlockConfig", "scrape"} \cup Holding]
  /\ named \in [Readers -> 0..MaxModules]
  /\ view \in [Readers -> SUBSET Configs]
  /\ hup \in 0..1
  /\ post \in [Posters -> {"idle", "offer", "waiting", "ok", "failed"}]
  /\ posted \in [Posters -> [Parts -> Nat]]
  /\ signalled \in Nat
  /\ attempted \in Nat

Init ==
  /\ disk \in [Parts -> [edit: {0}, kind: Kinds]]
  /\ edits = 0
  /\ process = "starting"
  /\ C = NoConfig
  /\ loader = "read"
  /\ cause = "boot"
  /\ toRead = FileOrder
  /\ conf = NoConfig
  /\ failed = FALSE
  /\ writer = "none"
  /\ rlocked = {}
  /\ reader = [r \in Readers |-> "idle"]
  /\ named = [r \in Readers |-> 0]
  /\ view = [r \in Readers |-> {}]
  /\ hup = 0
  /\ post = [p \in Posters |-> "idle"]
  /\ posted = [p \in Posters |-> [q \in Parts |-> 0]]
  /\ signalled = 0
  /\ attempted = 0

\* The operator edits, breaks or removes a file.
Edit ==
  /\ process # "exited"
  /\ edits < MaxEdits
  /\ edits' = edits + 1
  /\ \E p \in Parts, k \in Kinds : disk' = [disk EXCEPT ![p] = [edit |-> edits', kind |-> k]]
  /\ UNCHANGED <<process, C, loading, writer, reading, hup, posting, signalled, attempted>>

-----------------------------------------------------------------------------
(* ReloadConfig, as run by main and by the reload goroutine                   *)

\* Where the caller of ReloadConfig goes on when it returns.
AfterLoad ==
  CASE cause = "boot" -> "check" [] cause = "hup" -> "select" [] OTHER -> "reply"

\* LoadFile reads one file after the other, with nothing locked; a pattern
\* without a match is only logged.
ReadFile ==
  /\ loader = "read"
  /\ toRead # <<>>
  /\ disk[Head(toRead)].kind # "bad"
  /\ conf' = [conf EXCEPT ![Head(toRead)] = disk[Head(toRead)]]
  /\ toRead' = Tail(toRead)
  /\ UNCHANGED <<operator, process, C, loader, cause, failed, writer, reading, hup,
                 posting, signalled, attempted>>

\* Mutant: what was read before the error is installed.
LoadFailsInstalled ==
  /\ loader = "read"
  /\ toRead # <<>>
  /\ disk[Head(toRead)].kind = "bad"
  /\ failed' = TRUE
  /\ C' = conf
  /\ loader' = AfterLoad
  /\ UNCHANGED <<operator, process, cause, toRead, conf, writer, reading, hup, posting,
                 signalled, attempted>>
\* An error of LoadFile leaves sc.C as it was.
LoadFails ==
  /\ loader = "read"
  /\ toRead # <<>>
  /\ disk[Head(toRead)].kind = "bad"
  /\ failed' = TRUE
  /\ loader' = AfterLoad
  /\ UNCHANGED <<operator, process, C, cause, toRead, conf, writer, reading, hup, posting,
                 signalled, attempted>>

\* sc.mu.Lock() keeps new readers out from now on ...
Lock ==
  /\ loader = "read"
  /\ toRead = <<>>
  /\ loader' = "lock"
  /\ writer' = "waiting"
  /\ UNCHANGED <<operator, process, C, cause, toRead, conf, failed, reading, hup, posting,
                 signalled, attempted>>

\* Mutant: a write lock that does not wait for the readers.
NoReaders == TRUE
\* ... and returns when those that hold the lock have left.
ReadersGone == rlocked = {}

Install ==
  /\ loader = "lock"
  /\ ReadersGone
  /\ writer' = "holding"
  /\ C' = conf
  /\ loader' = "unlock"
  /\ UNCHANGED <<operator, process, cause, toRead, conf, failed, reading, hup, posting,
                 signalled, attempted>>

\* The duration metric of every module is initialised, then sc.mu.Unlock().
Unlock ==
  /\ loader = "unlock"
  /\ writer' = "none"
  /\ loader' = AfterLoad
  /\ UNCHANGED <<operator, process, C, cause, toRead, conf, failed, reading, hup, posting,
                 signalled, attempted>>

-----------------------------------------------------------------------------
(* main, until it serves                                                      *)

Lacks(p) == C[p].kind = "absent"

Exit ==
  /\ process' = "exited"
  /\ loader' = "stopped"

\* os.Exit(1) unless the first load gave modules and auths.
BootOK == ~failed /\ \A p \in Parts : ~Lacks(p)

Serve ==
  /\ process = "starting" /\ loader = "check"
  /\ BootOK
  /\ process' = "serving"
  /\ loader' = "select"
  /\ UNCHANGED <<operator, C, cause, toRead, conf, failed, writer, reading, hup,
                 posting, signalled, attempted>>

\* The same place with a bad or incomplete configuration, or with --dry-run.
BootExit ==
  /\ process = "starting" /\ loader = "check"
  /\ Exit
  /\ UNCHANGED <<operator, C, cause, toRead, conf, failed, writer, reading, hup,
                 posting, signalled, attempted>>

-----------------------------------------------------------------------------
(* The reload goroutine and its two channels                                  *)

StartLoad(c) ==
  /\ loader' = "read"
  /\ cause' = c
  /\ toRead' = FileOrder
  /\ conf' = NoConfig
  /\ failed' = FALSE
  /\ attempted' = edits

\* Mutant: a SIGHUP is dropped while the goroutine is busy.
SighupUnbuffered ==
  /\ process = "serving"
  /\ hup' = IF loader = "select" THEN 1 ELSE hup
  /\ signalled' = edits
  /\ UNCHANGED <<operator, process, C, loading, writer, reading, posting, attempted>>
\* signal.Notify never blocks: a signal is dropped when one is in the channel.
Sighup ==
  /\ process = "serving"
  /\ hup' = 1
  /\ signalled' = edits
  /\ UNCHANGED <<operator, process, C, loading, writer, reading, posting, attempted>>

\* Before signal.Notify a SIGHUP has its default effect.
EarlySighup ==
  /\ process = "starting"
  /\ Exit
  /\ UNCHANGED <<operator, C, cause, toRead, conf, failed, writer, reading, hup,
                 posting, signalled, attempted>>

TakeHup ==
  /\ loader = "select"
  /\ hup = 1
  /\ hup' = 0
  /\ StartLoad("hup")
  /\ UNCHANGED <<operator, process, C, writer, reading, posting, signalled>>

\* POST /-/reload: the handler offers a reply channel.
Post(p) ==
  /\ process = "serving"
  /\ post[p] = "idle"
  /\ post' = [post EXCEPT ![p] = "offer"]
  /\ posted' = [posted EXCEPT ![p] = [q \in Parts |-> disk[q].edit]]
  /\ UNCHANGED <<operator, process, C, loading, writer, reading, hup, signalled, attempted>>

\* Mutant: a handler that finds a load in progress shares its reply.
TakeLatePost(p) ==
  /\ loader \in {"select", "reply"}
  /\ post[p] = "offer"
  /\ post' = [post EXCEPT ![p] = "waiting"]
  /\ IF loader = "select"
       THEN StartLoad(p)
       ELSE cause' = p /\ UNCHANGED <<loader, toRead, conf, failed, attempted>>
  /\ UNCHANGED <<operator, process, C, writer, reading, hup, posted, signalled>>
\* rc := <-reloadCh
TakePost(p) ==
  /\ loader = "select"
  /\ post[p] = "offer"
  /\ post' = [post EXCEPT ![p] = "waiting"]
  /\ StartLoad(p)
  /\ UNCHANGED <<operator, process, C, writer, reading, hup, posted, signalled>>

\* rc <- err or rc <- nil: the handler is there to take it.
Reply(p) ==
  /\ loader = "reply"
  /\ cause = p
  /\ post[p] = "waiting"
  /\ post' = [post EXCEPT ![p] = IF failed THEN "failed" ELSE "ok"]
  /\ loader' = "select"
  /\ UNCHANGED <<operator, process, C, cause, toRead, conf, failed, writer, reading, hup,
                 posted, signalled, attempted>>

Answered(p) ==
  /\ post[p] \in {"ok", "failed"}
  /\ post' = [post EXCEPT ![p] = "idle"]
  /\ UNCHANGED <<operator, process, C, loading, writer, reading, hup, posted,
                 signalled, attempted>>

-----------------------------------------------------------------------------
(* The handlers of /snmp and /config                                          *)

others == <<operator, process, C, loading, writer, hup, posting, signalled, attempted>>
RUnlock(r) == rlocked' = rlocked \ {r}
Step(r, s) == reader' = [reader EXCEPT ![r] = s]
See(r) == view' = [view EXCEPT ![r] = @ \cup {C}]

\* The parameters are in order; up to MaxModules modules are named.
Request(r) ==
  /\ process = "serving"
  /\ reader[r] = "idle"
  /\ \E s \in {"rlock", "rlockConfig"} : Step(r, s)
  /\ \E n \in 1..MaxModules : named' = [named EXCEPT ![r] = n]
  /\ UNCHANGED <<rlocked, view, others>>

\* A waiting writer keeps new readers out.
RLock(r) ==
  /\ writer = "none"
  /\ \/ reader[r] = "rlock" /\ Step(r, "auth")
     \/ reader[r] = "rlockConfig" /\ Step(r, "config")
  /\ rlocked' = rlocked \cup {r}
  /\ UNCHANGED <<named, view, others>>

LookupAuth(r) ==
  /\ reader[r] = "auth"
  /\ ~Lacks("auths")
  /\ Step(r, "module")
  /\ See(r)
  /\ UNCHANGED <<rlocked, named, others>>

\* Mutant: one lookup too many.
MoreModulesOrOne(r) == named[r] >= 0
MoreModules(r) == named[r] > 0

LookupModule(r) ==
  /\ reader[r] = "module"
  /\ MoreModules(r)
  /\ ~Lacks("modules")
  /\ named' = [named EXCEPT ![r] = @ - 1]
  /\ See(r)
  /\ UNCHANGED <<rlocked, reader, others>>

\* RUnlock, and the scrape works on with what was looked up.
EndLookup(r) ==
  /\ reader[r] = "module"
  /\ ~MoreModules(r)
  /\ Step(r, "scrape")
  /\ RUnlock(r)
  /\ UNCHANGED <<named, view, others>>

Forget(r) ==
  /\ Step(r, "idle")
  /\ named' = [named EXCEPT ![r] = 0]
  /\ view' = [view EXCEPT ![r] = {}]

LookingUp(r) ==
  \/ reader[r] = "auth"
  \/ reader[r] = "module" /\ MoreModules(r)
\* Mutant: the early returns forget RUnlock.
RejectLocked(r) ==
  /\ LookingUp(r)
  /\ Forget(r)
  /\ UNCHANGED <<rlocked, others>>
\* Unknown auth or unknown module: RUnlock, and 400.
Reject(r) ==
  /\ LookingUp(r)
  /\ Forget(r)
  /\ RUnlock(r)
  /\ UNCHANGED others

\* yaml.Marshal under the lock, RUnlock, and the answer.
Marshal(r) ==
  /\ reader[r] = "config"
  /\ Step(r, "scrape")
  /\ See(r)
  /\ RUnlock(r)
  /\ UNCHANGED <<named, others>>

\* The request is answered.
Finish(r) ==
  /\ reader[r] = "scrape"
  /\ Forget(r)
  /\ UNCHANGED <<rlocked, others>>

-----------------------------------------------------------------------------
Exited == process = "exited" /\ UNCHANGED vars

LoaderStep == ReadFile \/ LoadFails \/ Lock \/ Install \/ Unlock \/ Serve \/ BootExit
ReaderStep(r) ==
  \/ LookupAuth(r) \/ LookupModule(r) \/ EndLookup(r) \/ Reject(r)
  \/ Marshal(r) \/ Finish(r)
Next ==
  \/ Edit \/ Sighup \/ EarlySighup
  \/ LoaderStep \/ TakeHup
  \/ \E p \in Posters : Post(p) \/ TakePost(p) \/ Reply(p) \/ Answered(p)
  \/ \E r \in Readers : Request(r) \/ RLock(r) \/ ReaderStep(r)
  \/ Exited

Spec == Init /\ [][Next]_vars
\* Goroutines run; select picks among ready cases at random, blocked senders and
\* blocked readers are served in turn, so none is passed over forever.
Fairness ==
  /\ WF_vars(LoaderStep)
  /\ SF_vars(TakeHup)
  /\ \A p \in Posters : SF_vars(TakePost(p)) /\ WF_vars(Reply(p))
  /\ \A r \in Readers : SF_vars(RLock(r)) /\ WF_vars(ReaderStep(r))
FairSpec == Spec /\ Fairness

-----------------------------------------------------------------------------
(* Properties                                                                 *)

\* A request never mixes two configurations, though it looks up the auth and
\* every module one by one while reloads are under way.
SnapshotConsistent == \A r \in Readers : \A c, d \in view[r] : c = d

\* A POST that was answered OK means that whatever was on disk when it arrived,
\* or something newer, is being served, also when the POST came in the middle of
\* another reload.
ReloadIsFresh ==
  \A p \in Posters, q \in Parts : post[p] = "ok" => C[q].edit >= posted[p][q]

\* A SIGHUP is followed by a load that begins after it, even when it arrives
\* during another load or together with others.
SighupHonoured == \A n \in 1..MaxEdits : signalled >= n ~> attempted >= n

\* No handler is left waiting: every POST to /-/reload is answered, although one
\* goroutine serves them all, and every /snmp and /config request gets past the
\* lock, although each way out of the handler has an RUnlock of its own.
HandlersReturn ==
  /\ \A p \in Posters : post[p] = "offer" ~> post[p] \in {"ok", "failed"}
  /\ \A r \in Readers : reader[r] \in {"rlock", "rlockConfig"} ~> reader[r] \in {"scrape", "idle"}

(* The inductive invariant behind the first two properties                    *)

\* Where the lock is follows from where the handlers and the loader are.
Locking ==
  /\ rlocked = {r \in Readers : reader[r] \in Holding}
  /\ process # "exited" =>
       writer = (CASE loader = "lock" -> "waiting" [] loader = "unlock" -> "holding"
                   [] OTHER -> "none")
  /\ writer = "holding" => rlocked = {}

\* A reader that holds the lock has seen nothing but the current configuration.
Viewing ==
  /\ \A r \in Readers : reader[r] \in {"idle", "rlock", "rlockConfig"} => view[r] = {}
  /\ \A r \in rlocked : view[r] \subseteq {C}
  /\ SnapshotConsistent

\* What is read is at least as new as what is served, and what a POST waits for
\* is at least as new as what was on disk when it came.
Freshness ==
  /\ \A q \in Parts : C[q].edit <= disk[q].edit /\ disk[q].edit <= edits
  /\ \A p \in Posters, q \in Parts : posted[p][q] <= disk[q].edit
  /\ toRead \in {FileOrder, <<"modules">>, <<>>}
  /\ loader \in {"lock", "unlock"} => toRead = <<>>
  /\ loader \in {"read", "lock"} => \A q \in Parts \ ToSet(toRead) :
       conf[q].edit >= C[q].edit /\ conf[q].edit <= disk[q].edit
  /\ loader = "unlock" => C = conf
  /\ loader = "reply" /\ ~failed => C = conf /\ toRead = <<>>
  /\ loader \in {"read", "lock", "unlock"} => ~failed
  /\ process # "serving" => \A p \in Posters : post[p] = "idle"
  /\ \A p \in Posters : post[p] = "waiting" =>
       /\ cause = p /\ loader \in {"read", "lock", "unlock", "reply"}
       /\ failed \/ \A q \in Parts \ ToSet(toRead) : conf[q].edit >= posted[p][q]

\* The inductive invariant of SafeConfig: lock, views and freshness together.
IInv == TypeOK /\ Locking /\ Viewing /\ Freshness /\ ReloadIsFresh

\* How the last load goes, or went: what a load does counts when it is installed.
Load ==
  CASE loader \in {"read", "lock"} -> "loading"
    [] loader = "stopped" -> "stopped"
    [] loader \notin {"read", "lock", "stopped"} /\ failed -> "failed"
    [] OTHER -> "loaded"
\* The lock makes the lookups of a request one atomic read of a register; it is
\* written by successful loads, each of them once and as a whole, and a load that
\* fails, in the first file or after others were read, changes nothing.
Register == INSTANCE ConfigRegister WITH current <- C, load <- Load, view <- view
ImplementsRegister == Register!Spec

\* CHANGELOG.md: "fail if missing auths or modules".
NeverIncomplete == process = "serving" => \A p \in Parts : ~Lacks(p)
=============================================================================
