---------------------------- MODULE ScrapeTarget ----------------------------
(* ScrapeTarget of collector/collector.go: one module scraped from one target. *)
(* The dynamic filters are walked first and turn walks of their targets into   *)
(* gets of the rows they allow; the gets go out in batches; the remaining      *)
(* subtrees are walked.  OIDs are sequences of arcs.  The agent and gosnmp,    *)
(* behind SNMPScraper, are external: they answer or fail as they like.         *)
EXTENDS Integers, Sequences, SequencesExt, ListOps

CONSTANTS
  Inputs, \* [get, walk, filters, maxRepetitions, version] of the calls
  Rows,   \* what the walk of a filter's OID may return
  Mibs    \* sets of OIDs the agent may have an instance of

Oids == Seq(Nat)
\* malformed: behind the values that match or do not is one that is no regular
\* expression, which nothing checks when the configuration is loaded.
Filters == [targets: Seq(Oids), malformed: BOOLEAN]
Calls == [get: Seq(Oids), walk: Seq(Oids), filters: Seq(Filters),
          maxRepetitions: Nat, version: {1, 2, 3}]
\* A PDU of a filter's walk: its arcs, and whether a value of the filter matches.
Pdus == [index: Oids \ {<<>>}, matches: BOOLEAN]

ASSUME ScrapeTargetAssumption == Inputs \subseteq Calls /\ Rows \subseteq Seq(Pdus)

VARIABLES
  input,   \* module and auth version of this call, constant
  mib,     \* OIDs the agent has, constant
  phase,   \* "filter", "get", "walk", then "done" or "failed"; or "panicked"
  pending, \* filters, getOids or subtrees not handled yet, by phase
  newGet, newWalk,
  targets, \* [order |-> filteredTargets, allowed |-> allowedIndicesByTarget]
  verdicts, \* history: filters whose walk succeeded, with their allowed indices
  asked,   \* history: OIDs asked for by Get so far
  got,     \* OIDs in results.pdus that Get returned
  walked   \* subtrees whose PDUs are in results.pdus
vars == <<input, mib, phase, pending, newGet, newWalk, targets, verdicts, asked, got, walked>>

Init ==
  /\ input \in Inputs
  /\ mib \in Mibs
  /\ phase = "filter"
  /\ pending = input.filters
  /\ newGet = input.get
  /\ newWalk = input.walk
  /\ targets = [order |-> <<>>, allowed |-> <<>>]
  /\ verdicts = {}
  /\ asked = <<>>
  /\ got = {}
  /\ walked = <<>>

-----------------------------------------------------------------------------
(* The helpers on OID lists                                                   *)

\* arc a is how the decimal arc b starts: strings compare, not numbers.
DecimalPrefix(a, b) == a = b \/ (a > 0 /\ \E k \in 1..9 : b \div 10^k = a)
\* strings.HasPrefix on the dotted forms.
HasPrefix(oid, prefix) ==
  LET n == Len(prefix) IN
  /\ n <= Len(oid)
  /\ SubSeq(oid, 1, n - 1) = SubSeq(prefix, 1, n - 1)
  /\ n > 0 => DecimalPrefix(prefix[n], oid[n])

\* The index of a PDU is the last arc of its name.
filterAllowedIndices(rows) ==
  LET matching == Keep(rows, {r \in ToSet(rows) : r.matches})
  IN  [i \in 1..Len(matching) |-> Last(matching[i].index)]
\* Values are compiled one by one, until one of them matches.
Evaluates(filter, rows) == filter.malformed => \A r \in ToSet(rows) : r.matches
\* Mutant: the later filter's list replaces the earlier one's.
replaceIndices(a, b) == b
intersectIndices(a, b) == Keep(a, ToSet(b))
updateWalkConfig(walk, filter) == Keep(walk, ToSet(walk) \ ToSet(filter.targets))
updateGetConfig(get, target) == Keep(get, {e \in ToSet(get) : ~HasPrefix(e, target)})
addAllowedIndices(get, target, allowed) ==
  get \o [i \in 1..Len(allowed) |-> Append(target, allowed[i])]

\* Mutant: the target is put on the list of targets again.
AddTargetAgain(acc, target, allowedList) ==
  [order |-> Append(acc.order, target),
   allowed |-> [t \in DOMAIN acc.allowed \cup {target} |->
                  IF t # target THEN acc.allowed[t]
                  ELSE IF t \in DOMAIN acc.allowed THEN intersectIndices(acc.allowed[t], allowedList)
                  ELSE allowedList]]
\* One target of a filter: intersect with the list it has or give it this one.
AddTarget(acc, target, allowedList) ==
  IF target \in DOMAIN acc.allowed
    THEN [acc EXCEPT !.allowed[target] = intersectIndices(@, allowedList)]
    ELSE [order |-> Append(acc.order, target),
          allowed |-> [t \in DOMAIN acc.allowed \cup {target} |->
                         IF t = target THEN allowedList ELSE acc.allowed[t]]]

\* All targets of a filter.
AddTargets(acc, filterTargets, allowedList) ==
  LET added[k \in 0..Len(filterTargets)] ==
        IF k = 0 THEN acc ELSE AddTarget(added[k - 1], filterTargets[k], allowedList)
  IN  added[Len(filterTargets)]

\* One target's gets replaced by the rows it is allowed.
ApplyTarget(get, target, allowed) ==
  addAllowedIndices(updateGetConfig(get, target), target, allowed)
\* The combined filters applied to the gets, target after target.
ApplyTargets(get, acc) ==
  LET applied[k \in 0..Len(acc.order)] ==
        IF k = 0 THEN get
        ELSE ApplyTarget(applied[k - 1], acc.order[k], acc.allowed[acc.order[k]])
  IN  applied[Len(acc.order)]

-----------------------------------------------------------------------------
(* Filters                                                                    *)

FilterOK ==
  /\ phase = "filter"
  /\ pending # <<>>
  /\ \E rows \in Rows :
       LET filter == Head(pending)
           allowedList == filterAllowedIndices(rows)
       IN  /\ Evaluates(filter, rows)
           /\ newWalk' = updateWalkConfig(newWalk, filter)
           /\ targets' = AddTargets(targets, filter.targets, allowedList)
           /\ verdicts' = verdicts \cup {[targets |-> ToSet(filter.targets),
                                          allowed |-> ToSet(allowedList)]}
  /\ pending' = Tail(pending)
  /\ UNCHANGED <<input, mib, phase, newGet, asked, got, walked>>

\* Mutant: the filter's targets are dropped from the walk all the same.
FilterFailsLate ==
  /\ phase = "filter"
  /\ pending # <<>>
  /\ newWalk' = updateWalkConfig(newWalk, Head(pending))
  /\ pending' = Tail(pending)
  /\ UNCHANGED <<input, mib, phase, newGet, targets, verdicts, asked, got, walked>>
\* "Do not try to filter anything if we had errors."
FilterFails ==
  /\ phase = "filter"
  /\ pending # <<>>
  /\ pending' = Tail(pending)
  /\ UNCHANGED <<input, mib, phase, newGet, newWalk, targets, verdicts, asked, got, walked>>

\* regexp.MustCompile panics, and with this goroutine the exporter ends.
FilterPanics ==
  /\ phase = "filter"
  /\ pending # <<>>
  /\ \E rows \in Rows : ~Evaluates(Head(pending), rows)
  /\ phase' = "panicked"
  /\ UNCHANGED <<input, mib, pending, newGet, newWalk, targets, verdicts, asked, got, walked>>

Combine ==
  /\ phase = "filter"
  /\ pending = <<>>
  /\ newGet' = ApplyTargets(newGet, targets)
  /\ pending' = newGet'
  /\ phase' = "get"
  /\ UNCHANGED <<input, mib, newWalk, targets, verdicts, asked, got, walked>>

-----------------------------------------------------------------------------
(* Gets                                                                       *)

\* Mutants: the version is not looked at; 0 is taken as it is.
maxOidsAnyVersion == IF input.maxRepetitions = 0 THEN 1 ELSE input.maxRepetitions
maxOidsUnclamped == IF input.version = 1 THEN 1 ELSE input.maxRepetitions
maxOids == IF input.maxRepetitions = 0 \/ input.version = 1 THEN 1 ELSE input.maxRepetitions

oids == IF Len(pending) < maxOids THEN Len(pending) ELSE maxOids
Batch == SubSeq(pending, 1, oids)
\* Mutant: an unsupported request advances by one OID.
RestAfterOne == Tail(pending)
\* getOids[oids:]
Rest == SubSeq(pending, oids + 1, Len(pending))

\* An agent of version 1 answers a request with one unknown OID with
\* noSuchName and nothing else; the request is skipped.
GetNoSuchName ==
  /\ phase = "get"
  /\ pending # <<>>
  /\ input.version = 1
  /\ ~(ToSet(Batch) \subseteq mib)
  /\ asked' = asked \o Batch
  /\ pending' = Rest
  /\ UNCHANGED <<input, mib, phase, newGet, newWalk, targets, verdicts, got, walked>>

\* Later versions answer unknown OIDs one by one with exceptions, left out.
GetOK ==
  /\ phase = "get"
  /\ pending # <<>>
  /\ input.version = 1 => ToSet(Batch) \subseteq mib
  /\ asked' = asked \o Batch
  /\ got' = got \cup (ToSet(Batch) \cap mib)
  /\ pending' = Rest
  /\ UNCHANGED <<input, mib, phase, newGet, newWalk, targets, verdicts, walked>>

GetsDone ==
  /\ phase = "get"
  /\ pending = <<>>
  /\ phase' = "walk"
  /\ pending' = newWalk
  /\ UNCHANGED <<input, mib, newGet, newWalk, targets, verdicts, asked, got, walked>>

-----------------------------------------------------------------------------
(* Walks                                                                      *)

WalkOK ==
  /\ phase = "walk"
  /\ pending # <<>>
  /\ walked' = Append(walked, Head(pending))
  /\ pending' = Tail(pending)
  /\ UNCHANGED <<input, mib, phase, newGet, newWalk, targets, verdicts, asked, got>>

WalksDone ==
  /\ phase = "walk"
  /\ pending = <<>>
  /\ phase' = "done"
  /\ UNCHANGED <<input, mib, pending, newGet, newWalk, targets, verdicts, asked, got, walked>>

\* A Get or a subtree's walk returns an error, or a Get's packet reports one.
RequestFails ==
  /\ phase \in {"get", "walk"}
  /\ pending # <<>>
  /\ phase' = "failed"
  /\ UNCHANGED <<input, mib, pending, newGet, newWalk, targets, verdicts, asked, got, walked>>

Returned == phase \in {"done", "failed", "panicked"} /\ UNCHANGED vars

Progress ==
  \/ FilterOK \/ FilterFails \/ FilterPanics \/ Combine
  \/ GetNoSuchName \/ GetOK \/ GetsDone
  \/ WalkOK \/ WalksDone
Next == Progress \/ RequestFails \/ Returned

Spec == Init /\ [][Next]_vars
\* The calling goroutine runs on; nothing makes a request fail.
FairSpec == Spec /\ WF_vars(Progress)

-----------------------------------------------------------------------------
(* Properties                                                                 *)

\* The filters are, or were when the call panicked, not combined yet.
Evaluating == phase \in {"filter", "panicked"}

TypeOK ==
  /\ input \in Inputs /\ mib \in Mibs
  /\ phase \in {"filter", "get", "walk", "done", "failed", "panicked"}
  /\ newGet \in Seq(Oids) /\ newWalk \in Seq(Oids)
  /\ asked \in Seq(Oids) /\ walked \in Seq(Oids)
  /\ pending \in IF Evaluating THEN Seq(Filters) ELSE Seq(Oids)
  /\ targets \in [order: Seq(Oids), allowed: [ToSet(targets.order) -> Seq(Nat)]]
  /\ IsInjective(targets.order)
  /\ verdicts \subseteq [targets: SUBSET Oids, allowed: SUBSET Nat]
  /\ got \subseteq mib

Filtered == UNION {v.targets : v \in verdicts}
\* What the comments in ScrapeTarget promise: the configured gets outside every
\* filtered target, and of each filtered target the indices that every filter
\* targeting it allows.
ExpectedGet ==
  {g \in ToSet(input.get) : \A t \in Filtered : ~IsPrefix(t, g)} \cup
  UNION {{Append(t, i) : i \in {j \in UNION {v.allowed : v \in verdicts} :
            \A v \in verdicts : t \in v.targets => j \in v.allowed}} : t \in Filtered}
FilteredGets == ToSet(newGet) = ExpectedGet

\* "remove each filtered target OID from the get config once, then add back
\* only the indices allowed by every filter targeting that OID"
\* (the comment in ScrapeTarget), for every configuration.
FilterSemantics == phase \in {"get", "walk", "done"} => FilteredGets

\* No filtered target or configured get starts, as a string, with a filtered
\* target it does not lie strictly below; none lies below another target.
Separate ==
  /\ \A t, u \in Filtered : HasPrefix(u, t) => t = u
  /\ \A t \in Filtered, g \in ToSet(input.get) : HasPrefix(g, t) => IsPrefix(t, g)
\* The same for configurations whose OIDs are not each other's string prefixes:
\* several filters on one target intersect, in whatever order, and a filter that
\* failed counts for nothing.
FilterSemanticsWhenSeparate == Separate => FilterSemantics

\* A configured subtree is walked unless a filter that could be evaluated
\* replaced it: a filter that fails never loses data.
NothingUnwalked ==
  phase = "done" => ToSet(walked) = {s \in ToSet(input.walk) : s \notin Filtered}

\* Every OID is asked for exactly once and in order, whatever the batches and
\* the requests the agent refuses.
EachAskedOnce ==
  phase \in {"get", "walk", "done"} =>
    newGet = asked \o (IF phase = "get" THEN pending ELSE <<>>)

\* An instance the agent has is never lost because another OID of the same
\* request is unknown to it.
NoLostInstance == phase = "done" => got = ToSet(newGet) \cap mib

\* The scrape ends: every request makes progress through the batches.
Termination == <>(phase \in {"done", "failed", "panicked"})

-----------------------------------------------------------------------------
(* The inductive invariant behind these properties                            *)

\* What the filters evaluated so far say of target t.
AllowedBy(t) ==
  {j \in UNION {v.allowed : v \in verdicts} : \A v \in verdicts : t \in v.targets => j \in v.allowed}

\* The combined lists are the intersection of the filters' lists, and the walk
\* lacks exactly the targets; the gets are rewritten by them once.
Combined ==
  /\ ToSet(targets.order) = Filtered
  /\ \A t \in Filtered : ToSet(targets.allowed[t]) = AllowedBy(t)
  /\ ToSet(newWalk) = {s \in ToSet(input.walk) : s \notin Filtered}
  /\ newGet = IF Evaluating THEN input.get ELSE ApplyTargets(input.get, targets)

\* What was asked for and what is left to ask for make up the gets, what was
\* walked and what is left to walk the subtrees.
Accounted ==
  /\ phase = "filter" => asked = <<>>
  /\ phase \in {"filter", "get"} => walked = <<>>
  /\ phase = "get" => newGet = asked \o pending
  /\ phase \in {"walk", "done"} => newGet = asked
  /\ phase = "walk" => newWalk = walked \o pending
  /\ phase = "done" => newWalk = walked
  /\ got = ToSet(asked) \cap mib

\* The inductive invariant of ScrapeTarget.
IInv == TypeOK /\ Combined /\ Accounted
=============================================================================
