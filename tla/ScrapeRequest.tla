---------------------------- MODULE ScrapeRequest ----------------------------
(* What one scrape of /snmp promises for a list of modules, without workers,   *)
(* contexts or channels: the modules are started in the order asked for, each  *)
(* completes, fails or is skipped once and for all, modules are skipped only   *)
(* after an abort, and an incomplete answer is either reported as a failure or *)
(* excused.  Collector implements it.                                          *)
EXTENDS Integers

CONSTANT NumModules
Modules == 1..NumModules

VARIABLES
  status,   \* of each module
  aborted,  \* no further module need be started
  excused,  \* an incomplete answer need not be a failure
  failed,   \* the answer reports an error
  returned
vars == <<status, aborted, excused, failed, returned>>

Init ==
  /\ status = [m \in Modules |-> "pending"]
  /\ excused \in BOOLEAN
  /\ aborted = FALSE
  /\ failed = FALSE
  /\ returned = FALSE

Set(m, s) == status' = [status EXCEPT ![m] = s]

Start(m) ==
  /\ status[m] = "pending"
  /\ \A k \in Modules : k < m => status[k] \notin {"pending", "skipped"}
  /\ Set(m, "running")
  /\ UNCHANGED <<aborted, excused, failed, returned>>

Complete(m) ==
  /\ status[m] = "running"
  /\ Set(m, "complete")
  /\ UNCHANGED <<aborted, excused, failed, returned>>

Fail(m) ==
  /\ status[m] = "running"
  /\ Set(m, "failed")
  /\ failed' = TRUE
  /\ UNCHANGED <<aborted, excused, returned>>

\* An error that belongs to no module.
FailAll ==
  /\ ~returned
  /\ failed' = TRUE
  /\ UNCHANGED <<status, aborted, excused, returned>>

Abort ==
  /\ ~returned
  /\ aborted' = TRUE
  /\ excused' \in {excused, TRUE}
  /\ UNCHANGED <<status, failed, returned>>

SkipRest ==
  /\ aborted
  /\ \E m \in Modules : status[m] = "pending"
  /\ status' = [m \in Modules |-> IF status[m] = "pending" THEN "skipped" ELSE status[m]]
  /\ UNCHANGED <<aborted, excused, failed, returned>>

Return ==
  /\ ~returned
  /\ \A m \in Modules : status[m] \in {"complete", "failed", "skipped"}
  /\ failed \/ excused \/ \A m \in Modules : status[m] = "complete"
  /\ returned' = TRUE
  /\ aborted' = TRUE
  /\ UNCHANGED <<status, excused, failed>>

Next ==
  \/ \E m \in Modules : Start(m) \/ Complete(m) \/ Fail(m)
  \/ FailAll \/ Abort \/ SkipRest \/ Return

Spec == Init /\ [][Next]_vars
=============================================================================
