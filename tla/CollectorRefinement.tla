------------------------- MODULE CollectorRefinement -------------------------
(* Collector implements ScrapeRequest: the refinement mapping.                *)
EXTENDS Collector

Status(m) ==
  IF finished[m] > 0 THEN "complete"
  ELSE IF errors[m] > 0 THEN "failed"
  ELSE IF m < next THEN "running"
  ELSE IF dispatcher = "select" THEN "pending"
  ELSE "skipped"

\* The request-level reading of a collector state.
Abstract == INSTANCE ScrapeRequest WITH
  status   <- [m \in Modules |-> Status(m)],
  aborted  <- ContextDone,
  excused  <- parentDone \/ BadEngineID,
  failed   <- workerErrors > 0 \/ \E m \in Modules : errors[m] > 0,
  returned <- dispatcher = "returned"

\* Whatever the workers do and in whatever order, a request sees its modules
\* start in order, end once, and never go missing behind a success.
ImplementsScrapeRequest == Abstract!Spec
=============================================================================
