----------------------------- MODULE MCCollector -----------------------------
(* Instances of Collector for TLC.                                            *)
EXTENDS CollectorRefinement, TLC

\* The first module takes no retry, the second one retries once and asks for
\* the unusual walk options; a third one is plain again.
MCRetries == [m \in Modules |-> IF m = 2 THEN 1 ELSE 0]
MCNonIncreasing == {2} \cap Modules
MCUnconnected == {2} \cap Modules
=============================================================================
