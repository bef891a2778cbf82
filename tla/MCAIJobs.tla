------------------------------ MODULE MCAIJobs ------------------------------
(* Instances of AIJobs for TLC. *)
EXTENDS AIJobs, TLC

\* Transcript ids, summary workers and webhook handlers are interchangeable: no action
\* chooses one by name. Only for runs without liveness properties.
Symmetry ==
  Permutations(Tids) \union Permutations(SummaryWorkers) \union Permutations(Hooks)

=============================================================================
