----------------------------- MODULE MCProfiler -----------------------------
(* Profiler on top of a file with the columns of an earlier version, such as *)
(* benchmarks/results/edge_results.csv, or without one.                      *)
EXTENDS Profiler

OldLines == <<[columns |-> "old", kind |-> "header", whole |-> TRUE],
              [columns |-> "old", kind |-> "row", session |-> 0, run |-> 1, success |-> TRUE,
               whole |-> TRUE]>>
=============================================================================
