--------------------------- MODULE MCRunLifecycle ---------------------------
(* Instances of RunLifecycle.                                               *)
EXTENDS RunLifecycle

(* Whatever the explicit summary, the server reads one that it keeps.       *)
ReadValues == [e \in Explicit |-> "exact"]

(* The number of the first record is not kept, those of the others are.     *)
ServedMetrics == [n \in 0 .. MaxMetrics |-> IF n = 1 THEN MaxMetrics + 1 ELSE n]
=============================================================================
