------------------------------ MODULE MCStatus ------------------------------
(* Two live pipelines and a backfill; a checkpoint has one event for each.  *)
EXTENDS Status, TLC

CONSTANTS p1, p2, b1

OneEach == {{<<p, k>> : p \in Pipelines \ Backfill} : k \in 1..MaxCheckpoints}
Thresholds == {[max_checkpoint_lag |-> 2, max_time_lag_seconds |-> 1],
               [max_checkpoint_lag |-> 1, max_time_lag_seconds |-> 2]}
(* Nothing tells the two live pipelines apart.                               *)
LivePermutations == Permutations({p1, p2})
=============================================================================
