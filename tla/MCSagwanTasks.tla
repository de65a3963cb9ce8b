--------------------------- MODULE MCSagwanTasks ---------------------------
(* Instances of SagwanTasks: what the bootstraps enqueue, and symmetry.     *)
EXTENDS SagwanTasks, TLC

\* Consolidation of note 1, which also writes the one log, path 2; it is followed
\* up by maintenance of either.
LockSeeds ==
    {[kind |-> "consolidate_review", resource_key |-> 1,
      write_set |-> {1, 2}, priority |-> 0]}

WorkerSymmetry == Permutations(Workers)
=============================================================================
