------------------------------ MODULE MCQueues ------------------------------
(* The two queues at their limits: the subordinate's, shared by its loop   *)
(* and an admin's request, and the agent's, where follow-ups spawn         *)
(* follow-ups.  They share no state, so a behaviour follows one of them,   *)
(* the one in focus, from its start.                                       *)
EXTENDS MCSubordinateQueue

CONSTANTS
    SagwanWorkers, MaxPath, MAX_CHAIN_DEPTH, SAGWAN_PENDING_LIMIT, MaxSagwanTasks,
    MaxSagwanCrashes

VARIABLES
    focus,
    sagwan_tasks, next_id, disabled, sagwan_pc, claims_left, held, claimed,
    sagwan_crashes, attempts, lapsed, overrun

ASSUME SagwanBounds ==
    /\ IsFiniteSet(SagwanWorkers)
    /\ {MAX_CHAIN_DEPTH, MaxSagwanTasks, MaxSagwanCrashes} \subseteq Nat
    /\ {MaxPath, SAGWAN_PENDING_LIMIT} \subseteq Nat \ {0}

\* Maintenance of note 1 is scheduled, and the kind is switched off and on.
T == INSTANCE SagwanTasksProofs WITH
    Workers <- SagwanWorkers, LoopWorkers <- SagwanWorkers, Freshness <- {1},
    Seeds <- {[kind |-> "check_capsule_maintenance", resource_key |-> 1,
               write_set |-> {1}, priority |-> 0]},
    Disableable <- {"check_capsule_maintenance"},
    MAX_CHILDREN_PER_TASK <- 1, MAX_TASKS_PER_CYCLE <- 1,
    RECENTLY_TOUCHED_COOLDOWN <- 0, LEASE_DURATION <- 1, DEFAULT_MAX_RETRIES <- 1,
    RETRY_BACKOFF_BASE <- 1, QUEUE_PENDING_LIMIT <- SAGWAN_PENDING_LIMIT,
    DONE_PRUNE_AFTER <- 0, MaxTasks <- MaxSagwanTasks,
    MaxCrashes <- MaxSagwanCrashes, tasks <- sagwan_tasks, pc <- sagwan_pc,
    left <- claims_left, job <- claimed, crashes <- sagwan_crashes

sagwanVars == <<sagwan_tasks, next_id, disabled, sagwan_pc, claims_left, held, claimed,
                sagwan_crashes, attempts, lapsed, overrun>>
queuesVars == <<focus, vars, sagwanVars>>

QueuesInit ==
    /\ focus \in {"subordinate", "sagwan"}
    /\ Init /\ T!Init
    /\ focus # "subordinate" => settings = On

\* Nothing is explored of the queue that is not in focus.
QueuesNext ==
    /\ UNCHANGED focus
    /\ focus # "subordinate" => UNCHANGED vars
    /\ focus # "sagwan" => UNCHANGED sagwanVars
    /\ \/ focus = "subordinate" /\ Next
       \/ focus = "sagwan" /\ T!Next

QueuesSpec == QueuesInit /\ [][QueuesNext]_queuesVars

\* With queues of the right form, follow-ups keep to the depth limit and name their root,
\* and open tasks exceed the limit of the queue only by what is held or orphaned
\* (sagwan_tasks.py:self_enqueue, enqueue_task).
FollowUpsBounded ==
    TypeOK /\ (focus = "sagwan" => T!TypeOK /\ T!LineageBounded /\ T!BacklogBounded)
=============================================================================
