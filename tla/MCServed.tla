------------------------------ MODULE MCServed ------------------------------
(* What the queues owe in the end: the signal scans that two curation      *)
(* threads keep enqueueing, the tasks that tools enqueue, with delays,     *)
(* settings and a crash, and the backlog of the agent's own queue.  A      *)
(* behaviour follows one of the three, the one in focus, from its start.   *)
EXTENDS MCSubordinateQueue

CONSTANTS ServedKinds, ServedLimit, ServedTasks, ServedCrashes, w1, w2

VARIABLES
    focus,
    t_tasks, t_order, t_saving, t_settings, t_pc, t_kinds, t_late, t_left, t_job,
    t_loop, t_wake_event, t_wakes, t_todo, t_crashes, t_unseen,
    sagwan_tasks, next_id, disabled, sagwan_pc, claims_left, held, claimed,
    sagwan_crashes, attempts, lapsed, overrun

ServedOn == [enabled |-> TRUE, kinds |-> ServedKinds]

\* A loop without other callers: tasks now and later, each kind switched off and on.
V == INSTANCE SubordinateQueue WITH
    Requests <- {}, Curators <- {}, Kinds <- ServedKinds, ScanKinds <- {},
    DedupKinds <- {"crawl_url"}, Offers <- SyncOffers,
    SettingsDocs <- {ServedOn, [ServedOn EXCEPT !.enabled = FALSE],
                     [ServedOn EXCEPT !.kinds = @ \ {"crawl_url"}]},
    QUEUE_PENDING_LIMIT <- ServedLimit, MAX_TASKS_PER_RUN <- 1,
    MaxDelay <- 1, MaxLate <- 1, MaxTasks <- ServedTasks, MaxCrashes <- ServedCrashes,
    tasks <- t_tasks, order <- t_order, saving <- t_saving, settings <- t_settings,
    pc <- t_pc, kinds <- t_kinds, late <- t_late, left <- t_left, job <- t_job,
    loop <- t_loop, wake_event <- t_wake_event, wakes <- t_wakes, todo <- t_todo,
    crashes <- t_crashes, unseen <- t_unseen

\* One task, two workers, one of them in the loop, leases overrun, retries and crashes.
D == INSTANCE SagwanTasks WITH
    Workers <- {w1, w2}, LoopWorkers <- {w1}, MaxPath <- 1, Freshness <- {1},
    Seeds <- {[kind |-> "check_capsule_maintenance", resource_key |-> 1,
               write_set |-> {1}, priority |-> 0]},
    Disableable <- {}, MAX_CHAIN_DEPTH <- 0, MAX_CHILDREN_PER_TASK <- 0,
    MAX_TASKS_PER_CYCLE <- 1, RECENTLY_TOUCHED_COOLDOWN <- 0, LEASE_DURATION <- 1,
    DEFAULT_MAX_RETRIES <- 2, RETRY_BACKOFF_BASE <- 1, QUEUE_PENDING_LIMIT <- 1,
    DONE_PRUNE_AFTER <- 0, MaxTasks <- 1, MaxCrashes <- 2,
    tasks <- sagwan_tasks, pc <- sagwan_pc, left <- claims_left, job <- claimed,
    crashes <- sagwan_crashes

taskVars == <<t_tasks, t_order, t_saving, t_settings, t_pc, t_kinds, t_late, t_left, t_job,
              t_loop, t_wake_event, t_wakes, t_todo, t_crashes, t_unseen>>
sagwanVars == <<sagwan_tasks, next_id, disabled, sagwan_pc, claims_left, held, claimed,
                sagwan_crashes, attempts, lapsed, overrun>>
servedVars == <<focus, vars, taskVars, sagwanVars>>

ServedInit ==
    /\ focus \in {"scans", "tasks", "backlog"}
    /\ Init /\ V!Init /\ D!Init
    /\ focus # "tasks" => t_settings = ServedOn

\* Nothing is explored of the components that are not in focus.
ServedNext ==
    /\ UNCHANGED focus
    /\ focus # "scans" => UNCHANGED vars
    /\ focus # "tasks" => UNCHANGED taskVars
    /\ focus # "backlog" => UNCHANGED sagwanVars
    /\ \/ focus = "scans" /\ Next
       \/ focus = "tasks" /\ V!Next
       \/ focus = "backlog" /\ D!Next

\* The fairness of each component's own specification, while it is in focus.
Step(scans, tasksStep, backlog) ==
    \/ focus = "scans" /\ scans /\ UNCHANGED <<focus, taskVars, sagwanVars>>
    \/ focus = "tasks" /\ tasksStep /\ UNCHANGED <<focus, vars, sagwanVars>>
    \/ focus = "backlog" /\ backlog /\ UNCHANGED <<focus, vars, taskVars>>
ServedFairness ==
    /\ WF_servedVars(Step(Tick, V!Tick, D!Tick))
    /\ WF_servedVars(Step(WriteQueue, V!WriteQueue, D!StartCycle(w1)))
    /\ WF_servedVars(Step(CycleStep(Loop), V!CycleStep(Loop), D!CycleStep(w1)))
    /\ WF_servedVars(Step(TriggerWake, V!TriggerWake, D!CycleStep(w2)))
    /\ WF_servedVars(Step(LoopSetsOut, V!LoopSetsOut, FALSE))
    /\ WF_servedVars(Step(LoopResumes, V!LoopResumes, FALSE))
    /\ \A r \in Requests : WF_servedVars(Step(CycleStep(r), FALSE, FALSE))
    /\ \A c \in Curators : /\ WF_servedVars(Step(ReadLiveKinds(c), FALSE, FALSE))
                           /\ WF_servedVars(Step(EnqueueScan(c), FALSE, FALSE))

ServedSpec == ServedInit /\ [][ServedNext]_servedVars /\ ServedFairness

\* Every task is taken up in the end while its kind stays switched on.
EveryTaskServed == focus = "tasks" => V!TasksServed

\* Each signal scan runs again and again.
EveryScanRecurs == focus = "scans" => ScansRecur

\* The backlog of the agent's queue drains once nothing is seeded any more, in spite of
\* failures, a crash and leases that are overrun.
BacklogDrains == focus = "backlog" => D!BacklogDrains
=============================================================================
