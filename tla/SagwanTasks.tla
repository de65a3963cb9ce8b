---------------------------- MODULE SagwanTasks ----------------------------
(***************************************************************************)
(* The durable task queue of the Sagwan agent (closed-web/server/app/      *)
(* sagwan_tasks.py) with the workers that drain it (run_sagwan_task_worker *)
(* in sagwan_loop.py).  Every function of the queue runs under _QUEUE_LOCK *)
(* and saves the file by os.replace, so each is one atomic step on tasks;  *)
(* a worker interleaves with the others between those steps.               *)
(*                                                                         *)
(* Time is relative: a stamp holds its distance to the present and Tick    *)
(* ages them all, so no horizon bounds the clock.                          *)
(***************************************************************************)
EXTENDS Integers, FiniteSets

CONSTANTS
    Workers,                    \* threads that may run the worker at once
    LoopWorkers,                \* those of the curation loop; the rest are requests
    MaxPath,                    \* number of vault paths, in their sort order
    Freshness,                  \* freshness keys (a note's updated_at)
    Seeds,                      \* what the bootstraps and endpoints enqueue
    Disableable,                \* kinds the settings may switch off and on
    MAX_CHAIN_DEPTH,
    MAX_CHILDREN_PER_TASK,
    MAX_TASKS_PER_CYCLE,        \* setting task_queue_max_per_cycle
    RECENTLY_TOUCHED_COOLDOWN,
    LEASE_DURATION,
    DEFAULT_MAX_RETRIES,
    RETRY_BACKOFF_BASE,
    QUEUE_PENDING_LIMIT,
    DONE_PRUNE_AFTER,
    MaxTasks,                   \* bound: tasks ever created
    MaxCrashes                  \* bound: process crashes

SAGWAN_TASK_KINDS == {"check_capsule_maintenance", "check_capsule_conflict",
                      "research_gap", "meta_health", "consolidate_review"}

SELF_ENQUEUE_WHITELIST ==
    [k \in SAGWAN_TASK_KINDS |->
        CASE k = "check_capsule_maintenance" ->
                {"check_capsule_maintenance", "check_capsule_conflict"}
          [] k = "check_capsule_conflict" -> {"check_capsule_conflict"}
          [] k = "consolidate_review" -> {"check_capsule_maintenance"}
          [] OTHER -> {}]

TaskIds == 1..MaxTasks
Paths == 1..MaxPath

Seed == [kind : SAGWAN_TASK_KINDS, resource_key : Paths,
         write_set : SUBSET Paths, priority : Nat]

ASSUME PathsAssumption == MaxPath \in Nat
ASSUME FreshnessAssumption == Freshness \subseteq Nat \ {0}
ASSUME WorkersAssumption == IsFiniteSet(Workers) /\ LoopWorkers \subseteq Workers
ASSUME SeedsAssumption ==
    /\ Seeds \subseteq Seed
    /\ \A s \in Seeds : s.write_set # {}
    /\ Disableable \subseteq SAGWAN_TASK_KINDS
ASSUME KnobsAssumption ==
    /\ MAX_CHAIN_DEPTH \in Nat
    /\ MAX_CHILDREN_PER_TASK \in Nat
    /\ MAX_TASKS_PER_CYCLE \in Nat \ {0}
    /\ RECENTLY_TOUCHED_COOLDOWN \in Nat
    /\ LEASE_DURATION \in Nat \ {0}
    /\ DEFAULT_MAX_RETRIES \in Nat
    /\ RETRY_BACKOFF_BASE \in Nat \ {0}
    /\ QUEUE_PENDING_LIMIT \in Nat \ {0}
    /\ DONE_PRUNE_AFTER \in Nat
    /\ MaxTasks \in Nat
    /\ MaxCrashes \in Nat

VARIABLES
    tasks,          \* the queue file: a record per task identifier
    next_id,        \* the next identifier; their order is the list's order
    disabled,       \* setting task_queue_kinds_disabled
    pc,             \* where each worker is
    left,           \* claims left in the worker's cycle
    held,           \* path locks each worker holds
    job,            \* the worker's own copy of the task it claimed
    crashes,        \* how often the process has crashed
    \* What the file does not record; only the properties read it:
    attempts,       \* times each task was claimed
    lapsed,         \* workers whose claim on the task in hand is no longer good
    overrun         \* tasks whose lease ran out in a worker's hands

vars == <<tasks, next_id, disabled, pc, left, held, job, crashes, attempts, lapsed,
          overrun>>

Active == {"pending", "running"}
Finished == {"done", "dead_letter"}

\* A record of the queue; "absent" before creation and after pruning.
Task == [status : {"absent"} \cup Active \cup Finished,
         kind : SAGWAN_TASK_KINDS \cup {"none"},
         resource_key : Paths \cup {0}, freshness_key : Freshness \cup {0},
         write_set : SUBSET Paths, priority : Nat,
         parent : 0..MaxTasks, root : 0..MaxTasks, chain_depth : Nat,
         run_after : Int,                  \* seconds ahead; in the past if < 0
         lease : -1..LEASE_DURATION,       \* seconds left; -1: none, or over
         age : 0..(DONE_PRUNE_AFTER + 1),  \* seconds since finished_at
         retry_count : 0..DEFAULT_MAX_RETRIES]

NoTask == [status |-> "absent", kind |-> "none", resource_key |-> 0,
           freshness_key |-> 0, write_set |-> {}, priority |-> 0,
           parent |-> 0, root |-> 0, chain_depth |-> 0, run_after |-> 0,
           lease |-> -1, age |-> 0, retry_count |-> 0]

\* dict(task): the worker's own copy, with the follow-ups it has tried and the
\* one under way.
Job == [id : 0..MaxTasks, kind : SAGWAN_TASK_KINDS \cup {"none"},
        write_set : SUBSET Paths, root : 0..MaxTasks, chain_depth : Nat,
        spawn_budget_used : Nat, tried : Nat, follow : Paths \cup {0}]

NoJob == [id |-> 0, kind |-> "none", write_set |-> {}, root |-> 0,
          chain_depth |-> 0, spawn_budget_used |-> 0, tried |-> 0,
          follow |-> 0]

InHand == {"locking", "working", "spawning", "cooled"}
PC == {"off", "draining", "releasing"} \cup InHand

-----------------------------------------------------------------------------
(* Queries on the queue file *)

WithStatus(S) == {t \in TaskIds : tasks[t].status \in S}

Signature(r) == <<r.kind, r.resource_key, r.freshness_key>>

\* Mutant: only pending tasks are looked at, as enqueue_task's docstring has it.
DedupHitsPending(sig) == {t \in WithStatus({"pending"}) : Signature(tasks[t]) = sig}

\* The pending or running tasks an enqueue of this signature is dropped for.
DedupHits(sig) == {t \in WithStatus(Active) : Signature(tasks[t]) = sig}

\* Mutant: one task too many is let in.
QueueFullLate == Cardinality(WithStatus({"pending"})) > QUEUE_PENDING_LIMIT

QueueFull == Cardinality(WithStatus({"pending"})) >= QUEUE_PENDING_LIMIT

\* Mutant: lease <= now instead of lease < now.
RunnableAtExpiry ==
    {t \in WithStatus(Active) :
        /\ tasks[t].kind \notin disabled
        /\ IF tasks[t].status = "pending" THEN tasks[t].run_after <= 0
                                          ELSE tasks[t].lease <= 0}

\* Mutant: running tasks with an expired lease are not taken up again.
RunnableUnlessRunning ==
    {t \in WithStatus({"pending"}) :
        tasks[t].kind \notin disabled /\ tasks[t].run_after <= 0}

Runnable ==
    {t \in WithStatus(Active) :
        /\ tasks[t].kind \notin disabled
        /\ IF tasks[t].status = "pending" THEN tasks[t].run_after <= 0
                                          ELSE tasks[t].lease = -1}

\* The sort key: -priority, run_after, created_at (the order of the list).
Precedes(t, u) ==
    \/ tasks[t].priority > tasks[u].priority
    \/ /\ tasks[t].priority = tasks[u].priority
       /\ \/ tasks[t].run_after < tasks[u].run_after
          \/ tasks[t].run_after = tasks[u].run_after /\ t < u

\* A failed task would count as well, but complete_task never stores "failed".
RecentlyTouched(kind, resource) ==
    \E t \in WithStatus({"done"}) :
        /\ tasks[t].kind = kind /\ tasks[t].resource_key = resource
        /\ tasks[t].age <= RECENTLY_TOUCHED_COOLDOWN

CanSelfEnqueue(j, child_kind) ==
    /\ child_kind \in SELF_ENQUEUE_WHITELIST[j.kind]
    /\ j.chain_depth + 1 <= MAX_CHAIN_DEPTH
    /\ j.spawn_budget_used + 1 <= MAX_CHILDREN_PER_TASK

-----------------------------------------------------------------------------
(* Enqueueing *)

\* The record enqueue_task appends; run_after is now.
NewTask(s, freshness, parent, root, depth) ==
    [status |-> "pending", kind |-> s.kind, resource_key |-> s.resource_key,
     freshness_key |-> freshness, write_set |-> s.write_set,
     priority |-> s.priority, parent |-> parent, root |-> root,
     chain_depth |-> depth, run_after |-> 0, lease |-> -1, age |-> 0,
     retry_count |-> 0]

AddRecord(record) ==
    /\ next_id \in TaskIds               \* bound: MaxTasks
    /\ tasks' = [tasks EXCEPT ![next_id] = record]
    /\ next_id' = next_id + 1

\* enqueue_task as the bootstraps and the admin endpoint call it.  Refused
\* calls (disabled kind, full queue, duplicate) leave the file as it is.
EnqueueTask(s, freshness) ==
    /\ s.kind \notin disabled
    /\ ~QueueFull
    /\ DedupHits(<<s.kind, s.resource_key, freshness>>) = {}
    /\ AddRecord(NewTask(s, freshness, 0, next_id, 0))
    /\ UNCHANGED <<disabled, pc, left, held, job, crashes, attempts, lapsed, overrun>>

-----------------------------------------------------------------------------
(* The worker's cycle *)

\* run_sagwan_task_worker begins by pruning what finished long ago.
StartCycle(w) ==
    /\ pc[w] = "off"
    /\ pc' = [pc EXCEPT ![w] = "draining"]
    /\ left' = [left EXCEPT ![w] = MAX_TASKS_PER_CYCLE]
    /\ tasks' = [t \in TaskIds |->
                    IF /\ tasks[t].status \in Finished
                       /\ tasks[t].age > DONE_PRUNE_AFTER
                    THEN NoTask ELSE tasks[t]]
    /\ UNCHANGED <<next_id, disabled, held, job, crashes, attempts, lapsed, overrun>>

\* dict(chosen); the stored spawn budget is always 0.
Copy(t) == [id |-> t, kind |-> tasks[t].kind, write_set |-> tasks[t].write_set,
            root |-> tasks[t].root, chain_depth |-> tasks[t].chain_depth,
            spawn_budget_used |-> 0, tried |-> 0, follow |-> 0]

ClaimNextTask(w) ==
    /\ pc[w] = "draining" /\ left[w] > 0
    /\ \E t \in Runnable :
        /\ \A u \in Runnable \ {t} : Precedes(t, u)
        /\ tasks' = [tasks EXCEPT ![t].status = "running",
                                  ![t].lease = LEASE_DURATION]
        /\ job' = [job EXCEPT ![w] = Copy(t)]
        /\ attempts' = [attempts EXCEPT ![t] = @ + 1]
    /\ pc' = [pc EXCEPT ![w] = "locking"]
    /\ left' = [left EXCEPT ![w] = @ - 1]
    /\ UNCHANGED <<next_id, disabled, held, crashes, lapsed, overrun>>

EndCycle(w) ==
    /\ pc[w] = "draining"
    /\ left[w] = 0 \/ Runnable = {}
    /\ pc' = [pc EXCEPT ![w] = "off"]
    /\ UNCHANGED <<tasks, next_id, disabled, left, held, job, crashes,
                   attempts, lapsed, overrun>>

\* acquire_path_locks waits for one lock at a time, in sorted order.
Wanted(w) == job[w].write_set \ held[w]
\* Mutants: the locks are not taken in order; each caller gets new locks.
IsAnyLock(w, p) == p \in Wanted(w)
IsFreeNewLock(p) == p \in Paths

IsNextLock(w, p) == p \in Wanted(w) /\ \A q \in Wanted(w) : p <= q
IsFree(p) == \A w \in Workers : p \notin held[w]

AcquirePathLock(w) ==
    /\ pc[w] = "locking"
    /\ \E p \in Paths :
        /\ IsNextLock(w, p) /\ IsFree(p)
        /\ held' = [held EXCEPT ![w] = @ \cup {p}]
        /\ pc' = [pc EXCEPT ![w] =
                    IF Wanted(w) = {p} THEN "working" ELSE "locking"]
    /\ UNCHANGED <<tasks, next_id, disabled, left, job, crashes, attempts, lapsed, overrun>>

\* Mutants: a retry is not counted; one retry too many is granted.
FailedUncounted(r) ==
    IF r.retry_count < DEFAULT_MAX_RETRIES
    THEN [r EXCEPT !.status = "pending", !.lease = -1,
                   !.run_after = RETRY_BACKOFF_BASE * 2 ^ r.retry_count]
    ELSE [r EXCEPT !.status = "dead_letter", !.age = 0, !.run_after = 0]

FailedOnceMore(r) ==
    IF r.retry_count <= DEFAULT_MAX_RETRIES
    THEN [r EXCEPT !.status = "pending", !.retry_count = @ + 1, !.lease = -1,
                   !.run_after = RETRY_BACKOFF_BASE * 2 ^ r.retry_count]
    ELSE [r EXCEPT !.status = "dead_letter", !.age = 0, !.run_after = 0]

\* complete_task("failed"): back to pending with backoff while the retry budget
\* lasts, dead_letter after it.  Neither the lease nor its owner is checked.
\* (run_after is not read of a finished task; it is cleared here.)
Failed(r) ==
    IF r.retry_count < DEFAULT_MAX_RETRIES
    THEN [r EXCEPT !.status = "pending", !.retry_count = @ + 1, !.lease = -1,
                   !.run_after = RETRY_BACKOFF_BASE * 2 ^ r.retry_count]
    ELSE [r EXCEPT !.status = "dead_letter", !.age = 0, !.run_after = 0]

Done(r) ==
    [r EXCEPT !.status = "done", !.age = 0, !.lease = -1, !.run_after = 0]

\* Whoever else has this task in hand: reclaimed from w, or w's before.
OthersOn(w) ==
    {v \in Workers \ {w} : pc[v] \in InHand /\ job[v].id = job[w].id}

\* A task pruned in the meantime is not found and nothing is written.  Whoever
\* reports decides of the task, and the claims of all others on it are void.
CompleteTask(w, result) ==
    LET t == job[w].id
    IN  /\ tasks' = IF tasks[t].status = "absent" THEN tasks
                    ELSE [tasks EXCEPT ![t] = result]
        /\ lapsed' = (lapsed \ {w}) \cup OthersOn(w)

FailTask(w) == CompleteTask(w, Failed(tasks[job[w].id]))
FinishTask(w) == CompleteTask(w, Done(tasks[job[w].id]))

\* The handler raises or returns "failed": an unreadable note, an LLM error or
\* the hourly LLM cap, all before it enqueues any follow-up.
HandlerFails(w) ==
    /\ pc[w] = "working"
    /\ FailTask(w)
    /\ pc' = [pc EXCEPT ![w] = "releasing"]
    /\ UNCHANGED <<next_id, disabled, left, held, job, crashes, attempts, overrun>>

\* The handler has its verdict and has written the notes it changes.
HandlerDecides(w) ==
    /\ pc[w] = "working"
    /\ pc' = [pc EXCEPT ![w] = "spawning"]
    /\ UNCHANGED <<tasks, next_id, disabled, left, held, job, crashes,
                   attempts, lapsed, overrun>>

HandlerSucceeds(w) ==
    /\ pc[w] = "spawning"
    /\ FinishTask(w)
    /\ pc' = [pc EXCEPT ![w] = "releasing"]
    /\ UNCHANGED <<next_id, disabled, left, held, job, crashes, attempts, overrun>>

ReleasePathLocks(w) ==
    /\ pc[w] = "releasing"
    /\ held' = [held EXCEPT ![w] = {}]
    /\ job' = [job EXCEPT ![w] = NoJob]
    /\ pc' = [pc EXCEPT ![w] = "draining"]
    /\ UNCHANGED <<tasks, next_id, disabled, left, crashes, attempts, lapsed, overrun>>

-----------------------------------------------------------------------------
(* Follow-up tasks *)

ChildKind == "check_capsule_maintenance"

\* cited[: MAX_CHILDREN_PER_TASK] notes after maintenance, one after a
\* consolidation, none elsewhere.
FollowUps(kind) ==
    CASE kind = "check_capsule_maintenance" -> MAX_CHILDREN_PER_TASK
      [] kind = "consolidate_review" -> 1
      [] OTHER -> 0

\* The worker's copy as it tries a follow-up for note p, spends its budget on
\* one, and drops one.
Trying(j, p) == [j EXCEPT !.tried = @ + 1, !.follow = p]
Spent(j) == [j EXCEPT !.spawn_budget_used = @ + 1, !.follow = 0]
Dropped(j) == [j EXCEPT !.follow = 0]

\* self_enqueue, up to the end of recently_touched: the queue lock is released
\* between this check and the enqueue it permits.
SelfEnqueueCheck(w) ==
    /\ pc[w] = "spawning"
    /\ job[w].tried < FollowUps(job[w].kind)
    /\ \E p \in Paths :
        LET allowed == /\ CanSelfEnqueue(job[w], ChildKind)
                       /\ ~RecentlyTouched(ChildKind, p)
        IN  /\ job' = [job EXCEPT ![w] = Trying(@, IF allowed THEN p ELSE 0)]
            /\ pc' = [pc EXCEPT ![w] = IF allowed THEN "cooled" ELSE "spawning"]
    /\ UNCHANGED <<tasks, next_id, disabled, left, held, crashes, attempts, lapsed, overrun>>

\* Mutant: the parent is taken for the root of the chain.
ChildTaskOfParent(j, freshness) ==
    NewTask([kind |-> ChildKind, resource_key |-> j.follow,
             write_set |-> {j.follow}, priority |-> 0],
            freshness, j.id, j.id, j.chain_depth + 1)

\* Mutant: the child is as deep as its parent.
ChildTaskSameDepth(j, freshness) ==
    NewTask([kind |-> ChildKind, resource_key |-> j.follow,
             write_set |-> {j.follow}, priority |-> 0],
            freshness, j.id, j.root, j.chain_depth)

\* Spawned by the task of job j: of its root, and one deeper in the chain.
ChildTask(j, freshness) ==
    NewTask([kind |-> ChildKind, resource_key |-> j.follow,
             write_set |-> {j.follow}, priority |-> 0],
            freshness, j.id, j.root, j.chain_depth + 1)

\* The child is created, and the budget of the worker's copy spent.
SelfEnqueue(w) ==
    /\ pc[w] = "cooled"
    /\ ChildKind \notin disabled
    /\ ~QueueFull
    /\ \E f \in Freshness :
        /\ DedupHits(<<ChildKind, job[w].follow, f>>) = {}
        /\ AddRecord(ChildTask(job[w], f))
    /\ job' = [job EXCEPT ![w] = Spent(@)]
    /\ pc' = [pc EXCEPT ![w] = "spawning"]
    /\ UNCHANGED <<disabled, left, held, crashes, attempts, lapsed, overrun>>

\* A disabled kind returns None; a duplicate returns the existing task, which
\* spends the budget as a new one would.
SelfEnqueueDeclined(w) ==
    /\ pc[w] = "cooled"
    /\ \/ /\ ChildKind \in disabled
          /\ job' = [job EXCEPT ![w] = Dropped(@)]
       \/ /\ ChildKind \notin disabled /\ ~QueueFull
          /\ \E f \in Freshness : DedupHits(<<ChildKind, job[w].follow, f>>) # {}
          /\ job' = [job EXCEPT ![w] = Spent(@)]
       \/ /\ next_id > MaxTasks           \* bound: the follow-up is dropped
          /\ job' = [job EXCEPT ![w] = Dropped(@)]
    /\ pc' = [pc EXCEPT ![w] = "spawning"]
    /\ UNCHANGED <<tasks, next_id, disabled, left, held, crashes, attempts, lapsed, overrun>>

\* The full queue raises: maintenance lets it out and the task fails after its
\* earlier follow-ups were created; consolidation swallows it.
SelfEnqueueRaises(w) ==
    /\ pc[w] = "cooled"
    /\ ChildKind \notin disabled
    /\ QueueFull
    /\ IF job[w].kind = "check_capsule_maintenance"
       THEN /\ FailTask(w)
            /\ pc' = [pc EXCEPT ![w] = "releasing"]
       ELSE /\ pc' = [pc EXCEPT ![w] = "spawning"]
            /\ UNCHANGED <<tasks, lapsed>>
    /\ job' = [job EXCEPT ![w] = Dropped(@)]
    /\ UNCHANGED <<next_id, disabled, left, held, crashes, attempts, overrun>>

-----------------------------------------------------------------------------
(* The environment *)

\* PUT /api/admin/sagwan/settings switches a kind off or on.
ToggleKind(k) ==
    /\ disabled' = IF k \in disabled THEN disabled \ {k} ELSE disabled \cup {k}
    /\ UNCHANGED <<tasks, next_id, pc, left, held, job, crashes, attempts, lapsed, overrun>>

\* The process dies and restarts: the file stays, locks and workers are gone.
Crash ==
    /\ crashes < MaxCrashes
    /\ crashes' = crashes + 1
    /\ pc' = [w \in Workers |-> "off"]
    /\ left' = [w \in Workers |-> 0]
    /\ held' = [w \in Workers |-> {}]
    /\ job' = [w \in Workers |-> NoJob]
    /\ lapsed' = {}
    /\ UNCHANGED <<tasks, next_id, disabled, attempts, overrun>>

\* Past stamps only keep their order: each moves back just behind the stamps
\* that follow it, so a task that waits for long leaves a finite state space.
PastStamps == {s \in {tasks[t].run_after : t \in WithStatus(Active)} : s <= 0}
AgedStamp(s) ==
    IF s > 0 THEN s - 1 ELSE -1 - Cardinality({q \in PastStamps : q > s})

Aged(r) ==
    CASE r.status \in Active ->
            [r EXCEPT !.run_after = AgedStamp(r.run_after),
                      !.lease = IF r.lease > -1 THEN r.lease - 1 ELSE -1]
      [] r.status \in Finished ->
            [r EXCEPT !.age = IF @ <= DONE_PRUNE_AFTER THEN @ + 1 ELSE @]
      [] OTHER -> r

\* The workers whose lease runs out with their task still in hand.
Overrunning ==
    {w \in Workers \ lapsed : pc[w] \in InHand /\ tasks[job[w].id].lease = 0}

\* A lease lasts 600 seconds, waits for path locks and LLM calls included, and
\* nothing stops a handler when it is over.
Tick ==
    /\ tasks' = [t \in TaskIds |-> Aged(tasks[t])]
    /\ lapsed' = lapsed \cup Overrunning
    /\ overrun' = overrun \cup {t \in TaskIds : \E w \in Overrunning : job[w].id = t}
    /\ UNCHANGED <<next_id, disabled, pc, left, held, job, crashes, attempts>>

-----------------------------------------------------------------------------
Init ==
    /\ tasks = [t \in TaskIds |-> NoTask]
    /\ next_id = 1
    /\ disabled = {}
    /\ pc = [w \in Workers |-> "off"]
    /\ left = [w \in Workers |-> 0]
    /\ held = [w \in Workers |-> {}]
    /\ job = [w \in Workers |-> NoJob]
    /\ crashes = 0
    /\ attempts = [t \in TaskIds |-> 0]
    /\ lapsed = {}
    /\ overrun = {}

\* What is left of a cycle once it has begun.
CycleStep(w) ==
    \/ ClaimNextTask(w) \/ EndCycle(w)
    \/ AcquirePathLock(w) \/ ReleasePathLocks(w)
    \/ HandlerFails(w) \/ HandlerDecides(w) \/ HandlerSucceeds(w)
    \/ SelfEnqueueCheck(w) \/ SelfEnqueue(w) \/ SelfEnqueueDeclined(w)
    \/ SelfEnqueueRaises(w)

WorkerStep(w) == StartCycle(w) \/ CycleStep(w)

Next ==
    \/ \E s \in Seeds, f \in Freshness : EnqueueTask(s, f)
    \/ \E w \in Workers : WorkerStep(w)
    \/ \E k \in Disableable : ToggleKind(k)
    \/ Crash
    \/ Tick

Spec == Init /\ [][Next]_vars

\* The curation loop starts cycle after cycle, every LLM call has a timeout so a
\* cycle goes on to its end, and time passes; nobody has to enqueue, to request a
\* cycle, to crash or to change the settings.
Fairness ==
    /\ WF_vars(Tick)
    /\ \A w \in LoopWorkers : WF_vars(StartCycle(w))
    /\ \A w \in Workers : WF_vars(CycleStep(w))

FairSpec == Spec /\ Fairness

-----------------------------------------------------------------------------
(* Properties *)

\* Every variable keeps to the shape the code gives it.
TypeOK ==
    /\ tasks \in [TaskIds -> Task]
    /\ next_id \in 1..(MaxTasks + 1)
    /\ disabled \subseteq SAGWAN_TASK_KINDS
    /\ pc \in [Workers -> PC]
    /\ left \in [Workers -> 0..MAX_TASKS_PER_CYCLE]
    /\ held \in [Workers -> SUBSET Paths]
    /\ job \in [Workers -> Job]
    /\ crashes \in 0..MaxCrashes
    /\ attempts \in [TaskIds -> Nat]
    /\ lapsed \subseteq Workers
    /\ overrun \subseteq TaskIds

\* Freshness dedup: an unchanged note never has two open tasks of one kind, in
\* spite of retries, crashes and reclaims after the enqueue's check; only a task
\* whose lease was overrun may come back beside a younger one.
UniqueOpenTask ==
    \A t, u \in WithStatus(Active) :
        Signature(tasks[t]) = Signature(tasks[u]) /\ t < u => t \in overrun

\* A task in the hands of a worker whose claim is good is running and in no other
\* such hands: before its lease is over its record is not claimed, retried or
\* finished behind its back but by one who overran an earlier lease.
ExclusiveExecution ==
    \A w \in Workers \ lapsed : pc[w] \in InHand =>
        /\ tasks[job[w].id].status = "running"
        /\ \A v \in OthersOn(w) : v \in lapsed

\* No two handlers execute at once on overlapping write sets.
WriteSetExclusion ==
    \A w, v \in Workers :
        /\ w # v
        /\ pc[w] \in InHand \ {"locking"} /\ pc[v] \in InHand \ {"locking"}
        => job[w].write_set \cap job[v].write_set = {}

\* Path locks cannot deadlock: when workers wait for locks, one of them can
\* take its next lock or some lock holder is past acquiring.
NoLockDeadlock ==
    (\E w \in Workers : pc[w] = "locking") =>
        \E w \in Workers :
            \/ pc[w] \in (InHand \ {"locking"}) \cup {"releasing"}
            \/ pc[w] = "locking" /\ \E p \in Paths : IsNextLock(w, p) /\ IsFree(p)

\* Follow-up chains stay bounded and attributable: a task is no deeper than the
\* limit, and one deeper than and of the same root as the task that spawned it.
LineageBounded ==
    \A t \in TaskIds : tasks[t].status # "absent" =>
        /\ tasks[t].chain_depth <= MAX_CHAIN_DEPTH
        /\ tasks[t].chain_depth = 0 <=> tasks[t].root = t
        /\ LET p == tasks[t].parent
           IN  p # 0 =>
                 /\ p < t
                 /\ tasks[p].status # "absent" =>
                       /\ tasks[p].root = tasks[t].root
                       /\ tasks[p].chain_depth + 1 = tasks[t].chain_depth

\* The retry budget bounds execution: beyond its first run and its retries a
\* task is executed again at most once for each crash of the process; when a
\* lease of it was overrun, at most so often by each worker.
AttemptsBounded ==
    \A t \in TaskIds : tasks[t].status # "absent" =>
        attempts[t] <= (IF t \in overrun THEN Cardinality(Workers) ELSE 1)
                          * (tasks[t].retry_count + 1 + crashes)

\* The open backlog never outgrows the pending limit by more than the tasks
\* that workers hold or crashes have orphaned (a retry is not refused).
BacklogBounded ==
    Cardinality(WithStatus(Active))
        <= QUEUE_PENDING_LIMIT + Cardinality(Workers) * (1 + crashes)

FinishedStay ==
    \A t \in WithStatus(Finished) :
        \/ tasks'[t].status \in {tasks[t].status, "absent"}
        \/ \E w \in lapsed : /\ job[w].id = t /\ pc'[w] = "releasing"
                            /\ tasks'[t].status \in Finished \cup {"pending"}

\* What is done or dead-lettered stays so until pruning: no step revives it,
\* overwrites its verdict or has it executed again, but the report of a worker
\* that has lost the task and was still at it.
FinishedIsFinal == [][FinishedStay]_vars

\* The backlog drains: once nothing is seeded any more, every task ends done or
\* dead-lettered, whatever fails, crashes or overruns its lease on the way.
BacklogDrains == <>[](WithStatus(Active) = {})

-----------------------------------------------------------------------------
(* What comments of the code say and the code does not do *)

\* MAX_CHILDREN_PER_TASK, "would exceed .. children/task".
ChildrenPerTask ==
    \A t \in TaskIds :
        Cardinality({c \in TaskIds : tasks[c].parent = t}) <= MAX_CHILDREN_PER_TASK

\* "don't self-enqueue same (kind, resource) inside this window": no follow-up
\* is created for a note whose task of that kind finished within the cooldown.
CooldownRespected ==
    [][\A t \in TaskIds, u \in WithStatus(Finished) :
          /\ tasks[t].status = "absent" /\ tasks'[t].parent # 0
          /\ tasks[u].kind = tasks'[t].kind
          /\ tasks[u].resource_key = tasks'[t].resource_key
          => tasks[u].age > RECENTLY_TOUCHED_COOLDOWN]_vars

----------------------------------------------------------------------------
(* The queue as an implementation of TaskLifecycle: a record of the file   *)
(* is the task, gone from the file it is absent before next_id reaches it  *)
(* and forgotten after, and a worker has in hand what it claimed until its *)
(* complete_task, late once its claim has lapsed.                          *)

TaskOf(t) ==
    IF tasks[t].status = "absent"
    THEN [stage |-> IF t >= next_id THEN "absent" ELSE "forgotten"]
    ELSE [stage |-> IF tasks[t].status \in Active THEN "open" ELSE "finished",
          note |-> Signature(tasks[t]),
          retries |-> tasks[t].retry_count]

InHandOf(w) == IF pc[w] \in InHand THEN job[w].id ELSE 0

TaskMap == [t \in TaskIds |-> TaskOf(t)]
HandMap == [w \in Workers |-> IF w \in lapsed THEN 0 ELSE InHandOf(w)]
LateMap == [w \in Workers |-> IF w \in lapsed THEN InHandOf(w) ELSE 0]
Notes == SAGWAN_TASK_KINDS \X Paths \X Freshness

Lifecycle == INSTANCE TaskLifecycle WITH
    Tasks <- TaskIds, Retries <- DEFAULT_MAX_RETRIES, NoTask <- 0,
    task <- TaskMap, hand <- HandMap, late <- LateMap

\* Whatever workers, crashes, retries, overrun leases, follow-ups and pruning do
\* in between, those who use the queue see the lifecycle it promises.
LifecycleKept == Lifecycle!Spec
=============================================================================
