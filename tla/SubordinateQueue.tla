-------------------------- MODULE SubordinateQueue --------------------------
(***************************************************************************)
(* The queue of the Subordinate, a worker without an LLM (closed-web/      *)
(* server/app/subordinate.py), with the loop of main.py's lifespan that    *)
(* runs it when woken, the requests of admins that run it beside the loop, *)
(* and the curation stage that feeds it periodic scans.                    *)
(*                                                                         *)
(* Queue functions run under _QUEUE_LOCK; one that saves the file leaves   *)
(* it truncated until WriteQueue.  A finished task stays in the file for a *)
(* week to be listed and is read by nothing else: it leaves the model's    *)
(* queue at once, and its later pruning is not a step.                     *)
(***************************************************************************)
EXTENDS Integers, SequencesExt

CONSTANTS
    Loop,                   \* the worker that subordinate_loop runs
    Requests,               \* threads that run a cycle for an admin
    Curators,               \* threads that enqueue the signal scans
    Kinds,                  \* task kinds in use
    ScanKinds,              \* those of the signal scans
    DedupKinds,             \* those with a dedup key; one payload of each
    Offers,                 \* what tools and endpoints enqueue
    SettingsDocs,           \* settings an admin may store
    QUEUE_PENDING_LIMIT,
    MAX_TASKS_PER_RUN,      \* setting max_tasks_per_run
    MaxDelay,               \* bound: how far ahead run_after lies
    MaxLate,                \* bound: how long a cycle takes
    MaxWakes,               \* bound: wake-ups under way
    MaxTasks,               \* bound: open tasks in the file
    MaxCrashes              \* bound: process crashes

Workers == {Loop} \cup Requests
TaskIds == 1..MaxTasks

\* run_after is an ISO date or what else a caller passed for one.
Offer == [kind : Kinds, run_after : 0..MaxDelay, garbled : BOOLEAN]
Settings == [enabled : BOOLEAN, kinds : SUBSET Kinds]

ASSUME KindsAssumption == ScanKinds \subseteq Kinds /\ DedupKinds \subseteq Kinds
ASSUME OffersAssumption == Offers \subseteq Offer
ASSUME SettingsAssumption ==
    /\ SettingsDocs \subseteq Settings
    /\ \A s \in SettingsDocs : s.kinds # {}
ASSUME ThreadsAssumption == Loop \notin Requests /\ IsFiniteSet(Curators)
ASSUME KnobsAssumption ==
    /\ QUEUE_PENDING_LIMIT \in Nat \ {0} /\ MAX_TASKS_PER_RUN \in Nat \ {0}
    /\ MaxDelay \in Nat /\ MaxLate \in Nat /\ MaxWakes \in Nat
    /\ MaxTasks \in Nat /\ MaxCrashes \in Nat

VARIABLES
    tasks,          \* the open tasks, by identifier
    order,          \* their order in the file's list
    saving,         \* the file is truncated and not yet written
    settings,       \* the settings file
    pc,             \* where each worker is
    kinds,          \* enabled_task_types as the worker's cycle read them
    late,           \* how long ago its cycle took the time
    left,           \* tasks it may still claim
    job,            \* the task it executes
    loop,           \* where subordinate_loop is
    wake_event,
    wakes,          \* threads that enqueued and have not set the event yet
    todo,           \* scans each curator still has to enqueue
    crashes,
    unseen          \* history: a task was added since the loop last set out

queue == <<tasks, order, saving>>
cycles == <<pc, kinds, late, left, job>>
wakeup == <<loop, wake_event, wakes, unseen>>
vars == <<queue, cycles, wakeup, settings, todo, crashes>>

Task == [status : {"absent", "pending", "running"}, kind : Kinds \cup {"none"},
         run_after : (-MaxLate)..MaxDelay, garbled : BOOLEAN]

NoTask == [status |-> "absent", kind |-> "none", run_after |-> 0,
           garbled |-> FALSE]

-----------------------------------------------------------------------------
(* Queries on the queue file *)

WithStatus(S) == {t \in TaskIds : tasks[t].status \in S}

QueueFull == Cardinality(WithStatus({"pending"})) >= QUEUE_PENDING_LIMIT

Duplicates(kind) ==
    {t \in WithStatus({"pending"}) :
        kind \in DedupKinds /\ tasks[t].kind = kind}

\* Mutant: a scan that runs does not count as live.
LiveKindsPending == {tasks[t].kind : t \in WithStatus({"pending"})}

\* Kinds with a pending or running task, as the signal scans look them up.
LiveKinds == {tasks[t].kind : t \in WithStatus({"pending", "running"})}

\* Mutant: a running task is taken for one that waits.
StopsAtRunning(w) ==
    {i \in 1..Len(order) :
        LET r == tasks[order[i]]
        IN  r.kind \in kinds[w] /\ (r.garbled \/ r.run_after <= -late[w])}

\* What stops a cycle's search through the list: a task due when the cycle took
\* the time, or one whose run_after cannot be read.
Stops(w) ==
    {i \in 1..Len(order) :
        LET r == tasks[order[i]]
        IN  /\ r.status = "pending" /\ r.kind \in kinds[w]
            /\ r.garbled \/ r.run_after <= -late[w]}

FirstStop(w, i) == i \in Stops(w) /\ \A j \in Stops(w) : i <= j

-----------------------------------------------------------------------------
(* Enqueueing *)

\* The new task is saved under the lock, and its thread is to wake the loop.
AddTask(offer) ==
    /\ wakes < MaxWakes                             \* bound
    /\ \E t \in WithStatus({"absent"}) :            \* bound: MaxTasks
        /\ \A u \in WithStatus({"absent"}) : t <= u
        /\ tasks' = [tasks EXCEPT ![t] =
                        [status |-> "pending", kind |-> offer.kind,
                         run_after |-> offer.run_after,
                         garbled |-> offer.garbled]]
        /\ order' = Append(order, t)
    /\ saving' = TRUE
    /\ wakes' = wakes + 1
    /\ unseen' = TRUE
    /\ UNCHANGED <<loop, wake_event>>

\* enqueue_subordinate_task; a full queue raises, a duplicate returns the task
\* that is pending, and neither changes or wakes anything.
Enqueue(offer) ==
    /\ ~saving
    /\ ~QueueFull
    /\ Duplicates(offer.kind) = {}
    /\ AddTask(offer)
    /\ UNCHANGED <<cycles, settings, todo, crashes>>

\* The rest of _save_queue: the truncated file is written.
WriteQueue ==
    /\ saving
    /\ saving' = FALSE
    /\ UNCHANGED <<tasks, order, cycles, wakeup, settings, todo, crashes>>

\* _trigger_wake has the event loop set the event.
TriggerWake ==
    /\ ~saving
    /\ wakes > 0
    /\ wake_event' = TRUE
    /\ wakes' = wakes - 1
    /\ UNCHANGED <<queue, cycles, loop, unseen, settings, todo, crashes>>

\* The signal-scan stage looks for live tasks of its kinds, lets go of the lock
\* and then enqueues the missing ones.
ReadLiveKinds(c) ==
    /\ ~saving
    /\ todo[c] = {}
    /\ todo' = [todo EXCEPT ![c] = ScanKinds \ LiveKinds]
    /\ UNCHANGED <<queue, cycles, wakeup, settings, crashes>>

\* A full queue is only logged.
EnqueueScan(c) ==
    /\ ~saving
    /\ \E k \in todo[c] :
        /\ \/ /\ ~QueueFull
              /\ AddTask([kind |-> k, run_after |-> 0, garbled |-> FALSE])
           \/ /\ QueueFull
              /\ UNCHANGED <<queue, wakeup>>
        /\ todo' = [todo EXCEPT ![c] = @ \ {k}]
    /\ UNCHANGED <<cycles, settings, crashes>>

-----------------------------------------------------------------------------
(* The worker's cycle *)

\* An admin requests a cycle.
RequestCycle(w) ==
    /\ pc[w] = "off" /\ w \in Requests
    /\ pc' = [pc EXCEPT ![w] = "starting"]
    /\ UNCHANGED <<queue, kinds, late, left, job, wakeup, settings, todo,
                   crashes>>

\* Mutant: the event is cleared when the cycle is over.
LeaveAndClear(w, rest) ==
    /\ pc' = [pc EXCEPT ![w] = "off"]
    /\ kinds' = [kinds EXCEPT ![w] = {}]
    /\ late' = [late EXCEPT ![w] = 0]
    /\ left' = [left EXCEPT ![w] = 0]
    /\ loop' = IF w = Loop THEN rest ELSE loop
    /\ wake_event' = IF w = Loop THEN FALSE ELSE wake_event
    /\ UNCHANGED <<wakes, unseen>>

\* The cycle is over, its locals are gone; the loop waits, or after an exception
\* sleeps.
Leave(w, rest) ==
    /\ pc' = [pc EXCEPT ![w] = "off"]
    /\ kinds' = [kinds EXCEPT ![w] = {}]
    /\ late' = [late EXCEPT ![w] = 0]
    /\ left' = [left EXCEPT ![w] = 0]
    /\ loop' = IF w = Loop THEN rest ELSE loop
    /\ UNCHANGED <<wake_event, wakes, unseen>>

\* run_subordinate_cycle reads the settings, and the time once for all tasks.
StartCycle(w) ==
    /\ pc[w] = "starting"
    /\ settings.enabled
    /\ pc' = [pc EXCEPT ![w] = "claiming"]
    /\ kinds' = [kinds EXCEPT ![w] = settings.kinds]
    /\ left' = [left EXCEPT ![w] = MAX_TASKS_PER_RUN]
    /\ UNCHANGED <<queue, late, job, wakeup, settings, todo, crashes>>

SkipCycle(w) ==
    /\ pc[w] = "starting"
    /\ ~settings.enabled
    /\ Leave(w, "waiting")
    /\ UNCHANGED <<queue, job, settings, todo, crashes>>

\* Mutant: the cap of a cycle is not checked.
ClaimTaskUncapped(w) ==
    /\ ~saving
    /\ pc[w] = "claiming"
    /\ \E i \in 1..Len(order) :
        /\ FirstStop(w, i) /\ ~tasks[order[i]].garbled
        /\ tasks' = [tasks EXCEPT ![order[i]].status = "running"]
        /\ job' = [job EXCEPT ![w] = order[i]]
    /\ saving' = TRUE
    /\ pc' = [pc EXCEPT ![w] = "running"]
    /\ left' = [left EXCEPT ![w] = @ - 1]
    /\ UNCHANGED <<order, kinds, late, wakeup, settings, todo, crashes>>

\* The first stop is a task: it is running from here on.
ClaimTask(w) ==
    /\ ~saving
    /\ pc[w] = "claiming" /\ left[w] > 0
    /\ \E i \in 1..Len(order) :
        /\ FirstStop(w, i) /\ ~tasks[order[i]].garbled
        /\ tasks' = [tasks EXCEPT ![order[i]].status = "running"]
        /\ job' = [job EXCEPT ![w] = order[i]]
    /\ saving' = TRUE
    /\ pc' = [pc EXCEPT ![w] = "running"]
    /\ left' = [left EXCEPT ![w] = @ - 1]
    /\ UNCHANGED <<order, kinds, late, wakeup, settings, todo, crashes>>

\* The date of the first stop does not parse: the exception leaves the cycle.
CycleRaises(w) ==
    /\ ~saving
    /\ pc[w] = "claiming" /\ left[w] > 0
    /\ \E i \in 1..Len(order) : FirstStop(w, i) /\ tasks[order[i]].garbled
    /\ Leave(w, "asleep")
    /\ UNCHANGED <<queue, job, settings, todo, crashes>>

\* Mutant: a handler's exception leaves the record as it is.
ReportUnlessFailed(w) ==
    /\ ~saving
    /\ pc[w] = "running"
    /\ \/ /\ \E i \in 1..Len(order) :
                /\ order[i] = job[w]
                /\ tasks' = [tasks EXCEPT ![job[w]] = NoTask]
                /\ order' = RemoveAt(order, i)
          /\ saving' = TRUE
       \/ UNCHANGED queue
    /\ pc' = [pc EXCEPT ![w] = "claiming"]
    /\ job' = [job EXCEPT ![w] = 0]
    /\ UNCHANGED <<kinds, late, left, wakeup, settings, todo, crashes>>

\* The task is done or failed: its record is looked up and closed.
Report(w) ==
    /\ ~saving
    /\ pc[w] = "running"
    /\ \E i \in 1..Len(order) :
        /\ order[i] = job[w]
        /\ tasks' = [tasks EXCEPT ![job[w]] = NoTask]
        /\ order' = RemoveAt(order, i)
    /\ saving' = TRUE
    /\ pc' = [pc EXCEPT ![w] = "claiming"]
    /\ job' = [job EXCEPT ![w] = 0]
    /\ UNCHANGED <<kinds, late, left, wakeup, settings, todo, crashes>>

EndCycle(w) ==
    /\ ~saving
    /\ pc[w] = "claiming"
    /\ left[w] = 0 \/ Stops(w) = {}
    /\ Leave(w, "waiting")
    /\ UNCHANGED <<queue, job, settings, todo, crashes>>

-----------------------------------------------------------------------------
(* subordinate_loop and the environment *)

\* The event is cleared before the cycle that answers it.
LoopSetsOut ==
    /\ loop = "top"
    /\ wake_event' = FALSE
    /\ unseen' = FALSE
    /\ IF settings.enabled
       THEN /\ loop' = "cycle"
            /\ pc' = [pc EXCEPT ![Loop] = "starting"]
       ELSE /\ loop' = "waiting"
            /\ UNCHANGED pc
    /\ UNCHANGED <<queue, kinds, late, left, job, wakes, settings, todo, crashes>>

\* Mutant: the wait for the event has no timeout.
LoopResumesWhenWoken ==
    /\ (loop = "waiting" /\ wake_event) \/ loop = "asleep"
    /\ loop' = "top"
    /\ UNCHANGED <<queue, cycles, wake_event, wakes, unseen, settings, todo,
                   crashes>>

\* The event is set, the heartbeat times out, or the sleep after an error ends.
LoopResumes ==
    /\ \/ loop = "waiting" /\ wake_event
       \/ loop = "waiting" /\ ~wake_event              \* asyncio.TimeoutError
       \/ loop = "asleep"
    /\ loop' = "top"
    /\ UNCHANGED <<queue, cycles, wake_event, wakes, unseen, settings, todo,
                   crashes>>

ChangeSettings(s) ==
    /\ settings' = s
    /\ UNCHANGED <<queue, cycles, wakeup, todo, crashes>>

\* The process dies and restarts.  A file that is truncated or half written is
\* read as an empty queue.
Crash ==
    /\ crashes < MaxCrashes
    /\ crashes' = crashes + 1
    /\ IF saving
       THEN tasks' = [t \in TaskIds |-> NoTask] /\ order' = <<>>
       ELSE UNCHANGED <<tasks, order>>
    /\ saving' = FALSE
    /\ pc' = [w \in Workers |-> "off"]
    /\ kinds' = [w \in Workers |-> {}]
    /\ late' = [w \in Workers |-> 0]
    /\ left' = [w \in Workers |-> 0]
    /\ job' = [w \in Workers |-> 0]
    /\ loop' = "top" /\ wake_event' = FALSE /\ wakes' = 0 /\ unseen' = FALSE
    /\ todo' = [c \in Curators |-> {}]
    /\ UNCHANGED settings

InCycle(w) == pc[w] \in {"claiming", "running"}

Nearer(r) ==
    IF r.status = "pending" /\ ~r.garbled /\ r.run_after > -MaxLate
    THEN [r EXCEPT !.run_after = @ - 1] ELSE r

Tick ==
    /\ \A w \in Workers : InCycle(w) => late[w] < MaxLate       \* bound
    /\ tasks' = [t \in TaskIds |-> Nearer(tasks[t])]
    /\ late' = [w \in Workers |-> IF InCycle(w) THEN late[w] + 1 ELSE 0]
    /\ UNCHANGED <<order, saving, pc, kinds, left, job, wakeup, settings, todo,
                   crashes>>

-----------------------------------------------------------------------------
Init ==
    /\ tasks = [t \in TaskIds |-> NoTask]
    /\ order = <<>>
    /\ saving = FALSE
    /\ settings \in SettingsDocs
    /\ pc = [w \in Workers |-> "off"]
    /\ kinds = [w \in Workers |-> {}]
    /\ late = [w \in Workers |-> 0]
    /\ left = [w \in Workers |-> 0]
    /\ job = [w \in Workers |-> 0]
    /\ loop = "top" /\ wake_event = FALSE /\ wakes = 0 /\ unseen = FALSE
    /\ todo = [c \in Curators |-> {}]
    /\ crashes = 0

CycleStep(w) ==
    \/ StartCycle(w) \/ SkipCycle(w) \/ ClaimTask(w) \/ CycleRaises(w)
    \/ Report(w) \/ EndCycle(w)

Next ==
    \/ \E offer \in Offers : Enqueue(offer)
    \/ WriteQueue
    \/ TriggerWake
    \/ \E c \in Curators : ReadLiveKinds(c) \/ EnqueueScan(c)
    \/ \E w \in Workers : RequestCycle(w) \/ CycleStep(w)
    \/ LoopSetsOut
    \/ LoopResumes
    \/ \E s \in SettingsDocs : ChangeSettings(s)
    \/ Crash
    \/ Tick

Spec == Init /\ [][Next]_vars

\* The event loop and the threads it started go on, every handler returns (its
\* HTTP calls have timeouts), the curation cycle comes back to its scans, and
\* time passes; nobody has to enqueue, request a cycle, change settings or crash.
Fairness ==
    /\ WF_vars(WriteQueue) /\ WF_vars(TriggerWake)
    /\ \A w \in Workers : WF_vars(CycleStep(w))
    /\ \A c \in Curators : WF_vars(ReadLiveKinds(c)) /\ WF_vars(EnqueueScan(c))
    /\ WF_vars(LoopSetsOut) /\ WF_vars(LoopResumes)
    /\ WF_vars(Tick)

FairSpec == Spec /\ Fairness

-----------------------------------------------------------------------------
(* Properties *)

\* The list holds the open tasks, each once.
ListOK ==
    /\ order \in Seq(TaskIds)
    /\ \A t \in TaskIds :
        tasks[t].status # "absent" <=> \E i \in 1..Len(order) : order[i] = t
    /\ \A i, j \in 1..Len(order) : order[i] = order[j] => i = j

\* Every variable keeps to the shape the code gives it, and the list to the
\* records.
TypeOK ==
    /\ tasks \in [TaskIds -> Task]
    /\ ListOK
    /\ saving \in BOOLEAN
    /\ settings \in Settings
    /\ pc \in [Workers -> {"off", "starting", "claiming", "running"}]
    /\ kinds \in [Workers -> SUBSET Kinds]
    /\ late \in [Workers -> 0..MaxLate]
    /\ left \in [Workers -> 0..MAX_TASKS_PER_RUN]
    /\ job \in [Workers -> 0..MaxTasks]
    /\ loop \in {"top", "cycle", "waiting", "asleep"}
    /\ wake_event \in BOOLEAN /\ wakes \in 0..MaxWakes /\ unseen \in BOOLEAN
    /\ todo \in [Curators -> SUBSET ScanKinds]
    /\ crashes \in 0..MaxCrashes

\* The loop's cycle and those of admins never execute one task twice at once,
\* and what they execute is still marked as theirs when they report.
ExclusiveExecution ==
    \A w \in Workers : pc[w] = "running" =>
        /\ job[w] \in TaskIds /\ tasks[job[w]].status = "running"
        /\ \A v \in Workers \ {w} : pc[v] = "running" => job[v] # job[w]

\* No wake-up is lost: when the loop waits with its event unset and no thread is
\* about to set it, nothing was added since the loop last set out.
NoLostWake ==
    loop = "waiting" /\ ~wake_event /\ wakes = 0 => ~unseen

AllOn == settings.enabled /\ settings.kinds = Kinds

\* Every pending task with a readable date is taken up in the end, whatever is
\* added around it and although a cycle stops at its cap and only the heartbeat
\* follows a delay, once its kind stays switched on.
TasksServed ==
    <>[]AllOn =>
        \A t \in TaskIds :
            tasks[t].status = "pending" /\ ~tasks[t].garbled
                ~> tasks[t].status # "pending"

\* Scans that nobody enqueues by hand, as admins and the librarian may.
OwnScans == ScanKinds \ {offer.kind : offer \in Offers}

Copies(kind) == {t \in WithStatus({"pending", "running"}) : tasks[t].kind = kind}

\* Curation cycles that race enqueue a scan twice, but no more often than there
\* are such cycles, however many of their rounds interleave with its runs.
ScanCopiesBounded ==
    \A k \in OwnScans : Cardinality(Copies(k)) <= Cardinality(Curators)

\* Each signal scan runs again and again.
ScansRecur ==
    <>[]AllOn =>
        \A k \in ScanKinds :
            []<>(\E w \in Workers : pc[w] = "running" /\ tasks[job[w]].kind = k)

-----------------------------------------------------------------------------
(* What comments of the code say and the code does not do *)

\* "Writes the queue file atomically": a crash loses the task that was being
\* added at most.
SavedAtomically ==
    [][crashes' # crashes =>
         Cardinality(WithStatus({"absent"}))' <= Cardinality(WithStatus({"absent"})) + 1]_vars
=============================================================================
