---------------------------- MODULE QueuesProofs ----------------------------
(***************************************************************************)
(* Theorems about SubordinateQueue, for every set of requesting threads,   *)
(* kinds, offers and settings, and every value of the limits; and about    *)
(* the two queues of MCQueues.                                             *)
(***************************************************************************)
EXTENDS MCQueues, FiniteSetTheorems, TLAPS

LEMMA NoTaskType == NoTask \in Task
  BY KnobsAssumption DEF NoTask, Task

\* A task that comes nearer keeps its type, its status and its kind.
LEMMA NearerKeeps ==
    ASSUME NEW r \in Task
    PROVE  Nearer(r) \in Task /\ Nearer(r).status = r.status
  BY KnobsAssumption DEF Nearer, Task

\* Removing position i closes the gap it leaves.
LEMMA RemoveAtFacts ==
    ASSUME NEW S, NEW s \in Seq(S), NEW i \in 1..Len(s)
    PROVE  /\ RemoveAt(s, i) \in Seq(S)
           /\ Len(RemoveAt(s, i)) = Len(s) - 1
           /\ \A j \in 1..(Len(s) - 1) :
                RemoveAt(s, i)[j] = IF j < i THEN s[j] ELSE s[j + 1]
<1> DEFINE front == SubSeq(s, 1, i - 1)
           back == SubSeq(s, i + 1, Len(s))
<1>1. /\ front \in Seq(S) /\ Len(front) = i - 1
      /\ \A j \in 1..(i - 1) : front[j] = s[j]
  OBVIOUS
<1>2. /\ back \in Seq(S) /\ Len(back) = Len(s) - i
      /\ \A j \in 1..(Len(s) - i) : back[j] = s[i + j]
  OBVIOUS
<1> HIDE DEF front, back
<1>3. /\ front \o back \in Seq(S)
      /\ Len(front \o back) = Len(s) - 1
  BY <1>1, <1>2
<1>4. ASSUME NEW j \in 1..(Len(s) - 1)
      PROVE  (front \o back)[j] = IF j < i THEN s[j] ELSE s[j + 1]
  BY <1>1, <1>2, <1>3
<1>5. RemoveAt(s, i) = front \o back
  BY DEF RemoveAt, front, back
<1> QED
  BY <1>3, <1>4, <1>5

\* The entry that Report finds is the task's only one.
LEMMA RemovalKeepsList ==
    ASSUME ListOK, NEW i \in 1..Len(order), tasks \in [TaskIds -> Task],
           order' = RemoveAt(order, i),
           tasks' = [tasks EXCEPT ![order[i]] = NoTask]
    PROVE  ListOK'
<1>1. order \in Seq(TaskIds) /\ order[i] \in TaskIds
  BY DEF ListOK
<1>2. /\ order' \in Seq(TaskIds)
      /\ Len(order') = Len(order) - 1
      /\ \A j \in 1..(Len(order) - 1) :
           order'[j] = IF j < i THEN order[j] ELSE order[j + 1]
  BY <1>1, RemoveAtFacts
<1>3. \A j, k \in 1..Len(order') : order'[j] = order'[k] => j = k
  <2> SUFFICES ASSUME NEW j \in 1..Len(order'), NEW k \in 1..Len(order'),
                      order'[j] = order'[k]
               PROVE  j = k
    OBVIOUS
  <2> DEFINE old(n) == IF n < i THEN n ELSE n + 1
  <2>1. ASSUME NEW n \in 1..Len(order')
        PROVE  old(n) \in 1..Len(order) /\ order'[n] = order[old(n)]
    <3>1. CASE n < i
      BY <1>1, <1>2, <3>1
    <3>2. CASE ~(n < i)
      BY <1>1, <1>2, <3>2
    <3> QED
      BY <3>1, <3>2
  <2>2. old(j) = old(k)
    BY <2>1 DEF ListOK
  <2> QED
    BY <2>2
<1>4. ASSUME NEW t \in TaskIds
      PROVE  tasks'[t].status # "absent"
                <=> \E j \in 1..Len(order') : order'[j] = t
  <2>1. CASE t = order[i]
    <3>1. tasks'[t].status = "absent"
      BY <2>1 DEF NoTask
    <3>2. ASSUME NEW j \in 1..Len(order')
          PROVE  order'[j] # t
      <4>1. PICK k \in 1..Len(order) : k # i /\ order'[j] = order[k]
        <5>1. CASE j < i
          BY <1>1, <1>2, <5>1
        <5>2. CASE ~(j < i)
          <6>1. j + 1 \in 1..Len(order) /\ order'[j] = order[j + 1]
            BY <1>1, <1>2, <5>2
          <6> QED
            BY <5>2, <6>1
        <5> QED
          BY <5>1, <5>2
      <4> QED
        BY <2>1, <4>1 DEF ListOK
    <3> QED
      BY <3>1, <3>2
  <2>2. CASE t # order[i]
    <3>1. tasks'[t] = tasks[t]
      BY <1>1, <2>2
    <3>2. ASSUME NEW j \in 1..Len(order), order[j] = t
          PROVE  \E k \in 1..Len(order') : order'[k] = t
      <4>1. CASE j < i
        BY <1>1, <1>2, <3>2, <4>1
      <4>2. CASE j > i
        <5>1. /\ j - 1 \in 1..Len(order') /\ ~(j - 1 < i)
              /\ (j - 1) + 1 = j
          BY <1>1, <1>2, <4>2
        <5> QED
          BY <1>2, <3>2, <5>1
      <4> QED
        BY <1>1, <2>2, <3>2, <4>1, <4>2
    <3>3. ASSUME NEW k \in 1..Len(order'), order'[k] = t
          PROVE  \E j \in 1..Len(order) : order[j] = t
      <4>1. CASE k < i
        BY <1>1, <1>2, <3>3, <4>1
      <4>2. CASE ~(k < i)
        <5>1. k + 1 \in 1..Len(order) /\ order'[k] = order[k + 1]
          BY <1>1, <1>2, <4>2
        <5> QED
          BY <3>3, <5>1
      <4> QED
        BY <4>1, <4>2
    <3> QED
      BY <3>1, <3>2, <3>3 DEF ListOK
  <2> QED
    BY <2>1, <2>2
<1> QED
  BY <1>2, <1>3, <1>4 DEF ListOK

\* A task that is added was absent, so its entry is new.
LEMMA AddTaskType ==
    ASSUME TypeOK, NEW offer \in Offer, AddTask(offer)
    PROVE  /\ tasks' \in [TaskIds -> Task]
           /\ ListOK'
           /\ saving' \in BOOLEAN /\ unseen' \in BOOLEAN
           /\ wakes' \in 0..MaxWakes
<1> PICK t \in WithStatus({"absent"}) :
        /\ tasks' = [tasks EXCEPT ![t] =
                        [status |-> "pending", kind |-> offer.kind,
                         run_after |-> offer.run_after,
                         garbled |-> offer.garbled]]
        /\ order' = Append(order, t)
  BY DEF AddTask
<1>1. t \in TaskIds /\ tasks[t].status = "absent"
  BY DEF WithStatus
<1>2. [status |-> "pending", kind |-> offer.kind,
       run_after |-> offer.run_after, garbled |-> offer.garbled] \in Task
  BY KnobsAssumption DEF Offer, Task
<1>3. tasks' \in [TaskIds -> Task]
  BY <1>1, <1>2 DEF TypeOK
<1>4. order \in Seq(TaskIds) /\ tasks \in [TaskIds -> Task]
  BY DEF TypeOK, ListOK
<1>5. /\ order' \in Seq(TaskIds) /\ Len(order') = Len(order) + 1
      /\ order'[Len(order) + 1] = t
      /\ \A i \in 1..Len(order) : order'[i] = order[i]
  BY <1>1, <1>4
<1>6. \A i \in 1..Len(order) : order[i] # t
  BY <1>1 DEF TypeOK, ListOK
<1>7. \A i, j \in 1..Len(order') : order'[i] = order'[j] => i = j
  BY <1>4, <1>5, <1>6 DEF TypeOK, ListOK
<1>8. ASSUME NEW u \in TaskIds
      PROVE  tasks'[u].status # "absent"
                <=> \E i \in 1..Len(order') : order'[i] = u
  <2>1. CASE u = t
    BY <1>1, <1>4, <1>5, <2>1
  <2>2. CASE u # t
    <3>1. tasks'[u] = tasks[u]
      BY <1>1, <1>4, <2>2
    <3>2. (\E i \in 1..Len(order') : order'[i] = u)
            <=> \E i \in 1..Len(order) : order[i] = u
      BY <1>4, <1>5, <2>2
    <3> QED
      BY <3>1, <3>2 DEF TypeOK, ListOK
  <2> QED
    BY <2>1, <2>2
<1>9. ListOK'
  BY <1>5, <1>7, <1>8 DEF ListOK
<1> QED
  BY <1>3, <1>9, KnobsAssumption DEF AddTask, TypeOK

LEMMA LeaveType ==
    ASSUME TypeOK, NEW w \in Workers, NEW rest \in {"waiting", "asleep"},
           Leave(w, rest)
    PROVE  /\ pc' \in [Workers -> {"off", "starting", "claiming", "running"}]
           /\ kinds' \in [Workers -> SUBSET Kinds]
           /\ late' \in [Workers -> 0..MaxLate]
           /\ left' \in [Workers -> 0..MAX_TASKS_PER_RUN]
           /\ loop' \in {"top", "cycle", "waiting", "asleep"}
           /\ UNCHANGED <<wake_event, wakes, unseen>>
  BY KnobsAssumption DEF Leave, TypeOK

-----------------------------------------------------------------------------
(* The type invariant *)

LEMMA InitType == Init => TypeOK
<1> SUFFICES ASSUME Init PROVE TypeOK
  OBVIOUS
<1>1. tasks \in [TaskIds -> Task] /\ ListOK
  <2>1. \A t \in TaskIds : tasks[t].status = "absent"
    BY DEF Init, NoTask
  <2> QED
    BY <2>1, NoTaskType DEF Init, ListOK
<1>2. settings \in Settings
  BY SettingsAssumption DEF Init
<1>3. /\ pc \in [Workers -> {"off", "starting", "claiming", "running"}]
      /\ kinds \in [Workers -> SUBSET Kinds]
      /\ late \in [Workers -> 0..MaxLate]
      /\ left \in [Workers -> 0..MAX_TASKS_PER_RUN]
      /\ job \in [Workers -> 0..MaxTasks]
  BY KnobsAssumption DEF Init
<1>4. /\ wakes \in 0..MaxWakes /\ crashes \in 0..MaxCrashes
      /\ todo \in [Curators -> SUBSET ScanKinds]
  BY KnobsAssumption DEF Init
<1> QED
  BY <1>1, <1>2, <1>3, <1>4 DEF Init, TypeOK

\* The steps of a worker's cycle.
LEMMA CycleKeepsType ==
    ASSUME TypeOK, NEW w \in Workers, CycleStep(w)
    PROVE  TypeOK'
<1>1. CASE StartCycle(w)
  BY <1>1, KnobsAssumption
  DEF StartCycle, TypeOK, ListOK, queue, wakeup, Settings
<1>2. CASE SkipCycle(w)
  BY <1>2, LeaveType DEF SkipCycle, TypeOK, ListOK, queue
<1>3. CASE ClaimTask(w)
  <2>0. PICK i \in 1..Len(order) :
        /\ FirstStop(w, i)
        /\ tasks' = [tasks EXCEPT ![order[i]].status = "running"]
        /\ job' = [job EXCEPT ![w] = order[i]]
    BY <1>3 DEF ClaimTask
  <2>1. order[i] \in TaskIds /\ tasks[order[i]] \in Task
    BY <2>0 DEF TypeOK, ListOK
  <2>2. tasks[order[i]].status = "pending"
    BY <2>0 DEF FirstStop, Stops
  <2>3. tasks' \in [TaskIds -> Task]
    BY <2>0, <2>1 DEF TypeOK, Task
  <2>4. \A t \in TaskIds :
           tasks'[t].status = "absent" <=> tasks[t].status = "absent"
    BY <2>0, <2>1, <2>2 DEF TypeOK, Task
  <2>5. ListOK'
    BY <1>3, <2>4 DEF ClaimTask, TypeOK, ListOK
  <2>6. job' \in [Workers -> 0..MaxTasks]
    <3>1. order[i] \in 0..MaxTasks
      BY <2>1, KnobsAssumption DEF TaskIds
    <3> QED
      BY <2>0, <3>1 DEF TypeOK
  <2>7. left' \in [Workers -> 0..MAX_TASKS_PER_RUN]
    <3>1. left[w] - 1 \in 0..MAX_TASKS_PER_RUN
      <4>1. left[w] > 0
        BY <1>3 DEF ClaimTask
      <4>2. left[w] \in 0..MAX_TASKS_PER_RUN
        BY DEF TypeOK
      <4> QED
        BY <4>1, <4>2, KnobsAssumption
    <3>2. left' = [left EXCEPT ![w] = left[w] - 1]
      BY <1>3 DEF ClaimTask
    <3> QED
      BY <3>1, <3>2 DEF TypeOK
  <2>8. pc' \in [Workers -> {"off", "starting", "claiming", "running"}]
    BY <1>3 DEF ClaimTask, TypeOK
  <2>9. /\ saving' \in BOOLEAN
        /\ UNCHANGED <<order, kinds, late, wakeup, settings, todo, crashes>>
    BY <1>3 DEF ClaimTask
  <2> QED
    BY <2>3, <2>5, <2>6, <2>7, <2>8, <2>9 DEF TypeOK, wakeup
<1>4. CASE CycleRaises(w)
  BY <1>4, LeaveType DEF CycleRaises, TypeOK, ListOK, queue
<1>5. CASE Report(w)
  <2> PICK i \in 1..Len(order) :
        /\ order[i] = job[w]
        /\ tasks' = [tasks EXCEPT ![job[w]] = NoTask]
        /\ order' = RemoveAt(order, i)
    BY <1>5 DEF Report
  <2>1. ListOK'
    BY RemovalKeepsList DEF TypeOK
  <2>2. tasks' \in [TaskIds -> Task]
    BY NoTaskType DEF TypeOK
  <2> QED
    BY <1>5, <2>1, <2>2, KnobsAssumption DEF Report, TypeOK, wakeup
<1>6. CASE EndCycle(w)
  BY <1>6, LeaveType DEF EndCycle, TypeOK, ListOK, queue
<1> QED
  BY <1>1, <1>2, <1>3, <1>4, <1>5, <1>6 DEF CycleStep

LEMMA NextKeepsType == TypeOK /\ [Next]_vars => TypeOK'
<1> SUFFICES ASSUME TypeOK, [Next]_vars
             PROVE  TypeOK'
  OBVIOUS
<1>1. CASE \E offer \in Offers : Enqueue(offer)
  <2> PICK offer \in Offers : Enqueue(offer)
    BY <1>1
  <2>1. offer \in Offer /\ AddTask(offer)
    BY OffersAssumption DEF Enqueue
  <2>2. /\ tasks' \in [TaskIds -> Task] /\ ListOK'
        /\ saving' \in BOOLEAN /\ unseen' \in BOOLEAN
        /\ wakes' \in 0..MaxWakes
    BY <2>1, AddTaskType
  <2> QED
    BY <2>1, <2>2 DEF Enqueue, AddTask, TypeOK, cycles
<1>2. CASE WriteQueue
  BY <1>2 DEF WriteQueue, TypeOK, ListOK, cycles, wakeup
<1>3. CASE TriggerWake
  BY <1>3, KnobsAssumption DEF TriggerWake, TypeOK, ListOK, queue, cycles
<1>4. CASE \E c \in Curators : ReadLiveKinds(c)
  BY <1>4 DEF ReadLiveKinds, TypeOK, ListOK, queue, cycles, wakeup
<1>5. ASSUME NEW c \in Curators, EnqueueScan(c)
      PROVE  TypeOK'
  <2> PICK k \in todo[c] :
        /\ \/ AddTask([kind |-> k, run_after |-> 0, garbled |-> FALSE])
           \/ UNCHANGED <<queue, wakeup>>
        /\ todo' = [todo EXCEPT ![c] = @ \ {k}]
    BY <1>5 DEF EnqueueScan
  <2> DEFINE offer == [kind |-> k, run_after |-> 0, garbled |-> FALSE]
  <2>1. todo' \in [Curators -> SUBSET ScanKinds]
    BY DEF TypeOK
  <2>2. offer \in Offer
    BY KindsAssumption, KnobsAssumption DEF TypeOK, Offer
  <2>3. CASE AddTask(offer)
    <3>1. /\ tasks' \in [TaskIds -> Task] /\ ListOK'
          /\ saving' \in BOOLEAN /\ unseen' \in BOOLEAN
          /\ wakes' \in 0..MaxWakes
      BY <2>2, <2>3, AddTaskType
    <3>2. UNCHANGED <<loop, wake_event>>
      BY <2>3 DEF AddTask
    <3> QED
      BY <1>5, <2>1, <3>1, <3>2 DEF EnqueueScan, TypeOK, cycles
  <2>4. CASE UNCHANGED <<queue, wakeup>>
    BY <1>5, <2>1, <2>4
    DEF EnqueueScan, TypeOK, ListOK, queue, wakeup, cycles
  <2> QED
    BY <2>3, <2>4
<1>6. CASE \E w \in Workers : RequestCycle(w)
  BY <1>6 DEF RequestCycle, TypeOK, ListOK, queue, wakeup
<1>7. CASE \E w \in Workers : CycleStep(w)
  BY <1>7, CycleKeepsType
<1>8. CASE LoopSetsOut
  BY <1>8 DEF LoopSetsOut, TypeOK, ListOK, queue
<1>9. CASE LoopResumes
  BY <1>9 DEF LoopResumes, TypeOK, ListOK, queue, cycles
<1>10. CASE \E s \in SettingsDocs : ChangeSettings(s)
  BY <1>10, SettingsAssumption
  DEF ChangeSettings, TypeOK, ListOK, queue, cycles, wakeup
<1>11. CASE Crash
  <2>1. tasks' \in [TaskIds -> Task] /\ ListOK'
    <3>1. CASE saving
      <4>1. tasks' = [t \in TaskIds |-> NoTask] /\ order' = <<>>
        BY <1>11, <3>1 DEF Crash
      <4>2. \A t \in TaskIds : tasks'[t].status = "absent"
        BY <4>1 DEF NoTask
      <4> QED
        BY <4>1, <4>2, NoTaskType DEF ListOK
    <3>2. CASE ~saving
      BY <1>11, <3>2 DEF Crash, TypeOK, ListOK
    <3> QED
      BY <3>1, <3>2
  <2>2. crashes' \in 0..MaxCrashes
    BY <1>11, KnobsAssumption DEF Crash, TypeOK
  <2>3. /\ pc' \in [Workers -> {"off", "starting", "claiming", "running"}]
        /\ kinds' \in [Workers -> SUBSET Kinds]
        /\ late' \in [Workers -> 0..MaxLate]
        /\ left' \in [Workers -> 0..MAX_TASKS_PER_RUN]
        /\ job' \in [Workers -> 0..MaxTasks]
    BY <1>11, KnobsAssumption DEF Crash
  <2>4. /\ loop' = "top" /\ wake_event' = FALSE /\ wakes' \in 0..MaxWakes
        /\ unseen' = FALSE /\ saving' = FALSE /\ settings' = settings
        /\ todo' \in [Curators -> SUBSET ScanKinds]
    BY <1>11, KnobsAssumption DEF Crash
  <2> QED
    BY <2>1, <2>2, <2>3, <2>4 DEF TypeOK
<1>12. CASE Tick
  <2>1. ASSUME NEW t \in TaskIds
        PROVE  tasks'[t] \in Task /\ tasks'[t].status = tasks[t].status
    BY <1>12, NearerKeeps DEF Tick, TypeOK
  <2>2. tasks' \in [TaskIds -> Task]
    BY <1>12, <2>1 DEF Tick
  <2>3. ListOK'
    BY <1>12, <2>1 DEF Tick, TypeOK, ListOK
  <2>4. late' \in [Workers -> 0..MaxLate]
    BY <1>12, KnobsAssumption DEF Tick, TypeOK
  <2> QED
    BY <1>12, <2>2, <2>3, <2>4 DEF Tick, TypeOK, wakeup
<1>13. CASE UNCHANGED vars
  BY <1>13 DEF vars, queue, cycles, wakeup, TypeOK, ListOK
<1> QED
  BY <1>1, <1>2, <1>3, <1>4, <1>5, <1>6, <1>7, <1>8, <1>9, <1>10, <1>11,
     <1>12, <1>13 DEF Next

\* The queue file, its list and what the workers remember keep their shape.
THEOREM TypeCorrect == Spec => []TypeOK
<1> QED
  BY InitType, NextKeepsType, PTL DEF Spec

-----------------------------------------------------------------------------
(* Exclusive execution: a claimed task is out of reach of the search *)

LEMMA AddTaskKeepsRunning ==
    ASSUME TypeOK, ExclusiveExecution, NEW offer, AddTask(offer)
    PROVE  \A w \in Workers :
              pc[w] = "running" => tasks'[job[w]] = tasks[job[w]]
  BY DEF AddTask, WithStatus, TypeOK, ExclusiveExecution

LEMMA NextKeepsExclusive ==
    TypeOK /\ ExclusiveExecution /\ [Next]_vars => ExclusiveExecution'
<1> SUFFICES ASSUME TypeOK, ExclusiveExecution, [Next]_vars
             PROVE  ExclusiveExecution'
  OBVIOUS
<1>1. CASE \E offer \in Offers : Enqueue(offer)
  <2> PICK offer \in Offers : Enqueue(offer)
    BY <1>1
  <2> QED
    BY AddTaskKeepsRunning DEF Enqueue, cycles, ExclusiveExecution
<1>2. CASE \E c \in Curators : EnqueueScan(c)
  <2> PICK c \in Curators : EnqueueScan(c)
    BY <1>2
  <2> PICK k \in todo[c] :
        /\ \/ AddTask([kind |-> k, run_after |-> 0, garbled |-> FALSE])
           \/ UNCHANGED queue
        /\ UNCHANGED cycles
    BY DEF EnqueueScan
  <2> QED
    BY AddTaskKeepsRunning DEF queue, cycles, ExclusiveExecution
<1>3. ASSUME NEW w \in Workers, ClaimTask(w)
      PROVE  ExclusiveExecution'
  <2> PICK i \in 1..Len(order) :
        /\ FirstStop(w, i)
        /\ tasks' = [tasks EXCEPT ![order[i]].status = "running"]
        /\ job' = [job EXCEPT ![w] = order[i]]
    BY <1>3 DEF ClaimTask
  <2>1. order[i] \in TaskIds /\ tasks[order[i]].status = "pending"
    BY DEF FirstStop, Stops, TypeOK, ListOK
  <2>2. tasks'[order[i]].status = "running" /\ job'[w] = order[i]
    BY <2>1 DEF TypeOK, Task
  <2>3. ASSUME NEW v \in Workers \ {w}, pc'[v] = "running"
        PROVE  /\ pc[v] = "running" /\ job'[v] = job[v]
               /\ job[v] # order[i] /\ tasks'[job[v]] = tasks[job[v]]
    BY <1>3, <2>1, <2>3 DEF ClaimTask, TypeOK, ExclusiveExecution
  <2> QED
    BY <2>1, <2>2, <2>3 DEF ExclusiveExecution
<1>4. ASSUME NEW w \in Workers, Report(w)
      PROVE  ExclusiveExecution'
  <2>1. tasks' = [tasks EXCEPT ![job[w]] = NoTask]
    BY <1>4 DEF Report
  <2>2. ASSUME NEW v \in Workers, pc'[v] = "running"
        PROVE  /\ v # w /\ pc[v] = "running" /\ job'[v] = job[v]
               /\ job[v] # job[w] /\ tasks'[job[v]] = tasks[job[v]]
    BY <1>4, <2>1, <2>2 DEF Report, TypeOK, ExclusiveExecution
  <2> QED
    BY <2>2 DEF ExclusiveExecution
<1>5. ASSUME NEW w \in Workers,
             StartCycle(w) \/ SkipCycle(w) \/ CycleRaises(w) \/ EndCycle(w)
             \/ RequestCycle(w)
      PROVE  ExclusiveExecution'
  BY <1>5 DEF StartCycle, SkipCycle, CycleRaises, EndCycle, RequestCycle,
              Leave, queue, TypeOK, ExclusiveExecution
<1>6. CASE LoopSetsOut
  BY <1>6 DEF LoopSetsOut, queue, TypeOK, ExclusiveExecution
<1>7. CASE Crash
  BY <1>7 DEF Crash, ExclusiveExecution
<1>8. CASE Tick
  <2>1. \A t \in TaskIds : tasks'[t].status = tasks[t].status
    BY <1>8, NearerKeeps DEF Tick, TypeOK
  <2> QED
    BY <1>8, <2>1 DEF Tick, ExclusiveExecution
<1>9. ASSUME UNCHANGED <<tasks, pc, job>>
      PROVE  ExclusiveExecution'
  BY <1>9 DEF ExclusiveExecution
<1>10. CASE WriteQueue \/ TriggerWake \/ LoopResumes
            \/ (\E s \in SettingsDocs : ChangeSettings(s))
            \/ \E c \in Curators : ReadLiveKinds(c)
  BY <1>9, <1>10 DEF WriteQueue, TriggerWake, LoopResumes, ChangeSettings,
                     ReadLiveKinds, queue, cycles
<1>11. CASE UNCHANGED vars
  BY <1>9, <1>11 DEF vars, queue, cycles
<1> QED
  BY <1>1, <1>2, <1>3, <1>4, <1>5, <1>6, <1>7, <1>8, <1>10, <1>11
  DEF Next, CycleStep

\* However many threads run cycles at once, a task is in one's hands only, and
\* its record still says so when that thread reports.
THEOREM ExecutionExclusive == Spec => []ExclusiveExecution
<1>1. Init => ExclusiveExecution
  BY DEF Init, ExclusiveExecution
<1> QED
  BY <1>1, TypeCorrect, NextKeepsExclusive, PTL DEF Spec

-----------------------------------------------------------------------------
(* The wake-up of subordinate_loop *)

\* Stronger than NoLostWake, and inductive: whatever the loop does, an addition
\* it has not seen leaves the event set or about to be.
WakePending == unseen => wake_event \/ wakes > 0

LEMMA NextKeepsWakePending ==
    TypeOK /\ WakePending /\ [Next]_vars => WakePending'
<1> SUFFICES ASSUME TypeOK, WakePending, [Next]_vars
             PROVE  WakePending'
  OBVIOUS
<1>1. ASSUME NEW offer, AddTask(offer)
      PROVE  WakePending'
  BY <1>1 DEF AddTask, TypeOK, WakePending
<1>2. ASSUME UNCHANGED <<wake_event, wakes, unseen>>
      PROVE  WakePending'
  BY <1>2 DEF WakePending
<1>3. CASE \E offer \in Offers : Enqueue(offer)
  BY <1>1, <1>3 DEF Enqueue
<1>4. CASE \E c \in Curators : EnqueueScan(c)
  <2> PICK c \in Curators : EnqueueScan(c)
    BY <1>4
  <2>1. \/ UNCHANGED <<wake_event, wakes, unseen>>
        \/ \E offer : AddTask(offer)
    BY DEF EnqueueScan, wakeup
  <2> QED
    BY <1>1, <1>2, <2>1
<1>5. CASE \E w \in Workers : RequestCycle(w) \/ CycleStep(w)
  <2> PICK w \in Workers : RequestCycle(w) \/ CycleStep(w)
    BY <1>5
  <2>1. CASE RequestCycle(w) \/ StartCycle(w) \/ ClaimTask(w) \/ Report(w)
    BY <1>2, <2>1 DEF RequestCycle, StartCycle, ClaimTask, Report, wakeup
  <2>2. CASE SkipCycle(w) \/ CycleRaises(w) \/ EndCycle(w)
    BY <1>2, <2>2 DEF SkipCycle, CycleRaises, EndCycle, Leave
  <2> QED
    BY <2>1, <2>2 DEF CycleStep
<1>6. CASE TriggerWake \/ LoopSetsOut \/ LoopResumes \/ Crash
  BY <1>6 DEF TriggerWake, LoopSetsOut, LoopResumes, Crash, WakePending
<1>7. CASE WriteQueue \/ Tick \/ (\E c \in Curators : ReadLiveKinds(c))
           \/ \E s \in SettingsDocs : ChangeSettings(s)
  BY <1>7 DEF WriteQueue, Tick, ReadLiveKinds, ChangeSettings, wakeup,
              WakePending
<1>8. CASE UNCHANGED vars
  BY <1>8 DEF vars, wakeup, WakePending
<1> QED
  BY <1>3, <1>4, <1>5, <1>6, <1>7, <1>8 DEF Next

\* The loop never waits for an event that nobody is going to set.
THEOREM WakesNotLost == Spec => []NoLostWake
<1>1. Init => WakePending
  BY DEF Init, WakePending
<1>2. TypeOK /\ WakePending => NoLostWake
  BY DEF TypeOK, WakePending, NoLostWake
<1> QED
  BY <1>1, <1>2, TypeCorrect, NextKeepsWakePending, PTL DEF Spec
-----------------------------------------------------------------------------
(* Scans: a copy in the queue, or a curator that has still to add one *)

Owing(k) == {c \in Curators : k \in todo[c]}

\* Whoever owes a scan owes it one copy; a curator that finds no copy starts to
\* owe one, and pays with one.
CopiesAndDebts ==
    \A k \in OwnScans :
        Cardinality(Copies(k)) + Cardinality(Owing(k)) <= Cardinality(Curators)

LEMMA TasksFinite ==
    ASSUME NEW k
    PROVE  /\ IsFiniteSet(Copies(k)) /\ Cardinality(Copies(k)) \in Nat
           /\ IsFiniteSet(Owing(k)) /\ Cardinality(Owing(k)) \in Nat
           /\ IsFiniteSet(Curators) /\ Cardinality(Curators) \in Nat
           /\ Cardinality(Owing(k)) <= Cardinality(Curators)
<1>1. IsFiniteSet(TaskIds)
  BY FS_Interval, KnobsAssumption DEF TaskIds
<1>2. Copies(k) \subseteq TaskIds /\ Owing(k) \subseteq Curators
  BY DEF Copies, Owing, WithStatus
<1> QED
  BY <1>1, <1>2, FS_Subset, FS_CardinalityType, ThreadsAssumption

\* Nothing grows: no copy was added and no curator owes more.
LEMMA FewerKeeps ==
    ASSUME CopiesAndDebts,
           \A k \in OwnScans : Copies(k)' \subseteq Copies(k) /\ Owing(k)' \subseteq Owing(k)
    PROVE  CopiesAndDebts'
<1> SUFFICES ASSUME NEW k \in OwnScans
             PROVE  Cardinality(Copies(k)') + Cardinality(Owing(k)') <= Cardinality(Curators)
  BY DEF CopiesAndDebts, OwnScans
<1>1. /\ IsFiniteSet(Copies(k)) /\ Cardinality(Copies(k)) \in Nat
      /\ IsFiniteSet(Owing(k)) /\ Cardinality(Owing(k)) \in Nat
      /\ Cardinality(Curators) \in Nat
  BY TasksFinite
<1>2. /\ Cardinality(Copies(k)') <= Cardinality(Copies(k)) /\ IsFiniteSet(Copies(k)')
      /\ Cardinality(Owing(k)') <= Cardinality(Owing(k)) /\ IsFiniteSet(Owing(k)')
  BY <1>1, FS_Subset
<1>3. Cardinality(Copies(k)') \in Nat /\ Cardinality(Owing(k)') \in Nat
  BY <1>2, FS_CardinalityType
<1> QED
  BY <1>1, <1>2, <1>3 DEF CopiesAndDebts

\* A task that is added is the one new copy, of the kind it was offered with.
LEMMA AddTaskCopies ==
    ASSUME TypeOK, NEW offer \in Offer, AddTask(offer), NEW k \in ScanKinds
    PROVE  /\ k # offer.kind => Copies(k)' = Copies(k)
           /\ k = offer.kind =>
                \E t \in TaskIds : t \notin Copies(k) /\ Copies(k)' = Copies(k) \cup {t}
<1> PICK t \in WithStatus({"absent"}) :
        tasks' = [tasks EXCEPT ![t] =
                     [status |-> "pending", kind |-> offer.kind,
                      run_after |-> offer.run_after, garbled |-> offer.garbled]]
  BY DEF AddTask
<1>1. t \in TaskIds /\ tasks[t].status = "absent"
  BY DEF WithStatus
<1>2. /\ tasks'[t].status = "pending" /\ tasks'[t].kind = offer.kind
      /\ \A u \in TaskIds \ {t} : tasks'[u] = tasks[u]
  BY <1>1 DEF TypeOK
<1>3. t \notin Copies(k)
  BY <1>1 DEF Copies, WithStatus
<1>4. Copies(k)' = {u \in TaskIds : tasks'[u].status \in {"pending", "running"}
                                    /\ tasks'[u].kind = k}
  BY DEF Copies, WithStatus
<1>5. Copies(k) = {u \in TaskIds : tasks[u].status \in {"pending", "running"}
                                   /\ tasks[u].kind = k}
  BY DEF Copies, WithStatus
<1>6. CASE k # offer.kind
  BY <1>1, <1>2, <1>4, <1>5, <1>6
<1>7. CASE k = offer.kind
  <2>1. Copies(k)' = Copies(k) \cup {t}
    BY <1>1, <1>2, <1>4, <1>5, <1>7
  <2> QED
    BY <1>1, <1>3, <1>7, <2>1
<1> QED
  BY <1>6, <1>7

\* A curator that looked while there was no copy is the first in debt with one.
LEMMA LookingKeeps ==
    ASSUME TypeOK, CopiesAndDebts, NEW c \in Curators, ReadLiveKinds(c)
    PROVE  CopiesAndDebts'
<1> SUFFICES ASSUME NEW k \in OwnScans
             PROVE  Cardinality(Copies(k)') + Cardinality(Owing(k)') <= Cardinality(Curators)
  BY DEF CopiesAndDebts, OwnScans
<1>1. Copies(k)' = Copies(k)
  BY DEF ReadLiveKinds, queue, Copies, WithStatus
<1>2. CASE k \in LiveKinds
  <2>1. Owing(k)' \subseteq Owing(k)
    BY <1>2 DEF ReadLiveKinds, Owing, TypeOK
  <2>2. /\ Cardinality(Owing(k)') <= Cardinality(Owing(k)) /\ Cardinality(Owing(k)) \in Nat
        /\ Cardinality(Owing(k)') \in Nat
    BY <2>1, TasksFinite, FS_Subset, FS_CardinalityType
  <2> QED
    BY <1>1, <2>2, TasksFinite DEF CopiesAndDebts
<1>3. CASE k \notin LiveKinds
  <2>1. Copies(k) = {}
    BY <1>3 DEF LiveKinds, Copies
  <2>2. Cardinality(Copies(k)') = 0
    BY <1>1, <2>1, FS_EmptySet
  <2>3. Owing(k)' \subseteq Curators
    BY DEF Owing
  <2>4. Cardinality(Owing(k)') <= Cardinality(Curators) /\ Cardinality(Owing(k)') \in Nat
    BY <2>3, FS_Subset, FS_CardinalityType, ThreadsAssumption
  <2> QED
    BY <2>2, <2>4, TasksFinite
<1> QED
  BY <1>2, <1>3

\* The curator that adds a copy no longer owes it.
LEMMA ScanningKeeps ==
    ASSUME TypeOK, CopiesAndDebts, NEW c \in Curators, EnqueueScan(c)
    PROVE  CopiesAndDebts'
<1> PICK j \in todo[c] :
        /\ \/ AddTask([kind |-> j, run_after |-> 0, garbled |-> FALSE])
           \/ UNCHANGED queue
        /\ todo' = [todo EXCEPT ![c] = @ \ {j}]
  BY DEF EnqueueScan
<1> DEFINE offer == [kind |-> j, run_after |-> 0, garbled |-> FALSE]
<1>1. j \in ScanKinds /\ offer \in Offer /\ offer.kind = j
  BY KindsAssumption, KnobsAssumption DEF TypeOK, Offer
<1>2. \A k \in OwnScans : Owing(k)' \subseteq Owing(k)
  BY DEF Owing, TypeOK
<1>3. CASE UNCHANGED queue
  <2>1. \A k \in OwnScans : Copies(k)' = Copies(k)
    BY <1>3 DEF queue, Copies, WithStatus
  <2> QED
    BY <1>2, <2>1, FewerKeeps
<1>4. CASE AddTask(offer)
  <2> SUFFICES ASSUME NEW k \in OwnScans
               PROVE  Cardinality(Copies(k)') + Cardinality(Owing(k)')
                        <= Cardinality(Curators)
    BY DEF CopiesAndDebts, OwnScans
  <2>0. k \in ScanKinds
    BY DEF OwnScans
  <2>1. CASE k # j
    <3>1. Copies(k)' = Copies(k)
      BY <1>1, <1>4, <2>0, <2>1, AddTaskCopies
    <3>2. Cardinality(Owing(k)') <= Cardinality(Owing(k)) /\ Cardinality(Owing(k)') \in Nat
      BY <1>2, TasksFinite, FS_Subset, FS_CardinalityType
    <3> QED
      BY <3>1, <3>2, TasksFinite DEF CopiesAndDebts
  <2>2. CASE k = j
    <3>1. PICK t \in TaskIds : t \notin Copies(k) /\ Copies(k)' = Copies(k) \cup {t}
      BY <1>1, <1>4, <2>0, <2>2, AddTaskCopies
    <3>2. Cardinality(Copies(k)') = Cardinality(Copies(k)) + 1
      BY <3>1, TasksFinite, FS_AddElement
    <3>3. c \in Owing(k) /\ Owing(k)' = Owing(k) \ {c}
      BY <2>2 DEF Owing, TypeOK
    <3>4. Cardinality(Owing(k)') = Cardinality(Owing(k)) - 1
      BY <3>3, TasksFinite, FS_RemoveElement
    <3> QED
      BY <3>2, <3>4, TasksFinite DEF CopiesAndDebts
  <2> QED
    BY <2>1, <2>2
<1> QED
  BY <1>3, <1>4

\* A worker takes up a task or closes it: it adds no copy.
LEMMA CycleAddsNoCopy ==
    ASSUME TypeOK, NEW w \in Workers, CycleStep(w)
    PROVE  \A k \in OwnScans : Copies(k)' \subseteq Copies(k) /\ Owing(k)' \subseteq Owing(k)
<1> SUFFICES \A t \in TaskIds :
                tasks'[t].status \in {"pending", "running"} =>
                    /\ tasks[t].status \in {"pending", "running"}
                    /\ tasks'[t].kind = tasks[t].kind
  <2>1. UNCHANGED todo
    BY DEF CycleStep, StartCycle, SkipCycle, ClaimTask, CycleRaises, Report, EndCycle
  <2> QED
    BY <2>1 DEF Copies, Owing, WithStatus
<1>1. CASE ClaimTask(w)
  <2> PICK i \in 1..Len(order) :
        FirstStop(w, i) /\ tasks' = [tasks EXCEPT ![order[i]].status = "running"]
    BY <1>1 DEF ClaimTask
  <2>1. order[i] \in TaskIds /\ tasks[order[i]].status = "pending"
    BY DEF FirstStop, Stops, TypeOK, ListOK
  <2> QED
    BY <2>1 DEF TypeOK, Task
<1>2. CASE Report(w)
  <2>1. tasks' = [tasks EXCEPT ![job[w]] = NoTask]
    BY <1>2 DEF Report
  <2> QED
    BY <2>1 DEF TypeOK, NoTask
<1>3. CASE StartCycle(w) \/ SkipCycle(w) \/ CycleRaises(w) \/ EndCycle(w)
  BY <1>3 DEF StartCycle, SkipCycle, CycleRaises, EndCycle, queue
<1> QED
  BY <1>1, <1>2, <1>3 DEF CycleStep

LEMMA NextKeepsDebts ==
    TypeOK /\ CopiesAndDebts /\ [Next]_vars => CopiesAndDebts'
<1> SUFFICES ASSUME TypeOK, CopiesAndDebts, [Next]_vars
             PROVE  CopiesAndDebts'
  OBVIOUS
<1> DEFINE NoneAdded ==
        \A k \in OwnScans : Copies(k)' \subseteq Copies(k) /\ Owing(k)' \subseteq Owing(k)
<1>1. CASE \E offer \in Offers : Enqueue(offer)
  <2> PICK offer \in Offers : Enqueue(offer)
    BY <1>1
  <2>1. offer \in Offer /\ AddTask(offer) /\ UNCHANGED todo
    BY OffersAssumption DEF Enqueue
  <2>2. ASSUME NEW k \in OwnScans
        PROVE  Copies(k)' = Copies(k)
    BY <2>1, AddTaskCopies DEF OwnScans
  <2>3. NoneAdded
    BY <2>1, <2>2 DEF Owing
  <2> QED
    BY <2>3, FewerKeeps
<1>2. CASE \E c \in Curators : ReadLiveKinds(c)
  BY <1>2, LookingKeeps
<1>3. CASE \E c \in Curators : EnqueueScan(c)
  BY <1>3, ScanningKeeps
<1>4. CASE \E w \in Workers : CycleStep(w)
  BY <1>4, CycleAddsNoCopy, FewerKeeps
<1>5. CASE Crash
  <2>1. \A k \in OwnScans : Owing(k)' = {}
    BY <1>5 DEF Crash, Owing
  <2>2. \A k \in OwnScans : Copies(k)' \subseteq Copies(k)
    BY <1>5 DEF Crash, Copies, WithStatus, NoTask
  <2>3. NoneAdded
    BY <2>1, <2>2
  <2> QED
    BY <2>3, FewerKeeps
<1>6. CASE Tick
  <2>1. \A t \in TaskIds : tasks'[t].status = tasks[t].status
                            /\ tasks'[t].kind = tasks[t].kind
    <3> SUFFICES ASSUME NEW t \in TaskIds
                 PROVE  /\ Nearer(tasks[t]).status = tasks[t].status
                        /\ Nearer(tasks[t]).kind = tasks[t].kind
      BY <1>6 DEF Tick
    <3> QED
      BY DEF Nearer, TypeOK, Task
  <2>2. NoneAdded
    BY <1>6, <2>1 DEF Tick, Copies, Owing, WithStatus
  <2> QED
    BY <2>2, FewerKeeps
<1>7. CASE UNCHANGED <<tasks, todo>>
  <2>1. NoneAdded
    BY <1>7 DEF Copies, Owing, WithStatus
  <2> QED
    BY <2>1, FewerKeeps
<1> QED
  BY <1>1, <1>2, <1>3, <1>4, <1>5, <1>6, <1>7
  DEF Next, vars, queue, WriteQueue, TriggerWake, RequestCycle, LoopSetsOut,
      LoopResumes, ChangeSettings

\* However many curation cycles race and however their rounds interleave with
\* the workers', admins' requests and crashes, no more copies of a scan are live
\* than there are such cycles.
THEOREM ScansBounded == Spec => []ScanCopiesBounded
<1>1. Init => CopiesAndDebts
  <2> SUFFICES ASSUME Init, NEW k \in OwnScans
               PROVE  Cardinality(Copies(k)) + Cardinality(Owing(k)) <= Cardinality(Curators)
    BY DEF CopiesAndDebts
  <2>1. Copies(k) = {} /\ Owing(k) = {}
    BY DEF Init, Copies, Owing, WithStatus, NoTask
  <2> QED
    BY <2>1, FS_EmptySet, TasksFinite
<1>2. TypeOK /\ CopiesAndDebts => ScanCopiesBounded
  BY TasksFinite DEF CopiesAndDebts, ScanCopiesBounded
<1> QED
  BY InitType, NextKeepsType, NextKeepsDebts, <1>1, <1>2, PTL DEF Spec

-----------------------------------------------------------------------------
(* The two queues together *)

LEMMA QueuesAlone == QueuesSpec => Spec /\ T!Spec
<1>1. QueuesInit => Init /\ T!Init
  BY DEF QueuesInit
<1>2. [QueuesNext]_queuesVars => [Next]_vars /\ [T!Next]_T!vars
  BY DEF QueuesNext, queuesVars, sagwanVars, T!vars
<1> QED
  BY <1>1, <1>2, PTL DEF QueuesSpec, Spec, T!Spec

\* What SagwanTasks assumes of its constants, for those that T gives it.
LEMMA SagwanConstants ==
    /\ MaxPath \in Nat
    /\ {1} \subseteq Nat \ {0}
    /\ T!IsFiniteSet(SagwanWorkers) /\ SagwanWorkers \subseteq SagwanWorkers
    /\ LET seeds == {[kind |-> "check_capsule_maintenance", resource_key |-> 1,
                      write_set |-> {1}, priority |-> 0]}
       IN  /\ seeds \subseteq T!Seed
           /\ \A s \in seeds : s.write_set # {}
           /\ {"check_capsule_maintenance"} \subseteq T!SAGWAN_TASK_KINDS
    /\ /\ MAX_CHAIN_DEPTH \in Nat /\ 1 \in Nat /\ 1 \in Nat \ {0} /\ 0 \in Nat
       /\ SAGWAN_PENDING_LIMIT \in Nat \ {0}
       /\ MaxSagwanTasks \in Nat /\ MaxSagwanCrashes \in Nat
<1>1. 1 \in T!Paths
  BY SagwanBounds DEF T!Paths
<1> QED
  BY <1>1, SagwanBounds, KnobsAssumption
     DEF T!IsFiniteSet, IsFiniteSet, T!Seed, T!SAGWAN_TASK_KINDS

\* Follow-ups of the agent's queue keep to the depth limit and name their root, and its
\* open tasks exceed its limit only by what is held or orphaned
\* (sagwan_tasks.py:self_enqueue, enqueue_task).
THEOREM FollowUpsStayBounded == QueuesSpec => []FollowUpsBounded
<1>1. QueuesSpec => []TypeOK
  BY QueuesAlone, TypeCorrect, PTL
<1>2. QueuesSpec => [](T!TypeOK /\ T!LineageBounded /\ T!BacklogBounded)
  BY QueuesAlone, SagwanConstants, T!TypeCorrect, T!ChainsBounded, T!BacklogKept, PTL
<1> QED
  BY <1>1, <1>2, PTL DEF FollowUpsBounded
=============================================================================
