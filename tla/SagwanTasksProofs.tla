------------------------- MODULE SagwanTasksProofs -------------------------
(***************************************************************************)
(* Theorems about SagwanTasks, for every set of workers and every value of *)
(* the queue's knobs, and the refinement of TaskLifecycle.                 *)
(***************************************************************************)
EXTENDS SagwanTasks, FiniteSetTheorems, TLAPS

-----------------------------------------------------------------------------
(* The operations on a record keep its type *)

LEMMA NoTaskType == NoTask \in Task
  BY KnobsAssumption DEF NoTask, Task, Finished, Active

LEMMA NoJobType == NoJob \in Job
  BY KnobsAssumption DEF NoJob, Job

\* The worker's copy keeps its type, too.
LEMMA CopyType ==
    ASSUME TypeOK, NEW t \in TaskIds
    PROVE  Copy(t) \in Job
<1>1. tasks[t] \in Task
  BY DEF TypeOK
<1>2. /\ tasks[t].kind \in SAGWAN_TASK_KINDS \cup {"none"}
      /\ tasks[t].write_set \in SUBSET Paths
      /\ tasks[t].root \in 0..MaxTasks
      /\ tasks[t].chain_depth \in Nat
  BY <1>1 DEF Task
<1>3. t \in 0..MaxTasks
  BY KnobsAssumption DEF TaskIds
<1> QED
  BY <1>2, <1>3 DEF Copy, Job

LEMMA JobUpdateTypes ==
    ASSUME NEW j \in Job
    PROVE  /\ \A p \in Paths \cup {0} : Trying(j, p) \in Job
           /\ \A p \in Paths \cup {0} : Trying(j, p).follow = p
           /\ Spent(j) \in Job
           /\ Dropped(j) \in Job
<1>1. \A p \in Paths \cup {0} : [j EXCEPT !.follow = p] \in Job
  BY DEF Job
<1>2. ASSUME NEW p \in Paths \cup {0}
      PROVE  Trying(j, p) \in Job /\ Trying(j, p).follow = p
  <2> DEFINE j1 == [j EXCEPT !.tried = @ + 1]
             j2 == [j1 EXCEPT !.follow = p]
  <2>1. Trying(j, p) = j2
    BY DEF Trying
  <2>2. j1 \in Job
    BY DEF Job
  <2> HIDE DEF j1
  <2>3. j2 \in Job /\ j2.follow = p
    BY <2>2 DEF Job
  <2> QED
    BY <2>1, <2>3
<1>3. Spent(j) \in Job
  <2> DEFINE j1 == [j EXCEPT !.spawn_budget_used = @ + 1]
             j2 == [j1 EXCEPT !.follow = 0]
  <2>1. Spent(j) = j2
    BY DEF Spent
  <2>2. j1 \in Job
    BY DEF Job
  <2> HIDE DEF j1
  <2>3. j2 \in Job
    BY <2>2 DEF Job
  <2> QED
    BY <2>1, <2>3
<1> QED
  BY <1>1, <1>2, <1>3 DEF Dropped

\* What the worker's copy says of the task never changes.
LEMMA JobUpdateKeeps ==
    ASSUME NEW j \in Job, NEW k,
           \/ k = Spent(j)
           \/ k = Dropped(j)
           \/ \E p \in Paths \cup {0} : k = Trying(j, p)
    PROVE  /\ k.id = j.id
           /\ k.kind = j.kind
           /\ k.write_set = j.write_set
           /\ k.root = j.root
           /\ k.chain_depth = j.chain_depth
  BY DEF Spent, Dropped, Trying, Job

LEMMA BackoffType ==
    ASSUME NEW n \in Nat
    PROVE  RETRY_BACKOFF_BASE * 2 ^ n \in Int
<1>1. 2 ^ n \in Int
  BY SMT
<1> QED
  BY <1>1, KnobsAssumption, SMT

\* One field at a time: the provers lose their way in longer chains.
LEMMA FieldTypes ==
    ASSUME NEW r \in Task
    PROVE  /\ \A x \in {"absent"} \cup Active \cup Finished :
                 [r EXCEPT !.status = x] \in Task
           /\ \A x \in Int : [r EXCEPT !.run_after = x] \in Task
           /\ \A x \in -1..LEASE_DURATION : [r EXCEPT !.lease = x] \in Task
           /\ \A x \in 0..(DONE_PRUNE_AFTER + 1) : [r EXCEPT !.age = x] \in Task
           /\ \A x \in 0..DEFAULT_MAX_RETRIES :
                 [r EXCEPT !.retry_count = x] \in Task
  BY DEF Task

LEMMA DoneType ==
    ASSUME NEW r \in Task
    PROVE  Done(r) \in Task
<1> DEFINE r1 == [r EXCEPT !.status = "done"]
           r2 == [r1 EXCEPT !.age = 0]
           r3 == [r2 EXCEPT !.lease = -1]
           r4 == [r3 EXCEPT !.run_after = 0]
<1>1. Done(r) = r4
  BY DEF Done
<1>2. r1 \in Task
  BY FieldTypes DEF Finished
<1> HIDE DEF r1
<1>3. r2 \in Task
  BY <1>2, FieldTypes, KnobsAssumption
<1> HIDE DEF r2
<1>4. r3 \in Task
  BY <1>3, FieldTypes, KnobsAssumption
<1> HIDE DEF r3
<1>5. r4 \in Task
  BY <1>4, FieldTypes
<1> QED
  BY <1>1, <1>5

LEMMA FailedType ==
    ASSUME NEW r \in Task
    PROVE  Failed(r) \in Task
<1>1. r.retry_count \in 0..DEFAULT_MAX_RETRIES
  BY DEF Task
<1>2. CASE r.retry_count < DEFAULT_MAX_RETRIES
  <2> DEFINE backoff == RETRY_BACKOFF_BASE * 2 ^ r.retry_count
             more == r.retry_count + 1
             r1 == [r EXCEPT !.status = "pending"]
             r2 == [r1 EXCEPT !.retry_count = more]
             r3 == [r2 EXCEPT !.lease = -1]
             r4 == [r3 EXCEPT !.run_after = backoff]
  <2>1. Failed(r) = r4
    BY <1>2 DEF Failed
  <2>2. backoff \in Int /\ more \in 0..DEFAULT_MAX_RETRIES
    BY <1>1, <1>2, BackoffType, KnobsAssumption
  <2> HIDE DEF backoff, more
  <2>3. r1 \in Task
    BY FieldTypes DEF Active
  <2> HIDE DEF r1
  <2>4. r2 \in Task
    BY <2>2, <2>3, FieldTypes
  <2> HIDE DEF r2
  <2>5. r3 \in Task
    BY <2>4, FieldTypes, KnobsAssumption
  <2> HIDE DEF r3
  <2>6. r4 \in Task
    BY <2>2, <2>5, FieldTypes
  <2> QED
    BY <2>1, <2>6
<1>3. CASE ~(r.retry_count < DEFAULT_MAX_RETRIES)
  <2> DEFINE r1 == [r EXCEPT !.status = "dead_letter"]
             r2 == [r1 EXCEPT !.age = 0]
             r3 == [r2 EXCEPT !.run_after = 0]
  <2>1. Failed(r) = r3
    BY <1>3 DEF Failed
  <2>2. r1 \in Task
    BY FieldTypes DEF Finished
  <2> HIDE DEF r1
  <2>3. r2 \in Task
    BY <2>2, FieldTypes, KnobsAssumption
  <2> HIDE DEF r2
  <2>4. r3 \in Task
    BY <2>3, FieldTypes
  <2> QED
    BY <2>1, <2>4
<1> QED
  BY <1>2, <1>3

\* The stamps of the past are finitely many, as images of the tasks.
LEMMA AgedStampType ==
    ASSUME TypeOK, NEW s \in Int
    PROVE  AgedStamp(s) \in Int
<1> DEFINE S == WithStatus(Active)
           T == {tasks[t].run_after : t \in S}
           f == [t \in S |-> tasks[t].run_after]
           later == {q \in PastStamps : q > s}
<1>1. IsFiniteSet(S)
  <2>1. IsFiniteSet(TaskIds)
    BY FS_Interval, KnobsAssumption DEF TaskIds
  <2> QED
    BY <2>1, FS_Subset DEF WithStatus
<1>2. f \in Surjection(S, T)
  BY DEF Surjection
<1>3. IsFiniteSet(T)
  BY <1>1, <1>2, FS_Surjection
<1>4. later \in SUBSET T
  BY DEF PastStamps
<1>5. Cardinality(later) \in Nat
  BY <1>3, <1>4, FS_Subset, FS_CardinalityType
<1>6. AgedStamp(s) = IF s > 0 THEN s - 1 ELSE -1 - Cardinality(later)
  BY DEF AgedStamp
<1> HIDE DEF later
<1> QED
  BY <1>5, <1>6

LEMMA AgedType ==
    ASSUME TypeOK, NEW r \in Task
    PROVE  Aged(r) \in Task
<1>1. CASE r.status \in Active
  <2> DEFINE stamp == AgedStamp(r.run_after)
             lease == IF r.lease > -1 THEN r.lease - 1 ELSE -1
             r1 == [r EXCEPT !.run_after = stamp]
             r2 == [r1 EXCEPT !.lease = lease]
  <2>1. Aged(r) = r2
    BY <1>1 DEF Aged, Active, Finished
  <2>2. stamp \in Int /\ lease \in -1..LEASE_DURATION
    BY AgedStampType, KnobsAssumption DEF Task
  <2> HIDE DEF stamp, lease
  <2>3. r1 \in Task
    BY <2>2, FieldTypes
  <2> HIDE DEF r1
  <2>4. r2 \in Task
    BY <2>2, <2>3, FieldTypes
  <2> QED
    BY <2>1, <2>4
<1>2. CASE r.status \in Finished
  <2> DEFINE age == IF r.age <= DONE_PRUNE_AFTER THEN r.age + 1 ELSE r.age
  <2>1. Aged(r) = [r EXCEPT !.age = age]
    BY <1>2 DEF Aged, Active, Finished
  <2>2. age \in 0..(DONE_PRUNE_AFTER + 1)
    BY KnobsAssumption DEF Task
  <2> QED
    BY <2>1, <2>2, FieldTypes
<1>3. CASE r.status = "absent"
  BY <1>3 DEF Aged, Active, Finished
<1> QED
  BY <1>1, <1>2, <1>3 DEF Task

LEMMA NewTaskType ==
    ASSUME NEW s \in Seed, NEW f \in Freshness, NEW root \in 0..MaxTasks,
           NEW parent \in 0..MaxTasks, NEW depth \in Nat
    PROVE  NewTask(s, f, parent, root, depth) \in Task
  BY KnobsAssumption DEF NewTask, Seed, Task, Active, Finished

-----------------------------------------------------------------------------
(* Type correctness *)

\* A follow-up under way has its path.
FollowsAPath == \A w \in Workers : pc[w] = "cooled" => job[w].follow \in Paths

TypeInv == TypeOK /\ FollowsAPath

LEMMA TypeInit == Init => TypeInv
  BY NoTaskType, NoJobType, KnobsAssumption
     DEF Init, TypeInv, TypeOK, FollowsAPath, PC

\* What complete_task writes into the file.
LEMMA CompleteTaskType ==
    ASSUME TypeOK, NEW w \in Workers,
           FailTask(w) \/ FinishTask(w)
    PROVE  tasks' \in [TaskIds -> Task] /\ lapsed' \subseteq Workers
<1> DEFINE t == job[w].id
<1>0. lapsed' \subseteq Workers
  BY DEF FailTask, FinishTask, CompleteTask, OthersOn, TypeOK
<1>1. ASSUME t \in TaskIds
      PROVE  tasks' \in [TaskIds -> Task]
  <2>1. Failed(tasks[t]) \in Task /\ Done(tasks[t]) \in Task
    BY <1>1, FailedType, DoneType DEF TypeOK
  <2> QED
    BY <2>1 DEF FailTask, FinishTask, CompleteTask, TypeOK
<1>2. ASSUME t \notin TaskIds
      PROVE  tasks' \in [TaskIds -> Task]
  BY <1>2 DEF FailTask, FinishTask, CompleteTask, TypeOK
<1> QED
  BY <1>0, <1>1, <1>2

LEMMA TypeNext == TypeInv /\ [Next]_vars => TypeInv'
<1> SUFFICES ASSUME TypeOK, FollowsAPath, [Next]_vars
             PROVE  TypeInv'
  BY DEF TypeInv
<1> USE DEF TypeInv, TypeOK, FollowsAPath
<1>1. ASSUME NEW s \in Seeds, NEW f \in Freshness, EnqueueTask(s, f)
      PROVE  TypeInv'
  <2>1. NewTask(s, f, 0, next_id, 0) \in Task
    BY <1>1, NewTaskType, SeedsAssumption, KnobsAssumption
       DEF EnqueueTask, AddRecord, TaskIds
  <2> QED
    BY <1>1, <2>1, KnobsAssumption DEF EnqueueTask, AddRecord, TaskIds
<1>2. ASSUME NEW w \in Workers, StartCycle(w)
      PROVE  TypeInv'
  BY <1>2, NoTaskType, KnobsAssumption DEF StartCycle, PC
<1>3. ASSUME NEW w \in Workers, ClaimNextTask(w)
      PROVE  TypeInv'
  <2>1. PICK t \in Runnable :
          /\ tasks' = [tasks EXCEPT ![t].status = "running",
                                    ![t].lease = LEASE_DURATION]
          /\ job' = [job EXCEPT ![w] = Copy(t)]
          /\ attempts' = [attempts EXCEPT ![t] = @ + 1]
    BY <1>3 DEF ClaimNextTask
  <2>2. t \in TaskIds
    BY DEF Runnable, WithStatus
  <2>3. tasks' \in [TaskIds -> Task]
    <3> DEFINE r1 == [tasks[t] EXCEPT !.status = "running"]
               r2 == [r1 EXCEPT !.lease = LEASE_DURATION]
    <3>1. tasks' = [tasks EXCEPT ![t] = r2]
      BY <2>1, <2>2
    <3>2. r1 \in Task
      BY <2>2, FieldTypes DEF Active
    <3> HIDE DEF r1
    <3>3. r2 \in Task
      BY <3>2, FieldTypes, KnobsAssumption
    <3> QED
      BY <3>1, <3>3
  <2>4. job' \in [Workers -> Job]
    <3>1. Copy(t) \in Job
      BY <2>2, CopyType
    <3> QED
      BY <2>1, <3>1
  <2> QED
    BY <1>3, <2>1, <2>2, <2>3, <2>4, KnobsAssumption DEF ClaimNextTask, PC, InHand
<1>4. ASSUME NEW w \in Workers, EndCycle(w)
      PROVE  TypeInv'
  BY <1>4 DEF EndCycle, PC
<1>5. ASSUME NEW w \in Workers, AcquirePathLock(w)
      PROVE  TypeInv'
  BY <1>5 DEF AcquirePathLock, PC, InHand
<1>6. ASSUME NEW w \in Workers, ReleasePathLocks(w)
      PROVE  TypeInv'
  BY <1>6, NoJobType DEF ReleasePathLocks, PC
<1>7. ASSUME NEW w \in Workers, HandlerFails(w)
      PROVE  TypeInv'
  <2>1. tasks' \in [TaskIds -> Task] /\ lapsed' \subseteq Workers
    BY <1>7, CompleteTaskType DEF HandlerFails
  <2> QED
    BY <1>7, <2>1 DEF HandlerFails, PC
<1>8. ASSUME NEW w \in Workers, HandlerDecides(w)
      PROVE  TypeInv'
  BY <1>8 DEF HandlerDecides, PC, InHand
<1>9. ASSUME NEW w \in Workers, HandlerSucceeds(w)
      PROVE  TypeInv'
  <2>1. tasks' \in [TaskIds -> Task] /\ lapsed' \subseteq Workers
    BY <1>9, CompleteTaskType DEF HandlerSucceeds
  <2> QED
    BY <1>9, <2>1 DEF HandlerSucceeds, PC
<1>10. ASSUME NEW w \in Workers, SelfEnqueueCheck(w)
       PROVE  TypeInv'
  <2>1. PICK p \in Paths \cup {0} :
          /\ job' = [job EXCEPT ![w] = Trying(job[w], p)]
          /\ pc' = [pc EXCEPT ![w] = IF p # 0 THEN "cooled" ELSE "spawning"]
    <3>1. PICK q \in Paths :
            LET allowed == /\ CanSelfEnqueue(job[w], ChildKind)
                           /\ ~RecentlyTouched(ChildKind, q)
            IN  /\ job' = [job EXCEPT ![w] =
                              Trying(job[w], IF allowed THEN q ELSE 0)]
                /\ pc' = [pc EXCEPT ![w] =
                              IF allowed THEN "cooled" ELSE "spawning"]
      BY <1>10 DEF SelfEnqueueCheck
    <3>2. CASE /\ CanSelfEnqueue(job[w], ChildKind)
               /\ ~RecentlyTouched(ChildKind, q)
      <4>1. q # 0
        BY PathsAssumption DEF Paths
      <4> QED
        BY <3>1, <3>2, <4>1
    <3>3. CASE ~(/\ CanSelfEnqueue(job[w], ChildKind)
                 /\ ~RecentlyTouched(ChildKind, q))
      BY <3>1, <3>3
    <3> QED
      BY <3>2, <3>3
  <2>2. Trying(job[w], p) \in Job /\ Trying(job[w], p).follow = p
    BY JobUpdateTypes
  <2> QED
    BY <1>10, <2>1, <2>2 DEF SelfEnqueueCheck, PC, InHand
<1>11. ASSUME NEW w \in Workers, SelfEnqueue(w)
       PROVE  TypeInv'
  <2>1. PICK f \in Freshness : AddRecord(ChildTask(job[w], f))
    BY <1>11 DEF SelfEnqueue
  <2>2. ChildTask(job[w], f) \in Task
    <3> DEFINE s == [kind |-> ChildKind, resource_key |-> job[w].follow,
                     write_set |-> {job[w].follow}, priority |-> 0]
    <3>1. s \in Seed
      BY <1>11 DEF Seed, SelfEnqueue, ChildKind, SAGWAN_TASK_KINDS
    <3> HIDE DEF s
    <3>2. NewTask(s, f, job[w].id, job[w].root, job[w].chain_depth + 1) \in Task
      BY <3>1, NewTaskType DEF Job
    <3> QED
      BY <3>2 DEF ChildTask, s
  <2> HIDE DEF FollowsAPath
  <2>3. tasks' \in [TaskIds -> Task] /\ next_id' \in 1..(MaxTasks + 1)
    BY <2>1, <2>2, KnobsAssumption DEF AddRecord, TaskIds
  <2>4. job' \in [Workers -> Job] /\ pc' \in [Workers -> PC]
    BY <1>11, JobUpdateTypes DEF SelfEnqueue, PC, InHand
  <2>5. FollowsAPath'
    BY <1>11 DEF SelfEnqueue, FollowsAPath
  <2> QED
    BY <1>11, <2>3, <2>4, <2>5 DEF SelfEnqueue
<1>12. ASSUME NEW w \in Workers, SelfEnqueueDeclined(w)
       PROVE  TypeInv'
  <2>1. job' \in [Workers -> Job]
    BY <1>12, JobUpdateTypes DEF SelfEnqueueDeclined
  <2>2. FollowsAPath'
    BY <1>12 DEF SelfEnqueueDeclined
  <2> QED
    BY <1>12, <2>1, <2>2 DEF SelfEnqueueDeclined, PC, InHand
<1>13. ASSUME NEW w \in Workers, SelfEnqueueRaises(w)
       PROVE  TypeInv'
  <2>1. tasks' \in [TaskIds -> Task] /\ lapsed' \subseteq Workers
    BY <1>13, CompleteTaskType DEF SelfEnqueueRaises
  <2>2. job' \in [Workers -> Job]
    BY <1>13, JobUpdateTypes DEF SelfEnqueueRaises
  <2> QED
    BY <1>13, <2>1, <2>2 DEF SelfEnqueueRaises, PC, InHand
<1>14. ASSUME NEW k \in Disableable, ToggleKind(k)
       PROVE  TypeInv'
  BY <1>14, SeedsAssumption DEF ToggleKind
<1>15. CASE Crash
  BY <1>15, NoJobType, KnobsAssumption DEF Crash, PC
<1>16. CASE Tick
  <2>1. \A t \in TaskIds : Aged(tasks[t]) \in Task
    BY AgedType
  <2>2. lapsed' \subseteq Workers /\ overrun' \subseteq TaskIds
    BY <1>16 DEF Tick, Overrunning
  <2> QED
    BY <1>16, <2>1, <2>2 DEF Tick
<1>17. CASE UNCHANGED vars
  BY <1>17 DEF vars
<1> QED
  BY <1>1, <1>2, <1>3, <1>4, <1>5, <1>6, <1>7, <1>8, <1>9, <1>10, <1>11,
     <1>12, <1>13, <1>14, <1>15, <1>16, <1>17 DEF Next, WorkerStep, CycleStep

\* Every reachable state of the queue and of its workers is well-typed: stamps,
\* leases, retry counts and identifiers stay in the ranges the code gives them.
THEOREM TypeCorrect == Spec => []TypeOK
<1>1. Spec => []TypeInv
  BY TypeInit, TypeNext, PTL DEF Spec
<1> QED
  BY <1>1, PTL DEF TypeInv

-----------------------------------------------------------------------------
(* Path locks *)

\* A sorted acquirer waits only for locks behind all it holds.
LockInv ==
    /\ \A t \in TaskIds : tasks[t].status # "absent" => tasks[t].write_set # {}
    /\ \A w, v \in Workers : w # v => held[w] \cap held[v] = {}
    /\ \A w \in Workers : pc[w] \in {"off", "draining"} => held[w] = {}
    /\ \A w \in Workers : pc[w] \in InHand \ {"locking"} =>
          job[w].write_set \subseteq held[w]
    /\ \A w \in Workers : pc[w] = "locking" =>
          /\ Wanted(w) # {}
          /\ \A p \in held[w], q \in Wanted(w) : p < q

LEMMA LockInit == Init => LockInv
  BY DEF Init, LockInv, NoTask, InHand

\* The file's steps never empty a write set.
LEMMA CompletionKeeps ==
    ASSUME TypeOK, NEW w \in Workers,
           FailTask(w) \/ FinishTask(w)
    PROVE  \A t \in TaskIds : /\ tasks'[t].write_set = tasks[t].write_set
                              /\ tasks'[t].status = "absent"
                                    <=> tasks[t].status = "absent"
<1> SUFFICES ASSUME NEW t \in TaskIds
             PROVE  /\ tasks'[t].write_set = tasks[t].write_set
                    /\ tasks'[t].status = "absent" <=> tasks[t].status = "absent"
  OBVIOUS
<1>1. tasks[t] \in Task
  BY DEF TypeOK
<1>2. /\ Failed(tasks[t]).write_set = tasks[t].write_set
      /\ Failed(tasks[t]).status # "absent"
      /\ Done(tasks[t]).write_set = tasks[t].write_set
      /\ Done(tasks[t]).status # "absent"
  BY <1>1 DEF Task, Failed, Done
<1>3. \/ tasks' = tasks
      \/ /\ tasks[job[w].id].status # "absent"
         /\ \/ tasks' = [tasks EXCEPT ![job[w].id] = Failed(tasks[job[w].id])]
            \/ tasks' = [tasks EXCEPT ![job[w].id] = Done(tasks[job[w].id])]
  BY DEF FailTask, FinishTask, CompleteTask
<1> QED
  BY <1>2, <1>3 DEF TypeOK

LEMMA LockNext == TypeInv /\ LockInv /\ [Next]_vars => LockInv'
<1> SUFFICES ASSUME TypeOK, FollowsAPath, LockInv, [Next]_vars
             PROVE  LockInv'
  BY DEF TypeInv
<1> USE DEF LockInv, Wanted
<1>1. ASSUME NEW s \in Seeds, NEW f \in Freshness, EnqueueTask(s, f)
      PROVE  LockInv'
  BY <1>1, SeedsAssumption DEF EnqueueTask, AddRecord, NewTask, TypeOK
<1>2. ASSUME NEW w \in Workers, StartCycle(w)
      PROVE  LockInv'
  BY <1>2 DEF StartCycle, NoTask, TypeOK, InHand
<1>3. ASSUME NEW w \in Workers, ClaimNextTask(w)
      PROVE  LockInv'
  <2>1. PICK t \in Runnable :
          /\ tasks' = [tasks EXCEPT ![t].status = "running",
                                    ![t].lease = LEASE_DURATION]
          /\ job' = [job EXCEPT ![w] = Copy(t)]
    BY <1>3 DEF ClaimNextTask
  <2>2. t \in TaskIds /\ tasks[t].status # "absent"
    BY DEF Runnable, WithStatus, Active
  <2>3. \A u \in TaskIds : /\ tasks'[u].write_set = tasks[u].write_set
                           /\ tasks'[u].status = "absent"
                                 <=> tasks[u].status = "absent"
    BY <2>1, <2>2 DEF TypeOK, Task
  <2>4. job'[w].write_set = tasks[t].write_set /\ held[w] = {}
    BY <1>3, <2>1 DEF Copy, TypeOK, ClaimNextTask
  <2> QED
    BY <1>3, <2>1, <2>2, <2>3, <2>4 DEF ClaimNextTask, TypeOK, InHand
<1>4. ASSUME NEW w \in Workers, EndCycle(w)
      PROVE  LockInv'
  BY <1>4 DEF EndCycle, TypeOK, InHand
<1>5. ASSUME NEW w \in Workers, AcquirePathLock(w)
      PROVE  LockInv'
  <2>1. PICK p \in Paths :
          /\ IsNextLock(w, p) /\ IsFree(p)
          /\ held' = [held EXCEPT ![w] = @ \cup {p}]
          /\ pc' = [pc EXCEPT ![w] =
                      IF Wanted(w) = {p} THEN "working" ELSE "locking"]
    BY <1>5 DEF AcquirePathLock
  <2>2. Wanted(w)' = Wanted(w) \ {p}
    BY <1>5, <2>1 DEF AcquirePathLock, TypeOK
  <2>3. \A q \in Wanted(w) \ {p} : p < q
    BY <2>1 DEF IsNextLock, TypeOK, Job, Paths
  <2>4. \A v \in Workers \ {w} : held'[v] = held[v] /\ pc'[v] = pc[v]
    BY <2>1 DEF TypeOK
  <2>5. \A v, u \in Workers : v # u => held'[v] \cap held'[u] = {}
    BY <2>1 DEF IsFree, TypeOK
  <2>6. pc'[w] = "working" => job'[w].write_set \subseteq held'[w]
    BY <1>5, <2>1 DEF AcquirePathLock, TypeOK
  <2>7. pc'[w] = "locking" =>
          /\ Wanted(w)' # {}
          /\ \A x \in held'[w], q \in Wanted(w)' : x < q
    <3> SUFFICES ASSUME pc'[w] = "locking"
                 PROVE  /\ Wanted(w)' # {}
                        /\ \A x \in held'[w], q \in Wanted(w)' : x < q
      OBVIOUS
    <3>1. Wanted(w) # {p}
      BY <2>1 DEF TypeOK
    <3>2. Wanted(w)' # {}
      BY <2>1, <2>2, <3>1 DEF IsNextLock
    <3>3. \A x \in held[w], q \in Wanted(w) : x < q
      BY <1>5 DEF AcquirePathLock
    <3> QED
      BY <2>1, <2>2, <2>3, <3>2, <3>3 DEF TypeOK
  <2>8. tasks' = tasks /\ job' = job /\ pc'[w] \in {"working", "locking"}
    BY <1>5, <2>1 DEF AcquirePathLock, TypeOK
  <2> QED
    BY <2>4, <2>5, <2>6, <2>7, <2>8 DEF InHand
<1>6. ASSUME NEW w \in Workers, ReleasePathLocks(w)
      PROVE  LockInv'
  BY <1>6 DEF ReleasePathLocks, TypeOK, InHand
<1>7. ASSUME NEW w \in Workers, HandlerFails(w)
      PROVE  LockInv'
  BY <1>7, CompletionKeeps DEF HandlerFails, TypeOK, InHand
<1>8. ASSUME NEW w \in Workers, HandlerDecides(w)
      PROVE  LockInv'
  BY <1>8 DEF HandlerDecides, TypeOK, InHand
<1>9. ASSUME NEW w \in Workers, HandlerSucceeds(w)
      PROVE  LockInv'
  BY <1>9, CompletionKeeps DEF HandlerSucceeds, TypeOK, InHand
<1>10. ASSUME NEW w \in Workers, SelfEnqueueCheck(w)
       PROVE  LockInv'
  <2>1. \A v \in Workers : job'[v].write_set = job[v].write_set
    BY <1>10 DEF SelfEnqueueCheck, Trying, TypeOK, Job
  <2>2. pc[w] = "spawning" /\ pc'[w] \in {"cooled", "spawning"}
        /\ \A v \in Workers \ {w} : pc'[v] = pc[v]
    BY <1>10 DEF SelfEnqueueCheck, TypeOK
  <2> QED
    BY <1>10, <2>1, <2>2 DEF SelfEnqueueCheck, InHand
<1>11. ASSUME NEW w \in Workers, SelfEnqueue(w)
       PROVE  LockInv'
  <2>1. PICK f \in Freshness : AddRecord(ChildTask(job[w], f))
    BY <1>11 DEF SelfEnqueue
  <2>2. \A t \in TaskIds : tasks'[t].status # "absent" => tasks'[t].write_set # {}
    <3>1. ChildTask(job[w], f).write_set # {}
      BY DEF ChildTask, NewTask
    <3> QED
      BY <2>1, <3>1 DEF AddRecord, TypeOK
  <2>3. \A v \in Workers : job'[v].write_set = job[v].write_set
    BY <1>11 DEF SelfEnqueue, Spent, TypeOK, Job
  <2> QED
    BY <1>11, <2>2, <2>3 DEF SelfEnqueue, TypeOK, InHand
<1>12. ASSUME NEW w \in Workers, SelfEnqueueDeclined(w)
       PROVE  LockInv'
  <2>1. \A v \in Workers : job'[v].write_set = job[v].write_set
    BY <1>12, JobUpdateKeeps DEF SelfEnqueueDeclined, TypeOK
  <2> QED
    BY <1>12, <2>1 DEF SelfEnqueueDeclined, TypeOK, InHand
<1>13. ASSUME NEW w \in Workers, SelfEnqueueRaises(w)
       PROVE  LockInv'
  <2>1. \A v \in Workers : job'[v].write_set = job[v].write_set
    BY <1>13 DEF SelfEnqueueRaises, Dropped, TypeOK, Job
  <2>2. \A t \in TaskIds : tasks'[t].status # "absent" => tasks'[t].write_set # {}
    BY <1>13, CompletionKeeps DEF SelfEnqueueRaises
  <2> QED
    BY <1>13, <2>1, <2>2 DEF SelfEnqueueRaises, TypeOK, InHand
<1>14. ASSUME NEW k \in Disableable, ToggleKind(k)
       PROVE  LockInv'
  BY <1>14 DEF ToggleKind
<1>15. CASE Crash
  BY <1>15 DEF Crash, InHand
<1>16. CASE Tick
  <2>1. \A t \in TaskIds : /\ Aged(tasks[t]).write_set = tasks[t].write_set
                           /\ Aged(tasks[t]).status = tasks[t].status
    BY DEF Aged, TypeOK, Task, Active, Finished
  <2> QED
    BY <1>16, <2>1 DEF Tick, TypeOK
<1>17. CASE UNCHANGED vars
  BY <1>17 DEF vars
<1> QED
  BY <1>1, <1>2, <1>3, <1>4, <1>5, <1>6, <1>7, <1>8, <1>9, <1>10, <1>11,
     <1>12, <1>13, <1>14, <1>15, <1>16, <1>17 DEF Next, WorkerStep, CycleStep

\* Two handlers never execute at once on write sets that overlap, however long
\* they run and whoever claimed their tasks (acquire_path_locks).
THEOREM WriteSetsExcluded == Spec => []WriteSetExclusion
<1>1. Init => TypeInv /\ LockInv
  BY TypeInit, LockInit
<1>2. TypeInv /\ LockInv /\ [Next]_vars => (TypeInv /\ LockInv)'
  BY TypeNext, LockNext
<1>3. LockInv => WriteSetExclusion
  BY DEF LockInv, WriteSetExclusion
<1> QED
  BY <1>1, <1>2, <1>3, PTL DEF Spec

LEMMA Least ==
    ASSUME NEW T, T \subseteq Nat, T # {}
    PROVE  \E x \in T : \A y \in T : x <= y
<1> DEFINE R == OpToRel(<, Nat)
<1>1. \E x \in T : \A y \in T : ~(<<y, x>> \in R)
  <2>1. IsWellFoundedOn(R, Nat)
    BY NatLessThanWellFounded
  <2> HIDE DEF R
  <2> QED
    BY <2>1, WFMin
<1>2. \A x, y \in T : ~(<<y, x>> \in R) => x <= y
  BY DEF OpToRel
<1> QED
  BY <1>1, <1>2

LEMMA Greatest ==
    ASSUME NEW n \in Nat, NEW T, T \subseteq 0..n, T # {}
    PROVE  \E x \in T : \A y \in T : y <= x
<1> DEFINE M == {n - x : x \in T}
<1>1. \A x \in T : n - x \in Nat
  OBVIOUS
<1>2. M \subseteq Nat /\ M # {}
  BY <1>1, Zenon
<1> HIDE DEF M
<1>3. PICK m \in M : \A y \in M : m <= y
  BY <1>2, Least
<1>4. PICK x \in T : m = n - x
  BY DEF M
<1>5. \A y \in T : n - y \in M
  BY DEF M
<1> QED
  BY <1>3, <1>4, <1>5

\* Of all the locks waited for, consider the last in sort order: had its holder
\* to wait, it would wait for a later one.
LEMMA LockInvImpliesNoDeadlock == TypeInv /\ LockInv => NoLockDeadlock
<1> SUFFICES ASSUME TypeOK, LockInv,
                    NEW x \in Workers, pc[x] = "locking",
                    \A w \in Workers :
                       pc[w] \notin (InHand \ {"locking"}) \cup {"releasing"},
                    \A w \in Workers : pc[w] = "locking" =>
                       \A p \in Paths : IsNextLock(w, p) => ~IsFree(p)
             PROVE  FALSE
  BY DEF TypeInv, NoLockDeadlock
<1> DEFINE Waiters == {w \in Workers : pc[w] = "locking"}
           NextLocks == {p \in Paths : \E w \in Waiters : IsNextLock(w, p)}
<1>1. \A w \in Waiters : \E p \in NextLocks : IsNextLock(w, p)
  <2> SUFFICES ASSUME NEW w \in Waiters
               PROVE  \E p \in NextLocks : IsNextLock(w, p)
    OBVIOUS
  <2>1. Wanted(w) # {} /\ Wanted(w) \subseteq Paths
    BY DEF LockInv, Wanted, TypeOK, Job
  <2>2. Paths \subseteq Nat
    BY DEF Paths
  <2>3. PICK p \in Wanted(w) : \A q \in Wanted(w) : p <= q
    BY <2>1, <2>2, Least
  <2> QED
    BY <2>1, <2>3 DEF IsNextLock
<1>2. NextLocks # {} /\ NextLocks \subseteq 0..MaxPath
  BY <1>1 DEF Paths
<1> HIDE DEF NextLocks
<1>3. PICK p \in NextLocks : \A q \in NextLocks : q <= p
  BY <1>2, PathsAssumption, Greatest
<1>4. PICK v \in Workers : p \in held[v]
  BY <1>3 DEF NextLocks, IsFree
<1>5. v \in Waiters
  BY <1>4 DEF LockInv, TypeOK, PC, InHand
<1>6. PICK q \in NextLocks : IsNextLock(v, q)
  BY <1>1, <1>5
<1>7. p < q
  BY <1>4, <1>5, <1>6 DEF LockInv, IsNextLock
<1> QED
  BY <1>2, <1>3, <1>6, <1>7, PathsAssumption

\* Workers never wait for each other's path locks in a circle (the sorted order
\* of acquire_path_locks).
THEOREM LocksDoNotDeadlock == Spec => []NoLockDeadlock
<1>1. Init => TypeInv /\ LockInv
  BY TypeInit, LockInit
<1>2. TypeInv /\ LockInv /\ [Next]_vars => (TypeInv /\ LockInv)'
  BY TypeNext, LockNext
<1> QED
  BY <1>1, <1>2, LockInvImpliesNoDeadlock, PTL DEF Spec

-----------------------------------------------------------------------------
(* How the records of the file evolve *)

\* Identifiers are used once.
FreshIds == \A t \in TaskIds : t >= next_id => tasks[t].status = "absent"

\* complete_task changes the one record, and to nothing but these.
LEMMA CompletionEffect ==
    ASSUME TypeOK, NEW w \in Workers,
           FailTask(w) \/ FinishTask(w)
    PROVE  /\ \A t \in TaskIds : t # job[w].id => tasks'[t] = tasks[t]
           /\ \A t \in TaskIds :
                 tasks[t].status # "absent" /\ t = job[w].id =>
                    /\ tasks'[t].status \in {"pending", "done", "dead_letter"}
                    /\ Signature(tasks'[t]) = Signature(tasks[t])
           /\ \A t \in TaskIds :
                 tasks[t].status = "absent" => tasks'[t].status = "absent"
<1>1. \A t \in TaskIds :
         /\ Failed(tasks[t]).status \in {"pending", "dead_letter"}
         /\ Signature(Failed(tasks[t])) = Signature(tasks[t])
         /\ Done(tasks[t]).status = "done"
         /\ Signature(Done(tasks[t])) = Signature(tasks[t])
  BY DEF TypeOK, Task, Failed, Done, Signature
<1>2. \/ tasks' = tasks /\ tasks[job[w].id].status = "absent"
      \/ /\ tasks[job[w].id].status # "absent"
         /\ \/ tasks' = [tasks EXCEPT ![job[w].id] = Failed(tasks[job[w].id])]
            \/ tasks' = [tasks EXCEPT ![job[w].id] = Done(tasks[job[w].id])]
  BY DEF FailTask, FinishTask, CompleteTask
<1> QED
  BY <1>1, <1>2 DEF TypeOK

Lineage(r) == <<r.parent, r.root, r.chain_depth>>

\* A record enqueue_task or self_enqueue may append as task t.
Created(t, r) ==
    /\ DedupHits(Signature(r)) = {}
    /\ \/ \E s \in Seeds, f \in Freshness : r = NewTask(s, f, 0, t, 0)
       \/ \E w \in Workers, f \in Freshness :
             pc[w] = "cooled" /\ r = ChildTask(job[w], f)

\* Records keep what they say of their task, or go; at most one is added.
RecordsEvolve ==
    /\ \A t \in TaskIds :
          tasks[t].status # "absent" /\ tasks'[t].status # "absent" =>
             /\ Signature(tasks'[t]) = Signature(tasks[t])
             /\ Lineage(tasks'[t]) = Lineage(tasks[t])
    /\ \/ /\ next_id' = next_id
          /\ \A t \in TaskIds :
                tasks[t].status = "absent" => tasks'[t].status = "absent"
       \/ /\ next_id \in TaskIds /\ next_id' = next_id + 1
          /\ Created(next_id, tasks'[next_id])
          /\ \A t \in TaskIds \ {next_id} : tasks'[t] = tasks[t]

LEMMA CompletionLineage ==
    ASSUME TypeOK, NEW w \in Workers,
           FailTask(w) \/ FinishTask(w)
    PROVE  \A t \in TaskIds : Lineage(tasks'[t]) = Lineage(tasks[t])
<1>1. \A t \in TaskIds : /\ Lineage(Failed(tasks[t])) = Lineage(tasks[t])
                         /\ Lineage(Done(tasks[t])) = Lineage(tasks[t])
  BY DEF TypeOK, Task, Failed, Done, Lineage
<1>2. \/ tasks' = tasks
      \/ tasks' = [tasks EXCEPT ![job[w].id] = Failed(tasks[job[w].id])]
      \/ tasks' = [tasks EXCEPT ![job[w].id] = Done(tasks[job[w].id])]
  BY DEF FailTask, FinishTask, CompleteTask
<1> QED
  BY <1>1, <1>2 DEF TypeOK

LEMMA AgedKeeps ==
    ASSUME NEW r \in Task
    PROVE  /\ Signature(Aged(r)) = Signature(r)
           /\ Lineage(Aged(r)) = Lineage(r)
           /\ Aged(r).status = r.status
           /\ Aged(r).retry_count = r.retry_count
  BY DEF Aged, Task, Active, Finished, Signature, Lineage

LEMMA RecordSteps ==
    ASSUME TypeInv, FreshIds, [Next]_vars
    PROVE  RecordsEvolve
<1> USE DEF TypeInv, RecordsEvolve
<1>1. ASSUME NEW s \in Seeds, NEW f \in Freshness, EnqueueTask(s, f)
      PROVE  RecordsEvolve
  <2>1. tasks'[next_id] = NewTask(s, f, 0, next_id, 0)
    BY <1>1 DEF EnqueueTask, AddRecord, TypeOK
  <2>2. Signature(tasks'[next_id]) = <<s.kind, s.resource_key, f>>
    BY <2>1 DEF NewTask, Signature
  <2>3. Created(next_id, tasks'[next_id])
    BY <1>1, <2>1, <2>2 DEF Created, EnqueueTask
  <2> QED
    BY <1>1, <2>3, KnobsAssumption
       DEF EnqueueTask, AddRecord, TypeOK, FreshIds, TaskIds
<1>2. ASSUME NEW w \in Workers, StartCycle(w)
      PROVE  RecordsEvolve
  BY <1>2 DEF StartCycle, NoTask, TypeOK
<1>3. ASSUME NEW w \in Workers, ClaimNextTask(w)
      PROVE  RecordsEvolve
  <2>1. PICK t \in Runnable : tasks' = [tasks EXCEPT ![t].status = "running",
                                                     ![t].lease = LEASE_DURATION]
    BY <1>3 DEF ClaimNextTask
  <2>2. t \in TaskIds /\ tasks[t].status # "absent"
    BY DEF Runnable, WithStatus, Active
  <2>3. \A u \in TaskIds : /\ Signature(tasks'[u]) = Signature(tasks[u])
                           /\ Lineage(tasks'[u]) = Lineage(tasks[u])
    BY <2>1, <2>2 DEF TypeOK, Task, Signature, Lineage
  <2>4. \A u \in TaskIds \ {t} : tasks'[u] = tasks[u]
    BY <2>1, <2>2 DEF TypeOK
  <2> QED
    BY <1>3, <2>2, <2>3, <2>4 DEF ClaimNextTask
<1>4. ASSUME UNCHANGED <<tasks, next_id>>
      PROVE  RecordsEvolve
  BY <1>4
<1>5. ASSUME NEW w \in Workers, FailTask(w) \/ FinishTask(w),
             next_id' = next_id
      PROVE  RecordsEvolve
  BY <1>5, CompletionEffect, CompletionLineage
<1>6. ASSUME NEW w \in Workers, SelfEnqueue(w)
      PROVE  RecordsEvolve
  <2>1. PICK f \in Freshness :
          /\ DedupHits(<<ChildKind, job[w].follow, f>>) = {}
          /\ AddRecord(ChildTask(job[w], f))
    BY <1>6 DEF SelfEnqueue
  <2>2. tasks'[next_id] = ChildTask(job[w], f)
    BY <2>1 DEF AddRecord, TypeOK
  <2>3. Signature(tasks'[next_id]) = <<ChildKind, job[w].follow, f>>
    BY <2>2 DEF ChildTask, NewTask, Signature
  <2>4. Created(next_id, tasks'[next_id])
    BY <1>6, <2>1, <2>2, <2>3 DEF Created, SelfEnqueue
  <2> QED
    BY <2>1, <2>4, KnobsAssumption DEF AddRecord, TypeOK, FreshIds, TaskIds
<1>7. ASSUME NEW w \in Workers, SelfEnqueueRaises(w)
      PROVE  RecordsEvolve
  BY <1>4, <1>5, <1>7 DEF SelfEnqueueRaises
<1>8. CASE Tick
  <2>1. \A t \in TaskIds : /\ tasks'[t].status = tasks[t].status
                           /\ Signature(tasks'[t]) = Signature(tasks[t])
                           /\ Lineage(tasks'[t]) = Lineage(tasks[t])
    BY <1>8, AgedKeeps DEF Tick, TypeOK
  <2> QED
    BY <1>8, <2>1 DEF Tick
<1>9. ASSUME NEW w \in Workers,
             \/ EndCycle(w) \/ AcquirePathLock(w) \/ ReleasePathLocks(w)
             \/ HandlerDecides(w) \/ SelfEnqueueCheck(w)
             \/ SelfEnqueueDeclined(w)
      PROVE  RecordsEvolve
  BY <1>4, <1>9 DEF EndCycle, AcquirePathLock, ReleasePathLocks,
                    HandlerDecides, SelfEnqueueCheck, SelfEnqueueDeclined
<1>10. ASSUME NEW w \in Workers, HandlerFails(w) \/ HandlerSucceeds(w)
       PROVE  RecordsEvolve
  BY <1>5, <1>10 DEF HandlerFails, HandlerSucceeds
<1>11. ASSUME \/ \E k \in Disableable : ToggleKind(k)
              \/ Crash
              \/ UNCHANGED vars
       PROVE  RecordsEvolve
  BY <1>4, <1>11 DEF ToggleKind, Crash, vars
<1> QED
  BY <1>1, <1>2, <1>3, <1>6, <1>7, <1>8, <1>9, <1>10, <1>11
     DEF Next, WorkerStep, CycleStep

-----------------------------------------------------------------------------
(* How the workers' copies evolve *)

\* The copy of a task in hand was made of the open task this worker claimed, or
\* is the one it had, where only can_self_enqueue leads to "cooled".
JobsEvolve ==
    \A w \in Workers : pc'[w] \in InHand =>
        \/ /\ pc[w] \in InHand
           /\ job'[w].id = job[w].id
           /\ job'[w].root = job[w].root
           /\ job'[w].chain_depth = job[w].chain_depth
           /\ pc'[w] = "cooled" =>
                 pc[w] = "cooled" \/ CanSelfEnqueue(job[w], ChildKind)
        \/ /\ pc'[w] = "locking"
           /\ \E t \in Runnable : job'[w] = Copy(t)

LEMMA JobSteps ==
    ASSUME TypeInv, [Next]_vars
    PROVE  JobsEvolve
<1> USE DEF TypeInv, JobsEvolve
<1>1. ASSUME job' = job, \A w \in Workers : pc'[w] \in InHand =>
                pc[w] \in InHand /\ (pc'[w] = "cooled" => pc[w] = "cooled")
      PROVE  JobsEvolve
  BY <1>1
<1>2. ASSUME NEW w \in Workers, ClaimNextTask(w)
      PROVE  JobsEvolve
  <2>1. PICK t \in Runnable : job' = [job EXCEPT ![w] = Copy(t)]
    BY <1>2 DEF ClaimNextTask
  <2>2. job'[w] = Copy(t) /\ \A v \in Workers \ {w} : job'[v] = job[v]
    BY <2>1 DEF TypeOK
  <2>3. pc'[w] = "locking" /\ \A v \in Workers \ {w} : pc'[v] = pc[v]
    BY <1>2 DEF ClaimNextTask, TypeOK
  <2> QED
    BY <2>2, <2>3
<1>3. ASSUME NEW w \in Workers, ReleasePathLocks(w)
      PROVE  JobsEvolve
  BY <1>3 DEF ReleasePathLocks, TypeOK, InHand
<1>4. ASSUME NEW w \in Workers, SelfEnqueueCheck(w)
      PROVE  JobsEvolve
  <2>1. /\ pc[w] = "spawning" /\ pc'[w] \in {"cooled", "spawning"}
        /\ pc'[w] = "cooled" => CanSelfEnqueue(job[w], ChildKind)
        /\ \A v \in Workers \ {w} : pc'[v] = pc[v] /\ job'[v] = job[v]
    BY <1>4 DEF SelfEnqueueCheck, TypeOK
  <2>2. /\ job'[w].id = job[w].id
        /\ job'[w].root = job[w].root
        /\ job'[w].chain_depth = job[w].chain_depth
    BY <1>4 DEF SelfEnqueueCheck, Trying, TypeOK, Job
  <2> QED
    BY <2>1, <2>2 DEF InHand
<1>5. ASSUME NEW w \in Workers,
             SelfEnqueue(w) \/ SelfEnqueueDeclined(w) \/ SelfEnqueueRaises(w)
      PROVE  JobsEvolve
  <2>1. /\ pc[w] = "cooled" /\ pc'[w] \in {"spawning", "releasing"}
        /\ \A v \in Workers \ {w} : pc'[v] = pc[v] /\ job'[v] = job[v]
    BY <1>5 DEF SelfEnqueue, SelfEnqueueDeclined, SelfEnqueueRaises, TypeOK
  <2>2. job'[w] \in {Spent(job[w]), Dropped(job[w])}
    BY <1>5 DEF SelfEnqueue, SelfEnqueueDeclined, SelfEnqueueRaises, TypeOK
  <2>3. /\ job'[w].id = job[w].id
        /\ job'[w].root = job[w].root
        /\ job'[w].chain_depth = job[w].chain_depth
    BY <2>2, JobUpdateKeeps DEF TypeOK
  <2> QED
    BY <2>1, <2>3 DEF InHand
<1>6. ASSUME NEW w \in Workers,
             \/ StartCycle(w) \/ EndCycle(w) \/ AcquirePathLock(w)
             \/ HandlerFails(w) \/ HandlerDecides(w) \/ HandlerSucceeds(w)
      PROVE  JobsEvolve
  BY <1>1, <1>6 DEF StartCycle, EndCycle, AcquirePathLock, HandlerFails,
                    HandlerDecides, HandlerSucceeds, TypeOK, InHand
<1>7. ASSUME \/ \E s \in Seeds, f \in Freshness : EnqueueTask(s, f)
             \/ \E k \in Disableable : ToggleKind(k)
             \/ Tick
             \/ UNCHANGED vars
      PROVE  JobsEvolve
  BY <1>1, <1>7 DEF EnqueueTask, ToggleKind, Tick, vars
<1>8. CASE Crash
  BY <1>8 DEF Crash, InHand
<1> QED
  BY <1>2, <1>3, <1>4, <1>5, <1>6, <1>7, <1>8 DEF Next, WorkerStep, CycleStep

-----------------------------------------------------------------------------
(* Follow-up chains *)

\* The lineage of a record, with what LineageBounded needs to be inductive: a
\* root is a task no younger than its descendants.
RecordLineage ==
    \A t \in TaskIds : tasks[t].status # "absent" =>
        /\ tasks[t].chain_depth <= MAX_CHAIN_DEPTH
        /\ tasks[t].root <= t
        /\ tasks[t].chain_depth = 0 <=> tasks[t].root = t
        /\ tasks[t].parent # 0 =>
              /\ tasks[t].parent < t
              /\ tasks[tasks[t].parent].status # "absent" =>
                    /\ tasks[tasks[t].parent].root = tasks[t].root
                    /\ tasks[tasks[t].parent].chain_depth + 1
                          = tasks[t].chain_depth

\* The worker's copy agrees with the record it was made of, as long as that is
\* not pruned; what is about to be spawned stays within the limit.
CopyLineage ==
    \A w \in Workers : pc[w] \in InHand =>
        /\ job[w].id \in TaskIds /\ job[w].id < next_id
        /\ job[w].root <= job[w].id
        /\ tasks[job[w].id].status # "absent" =>
              /\ tasks[job[w].id].root = job[w].root
              /\ tasks[job[w].id].chain_depth = job[w].chain_depth
        /\ pc[w] = "cooled" => job[w].chain_depth + 1 <= MAX_CHAIN_DEPTH

LineageInv == FreshIds /\ RecordLineage /\ CopyLineage

LEMMA LineageInit == Init => LineageInv
  BY DEF Init, LineageInv, FreshIds, RecordLineage, CopyLineage, NoTask, InHand

LEMMA NumberTypes ==
    ASSUME TypeOK
    PROVE  /\ next_id \in Nat /\ MaxTasks \in Nat /\ MAX_CHAIN_DEPTH \in Nat
           /\ \A t \in TaskIds : /\ t \in Nat \ {0} /\ t <= MaxTasks
                                 /\ tasks[t].chain_depth \in Nat
                                 /\ tasks[t].root \in Nat
                                 /\ tasks[t].parent \in 0..MaxTasks
                                 /\ tasks[t].retry_count \in Nat
           /\ \A w \in Workers : /\ job[w].id \in Nat
                                 /\ job[w].root \in Nat
                                 /\ job[w].chain_depth \in Nat
<1>1. ASSUME NEW t \in TaskIds
      PROVE  /\ t \in Nat \ {0} /\ t <= MaxTasks
             /\ tasks[t].chain_depth \in Nat
             /\ tasks[t].root \in Nat
             /\ tasks[t].parent \in 0..MaxTasks
             /\ tasks[t].retry_count \in Nat
  <2>1. tasks[t] \in Task
    BY DEF TypeOK
  <2> QED
    BY <2>1, KnobsAssumption DEF Task, TaskIds
<1>2. ASSUME NEW w \in Workers
      PROVE  job[w].id \in Nat /\ job[w].root \in Nat /\ job[w].chain_depth \in Nat
  <2>1. job[w] \in Job
    BY DEF TypeOK
  <2> QED
    BY <2>1, KnobsAssumption DEF Job
<1> QED
  BY <1>1, <1>2, KnobsAssumption DEF TypeOK

LEMMA FreshNext ==
    ASSUME TypeInv, FreshIds, [Next]_vars
    PROVE  FreshIds'
<1>1. RecordsEvolve
  BY RecordSteps
<1> QED
  BY <1>1, NumberTypes DEF RecordsEvolve, FreshIds, TypeInv

\* The record a step creates, if it does, satisfies RecordLineage.
LEMMA CreatedLineage ==
    ASSUME TypeInv, LineageInv, NEW r, Created(next_id, r), next_id \in TaskIds
    PROVE  /\ r.chain_depth <= MAX_CHAIN_DEPTH
           /\ r.root <= next_id
           /\ r.chain_depth = 0 <=> r.root = next_id
           /\ r.parent # 0 =>
                 /\ r.parent \in TaskIds /\ r.parent < next_id
                 /\ tasks[r.parent].status # "absent" =>
                       /\ tasks[r.parent].root = r.root
                       /\ tasks[r.parent].chain_depth + 1 = r.chain_depth
<1> USE DEF TypeInv
<1>1. CASE \E s \in Seeds, f \in Freshness : r = NewTask(s, f, 0, next_id, 0)
  BY <1>1, NumberTypes DEF NewTask
<1>2. ASSUME NEW w \in Workers, NEW f \in Freshness, pc[w] = "cooled",
             r = ChildTask(job[w], f)
      PROVE  /\ r.parent = job[w].id
             /\ r.root = job[w].root
             /\ r.chain_depth = job[w].chain_depth + 1
  BY <1>2 DEF ChildTask, NewTask
<1>3. CASE \E w \in Workers, f \in Freshness :
              pc[w] = "cooled" /\ r = ChildTask(job[w], f)
  <2>1. PICK w \in Workers :
          /\ pc[w] = "cooled"
          /\ r.parent = job[w].id
          /\ r.root = job[w].root
          /\ r.chain_depth = job[w].chain_depth + 1
    BY <1>2, <1>3
  <2> QED
    BY <2>1, NumberTypes DEF LineageInv, CopyLineage, InHand
<1> QED
  BY <1>1, <1>3 DEF Created

LEMMA LineageNext ==
    ASSUME TypeInv, LineageInv, [Next]_vars
    PROVE  LineageInv'
<1> USE DEF TypeInv, LineageInv
<1>1. RecordsEvolve /\ JobsEvolve /\ TypeOK'
  BY RecordSteps, JobSteps, TypeNext
<1>2. FreshIds'
  BY FreshNext
<1>3. \A t \in TaskIds :
         tasks'[t].status # "absent" /\ t # next_id =>
            /\ tasks[t].status # "absent"
            /\ tasks'[t].root = tasks[t].root
            /\ tasks'[t].chain_depth = tasks[t].chain_depth
            /\ tasks'[t].parent = tasks[t].parent
  BY <1>1 DEF RecordsEvolve, Lineage
<1>4. ASSUME tasks'[next_id].status # "absent", next_id \in TaskIds
      PROVE  /\ Created(next_id, tasks'[next_id])
             /\ \A t \in TaskIds \ {next_id} : tasks'[t] = tasks[t]
  <2>1. tasks[next_id].status = "absent"
    BY <1>4, NumberTypes DEF FreshIds
  <2> QED
    BY <1>1, <1>4, <2>1 DEF RecordsEvolve
<1>5. RecordLineage'
  <2> SUFFICES ASSUME NEW t \in TaskIds, tasks'[t].status # "absent"
               PROVE  /\ tasks'[t].chain_depth <= MAX_CHAIN_DEPTH
                      /\ tasks'[t].root <= t
                      /\ tasks'[t].chain_depth = 0 <=> tasks'[t].root = t
                      /\ tasks'[t].parent # 0 =>
                            /\ tasks'[t].parent < t
                            /\ tasks'[tasks'[t].parent].status # "absent" =>
                                  /\ tasks'[tasks'[t].parent].root
                                        = tasks'[t].root
                                  /\ tasks'[tasks'[t].parent].chain_depth + 1
                                        = tasks'[t].chain_depth
    BY DEF RecordLineage
  <2>1. CASE t = next_id
    BY <1>4, <2>1, CreatedLineage, NumberTypes
  <2>2. CASE t # next_id
    <3>1. /\ tasks[t].status # "absent"
          /\ tasks'[t].root = tasks[t].root
          /\ tasks'[t].chain_depth = tasks[t].chain_depth
          /\ tasks'[t].parent = tasks[t].parent
      BY <1>3, <2>2
    <3>2. t < next_id
      BY <3>1, NumberTypes DEF FreshIds
    <3>3. CASE tasks[t].parent = 0
      BY <3>1, <3>3 DEF RecordLineage
    <3>4. CASE tasks[t].parent # 0
      <4>1. tasks[t].parent \in TaskIds /\ tasks[t].parent < t
        BY <3>1, <3>4, NumberTypes DEF RecordLineage, TaskIds
      <4>2. tasks[t].parent # next_id
        BY <3>2, <4>1, NumberTypes
      <4> QED
        BY <1>3, <3>1, <4>1, <4>2 DEF RecordLineage
    <3> QED
      BY <3>3, <3>4
  <2> QED
    BY <2>1, <2>2
<1>6. CopyLineage'
  <2> SUFFICES ASSUME NEW w \in Workers, pc'[w] \in InHand
               PROVE  /\ job'[w].id \in TaskIds /\ job'[w].id < next_id'
                      /\ job'[w].root <= job'[w].id
                      /\ tasks'[job'[w].id].status # "absent" =>
                            /\ tasks'[job'[w].id].root = job'[w].root
                            /\ tasks'[job'[w].id].chain_depth
                                  = job'[w].chain_depth
                      /\ pc'[w] = "cooled" =>
                            job'[w].chain_depth + 1 <= MAX_CHAIN_DEPTH
    BY DEF CopyLineage
  <2>1. next_id <= next_id'
    BY <1>1, NumberTypes DEF RecordsEvolve
  <2>2. CASE /\ pc[w] \in InHand
             /\ job'[w].id = job[w].id
             /\ job'[w].root = job[w].root
             /\ job'[w].chain_depth = job[w].chain_depth
             /\ pc'[w] = "cooled" =>
                   pc[w] = "cooled" \/ CanSelfEnqueue(job[w], ChildKind)
    <3>1. job[w].id \in TaskIds /\ job[w].id < next_id
      BY <2>2 DEF CopyLineage
    <3>2. job[w].id # next_id
      BY <3>1, NumberTypes
    <3>3. job'[w].id < next_id'
      BY <2>1, <2>2, <3>1, NumberTypes, <1>1 DEF RecordsEvolve
    <3>4. tasks'[job[w].id].status # "absent" =>
             /\ tasks'[job[w].id].root = job[w].root
             /\ tasks'[job[w].id].chain_depth = job[w].chain_depth
      BY <1>3, <2>2, <3>1, <3>2 DEF CopyLineage
    <3> QED
      BY <2>2, <3>1, <3>3, <3>4 DEF CopyLineage, CanSelfEnqueue
  <2>3. CASE pc'[w] = "locking" /\ \E t \in Runnable : job'[w] = Copy(t)
    <3>1. PICK t \in Runnable : job'[w] = Copy(t)
      BY <2>3
    <3>2. t \in TaskIds /\ tasks[t].status # "absent"
      BY DEF Runnable, WithStatus, Active
    <3>3. /\ job'[w].id = t
          /\ job'[w].root = tasks[t].root
          /\ job'[w].chain_depth = tasks[t].chain_depth
      BY <3>1 DEF Copy
    <3>4. t < next_id
      BY <3>2, NumberTypes DEF FreshIds
    <3>5. t < next_id'
      BY <1>1, <3>2, <3>4, NumberTypes DEF RecordsEvolve
    <3>6. tasks[t].root <= t
      BY <3>2 DEF RecordLineage
    <3>7. t # next_id
      BY <3>2, <3>4, NumberTypes
    <3> QED
      BY <1>3, <2>3, <3>2, <3>3, <3>5, <3>6, <3>7
  <2> QED
    BY <1>1, <2>2, <2>3 DEF JobsEvolve
<1> QED
  BY <1>2, <1>5, <1>6

\* A follow-up chain is never deeper than MAX_CHAIN_DEPTH, and every task of it
\* names the root it came from, also when the tasks between are retried by other
\* workers or pruned (self_enqueue reads the worker's copy of the parent).
THEOREM ChainsBounded == Spec => []LineageBounded
<1>1. Init => TypeInv /\ LineageInv
  BY TypeInit, LineageInit
<1>2. TypeInv /\ LineageInv /\ [Next]_vars => (TypeInv /\ LineageInv)'
  BY TypeNext, LineageNext
<1>3. LineageInv => LineageBounded
  BY DEF LineageInv, RecordLineage, LineageBounded
<1> QED
  BY <1>1, <1>2, <1>3, PTL DEF Spec

-----------------------------------------------------------------------------
(* The steps by what they do to hands and records.  Nothing is assumed of    *)
(* how long handlers take.                                                   *)

\* Nobody takes a task or lays one down.
HandsAlike ==
    \A w \in Workers : /\ pc'[w] \in InHand <=> pc[w] \in InHand
                       /\ pc[w] \in InHand => job'[w].id = job[w].id

\* Records stay as they are or are pruned.
Quiet ==
    /\ HandsAlike
    /\ \A t \in TaskIds : \/ tasks'[t] = tasks[t]
                          \/ tasks[t].status \in Finished /\ tasks'[t] = NoTask
    /\ UNCHANGED <<next_id, attempts, crashes, lapsed, overrun>>

Adds(record) ==
    /\ HandsAlike
    /\ AddRecord(record)
    /\ record.status = "pending" /\ record.retry_count = 0
    /\ Signature(record) \in Notes /\ DedupHits(Signature(record)) = {}
    /\ UNCHANGED <<attempts, crashes, lapsed, overrun>>

Claims(w, t) ==
    /\ t \in Runnable /\ pc[w] = "draining"
    /\ pc' = [pc EXCEPT ![w] = "locking"]
    /\ job' = [job EXCEPT ![w] = Copy(t)]
    /\ tasks' = [tasks EXCEPT ![t].status = "running", ![t].lease = LEASE_DURATION]
    /\ attempts' = [attempts EXCEPT ![t] = @ + 1]
    /\ UNCHANGED <<next_id, crashes, lapsed, overrun>>

Reports(w) ==
    /\ FailTask(w) \/ FinishTask(w)
    /\ pc[w] \in InHand /\ pc' = [pc EXCEPT ![w] = "releasing"]
    /\ \A v \in Workers \ {w} : job'[v] = job[v]
    /\ UNCHANGED <<next_id, attempts, crashes, overrun>>

LEMMA StepKinds ==
    ASSUME TypeInv, [Next]_vars
    PROVE  \/ Quiet
           \/ \E record : Adds(record)
           \/ \E w \in Workers, t \in TaskIds : Claims(w, t)
           \/ \E w \in Workers : Reports(w)
           \/ Crash
           \/ Tick
<1> USE DEF TypeInv
<1>1. ASSUME NEW s \in Seeds, NEW f \in Freshness, EnqueueTask(s, f)
      PROVE  \E record : Adds(record)
  <2> DEFINE record == NewTask(s, f, 0, next_id, 0)
  <2>1. Signature(record) = <<s.kind, s.resource_key, f>>
    BY DEF NewTask, Signature
  <2>2. Signature(record) \in Notes
    BY <2>1, SeedsAssumption DEF Seed, Notes
  <2>3. record.status = "pending" /\ record.retry_count = 0
    BY DEF NewTask
  <2>4. AddRecord(record) /\ DedupHits(Signature(record)) = {}
    BY <1>1, <2>1 DEF EnqueueTask
  <2>5. HandsAlike /\ UNCHANGED <<attempts, crashes, lapsed, overrun>>
    BY <1>1 DEF EnqueueTask, HandsAlike
  <2> HIDE DEF record
  <2> QED
    BY <2>2, <2>3, <2>4, <2>5 DEF Adds
<1>2. ASSUME NEW w \in Workers, SelfEnqueue(w)
      PROVE  \E record : Adds(record)
  <2>1. PICK f \in Freshness :
          /\ DedupHits(<<ChildKind, job[w].follow, f>>) = {}
          /\ AddRecord(ChildTask(job[w], f))
    BY <1>2 DEF SelfEnqueue
  <2> DEFINE record == ChildTask(job[w], f)
  <2>2. /\ record.status = "pending" /\ record.retry_count = 0
        /\ Signature(record) = <<ChildKind, job[w].follow, f>>
    BY DEF ChildTask, NewTask, Signature
  <2>3. Signature(record) \in Notes
    BY <1>2, <2>2
       DEF SelfEnqueue, FollowsAPath, Notes, ChildKind, SAGWAN_TASK_KINDS
  <2>4. HandsAlike
    <3>1. \A v \in Workers : job'[v].id = job[v].id
      BY <1>2, JobUpdateKeeps DEF SelfEnqueue, TypeOK
    <3>2. \A v \in Workers : pc'[v] \in InHand <=> pc[v] \in InHand
      BY <1>2 DEF SelfEnqueue, TypeOK, InHand
    <3> QED
      BY <3>1, <3>2 DEF HandsAlike
  <2>5. UNCHANGED <<attempts, crashes, lapsed, overrun>>
    BY <1>2 DEF SelfEnqueue
  <2> HIDE DEF record
  <2>6. DedupHits(Signature(record)) = {} /\ AddRecord(record)
    BY <2>1, <2>2 DEF record
  <2> QED
    BY <2>2, <2>3, <2>4, <2>5, <2>6 DEF Adds
<1>3. ASSUME NEW w \in Workers, ClaimNextTask(w)
      PROVE  \E t \in TaskIds : Claims(w, t)
  <2>1. Runnable \subseteq TaskIds
    BY DEF Runnable, WithStatus
  <2> QED
    BY <1>3, <2>1 DEF ClaimNextTask, Claims
<1>4. ASSUME NEW w \in Workers, HandlerFails(w) \/ HandlerSucceeds(w)
      PROVE  Reports(w)
  BY <1>4 DEF HandlerFails, HandlerSucceeds, Reports, InHand
<1>5. ASSUME NEW w \in Workers, SelfEnqueueRaises(w)
      PROVE  Quiet \/ Reports(w)
  <2>1. \A v \in Workers : job'[v].id = job[v].id
    BY <1>5, JobUpdateKeeps DEF SelfEnqueueRaises, TypeOK
  <2>2. CASE job[w].kind = "check_capsule_maintenance"
    BY <1>5, <2>2 DEF SelfEnqueueRaises, Reports, TypeOK, InHand
  <2>3. CASE job[w].kind # "check_capsule_maintenance"
    BY <1>5, <2>1, <2>3 DEF SelfEnqueueRaises, Quiet, HandsAlike, TypeOK, InHand
  <2> QED
    BY <2>2, <2>3
<1>6. ASSUME NEW w \in Workers,
             \/ EndCycle(w) \/ AcquirePathLock(w) \/ ReleasePathLocks(w)
             \/ HandlerDecides(w)
      PROVE  Quiet
  <2>1. HandsAlike
    BY <1>6 DEF EndCycle, AcquirePathLock, ReleasePathLocks, HandlerDecides,
                HandsAlike, TypeOK, InHand
  <2> QED
    BY <1>6, <2>1 DEF EndCycle, AcquirePathLock, ReleasePathLocks, HandlerDecides,
                      Quiet
<1>7. ASSUME NEW w \in Workers, SelfEnqueueCheck(w) \/ SelfEnqueueDeclined(w)
      PROVE  Quiet
  <2>1. \A v \in Workers : pc'[v] \in InHand <=> pc[v] \in InHand
    BY <1>7 DEF SelfEnqueueCheck, SelfEnqueueDeclined, TypeOK, InHand
  <2>2. PICK k : /\ job' = [job EXCEPT ![w] = k]
                 /\ \/ k = Spent(job[w])
                    \/ k = Dropped(job[w])
                    \/ \E p \in Paths \cup {0} : k = Trying(job[w], p)
    <3>1. CASE SelfEnqueueCheck(w)
      BY <3>1 DEF SelfEnqueueCheck
    <3>2. CASE SelfEnqueueDeclined(w)
      BY <3>2 DEF SelfEnqueueDeclined
    <3> QED
      BY <1>7, <3>1, <3>2
  <2>3. job[w] \in Job
    BY DEF TypeOK
  <2>4. k.id = job[w].id
    BY <2>2, <2>3, JobUpdateKeeps
  <2>5. \A v \in Workers : job'[v].id = job[v].id
    BY <2>2, <2>4 DEF TypeOK
  <2> QED
    BY <1>7, <2>1, <2>5 DEF SelfEnqueueCheck, SelfEnqueueDeclined, Quiet, HandsAlike
<1>8. ASSUME NEW w \in Workers, StartCycle(w)
      PROVE  Quiet
  <2>1. HandsAlike
    BY <1>8 DEF StartCycle, HandsAlike, TypeOK, InHand
  <2> QED
    BY <1>8, <2>1 DEF StartCycle, Quiet
<1>9. ASSUME (\E k \in Disableable : ToggleKind(k)) \/ UNCHANGED vars
      PROVE  Quiet
  BY <1>9 DEF ToggleKind, vars, Quiet, HandsAlike
<1> QED
  BY <1>1, <1>2, <1>3, <1>4, <1>5, <1>6, <1>7, <1>8, <1>9
     DEF Next, WorkerStep, CycleStep

-----------------------------------------------------------------------------
(* Claims that hold and claims that have lapsed *)

\* The workers whose claim on what they have in hand is good.
Holders == {w \in Workers \ lapsed : pc[w] \in InHand}

\* What a holder has is running under a lease that is not over, and no other
\* holder has it; a task that a worker has lost was overrun.
LeaseInv ==
    /\ \A w \in lapsed : pc[w] \in InHand /\ job[w].id \in overrun
    /\ \A w \in Workers : pc[w] \in InHand =>
          job[w].id \in TaskIds /\ job[w].id < next_id
    /\ \A w \in Holders :
          /\ tasks[job[w].id].status = "running"
          /\ tasks[job[w].id].lease >= 0
    /\ \A w, v \in Holders : w # v => job[w].id # job[v].id

HandsInv == FreshIds /\ LeaseInv

LEMMA HandsInit == Init => HandsInv
  BY DEF Init, HandsInv, FreshIds, LeaseInv, Holders, NoTask, InHand

\* A second is taken from a lease that is not over.
LEMMA AgedLease ==
    ASSUME TypeOK, NEW t \in TaskIds, tasks[t].status = "running",
           tasks[t].lease >= 0
    PROVE  Aged(tasks[t]).lease = tasks[t].lease - 1
<1> DEFINE stamp == AgedStamp(tasks[t].run_after)
           lease == tasks[t].lease - 1
<1>1. tasks[t] \in Task
  BY DEF TypeOK
<1>2. tasks[t].lease > -1
  BY <1>1, KnobsAssumption DEF Task
<1>3. Aged(tasks[t]) = [tasks[t] EXCEPT !.run_after = stamp, !.lease = lease]
  BY <1>2 DEF Aged, Active, Finished
<1> HIDE DEF stamp, lease
<1>4. Aged(tasks[t]).lease = lease
  BY <1>1, <1>3 DEF Task
<1> QED
  BY <1>4 DEF lease

\* What is in hand has been given out.
LEMMA GivenOut ==
    ASSUME TypeInv, HandsInv, [Next]_vars
    PROVE  \A w \in Workers : pc'[w] \in InHand =>
              job'[w].id \in TaskIds /\ job'[w].id < next_id'
<1> SUFFICES ASSUME NEW w \in Workers, pc'[w] \in InHand
             PROVE  job'[w].id \in TaskIds /\ job'[w].id < next_id'
  OBVIOUS
<1>1. JobsEvolve /\ RecordsEvolve
  BY JobSteps, RecordSteps DEF HandsInv
<1>2. next_id <= next_id' /\ next_id' \in Nat /\ next_id \in Nat
  BY <1>1, NumberTypes DEF RecordsEvolve, TypeInv
<1>3. job'[w].id \in TaskIds /\ job'[w].id < next_id
  <2>1. CASE pc[w] \in InHand /\ job'[w].id = job[w].id
    BY <2>1 DEF HandsInv, LeaseInv
  <2>2. CASE \E t \in Runnable : job'[w] = Copy(t)
    <3>1. PICK t \in Runnable : job'[w] = Copy(t)
      BY <2>2
    <3>2. t \in TaskIds /\ tasks[t].status # "absent" /\ job'[w].id = t
      BY <3>1 DEF Runnable, WithStatus, Active, Copy
    <3> QED
      BY <3>2, NumberTypes DEF HandsInv, FreshIds, TypeInv
  <2> QED
    BY <1>1, <2>1, <2>2 DEF JobsEvolve
<1> QED
  BY <1>2, <1>3, NumberTypes DEF TypeInv

\* No step but those of its worker touches what a holder has in hand, unless the
\* holder's claim lapses with it.
LEMMA HandsNext ==
    ASSUME TypeInv, HandsInv, [Next]_vars
    PROVE  HandsInv'
<1> USE DEF TypeInv, HandsInv
<1>0. FreshIds' /\ \A w \in Workers : pc'[w] \in InHand =>
                      job'[w].id \in TaskIds /\ job'[w].id < next_id'
  BY FreshNext, GivenOut
\* It is enough that holders were holders, their tasks and records the same.
<1>1. ASSUME HandsAlike, UNCHANGED <<lapsed, overrun>>,
             \A w \in Holders : tasks'[job[w].id] = tasks[job[w].id]
      PROVE  LeaseInv'
  <2>1. Holders' = Holders
    BY <1>1 DEF Holders, HandsAlike
  <2>2. \A w \in Holders : job'[w].id = job[w].id
    BY <1>1 DEF Holders, HandsAlike
  <2>3. \A w \in lapsed' : pc'[w] \in InHand /\ job'[w].id \in overrun'
    BY <1>1 DEF HandsAlike, LeaseInv, TypeOK
  <2> QED
    BY <1>0, <1>1, <2>1, <2>2, <2>3 DEF LeaseInv
<1>2. CASE Quiet
  <2>1. \A w \in Holders : tasks'[job[w].id] = tasks[job[w].id]
    BY <1>2 DEF Quiet, LeaseInv, Holders, Finished
  <2> QED
    BY <1>0, <1>1, <1>2, <2>1 DEF Quiet
<1>3. ASSUME NEW record, Adds(record)
      PROVE  HandsInv'
  <2>1. \A w \in Holders : tasks'[job[w].id] = tasks[job[w].id]
    BY <1>3, NumberTypes DEF Adds, AddRecord, LeaseInv, Holders, TypeOK
  <2> QED
    BY <1>0, <1>1, <1>3, <2>1 DEF Adds
<1>4. ASSUME NEW w \in Workers, NEW t \in TaskIds, Claims(w, t)
      PROVE  HandsInv'
  <2>1. /\ tasks[t].status \in Active
        /\ tasks[t].status = "running" => tasks[t].lease = -1
    BY <1>4 DEF Claims, Runnable, WithStatus, Active
  <2>2. /\ tasks'[t].status = "running" /\ tasks'[t].lease >= 0
        /\ \A u \in TaskIds \ {t} : tasks'[u] = tasks[u]
    BY <1>4, KnobsAssumption DEF Claims, TypeOK, Task
  <2>3. /\ job'[w].id = t /\ pc'[w] \in InHand
        /\ \A v \in Workers \ {w} : job'[v] = job[v] /\ pc'[v] = pc[v]
    BY <1>4 DEF Claims, Copy, TypeOK, InHand
  <2>4. \A v \in Holders : job[v].id # t
    BY <2>1 DEF LeaseInv
  <2>5. w \notin lapsed
    BY <1>4 DEF Claims, LeaseInv, InHand
  <2>6. lapsed' = lapsed /\ overrun' = overrun
    BY <1>4 DEF Claims
  <2>7. Holders' = Holders \cup {w}
    BY <2>3, <2>5, <2>6 DEF Holders
  <2>8. w \notin Holders
    BY <1>4 DEF Claims, Holders, InHand
  <2>9. \A v \in lapsed' : pc'[v] \in InHand /\ job'[v].id \in overrun'
    BY <2>3, <2>5, <2>6 DEF LeaseInv, TypeOK
  <2>10. \A v \in Holders : /\ job'[v] = job[v] /\ job[v].id \in TaskIds \ {t}
                            /\ tasks'[job[v].id] = tasks[job[v].id]
    BY <2>2, <2>3, <2>4, <2>8 DEF LeaseInv, Holders
  <2> QED
    BY <1>0, <2>2, <2>3, <2>7, <2>8, <2>9, <2>10 DEF LeaseInv
<1>5. ASSUME NEW w \in Workers, Reports(w)
      PROVE  HandsInv'
  <2> DEFINE t == job[w].id
  <2>1. lapsed' = (lapsed \ {w}) \cup OthersOn(w) /\ overrun' = overrun
    BY <1>5 DEF Reports, FailTask, FinishTask, CompleteTask
  <2>2. /\ pc'[w] \notin InHand
        /\ \A v \in Workers \ {w} : pc'[v] = pc[v] /\ job'[v] = job[v]
    BY <1>5 DEF Reports, TypeOK, InHand
  <2>3. \A u \in TaskIds : u # t => tasks'[u] = tasks[u]
    BY <1>5, CompletionEffect DEF Reports
  <2>4. OthersOn(w) \subseteq Workers \ {w}
    BY DEF OthersOn
  <2>5. ASSUME NEW v \in OthersOn(w)
        PROVE  t \in overrun
    <3>1. v \in Workers \ {w} /\ pc[v] \in InHand /\ job[v].id = t
      BY DEF OthersOn
    <3>2. w \in lapsed \/ v \in lapsed
      BY <1>5, <3>1 DEF LeaseInv, Holders, Reports
    <3> QED
      BY <3>1, <3>2 DEF LeaseInv
  <2>6. ASSUME NEW v \in lapsed'
        PROVE  pc'[v] \in InHand /\ job'[v].id \in overrun'
    <3>1. CASE v \in lapsed \ {w}
      BY <2>1, <2>2, <3>1 DEF LeaseInv, TypeOK
    <3>2. CASE v \in OthersOn(w)
      BY <2>1, <2>2, <2>5, <3>2 DEF OthersOn
    <3> QED
      BY <2>1, <3>1, <3>2
  <2>7. ASSUME NEW v \in Holders'
        PROVE  /\ v \in Holders /\ job'[v] = job[v]
               /\ tasks'[job[v].id] = tasks[job[v].id]
    <3>1. v \in Workers \ {w} /\ pc[v] \in InHand /\ job'[v] = job[v]
      BY <2>2 DEF Holders
    <3>2. v \notin lapsed /\ v \notin OthersOn(w)
      BY <2>1, <3>1 DEF Holders
    <3>3. job[v].id # t
      BY <3>1, <3>2 DEF OthersOn
    <3>4. job[v].id \in TaskIds
      BY <3>1 DEF LeaseInv
    <3> QED
      BY <2>3, <3>1, <3>2, <3>3, <3>4 DEF Holders
  <2> QED
    BY <1>0, <2>6, <2>7 DEF LeaseInv
<1>6. CASE Crash
  BY <1>0, <1>6 DEF Crash, LeaseInv, Holders, InHand
<1>7. CASE Tick
  <2>1. UNCHANGED <<pc, job>> /\ lapsed' = lapsed \cup Overrunning
    BY <1>7 DEF Tick
  <2>2. \A v \in Overrunning : pc[v] \in InHand /\ job[v].id \in overrun'
    BY <1>7 DEF Tick, Overrunning, LeaseInv
  <2>3. overrun \subseteq overrun'
    BY <1>7 DEF Tick
  <2>4. ASSUME NEW v \in lapsed'
        PROVE  pc'[v] \in InHand /\ job'[v].id \in overrun'
    BY <2>1, <2>2, <2>3, <2>4 DEF LeaseInv
  <2>5. ASSUME NEW v \in Holders'
        PROVE  /\ v \in Holders /\ job'[v] = job[v]
               /\ tasks'[job[v].id].status = "running"
               /\ tasks'[job[v].id].lease >= 0
    <3>1. v \in Holders /\ v \notin Overrunning /\ job'[v] = job[v]
      BY <2>1 DEF Holders
    <3>2. /\ job[v].id \in TaskIds
          /\ tasks[job[v].id].status = "running"
          /\ tasks[job[v].id].lease >= 0
      BY <3>1 DEF LeaseInv, Holders
    <3>3. tasks[job[v].id].lease # 0
      BY <3>1 DEF Overrunning, Holders
    <3>4. tasks[job[v].id] \in Task
      BY <3>2 DEF TypeOK
    <3>5. tasks[job[v].id].lease \in Int
      BY <3>4, KnobsAssumption DEF Task
    <3>6. tasks'[job[v].id] = Aged(tasks[job[v].id])
      BY <1>7, <3>2 DEF Tick
    <3>7. tasks'[job[v].id].lease >= 0
      BY <3>2, <3>3, <3>5, <3>6, AgedLease
    <3> QED
      BY <3>1, <3>2, <3>4, <3>6, <3>7, AgedKeeps
  <2> QED
    BY <1>0, <2>4, <2>5 DEF LeaseInv
<1> QED
  BY <1>2, <1>3, <1>4, <1>5, <1>6, <1>7, StepKinds

\* Until its lease is over, or one who overran an earlier lease of the same task
\* reports, a task is in one worker's hands only and no step claims, retries or
\* finishes it behind its back, however long handlers take (claim_next_task).
THEOREM ExecutionExclusive == Spec => []ExclusiveExecution
<1>1. Init => TypeInv /\ HandsInv
  BY TypeInit, HandsInit
<1>2. TypeInv /\ HandsInv /\ [Next]_vars => (TypeInv /\ HandsInv)'
  BY TypeNext, HandsNext
<1>3. HandsInv => ExclusiveExecution
  BY DEF HandsInv, LeaseInv, Holders, ExclusiveExecution, OthersOn
<1> QED
  BY <1>1, <1>2, <1>3, PTL DEF Spec

\* What is finished comes back, or ends otherwise, only by a late report.
LEMMA FinishedSteps ==
    ASSUME TypeInv, HandsInv, [Next]_vars, NEW t \in TaskIds,
           tasks[t].status \in Finished
    PROVE  \/ tasks'[t].status \in {tasks[t].status, "absent"}
           \/ \E w \in lapsed : /\ job[w].id = t /\ pc'[w] = "releasing"
                                /\ tasks'[t].status \in Finished \cup {"pending"}
<1> USE DEF TypeInv, HandsInv
<1>1. CASE Quiet
  BY <1>1 DEF Quiet, NoTask
<1>2. ASSUME NEW record, Adds(record)
      PROVE  tasks'[t] = tasks[t]
  <2>1. t # next_id
    BY KnobsAssumption DEF FreshIds, Finished, TypeOK
  <2> QED
    BY <1>2, <2>1 DEF Adds, AddRecord, TypeOK
<1>3. ASSUME NEW w \in Workers, NEW u \in TaskIds, Claims(w, u)
      PROVE  tasks'[t] = tasks[t]
  <2>1. u # t
    BY <1>3 DEF Claims, Runnable, WithStatus, Active, Finished
  <2> QED
    BY <1>3, <2>1 DEF Claims, TypeOK
<1>4. ASSUME NEW w \in Workers, Reports(w)
      PROVE  \/ tasks'[t] = tasks[t]
             \/ \E v \in lapsed : /\ job[v].id = t /\ pc'[v] = "releasing"
                                  /\ tasks'[t].status \in Finished \cup {"pending"}
  <2>1. pc[w] \in InHand /\ pc'[w] = "releasing"
    BY <1>4 DEF Reports, TypeOK
  <2>2. CASE t # job[w].id
    BY <1>4, <2>2, CompletionEffect DEF Reports
  <2>3. CASE t = job[w].id
    <3>1. w \in lapsed
      BY <2>1, <2>3 DEF LeaseInv, Holders, Finished
    <3>2. tasks'[t].status \in {"pending", "done", "dead_letter"}
      BY <1>4, <2>3, CompletionEffect DEF Reports, Finished
    <3> QED
      BY <2>1, <2>3, <3>1, <3>2 DEF Finished
  <2> QED
    BY <2>2, <2>3
<1>5. CASE Crash
  BY <1>5 DEF Crash
<1>6. CASE Tick
  BY <1>6, AgedKeeps DEF Tick, TypeOK
<1> QED
  BY <1>1, <1>2, <1>3, <1>4, <1>5, <1>6, StepKinds

\* What is done or dead-lettered is revived, overwritten or executed again by
\* nothing but the report of a worker that lost the task and went on
\* (complete_task, which asks nobody whether the task is still theirs).
THEOREM FinishedTasksStay == Spec => FinishedIsFinal
<1>1. Init => TypeInv /\ HandsInv
  BY TypeInit, HandsInit
<1>2. TypeInv /\ HandsInv /\ [Next]_vars => (TypeInv /\ HandsInv)'
  BY TypeNext, HandsNext
<1>3. TypeInv /\ HandsInv /\ [Next]_vars => [FinishedStay]_vars
  BY FinishedSteps DEF WithStatus, FinishedStay
<1> QED
  BY <1>1, <1>2, <1>3, PTL DEF Spec, FinishedIsFinal

\* Tasks that were overrun stay known as such.
LEMMA OverrunGrows ==
    ASSUME TypeInv, [Next]_vars
    PROVE  overrun \subseteq overrun'
<1>1. ASSUME NEW w \in Workers, Reports(w)
      PROVE  overrun' = overrun
  BY <1>1 DEF Reports
<1> QED
  BY <1>1, StepKinds DEF Quiet, Adds, Claims, Crash, Tick

\* Once a younger task of its signature exists, an older one is open only if it
\* was overrun: it was not open when the younger was let in.
OldOpenOverrun ==
    \A t, u \in TaskIds :
        /\ t < u /\ tasks[t].status \in Active /\ tasks[u].status # "absent"
        /\ Signature(tasks[t]) = Signature(tasks[u])
        => t \in overrun

\* The freshness dedup holds at all times and not only at the moment enqueue_task
\* checks it: of two open tasks of one signature the older was overrun and came
\* back by a late report.  Retries, crashes and reclaims alone do not bring it back.
THEOREM OpenTasksUnique == Spec => []UniqueOpenTask
<1> DEFINE I == TypeInv /\ HandsInv /\ OldOpenOverrun
<1>1. Init => I
  <2>1. Init => OldOpenOverrun
    BY DEF Init, OldOpenOverrun, Active, NoTask
  <2> QED
    BY <2>1, TypeInit, HandsInit
<1>2. I /\ [Next]_vars => I'
  <2> SUFFICES ASSUME TypeInv, HandsInv, OldOpenOverrun, [Next]_vars
               PROVE  OldOpenOverrun'
    BY TypeNext, HandsNext
  <2>1. RecordsEvolve /\ TypeOK'
    BY RecordSteps, TypeNext DEF HandsInv, TypeInv
  <2> SUFFICES ASSUME NEW t \in TaskIds, NEW u \in TaskIds, t < u,
                      tasks'[t].status \in Active, tasks'[u].status # "absent",
                      Signature(tasks'[t]) = Signature(tasks'[u])
               PROVE  t \in overrun'
    BY DEF OldOpenOverrun
  <2>2. overrun \subseteq overrun' /\ tasks'[t].status # "absent"
    BY OverrunGrows DEF Active
  <2>3. CASE tasks[t].status \in Finished
    <3>1. tasks'[t].status \notin {tasks[t].status, "absent"}
      BY <2>3 DEF Active, Finished
    <3>2. PICK w \in lapsed : job[w].id = t
      BY <2>3, <3>1, FinishedSteps
    <3> QED
      BY <2>2, <3>2 DEF HandsInv, LeaseInv
  <2>4. CASE tasks[t].status = "absent"
    <3>1. /\ t = next_id
          /\ \A x \in TaskIds \ {next_id} : tasks'[x] = tasks[x]
      BY <2>1, <2>2, <2>4 DEF RecordsEvolve
    <3>2. tasks[u].status # "absent"
      BY <3>1, NumberTypes DEF TypeInv
    <3> QED
      BY <3>1, <3>2, NumberTypes DEF HandsInv, FreshIds, TypeInv
  <2>5. CASE tasks[t].status \in Active
    <3>1. tasks[t].status # "absent"
      BY <2>5 DEF Active
    <3>2. Signature(tasks'[t]) = Signature(tasks[t])
      BY <2>1, <2>2, <3>1 DEF RecordsEvolve
    <3>3. CASE tasks[u].status # "absent"
      <4>1. Signature(tasks'[u]) = Signature(tasks[u])
        BY <2>1, <3>3 DEF RecordsEvolve
      <4> QED
        BY <2>2, <2>5, <3>2, <3>3, <4>1 DEF OldOpenOverrun
    <3>4. CASE tasks[u].status = "absent"
      <4>1. u = next_id /\ Created(next_id, tasks'[next_id])
        BY <2>1, <3>4 DEF RecordsEvolve
      <4>2. t \in DedupHits(Signature(tasks'[u]))
        BY <2>5, <3>2 DEF DedupHits, WithStatus
      <4> QED
        BY <4>1, <4>2 DEF Created
    <3> QED
      BY <3>3, <3>4
  <2>6. tasks[t].status \in Active \cup Finished \cup {"absent"}
    BY DEF TypeInv, TypeOK, Task
  <2> QED
    BY <2>3, <2>4, <2>5, <2>6
<1>3. TypeInv /\ OldOpenOverrun => UniqueOpenTask
  <2>1. ASSUME NEW u \in WithStatus(Active)
        PROVE  u \in TaskIds /\ tasks[u].status \in Active /\ tasks[u].status # "absent"
    BY DEF WithStatus, Active
  <2> QED
    BY <2>1 DEF UniqueOpenTask, OldOpenOverrun
<1> QED
  BY <1>1, <1>2, <1>3, PTL DEF Spec

-----------------------------------------------------------------------------
(* How often a task is executed *)

HasInHand(w, t) == pc[w] \in InHand /\ job[w].id = t
InSomeHand(t) == \E w \in Workers : HasInHand(w, t)

\* An attempt is paid for by a retry, by a crash, or is the last one, which is
\* still to be paid for while a worker has the task in hand.
PaidInv ==
    /\ \A t \in TaskIds : t >= next_id => attempts[t] = 0
    /\ \A t \in TaskIds \ overrun : tasks[t].status # "absent" =>
          /\ attempts[t] <= tasks[t].retry_count + 1 + crashes
          /\ tasks[t].status \in Active /\ ~InSomeHand(t) =>
                attempts[t] <= tasks[t].retry_count + crashes

LEMMA PaidInit == Init => PaidInv
  BY KnobsAssumption DEF Init, PaidInv, NoTask, TaskIds

\* A retry is counted, and nothing else a completion does changes the count.
LEMMA CompletionCounts ==
    ASSUME TypeOK, NEW w \in Workers, FailTask(w) \/ FinishTask(w),
           job[w].id \in TaskIds, tasks[job[w].id].status # "absent"
    PROVE  LET r == tasks'[job[w].id]
           IN  \/ /\ r.status = "pending"
                  /\ r.retry_count = tasks[job[w].id].retry_count + 1
               \/ /\ r.status \in Finished
                  /\ r.retry_count = tasks[job[w].id].retry_count
<1> DEFINE t == job[w].id
           r == tasks[t]
<1>1. r \in Task
  BY DEF TypeOK
<1>2. \/ /\ Failed(r).status = "pending"
         /\ Failed(r).retry_count = r.retry_count + 1
      \/ /\ Failed(r).status \in Finished
         /\ Failed(r).retry_count = r.retry_count
  <2>1. CASE r.retry_count < DEFAULT_MAX_RETRIES
    <3> DEFINE backoff == RETRY_BACKOFF_BASE * 2 ^ r.retry_count
               count == r.retry_count + 1
    <3>1. Failed(r) = [r EXCEPT !.status = "pending", !.retry_count = count,
                                !.lease = -1, !.run_after = backoff]
      BY <2>1 DEF Failed
    <3> HIDE DEF backoff, count
    <3>2. Failed(r).status = "pending" /\ Failed(r).retry_count = count
      BY <1>1, <3>1 DEF Task
    <3> QED
      BY <3>2 DEF count
  <2>2. CASE ~(r.retry_count < DEFAULT_MAX_RETRIES)
    BY <1>1, <2>2 DEF Failed, Task, Finished
  <2> QED
    BY <2>1, <2>2
<1>3. Done(r).status \in Finished /\ Done(r).retry_count = r.retry_count
  BY <1>1 DEF Done, Task, Finished
<1>4. \/ tasks' = [tasks EXCEPT ![t] = Failed(r)]
      \/ tasks' = [tasks EXCEPT ![t] = Done(r)]
  BY DEF FailTask, FinishTask, CompleteTask
<1>5. tasks'[t] = Failed(r) \/ tasks'[t] = Done(r)
  BY <1>4 DEF TypeOK
<1> QED
  BY <1>2, <1>3, <1>5

LEMMA PaidNext ==
    ASSUME TypeInv, HandsInv, PaidInv, [Next]_vars
    PROVE  PaidInv'
<1> USE DEF TypeInv, PaidInv
<1>0. /\ crashes \in Nat
      /\ \A t \in TaskIds : attempts[t] \in Nat
      /\ overrun \subseteq overrun'
  BY KnobsAssumption, OverrunGrows DEF TypeOK
<1>a. ASSUME HandsAlike
      PROVE  \A t \in TaskIds : InSomeHand(t)' <=> InSomeHand(t)
  BY <1>a DEF HandsAlike, InSomeHand, HasInHand
<1>1. CASE Quiet
  <2>1. \A t \in TaskIds : tasks'[t].status # "absent" => tasks'[t] = tasks[t]
    BY <1>1 DEF Quiet, NoTask
  <2> QED
    BY <1>0, <1>1, <1>a, <2>1 DEF Quiet
<1>2. ASSUME NEW record, Adds(record)
      PROVE  PaidInv'
  <2>1. /\ next_id' = next_id + 1 /\ tasks'[next_id] = record
        /\ \A t \in TaskIds \ {next_id} : tasks'[t] = tasks[t]
        /\ record.retry_count = 0
        /\ UNCHANGED <<attempts, crashes>>
    BY <1>2 DEF Adds, AddRecord, TypeOK
  <2>2. \A t \in TaskIds : InSomeHand(t)' <=> InSomeHand(t)
    BY <1>2, <1>a DEF Adds
  <2>3. \A t \in TaskIds : t >= next_id' => attempts'[t] = 0
    BY <2>1, NumberTypes
  <2>4. ASSUME NEW t \in TaskIds \ overrun', tasks'[t].status # "absent"
        PROVE  /\ attempts'[t] <= tasks'[t].retry_count + 1 + crashes'
               /\ tasks'[t].status \in Active /\ ~InSomeHand(t)' =>
                     attempts'[t] <= tasks'[t].retry_count + crashes'
    <3>1. CASE t = next_id
      BY <1>0, <2>1, <3>1, NumberTypes
    <3>2. CASE t # next_id
      BY <1>0, <2>1, <2>2, <2>4, <3>2
    <3> QED
      BY <3>1, <3>2
  <2> QED
    BY <2>3, <2>4
<1>3. ASSUME NEW w \in Workers, NEW t \in TaskIds, Claims(w, t)
      PROVE  PaidInv'
  <2>1. /\ tasks[t].status \in Active /\ tasks[t].status # "absent"
        /\ tasks[t].status = "running" => tasks[t].lease = -1
    BY <1>3 DEF Claims, Runnable, WithStatus, Active
  <2>2. t \notin overrun => ~InSomeHand(t)
    BY <2>1 DEF InSomeHand, HasInHand, HandsInv, LeaseInv, Holders
  <2>3. /\ tasks'[t].retry_count = tasks[t].retry_count
        /\ attempts'[t] = attempts[t] + 1
        /\ \A u \in TaskIds \ {t} : /\ tasks'[u] = tasks[u]
                                    /\ attempts'[u] = attempts[u]
    BY <1>3 DEF Claims, TypeOK, Task
  <2>4. /\ pc'[w] \in InHand /\ job'[w].id = t
        /\ \A v \in Workers \ {w} : pc'[v] = pc[v] /\ job'[v] = job[v]
        /\ pc[w] \notin InHand
        /\ next_id' = next_id /\ crashes' = crashes
    BY <1>3 DEF Claims, Copy, TypeOK, InHand
  <2>5. t < next_id
    BY <2>1, NumberTypes DEF HandsInv, FreshIds
  <2>6. /\ InSomeHand(t)'
        /\ \A u \in TaskIds : ~InSomeHand(u)' => ~InSomeHand(u)
    BY <2>4 DEF InSomeHand, HasInHand
  <2>7. t \notin overrun => attempts[t] <= tasks[t].retry_count + crashes
    BY <2>1, <2>2
  <2>8. \A u \in TaskIds : u >= next_id' => attempts'[u] = 0
    BY <2>3, <2>4, <2>5, NumberTypes
  <2>9. ASSUME NEW u \in TaskIds \ overrun', tasks'[u].status # "absent"
        PROVE  /\ attempts'[u] <= tasks'[u].retry_count + 1 + crashes'
               /\ tasks'[u].status \in Active /\ ~InSomeHand(u)' =>
                     attempts'[u] <= tasks'[u].retry_count + crashes'
    <3>1. CASE u = t
      BY <1>0, <2>3, <2>4, <2>6, <2>7, <3>1, NumberTypes
    <3>2. CASE u # t
      BY <1>0, <2>3, <2>4, <2>6, <2>9, <3>2
    <3> QED
      BY <3>1, <3>2
  <2> QED
    BY <2>8, <2>9
<1>4. ASSUME NEW w \in Workers, Reports(w)
      PROVE  PaidInv'
  <2> DEFINE t == job[w].id
  <2>1. t \in TaskIds
    BY <1>4 DEF HandsInv, LeaseInv, Reports
  <2>2. tasks[t].status = "absent" => tasks'[t].status = "absent"
    BY <1>4, <2>1, CompletionEffect DEF Reports
  <2>3. tasks[t].status # "absent" =>
        \/ /\ tasks'[t].status = "pending"
           /\ tasks'[t].retry_count = tasks[t].retry_count + 1
        \/ /\ tasks'[t].status \in Finished
           /\ tasks'[t].retry_count = tasks[t].retry_count
    BY <1>4, <2>1, CompletionCounts DEF Reports
  <2>4. \A u \in TaskIds \ {t} : tasks'[u] = tasks[u]
    BY <1>4, CompletionEffect DEF Reports
  <2>5. \A u \in TaskIds \ {t} : InSomeHand(u) => InSomeHand(u)'
    BY <1>4 DEF InSomeHand, HasInHand, Reports, TypeOK
  <2>6. UNCHANGED <<next_id, attempts, crashes, overrun>>
    BY <1>4 DEF Reports
  <2>7. ASSUME NEW u \in TaskIds \ overrun', tasks'[u].status # "absent"
        PROVE  /\ attempts'[u] <= tasks'[u].retry_count + 1 + crashes'
               /\ tasks'[u].status \in Active /\ ~InSomeHand(u)' =>
                     attempts'[u] <= tasks'[u].retry_count + crashes'
    <3>1. CASE u = t
      <4>1. tasks[u].status # "absent"
        BY <2>2, <2>7, <3>1
      <4>2. attempts[u] <= tasks[u].retry_count + 1 + crashes
        BY <2>6, <2>7, <4>1
      <4>3. \A x \in Finished : x \notin Active
        BY DEF Finished, Active
      <4>4. \/ tasks'[u].retry_count = tasks[u].retry_count + 1
            \/ /\ tasks'[u].retry_count = tasks[u].retry_count
               /\ tasks'[u].status \notin Active
        BY <2>3, <3>1, <4>1, <4>3
      <4>5. attempts'[u] = attempts[u] /\ crashes' = crashes
        BY <2>6
      <4>6. attempts[u] \in Nat /\ tasks[u].retry_count \in Nat /\ crashes \in Nat
        BY <1>0, NumberTypes
      <4> QED
        BY <4>2, <4>4, <4>5, <4>6
    <3>2. CASE u # t
      BY <2>4, <2>5, <2>6, <2>7, <3>2
    <3> QED
      BY <3>1, <3>2
  <2> QED
    BY <2>6, <2>7
<1>5. CASE Crash
  <2>1. \A t \in TaskIds : InSomeHand(t) \/ ~InSomeHand(t)
    OBVIOUS
  <2> QED
    BY <1>0, <1>5, NumberTypes DEF Crash
<1>6. CASE Tick
  <2>1. \A t \in TaskIds : /\ tasks'[t].status = tasks[t].status
                           /\ tasks'[t].retry_count = tasks[t].retry_count
    BY <1>6, AgedKeeps DEF Tick, TypeOK
  <2>2. HandsAlike /\ UNCHANGED <<next_id, attempts, crashes>>
    BY <1>6 DEF Tick, HandsAlike
  <2> QED
    BY <1>0, <1>a, <2>1, <2>2
<1> QED
  BY <1>1, <1>2, <1>3, <1>4, <1>5, <1>6, StepKinds

\* Those who may still take a task before one of them has to pay for it.
IdleOn(t) == {w \in Workers : ~HasInHand(w, t)}

Runs(t) == tasks[t].retry_count + 1 + crashes

\* Overrun or not, each worker has a task once between two payments.
SpreadInv ==
    \A t \in TaskIds : tasks[t].status # "absent" =>
        /\ attempts[t] <= Cardinality(Workers) * Runs(t)
        /\ tasks[t].status \in Active =>
              attempts[t] + Cardinality(IdleOn(t)) <= Cardinality(Workers) * Runs(t)

LEMMA SpreadInit == Init => SpreadInv
  BY DEF Init, SpreadInv, NoTask

\* One payment buys a run of every worker.
LEMMA RunsTimes ==
    ASSUME TypeOK, NEW n \in Nat
    PROVE  /\ n * 1 = n
           /\ \A k \in Nat : n * (k + 1) = n * k + n /\ n * k \in Nat /\ n <= n * (k + 1)
<1>1. \A k \in Nat : n * (k + 1) = n * k + n /\ n * k \in Nat
  OBVIOUS
<1> QED
  BY <1>1

LEMMA SpreadNext ==
    ASSUME TypeInv, HandsInv, PaidInv, SpreadInv, [Next]_vars
    PROVE  SpreadInv'
<1> USE DEF TypeInv
<1> DEFINE n == Cardinality(Workers)
           Fits(t) == tasks[t].status # "absent" =>
                         /\ attempts[t] <= n * Runs(t)
                         /\ tasks[t].status \in Active =>
                               attempts[t] + Cardinality(IdleOn(t)) <= n * Runs(t)
<1>0. /\ n \in Nat
      /\ \A t : IsFiniteSet(IdleOn(t)) /\ Cardinality(IdleOn(t)) \in 0..n
      /\ \A t : IsFiniteSet(IdleOn(t)') /\ Cardinality(IdleOn(t)') \in 0..n
  <2>1. n \in Nat
    BY FS_CardinalityType, WorkersAssumption
  <2>2. ASSUME NEW S, S \subseteq Workers
        PROVE  IsFiniteSet(S) /\ Cardinality(S) \in 0..n
    <3>1. IsFiniteSet(S) /\ Cardinality(S) <= n
      BY <2>2, FS_Subset, WorkersAssumption
    <3> QED
      BY <2>1, <3>1, FS_CardinalityType
  <2>3. \A t : IdleOn(t) \subseteq Workers /\ IdleOn(t)' \subseteq Workers
    BY DEF IdleOn
  <2> QED
    BY <2>1, <2>2, <2>3
<1>b. \A t \in TaskIds : /\ Runs(t) \in Nat \ {0} /\ attempts[t] \in Nat
                         /\ n * Runs(t) \in Nat
  <2>1. crashes \in Nat
    BY KnobsAssumption DEF TypeOK
  <2>2. \A t \in TaskIds : Runs(t) \in Nat \ {0} /\ attempts[t] \in Nat
    BY <2>1, NumberTypes DEF Runs, TypeOK
  <2>3. \A k \in Nat : n * k \in Nat
    BY <1>0
  <2> QED
    BY <2>2, <2>3
<1> HIDE DEF n
<1> SUFFICES ASSUME NEW t \in TaskIds, tasks'[t].status # "absent"
             PROVE  /\ attempts'[t] <= n * Runs(t)'
                    /\ tasks'[t].status \in Active =>
                          attempts'[t] + Cardinality(IdleOn(t)') <= n * Runs(t)'
  BY DEF SpreadInv, n
<1>c. Fits(t)
  BY DEF SpreadInv, n
\* Nothing of the task or of the hands it is in changes.
<1>d. ASSUME IdleOn(t)' = IdleOn(t), attempts'[t] = attempts[t], Runs(t)' = Runs(t),
             tasks'[t].status = tasks[t].status
      PROVE  /\ attempts'[t] <= n * Runs(t)'
             /\ tasks'[t].status \in Active =>
                   attempts'[t] + Cardinality(IdleOn(t)') <= n * Runs(t)'
  BY <1>c, <1>d
<1>e. ASSUME HandsAlike
      PROVE  IdleOn(t)' = IdleOn(t)
  BY <1>e DEF HandsAlike, IdleOn, HasInHand
\* A payment: whatever is in whose hands now, it has room.
<1>f. ASSUME attempts'[t] = attempts[t], Runs(t)' = Runs(t) + 1,
             tasks[t].status # "absent"
      PROVE  /\ attempts'[t] <= n * Runs(t)'
             /\ attempts'[t] + Cardinality(IdleOn(t)') <= n * Runs(t)'
  <2>1. attempts[t] <= n * Runs(t)
    BY <1>c, <1>f
  <2>2. n * (Runs(t) + 1) = n * Runs(t) + n
    BY <1>0, <1>b, RunsTimes
  <2>3. n * Runs(t)' = n * Runs(t) + n
    BY <1>f, <2>2
  <2> QED
    BY <1>0, <1>b, <1>f, <2>1, <2>3
<1>1. CASE Quiet
  <2>1. tasks'[t] = tasks[t]
    BY <1>1 DEF Quiet, NoTask
  <2> QED
    BY <1>1, <1>d, <1>e, <2>1 DEF Quiet, Runs
<1>2. ASSUME NEW record, Adds(record)
      PROVE  /\ attempts'[t] <= n * Runs(t)'
             /\ tasks'[t].status \in Active =>
                   attempts'[t] + Cardinality(IdleOn(t)') <= n * Runs(t)'
  <2>1. CASE t = next_id
    <3>1. attempts'[t] = 0
      BY <1>2, <2>1, NumberTypes DEF Adds, PaidInv
    <3>2. Runs(t)' = crashes + 1 /\ crashes \in Nat
      BY <1>2, <2>1, KnobsAssumption DEF Adds, AddRecord, TypeOK, Runs
    <3>3. n <= n * (crashes + 1)
      BY <1>0, <3>2, RunsTimes
    <3>4. n <= n * Runs(t)' /\ n * Runs(t)' \in Int
      BY <1>0, <3>2, <3>3
    <3>5. Cardinality(IdleOn(t)') \in 0..n
      BY <1>0
    <3> QED
      BY <1>0, <3>1, <3>4, <3>5
  <2>2. CASE t # next_id
    <3>1. tasks'[t] = tasks[t]
      BY <1>2, <2>2 DEF Adds, AddRecord, TypeOK
    <3> QED
      BY <1>2, <1>d, <1>e, <3>1 DEF Adds, Runs
  <2> QED
    BY <2>1, <2>2
<1>3. ASSUME NEW w \in Workers, NEW u \in TaskIds, Claims(w, u)
      PROVE  /\ attempts'[t] <= n * Runs(t)'
             /\ tasks'[t].status \in Active =>
                   attempts'[t] + Cardinality(IdleOn(t)') <= n * Runs(t)'
  <2>1. /\ pc'[w] \in InHand /\ job'[w].id = u /\ pc[w] \notin InHand
        /\ \A v \in Workers \ {w} : pc'[v] = pc[v] /\ job'[v] = job[v]
        /\ crashes' = crashes
    BY <1>3 DEF Claims, Copy, TypeOK, InHand
  <2>2. CASE u = t
    <3>1. tasks[t].status \in Active /\ tasks[t].status # "absent"
      BY <1>3, <2>2 DEF Claims, Runnable, WithStatus, Active
    <3>2. attempts'[t] = attempts[t] + 1
      BY <1>3, <2>2 DEF Claims, TypeOK
    <3>3. Runs(t)' = Runs(t)
      BY <1>3, <2>1, <2>2 DEF Claims, TypeOK, Task, Runs
    <3>4. IdleOn(t)' = IdleOn(t) \ {w} /\ w \in IdleOn(t)
      BY <2>1, <2>2 DEF IdleOn, HasInHand
    <3>5. Cardinality(IdleOn(t)') = Cardinality(IdleOn(t)) - 1
      BY <1>0, <3>4, FS_RemoveElement
    <3>6. attempts[t] + Cardinality(IdleOn(t)) <= n * Runs(t)
      BY <1>c, <3>1
    <3>7. Cardinality(IdleOn(t)) \in Nat /\ Cardinality(IdleOn(t)') \in Nat
      BY <1>0
    <3> QED
      BY <1>b, <3>2, <3>3, <3>5, <3>6, <3>7
  <2>3. CASE u # t
    <3>1. tasks'[t] = tasks[t] /\ attempts'[t] = attempts[t]
      BY <1>3, <2>3 DEF Claims, TypeOK
    <3>2. IdleOn(t)' = IdleOn(t)
      BY <2>1, <2>3 DEF IdleOn, HasInHand
    <3> QED
      BY <1>d, <2>1, <3>1, <3>2 DEF Runs
  <2> QED
    BY <2>2, <2>3
<1>4. ASSUME NEW w \in Workers, Reports(w)
      PROVE  /\ attempts'[t] <= n * Runs(t)'
             /\ tasks'[t].status \in Active =>
                   attempts'[t] + Cardinality(IdleOn(t)') <= n * Runs(t)'
  <2>1. /\ attempts' = attempts /\ crashes' = crashes
        /\ pc[w] \in InHand /\ pc'[w] \notin InHand
        /\ \A v \in Workers \ {w} : pc'[v] = pc[v] /\ job'[v] = job[v]
    BY <1>4 DEF Reports, TypeOK, InHand
  <2>2. CASE t # job[w].id
    <3>1. tasks'[t] = tasks[t]
      BY <1>4, <2>2, CompletionEffect DEF Reports
    <3>2. IdleOn(t)' = IdleOn(t)
      BY <2>1, <2>2 DEF IdleOn, HasInHand
    <3> QED
      BY <1>d, <2>1, <3>1, <3>2 DEF Runs
  <2>3. CASE t = job[w].id
    <3>1. tasks[t].status # "absent"
      BY <1>4, <2>3, CompletionEffect DEF Reports
    <3>2. CASE tasks'[t].retry_count = tasks[t].retry_count + 1
      <4>1. Runs(t)' = Runs(t) + 1
        BY <2>1, <3>2, NumberTypes, KnobsAssumption DEF Runs, TypeOK
      <4> QED
        BY <1>f, <2>1, <3>1, <4>1
    <3>3. CASE /\ tasks'[t].status \in Finished
               /\ tasks'[t].retry_count = tasks[t].retry_count
      <4>1. Runs(t)' = Runs(t)
        BY <2>1, <3>3 DEF Runs
      <4>2. tasks'[t].status \notin Active
        BY <3>3 DEF Finished, Active
      <4>3. attempts'[t] <= n * Runs(t)'
        BY <1>c, <2>1, <3>1, <4>1
      <4> QED
        BY <4>2, <4>3
    <3> QED
      BY <1>4, <2>3, <3>1, <3>2, <3>3, CompletionCounts DEF Reports
  <2> QED
    BY <2>2, <2>3
<1>5. CASE Crash
  <2>1. tasks'[t] = tasks[t] /\ attempts' = attempts /\ crashes' = crashes + 1
    BY <1>5 DEF Crash
  <2>2. tasks[t].retry_count \in Nat /\ crashes \in Nat
    BY NumberTypes, KnobsAssumption DEF TypeOK
  <2>3. Runs(t)' = Runs(t) + 1
    BY <2>1, <2>2 DEF Runs
  <2>4. tasks[t].status # "absent"
    BY <2>1
  <2> QED
    BY <1>f, <2>1, <2>3, <2>4
<1>6. CASE Tick
  <2>1. /\ tasks'[t].status = tasks[t].status
        /\ tasks'[t].retry_count = tasks[t].retry_count
    BY <1>6, AgedKeeps DEF Tick, TypeOK
  <2>2. HandsAlike /\ UNCHANGED <<attempts, crashes>>
    BY <1>6 DEF Tick, HandsAlike
  <2> QED
    BY <1>d, <1>e, <2>1, <2>2 DEF Runs
<1> QED
  BY <1>1, <1>2, <1>3, <1>4, <1>5, <1>6, StepKinds

\* The retry budget bounds execution: a task is executed once, once more for each
\* retry counted in its record, and at most once more for each crash of the
\* process; when leases of it are overrun, that often by each worker at most,
\* however late the reports are (complete_task, claim_next_task).
THEOREM ExecutionsBounded == Spec => []AttemptsBounded
<1>1. Init => TypeInv /\ HandsInv /\ PaidInv /\ SpreadInv
  BY TypeInit, HandsInit, PaidInit, SpreadInit
<1>2. TypeInv /\ HandsInv /\ PaidInv /\ SpreadInv /\ [Next]_vars
        => (TypeInv /\ HandsInv /\ PaidInv /\ SpreadInv)'
  BY TypeNext, HandsNext, PaidNext, SpreadNext
<1>3. TypeInv /\ PaidInv /\ SpreadInv => AttemptsBounded
  <2> SUFFICES ASSUME TypeInv, PaidInv, SpreadInv,
                      NEW t \in TaskIds, tasks[t].status # "absent"
               PROVE  attempts[t] <= (IF t \in overrun THEN Cardinality(Workers) ELSE 1)
                                        * (tasks[t].retry_count + 1 + crashes)
    BY DEF AttemptsBounded
  <2>1. CASE t \in overrun
    BY <2>1 DEF SpreadInv, Runs
  <2>2. CASE t \notin overrun
    <3> DEFINE k == tasks[t].retry_count + 1 + crashes
    <3>1. attempts[t] <= k
      BY <2>2 DEF PaidInv
    <3>2. k \in Nat
      BY NumberTypes, KnobsAssumption DEF TypeInv, TypeOK
    <3> HIDE DEF k
    <3>3. 1 * k = k
      BY <3>2
    <3>4. attempts[t] <= 1 * k
      BY <3>1, <3>3
    <3> QED
      BY <2>2, <3>4 DEF k
  <2> QED
    BY <2>1, <2>2
<1> QED
  BY <1>1, <1>2, <1>3, PTL DEF Spec

-----------------------------------------------------------------------------
(* The limit of the queue *)

\* The tasks in workers' hands; those that run and that a crash took from the
\* hands they were in.
InHands == {job[w].id : w \in {v \in Workers : pc[v] \in InHand}}
Orphans == WithStatus({"running"}) \ InHands

\* What is open or may be again: a failure returns a task in hand to the queue,
\* whatever became of its record meanwhile.
Exposed == WithStatus(Active) \cup InHands

\* The limit is checked of pending tasks only.  Inductive is a bound on what is
\* exposed, with one on the orphans: a claim moves a task among the exposed, and
\* a full queue refuses what would add to them.
BacklogInv ==
    /\ Cardinality(Orphans) <= Cardinality(Workers) * crashes
    /\ Cardinality(Exposed)
          <= QUEUE_PENDING_LIMIT + Cardinality(Workers) * (1 + crashes)

OrphansEvolve ==
    \/ crashes' = crashes /\ Orphans' \subseteq Orphans
    \/ crashes' = crashes + 1 /\ Orphans' \subseteq Orphans \cup InHands

ExposedEvolve ==
    \/ Exposed' \subseteq Exposed
    \/ /\ ~QueueFull
       /\ WithStatus({"pending"})' \subseteq WithStatus({"pending"}) \cup {next_id}

LEMMA ExposureSteps ==
    ASSUME TypeInv, [Next]_vars
    PROVE  OrphansEvolve /\ ExposedEvolve
<1> USE DEF TypeInv, OrphansEvolve, ExposedEvolve
<1>1. ASSUME \A t \in TaskIds : tasks'[t].status = tasks[t].status,
             \A w \in Workers : /\ pc'[w] \in InHand <=> pc[w] \in InHand
                                /\ job'[w].id = job[w].id,
             crashes' = crashes
      PROVE  OrphansEvolve /\ ExposedEvolve
  <2>1. InHands' = InHands
    BY <1>1 DEF InHands
  <2>2. \A S : WithStatus(S)' = WithStatus(S)
    BY <1>1 DEF WithStatus
  <2> QED
    BY <1>1, <2>1, <2>2 DEF Orphans, Exposed
<1>2. ASSUME NEW w \in Workers, ClaimNextTask(w)
      PROVE  OrphansEvolve /\ ExposedEvolve
  <2>1. PICK t \in Runnable :
          /\ tasks' = [tasks EXCEPT ![t].status = "running",
                                    ![t].lease = LEASE_DURATION]
          /\ job' = [job EXCEPT ![w] = Copy(t)]
    BY <1>2 DEF ClaimNextTask
  <2>2. /\ t \in TaskIds /\ tasks[t].status \in Active
        /\ \A u \in TaskIds \ {t} : tasks'[u] = tasks[u]
    BY <2>1 DEF Runnable, WithStatus, TypeOK
  <2>3. /\ pc[w] \notin InHand /\ pc'[w] \in InHand /\ job'[w].id = t
        /\ \A v \in Workers \ {w} : pc'[v] = pc[v] /\ job'[v] = job[v]
    BY <1>2, <2>1 DEF ClaimNextTask, Copy, TypeOK, InHand
  <2>4. InHands' = InHands \cup {t}
    BY <2>3 DEF InHands
  <2>5. Orphans' \subseteq Orphans
    BY <2>2, <2>4 DEF Orphans, WithStatus
  <2>6. Exposed' \subseteq Exposed
    BY <2>2, <2>4 DEF Exposed, WithStatus
  <2> QED
    BY <1>2, <2>5, <2>6 DEF ClaimNextTask
<1>3. ASSUME NEW w \in Workers, FailTask(w) \/ FinishTask(w),
             pc[w] \in InHand, pc' = [pc EXCEPT ![w] = "releasing"],
             \A v \in Workers \ {w} : job'[v] = job[v], crashes' = crashes
      PROVE  OrphansEvolve /\ ExposedEvolve
  <2>1. /\ pc'[w] \notin InHand
        /\ \A v \in Workers \ {w} : pc'[v] = pc[v]
    BY <1>3 DEF TypeOK, InHand
  <2>2. /\ InHands' \subseteq InHands
        /\ InHands \subseteq InHands' \cup {job[w].id}
        /\ job[w].id \in InHands
    BY <1>3, <2>1 DEF InHands
  <2>3. \A t \in TaskIds : t # job[w].id => tasks'[t] = tasks[t]
    BY <1>3, CompletionEffect
  <2>4. job[w].id \in TaskIds => tasks'[job[w].id].status # "running"
    BY <1>3, CompletionEffect
  <2>5. Orphans' \subseteq Orphans
    BY <2>2, <2>3, <2>4 DEF Orphans, WithStatus
  <2>6. Exposed' \subseteq Exposed
    BY <2>2, <2>3 DEF Exposed, WithStatus
  <2> QED
    BY <1>3, <2>5, <2>6
<1>4. ASSUME NEW w \in Workers, HandlerFails(w) \/ HandlerSucceeds(w)
      PROVE  OrphansEvolve /\ ExposedEvolve
  BY <1>3, <1>4 DEF HandlerFails, HandlerSucceeds, InHand
<1>5. ASSUME NEW w \in Workers, SelfEnqueueRaises(w)
      PROVE  OrphansEvolve /\ ExposedEvolve
  <2>1. \A v \in Workers : job'[v].id = job[v].id
    BY <1>5, JobUpdateKeeps DEF SelfEnqueueRaises, TypeOK
  <2>2. CASE job[w].kind = "check_capsule_maintenance"
    BY <1>3, <1>5, <2>2 DEF SelfEnqueueRaises, TypeOK, InHand
  <2>3. CASE job[w].kind # "check_capsule_maintenance"
    BY <1>1, <1>5, <2>1, <2>3 DEF SelfEnqueueRaises, TypeOK, InHand
  <2> QED
    BY <2>2, <2>3
\* What is enqueued is pending, and nothing is enqueued while the queue is full.
<1>6. ASSUME NEW record, AddRecord(record), record.status = "pending", ~QueueFull,
             \A w \in Workers : /\ pc'[w] \in InHand <=> pc[w] \in InHand
                                /\ job'[w].id = job[w].id,
             crashes' = crashes
      PROVE  OrphansEvolve /\ ExposedEvolve
  <2>1. InHands' = InHands
    BY <1>6 DEF InHands
  <2>2. /\ next_id \in TaskIds /\ tasks'[next_id] = record
        /\ \A t \in TaskIds \ {next_id} : tasks'[t] = tasks[t]
    BY <1>6 DEF AddRecord, TypeOK
  <2>3. Orphans' \subseteq Orphans
    BY <1>6, <2>1, <2>2 DEF Orphans, WithStatus
  <2>4. WithStatus({"pending"})' \subseteq WithStatus({"pending"}) \cup {next_id}
    BY <2>2 DEF WithStatus
  <2> QED
    BY <1>6, <2>3, <2>4
<1>7. ASSUME NEW s \in Seeds, NEW f \in Freshness, EnqueueTask(s, f)
      PROVE  OrphansEvolve /\ ExposedEvolve
  BY <1>6, <1>7 DEF EnqueueTask, NewTask
<1>8. ASSUME NEW w \in Workers, SelfEnqueue(w)
      PROVE  OrphansEvolve /\ ExposedEvolve
  <2>1. PICK f \in Freshness : AddRecord(ChildTask(job[w], f))
    BY <1>8 DEF SelfEnqueue
  <2>2. ChildTask(job[w], f).status = "pending"
    BY DEF ChildTask, NewTask
  <2>3. \A v \in Workers : /\ job'[v].id = job[v].id
                           /\ pc'[v] \in InHand <=> pc[v] \in InHand
    BY <1>8, JobUpdateKeeps DEF SelfEnqueue, TypeOK, InHand
  <2> QED
    BY <1>6, <1>8, <2>1, <2>2, <2>3 DEF SelfEnqueue
<1>9. ASSUME NEW w \in Workers, StartCycle(w)
      PROVE  OrphansEvolve /\ ExposedEvolve
  <2>1. InHands' = InHands
    BY <1>9 DEF StartCycle, InHands, TypeOK, InHand
  <2>2. WithStatus({"running"})' = WithStatus({"running"})
        /\ WithStatus(Active)' = WithStatus(Active)
    BY <1>9 DEF StartCycle, WithStatus, NoTask, Finished, Active
  <2> QED
    BY <1>9, <2>1, <2>2 DEF StartCycle, Orphans, Exposed
<1>10. ASSUME NEW w \in Workers, SelfEnqueueCheck(w) \/ SelfEnqueueDeclined(w)
       PROVE  OrphansEvolve /\ ExposedEvolve
  <2>1. \A v \in Workers : pc'[v] \in InHand <=> pc[v] \in InHand
    BY <1>10 DEF SelfEnqueueCheck, SelfEnqueueDeclined, TypeOK, InHand
  <2>2. \A v \in Workers : job'[v].id = job[v].id
    <3>1. CASE SelfEnqueueCheck(w)
      BY <3>1 DEF SelfEnqueueCheck, Trying, TypeOK, Job
    <3>2. CASE SelfEnqueueDeclined(w)
      BY <3>2, JobUpdateKeeps DEF SelfEnqueueDeclined, TypeOK
    <3> QED
      BY <1>10, <3>1, <3>2
  <2> QED
    BY <1>1, <1>10, <2>1, <2>2 DEF SelfEnqueueCheck, SelfEnqueueDeclined
\* Releasing comes after the report, with nothing in hand.
<1>11. ASSUME NEW w \in Workers, ReleasePathLocks(w)
       PROVE  OrphansEvolve /\ ExposedEvolve
  <2>1. InHands' = InHands
    BY <1>11 DEF ReleasePathLocks, InHands, TypeOK, InHand
  <2> QED
    BY <1>11, <2>1 DEF ReleasePathLocks, Orphans, Exposed, WithStatus
<1>12. ASSUME NEW w \in Workers,
              EndCycle(w) \/ AcquirePathLock(w) \/ HandlerDecides(w)
       PROVE  OrphansEvolve /\ ExposedEvolve
  BY <1>1, <1>12 DEF EndCycle, AcquirePathLock, HandlerDecides, TypeOK, InHand
<1>13. CASE Crash
  <2>1. InHands' = {}
    BY <1>13 DEF Crash, InHands, InHand
  <2> QED
    BY <1>13, <2>1 DEF Crash, Orphans, Exposed, WithStatus
<1>14. CASE Tick
  <2>1. \A t \in TaskIds : tasks'[t].status = tasks[t].status
    BY <1>14, AgedKeeps DEF Tick, TypeOK
  <2> QED
    BY <1>1, <1>14, <2>1 DEF Tick
<1>15. ASSUME (\E k \in Disableable : ToggleKind(k)) \/ UNCHANGED vars
       PROVE  OrphansEvolve /\ ExposedEvolve
  BY <1>1, <1>15 DEF ToggleKind, vars
<1> QED
  BY <1>2, <1>4, <1>5, <1>7, <1>8, <1>9, <1>10, <1>11, <1>12, <1>13,
     <1>14, <1>15 DEF Next, WorkerStep, CycleStep

Countable ==
    /\ IsFiniteSet(WithStatus({"pending"}))
    /\ IsFiniteSet(InHands) /\ Cardinality(InHands) <= Cardinality(Workers)
    /\ IsFiniteSet(Orphans)
    /\ IsFiniteSet(Exposed)

LEMMA BacklogFinite == TypeInv => Countable
<1> SUFFICES ASSUME TypeInv PROVE Countable
  OBVIOUS
<1> DEFINE busy == {w \in Workers : pc[w] \in InHand}
           copy == [w \in busy |-> job[w].id]
<1>1. IsFiniteSet(TaskIds)
  BY FS_Interval, KnobsAssumption DEF TaskIds
<1>2. \A S : WithStatus(S) \subseteq TaskIds
  BY DEF WithStatus
<1>3. \A S : IsFiniteSet(WithStatus(S))
  BY <1>1, <1>2, FS_Subset
<1>4. IsFiniteSet(busy) /\ Cardinality(busy) <= Cardinality(Workers)
  BY FS_Subset, WorkersAssumption
<1>5. copy \in Surjection(busy, InHands)
  BY DEF InHands, Surjection
<1>6. IsFiniteSet(InHands) /\ Cardinality(InHands) <= Cardinality(busy)
  BY <1>4, <1>5, FS_Surjection
<1>7. /\ Cardinality(InHands) \in Int /\ Cardinality(busy) \in Int
      /\ Cardinality(Workers) \in Int
  BY <1>4, <1>6, FS_CardinalityType, WorkersAssumption
<1>8. Cardinality(InHands) <= Cardinality(Workers)
  BY <1>4, <1>6, <1>7
<1>9. IsFiniteSet(Orphans)
  BY <1>3, FS_Subset DEF Orphans
<1>10. IsFiniteSet(Exposed)
  BY <1>3, <1>6, FS_Union DEF Exposed
<1> QED
  BY <1>3, <1>6, <1>8, <1>9, <1>10 DEF Countable

\* The size of a union, and of a subset of one.
LEMMA UnionBound ==
    ASSUME NEW S, NEW T, NEW R, IsFiniteSet(S), IsFiniteSet(T), R \subseteq S \cup T
    PROVE  /\ IsFiniteSet(R)
           /\ Cardinality(R) \in Nat /\ Cardinality(S) \in Nat
           /\ Cardinality(T) \in Nat
           /\ Cardinality(R) <= Cardinality(S) + Cardinality(T)
<1>1. /\ IsFiniteSet(S \cup T)
      /\ Cardinality(S \cup T)
            = Cardinality(S) + Cardinality(T) - Cardinality(S \cap T)
  BY FS_Union
<1>2. IsFiniteSet(S \cap T)
  BY FS_Subset
<1>3. IsFiniteSet(R) /\ Cardinality(R) <= Cardinality(S \cup T)
  BY <1>1, FS_Subset
<1>4. /\ Cardinality(S) \in Nat /\ Cardinality(T) \in Nat /\ Cardinality(R) \in Nat
      /\ Cardinality(S \cap T) \in Nat /\ Cardinality(S \cup T) \in Nat
  BY <1>1, <1>2, <1>3, FS_CardinalityType
<1> QED
  BY <1>1, <1>3, <1>4

LEMMA BacklogInit == Init => BacklogInv
<1> SUFFICES ASSUME Init PROVE BacklogInv
  OBVIOUS
<1>1. Orphans = {} /\ Exposed = {}
  BY DEF Init, Orphans, Exposed, InHands, WithStatus, NoTask, Active, InHand
<1>2. Cardinality(Workers) \in Nat /\ crashes = 0
  BY FS_CardinalityType, WorkersAssumption DEF Init
<1> QED
  BY <1>1, <1>2, FS_EmptySet, KnobsAssumption DEF BacklogInv

LEMMA BacklogNext ==
    ASSUME TypeInv, BacklogInv, [Next]_vars
    PROVE  BacklogInv'
<1> DEFINE n == Cardinality(Workers)
           pending == WithStatus({"pending"})
<1>1. TypeInv'
  BY TypeNext
<1>2. /\ IsFiniteSet(InHands) /\ Cardinality(InHands) <= n
      /\ IsFiniteSet(Orphans) /\ IsFiniteSet(Exposed) /\ IsFiniteSet(pending)
  BY BacklogFinite DEF Countable
<1>3. /\ IsFiniteSet(InHands') /\ Cardinality(InHands)' <= n
      /\ IsFiniteSet(Orphans') /\ IsFiniteSet(Exposed') /\ IsFiniteSet(pending')
  <2>1. Countable'
    BY <1>1, BacklogFinite, PTL
  <2> QED
    BY <2>1 DEF Countable
<1>4. n \in Nat /\ crashes \in Nat
  BY FS_CardinalityType, WorkersAssumption, KnobsAssumption DEF TypeInv, TypeOK
<1>5. OrphansEvolve /\ ExposedEvolve
  BY ExposureSteps
<1>6. Cardinality(Orphans)' <= n * crashes' /\ crashes' \in Nat /\ crashes' >= crashes
  <2>1. CASE crashes' = crashes /\ Orphans' \subseteq Orphans
    BY <1>2, <1>3, <1>4, <2>1, FS_Subset, FS_CardinalityType DEF BacklogInv
  <2>2. CASE crashes' = crashes + 1 /\ Orphans' \subseteq Orphans \cup InHands
    <3>1. /\ Cardinality(Orphans') <= Cardinality(Orphans) + Cardinality(InHands)
          /\ Cardinality(Orphans') \in Nat /\ Cardinality(Orphans) \in Nat
          /\ Cardinality(InHands) \in Nat
      BY <1>2, <2>2, UnionBound
    <3>2. n * crashes' = n * crashes + n /\ n * crashes \in Nat
      BY <1>4, <2>2
    <3> QED
      BY <1>2, <1>4, <2>2, <3>1, <3>2 DEF BacklogInv
  <2> QED
    BY <1>5, <2>1, <2>2 DEF OrphansEvolve
<1>7. n * (1 + crashes) = n + n * crashes /\ n * (1 + crashes') = n + n * crashes'
  BY <1>4, <1>6
<1>8. n * crashes \in Nat /\ n * crashes' \in Nat /\ n * crashes <= n * crashes'
  BY <1>4, <1>6
<1>9. Cardinality(Exposed)' <= QUEUE_PENDING_LIMIT + n * (1 + crashes')
  <2>1. CASE Exposed' \subseteq Exposed
    <3>1. /\ Cardinality(Exposed') <= Cardinality(Exposed)
          /\ Cardinality(Exposed') \in Nat /\ Cardinality(Exposed) \in Nat
      BY <1>2, <1>3, <2>1, FS_Subset, FS_CardinalityType
    <3> QED
      BY <1>4, <1>7, <1>8, <3>1, KnobsAssumption DEF BacklogInv
  <2>2. CASE ~QueueFull /\ pending' \subseteq pending \cup {next_id}
    <3>1. Cardinality(pending') <= QUEUE_PENDING_LIMIT /\ Cardinality(pending') \in Nat
      <4>1. IsFiniteSet({next_id}) /\ Cardinality({next_id}) = 1
        BY FS_Singleton
      <4>2. /\ Cardinality(pending') <= Cardinality(pending) + 1
            /\ Cardinality(pending') \in Nat /\ Cardinality(pending) \in Nat
        BY <1>2, <2>2, <4>1, UnionBound
      <4>3. Cardinality(pending) < QUEUE_PENDING_LIMIT
        BY <2>2, <4>2, KnobsAssumption DEF QueueFull
      <4> QED
        BY <4>2, <4>3, KnobsAssumption
    <3>2. Exposed' \subseteq (pending' \cup Orphans') \cup InHands'
      BY DEF Exposed, Orphans, WithStatus, Active
    <3>3. /\ IsFiniteSet(pending' \cup Orphans')
          /\ Cardinality(pending' \cup Orphans')
                <= Cardinality(pending') + Cardinality(Orphans')
          /\ Cardinality(pending' \cup Orphans') \in Nat
          /\ Cardinality(Orphans') \in Nat
      BY <1>3, UnionBound
    <3>4. /\ Cardinality(Exposed')
                <= Cardinality(pending' \cup Orphans') + Cardinality(InHands')
          /\ Cardinality(Exposed') \in Nat /\ Cardinality(InHands') \in Nat
      BY <1>3, <3>2, <3>3, UnionBound
    <3> QED
      BY <1>3, <1>4, <1>6, <1>7, <1>8, <3>1, <3>3, <3>4, KnobsAssumption
  <2> QED
    BY <1>5, <2>1, <2>2 DEF ExposedEvolve
<1> QED
  BY <1>6, <1>9 DEF BacklogInv

\* The queue's limit bounds what is open, although only pending tasks are counted
\* and a retry is never refused: the excess is what workers hold, and what
\* crashes took from them.  Leases that run out make no difference
\* (enqueue_task, self_enqueue, complete_task).
THEOREM BacklogKept == Spec => []BacklogBounded
<1>1. Init => TypeInv /\ BacklogInv
  BY TypeInit, BacklogInit
<1>2. TypeInv /\ BacklogInv /\ [Next]_vars => (TypeInv /\ BacklogInv)'
  BY TypeNext, BacklogNext
<1>3. TypeInv /\ BacklogInv => BacklogBounded
  <2> SUFFICES ASSUME TypeInv, BacklogInv PROVE BacklogBounded
    OBVIOUS
  <2>1. IsFiniteSet(Exposed) /\ WithStatus(Active) \subseteq Exposed
    BY BacklogFinite DEF Countable, Exposed
  <2>2. /\ Cardinality(WithStatus(Active)) <= Cardinality(Exposed)
        /\ Cardinality(WithStatus(Active)) \in Nat /\ Cardinality(Exposed) \in Nat
    BY <2>1, FS_Subset, FS_CardinalityType
  <2>3. Cardinality(Workers) * (1 + crashes) \in Nat
    BY FS_CardinalityType, WorkersAssumption, KnobsAssumption DEF TypeInv, TypeOK
  <2> QED
    BY <2>2, <2>3, KnobsAssumption DEF BacklogInv, BacklogBounded
<1> QED
  BY <1>1, <1>2, <1>3, PTL DEF Spec

-----------------------------------------------------------------------------
(* The queue implements TaskLifecycle: a step of the queue, its workers and  *)
(* their process is a step of the lifecycle.                                 *)

\* The task map depends on these parts of a record only.
LEMMA TaskOfRecord ==
    ASSUME NEW t \in TaskIds,
           tasks'[t].status \in Active <=> tasks[t].status \in Active,
           tasks'[t].status = "absent" <=> tasks[t].status = "absent",
           Signature(tasks'[t]) = Signature(tasks[t]),
           tasks'[t].retry_count = tasks[t].retry_count,
           next_id' = next_id
    PROVE  TaskOf(t)' = TaskOf(t)
  BY DEF TaskOf, Signature

LEMMA LifecycleInit == Init => Lifecycle!Init
  BY DEF Init, Lifecycle!Init, Lifecycle!Absent, TaskMap, HandMap, LateMap,
         TaskOf, InHandOf, NoTask, TaskIds, InHand

\* Appending a record that no open task duplicates creates a task.
LEMMA CreateStep ==
    ASSUME TypeInv, FreshIds, NEW record, AddRecord(record),
           record.status = "pending", record.retry_count = 0,
           Signature(record) \in Notes, DedupHits(Signature(record)) = {},
           HandMap' = HandMap, LateMap' = LateMap
    PROVE  Lifecycle!Create(next_id, Signature(record))
<1> DEFINE n == Signature(record)
<1>1. /\ next_id \in TaskIds /\ next_id' = next_id + 1
      /\ tasks'[next_id] = record
      /\ \A t \in TaskIds \ {next_id} : tasks'[t] = tasks[t]
  BY DEF AddRecord, TypeInv, TypeOK
<1>2. TaskMap[next_id] = Lifecycle!Absent
  BY <1>1, NumberTypes
     DEF FreshIds, TaskMap, TaskOf, Lifecycle!Absent, TypeInv
<1>3. \A u \in TaskIds : Lifecycle!IsOpen(u) => TaskMap[u].note # n
  <2> SUFFICES ASSUME NEW u \in TaskIds, TaskMap[u].stage = "open"
               PROVE  TaskMap[u].note # n
    BY DEF Lifecycle!IsOpen
  <2>1. tasks[u].status \in Active /\ TaskMap[u].note = Signature(tasks[u])
    BY DEF TaskMap, TaskOf
  <2> QED
    BY <2>1 DEF DedupHits, WithStatus
<1>4. ASSUME NEW t \in TaskIds, t = next_id
      PROVE  TaskOf(t)' = Lifecycle!Open(n, 0)
  BY <1>1, <1>4 DEF TaskOf, Signature, Active, Lifecycle!Open
<1>5. ASSUME NEW t \in TaskIds \ {next_id}
      PROVE  TaskOf(t)' = TaskOf(t)
  <2>1. t >= next_id <=> t >= next_id'
    BY <1>1, NumberTypes DEF TypeInv
  <2> QED
    BY <1>1, <2>1 DEF TaskOf, Signature
<1>6. TaskMap' = [TaskMap EXCEPT ![next_id] = Lifecycle!Open(n, 0)]
  BY <1>1, <1>4, <1>5 DEF TaskMap
<1> QED
  BY <1>2, <1>3, <1>6 DEF Lifecycle!Create

\* complete_task by the holder retries the task or finishes it; by a worker that
\* has lost it the same, and whoever has it loses it, too.
LEMMA ReportStep ==
    ASSUME TypeInv, TypeInv', HandsInv, HandsInv', NEW w \in Workers, Reports(w)
    PROVE  Lifecycle!Report(w) \/ Lifecycle!LateReport(w)
<1> USE DEF TypeInv
<1>1. PICK t \in TaskIds : t = job[w].id
  BY DEF HandsInv, LeaseInv, Reports
<1> DEFINE n == Signature(tasks[t])
           k == tasks[t].retry_count
<1>2. /\ t # 0 /\ k \in Nat /\ t < next_id /\ next_id' = next_id
      /\ next_id \in Nat /\ t \in Nat
  BY <1>1, NumberTypes DEF HandsInv, LeaseInv, Reports
<1>3. /\ \A u \in TaskIds \ {t} : tasks'[u] = tasks[u]
      /\ tasks[t].status = "absent" => tasks'[t].status = "absent"
      /\ tasks[t].status # "absent" => Signature(tasks'[t]) = n
  BY <1>1, CompletionEffect DEF Reports
<1>4. \A u \in TaskIds \ {t} : TaskOf(u)' = TaskOf(u)
  BY <1>2, <1>3 DEF TaskOf, Signature
<1>5. ASSUME tasks[t].status = "absent"
      PROVE  TaskMap[t] = Lifecycle!Forgotten /\ TaskMap' = TaskMap
  <2>1. TaskMap[t] = Lifecycle!Forgotten
    BY <1>2, <1>5 DEF TaskMap, TaskOf, Lifecycle!Forgotten
  <2>2. TaskOf(t)' = TaskOf(t)
    BY <1>2, <1>3, <1>5 DEF TaskOf
  <2> QED
    BY <1>4, <2>1, <2>2 DEF TaskMap
<1>6. ASSUME tasks[t].status # "absent"
      PROVE  Lifecycle!Retried(t) \/ Lifecycle!Finished(t)
  <2>1. \/ tasks'[t].status = "pending" /\ tasks'[t].retry_count = k + 1
        \/ tasks'[t].status \in Finished /\ tasks'[t].retry_count = k
    BY <1>1, <1>6, CompletionCounts DEF Reports
  <2>2. TaskMap[t].note = n /\ TaskMap[t].retries = k
    BY <1>6 DEF TaskMap, TaskOf
  <2>3. CASE tasks'[t].status = "pending" /\ tasks'[t].retry_count = k + 1
    <3>1. k + 1 \in 0..DEFAULT_MAX_RETRIES
      BY <2>3 DEF TypeOK, Task
    <3>2. k < DEFAULT_MAX_RETRIES
      BY <1>2, <3>1, KnobsAssumption
    <3>3. TaskOf(t)' = Lifecycle!Open(n, k + 1)
      BY <1>3, <1>6, <2>3 DEF TaskOf, Signature, Active, Lifecycle!Open
    <3> HIDE DEF n, k
    <3>4. TaskMap' = [TaskMap EXCEPT ![t] = Lifecycle!Open(n, k + 1)]
      BY <1>4, <3>3 DEF TaskMap
    <3> QED
      BY <2>2, <3>2, <3>4 DEF Lifecycle!Retried
  <2>4. CASE tasks'[t].status \in Finished /\ tasks'[t].retry_count = k
    <3> DEFINE s == TaskMap[t].stage
    <3>1. TaskOf(t)' = [stage |-> "finished", note |-> n, retries |-> k]
      BY <1>3, <1>6, <2>4 DEF TaskOf, Signature, Active, Finished
    <3>2. TaskMap[t] = [stage |-> s, note |-> n, retries |-> k]
      BY <1>6 DEF TaskMap, TaskOf
    <3> HIDE DEF n, k, s
    <3>3. [TaskMap[t] EXCEPT !.stage = "finished"]
             = [stage |-> "finished", note |-> n, retries |-> k]
      BY <3>2
    <3>4. TaskMap' = [TaskMap EXCEPT ![t].stage = "finished"]
      BY <1>4, <3>1, <3>3 DEF TaskMap
    <3> QED
      BY <3>4 DEF Lifecycle!Finished
  <2> QED
    BY <2>1, <2>3, <2>4
<1>7. /\ pc[w] \in InHand /\ pc'[w] \notin InHand
      /\ \A v \in Workers \ {w} : pc'[v] = pc[v] /\ job'[v] = job[v]
      /\ lapsed' = (lapsed \ {w}) \cup OthersOn(w)
  BY DEF Reports, TypeOK, InHand, FailTask, FinishTask, CompleteTask
<1>8. InHandOf(w) = t /\ InHandOf(w)' = 0
  BY <1>1, <1>7 DEF InHandOf
<1>9. \A v \in Workers \ {w} : InHandOf(v)' = InHandOf(v)
  BY <1>7 DEF InHandOf
<1>10. OthersOn(w) = {v \in Workers \ {w} : InHandOf(v) = t}
  BY <1>1, <1>2 DEF OthersOn, InHandOf
<1>11. CASE w \notin lapsed
  <2>1. OthersOn(w) \subseteq lapsed
    BY <1>7, <1>11 DEF OthersOn, HandsInv, LeaseInv, Holders
  <2>2. lapsed' = lapsed
    BY <1>7, <1>11, <2>1
  <2>3. HandMap[w] = t /\ LateMap[w] = 0
    BY <1>8, <1>11 DEF HandMap, LateMap
  <2>4. HandMap' = [HandMap EXCEPT ![w] = 0] /\ LateMap' = LateMap
    BY <1>8, <1>9, <1>11, <2>2 DEF HandMap, LateMap
  <2>5. tasks[t].status # "absent"
    BY <1>1, <1>7, <1>11 DEF HandsInv, LeaseInv, Holders
  <2> QED
    BY <1>2, <1>6, <2>3, <2>4, <2>5 DEF Lifecycle!Report
<1>12. CASE w \in lapsed
  <2> DEFINE S == {v \in Workers : HandMap[v] = LateMap[w]}
  <2>1. LateMap[w] = t /\ HandMap[w] = 0
    BY <1>8, <1>12 DEF HandMap, LateMap
  <2>2. S = OthersOn(w) \ lapsed
    BY <1>2, <1>10, <2>1 DEF HandMap
  <2>3. HandMap' = [v \in Workers |-> IF v \in S THEN 0 ELSE HandMap[v]]
    <3>1. ASSUME NEW v \in Workers
          PROVE  HandMap'[v] = IF v \in S THEN 0 ELSE HandMap[v]
      <4>1. CASE v = w
        BY <1>2, <1>8, <2>1, <4>1 DEF HandMap
      <4>2. CASE v # w
        BY <1>7, <1>9, <2>2, <4>2 DEF HandMap
      <4> QED
        BY <4>1, <4>2
    <3> QED
      BY <3>1 DEF HandMap
  <2>4. LateMap' = [v \in Workers |-> IF v = w THEN 0
                                      ELSE IF v \in S THEN HandMap[v] ELSE LateMap[v]]
    <3>1. ASSUME NEW v \in Workers
          PROVE  LateMap'[v] = IF v = w THEN 0
                               ELSE IF v \in S THEN HandMap[v] ELSE LateMap[v]
      <4>1. CASE v = w
        BY <1>8, <4>1 DEF LateMap
      <4>2. CASE v # w
        BY <1>7, <1>9, <2>2, <4>2 DEF LateMap, HandMap
      <4> QED
        BY <4>1, <4>2
    <3> QED
      BY <3>1 DEF LateMap
  <2>5. tasks[t].status # "absent" => TaskMap[t] # Lifecycle!Forgotten
    BY DEF TaskMap, TaskOf, Lifecycle!Forgotten
  <2>6. IF TaskMap[t] = Lifecycle!Forgotten THEN UNCHANGED TaskMap
        ELSE Lifecycle!Retried(t) \/ Lifecycle!Finished(t)
    BY <1>5, <1>6, <2>5
  <2> HIDE DEF S
  <2>7. Lifecycle!Without(S) = HandMap'
    BY <2>3 DEF Lifecycle!Without
  <2> QED
    BY <1>2, <2>1, <2>4, <2>6, <2>7 DEF Lifecycle!LateReport, S
<1> QED
  BY <1>11, <1>12

\* Every step is one of the lifecycle.
LEMMA LifecycleStep ==
    ASSUME TypeInv, TypeInv', HandsInv, HandsInv', [Next]_vars
    PROVE  Lifecycle!Next
<1> USE DEF TypeInv
<1>1. ASSUME HandsAlike, lapsed' = lapsed
      PROVE  HandMap' = HandMap /\ LateMap' = LateMap
  <2>1. \A w \in Workers : InHandOf(w)' = InHandOf(w)
    BY <1>1 DEF HandsAlike, InHandOf
  <2> QED
    BY <1>1, <2>1 DEF HandMap, LateMap
<1>2. CASE Quiet
  <2> DEFINE S == {t \in TaskIds : tasks[t].status \in Finished /\ tasks'[t] = NoTask}
  <2>1. \A t \in S : TaskMap[t].stage = "finished"
    BY DEF TaskMap, TaskOf, Finished, Active
  <2>2. ASSUME NEW t \in S
        PROVE  TaskOf(t)' = Lifecycle!Forgotten
    <3>1. ~(t >= next_id) /\ next_id' = next_id
      BY <1>2, <2>2 DEF Quiet, HandsInv, FreshIds, Finished
    <3> QED
      BY <3>1 DEF TaskOf, NoTask, Lifecycle!Forgotten
  <2>3. ASSUME NEW t \in TaskIds \ S
        PROVE  TaskOf(t)' = TaskOf(t)
    BY <1>2 DEF Quiet, TaskOf, Signature
  <2>4. TaskMap' = [t \in TaskIds |->
                      IF t \in S THEN Lifecycle!Forgotten ELSE TaskMap[t]]
    BY <2>2, <2>3 DEF TaskMap
  <2>5. HandMap' = HandMap /\ LateMap' = LateMap
    BY <1>1, <1>2 DEF Quiet
  <2>6. Lifecycle!Forget(S)
    BY <2>1, <2>4, <2>5 DEF Lifecycle!Forget
  <2> QED
    BY <2>6 DEF Lifecycle!Next
<1>3. ASSUME NEW record, Adds(record)
      PROVE  Lifecycle!Next
  <2>1. HandMap' = HandMap /\ LateMap' = LateMap
    BY <1>1, <1>3 DEF Adds
  <2>2. Lifecycle!Create(next_id, Signature(record))
    BY <1>3, <2>1, CreateStep DEF Adds, HandsInv
  <2> QED
    BY <1>3, <2>2 DEF Lifecycle!Next, Adds, AddRecord
<1>4. ASSUME NEW w \in Workers, NEW t \in TaskIds, Claims(w, t)
      PROVE  Lifecycle!Next
  <2>1. /\ tasks[t].status \in Active
        /\ tasks[t].status = "running" => tasks[t].lease = -1
    BY <1>4 DEF Claims, Runnable, WithStatus, Active
  <2>2. /\ tasks'[t].status = "running"
        /\ Signature(tasks'[t]) = Signature(tasks[t])
        /\ tasks'[t].retry_count = tasks[t].retry_count
        /\ \A u \in TaskIds \ {t} : tasks'[u] = tasks[u]
    BY <1>4 DEF Claims, TypeOK, Task, Signature
  <2>3. /\ next_id' = next_id /\ lapsed' = lapsed
        /\ pc[w] \notin InHand /\ pc'[w] \in InHand /\ job'[w].id = t
        /\ \A v \in Workers \ {w} : pc'[v] = pc[v] /\ job'[v] = job[v]
    BY <1>4 DEF Claims, Copy, TypeOK, InHand
  <2>4. w \notin lapsed
    BY <2>3 DEF HandsInv, LeaseInv
  <2>5. TaskMap' = TaskMap
    <3>1. \A u \in TaskIds : TaskOf(u)' = TaskOf(u)
      BY <2>1, <2>2, <2>3 DEF TaskOf, Signature, Active
    <3> QED
      BY <3>1 DEF TaskMap
  <2>6. /\ InHandOf(w) = 0 /\ InHandOf(w)' = t
        /\ \A v \in Workers \ {w} : InHandOf(v)' = InHandOf(v)
    BY <2>3 DEF InHandOf
  <2>7. /\ HandMap' = [HandMap EXCEPT ![w] = t] /\ LateMap' = LateMap
        /\ HandMap[w] = 0 /\ LateMap[w] = 0
    BY <2>3, <2>4, <2>6 DEF HandMap, LateMap
  <2>8. TaskMap[t].stage = "open"
    BY <2>1 DEF TaskMap, TaskOf, Active
  <2>9. \A v \in Workers : HandMap[v] # t
    BY <2>1, NumberTypes DEF HandMap, InHandOf, HandsInv, LeaseInv, Holders
  <2>10. Lifecycle!Take(w, t)
    BY <2>5, <2>7, <2>8, <2>9 DEF Lifecycle!Take, Lifecycle!IsOpen
  <2> QED
    BY <2>10 DEF Lifecycle!Next
<1>5. ASSUME NEW w \in Workers, Reports(w)
      PROVE  Lifecycle!Next
  BY <1>5, ReportStep DEF Lifecycle!Next
<1>6. CASE Crash
  <2>1. \A w \in Workers : InHandOf(w)' = 0
    BY <1>6 DEF Crash, InHandOf, InHand
  <2>2. /\ HandMap' = [w \in Workers |-> 0]
        /\ LateMap' = [w \in Workers |-> 0]
    BY <2>1 DEF HandMap, LateMap
  <2>3. TaskMap' = TaskMap
    BY <1>6 DEF Crash, TaskMap, TaskOf, Signature
  <2> QED
    BY <2>2, <2>3 DEF Lifecycle!Next, Lifecycle!Crash
<1>7. CASE Tick
  <2>1. \A t \in TaskIds : /\ tasks'[t].status = tasks[t].status
                           /\ Signature(tasks'[t]) = Signature(tasks[t])
                           /\ tasks'[t].retry_count = tasks[t].retry_count
    BY <1>7, AgedKeeps DEF Tick, TypeOK
  <2>2. TaskMap' = TaskMap
    BY <1>7, <2>1, TaskOfRecord DEF Tick, TaskMap
  <2>3. /\ \A w \in Workers : InHandOf(w)' = InHandOf(w)
        /\ lapsed' = lapsed \cup Overrunning
    BY <1>7 DEF Tick, InHandOf
  <2>4. \A w \in Overrunning : w \in Workers \ lapsed /\ InHandOf(w) # 0
    BY NumberTypes DEF Overrunning, InHandOf, HandsInv, LeaseInv
  <2>5. \A w \in Overrunning : HandMap[w] # 0 /\ HandMap[w] = InHandOf(w)
    BY <2>4 DEF HandMap
  <2>6. HandMap' = Lifecycle!Without(Overrunning)
    BY <2>3, <2>4 DEF HandMap, Lifecycle!Without
  <2>7. LateMap' = [w \in Workers |-> IF w \in Overrunning THEN HandMap[w]
                                      ELSE LateMap[w]]
    BY <2>3, <2>5 DEF LateMap
  <2>8. Lifecycle!Lapse(Overrunning)
    BY <2>2, <2>5, <2>6, <2>7 DEF Lifecycle!Lapse
  <2>9. Overrunning \in SUBSET Workers
    BY DEF Overrunning
  <2> QED
    BY <2>8, <2>9 DEF Lifecycle!Next
<1> QED
  BY <1>2, <1>3, <1>4, <1>5, <1>6, <1>7, StepKinds

\* The queue keeps the promises of its lifecycle, whatever enqueues, crashes,
\* retries, overrun leases and pruning do in between (sagwan_tasks.py with
\* run_sagwan_task_worker).
THEOREM QueueKeepsLifecycle == Spec => LifecycleKept
<1>1. Init => TypeInv /\ HandsInv /\ Lifecycle!Init
  BY TypeInit, HandsInit, LifecycleInit
<1>2. TypeInv /\ HandsInv /\ [Next]_vars => (TypeInv /\ HandsInv)'
  BY TypeNext, HandsNext
<1>3. TypeInv /\ TypeInv' /\ HandsInv /\ HandsInv' /\ [Next]_vars
        => [Lifecycle!Next]_<<TaskMap, HandMap, LateMap>>
  BY LifecycleStep
<1> QED
  BY <1>1, <1>2, <1>3, PTL DEF Spec, LifecycleKept, Lifecycle!Spec
=============================================================================
