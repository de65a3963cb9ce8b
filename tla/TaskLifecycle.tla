--------------------------- MODULE TaskLifecycle ---------------------------
(***************************************************************************)
(* What the task queue promises to those who enqueue and to those who      *)
(* work, without files, leases, locks or time: a task is created only for  *)
(* a note that has no open one, an open task is taken by one worker at a   *)
(* time, and it comes back only when it is retried within its budget or    *)
(* the process dies.  A worker may lose the task it has taken and go on    *)
(* with it; its late report is the one thing that opens a finished task    *)
(* again or decides of a task another has taken since.                     *)
(***************************************************************************)
EXTENDS Naturals

CONSTANTS Workers, Tasks, Notes, Retries, NoTask

VARIABLES
    task,       \* what has become of each task
    hand,       \* the task each worker has taken, or NoTask
    late        \* the task each worker has lost and still works on, or NoTask

Absent == [stage |-> "absent"]
Forgotten == [stage |-> "forgotten"]
Open(n, retries) == [stage |-> "open", note |-> n, retries |-> retries]

IsOpen(t) == task[t].stage = "open"

Init ==
    /\ task = [t \in Tasks |-> Absent]
    /\ hand = [w \in Workers |-> NoTask]
    /\ late = [w \in Workers |-> NoTask]

Create(t, n) ==
    /\ task[t] = Absent
    /\ \A u \in Tasks : IsOpen(u) => task[u].note # n
    /\ task' = [task EXCEPT ![t] = Open(n, 0)]
    /\ UNCHANGED <<hand, late>>

Take(w, t) ==
    /\ hand[w] = NoTask /\ late[w] = NoTask
    /\ IsOpen(t) /\ \A v \in Workers : hand[v] # t
    /\ hand' = [hand EXCEPT ![w] = t]
    /\ UNCHANGED <<task, late>>

\* A task is open again with one retry more, or finished.
Retried(t) ==
    /\ task[t].retries < Retries
    /\ task' = [task EXCEPT ![t] = Open(task[t].note, task[t].retries + 1)]

Finished(t) == task' = [task EXCEPT ![t].stage = "finished"]

Report(w) ==
    /\ hand[w] # NoTask
    /\ Retried(hand[w]) \/ Finished(hand[w])
    /\ hand' = [hand EXCEPT ![w] = NoTask]
    /\ UNCHANGED late

\* What is in hand when the workers of S have lost theirs.
Without(S) == [w \in Workers |-> IF w \in S THEN NoTask ELSE hand[w]]

\* They lose it and go on with it.
Lapse(S) ==
    /\ \A w \in S : hand[w] # NoTask
    /\ hand' = Without(S)
    /\ late' = [w \in Workers |-> IF w \in S THEN hand[w] ELSE late[w]]
    /\ UNCHANGED task

\* The report counts as if the task were still its worker's, and whoever has
\* taken it since loses it; nothing becomes of a forgotten task.
LateReport(w) ==
    /\ late[w] # NoTask
    /\ IF task[late[w]] = Forgotten THEN UNCHANGED task
       ELSE Retried(late[w]) \/ Finished(late[w])
    /\ LET S == {v \in Workers : hand[v] = late[w]}
       IN  /\ hand' = Without(S)
           /\ late' = [v \in Workers |-> IF v = w THEN NoTask
                                         ELSE IF v \in S THEN hand[v] ELSE late[v]]

Crash ==
    /\ hand' = [w \in Workers |-> NoTask]
    /\ late' = [w \in Workers |-> NoTask]
    /\ UNCHANGED task

Forget(S) ==
    /\ \A t \in S : task[t].stage = "finished"
    /\ task' = [t \in Tasks |-> IF t \in S THEN Forgotten ELSE task[t]]
    /\ UNCHANGED <<hand, late>>

Next ==
    \/ \E t \in Tasks, n \in Notes : Create(t, n)
    \/ \E w \in Workers : Report(w) \/ LateReport(w) \/ \E t \in Tasks : Take(w, t)
    \/ \E S \in SUBSET Tasks : Forget(S)
    \/ \E S \in SUBSET Workers : Lapse(S)
    \/ Crash

Spec == Init /\ [][Next]_<<task, hand, late>>
=============================================================================
