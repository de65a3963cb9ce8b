--------------------------- MODULE PeriodicStages ---------------------------
(***************************************************************************)
(* The stages of the curation cycle that are due once in so many hours:    *)
(* topic proposals, the report on the system's health with its requests    *)
(* for improvement, and research.  Each has a note with the time of its    *)
(* last run.  With the task queue the cycle only enqueues the last two,    *)
(* and a worker of that or another cycle executes them; without it the     *)
(* cycle runs them itself, and an administrator's cycle may run beside it. *)
(***************************************************************************)
EXTENDS Integers, Sequences, FiniteSets, FiniteSetsExt

CONSTANTS
    ORDER,          \* the stages in the order of a cycle: topics, meta, research
    Requests,       \* slugs of requests for improvement
    BlockedNotes,   \* the one of them that lists notes blocked from synchronisation
    INTERVAL,       \* hours between two runs, 12 or 24 in the code
    MaxHours,       \* bound: hours that pass
    MaxDecisions,   \* bound: requests a human decides
    MaxTrouble      \* bound: calls and writes that fail, restarts

StageBounds ==
    /\ ORDER \in Seq({"topics", "meta", "research"}) /\ ORDER # <<>>
    /\ INTERVAL \in Nat \ {0} /\ {MaxHours, MaxDecisions, MaxTrouble} \subseteq Nat

Cycles == {"interval", "manual"}
Stages == {ORDER[i] : i \in DOMAIN ORDER}
Queued == Stages \ {"topics"}
Never == -INTERVAL
Nothing == -INTERVAL - 1

VARIABLES
    queueing,   \* task_queue_enabled
    hours,      \* since the start
    last_run,   \* last_run_at of each stage's note
    gap,        \* the least time between two recorded runs of each stage
    waiting,    \* freshness keys of each stage's pending tasks
    running,    \* the key of the task being executed, whose write set is locked
    requests,   \* the status of each request's note
    cycles,     \* what each cycle is doing
    decided,    \* requests that were decided and still are, whatever their notes say
    spent       \* how much of each bound is used

vars == <<queueing, hours, last_run, gap, waiting, running, requests, cycles, decided, spent>>

queueVars == <<waiting, running>>
noteVars == <<last_run, gap, requests>>
otherVars == <<queueing, hours, decided>>

Idle == [stage |-> "none", step |-> "idle", todo |-> {}]

Trouble ==
    /\ spent.trouble < MaxTrouble
    /\ spent' = [spent EXCEPT !.trouble = @ + 1]

\* What follows in a cycle.
After(stage) ==
    LET i == CHOOSE j \in DOMAIN ORDER : ORDER[j] = stage
    IN  IF i = Len(ORDER) THEN "worker" ELSE ORDER[i + 1]

GoTo(c, stage) ==
    cycles' = [cycles EXCEPT ![c] = [Idle EXCEPT !.stage = stage, !.step = "check"]]

Due(stage) == hours - last_run[stage] >= INTERVAL

----------------------------------------------------------------------------
(* The cycle, and the bootstraps of the task queue.                        *)

BeginCycle(c) ==
    /\ cycles[c].step = "idle"
    /\ GoTo(c, Head(ORDER))
    /\ UNCHANGED <<queueVars, noteVars, otherVars, spent>>

\* The freshness key is the time of the last run, or the present before the first.
Key(stage) == IF last_run[stage] = Never THEN hours ELSE last_run[stage]

\* _bootstrap_enqueue_meta, _bootstrap_enqueue_research: a task of this key that waits or
\* runs is enough.
Enqueue(c) ==
    LET stage == cycles[c].stage
    IN  /\ cycles[c].step = "check" /\ stage \in Queued /\ queueing
        /\ waiting' = IF running[stage] = Key(stage) THEN waiting
                      ELSE [waiting EXCEPT ![stage] = @ \cup {Key(stage)}]
        /\ GoTo(c, After(stage))
        /\ UNCHANGED <<running, noteVars, otherVars, spent>>

\* Mutant of MayStart: a task that was enqueued is executed.
MayStartIfQueued(stage) == (queueing /\ stage \in Queued) \/ Due(stage)

\* The stage looks itself whether it is due, also when a task asks for it.
MayStart(stage) == Due(stage)

\* A stage ends, run by the cycle itself or as a task, which is done then and unlocked.
End(c) ==
    LET stage == cycles[c].stage
    IN  IF cycles[c].step \in {"check", "ask", "write"} /\ (stage = "topics" \/ ~queueing)
        THEN GoTo(c, After(stage)) /\ UNCHANGED running
        ELSE GoTo(c, "worker") /\ running' = [running EXCEPT ![stage] = Nothing]

Check(c) ==
    LET stage == cycles[c].stage
    IN  /\ cycles[c].step \in {"check", "exec"} /\ stage \in Stages
        /\ cycles[c].step = "check" => stage = "topics" \/ ~queueing
        /\ IF MayStart(stage)
           THEN cycles' = [cycles EXCEPT ![c].step = "ask"] /\ UNCHANGED running
           ELSE End(c)
        /\ UNCHANGED <<waiting, noteVars, otherVars, spent>>

\* drain: one task of a stage at a time, for its write set is locked; or no more.
Claim(c, stage, key) ==
    /\ cycles[c].stage = "worker"
    /\ key \in waiting[stage] /\ running[stage] = Nothing
    /\ waiting' = [waiting EXCEPT ![stage] = @ \ {key}]
    /\ running' = [running EXCEPT ![stage] = key]
    /\ cycles' = [cycles EXCEPT ![c] = [Idle EXCEPT !.stage = stage, !.step = "exec"]]
    /\ UNCHANGED <<noteVars, otherVars, spent>>

EndCycle(c) ==
    /\ cycles[c].stage = "worker"
    /\ cycles' = [cycles EXCEPT ![c] = Idle]
    /\ UNCHANGED <<queueVars, noteVars, otherVars, spent>>

----------------------------------------------------------------------------
(* _curate_propose_topics, _curate_system_health, _curate_research_gaps.   *)

\* The answer of the LLM; that of the health stage asks for improvements, and notes that
\* were blocked from synchronisation when it was asked are a request too.
Answer(c) ==
    /\ cycles[c].step = "ask"
    /\ \E todo \in IF cycles[c].stage = "meta" THEN SUBSET Requests ELSE {{}} :
           cycles' = [cycles EXCEPT ![c].step = "write", ![c].todo = todo]
    /\ UNCHANGED <<queueVars, noteVars, otherVars, spent>>

\* No call left in the budget, or no answer: nothing is recorded.
NoAnswer(c) ==
    /\ cycles[c].step = "ask"
    /\ Trouble
    /\ End(c)
    /\ UNCHANGED <<waiting, noteVars, otherVars>>

\* Mutant of Proposed: a request is written whether there is one or not.
ProposedAgain(r) == "proposed"

\* A request whose note is there is left alone, but the one of blocked notes is written anew.
Proposed(r) == IF requests[r] = "none" \/ r = BlockedNotes THEN "proposed" ELSE requests[r]

WriteRequest(c, r) ==
    /\ cycles[c].step = "write" /\ r \in cycles[c].todo
    /\ requests' = [requests EXCEPT ![r] = Proposed(r)]
    /\ cycles' = [cycles EXCEPT ![c].todo = @ \ {r}]
    /\ UNCHANGED <<queueVars, last_run, gap, otherVars, spent>>

Record(c) ==
    LET stage == cycles[c].stage
    IN  /\ cycles[c].step = "write" /\ cycles[c].todo = {}
        /\ last_run' = [last_run EXCEPT ![stage] = hours]
        /\ gap' = [gap EXCEPT ![stage] = Min({@, hours - last_run[stage]})]
        /\ End(c)
        /\ UNCHANGED <<waiting, requests, otherVars, spent>>

\* The note of the stage cannot be written, which is only logged.
RecordFails(c) ==
    /\ cycles[c].step = "write" /\ cycles[c].todo = {}
    /\ Trouble
    /\ End(c)
    /\ UNCHANGED <<waiting, noteVars, otherVars>>

----------------------------------------------------------------------------

Decide(r) ==
    /\ requests[r] = "proposed"
    /\ spent.decisions < MaxDecisions
    /\ spent' = [spent EXCEPT !.decisions = @ + 1]
    /\ requests' = [requests EXCEPT ![r] = "decided"]
    /\ decided' = decided \cup {r}
    /\ UNCHANGED <<queueing, hours, last_run, gap, queueVars, cycles>>

\* Tasks that were running are taken up again when their leases are over.
Restart ==
    /\ Trouble
    /\ cycles' = [c \in Cycles |-> Idle]
    /\ waiting' = [s \in Queued |-> waiting[s] \cup ({running[s]} \ {Nothing})]
    /\ running' = [s \in Queued |-> Nothing]
    /\ UNCHANGED <<noteVars, otherVars>>

Hour ==
    /\ hours < MaxHours
    /\ hours' = hours + 1
    /\ UNCHANGED <<queueing, noteVars, queueVars, cycles, decided, spent>>

Init ==
    /\ queueing \in BOOLEAN
    /\ hours = 0
    /\ last_run = [s \in Stages |-> Never] /\ gap = [s \in Stages |-> INTERVAL]
    /\ waiting = [s \in Queued |-> {}] /\ running = [s \in Queued |-> Nothing]
    /\ requests = [r \in Requests |-> "none"]
    /\ cycles = [c \in Cycles |-> Idle]
    /\ decided = {}
    /\ spent = [w \in {"decisions", "trouble"} |-> 0]

Next ==
    \/ \E c \in Cycles :
           \/ BeginCycle(c) \/ Enqueue(c) \/ Check(c) \/ EndCycle(c)
           \/ \E stage \in Queued, key \in 0..MaxHours : Claim(c, stage, key)
           \/ Answer(c) \/ NoAnswer(c) \/ Record(c) \/ RecordFails(c)
           \/ \E r \in Requests : WriteRequest(c, r)
    \/ \E r \in Requests : Decide(r)
    \/ Restart \/ Hour

Spec == Init /\ [][Next]_vars

----------------------------------------------------------------------------
(* Properties.                                                             *)

TypeOK ==
    /\ hours \in 0..MaxHours
    /\ last_run \in [Stages -> Never..MaxHours] /\ gap \in [Stages -> 0..INTERVAL]
    /\ waiting \in [Queued -> SUBSET (0..MaxHours)]
    /\ running \in [Queued -> Nothing..MaxHours]
    /\ requests \in [Requests -> {"none", "proposed", "decided"}]
    /\ \A c \in Cycles : cycles[c].todo \subseteq Requests

\* With the task queue two recorded runs of a stage are an interval apart, though a task may
\* be enqueued while one of an earlier key runs, and wait while another runs the stage
\* (sagwan_loop.py:_bootstrap_enqueue_meta, _curate_system_health; sagwan_tasks.py:claim).
RunsApart == queueing => \A s \in Queued : gap[s] = INTERVAL

\* What a human decided on a request stays decided, whatever later reports ask for
\* (sagwan_loop.py:_curate_system_health).
DecisionsKept == \A r \in decided \ {BlockedNotes} : requests[r] = "decided"

\* Does not hold without the queue, nor for topic proposals: an administrator's cycle looks
\* at the note before the loop's cycle has written it.
AlwaysApart == \A s \in Stages : gap[s] = INTERVAL

\* Does not hold: the request on blocked notes is proposed again at every report.
EveryDecisionKept == \A r \in decided : requests[r] = "decided"

=============================================================================
