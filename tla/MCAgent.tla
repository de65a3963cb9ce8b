------------------------------- MODULE MCAgent -------------------------------
(* What the agent keeps of itself: the edits of its own notes, the log of  *)
(* its sweeps, the notes of its periodic stages, its memory, its settings. *)
(* Each keeps its state in files of its own, so a behaviour follows one of *)
(* them, the one in focus, from its start.                                 *)
EXTENDS SelfEdits, Sequences, TLC

CONSTANTS
    playbook, policy,
    Kinds, CAP, Targets, PER_SWEEP, WEEK, MONTH, MaxManual,
    ORDER, Requests, BlockedNotes, PERIOD, MaxHours, MaxDecisions,
    Threads, SIZE, FLOOR, WINDOW, AFTER_TASK, IN_CYCLE, PAUSE, MaxEpisodes, MaxTime,
    Admins, LOW, HIGH, Numbers, DEFAULT, Tools, Exec, MaxChanges

VARIABLES
    focus,
    sweeps, log, busy, applied, acted, sweepRested, sweepUnlogged, sweepSpent,
    queueing, hours, last_run, gap, waiting, running, proposals, cycles, decided, stageSpent,
    now, at, memory, told, raced, cursor, distilled, excused, pc, held, memorySpent,
    sagwan, librarian, requests, answered, wanted, changes

\* Classes and limits as in the code, but smaller.
Classes == [p \in Paths |-> IF p = Policy THEN "policy" ELSE "playbooks"]
ClassLimits == [policy |-> 2, playbooks |-> 2]

\* Each kind of action once a day; the stages in the order of a cycle.
Caps == [k \in Kinds |-> 1]
Order == <<"topics", "meta">>

W == INSTANCE Sweeps WITH
    rested <- sweepRested, unlogged <- sweepUnlogged, spent <- sweepSpent
S == INSTANCE PeriodicStages WITH
    INTERVAL <- PERIOD, requests <- proposals, spent <- stageSpent
R == INSTANCE AgentMemory WITH spent <- memorySpent
O == INSTANCE Settings

ASSUME AgentBounds == W!SweepBounds /\ S!StageBounds /\ R!MemoryBounds /\ O!SettingsBounds

sweepVars == <<sweeps, log, busy, applied, acted, sweepRested, sweepUnlogged, sweepSpent>>
stageVars == <<queueing, hours, last_run, gap, waiting, running, proposals, cycles, decided,
               stageSpent>>
memoryVars == <<now, at, memory, told, raced, cursor, distilled, excused, pc, held,
                memorySpent>>
settingVars == <<sagwan, librarian, requests, answered, wanted, changes>>
agentVars == <<focus, vars, sweepVars, stageVars, memoryVars, settingVars>>

AgentInit ==
    /\ focus \in {"edits", "sweeps", "stages", "memory", "settings"}
    /\ Init /\ W!Init /\ S!Init /\ R!Init /\ O!Init
    /\ focus # "stages" => queueing

\* Nothing is explored of the components that are not in focus.
AgentNext ==
    /\ UNCHANGED focus
    /\ focus # "edits" => UNCHANGED vars
    /\ focus # "sweeps" => UNCHANGED sweepVars
    /\ focus # "stages" => UNCHANGED stageVars
    /\ focus # "memory" => UNCHANGED memoryVars
    /\ focus # "settings" => UNCHANGED settingVars
    /\ \/ focus = "edits" /\ Next
       \/ focus = "sweeps" /\ W!Next
       \/ focus = "stages" /\ S!Next
       \/ focus = "memory" /\ R!Next
       \/ focus = "settings" /\ O!Next

AgentSpec == AgentInit /\ [][AgentNext]_agentVars

\* Every component's state is of its type.
AgentTypeOK ==
    /\ TypeOK
    /\ focus = "sweeps" => W!TypeOK
    /\ focus = "stages" => S!TypeOK
    /\ focus = "memory" => R!TypeOK
    /\ focus = "settings" => O!TypeOK

\* What a cycle looks up before a call of minutes and records after it holds in spite of the
\* other cycle: the caps of a sweep's actions up to one sweep's, the interval of a stage, and
\* no episode is distilled twice (sagwan_sweep.py:can_do_action, sagwan_loop.py:
\* _curate_system_health, agent_memory.py:distill_memory).
LookedUpInTime == W!CapsNearlyKept /\ S!RunsApart /\ R!DistilledOnce

\* What was written stays: a human's decision on a request, the newest episodes, the
\* settings as they are answered (sagwan_loop.py:_curate_system_health, save_sagwan_settings,
\* agent_memory.py:_trim_oldest_sections).
WritingsKept == AgentTypeOK /\ S!DecisionsKept /\ R!MemoryKeepsNewest /\ O!SavedIsLoaded
=============================================================================
