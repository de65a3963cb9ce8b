---------------------------- MODULE MCOperations ----------------------------
(* The curation of notes under the hourly budget of LLM calls, and their   *)
(* upkeep by rank and agenda.  The two keep their state in different       *)
(* fields, so a behaviour follows one of them, the one in focus, from its  *)
(* start.                                                                  *)
EXTENDS Sequences, TLC

CONSTANTS
    GOALS, Priorities, HORIZON, Concerns, TTL,
    Notes, Claims, Focused, Protected, CONNECTED, SEEDS, DRAIN, Modes, MaxUpkeepTrouble,
    NOTES, CALLS, HOUR, VALID, PAUSE, PER_CYCLE, BEFORE, AFTER, MaxManual, MaxCurationTrouble,
    n1, n2

VARIABLES
    focus,
    goals, concerns, mode, notes, order, queue, run, ran, trouble, cited,
    cycles, recorded, published, validated, verdicts, slept, spent

\* Tiers of days as in the code, but smaller.
Aging == <<1, 2, 3>>
Staleness == <<1, 2, 3>>

M == INSTANCE Maintenance WITH AGING <- Aging, STALE <- Staleness,
         MaxTrouble <- MaxUpkeepTrouble
C == INSTANCE Curation WITH CAP <- CALLS, DAY <- VALID, INTERVAL <- PAUSE,
         MaxTrouble <- MaxCurationTrouble, runs <- cycles, notes <- published,
         order <- validated

ASSUME OperationsBounds == M!AgendaBounds /\ M!MaintenanceBounds /\ C!BoundsAssumption

upkeepVars == <<goals, concerns, mode, notes, order, queue, run, ran, trouble, cited>>
curationVars == <<cycles, recorded, published, validated, verdicts, slept, spent>>
operationsVars == <<focus, upkeepVars, curationVars>>

OperationsInit ==
    /\ focus \in {"upkeep", "curation"}
    /\ M!Init /\ C!Init
    /\ order # <<n1>>
    \* two notes start with mentions of each other in one mode, without in the other
    /\ order # <<n2>> => ((\A n \in Notes : notes[n].weak = {}) <=> mode = "queue")
    /\ focus # "upkeep" => mode = "queue" /\ order = <<n2>>

\* Nothing is explored of the component that is not in focus.
OperationsNext ==
    /\ UNCHANGED focus
    /\ focus # "upkeep" => UNCHANGED upkeepVars
    /\ focus # "curation" => UNCHANGED curationVars
    \* the inline stages look at no goals
    /\ \/ focus = "upkeep" /\ M!Next /\ (mode = "inline" => UNCHANGED goals)
       \/ focus = "curation" /\ C!Next

\* The fairness of each component's own specification, while it is in focus.
OperationsFairness ==
    /\ WF_upkeepVars(focus = "upkeep" /\ M!Cycle)
    /\ SF_upkeepVars(focus = "upkeep" /\ M!Midnight)
    /\ WF_curationVars(focus = "curation" /\ C!Step("interval"))
    /\ WF_curationVars(focus = "curation" /\ C!Tick)

OperationsSpec == OperationsInit /\ [][OperationsNext]_operationsVars /\ OperationsFairness

\* Every component's state is of its type.
OperationsTypeOK ==
    /\ focus = "upkeep" => M!TypeOK
    /\ focus = "curation" => C!TypeOK

\* The LLM budget, which is checked before a call and recorded after it, is exceeded by
\* no more than what the other cycle has in flight, and a note that was validated is left
\* alone for a day by all but the other cycle (sagwan_loop.py:_check_rate_limit,
\* _curate_revalidate_published).
CurationThrifty ==
    OperationsTypeOK /\ (focus = "curation" => C!BudgetKept /\ C!RevalidatedSparingly)

\* A published note is validated again and again.
EveryNoteRevalidated == focus = "curation" => C!EveryNoteRevalidated

\* Canonical links rest on two citations or on a verdict about the linked note.
PromotionEarned == M!PromotionEarned

\* Each note is maintained again and again, whatever the goals prefer.
EveryNoteMaintained == focus = "upkeep" => M!EveryNoteMaintained
=============================================================================
