------------------------------- MODULE Agenda -------------------------------
(***************************************************************************)
(* The agent's register of goals and concerns.  Every operation loads and  *)
(* saves the whole file under one lock, so each is one step.  Goals end by *)
(* their deadline only when a worker's pass archives them; concerns are    *)
(* never removed, a reader leaves the expired ones out.  Days are ticks.   *)
(***************************************************************************)
EXTENDS Naturals, FiniteSets, SequencesExt, Functions

CONSTANTS
    GOALS,        \* bound: goals kept; one that has ended gives its place to a new one
    Priorities,   \* the priorities goals are given
    HORIZON,      \* days from a goal's creation to its deadline, 7 by default
    Concerns,     \* statements of concerns
    TTL           \* days a concern stays active, 3 by default

AgendaBounds ==
    /\ {GOALS, HORIZON, TTL} \subseteq Nat \ {0}
    /\ Priorities \subseteq Nat

VARIABLES
    goals,      \* each with its priority, the days left to its deadline, and if it is active
    concerns    \* days left to each concern that was ever raised

agendaVars == <<goals, concerns>>

\* Goals that are paused, achieved or abandoned differ in name only.
Unset == [active |-> FALSE, priority |-> 0, left |-> 0]
ActiveGoals == {g \in 1..GOALS : goals[g].active}

\* project_focus_bonus of a project that all the goals mention.
FocusBonus ==
    FoldFunctionOnSet(LAMBDA g, sum : g.priority + 1 + sum, 0, goals, ActiveGoals)

AddGoal(g, priority) ==
    /\ ~goals[g].active
    /\ goals' = [goals EXCEPT ![g] =
           [active |-> TRUE, priority |-> priority, left |-> HORIZON]]
    /\ UNCHANGED concerns

\* update_goal: any status may follow any other.  A goal that is taken up again keeps its
\* deadline, and a new horizon_days does not move it: only an administrator who sets the
\* deadline itself does (bound: no further than a new goal's).
UpdateGoal(g, active, priority, left) ==
    /\ goals[g] # Unset
    /\ goals' = [goals EXCEPT ![g] =
           [active |-> active, priority |-> priority, left |-> left]]
    /\ UNCHANGED concerns

Expired(goal) == goal.active /\ goal.left = 0

\* archive_expired, at the start of each worker pass.
Archived(all) ==
    [g \in DOMAIN all |-> IF Expired(all[g]) THEN [all[g] EXCEPT !.active = FALSE]
                          ELSE all[g]]

\* add_concern: the same statement again is the same concern with a new date.
AddConcern(c) ==
    /\ concerns' = [x \in DOMAIN concerns \cup {c} |-> IF x = c THEN TTL ELSE concerns[x]]
    /\ UNCHANGED goals

\* list_concerns: what prompts are told about.
Listed == {c \in DOMAIN concerns : concerns[c] > 0}

Sooner(left) == IF left > 0 THEN left - 1 ELSE 0

DayPasses ==
    /\ goals' = [g \in DOMAIN goals |-> [goals[g] EXCEPT !.left = Sooner(@)]]
    /\ concerns' = [c \in DOMAIN concerns |-> Sooner(concerns[c])]

AgendaInit ==
    /\ goals = [g \in 1..GOALS |-> Unset]
    /\ concerns = << >>

\* Administrators and the agent's sweeps.
AgendaNext ==
    \/ \E g \in 1..GOALS, priority \in Priorities :
         \/ AddGoal(g, priority)
         \/ \E active \in BOOLEAN, left \in 0..HORIZON : UpdateGoal(g, active, priority, left)
    \/ \E c \in Concerns : AddConcern(c)

AgendaTypeOK ==
    /\ goals \in [1..GOALS -> [active : BOOLEAN, priority : Priorities \cup {0}, left : 0..HORIZON]]
    /\ DOMAIN concerns \subseteq Concerns /\ \A c \in DOMAIN concerns : concerns[c] \in 0..TTL
=============================================================================
