------------------------------- MODULE Sweeps -------------------------------
(***************************************************************************)
(* Stage Z: in a sweep the agent looks at its own state and chooses some   *)
(* actions.  Each action is checked against the log of the last day's      *)
(* sweeps, which records an action whether it was applied or not, and only *)
(* when its sweep ends.  After a week of silence a concern is raised       *)
(* whatever the agent chose.  Two cycles may sweep at once.                *)
(***************************************************************************)
EXTENDS Naturals, FiniteSets, FiniteSetsExt, Functions

CONSTANTS
    Kinds,       \* kinds of actions, "concern" and "request" among them
    CAP,         \* actions of a kind in a day
    Targets,     \* what actions are about
    PER_SWEEP,   \* actions the agent may choose in a sweep, 8 in the code
    DAY,         \* ticks in which caps and cooldowns count, 24 hours
    WEEK,        \* ticks of silence after which an action is forced, 7 days
    MONTH,       \* ticks for which the log is looked at, 30 days
    INTERVAL,    \* ticks between two sweeps, 1 hour
    MaxManual,   \* bound: sweeps of a second cycle
    MaxTrouble   \* bound: appends to the log that fail

SweepBounds ==
    /\ {PER_SWEEP, DAY, WEEK, MONTH} \subseteq Nat \ {0} /\ DAY <= WEEK /\ WEEK <= MONTH
    /\ {INTERVAL, MaxManual, MaxTrouble} \subseteq Nat
    /\ {"concern", "request"} \subseteq Kinds /\ CAP \in [Kinds -> Nat]
    /\ "stage_s" \notin Kinds    \* the code gives it a cap that is never reached, 9999
    /\ IsFiniteSet(Kinds) /\ IsFiniteSet(Targets)

VARIABLES
    sweeps,    \* the sweep of each cycle
    log,       \* log[a]: the actions logged a ticks ago, each with how often, a < DAY
    busy,      \* how many ticks ago actions were logged, in the last month
    applied,   \* applied[a]: how many actions of each kind were applied a ticks ago
    acted,     \* the last sweep that ended had an action applied
    rested,    \* ticks since last_run_at
    unlogged,  \* a sweep is missing from the log
    spent      \* how much of each bound is used

vars == <<sweeps, log, busy, applied, acted, rested, unlogged, spent>>

Cycles == {"interval", "manual"}

\* What the forced concern is about changes from day to day; a refusal before the
\* cooldown is looked at names no target.
Forced == "forced"
Unnamed == "unnamed"
Acts == [kind : Kinds, target : Targets \cup {Forced, Unnamed}]
     \cup {[kind |-> "stage_s", target |-> Unnamed]}

Nothing == [a \in Acts |-> 0]
Resting == [step |-> "idle", forced |-> FALSE, done |-> Nothing, applied |-> FALSE]

Total(f) == FoldFunction(LAMBDA x, y : x + y, 0, f)
Plus(f, g) == [x \in DOMAIN f |-> f[x] + g[x]]

Begin(c) ==
    /\ sweeps[c] = Resting /\ rested = INTERVAL
    /\ IF c = "interval" THEN UNCHANGED spent
       ELSE spent.manual < MaxManual /\ spent' = [spent EXCEPT !.manual = @ + 1]
    \* days_since_last_action takes the first entry of the month, the oldest.
    /\ sweeps' = [sweeps EXCEPT ![c] = [Resting EXCEPT
           !.step = "asking", !.forced = busy = {} \/ Max(busy) >= WEEK]]
    /\ UNCHANGED <<log, busy, applied, acted, rested, unlogged>>

\* No answer, or none that can be read.
NoAnswer(c) ==
    /\ sweeps[c].step = "asking"
    /\ sweeps' = [sweeps EXCEPT ![c] = Resting]
    /\ rested' = 0
    /\ UNCHANGED <<log, busy, applied, acted, unlogged, spent>>

Answer(c) ==
    /\ sweeps[c].step = "asking"
    /\ sweeps' = [sweeps EXCEPT ![c].step = "acting"]
    /\ UNCHANGED <<log, busy, applied, acted, rested, unlogged, spent>>

-----------------------------------------------------------------------------

Logged(kind) ==
    Total([a \in 0..(DAY - 1) |-> Total([t \in Targets \cup {Forced, Unnamed} |->
                                            log[a][[kind |-> kind, target |-> t]]])])

\* Mutant of Capped: one too many.
CappedLate(kind) == Logged(kind) > CAP[kind]

\* can_do_action
Capped(kind) == Logged(kind) >= CAP[kind]

\* same_target_recently_acted
Cooled(kind, target) ==
    \E a \in 0..(DAY - 1) : log[a][[kind |-> kind, target |-> target]] > 0

\* execute_action, with the outcome and what the log will say of it.  A text that looks
\* injected or is empty is refused as a cap refuses; a duplicate, or a write that fails,
\* as a cooldown does.
Executed(kind, target, outcome, act) ==
    IF Capped(kind)
    THEN ~outcome /\ act = [kind |-> kind, target |-> Unnamed]
    ELSE \/ ~outcome /\ act = [kind |-> kind, target |-> Unnamed]
         \/ /\ target # Forced => (Cooled(kind, target) => ~outcome)
            /\ act = [kind |-> kind, target |-> target]

Does(c, act, outcome) ==
    /\ sweeps' = [sweeps EXCEPT ![c].done[act] = @ + 1,
                                ![c].applied = @ \/ outcome]
    /\ applied' = IF outcome /\ act.kind \in Kinds
                  THEN [applied EXCEPT ![0][act.kind] = @ + 1] ELSE applied
    /\ UNCHANGED <<log, busy, acted, rested, unlogged, spent>>

Act(c) ==
    /\ sweeps[c].step = "acting" /\ Total(sweeps[c].done) < PER_SWEEP
    /\ \/ \E kind \in Kinds, target \in Targets, outcome \in BOOLEAN, act \in Acts :
            Executed(kind, target, outcome, act) /\ Does(c, act, outcome)
       \/ Does(c, [kind |-> "stage_s", target |-> Unnamed], TRUE)

\* The no-action break: a concern, and when there is room neither for it nor for an
\* improvement request, stage S.
Force(c) ==
    LET needed == sweeps[c].forced /\ ~sweeps[c].applied
    IN  /\ sweeps[c].step = "acting" /\ needed
        /\ \E outcome \in BOOLEAN, act \in Acts :
             \* the safeguard's own text is fine: it is refused by its cap or by the
             \* concern of an earlier sweep of that day
             /\ Executed("concern", Forced, outcome, act)
             /\ ~outcome => Capped("concern") \/ (Cooled("concern", Forced) /\ act.target = Forced)
             /\ LET full == ~outcome /\ Capped("concern") /\ Capped("request")
                    extra == [kind |-> "stage_s", target |-> Unnamed]
                IN  /\ sweeps' = [sweeps EXCEPT
                           ![c].step = "ending", ![c].applied = outcome \/ full,
                           ![c].done = [a \in Acts |-> sweeps[c].done[a]
                                           + (IF a = act THEN 1 ELSE 0)
                                           + (IF full /\ a = extra THEN 1 ELSE 0)]]
                    /\ applied' = IF outcome THEN [applied EXCEPT ![0]["concern"] = @ + 1]
                                  ELSE applied
        /\ UNCHANGED <<log, busy, acted, rested, unlogged, spent>>

\* append_sweep_entry (a failure is only logged) and _touch_sweep_state.
End(c) ==
    /\ \/ sweeps[c].step = "acting" /\ ~(sweeps[c].forced /\ ~sweeps[c].applied)
       \/ sweeps[c].step = "ending"
    /\ \/ /\ log' = [log EXCEPT ![0] = Plus(@, sweeps[c].done)]
          /\ busy' = IF sweeps[c].done = Nothing THEN busy ELSE busy \cup {0}
          /\ UNCHANGED <<unlogged, spent>>
       \/ /\ spent.trouble < MaxTrouble /\ spent' = [spent EXCEPT !.trouble = @ + 1]
          /\ unlogged' = TRUE
          /\ UNCHANGED <<log, busy>>
    /\ sweeps' = [sweeps EXCEPT ![c] = Resting]
    /\ acted' = sweeps[c].applied
    /\ rested' = 0
    /\ UNCHANGED applied

\* Actions take no time to speak of, the agent's answer does.
Tick ==
    /\ \A c \in Cycles : sweeps[c].step \in {"idle", "asking"}
    /\ log' = [a \in DOMAIN log |-> IF a = 0 THEN Nothing ELSE log[a - 1]]
    /\ busy' = {a + 1 : a \in busy} \ {MONTH}
    /\ applied' = [a \in DOMAIN applied |-> IF a = 0 THEN [k \in Kinds |-> 0]
                                            ELSE applied[a - 1]]
    /\ rested' = IF rested < INTERVAL THEN rested + 1 ELSE rested
    /\ UNCHANGED <<sweeps, acted, unlogged, spent>>

Init ==
    /\ sweeps = [c \in Cycles |-> Resting]
    /\ log = [a \in 0..(DAY - 1) |-> Nothing] /\ busy = {}
    /\ applied = [a \in 0..(DAY - 1) |-> [k \in Kinds |-> 0]]
    /\ acted = FALSE /\ rested = INTERVAL /\ unlogged = FALSE
    /\ spent = [manual |-> 0, trouble |-> 0]

Sweep(c) == Begin(c) \/ NoAnswer(c) \/ Answer(c) \/ Act(c) \/ Force(c) \/ End(c)

Next == Tick \/ \E c \in Cycles : Sweep(c)

Spec == Init /\ [][Next]_vars

\* Time passes, the loop goes on, and its questions are answered from time to time.
Fairness ==
    /\ WF_vars(Tick) /\ WF_vars(Sweep("interval"))
    /\ SF_vars(Answer("interval"))
FairSpec == Spec /\ Fairness

-----------------------------------------------------------------------------

TypeOK ==
    /\ \A c \in Cycles : /\ sweeps[c].step \in {"idle", "asking", "acting", "ending"}
                         /\ sweeps[c].done \in [Acts -> Nat]
    /\ log \in [0..(DAY - 1) -> [Acts -> Nat]] /\ busy \subseteq 0..(MONTH - 1)
    /\ applied \in [0..(DAY - 1) -> [Kinds -> Nat]]
    /\ {acted, unlogged} \subseteq BOOLEAN /\ rested \in 0..INTERVAL
    /\ spent \in [manual : 0..MaxManual, trouble : 0..MaxTrouble]

Applied(kind) == Total([a \in DOMAIN applied |-> applied[a][kind]])

\* What is applied of a kind in a day goes over its cap by no more than what the sweeps
\* in flight do, which are not in the log yet (the break acts only if nothing else did), as long as every sweep is logged.
CapsNearlyKept ==
    unlogged \/ \A kind \in Kinds :
        Applied(kind) <= CAP[kind] - 1 + Cardinality(Cycles) * PER_SWEEP

\* The module's docstring: "Hard caps (per 24h ...)".
DailyCapsKept == \A kind \in Kinds : Applied(kind) <= CAP[kind]

\* The no-action break: sweeps do not stay without an applied action for good.
SilenceBroken == []<>acted
=============================================================================
