------------------------------ MODULE Curation ------------------------------
(***************************************************************************)
(* Sagwan's curation cycle and the budget of LLM calls its stages share.   *)
(* A loop runs one cycle per interval and an admin may start another one   *)
(* beside it.  The stages run in a fixed order; each call checks the       *)
(* hourly cap, waits for the answer and is recorded only then.  Stage C,   *)
(* the revalidation of published notes, is modelled note by note; the      *)
(* stages before and after it only by the calls they make.                 *)
(***************************************************************************)
EXTENDS Naturals, FiniteSets, SequencesExt

CONSTANTS
    NOTES,      \* capsules and claims are the paths 1..NOTES, in listing order
    CAP,        \* llm_call_hourly_cap, 50 in the code
    HOUR,       \* ticks in the hour the cap is about
    DAY,        \* ticks for which a validated note is left alone, 24 hours
    INTERVAL,   \* ticks the loop sleeps between two cycles
    PER_CYCLE,  \* notes one cycle revalidates, 5 in the code
    BEFORE,     \* bound: calls of the stages before C in a cycle
    AFTER,      \* bound: calls of the stages after C in a cycle
    MaxManual,  \* bound: cycles an admin ever starts
    MaxTrouble  \* bound: failed calls, failed writes and withdrawals together

BoundsAssumption ==
    /\ {NOTES, CAP, HOUR, DAY, PER_CYCLE} \subseteq Nat \ {0}
    /\ {INTERVAL, BEFORE, AFTER, MaxManual, MaxTrouble} \subseteq Nat

VARIABLES
    runs,      \* the cycle of the loop and the one of the admin
    recorded,  \* recorded[a]: calls recorded a ticks ago, as long as a < HOUR
    notes,     \* frontmatter of each note
    order,     \* the notes by their validation anchor, the oldest first
    verdicts,  \* verdicts[n][a]: validations of n stamped a ticks ago, a < DAY
    slept,     \* ticks the loop has slept since its last cycle
    spent      \* how much of each bound is used

vars == <<runs, recorded, notes, order, verdicts, slept, spent>>

Runs == {"interval", "manual"}
Paths == 1..NOTES
Answers == {"ok", "stale", "refresh"}

\* age is the time since last_validated_at, up to DAY; "judged" tells whether the last
\* stamp came with an answer of the LLM (it is not in the frontmatter).
Note == [published : BOOLEAN, age : 0..DAY, stale : BOOLEAN, judged : BOOLEAN]

Resting == [stage |-> "none", step |-> "idle", calls |-> 0, targets |-> << >>,
            copy |-> [published |-> TRUE, age |-> DAY, stale |-> FALSE, judged |-> TRUE]]

Sum(f) == FoldFunction(LAMBDA x, y : x + y, 0, f)

TroubleLeft == spent.trouble < MaxTrouble
Trouble == spent' = [spent EXCEPT !.trouble = @ + 1]

-----------------------------------------------------------------------------

\* Mutant of MayCall: one call too many.
MayCallOnce == Sum(recorded) <= CAP

\* load_sagwan_settings and _recent_llm_calls: a call is checked against what is
\* recorded; calls that wait for their answer are not.
MayCall == Sum(recorded) < CAP

Record == recorded' = [recorded EXCEPT ![0] = @ + 1]

\* Mutant of Due: the stamp is not looked at.
DueAlways(n) == notes[n].published

Due(n) == notes[n].published /\ notes[n].age = DAY

\* The targets of stage C: due notes by age of their stamp, at most PER_CYCLE of them.
Targets ==
    FoldLeft(LAMBDA chosen, n : IF Due(n) /\ Len(chosen) < PER_CYCLE THEN Append(chosen, n)
                                ELSE chosen,
             << >>, order)

\* The order after a stamp of n: no other stamp is younger.
Restamped(n) ==
    LET i == CHOOSE i \in DOMAIN order : order[i] = n
    IN  Append(RemoveAt(order, i), n)

GoTo(r, stage) ==
    runs' = [runs EXCEPT ![r] = [Resting EXCEPT !.stage = stage, !.step = "free"]]

Start(r) ==
    /\ runs[r] = Resting
    /\ IF r = "interval"
       THEN slept >= INTERVAL /\ UNCHANGED spent
       ELSE spent.manual < MaxManual /\ spent' = [spent EXCEPT !.manual = @ + 1]
    /\ GoTo(r, "before")
    /\ UNCHANGED <<recorded, notes, order, verdicts, slept>>

\* A stage other than C asks the LLM: _invoke_for_stage up to the call itself.  A
\* stage over the cap is given up, whatever it would have done next.
Ask(r) ==
    /\ runs[r].step = "free" /\ runs[r].stage \in {"before", "after"}
    /\ runs[r].calls < (IF runs[r].stage = "before" THEN BEFORE ELSE AFTER)
    /\ MayCall
    /\ runs' = [runs EXCEPT ![r].step = "waiting", ![r].calls = @ + 1]
    /\ UNCHANGED <<recorded, notes, order, verdicts, slept, spent>>

Answered(r) ==
    /\ runs[r].step = "waiting" /\ runs[r].stage \in {"before", "after"}
    /\ Record
    /\ runs' = [runs EXCEPT ![r].step = "free"]
    /\ UNCHANGED <<notes, order, verdicts, slept, spent>>

\* A stage ends: it is done, over the cap, or it raised; run_sagwan_curation_cycle
\* catches that and goes on with the next stage.
EndBefore(r) ==
    /\ runs[r].step = "free" /\ runs[r].stage = "before"
    /\ runs' = [runs EXCEPT ![r] = [Resting EXCEPT !.stage = "revalidate", !.step = "free",
                                                   !.targets = Targets]]
    /\ UNCHANGED <<recorded, notes, order, verdicts, slept, spent>>

EndAfter(r) ==
    /\ runs[r].step = "free" /\ runs[r].stage = "after"
    /\ runs' = [runs EXCEPT ![r] = Resting]
    /\ slept' = IF r = "interval" THEN 0 ELSE slept
    /\ UNCHANGED <<recorded, notes, order, verdicts, spent>>

\* Stage C loads the next target, whatever became of it since it was chosen, and asks.
Revalidate(r) ==
    /\ runs[r].step = "free" /\ runs[r].stage = "revalidate"
    /\ IF runs[r].targets = << >> \/ ~MayCall
       THEN GoTo(r, "after")
       ELSE runs' = [runs EXCEPT ![r].step = "waiting",
                                 ![r].copy = notes[Head(runs[r].targets)]]
    /\ UNCHANGED <<recorded, notes, order, verdicts, slept, spent>>

\* _parse_revalidation_response: an answer that is no verdict, the text of an error
\* among them, reads as "ok".
Verdict(answer) == IF answer = "error" THEN "ok" ELSE answer

\* Mutant of Judged: only a note that is fine is stamped.
JudgedIfOk(copy, answer) ==
    [copy EXCEPT !.age = IF Verdict(answer) = "ok" THEN 0 ELSE @,
                 !.stale = Verdict(answer) = "stale", !.judged = answer # "error"]

\* The copy loaded before the call with the verdict in it.  write_document merges it
\* whole over the note, then a review is posted and a section appended.
Judged(copy, answer) ==
    [copy EXCEPT !.age = 0,
                 !.stale = (Verdict(answer) = "stale") \/ (@ /\ Verdict(answer) = "refresh"),
                 !.judged = answer # "error"]

Judge(r, answer) ==
    LET n == Head(runs[r].targets)
    IN  /\ runs[r].step = "waiting" /\ runs[r].stage = "revalidate"
        /\ Record
        /\ IF answer = "error" THEN TroubleLeft /\ Trouble ELSE UNCHANGED spent
        /\ notes' = [notes EXCEPT ![n] = Judged(runs[r].copy, answer)]
        /\ order' = Restamped(n)
        /\ verdicts' = [verdicts EXCEPT ![n][0] = @ + 1]
        /\ runs' = [runs EXCEPT ![r].step = "free", ![r].targets = Tail(@)]
        /\ UNCHANGED slept

\* A write that fails is logged and the next target is taken; an append that fails
\* ends the stage (here without the write, which is the harder case).
JudgeFails(r) ==
    /\ runs[r].step = "waiting" /\ runs[r].stage = "revalidate"
    /\ TroubleLeft /\ Trouble
    /\ Record
    /\ \/ runs' = [runs EXCEPT ![r].step = "free", ![r].targets = Tail(@)]
       \/ GoTo(r, "after")
    /\ UNCHANGED <<notes, order, verdicts, slept>>

Withdraw(n) ==
    /\ TroubleLeft /\ notes[n].published
    /\ notes' = [notes EXCEPT ![n].published = FALSE]
    /\ Trouble
    /\ UNCHANGED <<runs, recorded, order, verdicts, slept>>

\* Mutant of Shifted: what has just left the window is kept.
ShiftedKept(f, width) == [a \in 0..width |-> IF a = 0 THEN 0 ELSE f[a - 1]]

\* Ages grow; what is older than the window is forgotten.
Shifted(f, width) == [a \in 0..(width - 1) |-> IF a = 0 THEN 0 ELSE f[a - 1]]

Tick ==
    /\ recorded' = Shifted(recorded, HOUR)
    /\ verdicts' = [n \in Paths |-> Shifted(verdicts[n], DAY)]
    /\ notes' = [n \in Paths |-> [notes[n] EXCEPT !.age = IF @ < DAY THEN @ + 1 ELSE @]]
    /\ slept' = IF slept < INTERVAL THEN slept + 1 ELSE slept
    /\ UNCHANGED <<runs, order, spent>>

\* The history of calls is only in memory, and so are the cycles.
Restart ==
    /\ TroubleLeft /\ Trouble
    /\ runs' = [r \in Runs |-> Resting]
    /\ recorded' = [a \in 0..(HOUR - 1) |-> 0]
    /\ slept' = INTERVAL
    /\ UNCHANGED <<notes, order, verdicts>>

Init ==
    /\ runs = [r \in Runs |-> Resting]
    /\ recorded = [a \in 0..(HOUR - 1) |-> 0]
    /\ notes = [n \in Paths |-> [published |-> TRUE, age |-> DAY, stale |-> FALSE,
                                 judged |-> TRUE]]
    /\ order = [n \in Paths |-> n]
    /\ verdicts = [n \in Paths |-> [a \in 0..(DAY - 1) |-> 0]]
    /\ slept = INTERVAL
    /\ spent = [manual |-> 0, trouble |-> 0]

Step(r) ==
    \/ Start(r) \/ Ask(r) \/ Answered(r) \/ EndBefore(r) \/ EndAfter(r)
    \/ Revalidate(r) \/ JudgeFails(r)
    \/ \E answer \in Answers \cup {"error"} : Judge(r, answer)

Next ==
    \/ \E r \in Runs : Step(r)
    \/ \E n \in Paths : Withdraw(n)
    \/ Tick
    \/ Restart

Spec == Init /\ [][Next]_vars

\* The loop goes on and its calls are answered (they have timeouts); time passes.
Fairness == WF_vars(Step("interval")) /\ WF_vars(Tick)
FairSpec == Spec /\ Fairness

-----------------------------------------------------------------------------

TypeOK ==
    /\ \A r \in Runs :
         /\ runs[r].stage \in {"none", "before", "revalidate", "after"}
         /\ runs[r].step \in {"idle", "free", "waiting"}
         /\ runs[r].calls \in Nat
         /\ runs[r].targets \in Seq(Paths)
         /\ runs[r].copy \in Note
    /\ recorded \in [0..(HOUR - 1) -> Nat]
    /\ notes \in [Paths -> Note]
    /\ order \in [Paths -> Paths] /\ IsInjective(order)
    /\ verdicts \in [Paths -> [0..(DAY - 1) -> Nat]]
    /\ slept \in 0..INTERVAL
    /\ spent \in [manual : 0..MaxManual, trouble : 0..MaxTrouble]

\* The cap is checked before a call and the call recorded after it, so concurrent
\* cycles can go over it, but by no more than one call for each other cycle.
BudgetKept == Sum(recorded) <= CAP + Cardinality(Runs) - 1

\* No note is validated more often in a day than there are cycles that may have chosen
\* it while it was due: the stamp one of them writes keeps all later cycles away.
RevalidatedSparingly == \A n \in Paths : Sum(verdicts[n]) <= Cardinality(Runs)

\* A note that stays published is validated again and again: the oldest stamp goes
\* first, and the stages before C cannot use up the hour's budget.
EveryNoteRevalidated ==
    \A n \in Paths : []<>(notes[n].age < DAY \/ ~notes[n].published)

\* What the comment at _parse_revalidation_response says: after a call that failed the
\* note is left as not validated.
FailedCallValidatesNothing == \A n \in Paths : notes[n].judged
=============================================================================
