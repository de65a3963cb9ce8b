------------------------------ MODULE SelfEdits ------------------------------
(***************************************************************************)
(* Stage S: the agent edits its own operating notes.  The stage may run in *)
(* two cycles at once, asks the LLM for one edit, and a gate applies it    *)
(* under a lock: one edit a day of a note, a few of a class of notes, each *)
(* recorded in a history from which those limits are counted.  After some  *)
(* cycles without a change the policy is written past the gate.            *)
(***************************************************************************)
EXTENDS Naturals, FiniteSets

CONSTANTS
    Paths,        \* operating notes
    Policy,       \* the one that is written past the gate
    Class,        \* class of each note: profile, policy, playbooks or readme
    CLASS_LIMIT,  \* edits of a class in a day: 1, 2, 4, 1
    DAY,          \* ticks for which the history counts, 24 hours
    INTERVAL,     \* ticks between two runs of the stage, 12 hours
    NO_CHANGE,    \* runs without a change before the policy is written, 3 in the code
    MaxEdits,     \* bound: edits of a note
    MaxTrouble    \* bound: runs that are forced, failed appends

ASSUME SelfEditBounds ==
    /\ {DAY, INTERVAL, NO_CHANGE} \subseteq Nat \ {0}
    /\ {MaxEdits, MaxTrouble} \subseteq Nat
    /\ Policy \in Paths /\ \A p \in Paths : CLASS_LIMIT[Class[p]] \in Nat

VARIABLES
    runs,      \* the stage in each cycle
    history,   \* the edits recorded in the last day
    texts,     \* which of its edits each note shows
    made,      \* how many edits each note has had
    unlogged,  \* notes with an edit of which there is no record
    rested,    \* ticks since last_run_at
    unchanged, \* consecutive_no_change
    spent      \* how much of MaxTrouble is used

vars == <<runs, history, texts, made, unlogged, rested, unchanged, spent>>

Cycles == {"interval", "manual"}
Run == [step : {"idle", "asking", "loaded", "forcing"}, path : Paths, text : SUBSET (1..MaxEdits),
        unchanged : 0..NO_CHANGE]
Idle == [step |-> "idle", path |-> Policy, text |-> {}, unchanged |-> 0]
TroubleLeft == spent < MaxTrouble
Trouble == spent' = spent + 1

\* The stage runs when it has rested, or when a sweep or the health check forces it; it
\* reads the count of runs without a change and asks.
Ask(c, forced) ==
    /\ runs[c] = Idle
    /\ IF forced THEN TroubleLeft /\ Trouble ELSE rested = INTERVAL /\ UNCHANGED spent
    /\ runs' = [runs EXCEPT ![c] = [Idle EXCEPT !.step = "asking", !.unchanged = unchanged]]
    /\ UNCHANGED <<history, texts, made, unlogged, rested, unchanged>>

\* Over the budget, or no answer: nothing is noted, so the next cycle asks again.
NoAnswer(c) ==
    /\ runs[c].step = "asking"
    /\ runs' = [runs EXCEPT ![c] = Idle]
    /\ UNCHANGED <<history, texts, made, unlogged, rested, unchanged, spent>>

\* _touch_self_improve_state, as the last step of a run.
Ends(c, changes) ==
    /\ runs' = [runs EXCEPT ![c] = Idle]
    /\ rested' = 0
    /\ unchanged' = IF changes THEN 0
                    ELSE IF unchanged < NO_CHANGE THEN unchanged + 1 ELSE unchanged

\* "needs_change" is false.
Declines(c) ==
    /\ runs[c].step = "asking"
    /\ IF runs[c].unchanged + 1 >= NO_CHANGE
       THEN /\ runs' = [runs EXCEPT ![c].step = "forcing", ![c].text = texts[Policy]]
            /\ UNCHANGED <<rested, unchanged>>
       ELSE Ends(c, FALSE)
    /\ UNCHANGED <<history, texts, made, unlogged, spent>>

\* _force_write_policy_distilled_carryover writes what it has loaded with its own section.
WritePolicy(c) ==
    /\ runs[c].step = "forcing"
    /\ texts' = [texts EXCEPT ![Policy] = runs[c].text]
    /\ Ends(c, TRUE)
    /\ UNCHANGED <<history, made, unlogged, spent>>

\* An answer that is malformed, or that the gate refuses by what it says: a path outside
\* the allowlist, a section that is missing, a risk that is not low (that becomes a
\* request for a human).
Refused(c) ==
    /\ runs[c].step = "asking"
    /\ Ends(c, TRUE)
    /\ UNCHANGED <<history, texts, made, unlogged, spent>>

\* attempt_self_edit loads the note and computes its next body outside the lock.
Propose(c, p) ==
    /\ runs[c].step = "asking"
    /\ runs' = [runs EXCEPT ![c].step = "loaded", ![c].path = p, ![c].text = texts[p]]
    /\ UNCHANGED <<history, texts, made, unlogged, rested, unchanged, spent>>

OfClass(p) == {e \in history : Class[e.path] = Class[p]}

\* Mutant of Limited: the limit of the class alone.
LimitedByClass(p) == Cardinality(OfClass(p)) >= CLASS_LIMIT[Class[p]]

Limited(p) ==
    \/ \E e \in history : e.path = p
    \/ Cardinality(OfClass(p)) >= CLASS_LIMIT[Class[p]]

\* Under the lock: the limits are counted, the note written, and the edit recorded.  A
\* write that fails is a refusal, an append that fails is only logged.
Apply(c, recorded) ==
    LET p == runs[c].path
        n == made[p] + 1
    IN  /\ runs[c].step = "loaded"
        /\ IF Limited(p)
           THEN recorded /\ UNCHANGED <<history, texts, made, unlogged, spent>>
           ELSE /\ n <= MaxEdits
                /\ texts' = [texts EXCEPT ![p] = runs[c].text \cup {n}]
                /\ made' = [made EXCEPT ![p] = n]
                /\ IF recorded
                   THEN /\ history' = history \cup {[path |-> p, edit |-> n, age |-> 0]}
                        /\ UNCHANGED <<unlogged, spent>>
                   ELSE /\ TroubleLeft /\ Trouble
                        /\ unlogged' = unlogged \cup {p}
                        /\ UNCHANGED history
        /\ Ends(c, TRUE)

\* Mutant of Aged: what is a day old still counts.
AgedKept(some) == {[e EXCEPT !.age = @ + 1] : e \in some}

Aged(some) == {[e EXCEPT !.age = @ + 1] : e \in {e \in some : e.age + 1 < DAY}}

\* No time passes between the load and the write of an edit.
Tick ==
    /\ \A c \in Cycles : runs[c].step \in {"idle", "asking"}
    /\ history' = Aged(history)
    /\ rested' = IF rested < INTERVAL THEN rested + 1 ELSE rested
    /\ UNCHANGED <<runs, texts, made, unlogged, unchanged, spent>>

Init ==
    /\ runs = [c \in Cycles |-> Idle]
    /\ history = {}
    /\ texts = [p \in Paths |-> {}]
    /\ made = [p \in Paths |-> 0]
    /\ unlogged = {} /\ rested = INTERVAL /\ unchanged = 0 /\ spent = 0

Step(c) ==
    \/ \E forced \in BOOLEAN : Ask(c, forced)
    \/ NoAnswer(c) \/ Declines(c) \/ WritePolicy(c) \/ Refused(c)
    \/ \E p \in Paths : Propose(c, p)
    \/ \E recorded \in BOOLEAN : Apply(c, recorded)

Next == Tick \/ \E c \in Cycles : Step(c)

Spec == Init /\ [][Next]_vars

-----------------------------------------------------------------------------

TypeOK ==
    /\ runs \in [Cycles -> Run]
    /\ history \subseteq [path : Paths, edit : 1..MaxEdits, age : 0..(DAY - 1)]
    /\ texts \in [Paths -> SUBSET (1..MaxEdits)]
    /\ made \in [Paths -> 0..MaxEdits]
    /\ unlogged \subseteq Paths
    /\ rested \in 0..INTERVAL /\ unchanged \in 0..NO_CHANGE /\ spent \in 0..MaxTrouble

\* The note is loaded outside the lock and written whole inside it, so it is the limit of
\* one edit a day that keeps two runs from undoing each other's edit: as long as the
\* history has every edit, no edit of a note is lost, but for the policy, which is also
\* written past the gate.
EditsSurvive == \A p \in Paths \ (unlogged \cup {Policy}) : texts[p] = 1..made[p]
=============================================================================
