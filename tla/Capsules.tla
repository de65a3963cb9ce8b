------------------------------ MODULE Capsules ------------------------------
(***************************************************************************)
(* The capsules that Sagwan writes by itself.  Stage E turns a seed note   *)
(* into a capsule; stage K picks a topic the vault knows too little about, *)
(* passes it through four guards against duplicates, researches it on the  *)
(* web and decides whether to publish what it wrote.  The loop, the task   *)
(* worker and an admin may each run either stage while another one waits   *)
(* for an LLM.  A capsule's path comes from its title alone.               *)
(***************************************************************************)
EXTENDS Naturals, FiniteSets

CONSTANTS
    SEEDS,      \* seed notes are 1..SEEDS, in the order they are found
    Titles,     \* titles of capsules, which are their paths
    Topics,     \* what a capsule is about
    About,      \* About[t]: the topic of title t
    Named,      \* Named[s]: the title made from the title of seed s
    Runs,       \* who may be running a stage
    MaxTrouble, \* bound: answers that are errors and writes that fail
    MaxEvents   \* bound: edits, approvals and consolidations from outside

\* What an instance assumes of the constants.
Bounds ==
    /\ SEEDS \in Nat \ {0}
    /\ IsFiniteSet(Runs)
    /\ {MaxTrouble, MaxEvents} \subseteq Nat
    /\ About \in [Titles -> Topics]
    /\ Named \in [1..SEEDS -> Titles]

VARIABLES
    seeds,    \* whether each seed is marked as used
    used,     \* how many capsules were generated from each seed
    capsules, \* the capsule at each path
    recent,   \* topics of the research log's last days
    cycled,   \* these, and older topics of its last cycles
    cooling,  \* whether last_run_at of the log is within the interval
    runs,     \* what each run is doing
    spent     \* how much of each bound is used

vars == <<seeds, used, capsules, recent, cycled, cooling, runs, spent>>

logVars == <<recent, cycled, cooling>>

Seeds == 1..SEEDS

\* maker is generated_by, "sagwan" or "sagwan-research".
Absent == [maker |-> "nobody", live |-> FALSE, published |-> FALSE]

Exists(t) == capsules[t] # Absent

Idle == [step |-> "idle", seed |-> 1, title |-> CHOOSE t \in Titles : TRUE,
         seen |-> {}, before |-> {}, restricted |-> FALSE]

InTrouble ==
    /\ spent.trouble < MaxTrouble
    /\ spent' = [spent EXCEPT !.trouble = @ + 1]

Outside ==
    /\ spent.events < MaxEvents
    /\ spent' = [spent EXCEPT !.events = @ + 1]

-----------------------------------------------------------------------------
(* Stage E *)

\* Mutant of NextSeed: the mark is not looked at.
AnySeed(s) == s \in Seeds

\* _find_capsule_seed: the first seed that is not marked.
NextSeed(s) == ~seeds[s] /\ \A earlier \in 1..(s - 1) : seeds[earlier]

Generate(r, s) ==
    /\ runs[r] = Idle
    /\ NextSeed(s)
    /\ runs' = [runs EXCEPT ![r].step = "generating", ![r].seed = s]
    /\ UNCHANGED <<seeds, used, capsules, logVars, spent>>

\* write_document merges: a capsule that is already at the path keeps the marks this one
\* does not mention, and is private again.
Generated(t) ==
    [capsules[t] EXCEPT !.maker = "sagwan", !.published = FALSE,
                        !.live = IF Exists(t) THEN @ ELSE TRUE]

WriteGenerated(r) ==
    /\ runs[r].step = "generating"
    /\ capsules' = [capsules EXCEPT ![Named[runs[r].seed]] = Generated(Named[runs[r].seed])]
    /\ used' = [used EXCEPT ![runs[r].seed] = @ + 1]
    /\ runs' = [runs EXCEPT ![r].step = "marking"]
    /\ UNCHANGED <<seeds, logVars, spent>>

GenerateFails(r) ==
    /\ runs[r].step = "generating"
    /\ InTrouble
    /\ runs' = [runs EXCEPT ![r] = Idle]
    /\ UNCHANGED <<seeds, used, capsules, logVars>>

\* The seed is written back with its mark; an error here is ignored.
MarkSeed(r) ==
    /\ runs[r].step = "marking"
    /\ \/ seeds' = [seeds EXCEPT ![runs[r].seed] = TRUE] /\ UNCHANGED spent
       \/ InTrouble /\ UNCHANGED seeds
    /\ runs' = [runs EXCEPT ![r] = Idle]
    /\ UNCHANGED <<used, capsules, logVars>>

-----------------------------------------------------------------------------
(* Stage K *)

\* _append_research_log_entry and _touch_research_state
LogTopic(topic) ==
    recent' = recent \cup {topic} /\ cycled' = cycled \cup {topic} /\ cooling' = TRUE

\* _capsule_is_live, and the capsules _capsule_inventory_for_gap lists: only live ones.
Live(t) == capsules[t].live
Covered(topic) == \E t \in Titles : Live(t) /\ About[t] = topic

\* The comparison with the notes that a search finds: it never sees a retired capsule, and
\* whether it sees a live one is up to the search.
SemanticDuplicate(topic, found) == found /\ Covered(topic)

\* An admin's request ignores the interval.
StartResearch(r, force) ==
    /\ runs[r] = Idle
    /\ cooling => force
    /\ runs' = [runs EXCEPT ![r].step = "selecting", ![r].seen = recent,
                           ![r].before = cycled \ recent]
    /\ UNCHANGED <<seeds, used, capsules, logVars, spent>>

\* Topics as they were read at the start: of the last days, and older ones of the last cycles.
LatelyResearched(r, topic) == topic \in runs[r].seen
InCooldown(r, topic) == topic \in runs[r].before

\* The LLM selects a topic and a title.  A topic of the last days ends the run without a
\* trace; one of the last cycles, or one that looks like a capsule of the vault, is logged.
Select(r, t, found) ==
    LET topic == About[t]
    IN  /\ runs[r].step = "selecting"
        /\ \/ /\ LatelyResearched(r, topic)
              /\ runs' = [runs EXCEPT ![r] = Idle]
              /\ UNCHANGED logVars
           \/ /\ ~LatelyResearched(r, topic)
              /\ InCooldown(r, topic) \/ SemanticDuplicate(topic, found)
              /\ LogTopic(topic)
              /\ runs' = [runs EXCEPT ![r] = Idle]
           \/ /\ ~LatelyResearched(r, topic)
              /\ ~InCooldown(r, topic) /\ ~SemanticDuplicate(topic, found)
              /\ runs' = [runs EXCEPT ![r].step = "comparing", ![r].title = t,
                                     ![r].seen = {}, ![r].before = {}]
              /\ UNCHANGED logVars
        /\ UNCHANGED <<seeds, used, capsules, spent>>

\* The call fails, or its answer names no topic or no query to search for.
NoTopic(r) ==
    /\ runs[r].step = "selecting"
    /\ InTrouble
    /\ runs' = [runs EXCEPT ![r] = Idle]
    /\ UNCHANGED <<seeds, used, capsules, logVars>>

\* Mutant of HardDuplicate: only the LLM compares.
NoHardDuplicate(topic) == topic \notin Topics

HardDuplicate(topic) == Covered(topic)

\* _parse_dedup_decision: an answer that cannot be read, or a call that failed, lets the
\* topic pass.
Verdict(answer) == IF answer = "unreadable" THEN "proceed" ELSE answer

\* The LLM compares with what is there: it may skip the topic, replace it (refine) or add
\* to a capsule (supplement).  Then the hard guard compares terms with the live capsules.
Compare(r, answer, t) ==
    LET verdict == Verdict(answer)
        title == IF verdict = "refine" THEN t ELSE runs[r].title
    IN  /\ runs[r].step = "comparing"
        /\ IF verdict = "skip" \/ HardDuplicate(About[title])
           THEN /\ LogTopic(About[IF verdict = "skip" THEN runs[r].title ELSE title])
                /\ runs' = [runs EXCEPT ![r] = Idle]
           ELSE /\ runs' = [runs EXCEPT ![r].step = "researching", ![r].title = title]
                /\ UNCHANGED logVars
        /\ UNCHANGED <<seeds, used, capsules, spent>>

\* The research, with evidence of StackOverflow (restricted by its license) or without;
\* a second attempt for lack of sources does not lift the restriction.
Research(r, restricted) ==
    /\ runs[r].step = "researching"
    /\ runs' = [runs EXCEPT ![r].step = "judging", ![r].restricted = restricted]
    /\ UNCHANGED <<seeds, used, capsules, logVars, spent>>

\* An error, an unusable answer or the hourly cap ends the run without a trace.
ResearchFails(r) ==
    /\ runs[r].step = "researching"
    /\ InTrouble
    /\ runs' = [runs EXCEPT ![r] = Idle]
    /\ UNCHANGED <<seeds, used, capsules, logVars>>

\* The judge's decision, overruled by the patterns of secrets and by the license.
MayPublish(run, judged, secret) == judged /\ ~secret /\ ~run.restricted

Researched(t, published) ==
    [capsules[t] EXCEPT !.maker = "sagwan-research", !.published = published,
                        !.live = IF Exists(t) THEN @ ELSE TRUE]

WriteResearched(r, judged, secret) ==
    LET t == runs[r].title
    IN  /\ runs[r].step = "judging"
        /\ capsules' = [capsules EXCEPT ![t] =
                          Researched(t, MayPublish(runs[r], judged, secret))]
        /\ LogTopic(About[t])
        /\ runs' = [runs EXCEPT ![r] = Idle]
        /\ UNCHANGED <<seeds, used, spent>>

-----------------------------------------------------------------------------
(* Others *)

\* The interval of stage K and the days of the log pass, or so many cycles.
Forget ==
    /\ \/ cooling /\ cooling' = FALSE /\ UNCHANGED <<recent, cycled>>
       \/ /\ \E topic \in recent : recent' = recent \ {topic}
          /\ UNCHANGED <<cycled, cooling>>
       \/ /\ \E topic \in cycled \ recent : cycled' = cycled \ {topic}
          /\ UNCHANGED <<recent, cooling>>
    /\ UNCHANGED <<seeds, used, capsules, runs, spent>>

\* _evaluate_gates: an approval by Sagwan, which leaves its own capsules to a person.
GatePassed(t) == capsules[t].maker # "sagwan"

Approve(t, human) ==
    /\ Exists(t) /\ ~capsules[t].published
    /\ human \/ GatePassed(t)
    /\ Outside
    /\ capsules' = [capsules EXCEPT ![t].published = TRUE]
    /\ UNCHANGED <<seeds, used, logVars, runs>>

\* A consolidation or maintenance retires a capsule.
Retire(t) ==
    /\ capsules[t].live
    /\ Outside
    /\ capsules' = [capsules EXCEPT ![t].live = FALSE]
    /\ UNCHANGED <<seeds, used, logVars, runs>>

Crash ==
    /\ InTrouble
    /\ runs' = [r \in Runs |-> Idle]
    /\ UNCHANGED <<seeds, used, capsules, logVars>>

Init ==
    /\ seeds = [s \in Seeds |-> FALSE]
    /\ used = [s \in Seeds |-> 0]
    /\ capsules = [t \in Titles |-> Absent]
    /\ recent = {} /\ cycled = {} /\ cooling = FALSE
    /\ runs = [r \in Runs |-> Idle]
    /\ spent = [trouble |-> 0, events |-> 0]

StageE(r) ==
    \/ \E s \in Seeds : Generate(r, s)
    \/ WriteGenerated(r) \/ GenerateFails(r) \/ MarkSeed(r)

StageK(r) ==
    \/ \E force \in BOOLEAN : StartResearch(r, force)
    \/ \E t \in Titles, found \in BOOLEAN : Select(r, t, found)
    \/ NoTopic(r)
    \/ \E answer \in {"proceed", "skip", "refine", "supplement", "unreadable"}, t \in Titles :
           Compare(r, answer, t)
    \/ \E restricted \in BOOLEAN : Research(r, restricted)
    \/ ResearchFails(r)
    \/ \E judged, secret \in BOOLEAN : WriteResearched(r, judged, secret)

Next ==
    \/ \E r \in Runs : StageE(r) \/ StageK(r)
    \/ Forget
    \/ \E t \in Titles : (\E human \in BOOLEAN : Approve(t, human)) \/ Retire(t)
    \/ Crash

Spec == Init /\ [][Next]_vars

-----------------------------------------------------------------------------

Capsule == [maker : {"nobody", "sagwan", "sagwan-research"}, live : BOOLEAN, published : BOOLEAN]

Run == [step : {"idle", "generating", "marking", "selecting", "comparing", "researching",
                "judging"},
        seed : Seeds, title : Titles, seen : SUBSET Topics, before : SUBSET Topics,
        restricted : BOOLEAN]

TypeOK ==
    /\ seeds \in [Seeds -> BOOLEAN]
    /\ used \in [Seeds -> Nat]
    /\ capsules \in [Titles -> Capsule]
    /\ recent \subseteq Topics /\ cycled \subseteq Topics /\ cooling \in BOOLEAN
    /\ runs \in [Runs -> Run]
    /\ spent \in [trouble : 0..MaxTrouble, events : 0..MaxEvents]

\* Of the capsules researched on one topic no more are live than runs can have passed
\* the guards side by side: a finished one keeps every later run away.
DuplicatesOnlyByRace ==
    \A topic \in Topics :
        Cardinality({t \in Titles : /\ About[t] = topic /\ capsules[t].live
                                    /\ capsules[t].maker = "sagwan-research"})
            <= Cardinality(Runs)

\* A seed is used once, except by runs that took it before it was marked and after a
\* mark that was not written.
SeedUsedSparingly ==
    \A s \in Seeds : used[s] <= Cardinality(Runs) + spent.trouble * Cardinality(Runs)
=============================================================================
