---------------------------- MODULE ResearchLog ----------------------------
(***************************************************************************)
(* The note research-log.md and the stages that share it: stage K appends  *)
(* what it researched, and the frontmatter holds when each stage last ran. *)
(* The stages that mine git, GitHub and StackOverflow write lessons, at    *)
(* most one per topic.  All of them load the note, wait for the network or *)
(* an LLM, and write; GitHub's stage writes back the copy it loaded first. *)
(***************************************************************************)
EXTENDS Naturals, FiniteSets

CONSTANTS
    Runs,       \* who may be running a stage: the loop, the worker, an admin
    Titles,     \* titles of lessons, which are their paths
    Topics,
    About,      \* About[t]: the topic of title t
    INTERVAL,   \* ticks between two runs of a stage (4 hours to 7 days)
    MaxEntries, \* bound: entries ever appended to the log
    MaxTicks    \* bound: ticks of the clock

\* What an instance assumes of the constants.
Bounds ==
    /\ INTERVAL \in Nat \ {0}
    /\ IsFiniteSet(Runs)
    /\ MaxEntries \in Nat /\ MaxTicks \in Nat \ {0}
    /\ About \in [Titles -> Topics]

VARIABLES
    now,      \* the clock
    log,      \* anchors and entries of the note
    lessons,  \* titles of the lessons there are
    runs,     \* the stage of each run, the note as it loaded it
    appended, \* entries ever appended
    finished  \* when each stage ever finished without a fetch that failed

vars == <<now, log, lessons, runs, appended, finished>>

Miners == {"git", "github", "stackoverflow"}
Stages == Miners \cup {"research"}
Never == 0     \* the value of an anchor that was not written yet; the clock starts at 1

Idle == [step |-> "idle", stage |-> "git", copy |-> [anchor |-> [s \in Stages |-> Never],
         entries |-> {}], failed |-> FALSE, title |-> CHOOSE t \in Titles : TRUE]

-----------------------------------------------------------------------------

Cooling(s) == log.anchor[s] # Never /\ now < log.anchor[s] + INTERVAL

Load(r, s) ==
    /\ runs[r] = Idle
    /\ ~Cooling(s)
    /\ runs' = [runs EXCEPT ![r] = [Idle EXCEPT !.stage = s, !.copy = log,
                  !.step = IF s = "github" THEN "selecting" ELSE "fetching"]]
    /\ UNCHANGED <<now, log, lessons, appended, finished>>

\* GitHub's stage searches repositories and notes its choice: the whole copy is merged
\* over the frontmatter (every stage's anchor that it has), and the body is the copy's.
Merged(copy) ==
    [entries |-> copy.entries,
     anchor |-> [s \in Stages |-> IF copy.anchor[s] # Never THEN copy.anchor[s] ELSE log.anchor[s]]]

SelectRepositories(r) ==
    /\ runs[r].step = "selecting"
    /\ log' = Merged(runs[r].copy)
    /\ runs' = [runs EXCEPT ![r].step = "fetching", ![r].copy = Idle.copy]
    /\ UNCHANGED <<now, lessons, appended, finished>>

\* What is mined is fetched, some of it perhaps without success, and the LLM draws its
\* lessons; a run over the cap or without lessons ends here.
Fetched(r, stage, failed) ==
    /\ runs[r].step = "fetching"
    /\ runs[r].stage = stage
    /\ runs' = [runs EXCEPT ![r].step = "writing", ![r].failed = failed,
                            ![r].copy = Idle.copy]
    /\ UNCHANGED <<now, log, lessons, appended, finished>>

FetchCommits(r, failed) == Fetched(r, "git", failed)
FetchPullRequests(r, failed) == Fetched(r, "github", failed)
FetchAnswers(r, failed) == Fetched(r, "stackoverflow", failed)

GiveUp(r) ==
    /\ runs[r].step = "fetching"
    /\ runs' = [runs EXCEPT ![r] = Idle]
    /\ UNCHANGED <<now, log, lessons, appended, finished>>

\* Mutant of Known: lessons are not compared.
NothingKnown(topic) == topic \notin Topics

\* _experience_seed_duplicate_guard
Known(topic) == \E t \in lessons : About[t] = topic

\* A lesson passes the guard, and is then written as a published capsule.
PassGuard(r, t) ==
    /\ runs[r].step = "writing"
    /\ ~Known(About[t])
    /\ runs' = [runs EXCEPT ![r].step = "passed", ![r].title = t]
    /\ UNCHANGED <<now, log, lessons, appended, finished>>

Written(r, stage) ==
    /\ runs[r].step = "passed"
    /\ runs[r].stage = stage
    /\ lessons' = lessons \cup {runs[r].title}
    /\ runs' = [runs EXCEPT ![r].step = "writing", ![r].title = Idle.title]
    /\ UNCHANGED <<now, log, appended, finished>>

WriteCommitLesson(r) == Written(r, "git")
WritePullRequestLesson(r) == Written(r, "github")
WriteAnswerLesson(r) == Written(r, "stackoverflow")

Stamp(s) ==
    /\ log' = [log EXCEPT !.anchor[s] = now]
    /\ finished' = [finished EXCEPT ![s] = @ \cup {now}]

\* Mutant of Touch: the anchor is written although a fetch failed.
TouchAlways(r) ==
    /\ runs[r].step = "writing"
    /\ log' = [log EXCEPT !.anchor[runs[r].stage] = now]
    /\ finished' = IF runs[r].failed THEN finished
                   ELSE [finished EXCEPT ![runs[r].stage] = @ \cup {now}]
    /\ runs' = [runs EXCEPT ![r] = Idle]
    /\ UNCHANGED <<now, lessons, appended>>

\* _touch_git_mining_state and its likes load the note anew and write the anchor, unless
\* a fetch failed.
Touch(r) ==
    /\ runs[r].step = "writing"
    /\ IF runs[r].failed THEN UNCHANGED <<log, finished>> ELSE Stamp(runs[r].stage)
    /\ runs' = [runs EXCEPT ![r] = Idle]
    /\ UNCHANGED <<now, lessons, appended>>

\* Stage K: _append_research_log_entry, then _touch_research_state.
AppendEntry(r) ==
    /\ runs[r].step = "fetching" /\ runs[r].stage = "research"
    /\ Cardinality(appended) < MaxEntries
    /\ LET entry == Cardinality(appended) + 1
       IN  /\ log' = [log EXCEPT !.entries = @ \cup {entry}]
           /\ appended' = appended \cup {entry}
    /\ runs' = [runs EXCEPT ![r].step = "writing", ![r].copy = Idle.copy]
    /\ UNCHANGED <<now, lessons, finished>>

Tick ==
    /\ now < MaxTicks
    /\ now' = now + 1
    /\ UNCHANGED <<log, lessons, runs, appended, finished>>

Init ==
    /\ now = 1
    /\ log = Idle.copy
    /\ lessons = {}
    /\ runs = [r \in Runs |-> Idle]
    /\ appended = {}
    /\ finished = [s \in Stages |-> {}]

Next ==
    \/ \E r \in Runs :
         \/ \E s \in Stages : Load(r, s)
         \/ SelectRepositories(r) \/ GiveUp(r) \/ Touch(r) \/ AppendEntry(r)
         \/ \E failed \in BOOLEAN :
                FetchCommits(r, failed) \/ FetchPullRequests(r, failed) \/ FetchAnswers(r, failed)
         \/ WriteCommitLesson(r) \/ WritePullRequestLesson(r) \/ WriteAnswerLesson(r)
         \/ \E t \in Titles : runs[r].stage \in Miners /\ PassGuard(r, t)
    \/ Tick

Spec == Init /\ [][Next]_vars

-----------------------------------------------------------------------------

TypeOK ==
    /\ now \in 1..MaxTicks
    /\ log \in [anchor : [Stages -> 0..MaxTicks], entries : SUBSET (1..MaxEntries)]
    /\ lessons \subseteq Titles
    /\ \A r \in Runs :
         /\ runs[r].step \in {"idle", "selecting", "fetching", "writing", "passed"}
         /\ runs[r].stage \in Stages /\ runs[r].title \in Titles
         /\ runs[r].failed \in BOOLEAN
    /\ appended \subseteq 1..MaxEntries
    /\ finished \in [Stages -> SUBSET (1..MaxTicks)]

\* An anchor that holds a stage back was earned: the stage finished then, with all it
\* wanted to fetch, whatever stale copies other stages have written since.
AnchorEarned == \A s \in Stages : log.anchor[s] \in finished[s] \cup {Never}

\* Lessons on one topic are no more than the runs that passed the guard side by side.
LessonsDistinct ==
    \A topic \in Topics : Cardinality({t \in lessons : About[t] = topic}) <= Cardinality(Runs)

\* What the summary in the note says, that it is the history of the research: an entry
\* that was appended stays.
HistoryKept == appended \subseteq log.entries
=============================================================================
