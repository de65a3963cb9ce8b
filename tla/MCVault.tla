------------------------------- MODULE MCVault -------------------------------
(* The protocols on the vault's notes: contributions and their publication, *)
(* votes and reviews, the capsules of the stages, the research log, and the *)
(* notes of failed searches.  They meet in notes of different kinds, so a   *)
(* behaviour follows one of them, the one in focus, from its start.         *)
EXTENDS Contributions

CONSTANTS Voters, MIN, MaxReviews, MaxCalls,
          SEEDS, Titles, Runs, MaxTrouble, MaxEvents, INTERVAL, MaxEntries, MaxTicks,
          QUERIES, RESOLVES, MaxSearches, MaxCrashes

VARIABLES
    focus,
    note, reviews, reviewJobs, voices, calls,
    seeds, used, capsules, recent, cycled, cooling, stageRuns, stageSpent,
    now, log, lessons, logRuns, appended, finished,
    missLog, missNotes, task, asked, missSpent

Topics == {"topic"}
SameTopic == [t \in Titles |-> "topic"]
SameTitle == [s \in 1..SEEDS |-> CHOOSE t \in Titles : TRUE]

R == INSTANCE Reviews WITH Callers <- Voters, jobs <- reviewJobs
C == INSTANCE Capsules WITH About <- SameTopic, Named <- SameTitle,
         runs <- stageRuns, spent <- stageSpent
G == INSTANCE ResearchLog WITH About <- SameTopic, runs <- logRuns
S == INSTANCE SearchGaps WITH log <- missLog, notes <- missNotes, spent <- missSpent

ASSUME VaultBounds == R!Bounds /\ C!Bounds /\ G!Bounds /\ S!Bounds

reviewVars == <<note, reviews, reviewJobs, voices, calls>>
capsuleVars == <<seeds, used, capsules, recent, cycled, cooling, stageRuns, stageSpent>>
logVars == <<now, log, lessons, logRuns, appended, finished>>
missVars == <<missLog, missNotes, task, asked, missSpent>>
vaultVars == <<focus, vars, reviewVars, capsuleVars, logVars, missVars>>

VaultInit ==
    /\ focus \in {"contributions", "reviews", "capsules", "log", "misses"}
    /\ Init /\ R!Init /\ C!Init /\ G!Init /\ S!Init

\* Nothing is explored of the components that are not in focus.
VaultNext ==
    /\ UNCHANGED focus
    /\ focus # "contributions" => UNCHANGED vars
    /\ focus # "reviews" => UNCHANGED reviewVars
    /\ focus # "capsules" => UNCHANGED capsuleVars
    /\ focus # "log" => UNCHANGED logVars
    /\ focus # "misses" => UNCHANGED missVars
    /\ \/ focus = "contributions" /\ Next
       \/ focus = "reviews" /\ R!Next
       \/ focus = "capsules" /\ C!Next
       \/ focus = "log" /\ G!Next
       \/ focus = "misses" /\ S!Next

VaultSpec == VaultInit /\ [][VaultNext]_vaultVars

\* What TLC explores of the log: the clock ticks, or lessons are written.
ClockOrLessons == now' > 1 => lessons' = {} /\ \A r \in Runs : logRuns'[r].step # "passed"

\* Runs of the stages differ in nothing.
RunSymmetry == Permutations(Runs)

\* With a note of the right form nobody votes twice, and no voice is counted twice
\* (mcp_server.py:confirm_note, _recompute_parent_aggregate).
VotesHonest == R!TypeOK /\ R!OneVoiceEach /\ R!CountsBacked

\* The guards against duplicates keep away all but runs side by side: capsules on one
\* topic, lessons on one topic, capsules from one seed (sagwan_loop.py, stages E and K
\* and the miners).
DuplicatesOnlyByRace ==
    C!DuplicatesOnlyByRace /\ C!SeedUsedSparingly /\ G!LessonsDistinct

\* No stale copy holds a stage back.
AnchorEarned == G!AnchorEarned

\* The state of every component is of its type.
VaultTypeOK == TypeOK /\ R!TypeOK /\ C!TypeOK /\ G!TypeOK /\ S!TypeOK

\* In states of the right form no miss is counted twice.
CountedOnce == VaultTypeOK /\ S!CountedOnce
=============================================================================
