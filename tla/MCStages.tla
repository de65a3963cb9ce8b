------------------------------ MODULE MCStages ------------------------------
(* What the recurring stages owe in the end: verdicts on claims, records   *)
(* of published notes, notes for searches that found nothing.  Different   *)
(* stages and tasks work on these, so a behaviour follows one of them, the *)
(* one in focus, from its start.                                           *)
EXTENDS Contributions

CONSTANTS
    SyncNotes, SyncLimit, SyncEdits, Threads, Rejected, THRESHOLD, BACKOFF, MaxAdmin, MaxCrashes,
    QUERIES, RESOLVES, MaxSearches, MaxTrouble

VARIABLES
    focus,
    synced, core, syncJobs, retry, ran, syncSpent,
    missLog, missNotes, task, asked, missSpent

S == INSTANCE CoreSync WITH NOTES <- SyncNotes, LIMIT <- SyncLimit,
         MaxEdits <- SyncEdits, notes <- synced, jobs <- syncJobs, spent <- syncSpent
G == INSTANCE SearchGaps WITH log <- missLog, notes <- missNotes, spent <- missSpent

syncVars == <<synced, core, syncJobs, retry, ran, syncSpent>>
missVars == <<missLog, missNotes, task, asked, missSpent>>
stagesVars == <<focus, vars, syncVars, missVars>>

StagesInit ==
    /\ focus \in {"contributions", "sync", "misses"}
    /\ Init /\ S!Init /\ G!Init

\* Nothing is explored of the components that are not in focus.
StagesNext ==
    /\ UNCHANGED focus
    /\ focus # "contributions" => UNCHANGED vars
    /\ focus # "sync" => UNCHANGED syncVars
    /\ focus # "misses" => UNCHANGED missVars
    /\ \/ focus = "contributions" /\ Next
       \/ focus = "sync" /\ S!Next
       \/ focus = "misses" /\ G!Next

\* The fairness of each component's own specification, while it is in focus.
ClaimsFair(A) == focus = "contributions" /\ A
SyncFair(A) == focus = "sync" /\ A
MissesFair(A) == focus = "misses" /\ A
StagesFairness ==
    /\ \A c \in Callers : WF_vars(ClaimsFair(CallerStep(c)))
    /\ WF_vars(ClaimsFair(WriteNote("admin") \/ DecideSource("admin")))
    /\ WF_vars(ClaimsFair(ApprovalStep)) /\ WF_vars(ClaimsFair(GuardrailStep))
    /\ WF_vars(ClaimsFair(IntegrationStep)) /\ WF_vars(ClaimsFair(HourPasses))
    /\ WF_vars(ClaimsFair(GuardrailFails \/ GuardrailAnswers))
    /\ SF_vars(ClaimsFair(GuardrailAnswers))
    /\ SF_syncVars(SyncFair(S!Tick)) /\ WF_syncVars(SyncFair(S!ScanUnsynced))
    /\ WF_syncVars(SyncFair(S!TaskStep))
    /\ \A t \in Threads : /\ WF_syncVars(SyncFair(S!Send(t)))
                          /\ WF_syncVars(SyncFair(S!Store(t)))
    /\ \A n \in 1..SyncNotes :
           SF_syncVars(SyncFair(syncJobs["task"].note = n /\ S!SendDone("task")))
    /\ \A k \in G!Kinds : SF_missVars(MissesFair(G!Read(k)))
    /\ WF_missVars(MissesFair(G!NoteQuery)) /\ WF_missVars(MissesFair(G!Rotate))

StagesSpec == StagesInit /\ [][StagesNext]_stagesVars /\ StagesFairness

\* A published note gets its record.
EventuallySynced == focus = "sync" => S!EventuallySynced

\* A query that an analysis has read gets its note.
EveryGapNoted == focus = "misses" => G!EveryGapNoted

\* A claim that asks for review gets a verdict.
ClaimsDecided == focus = "contributions" => RequestedClaimsDecided
=============================================================================
