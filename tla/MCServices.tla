----------------------------- MODULE MCServices -----------------------------
(* The services that agents and the vault talk to: the method archive, the *)
(* investigations, the Core API's records and the synchronisation of notes *)
(* with them.  A behaviour follows one of them, the one in focus, from its *)
(* start: they share no state that the properties are about.               *)
EXTENDS CoreRecords

CONSTANTS
    MethodKeys, Texts, Readers, PAGE, GRAPH_PAGE, MaxMethods, MaxVersion, MaxOutcomes,
    Collectors, Keys, Scopes, Items, Contents, MaxInvestigations,
    NOTES, Threads, Rejected, LIMIT, THRESHOLD, BACKOFF, MaxEdits, MaxAdmin, MaxCrashes

VARIABLES
    focus,
    method_methods, method_revisions, method_outcomes, method_opinions,
    method_idempotency, reads,
    web, research_latest, research_evidence, research_investigations, jobs,
    notes, core, syncJobs, retry, ran, spent

M == INSTANCE MethodArchive WITH Keys <- MethodKeys
I == INSTANCE Investigations
S == INSTANCE CoreSync WITH jobs <- syncJobs

ASSUME ServicesBounds == M!Bounds /\ I!Bounds /\ S!Bounds

methodVars == <<method_methods, method_revisions, method_outcomes, method_opinions,
                method_idempotency, reads>>
researchVars == <<web, research_latest, research_evidence, research_investigations, jobs>>
syncVars == <<notes, core, syncJobs, retry, ran, spent>>
servicesVars == <<focus, vars, methodVars, researchVars, syncVars>>

ServicesInit ==
    /\ focus \in {"methods", "investigations", "records", "sync"}
    /\ Init /\ M!Init /\ I!Init /\ S!Init

\* Nothing is explored of the components that are not in focus.
ServicesNext ==
    /\ UNCHANGED focus
    /\ \/ focus = "methods" /\ M!Next /\ UNCHANGED <<vars, researchVars, syncVars>>
       \/ focus = "investigations" /\ I!Next /\ UNCHANGED <<vars, methodVars, syncVars>>
       \/ focus = "records" /\ Next /\ UNCHANGED <<methodVars, researchVars, syncVars>>
       \/ focus = "sync" /\ S!Next /\ UNCHANGED <<vars, methodVars, researchVars>>

ServicesSpec == ServicesInit /\ [][ServicesNext]_servicesVars

\* The archive's rows fit each other: a retried write is applied once, the versions of a
\* method have no gap and who wrote one knew the one before, feedback and corrections name
\* what existed, and readers are told the truth while others write
\* (research_method_store.py, research_method_revisions.py).
ArchiveConsistent ==
    M!TypeOK /\ M!AppliedOnce /\ M!HistoryUnbroken /\ M!FeedbackExact /\ M!ReadsHonest

\* The other services' state is of its type.
OthersTyped == TypeOK /\ I!TypeOK /\ S!TypeOK

\* A key saves one investigation, and the changes that investigations report add up to
\* what is saved (research_store.py:save_investigation).
HistoryTraceable == OthersTyped /\ I!SavedOnce /\ I!HistoryTraceable

\* What could be read under a version never changes, and a note that has the id of its
\* record loses it only to one who replaces the frontmatter by a copy without it
\* (research_method_revisions.py:revise, vault.py:write_document).
RecordsKept == M!VersionsImmutable /\ S!IdKeptByMerges
=============================================================================
