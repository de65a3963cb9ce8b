-------------------------- MODULE Investigations --------------------------
(***************************************************************************)
(* Public investigations: a request collects what its sources say, which   *)
(* takes a while, and then saves all of it in one transaction that also    *)
(* records what changed since the last saved snapshot of each source.      *)
(* One subject; a source is identified by its scope.                       *)
(***************************************************************************)
EXTENDS Naturals, Sequences, SequencesExt

CONSTANTS
    Collectors,        \* threads that execute a request
    Keys,              \* the idempotency keys that clients choose
    Scopes,            \* the sources of the subject
    Items,             \* external ids inside a source
    Contents,          \* what an item may say
    MaxInvestigations  \* bound: investigations ever saved

\* What an instance assumes of the constants.
Bounds == MaxInvestigations \in Nat /\ Items # {} /\ Contents # {}

VARIABLES
    web,                      \* external: what each source says now
    research_latest,          \* the last saved snapshot of each source
    research_evidence,        \* every observation ever saved
    research_investigations,  \* the saved investigations, in commit order
    jobs                      \* what each collector is doing

tables == <<research_latest, research_evidence, research_investigations>>
vars == <<web, tables, jobs>>

\* A snapshot is what a source says: a content for each item it lists.  A source that
\* answers gives some evidence, if only that there is nothing.
Snapshots == UNION {[I -> Contents] : I \in (SUBSET Items) \ {{}}}
NoSnapshot == << >>
Unavailable == << >>

Requests == (SUBSET Scopes) \ {{}}

Idle == [pc |-> "idle", key |-> "none", request |-> {}, results |-> << >>]

ByKey(key) == {i \in DOMAIN research_investigations : research_investigations[i].key = key}

\* The first look at the key, before anything is collected; a known key is answered
\* or refused here, and changes nothing.
Accept(c, key, request) ==
    /\ jobs[c] = Idle
    /\ ByKey(key) = {}
    /\ jobs' = [jobs EXCEPT ![c] = [pc |-> "collect", key |-> key, request |-> request,
                                    results |-> << >>]]
    /\ UNCHANGED <<web, tables>>

\* One source is asked; it answers, or is down or not configured.
Collect(c, scope) ==
    /\ jobs[c].pc = "collect"
    /\ scope \in jobs[c].request \ DOMAIN jobs[c].results
    /\ \E answer \in {web[scope], Unavailable} :
           jobs' = [jobs EXCEPT ![c].results =
               [s \in DOMAIN jobs[c].results \cup {scope} |->
                   IF s = scope THEN answer ELSE jobs[c].results[s]]]
    /\ UNCHANGED <<web, tables>>

Answered(results) == {s \in DOMAIN results : results[s] # Unavailable}

At(snapshot, item) == IF item \in DOMAIN snapshot THEN {snapshot[item]} ELSE {}

ChangeKind(before, item, after) ==
    CASE item \notin DOMAIN before /\ before = NoSnapshot -> "initial_observation"
      [] item \notin DOMAIN before /\ before # NoSnapshot -> "added"
      [] item \in DOMAIN before /\ item \notin DOMAIN after -> "no_longer_observed"
      [] OTHER -> "changed"

\* The differences between two snapshots of a source, each with what it replaces.
Changes(scope, before, after) ==
    {[scope |-> scope, item |-> i, kind |-> ChangeKind(before, i, after),
      old |-> At(before, i), new |-> At(after, i)] :
        i \in {j \in DOMAIN before \cup DOMAIN after : At(before, j) # At(after, j)}}

Observations(results) ==
    UNION {{[scope |-> s, item |-> i, content |-> results[s][i]] :
               i \in DOMAIN results[s]} : s \in Answered(results)}

StatusOf(results) ==
    IF Answered(results) = {} THEN "failed"
    ELSE IF Answered(results) = DOMAIN results THEN "complete" ELSE "partial"

\* Mutant of KeyFree: the first look at the key is trusted.
KeyTrusted(key) == key \in Keys

\* The transaction looks at the key again: another collector may have saved meanwhile.
KeyFree(key) == ByKey(key) = {}

\* Mutant of Merged: a source that did not answer is saved as empty.
MergedBlindly(latest, results) ==
    [s \in Scopes |-> IF s \in DOMAIN results THEN results[s] ELSE latest[s]]

Merged(latest, results) ==
    [s \in Scopes |-> IF s \in Answered(results) THEN results[s] ELSE latest[s]]

SaveInvestigation(c) ==
    LET job == jobs[c] IN
    /\ job.pc = "collect"
    /\ DOMAIN job.results = job.request
    /\ KeyFree(job.key)
    /\ Len(research_investigations) < MaxInvestigations
    /\ research_investigations' = Append(research_investigations,
           [key |-> job.key, request |-> job.request, status |-> StatusOf(job.results),
            changes |-> UNION {Changes(s, research_latest[s], job.results[s]) :
                                   s \in Answered(job.results)}])
    /\ research_latest' = Merged(research_latest, job.results)
    /\ research_evidence' = research_evidence \cup Observations(job.results)
    /\ jobs' = [jobs EXCEPT ![c] = Idle]
    /\ UNCHANGED web

\* The key was saved meanwhile: the stored record is returned, or the request refused.
FindSaved(c) ==
    /\ jobs[c].pc = "collect"
    /\ DOMAIN jobs[c].results = jobs[c].request
    /\ ~KeyFree(jobs[c].key)
    /\ jobs' = [jobs EXCEPT ![c] = Idle]
    /\ UNCHANGED <<web, tables>>

\* External: a source says something else.
Publish(scope, snapshot) ==
    /\ snapshot # web[scope]
    /\ web' = [web EXCEPT ![scope] = snapshot]
    /\ UNCHANGED <<tables, jobs>>

Init ==
    /\ web = [s \in Scopes |-> [i \in Items |-> CHOOSE c \in Contents : TRUE]]
    /\ research_latest = [s \in Scopes |-> NoSnapshot]
    /\ research_evidence = {}
    /\ research_investigations = << >>
    /\ jobs = [c \in Collectors |-> Idle]

Next ==
    \/ \E c \in Collectors, key \in Keys, request \in Requests : Accept(c, key, request)
    \/ \E c \in Collectors, scope \in Scopes : Collect(c, scope)
    \/ \E c \in Collectors : SaveInvestigation(c) \/ FindSaved(c)
    \/ \E scope \in Scopes, snapshot \in Snapshots : Publish(scope, snapshot)

Spec == Init /\ [][Next]_vars

----------------------------------------------------------------------------
TypeOK ==
    /\ web \in [Scopes -> Snapshots]
    /\ research_latest \in [Scopes -> Snapshots \cup {NoSnapshot}]
    /\ research_evidence \subseteq [scope : Scopes, item : Items, content : Contents]
    /\ \A i \in DOMAIN research_investigations :
           /\ research_investigations[i].key \in Keys
           /\ research_investigations[i].status \in {"failed", "partial", "complete"}
    /\ \A c \in Collectors : DOMAIN jobs[c].results \subseteq jobs[c].request

\* Two collectors that serve one key at once save one investigation.
SavedOnce ==
    \A i, j \in DOMAIN research_investigations :
        research_investigations[i].key = research_investigations[j].key => i = j

\* The recorded changes are complete: replayed in commit order from nothing, they
\* give the snapshot that is saved, although every investigation collected its
\* sources before others committed theirs.
Apply(state, investigation) ==
    [p \in Scopes \X Items |->
        LET hits == {ch \in investigation.changes : ch.scope = p[1] /\ ch.item = p[2]}
        IN  IF hits = {} THEN state[p] ELSE (CHOOSE ch \in hits : TRUE).new]
ChangesReplay ==
    FoldLeft(Apply, [p \in Scopes \X Items |-> {}], research_investigations)
        = [p \in Scopes \X Items |-> At(research_latest[p[1]], p[2])]

\* Whatever a change cites, as what was or as what is, is an observation on record.
ChangesGrounded ==
    \A i \in DOMAIN research_investigations :
        \A ch \in research_investigations[i].changes :
            \A content \in ch.old \cup ch.new :
                [scope |-> ch.scope, item |-> ch.item, content |-> content]
                    \in research_evidence

\* A first observation is reported once: afterwards the same item is new, changed or
\* gone, also after an investigation in which its source was down.
InitialOnce ==
    \A i, j \in DOMAIN research_investigations : i < j =>
        \A ch \in research_investigations[i].changes :
            ~\E d \in research_investigations[j].changes :
                d.scope = ch.scope /\ d.kind = "initial_observation"

\* The history of a subject can be traced: it is complete, grounded and begins once.
HistoryTraceable == ChangesReplay /\ ChangesGrounded /\ InitialOnce
=============================================================================
