--------------------------- MODULE MethodArchive ---------------------------
(***************************************************************************)
(* The public archive of methods: one SQLite file, written by requests     *)
(* that carry an idempotency key and read by requests of several           *)
(* statements.  A write is one transaction, opened by BEGIN IMMEDIATE, so  *)
(* it is one action; a read has no transaction, so each of its statements  *)
(* is an action and sees the tables as they are then.  A write that is     *)
(* refused, and one whose key is known, changes no table and is no action. *)
(***************************************************************************)
EXTENDS Naturals, FiniteSets

CONSTANTS
    Keys,         \* the Idempotency-Keys that clients choose
    Texts,        \* what a method or a revision says
    Readers,      \* threads that serve reads
    PAGE,         \* feedback rows a read returns, 100 in the code
    GRAPH_PAGE,   \* feedback rows and versions a graph shows, 12 in the code
    MaxMethods,   \* bound: methods ever created
    MaxVersion,   \* bound: versions of a method
    MaxOutcomes   \* bound: outcomes ever reported

\* What an instance assumes of the constants.
Bounds ==
    /\ {PAGE, GRAPH_PAGE, MaxMethods, MaxVersion} \subseteq Nat \ {0}
    /\ MaxOutcomes \in Nat

VARIABLES
    method_methods,      \* the current body of each method, by id
    method_revisions,    \* bodies by method and version
    method_outcomes,     \* reported outcomes, by id
    method_opinions,     \* reported opinions, with the outcome they name
    method_idempotency,  \* the request and the response of each key
    reads                \* what each reader has gathered

tables == <<method_methods, method_revisions, method_outcomes, method_opinions,
            method_idempotency>>
vars == <<tables, reads>>

MethodIds == 1..MaxMethods
Versions == 1..MaxVersion
OutcomeIds == 1..MaxOutcomes
None == 0
NoBody == << >>

\* One shape for the four kinds of request.  version is the version that feedback
\* refers to, or the one a revision expects; outcome is the one an opinion comments
\* on or a revision corrects, and corrected the version of that correction.
Requests ==
    [kind : {"method", "outcome", "opinion", "revision"},
     method : MethodIds \cup {None}, version : Versions \cup {None},
     outcome : OutcomeIds \cup {None}, corrected : Versions \cup {None}, text : Texts]

Body == [version : Versions, previous : Versions \cup {None}, text : Texts,
         outcome : OutcomeIds \cup {None}, corrected : Versions \cup {None}]

\* A response names the row it made: an id, and the version for a method's body.
Responses == [kind : {"method", "outcome", "opinion", "revision"},
              id : Nat \ {0}, version : Versions]

\* Mutant of Fresh: the ledger is not asked.
FreshAlways(key) == key \in Keys

Fresh(key) == key \notin DOMAIN method_idempotency

Remember(key, request, response) ==
    method_idempotency' = [k \in DOMAIN method_idempotency \cup {key} |->
        IF k = key THEN [request |-> request, response |-> response]
                   ELSE method_idempotency[k]]

Extend(f, x, y) == [z \in DOMAIN f \cup {x} |-> IF z = x THEN y ELSE f[z]]

NewId(table) == Cardinality(DOMAIN table) + 1

\* Mutant of IsOutcomeOf: any version of the method will do.
IsOutcomeOfMethod(o, m, v) ==
    /\ o \in DOMAIN method_outcomes
    /\ method_outcomes[o].method = m

\* An outcome that exists and was reported for this method at this version.
IsOutcomeOf(o, m, v) ==
    /\ o \in DOMAIN method_outcomes
    /\ method_outcomes[o].method = m
    /\ method_outcomes[o].version = v

CreateMethod(key, r) ==
    /\ r.kind = "method" /\ r.method = None /\ r.version = None
    /\ r.outcome = None /\ r.corrected = None
    /\ Fresh(key)
    /\ NewId(method_methods) \in MethodIds
    /\ method_methods' = Extend(method_methods, NewId(method_methods),
           [version |-> 1, previous |-> None, text |-> r.text,
            outcome |-> None, corrected |-> None])
    /\ Remember(key, r, [kind |-> "method", id |-> NewId(method_methods), version |-> 1])
    /\ UNCHANGED <<method_revisions, method_outcomes, method_opinions, reads>>

\* Feedback must name the version that is current when it arrives.
RefersToCurrent(r) ==
    /\ r.method \in DOMAIN method_methods
    /\ r.version = method_methods[r.method].version

AddOutcome(key, r) ==
    /\ r.kind = "outcome" /\ r.outcome = None /\ r.corrected = None
    /\ Fresh(key)
    /\ RefersToCurrent(r)
    /\ NewId(method_outcomes) \in OutcomeIds
    /\ method_outcomes' = Extend(method_outcomes, NewId(method_outcomes),
           [method |-> r.method, version |-> r.version])
    /\ Remember(key, r, [kind |-> "outcome", id |-> NewId(method_outcomes),
                         version |-> r.version])
    /\ UNCHANGED <<method_methods, method_revisions, method_opinions, reads>>

AddOpinion(key, r) ==
    /\ r.kind = "opinion" /\ r.corrected = None
    /\ Fresh(key)
    /\ RefersToCurrent(r)
    /\ r.outcome # None => IsOutcomeOf(r.outcome, r.method, r.version)
    /\ method_opinions' = Extend(method_opinions, NewId(method_opinions),
           [method |-> r.method, version |-> r.version, outcome |-> r.outcome])
    /\ Remember(key, r, [kind |-> "opinion", id |-> NewId(method_opinions),
                         version |-> r.version])
    /\ UNCHANGED <<method_methods, method_revisions, method_outcomes, reads>>

\* Mutant of ExpectsCurrent: the expected version is not compared.
ExpectsSome(r) == r.method \in DOMAIN method_methods

\* A revision replaces the version its author has seen, and no other.
ExpectsCurrent(r) ==
    /\ r.method \in DOMAIN method_methods
    /\ r.version = method_methods[r.method].version

CorrectionHolds(r) ==
    r.outcome # None => IsOutcomeOf(r.outcome, r.method, r.corrected)

Revised(r) ==
    [version |-> method_methods[r.method].version + 1,
     previous |-> method_methods[r.method].version, text |-> r.text,
     outcome |-> r.outcome, corrected |-> r.corrected]

\* Mutant of WithRevision: the replaced version is saved after the update.
WithRevisionLate(m, body) ==
    Extend(Extend(method_revisions, <<m, method_methods[m].version>>, body),
           <<m, body.version>>, body)

\* The first revision also saves the version it replaces; later ones find it saved
\* (INSERT OR IGNORE).
WithRevision(m, body) ==
    LET old == method_methods[m]
        saved == IF <<m, old.version>> \in DOMAIN method_revisions THEN method_revisions
                 ELSE Extend(method_revisions, <<m, old.version>>, old)
    IN  Extend(saved, <<m, body.version>>, body)

Revise(key, r) ==
    /\ r.kind = "revision"
    /\ r.outcome = None <=> r.corrected = None
    /\ Fresh(key)
    /\ ExpectsCurrent(r)
    /\ CorrectionHolds(r)
    /\ Revised(r).version \in Versions
    /\ method_revisions' = WithRevision(r.method, Revised(r))
    /\ method_methods' = [method_methods EXCEPT ![r.method] = Revised(r)]
    /\ Remember(key, r, [kind |-> "revision", id |-> r.method,
                         version |-> Revised(r).version])
    /\ UNCHANGED <<method_outcomes, method_opinions, reads>>

----------------------------------------------------------------------------
(* Reads.  store.get lists the feedback and counts it; the graph goes on   *)
(* with revisions, on a connection of its own, and fetches what its        *)
(* corrections name.                                                       *)

Idle == [pc |-> "idle", method |-> None, body |-> NoBody, outcomes |-> {}, listed |-> {},
         total |-> 0, current |-> NoBody, count |-> 0, versions |-> {}]

OutcomesOf(m) == {o \in DOMAIN method_outcomes : method_outcomes[o].method = m}

FirstOf(S, n) == {x \in S : Cardinality({y \in S : y < x}) < n}

\* The newest n of a set of bodies.
NewestOf(S, n) == {b \in S : Cardinality({c \in S : c.version > b.version}) < n}

GetMethod(r, m) ==
    /\ reads[r].pc = "idle"
    /\ m \in DOMAIN method_methods
    /\ reads' = [reads EXCEPT ![r] =
           [Idle EXCEPT !.pc = "feedback", !.method = m, !.body = method_methods[m]]]
    /\ UNCHANGED tables

\* listed is a history variable: what there was when the page was read.
GetFeedback(r) ==
    /\ reads[r].pc = "feedback"
    /\ reads' = [reads EXCEPT ![r].pc = "count",
                              ![r].outcomes = FirstOf(OutcomesOf(reads[r].method), PAGE),
                              ![r].listed = OutcomesOf(reads[r].method)]
    /\ UNCHANGED tables

CountFeedback(r) ==
    /\ reads[r].pc = "count"
    /\ reads' = [reads EXCEPT ![r].pc = "got",
                              ![r].total = Cardinality(OutcomesOf(reads[r].method))]
    /\ UNCHANGED tables

Truncated(read) == read.total > Cardinality(read.outcomes)

SavedVersions(m) == {method_revisions[k] : k \in {j \in DOMAIN method_revisions : j[1] = m}}

\* revisions: the current body, then how many versions are saved, then a page of
\* them; a method never revised has none, and its current body stands for all.
ReadCurrent(r) ==
    /\ reads[r].pc = "got"
    /\ reads' = [reads EXCEPT ![r].pc = "number",
                              ![r].current = method_methods[reads[r].method]]
    /\ UNCHANGED tables

CountRevisions(r) ==
    /\ reads[r].pc = "number"
    /\ reads' = [reads EXCEPT ![r].pc = "history",
                              ![r].count = Cardinality(SavedVersions(reads[r].method))]
    /\ UNCHANGED tables

ReadHistory(r) ==
    /\ reads[r].pc = "history"
    /\ reads' = [reads EXCEPT ![r].pc = "missing",
           ![r].versions = IF reads[r].count = 0 THEN {reads[r].current}
                           ELSE NewestOf(SavedVersions(reads[r].method), GRAPH_PAGE)]
    /\ UNCHANGED tables

\* A body that the history lacks is added; one of the same version replaces it.
GraphVersions(read) ==
    {b \in read.versions : b.version # read.body.version} \cup {read.body}

CorrectionOutcomes(read) ==
    {b.outcome : b \in {c \in GraphVersions(read) : c.outcome # None}}

\* Outcomes that a correction names are shown beyond the page, from the list or,
\* if it lacks them, from the table.
LoadedOutcomes(read) ==
    FirstOf(read.outcomes, GRAPH_PAGE) \cup (read.outcomes \cap CorrectionOutcomes(read))

\* Mutant of MissingOutcomes: what the page lacks is not fetched.
NoMissingOutcomes(read) == {}

MissingOutcomes(read) ==
    {o \in CorrectionOutcomes(read) \ LoadedOutcomes(read) :
        o \in OutcomesOf(read.method)}

FetchMissing(r) ==
    /\ reads[r].pc = "missing"
    /\ reads' = [reads EXCEPT ![r].pc = "drawn",
           ![r].outcomes = LoadedOutcomes(reads[r]) \cup MissingOutcomes(reads[r])]
    /\ UNCHANGED tables

\* get_version looks among the saved versions, then at the current one.
LookInRevisions(r, m, v) ==
    /\ reads[r].pc = "idle"
    /\ m \in DOMAIN method_methods
    /\ IF <<m, v>> \in DOMAIN method_revisions
       THEN reads' = [reads EXCEPT ![r] =
                [Idle EXCEPT !.pc = "found", !.method = m, !.count = v,
                             !.body = method_revisions[<<m, v>>]]]
       ELSE reads' = [reads EXCEPT ![r] =
                [Idle EXCEPT !.pc = "look", !.method = m, !.count = v]]
    /\ UNCHANGED tables

LookAtCurrent(r) ==
    /\ reads[r].pc = "look"
    /\ IF method_methods[reads[r].method].version = reads[r].count
       THEN reads' = [reads EXCEPT ![r].pc = "found",
                                   ![r].body = method_methods[reads[r].method]]
       ELSE reads' = [reads EXCEPT ![r].pc = "absent"]
    /\ UNCHANGED tables

Respond(r) ==
    /\ reads[r].pc \in {"got", "drawn", "found", "absent"}
    /\ reads' = [reads EXCEPT ![r] = Idle]
    /\ UNCHANGED tables

Init ==
    /\ method_methods = << >>
    /\ method_revisions = << >>
    /\ method_outcomes = << >>
    /\ method_opinions = << >>
    /\ method_idempotency = << >>
    /\ reads = [r \in Readers |-> Idle]

Write(key, r) ==
    \/ CreateMethod(key, r)
    \/ AddOutcome(key, r)
    \/ AddOpinion(key, r)
    \/ Revise(key, r)

Read(r) ==
    \/ \E m \in MethodIds : GetMethod(r, m)
    \/ GetFeedback(r)
    \/ CountFeedback(r)
    \/ ReadCurrent(r)
    \/ CountRevisions(r)
    \/ ReadHistory(r)
    \/ FetchMissing(r)
    \/ \E m \in MethodIds, v \in Versions : LookInRevisions(r, m, v)
    \/ LookAtCurrent(r)
    \/ Respond(r)

Next ==
    \/ \E key \in Keys : Fresh(key) /\ \E request \in Requests : Write(key, request)
    \/ \E r \in Readers : Read(r)

Spec == Init /\ [][Next]_vars

----------------------------------------------------------------------------
(* Properties.                                                             *)

Current(m) == method_methods[m].version

\* Tables hold rows of their schema, and a reader a body or nothing.
TypeOK ==
    /\ DOMAIN method_methods \subseteq MethodIds
    /\ \A m \in DOMAIN method_methods : method_methods[m] \in Body
    /\ DOMAIN method_revisions \subseteq MethodIds \X Versions
    /\ \A k \in DOMAIN method_revisions :
           method_revisions[k] \in Body /\ method_revisions[k].version = k[2]
    /\ \A o \in DOMAIN method_outcomes :
           method_outcomes[o] \in [method : MethodIds, version : Versions]
    /\ \A o \in DOMAIN method_opinions :
           method_opinions[o] \in [method : MethodIds, version : Versions,
                                   outcome : OutcomeIds \cup {None}]
    /\ \A k \in DOMAIN method_idempotency :
           /\ method_idempotency[k].request \in Requests
           /\ method_idempotency[k].response \in Responses
    /\ \A r \in Readers : reads[r].body \in Body \cup {NoBody}

\* A retried request is applied once: two keys never made the same row, and every
\* row was made under some key, so rows and remembered responses match one to one
\* (research_method_store.py:66, "concurrent retries cannot insert two rows").
Made == {method_idempotency[k].response : k \in DOMAIN method_idempotency}
AppliedOnce ==
    /\ \A j, k \in DOMAIN method_idempotency :
           j # k => method_idempotency[j].response # method_idempotency[k].response
    /\ Made =
           {[kind |-> "method", id |-> m, version |-> 1] : m \in DOMAIN method_methods}
           \cup (UNION {{[kind |-> "revision", id |-> m, version |-> v] :
                            v \in 2..Current(m)} : m \in DOMAIN method_methods})
           \cup {[kind |-> "outcome", id |-> o, version |-> method_outcomes[o].version] :
                     o \in DOMAIN method_outcomes}
           \cup {[kind |-> "opinion", id |-> o, version |-> method_opinions[o].version] :
                     o \in DOMAIN method_opinions}

\* Saved versions have no gap and end at the current body, and a revision was
\* built by an author who had seen the version before it.
HistoryUnbroken ==
    \A m \in DOMAIN method_methods :
        /\ Current(m) > 1 =>
               /\ \A v \in 1..Current(m) : <<m, v>> \in DOMAIN method_revisions
               /\ method_revisions[<<m, Current(m)>>] = method_methods[m]
        /\ \A v \in Versions : <<m, v>> \in DOMAIN method_revisions =>
               /\ v <= Current(m)
               /\ method_revisions[<<m, v>>].previous = v - 1
        /\ \A k \in DOMAIN method_idempotency :
               LET e == method_idempotency[k]
               IN  e.request.kind = "revision" /\ e.request.method = m
                       => e.response.version = e.request.version + 1

\* Feedback points at what was there: an outcome at a version the method had, an
\* opinion and a correction at an outcome of that method and that version.
FeedbackExact ==
    /\ \A o \in DOMAIN method_outcomes :
           /\ method_outcomes[o].method \in DOMAIN method_methods
           /\ method_outcomes[o].version <= Current(method_outcomes[o].method)
    /\ \A p \in DOMAIN method_opinions :
           method_opinions[p].outcome # None =>
               IsOutcomeOf(method_opinions[p].outcome, method_opinions[p].method,
                           method_opinions[p].version)
    /\ \A m \in DOMAIN method_methods :
           method_methods[m].outcome # None =>
               /\ IsOutcomeOf(method_methods[m].outcome, m, method_methods[m].corrected)
               /\ method_methods[m].corrected < Current(m)

\* Every body that could be read under a version stays what it is, whatever is
\* written later (research_method_revisions.py:4, "original versions ... remain
\* immutable").
Known(m, v) == IF <<m, v>> \in DOMAIN method_revisions THEN method_revisions[<<m, v>>]
               ELSE IF m \in DOMAIN method_methods /\ Current(m) = v
                    THEN method_methods[m] ELSE NoBody
VersionsImmutable ==
    [][\A m \in MethodIds, v \in Versions :
           Known(m, v) # NoBody => Known(m, v)' = Known(m, v)]_vars

\* A page of feedback that says nothing was cut off holds all there was when it listed.
NothingHidden ==
    \A r \in Readers :
        reads[r].pc = "got" /\ ~Truncated(reads[r]) => reads[r].outcomes = reads[r].listed

\* A graph shows the outcome that each of its corrections addresses, although the
\* revision may have been written after the outcomes were listed.
CorrectionsAddressed ==
    \A r \in Readers :
        reads[r].pc = "drawn" => CorrectionOutcomes(reads[r]) \subseteq reads[r].outcomes

\* A read of a version returns that version's body or none: never a newer one.
VersionRead ==
    \A r \in Readers :
        reads[r].pc = "found" =>
            reads[r].body = Known(reads[r].method, reads[r].count)

\* What readers return while others write is true: no row of a page is left out in
\* silence, no correction is shown without its outcome, no version in place of
\* another.
ReadsHonest == NothingHidden /\ CorrectionsAddressed /\ VersionRead
=============================================================================
