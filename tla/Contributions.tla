---------------------------- MODULE Contributions ----------------------------
(***************************************************************************)
(* How an author's notes become public.  Claims go through the guardrail   *)
(* and the integration cycle; capsules need a request, which the approval  *)
(* cycle, an admin or an inspector decides.  Everybody loads notes, thinks *)
(* (an LLM may take minutes) and writes back: write_document merges what   *)
(* it is given over what it finds, and keeps the owner unless told not to. *)
(* Bodies are left out, and with them the sections appended as a log.      *)
(***************************************************************************)
EXTENDS Naturals, FiniteSets, Sequences, SequencesExt

CONSTANTS
    CLAIMS,       \* the notes 1..CLAIMS are claims, in the order of their paths
    CAPSULES,     \* and the next ones capsules
    Callers,      \* tool calls of the author that run at once
    Unfit,        \* capsules that no review ever lets pass
    LIMIT,        \* notes or requests in one cycle: 50, 50 and 10 in the code
    HOURLY,       \* requests of a requester in the last hour, 5 in the code
    MANY,         \* pending claims that make the guardrail run early, 10 in the code
    MaxEdits,     \* bound: calls ever made of the tools, and crashes
    MaxRequests   \* bound: requests ever created

ASSUME BoundsAssumption ==
    /\ {LIMIT, HOURLY, MANY} \subseteq Nat \ {0}
    /\ {CLAIMS, CAPSULES, MaxEdits, MaxRequests} \subseteq Nat
ASSUME CallersAssumption ==
    IsFiniteSet(Callers) /\ Callers \cap {"admin", "approval", "guardrail", "integration"} = {}

VARIABLES
    notes,      \* the frontmatter of each note, with original once it was ever set
    requests,   \* the publication requests, oldest first
    jobs,       \* what everybody holds and is about to write
    due,        \* an hour has passed since the guardrail last ran
    spent       \* calls made so far

vars == <<notes, requests, jobs, due, spent>>

Paths == 1..(CLAIMS + CAPSULES)
IsClaim(n) == n <= CLAIMS
Jobs == Callers \cup {"admin", "approval", "guardrail", "integration"}

Merge(meta, old) ==
    [f \in DOMAIN meta \cup DOMAIN old |-> IF f \in DOMAIN meta THEN meta[f] ELSE old[f]]

Author == "author"
Sagwan == "sagwan"

Idle == [pc |-> "idle", writes |-> << >>, batch |-> {}, note |-> 0, status |-> "none"]
Waits(j, pc) == jobs[j].pc = pc /\ jobs[j].writes = << >>

\* A write to come: what is merged or put in place of the frontmatter, and whether
\* the caller may change the owner.
Write(n, meta, owns, replace) == [note |-> n, meta |-> meta, owns |-> owns, replace |-> replace]

WriteDocument(write, old) ==
    LET new == IF write.replace THEN write.meta ELSE Merge(write.meta, old)
    IN  IF write.owns THEN new ELSE [new EXCEPT !.owner = old.owner]

WriteNote(j) ==
    LET write == jobs[j].writes[1] IN
    /\ jobs[j].writes # << >>
    /\ notes' = [notes EXCEPT ![write.note] = WriteDocument(write, @)]
    /\ jobs' = [jobs EXCEPT ![j].writes = Tail(@)]
    /\ UNCHANGED <<requests, due, spent>>

\* setdefault("original_owner", owner) of everything that makes a note public.
WithOriginal(meta) == Merge(meta, [original |-> meta.owner])

\* Mutant of Published: the owner is replaced without a trace.
PublishedForgetful(meta) ==
    Merge([status |-> "published", visibility |-> "public", owner |-> Sagwan], meta)

Published(meta) ==
    Merge([status |-> "published", visibility |-> "public", owner |-> Sagwan],
          WithOriginal(meta))

Call(j) ==
    /\ Waits(j, "idle")
    /\ spent < MaxEdits
    /\ spent' = spent + 1

----------------------------------------------------------------------------
(* The author's tools.                                                     *)

\* upsert_note: the author of a note that is not public writes it again and may reset
\* its status; a capsule that is to be published is requested next.
UpsertNote(c, n, status) ==
    /\ Call(c)
    /\ notes[n].owner = Author
    /\ jobs' = [jobs EXCEPT ![c] =
           [Idle EXCEPT !.pc = IF status = "requested" /\ ~IsClaim(n) THEN "ask" ELSE "idle",
                        !.note = n,
                        !.writes = <<Write(n, [owner |-> Author, visibility |-> "private",
                                               status |-> status], FALSE, FALSE)>>]]
    /\ UNCHANGED <<notes, requests, due>>

\* append_note_section, by the author or by an inspector, who keeps the author's credit;
\* confirm_note and dispute_note, which put the whole loaded frontmatter back.
RewriteNote(c, n, replace) ==
    /\ Call(c)
    /\ jobs' = [jobs EXCEPT ![c].writes = <<Write(n, notes[n], TRUE, replace)>>]
    /\ UNCHANGED <<notes, requests, due>>

InspectNote(c, n) ==
    /\ Call(c)
    /\ jobs' = [jobs EXCEPT ![c].writes = <<Write(n, WithOriginal(notes[n]), TRUE, FALSE)>>]
    /\ UNCHANGED <<notes, requests, due>>

\* snooze_note and resolve_conflict: all that was loaded, but the owner is kept.
AnnotateNote(c, n) ==
    /\ Call(c)
    /\ jobs' = [jobs EXCEPT ![c].writes = <<Write(n, notes[n], FALSE, FALSE)>>]
    /\ UNCHANGED <<notes, requests, due>>

Open == {"requested", "reviewing"}
LatestRequest(n) == {r \in DOMAIN requests :
    /\ requests[r].source = n
    /\ \A s \in DOMAIN requests : s > r => requests[s].source # n}

\* An hour of requests, as the file names and dates of the request notes tell it.
Recent == {r \in DOMAIN requests : requests[r].recent}
\* Mutant of RateExceeded: requests that were decided no longer count.
RateExceededOpen == Cardinality({r \in Recent : requests[r].status \in Open}) >= HOURLY

RateExceeded == Cardinality(Recent) >= HOURLY

\* request_publication looks for an open request and counts the hour's, then writes
\* the note and only then creates the request.
MayAsk(n) ==
    /\ \A r \in LatestRequest(n) : requests[r].status \notin Open
    /\ ~RateExceeded

Asks(c, n) ==
    /\ MayAsk(n)
    /\ jobs' = [jobs EXCEPT ![c] =
           [Idle EXCEPT !.pc = "create", !.note = n,
                        !.writes = <<Write(n, Merge([status |-> "requested"], notes[n]),
                                           FALSE, FALSE)>>]]

RequestPublication(c, n) ==
    /\ Call(c)
    /\ notes[n].owner = Author
    /\ Asks(c, n)
    /\ UNCHANGED <<notes, requests, due>>

AskForUpsert(c) ==
    /\ Waits(c, "ask")
    /\ \/ Asks(c, jobs[c].note)
       \/ ~MayAsk(jobs[c].note) /\ jobs' = [jobs EXCEPT ![c] = Idle]
    /\ UNCHANGED <<notes, requests, due, spent>>

CreateRequest(c) ==
    /\ Waits(c, "create")
    /\ Len(requests) < MaxRequests
    /\ requests' = Append(requests, [source |-> jobs[c].note, status |-> "reviewing",
                                     recent |-> TRUE])
    /\ jobs' = [jobs EXCEPT ![c] = Idle]
    /\ UNCHANGED <<notes, due, spent>>

----------------------------------------------------------------------------
(* Decisions.                                                              *)

\* An admin writes a note as public, through the REST endpoint or the MCP tool, which
\* keeps the owner.
AdminPublishes(n, owns) ==
    /\ Call("admin")
    /\ jobs' = [jobs EXCEPT !["admin"].writes =
           <<Write(n, [visibility |-> "public", owner |-> Sagwan,
                       original |-> WithOriginal(notes[n]).original], owns, FALSE)>>]
    /\ UNCHANGED <<notes, requests, due>>

\* set_publication_status of a note itself.
DecideNote(n, status) ==
    /\ Call("admin")
    /\ jobs' = [jobs EXCEPT !["admin"].writes =
           <<Write(n, IF status = "published" THEN Published(notes[n])
                      ELSE Merge([status |-> status], notes[n]), TRUE, FALSE)>>]
    /\ UNCHANGED <<notes, requests, due>>

\* set_publication_status of a request: first the request, then its source.
DecideRequest(j, r, status) ==
    /\ requests' = [requests EXCEPT ![r].status = status]
    /\ jobs' = [jobs EXCEPT ![j].pc = "decide", ![j].note = requests[r].source,
                            ![j].status = status]

AdminDecides(r, status) ==
    /\ Call("admin")
    /\ DecideRequest("admin", r, status)
    /\ UNCHANGED <<notes, due>>

DecideSource(j) ==
    LET job == jobs[j]
        old == notes[job.note]
    IN  /\ Waits(j, "decide")
        /\ jobs' = [jobs EXCEPT
               ![j].pc = IF j = "approval" THEN "batch" ELSE "idle",
               ![j].writes = IF job.status = "published"
                   THEN <<Write(job.note, Published(old), TRUE, FALSE)>>
                   ELSE <<Write(job.note, Merge([status |-> job.status,
                                                 visibility |-> "private"], old),
                                FALSE, FALSE)>>]
        /\ UNCHANGED <<notes, requests, due, spent>>

----------------------------------------------------------------------------
(* The approval cycle reviews the newest requests, a few in each cycle.    *)

\* Of the requests the newest ones, of the claims the first ones by path.
NewestFew(S) == {r \in S : Cardinality({q \in S : q > r}) < LIMIT}
FirstFew(S) == {n \in S : Cardinality({m \in S : m < n}) < LIMIT}

PendingRequests == {r \in DOMAIN requests : requests[r].status \in Open}

StartApproval ==
    /\ Waits("approval", "idle")
    /\ PendingRequests # {}
    /\ jobs' = [jobs EXCEPT !["approval"] =
           [Idle EXCEPT !.pc = "batch", !.batch = NewestFew(PendingRequests)]]
    /\ UNCHANGED <<notes, requests, due, spent>>

\* The next of the batch is the newest that is left.
NextRequest(r) ==
    r \in jobs["approval"].batch /\ \A q \in jobs["approval"].batch : q <= r

\* The request and its source are loaded for the gates and the LLM.
ReviewRequest ==
    LET job == jobs["approval"] IN
    /\ Waits("approval", "batch")
    /\ \/ /\ job.batch = {}
          /\ jobs' = [jobs EXCEPT !["approval"] = Idle]
       \/ \E r \in job.batch :
             /\ NextRequest(r)
             /\ jobs' = [jobs EXCEPT !["approval"] =
                    [job EXCEPT !.pc = "judge", !.status = requests[r].status]]
    /\ UNCHANGED <<notes, requests, due, spent>>

Approve(r) ==
    LET job == jobs["approval"] IN
    /\ Waits("approval", "judge") /\ NextRequest(r)
    /\ requests[r].source \notin Unfit
    /\ requests' = [requests EXCEPT ![r].status = "published"]
    /\ jobs' = [jobs EXCEPT !["approval"] =
           [Idle EXCEPT !.pc = "decide", !.note = requests[r].source,
                        !.status = "published", !.batch = job.batch \ {r}]]
    /\ UNCHANGED <<notes, due, spent>>

\* _record_defer puts back the frontmatter that was loaded before the LLM was asked.
Defer(r) ==
    LET job == jobs["approval"] IN
    /\ Waits("approval", "judge") /\ NextRequest(r)
    /\ requests' = [requests EXCEPT ![r].status = job.status]
    /\ jobs' = [jobs EXCEPT !["approval"] =
           [Idle EXCEPT !.pc = "batch", !.batch = job.batch \ {r}]]
    /\ UNCHANGED <<notes, due, spent>>

----------------------------------------------------------------------------
(* Claims: the guardrail, then the integration into capsules.              *)

ClaimsIn(statuses) == {n \in 1..CLAIMS : notes[n].status \in statuses}

PendingClaims == ClaimsIn({"requested"})

StartGuardrail ==
    /\ Waits("guardrail", "idle")
    /\ PendingClaims # {}
    /\ due \/ Cardinality(PendingClaims) >= MANY
    /\ jobs' = [jobs EXCEPT !["guardrail"] =
           [Idle EXCEPT !.pc = "ask", !.batch = FirstFew(PendingClaims)]]
    /\ UNCHANGED <<notes, requests, due, spent>>

\* Mutant of Results: a claim that the answer leaves out keeps its status.
ResultsGiven(batch, answer) ==
    {[note |-> n, status |-> CASE answer[n] = "pass" -> "guardrail_passed"
                               [] answer[n] = "reject" -> "guardrail_rejected"
                               [] OTHER -> "requested"] : n \in batch}

\* What the answer says of a claim that it leaves out is a rejection.
Results(batch, answer) ==
    {[note |-> n, status |-> IF answer[n] = "pass" THEN "guardrail_passed"
                             ELSE "guardrail_rejected"] : n \in batch}

GuardrailAnswers ==
    LET batch == jobs["guardrail"].batch IN
    /\ Waits("guardrail", "ask")
    /\ \E answer \in [batch -> {"pass", "reject", "left out"}] :
           jobs' = [jobs EXCEPT !["guardrail"] =
               [Idle EXCEPT !.pc = "batch", !.batch = Results(batch, answer)]]
    /\ UNCHANGED <<notes, requests, due, spent>>

\* No readable answer, which keeps the claims for the next run, or no call at all
\* because of the hourly limit.
GuardrailFails ==
    /\ Waits("guardrail", "ask")
    /\ due' \in {FALSE, due}
    /\ jobs' = [jobs EXCEPT !["guardrail"] = Idle]
    /\ UNCHANGED <<notes, requests, spent>>

ApplyResult ==
    LET batch == jobs["guardrail"].batch IN
    /\ Waits("guardrail", "batch")
    /\ due' = (due /\ batch # {})
    /\ \/ /\ batch = {}
          /\ jobs' = [jobs EXCEPT !["guardrail"] = Idle]
       \/ \E result \in batch :
             /\ \A other \in batch : result.note <= other.note
             /\ jobs' = [jobs EXCEPT
                    !["guardrail"].batch = batch \ {result},
                    !["guardrail"].writes = <<Write(result.note,
                        Merge([status |-> result.status], notes[result.note]), TRUE, FALSE)>>]
    /\ UNCHANGED <<notes, requests, spent>>

StartIntegration ==
    LET ready == ClaimsIn({"guardrail_passed", "pending_integration"}) IN
    /\ Waits("integration", "idle")
    /\ ready # {}
    /\ jobs' = [jobs EXCEPT !["integration"] =
           [Idle EXCEPT !.pc = "batch", !.batch = FirstFew(ready)]]
    /\ UNCHANGED <<notes, requests, due, spent>>

\* A claim is published with the capsule that cites it, which is rewritten first or is a
\* new note of sagwan's own, or it is put off.
ClaimWrites(claim) ==
    LET Publish == Write(claim, Published(notes[claim]), TRUE, FALSE)
    IN  {<<Write(claim, Merge([status |-> "pending_integration"], notes[claim]), TRUE, FALSE)>>,
         <<Publish>>}
        \cup {<<Write(n, notes[n], TRUE, FALSE), Publish>> : n \in {m \in Paths : ~IsClaim(m)}}

IntegrateClaim ==
    LET batch == jobs["integration"].batch IN
    /\ Waits("integration", "batch")
    /\ \E claim \in batch :
           /\ \A other \in batch : claim <= other
           /\ \E writes \in ClaimWrites(claim) :
                  jobs' = [jobs EXCEPT !["integration"].batch = batch \ {claim},
                                       !["integration"].writes = writes]
    /\ UNCHANGED <<notes, requests, due, spent>>

EndIntegration ==
    /\ Waits("integration", "batch")
    /\ jobs["integration"].batch = {}
    /\ jobs' = [jobs EXCEPT !["integration"] = Idle]
    /\ UNCHANGED <<notes, requests, due, spent>>

\* Time passes: the guardrail's hour, or the hour of the oldest request that counts.
HourPasses ==
    /\ ~due
    /\ due' = TRUE
    /\ UNCHANGED <<notes, requests, jobs, spent>>

RequestAges ==
    /\ \E r \in Recent :
           /\ \A s \in Recent : r <= s
           /\ requests' = [requests EXCEPT ![r].recent = FALSE]
    /\ UNCHANGED <<notes, jobs, due, spent>>

Crash ==
    /\ spent < MaxEdits
    /\ spent' = spent + 1
    /\ jobs' = [j \in Jobs |-> Idle]
    /\ UNCHANGED <<notes, requests, due>>

Init ==
    /\ notes = [n \in Paths |-> [owner |-> Author, visibility |-> "private",
                                 status |-> IF IsClaim(n) THEN "requested" ELSE "none"]]
    /\ requests = << >>
    /\ jobs = [j \in Jobs |-> Idle]
    /\ due = TRUE
    /\ spent = 0

CallerStep(c) == WriteNote(c) \/ AskForUpsert(c) \/ CreateRequest(c)
ApprovalStep ==
    \/ WriteNote("approval") \/ StartApproval \/ ReviewRequest \/ DecideSource("approval")
    \/ \E r \in DOMAIN requests : Approve(r) \/ Defer(r)
GuardrailStep == WriteNote("guardrail") \/ StartGuardrail \/ ApplyResult
IntegrationStep ==
    WriteNote("integration") \/ StartIntegration \/ IntegrateClaim \/ EndIntegration

Next ==
    \/ \E c \in Callers, n \in Paths :
           \/ \E status \in {"none", "requested"} : UpsertNote(c, n, status)
           \/ \E replace \in BOOLEAN : RewriteNote(c, n, replace)
           \/ InspectNote(c, n) \/ AnnotateNote(c, n) \/ RequestPublication(c, n)
    \/ \E c \in Callers : CallerStep(c)
    \/ \E n \in Paths, owns \in BOOLEAN : AdminPublishes(n, owns)
    \/ \E status \in {"published", "rejected"} :
           \/ \E n \in Paths : DecideNote(n, status)
           \/ \E r \in DOMAIN requests : AdminDecides(r, status)
    \/ WriteNote("admin") \/ DecideSource("admin")
    \/ ApprovalStep
    \/ GuardrailStep \/ GuardrailAnswers \/ GuardrailFails
    \/ IntegrationStep
    \/ HourPasses \/ RequestAges
    \/ Crash

Spec == Init /\ [][Next]_vars

\* The curation cycle recurs and runs every stage to its end; of the questions that the
\* guardrail asks again and again some are answered, and of the reviews of a fit request.
Fairness ==
    /\ \A c \in Callers : WF_vars(CallerStep(c))
    /\ WF_vars(WriteNote("admin") \/ DecideSource("admin"))
    /\ WF_vars(ApprovalStep) /\ WF_vars(GuardrailStep) /\ WF_vars(IntegrationStep)
    /\ WF_vars(HourPasses)
    /\ WF_vars(GuardrailFails \/ GuardrailAnswers) /\ SF_vars(GuardrailAnswers)
    /\ \A r \in 1..MaxRequests : SF_vars(r \in DOMAIN requests /\ Approve(r))
FairSpec == Spec /\ Fairness

----------------------------------------------------------------------------
(* Properties.                                                             *)

Frontmatter(meta) ==
    /\ {"owner", "visibility", "status"} \subseteq DOMAIN meta
    /\ DOMAIN meta \subseteq {"owner", "visibility", "status", "original"}
    /\ meta.owner \in {Author, Sagwan}
    /\ meta.visibility \in {"private", "public"}

TypeOK ==
    /\ \A n \in Paths : Frontmatter(notes[n])
    /\ \A r \in DOMAIN requests : requests[r].source \in Paths
    /\ \A j \in Jobs : \A i \in DOMAIN jobs[j].writes : jobs[j].writes[i].note \in Paths
    /\ due \in BOOLEAN
    /\ spent \in 0..MaxEdits

\* Whoever publishes a note takes it over, and whatever old copies are written over it,
\* by merging or by replacing, the author's name is not lost (vault.py:set_publication_
\* status, sagwan_loop.py:_apply_claim_integration_results).
AuthorRemembered ==
    \A n \in Paths : notes[n].owner = Sagwan =>
        "original" \in DOMAIN notes[n] /\ notes[n].original = Author

\* The hour's requests of an author exceed the limit by no more than the calls that
\* were counting at once (vault.py:request_publication, of three steps without a lock).
RequestRateBounded == Cardinality(Recent) <= HOURLY + Cardinality(Callers) - 1

\* A claim that asks for review gets a verdict, whatever the answers leave out and
\* though a run takes only the first few (sagwan_loop.py:_parse_claim_guardrail_response).
RequestedClaimsDecided ==
    \A n \in 1..CLAIMS : notes[n].status = "requested" ~> notes[n].status # "requested"

\* Stated by run_sagwan_approval_cycle, which reviews what waits and says how many
\* requests it leaves for the next cycle (sagwan_loop.py:868): a request whose review
\* would let it pass is decided in the end.
DeferredRequestsReviewed ==
    \A r \in 1..MaxRequests :
        (r \in DOMAIN requests /\ requests[r].status \in Open /\ requests[r].source \notin Unfit)
            ~> (r \in DOMAIN requests /\ requests[r].status \notin Open)
=============================================================================
