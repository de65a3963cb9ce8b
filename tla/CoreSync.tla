------------------------------ MODULE CoreSync ------------------------------
(***************************************************************************)
(* Published notes and their copies in the Core API.  Every writer of a    *)
(* note loads it, does something else, and writes it back whole; only the  *)
(* write is under the note's lock.  Most writers merge the frontmatter     *)
(* they hold over the one they find; those of votes, conflict checks and   *)
(* maintenance put theirs in its place (metadata_replace).  A write that   *)
(* matters to the Core API starts a thread that sends the note and then    *)
(* stores the answered id; what failed is left to the subordinate's task   *)
(* sync_to_core_api.                                                       *)
(***************************************************************************)
EXTENDS Naturals, FiniteSets

CONSTANTS
    NOTES,       \* notes are the paths 1..NOTES, in the order they are listed
    Threads,     \* bound: background syncs at once
    Rejected,    \* notes whose content the Core API never accepts
    LIMIT,       \* notes that one task sends, 10 in the code
    THRESHOLD,   \* failures before the task waits, 3 in the code
    BACKOFF,     \* how long it waits, 24 hours in the code
    MaxEdits,    \* bound: edits ever made
    MaxAdmin,    \* bound: requests an admin ever makes
    MaxCrashes   \* bound: crashes of the process

\* What an instance assumes of the constants.
Bounds ==
    /\ {NOTES, LIMIT, THRESHOLD, BACKOFF} \subseteq Nat \ {0}
    /\ {MaxEdits, MaxAdmin, MaxCrashes} \subseteq Nat
    /\ Rejected \subseteq 1..NOTES
    /\ IsFiniteSet(Threads) /\ Threads \cap {"task", "admin", "editor"} = {}

VARIABLES
    notes,   \* body and frontmatter of each note
    core,    \* external: the records of the Core API, by id
    jobs,    \* who holds a loaded copy, and how far they are
    retry,   \* whether a task sync_to_core_api is pending
    ran,     \* whether the task has run since the clock's last tick
    spent    \* how much of each bound is used

vars == <<notes, core, jobs, retry, ran, spent>>

Paths == 1..NOTES
Fields == {"published", "title", "core_api_id", "failures", "last_failure", "blocked"}
Jobs == Threads \cup {"task", "admin", "editor"}
Ids == 1..(NOTES + 2 * Cardinality(Jobs) + 1)

\* Frontmatter holds the fields that were ever written.  A field that is absent reads
\* as 0; last_failure holds how long ago the failure was, up to BACKOFF.
Get(meta, field) == IF field \in DOMAIN meta THEN meta[field] ELSE 0

\* Mutant of Merge: what is written replaces the frontmatter.
Replace(meta, old) == meta

Merge(meta, old) ==
    [f \in DOMAIN meta \cup DOMAIN old |-> IF f \in DOMAIN meta THEN meta[f] ELSE old[f]]

Without(meta, fields) == [f \in DOMAIN meta \ fields |-> meta[f]]

Idle == [pc |-> "idle", note |-> 1, body |-> 0, meta |-> << >>, answer |-> 0,
         force |-> FALSE, waited |-> FALSE, sent |-> 0, replaces |-> FALSE]

Content(body, meta) == [body |-> body, title |-> Get(meta, "title")]

\* What is sent for a note or held by somebody is still known by its id.  A record
\* nobody knows any more is dropped and its id used again.
KnownIds ==
    ({Get(notes[n].meta, "core_api_id") : n \in Paths}
     \cup {Get(jobs[j].meta, "core_api_id") : j \in Jobs}
     \cup {jobs[j].answer : j \in Jobs}) \ {0}

NewId == CHOOSE i \in Ids : i \notin KnownIds

HasFailure(meta) ==
    \/ Get(meta, "failures") > 0
    \/ "last_failure" \in DOMAIN meta
    \/ Get(meta, "blocked") = 1

ShouldSync(old, new) ==
    /\ Get(new.meta, "published") = 1
    /\ HasFailure(new.meta) => old.body # new.body
    /\ \/ Get(old.meta, "published") = 0
       \/ Get(new.meta, "core_api_id") = 0
       \/ old.body # new.body
       \/ Get(old.meta, "title") # Get(new.meta, "title")

\* The frontmatter that write_document stores for the job self.
Written(self, meta, old) == IF jobs[self].replaces THEN meta ELSE Merge(meta, old)

\* write_document by the job self, which then holds rest.  Unless it skips the sync,
\* a write that should be synced starts a background thread with what was written.
WriteDocument(self, rest, n, body, meta, skip) ==
    LET new == [body |-> body, meta |-> Written(self, meta, notes[n].meta)]
        syncs == ~skip /\ ShouldSync(notes[n], new)
    IN  /\ notes' = [notes EXCEPT ![n] = new]
        /\ IF syncs
           THEN \E t \in Threads :
                    /\ jobs[t] = Idle
                    /\ jobs' = [jobs EXCEPT ![self] = rest, ![t] =
                           [Idle EXCEPT !.pc = "send", !.note = n, !.body = new.body,
                                        !.meta = new.meta]]
           ELSE jobs' = [jobs EXCEPT ![self] = rest]

Holding(n, pc) == [Idle EXCEPT !.pc = pc, !.note = n, !.body = notes[n].body,
                               !.meta = notes[n].meta]

\* An editor loads a note, to change it in place or to put the changed copy in its place.
LoadForEdit(n, replaces) ==
    /\ jobs["editor"] = Idle
    /\ spent.edits < MaxEdits
    /\ jobs' = [jobs EXCEPT !["editor"] = [Holding(n, "write") EXCEPT !.replaces = replaces]]
    /\ UNCHANGED <<notes, core, retry, ran, spent>>

SaveEdit ==
    LET job == jobs["editor"]
        edit == spent.edits + 1
    IN  /\ job.pc = "write" /\ ~job.replaces
        /\ \/ WriteDocument("editor", Idle, job.note, edit, job.meta, FALSE)
           \/ WriteDocument("editor", Idle, job.note, job.body,
                            Merge([title |-> edit], job.meta), FALSE)
        /\ spent' = [spent EXCEPT !.edits = edit]
        /\ UNCHANGED <<core, retry, ran>>

\* A vote, the verdict of a conflict check or of maintenance: with the copy go all fields
\* as they were when it was loaded, and a revision changes the body.
SaveReplacing ==
    LET job == jobs["editor"]
        edit == spent.edits + 1
    IN  /\ job.pc = "write" /\ job.replaces
        /\ \E body \in {job.body, edit} :
               WriteDocument("editor", Idle, job.note, body, job.meta, FALSE)
        /\ spent' = [spent EXCEPT !.edits = edit]
        /\ UNCHANGED <<core, retry, ran>>

Publish(n) ==
    /\ Get(notes[n].meta, "published") = 0
    /\ jobs["editor"] = Idle
    /\ WriteDocument("editor", Idle, n, notes[n].body, [published |-> 1], FALSE)
    /\ UNCHANGED <<core, retry, ran, spent>>

----------------------------------------------------------------------------
(* Sending.  sync_published_note updates the record the frontmatter names  *)
(* and else creates one; the answer may be lost after the record is        *)
(* written, or the request may fail before.                                *)

Answered(j, id) ==
    [jobs EXCEPT ![j].answer = id, ![j].sent = @ + 1,
                 ![j].pc = IF j \in Threads THEN "store" ELSE "write"]

Target(job) == IF job.force THEN 0 ELSE Get(job.meta, "core_api_id")

SendDone(j) ==
    LET job == jobs[j]
        id == IF Target(job) = 0 THEN NewId ELSE Target(job)
    IN  /\ job.pc = "send" /\ job.note \notin Rejected
        /\ core' = [core EXCEPT ![id] = Content(job.body, job.meta)]
        /\ jobs' = Answered(j, id)
        /\ UNCHANGED <<notes, retry, ran, spent>>

\* No answer: a record that was updated is updated, one that was created is unknown.
SendLost(j) ==
    LET job == jobs[j] IN
    /\ job.pc = "send" /\ job.note \notin Rejected /\ Target(job) # 0
    /\ core' = [core EXCEPT ![Target(job)] = Content(job.body, job.meta)]
    /\ jobs' = Answered(j, 0)
    /\ UNCHANGED <<notes, retry, ran, spent>>

SendFails(j) ==
    /\ jobs[j].pc = "send"
    /\ jobs' = Answered(j, 0)
    /\ UNCHANGED <<notes, core, retry, ran, spent>>

\* The frontmatter of a success.  It drops the fields that tell of failures, so the
\* merge leaves them as they are in the note.
Succeeded(meta, id) ==
    Merge([core_api_id |-> id, failures |-> 0], Without(meta, {"last_failure", "blocked"}))

Capped(count) == IF count > THRESHOLD THEN THRESHOLD ELSE count

FailedMeta(meta, blocks) ==
    Merge(IF blocks THEN [failures |-> Capped(Get(meta, "failures") + 1),
                          last_failure |-> 0, blocked |-> 1]
                    ELSE [failures |-> Capped(Get(meta, "failures") + 1),
                          last_failure |-> 0], meta)

----------------------------------------------------------------------------
(* A background thread stores the id if the body is still what it sent;    *)
(* otherwise, and after a failure, it leaves the note to the task.         *)

GiveUp(t) ==
    /\ jobs[t].pc = "store"
    /\ jobs[t].answer = 0 \/ notes[jobs[t].note].body # jobs[t].body
    /\ retry' = TRUE
    /\ jobs' = [jobs EXCEPT ![t] = Idle]
    /\ UNCHANGED <<notes, core, ran, spent>>

LoadToStore(t) ==
    LET job == jobs[t] IN
    /\ job.pc = "store" /\ job.answer # 0
    /\ notes[job.note].body = job.body
    /\ jobs' = [jobs EXCEPT ![t].pc = "write", ![t].meta = notes[job.note].meta]
    /\ UNCHANGED <<notes, core, retry, ran, spent>>

StoreId(t) ==
    LET job == jobs[t] IN
    /\ t \in Threads /\ job.pc = "write"
    /\ WriteDocument(t, Idle, job.note, job.body, Succeeded(job.meta, job.answer), TRUE)
    /\ UNCHANGED <<core, retry, ran, spent>>

----------------------------------------------------------------------------
(* The subordinate's task visits the notes in order.                       *)

StartTask ==
    /\ retry
    /\ jobs["task"] = Idle
    /\ retry' = FALSE
    /\ ran' = TRUE
    /\ jobs' = [jobs EXCEPT !["task"] = [Idle EXCEPT !.pc = "scan"]]
    /\ UNCHANGED <<notes, core, spent>>

Unsynced(meta) == Get(meta, "published") = 1 /\ Get(meta, "core_api_id") = 0

\* Mutant of BacksOff: refused notes are sent whenever the task runs.
NeverBacksOff(meta) == FALSE

BacksOff(meta) ==
    /\ Get(meta, "failures") >= THRESHOLD
    /\ "last_failure" \in DOMAIN meta
    /\ meta["last_failure"] < BACKOFF

NextVisit(job) == IF job.note = NOTES THEN Idle
              ELSE [Idle EXCEPT !.pc = "scan", !.note = job.note + 1, !.sent = job.sent]

Visit ==
    LET job == jobs["task"]
        meta == notes[job.note].meta
    IN  /\ job.pc = "scan"
        /\ jobs' = [jobs EXCEPT !["task"] =
               IF job.sent >= LIMIT THEN Idle
               ELSE IF Unsynced(meta) /\ ~BacksOff(meta)
               THEN [Holding(job.note, "send") EXCEPT
                        !.sent = job.sent,
                        !.waited = Get(meta, "failures") >= THRESHOLD]
               ELSE NextVisit(job)]
        /\ UNCHANGED <<notes, core, retry, ran, spent>>

WriteResult ==
    LET job == jobs["task"] IN
    /\ job.pc = "write"
    /\ WriteDocument("task", NextVisit(job), job.note, job.body,
           IF job.answer # 0 THEN Succeeded(job.meta, job.answer)
           ELSE FailedMeta(job.meta, job.waited), TRUE)
    /\ UNCHANGED <<core, retry, ran, spent>>

\* The curation cycle enqueues the task while a published note has no id.
ScanUnsynced ==
    /\ \E n \in Paths : Unsynced(notes[n].meta)
    /\ ~retry
    /\ retry' = TRUE
    /\ UNCHANGED <<notes, core, jobs, ran, spent>>

----------------------------------------------------------------------------
(* An admin resyncs a note, as a new record if forced, or retries one that *)
(* failed.                                                                 *)

AdminLoads(n, force) ==
    /\ jobs["admin"] = Idle
    /\ spent.admin < MaxAdmin
    /\ Get(notes[n].meta, "published") = 1
    /\ jobs' = [jobs EXCEPT !["admin"] = [Holding(n, "send") EXCEPT !.force = force]]
    /\ spent' = [spent EXCEPT !.admin = @ + 1]
    /\ UNCHANGED <<notes, core, retry, ran>>

AdminResyncs ==
    LET job == jobs["admin"] IN
    /\ job.pc = "write" /\ job.force
    /\ IF job.answer = 0
       THEN /\ jobs' = [jobs EXCEPT !["admin"] = Idle]
            /\ UNCHANGED notes
       ELSE WriteDocument("admin", Idle, job.note, job.body,
                          Merge([core_api_id |-> job.answer], job.meta), FALSE)
    /\ UNCHANGED <<core, retry, ran, spent>>

AdminRetries ==
    LET job == jobs["admin"] IN
    /\ job.pc = "write" /\ ~job.force
    /\ WriteDocument("admin", Idle, job.note, job.body,
           IF job.answer # 0 THEN Succeeded(job.meta, job.answer)
           ELSE FailedMeta(job.meta, FALSE), TRUE)
    /\ UNCHANGED <<core, retry, ran, spent>>

Older(meta) ==
    [f \in DOMAIN meta |->
        IF f = "last_failure" /\ meta[f] < BACKOFF THEN meta[f] + 1 ELSE meta[f]]

\* The task runs at least once in a unit of time, and BACKOFF is several.
Tick ==
    /\ jobs["task"] = Idle
    /\ ran \/ \A n \in Paths : ~Unsynced(notes[n].meta)
    /\ ran' = FALSE
    /\ notes' = [n \in Paths |-> [notes[n] EXCEPT !.meta = Older(@)]]
    /\ jobs' = [j \in Jobs |-> [jobs[j] EXCEPT !.meta = Older(@)]]
    /\ UNCHANGED <<core, retry, spent>>

\* The queue file survives; a task that was running is not taken up again.
Crash ==
    /\ spent.crashes < MaxCrashes
    /\ jobs' = [j \in Jobs |-> Idle]
    /\ spent' = [spent EXCEPT !.crashes = @ + 1]
    /\ UNCHANGED <<notes, core, retry, ran>>

Init ==
    /\ notes = [n \in Paths |-> [body |-> 0, meta |-> << >>]]
    /\ core = [i \in Ids |-> Content(0, << >>)]
    /\ jobs = [j \in Jobs |-> Idle]
    /\ retry = FALSE
    /\ ran = FALSE
    /\ spent = [edits |-> 0, admin |-> 0, crashes |-> 0]

Send(j) == SendDone(j) \/ SendLost(j) \/ SendFails(j)
Store(t) == GiveUp(t) \/ LoadToStore(t) \/ StoreId(t)
TaskStep == StartTask \/ Visit \/ Send("task") \/ WriteResult

Next ==
    \/ \E n \in Paths, replaces \in BOOLEAN : LoadForEdit(n, replaces)
    \/ SaveEdit \/ SaveReplacing
    \/ \E n \in Paths : Publish(n)
    \/ \E t \in Threads : Send(t) \/ Store(t)
    \/ TaskStep
    \/ ScanUnsynced
    \/ \E n \in Paths, force \in BOOLEAN : AdminLoads(n, force)
    \/ Send("admin") \/ AdminResyncs \/ AdminRetries
    \/ Tick
    \/ Crash

Spec == Init /\ [][Next]_vars

\* The process runs, its curation cycle and its worker recur and time passes; of the
\* attempts that the task makes for a note the Core API accepts, some are answered.
Fairness ==
    /\ SF_vars(Tick) /\ WF_vars(ScanUnsynced) /\ WF_vars(TaskStep)
    /\ WF_vars(SaveEdit \/ SaveReplacing)
    /\ \A t \in Threads : WF_vars(Send(t)) /\ WF_vars(Store(t))
    /\ WF_vars(Send("admin") \/ AdminResyncs \/ AdminRetries)
    /\ \A n \in Paths : SF_vars(jobs["task"].note = n /\ SendDone("task"))
FairSpec == Spec /\ Fairness

----------------------------------------------------------------------------
(* Properties.                                                             *)

TypeOK ==
    /\ \A n \in Paths : /\ notes[n].body \in 0..MaxEdits
                        /\ DOMAIN notes[n].meta \subseteq Fields
                        /\ Get(notes[n].meta, "core_api_id") \in Ids \cup {0}
                        /\ Get(notes[n].meta, "failures") \in 0..THRESHOLD
                        /\ Get(notes[n].meta, "last_failure") \in 0..BACKOFF
    /\ \A j \in Jobs : /\ jobs[j].pc \in {"idle", "scan", "send", "store", "write"}
                       /\ jobs[j].answer \in Ids \cup {0}
                       /\ DOMAIN jobs[j].meta \subseteq Fields
    /\ retry \in BOOLEAN

\* The editor is about to put a copy of note n in its place that has no id.
ReplacesId(n) ==
    LET job == jobs["editor"]
    IN  /\ job.pc = "write" /\ job.replaces
        /\ job.note = n /\ Get(job.meta, "core_api_id") = 0

\* An id that a note has is lost to nobody who merges, however old the copy: not to
\* threads, the task, admins or edits, but only to one who loaded the note before it had
\* the id and replaces the frontmatter.
IdKeptByMerges ==
    [][\A n \in Paths :
          /\ Get(notes[n].meta, "core_api_id") # 0
          /\ Get(notes'[n].meta, "core_api_id") = 0
          => ReplacesId(n) /\ jobs'["editor"].pc = "idle"]_vars

\* A published note gets its record in the end, even if notes before it in the list
\* are refused whenever they are sent (subordinate.py:_sync_published_notes_to_core_api,
\* whose backoff is what keeps them from using up the limit).
EventuallySynced ==
    \A n \in Paths \ Rejected :
        Unsynced(notes[n].meta) ~> ~Unsynced(notes[n].meta)

\* Stated by the health report, which lists the blocked notes as notes whose sync has
\* failed repeatedly (sagwan_loop.py:7351): a note that is synced is not blocked.
NotBlockedOnceSynced ==
    \A n \in Paths : Get(notes[n].meta, "core_api_id") # 0
                         => Get(notes[n].meta, "blocked") = 0

\* Stated by the retry that the bridge enqueues for every sync that fails or whose note
\* was edited meanwhile (core_api_bridge.py:65): in the end the record is the note.
UpdateReachesCore ==
    \A n \in Paths \ Rejected :
        <>[](LET id == Get(notes[n].meta, "core_api_id")
             IN  id # 0 => core[id] = Content(notes[n].body, notes[n].meta))
=============================================================================
