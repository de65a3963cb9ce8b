# OpenAkashic in TLA+

Specifications of the protocols inside OpenAkashic, checked with TLC on small
instances and, where it matters most, proved with TLAPS for every instance.
The code is the reference: a definition is a translation of the lines that
`PROJECT.json` maps it to.

## 1. The system

OpenAkashic is a shared knowledge vault for agents. The running system is two
services:

* `src/closed-web/server/app`: the vault server. Notes are markdown files with a
  frontmatter; HTTP and MCP tools read and write them; an agent, *Sagwan*, curates
  them with LLM calls in background loops, and a worker without an LLM, the
  *Subordinate* (*Busagwan*), crawls and synchronises.
* `src/public-methods/api/app`: the public archive of methods, their reported
  outcomes and investigations, in one SQLite file.

`src/api` is the earlier claims service, `src/closed-web/server/bench` and
`src/public-methods/benchmarks` are experiments with their data.

The vault server is one process. FastAPI runs each synchronous endpoint in a
thread of a pool; the lifespan starts three loops (`subordinate_loop`,
`sagwan_loop`, `sagwan_curation_loop`, `main.py:2814-2861`), each of which runs a
cycle in a thread. So all state below is shared by threads, and what survives a
restart is what is in files.

| Component | State | Operations | Interacts with | Hard behaviour | Correct when |
|---|---|---|---|---|---|
| Sagwan task queue (`sagwan_tasks.py`, worker in `sagwan_loop.py`) | `sagwan-queue.json`, path locks in memory | enqueue, self-enqueue, claim, complete, prune | bootstraps, admin endpoints, sweep; handlers write notes | leases, retries, crash, two workers | while its lease is good, a task is in one hand, its verdict final and the one open task of an unchanged note; bounded chains, attempts and backlog; the backlog drains |
| Curation cycle (`sagwan_loop.py`) | state notes, LLM call history | some twenty stages, chat, approval | vault, queues, LLM | cooldowns and budgets checked before use; stale notes after an LLM call | a stage's writes do not undo others'; caps hold |
| Subordinate queue (`subordinate.py`) | `subordinate-queue.json`, wake event | enqueue, cycle, prune | loop in `main.py`, core sync | no lease; file truncated in place; wake-ups | no task lost or stuck; every enqueue is seen |
| Vault (`vault.py`) | note files, per-path locks, claim-id cache | write, append, request and decide publication, move, delete | everything | read-modify-write outside the lock; two notes per decision | no lost update; request and source agree |
| Core sync (`core_api_bridge.py`) | identifiers and failure counts in notes | background sync, retry | Core API, subordinate queue, vault | duplicate creation, lost identifier | one capsule per note in the end |
| Method archive (`research_method_store.py`, `research_method_revisions.py`) | SQLite tables | create, outcome, opinion, revise, read versions | HTTP | retried and concurrent writes, readers between statements | idempotent; versions immutable and contiguous |
| Method evidence and graph (`research_method_evidence.py`, ...) | SQLite tables | append evidence, relate | method archive | as above | as above |
| Investigations (`research.py`, `research_store.py`) | SQLite tables | collect, save, export | connectors | slow collection before the transaction | newest snapshot wins; changes are complete |
| Agenda (`sagwan_agenda.py`) | a JSON file | goals, concerns, expiry | cycles, admins | caps and expiry | bounded; a closed goal stays closed |
| Self edits, sweep, benchmark | notes, a running flag | attempt an edit or action | vault, queue | caps checked first, recorded later | caps hold |
| Users (`users.py`) | a JSON file under flock | create, rotate, password | endpoints | two processes | unique names; no lost update |
| Memory, librarian, site, indexes, MCP, HTTP | notes and caches | read, render, index | vault | stale caches | rebuilt from the files |

`PROJECT.json` lists every component with its status and every hazard at its line.

## 2. Modules

One module per component; `MC...` modules put several together for one run. Where two
components share state (agenda and upkeep, the two stages on one capsule folder, the
callers and cycles on one note) they are one module. Where they only share the process
and the vault, in notes of different kinds, a composite holds the variables of all and
a variable `focus`: a behaviour picks one component at the start and follows it, so
that the components' state spaces add instead of multiplying. This loses nothing for
properties that speak of one component each, and saves a run per component.

| Module | Models | Run in | Proofs |
|---|---|---|---|
| `SagwanTasks` | the durable queue with its workers, leases and path locks | `MCSagwanTasks`, `MCQueues`, `MCServed` | `SagwanTasksProofs` |
| `TaskLifecycle` | what that queue promises; the end of `SagwanTasks` maps to it | `MCSagwanTasks` | `SagwanTasksProofs` |
| `SubordinateQueue` | the other queue, its loop and wake event, the signal scans | `MCSubordinateQueue`, `MCQueues`, `MCServed` | `QueuesProofs` |
| `MethodArchive` | idempotent writes and readers of several statements | `MCServices` | `ServicesProofs` |
| `Investigations` | slow collection, one saving transaction, changes | `MCServices` | `ServicesProofs` |
| `CoreRecords` | the requests by which one send of a note becomes claims and a capsule | `MCServices` | `ServicesProofs` |
| `CoreSync` | the threads, tasks and admins that keep a note and its record together | `MCServices`, `MCStages` | `ServicesProofs` |
| `Contributions` | writes, publication requests, approvals, guardrail and integration of claims | `MCVault`, `MCStages` | `VaultProofs` |
| `Reviews` | votes, reviews, counts and the verdict made of them | `MCVault` | `VaultProofs` |
| `Capsules` | stages E and K with their guards against duplicates | `MCVault` | `VaultProofs` |
| `ResearchLog` | anchors of four stages in one note, and lessons | `MCVault` | `VaultProofs` |
| `SearchGaps` | the logs of failed searches and their analysis | `MCVault`, `MCStages` | `VaultProofs` |
| `Curation` | the cycle, its hourly budget of calls, revalidation | `MCOperations` | `OperationsProofs` |
| `Agenda`, `Maintenance` | goals and concerns; upkeep of notes by rank | `MCOperations` | `OperationsProofs` |
| `SelfEdits` | stage S: edits of the agent's own notes through a gate | `MCAgent` | `AgentProofs` |
| `Sweeps` | stage Z: capped actions chosen by the agent | `MCAgent` | `AgentProofs` |
| `PeriodicStages` | stages due once in so many hours, queued or inline | `MCAgent` | `AgentProofs` |
| `AgentMemory` | working memory, trimming, distillation | `MCAgent` | `AgentProofs` |
| `Settings` | two settings files | `MCAgent` | `AgentProofs` |
| `Accounts` | nicknames, renames note by note, the sign-up cap | `MCRecords` | `RecordsProofs` |
| `Threads` | reviews as notes with targets and counts | `MCRecords` | `RecordsProofs` |
| `ChatSessions`, `ToolLoop` | a chat session as a note; four loops of tool calls | `MCRecords` | `RecordsProofs` |
| `PublicMemory` | claims and capsules of `src/api` and how a query is answered | `MCRecords` | |
| `SearchIndexes`, `NoteViews` | caches and indexes of the vault; page, graph and ranking | `MCRecords` | `RecordsProofs` |
| `EvidenceRefs` | packets of evidence, their spans and citations | `MCRecords` | |

Each module's CONSTANTS and VARIABLES carry the comments that say what they stand for;
`PROJECT.json` maps each definition to its lines.

A composite may hold an instance of a proof module instead of the module it is about
(`MCQueues` of `SagwanTasksProofs`): what is proved of the component can then be cited of
the composite, and for TLC nothing differs. The proof modules of the other composites extend
them, and speak of a component by the name of its instance. `SumTheorems` has what all of
them need of numbers, finite sets, sums and folds (section 13).

## 3. SagwanTasks

| Code | Model |
|---|---|
| the list in `sagwan-queue.json` | `tasks`, a record per identifier in list order; `next_id` |
| `task_queue_kinds_disabled` in the settings | `disabled` |
| a thread in `run_sagwan_task_worker` | a worker `w`: `pc[w]`, `left[w]` claims left, `job[w]` its `dict(task)` |
| `_PATH_LOCKS` | `held[w]`, the paths whose lock `w` holds |
| `_QUEUE_LOCK` section, file replaced by `os.replace` | one action |
| `enqueue_task` from bootstraps, sweep and admins | `EnqueueTask` |
| `prune_done` | `StartCycle` |
| `claim_next_task` | `ClaimNextTask`, `EndCycle` when it returns None or the cycle's tasks are used up |
| `acquire_path_locks`, `release_path_locks` | `AcquirePathLock` one lock at a time in sorted order, `ReleasePathLocks` |
| a handler up to its verdict and its writes | `HandlerDecides`; an exception or a "failed" outcome is `HandlerFails` |
| `self_enqueue`, two lock sections | `SelfEnqueueCheck`, then `SelfEnqueue`, `SelfEnqueueDeclined` or `SelfEnqueueRaises` |
| `complete_task` | `CompleteTask` with `Done` or `Failed`, inside the action of the handler's end |
| process death and restart | `Crash`: workers and locks vanish, the file stays |
| the clock | `Tick` |

Time is relative. A record keeps the distance of each stamp to the present
(`run_after`, `lease`, `age`) and `Tick` ages all of them, so no clock grows.
Stamps in the past matter only by their order, and `AgedStamp` keeps just that.

A lease lasts 600 s, which the waiting for path locks and the LLM calls of a handler
use up; nothing stops a handler then, another worker may claim its task, and the late
`complete_task` still finds it. No run and no theorem assumes that leases are met.
Three history variables, which only properties read, say where they were not: a worker
in `lapsed` has in hand a task whose lease ran out, or of which one who had lost it has
reported meanwhile; `overrun` are the tasks whose lease ever ran out in a worker's hands;
`attempts` counts the claims of a task. The properties are exact about it:

| | with leases met | where a lease was overrun |
|---|---|---|
| `ExclusiveExecution` | one worker has the task | others have it only after their claim has lapsed |
| `UniqueOpenTask` | one open task of a signature | only the older of two was overrun: it came back by a late report |
| `FinishedIsFinal` | a verdict stays | only one who lost the task changes it, with its report |
| `AttemptsBounded` | one run, its retries, and one for each crash | that often for each worker |
| `WriteSetExclusion`, `NoLockDeadlock`, `LineageBounded`, `BacklogBounded` | | the same |

Abstractions: a payload, a reason and a decision trace are left out, a note path is
a number, a freshness key is a member of `Freshness` (an enqueue reads the note's
`updated_at`, which others may change at any time), the verdict of a handler is a
free choice, and a handler may cite any path for a follow-up.

Left out: `update_task` and `register_wake_event` of the Sagwan queue (nothing calls
them), the `handler is None` and `StageRateLimitExceeded` branches of the worker
(every kind has a handler, and every handler catches that exception itself and
returns "failed"), and the recovery from an unreadable queue file.

## 4. TaskLifecycle

`TaskLifecycle` has no file, lease, lock or clock: a task is absent, open for a note
with some retries, finished or forgotten, and each worker has a task in hand, or one it
has lost and still works on (`late`), or none. Its steps are `Create` (only if the note
has no open task), `Take` (an open task nobody has in hand), `Report` (a retry within the
budget, or the end), `Lapse` of some hands, `LateReport`, `Forget` and `Crash`, after
which every hand is empty. `LateReport` is what `complete_task` permits by not asking who
holds the lease: it retries or finishes the task once, whatever became of it but if it is
forgotten, and who has it in hand loses it.

The last part of `SagwanTasks` is its mapping to it: pending and running records are
open, done and dead-lettered ones finished, a record missing from the file is forgotten
if its identifier was given out and absent if not; the note is `Signature` (kind, path,
freshness); a worker has its job in hand, or late if it is in `lapsed`, from the claim to
`complete_task`. Locking, handlers, follow-up checks and switched kinds are stutters, and
so is time but for the leases that it ends.

`LifecycleKept` is checked by the run `lease` and proved as `QueueKeepsLifecycle` from
`TypeInv` and `HandsInv`.

## 5. SubordinateQueue

| Code | Model |
|---|---|
| the list in `subordinate-queue.json` | `order`, the identifiers in list order, and `tasks`, the records |
| the file between `truncate` and `write` | `saving`; `_QUEUE_LOCK` keeps every queue function out until `WriteQueue`, a crash does not |
| the settings file | `settings` |
| a thread in `run_subordinate_cycle` | `pc`, `kinds` (the settings it read), `late` (the age of its `now`), `left`, `job` |
| `subordinate_loop` | `loop`: at its top, in a cycle, waiting for the event or its timeout, asleep after an exception |
| `_WAKE_EVENT` | `wake_event`; a thread between its save and `call_soon_threadsafe(ev.set)` is counted in `wakes` |
| `enqueue_subordinate_task` | `Enqueue` (limit, dedup), then `WriteQueue`, then `TriggerWake` |
| `_curate_enqueue_signal_scans` | `ReadLiveKinds`, then one `EnqueueScan` per missing kind; `todo` is what is left |
| `POST /api/admin/subordinate/run` | `RequestCycle` |
| a cycle | `StartCycle` or `SkipCycle`; `ClaimTask`, `Report` in turn; `EndCycle` or `CycleRaises` |
| the loop | `LoopSetsOut` (settings read, event cleared), the cycle, `LoopResumes` |
| process death and restart | `Crash` |

`run_after` is kept relative to the present, and a cycle compares with the time it
took at its start: a task is due for it when `run_after <= -late`. A date that does not
parse is `garbled`. A done or failed task is read by listings only and leaves the
model's queue at once; its pruning a week later is no step. A handler returns or
raises, which closes the record alike. `unseen` is a history variable: something was added
since the loop last set out.

Left out: what the handlers do (the synchronisation with the Core API belongs to
Vault and CoreSync), chat, the status counts, which read the file without the lock,
and exceptions of the loop other than an unparsable date.

## 6. The services: MethodArchive, Investigations, CoreRecords, CoreSync

**MethodArchive.** A write is one `BEGIN IMMEDIATE` transaction, hence one action:
`CreateMethod`, `AddOutcome`, `AddOpinion`, `Revise`. Its guard is what the transaction
checks (the key is fresh, the outcome belongs to the method, the expected version is
the current one); a refused write and a replay change no table and are no action. A
read has no transaction, so each of its statements is an action on `reads[r]`:
`GetMethod`, `GetFeedback`, `CountFeedback`; `ReadCurrent`, `CountRevisions`,
`ReadHistory`, `FetchMissing`; `LookInRevisions`, `LookAtCurrent`. `AppliedOnce`,
`HistoryUnbroken`, `FeedbackExact` relate the tables to each other, `ReadsHonest` what a
reader gathered to what the tables hold when it answers, `VersionsImmutable` is the
action property. Texts are model values; pages are scaled to one row.

**Investigations.** `Accept`, then one `Collect` per source (the sources of `web` change
meanwhile by `Publish`), then `SaveInvestigation` in one transaction or `FindSaved` for
a key already used. `HistoryTraceable` folds the saved investigations in commit order
and compares with the saved snapshots: the reported changes must replay to them.

**CoreRecords.** A send of a capsule is a request per point (`PostClaim`,
`PostEvidence`, `PatchClaimStatus`), then `SendCapsule`. Each request may fail, be
carried out with its answer lost, or die with the process; other senders and an editor
interleave. `CitedClaimsHold` is the promise of that order.

**CoreSync.** All who load a note, talk to the Core API and write back: the background
thread (`GiveUp`, `LoadToStore`, `StoreId`), the task (`StartTask`, `Visit`,
`WriteResult`), the admin's resync and retry, editors and `ScanUnsynced`. `Written` has
`write_document`'s two ways with the frontmatter found under the lock: most writers merge
theirs over it (`Merge`), while votes (`confirm_note`, `dispute_note`), conflict checks and
maintenance put the copy that they loaded in its place (`metadata_replace`). An editor is of
one kind or the other from its load on (`LoadForEdit`, then `SaveEdit` or `SaveReplacing`).
The code does lose the id of a record to the second kind, so `IdKeptByMerges` says that it
is lost to nobody else: to no thread, task, admin or edit, however old its copy.
The Core API itself (`core`) is external: what `src/closed-web` may assume of it.

## 7. The vault: Contributions, Reviews, Capsules, ResearchLog, SearchGaps

**Contributions.** Whoever changes a note loads it, thinks and writes: `jobs[j]` holds
what is loaded and the writes still to come, `WriteNote` does one `write_document`
under the note's lock. Callers (`UpsertNote`, `RewriteNote`, `InspectNote`,
`AnnotateNote`, `RequestPublication` with its three steps), an admin, the approval
cycle, the guardrail and the integration cycle are all jobs, and `Crash` drops all
their intentions. Bodies are left out. `Recent` requests are those of the last hour.

**Reviews.** Votes in the frontmatter (`Vote`, `WriteVote`), reviews as notes
(`ReviewNote`, `EditReview`), `Recount` in three steps (load, scan, write),
consolidation (`ReadReviews`, `Decide`) and the conflict check (`CheckNote`,
`ResolveConflict`). Confirming and disputing put the whole loaded frontmatter back
(`metadata_replace`), which is why `VotesHonest` has to be about copies too.

**Capsules.** Stage E (`Generate`, `WriteGenerated`, `MarkSeed`) and stage K (`Select`
behind the recent topics, the cooldown, the live capsules; `Compare`, `Research`,
`WriteResearched`, `LogTopic`). A title decides the path; a semantic search finds what it
finds (`found` is free). Human approval and retirement are `Approve` and `Retire`.

**ResearchLog.** Four stages keep the time of their last run in the frontmatter of one
note; one of them appends its copy. `finished` is a history variable. **SearchGaps.**
Appends are under a lock, `Read` and `Rotate` of the analysis are not; `asked` is a history
variable that counts the misses there were.

## 8. Sagwan's stages: Curation, Agenda, Maintenance, SelfEdits, Sweeps, PeriodicStages, AgentMemory, Settings

**Curation.** `runs` are the loop's cycle and an admin's. `Ask` is allowed by
`_check_rate_limit` (calls recorded in the last hour), `Record` comes after the answer.
Stage C goes note by note (`Ask`, `Judge` or `JudgeFails`), the stages before and
after only by the calls they make. The order of a cycle in the code is A to M, then the
benchmark, distillation, S, Z; with the task queue, F, I, K, L and M only enqueue, and the
worker at the end executes.

**Maintenance** with **Agenda**: `Bootstrap` fills the queue (conflicts of unchecked notes
first, then by `Rank`: age, isolation, goal bonus), `StartInline` is the other mode.
`Load`, then one of the verdicts (`Stay`, `Merge`, `Supersede`, `Archive`,
`CheckConflict`) or `Fails`. `Recorded` turns citations into weak and canonical links.

**SelfEdits**: `Ask`, `Propose` or `Declines`, `Apply` under the gate's lock with the
limits read from `history`; `WritePolicy` goes past the gate. **Sweeps**: `Begin`, `Answer`,
`Act` each action against the log, `Force` after a week of silence, `End` writes the log.
**PeriodicStages**: `Check` or `Enqueue`, `Claim`, `Answer`, one `WriteRequest` per proposal,
`Record`. **AgentMemory**: `Remember` with `AppendEpisode`, `Measure`, `Cut`; `Distil`
with its cursor, `Stamp` after the call. **Settings**: `Truncate` and `Fill` are the two
halves of a save; what is loaded between them is the defaults.

## 9. What is kept and shown: Accounts, Threads, ChatSessions, ToolLoop, PublicMemory, SearchIndexes, NoteViews, EvidenceRefs

**Accounts**: the store is one locked read-change-write (`Store`); the notes are renamed
afterwards (`Scan`, `Save` note by note). **Threads**: the MCP tool runs on the event loop, so
`UpsertReview` with its checks and recounts is one action; `WriteDirectly` is the HTTP
endpoint, which checks nothing. **ChatSessions**: `Receive`, then load and write of the
question, the model, load and write of the reply. **ToolLoop**: one action per tool call.
**PublicMemory**: one action per transaction; `Fused` is the reciprocal rank fusion
with its order of ties. **SearchIndexes**: the list cached for half a minute under a lock, the full-text
index brought up to date by each search, the vectors with `dirty`, timer and save.
**NoteViews**: `ShowNote`, `ShowGraph`, `Search` as functions of the notes there are; the
ranking is the one order of what was found that `Before` admits, and of claims with
one text (`SaysTheSame`) the first of it stays.
**EvidenceRefs**: `Search` and `RegisterRead` hand out packets, `Render` cites from them,
`Build` replaces the index.

Abstractions here: a text stands for its words and its vector, ranks are any order
(EvidenceRefs) or computed from small scores (PublicMemory, NoteViews); Accounts has one note,
Threads one stance in the checked instance.

## 10. Runs

Every bound is a CONSTANT with `Max` in its name (how often edits, failures, crashes,
writes happen at all) or a knob of the code scaled down until it is hit within a few
steps; each cfg starts with its instance in words. What `MCAgent` and `MCRecords` put together has
its constants in the cfg as well, with the sets of users, forms and messages as definitions
of the MC module (`Shapes`, `Owners`, `Callers`): the theorems are about any of them.

| Run | Bounds | Asks | About |
|---|---|---|---|
| `lease` | 2 workers, 2 tasks on overlapping write sets, 1 retry, 1 crash, pruning, leases that are overrun; symmetric workers | `TypeOK`, `UniqueOpenTask`, `ExclusiveExecution`, `AttemptsBounded`, `WriteSetExclusion`, `NoLockDeadlock`, `LineageBounded`, `LifecycleKept` | no task in two hands with good claims, no overlap, no deadlock of locks; the queue implements TaskLifecycle |
| `queues` | loop and a request, 2 kinds, limit 2, 3 tasks, 1 crash; and one worker, depth 2, limit 1, 4 tasks, 1 retry, overrun leases, no crash | `ExclusiveExecution`, `NoLostWake`, `FollowUpsBounded` | both queues at their limits |
| `served` | 2 curators, 2 scans, limit 3; loop with delayed tasks, settings, a crash; 2 workers, overrun leases, 2 retries, 2 crashes | `ScanCopiesBounded`, `EveryScanRecurs`, `EveryTaskServed`, `BacklogDrains` | what the queues owe in the end |
| `services` | 4 keys, 1 method, 3 versions, a reader; 2 collectors, 2 keys; 2 senders, 2 points, 2 texts; 1 note, 1 thread, 1 edit that merges or replaces, 1 admin action, 1 crash | `ArchiveConsistent`, `HistoryTraceable`, `CitedClaimsHold`, `RecordsKept` | archive, investigations, Core API |
| `vault` | 2 callers, 1 capsule, 3 edits, 3 requests; 2 voters; 2 runs, 3 titles, 1 seed, 1 failure; 2 queries, 2 searches | `AuthorRemembered`, `RequestRateBounded`, `VotesHonest`, `DuplicatesOnlyByRace`, `AnchorEarned`, `CountedOnce` | the protocols on notes |
| `stages` | 2 claims; 2 published notes, one refused, none edited; 2 queries, 2 searches; limits of 1 | `EventuallySynced`, `EveryGapNoted`, `ClaimsDecided` | what the recurring stages owe |
| `operations` | 2 cycles, 2 notes, 2 calls an hour, 1 failure; 2 notes with a goal, both modes | `CurationThrifty`, `PromotionEarned`, `EveryNoteRevalidated`, `EveryNoteMaintained` | budget and upkeep |
| `agent` | 2 cycles, 2 notes, 2 edits of each; caps of 1; 2 hours; 3 episodes, 2 threads; 2 admins, 3 changes | `EditsSurvive`, `LookedUpInTime`, `WritingsKept` | what the agent keeps of itself |
| `records` | 3 accounts, 2 requests; 4 notes of a thread; 3 messages; 2 rounds of 2 calls; 3 claims and 3 capsules, 3 writes; 2 notes, 2 searchers; 3 notes in 5 forms; 3 bodies, 2 packets | `AccountsInOrder`, `ReviewsSound`, `ConversationsWhole`, `NotesFound`, `AnswersSound` | what is kept and shown |
| `orphan`, `starved`, `unvalidated` | the smallest that show it | one property each, violated | section 12 |

Why these are enough. Two concurrent actors suffice for the conflicts asked about: each
is between one that looked and one that wrote in between. A third actor appears where
the statement counts (`ScanCopiesBounded`, `RequestRateBounded`,
`DuplicatesOnlyByRace`), and these are proved for any number of them. Limits are set at
or one below what the instance can reach, so that each one refuses something. In
`served` a queue of 3 is one above the number of scans, so that a full queue drops some;
with 2, two curators could crowd one scan out forever, while the code's 150 is far from
its three scans. In `queues` and `served`, identifiers of finished tasks are used again, so
`MaxTasks` bounds what is open at once and not the length of a behaviour.

Two reductions. In `lease` and `vault` the workers, respectively the runs of the stages,
are a symmetric set; these runs check invariants (and a step property that is symmetric).
In `vault` the ACTION_CONSTRAINT `ClockOrLessons` follows the research log either past its
first tick or to the writing of lessons: `AnchorEarned` is about the former,
`LessonsDistinct` about the latter, and both are proved without it. `MCVault` gives all
titles one topic, where duplicates are most likely; the proofs do not use that.

`CHECK_DEADLOCK FALSE` is set in runs whose bounds end every behaviour (edits, requests,
days are used up); in `lease`, `queues` and `served` time never ends, and deadlock is checked.

Each property has a mutant in `PROJECT.json`, a plausible bug in a mapped definition
that breaks it. A property that is a conjunction has further mutant operators beside the
mutated definitions (for example `SavedUnclamped` in Settings, `OldNameLate` and `CapReachedLate` in
Accounts, `ClipNot` in EvidenceRefs): each breaks one conjunct, and none is used by the
specification.

## 11. Fairness

Safety runs assume none. The others assume what the code's scheduling gives, never that
requests, edits, settings, failures or crashes come, nor that they stay away (their
bounds do that).

* `served`: the event loop and the threads it started go on (each HTTP or LLM call has a
  timeout), the save and the wake-up in progress complete, the curation cycle comes
  back to its scans, time passes: weak fairness. Cycles requested by an admin need
  not come. `TasksServed` and `ScansRecur` say what holds if in the end the worker and the
  kinds are on: by default `crawl_url` is off, and its tasks wait. For `BacklogDrains`
  the loop's worker comes back cycle after cycle; leases need not be met.
* `stages`: weak fairness of the stages that recur in every cycle and of threads under
  way. Strong fairness of `GuardrailAnswers` and of `SendDone` says that of the attempts made
  again and again for one note some are answered; without it an LLM or a Core API that
  is down forever refutes everything. Strong fairness of `Read` and of CoreSync's `Tick`: stage G and the
  clock come again and again, in between other work.
* `operations`: weak fairness of the loop's cycle and its clock; strong fairness of
  `Midnight`, which needs a moment between two cycles of a day that has many.

## 12. Findings

Shown by a run:

* `orphan`: a signal scan that runs when the process dies stays "running" forever. No
  lease reclaims it (`subordinate.py:374`), and the curation stage takes it for live
  (`sagwan_loop.py:7139`), so its kind is never enqueued again.
* `starved`: the approval cycle reviews the newest pending requests; as many deferred ones
  as fit in a batch keep an older one from ever being reviewed (`sagwan_loop.py:862`).
* `unvalidated`: a failed revalidation call is read as "ok" and stamped, against the
  comment at `sagwan_loop.py:2147`.

Met while modelling, and kept as statements in the modules or as notes here:

* Queues. Leases are not met and not enforced: a task may be executed twice, one after the
  other, a late report reopens a finished task or overwrites its verdict
  (`sagwan_tasks.py:425`), and so a note may have two open tasks. Section 3 says how far this
  goes. `ChildrenPerTask` and `CooldownRespected` (SagwanTasks) do not hold: a task claimed
  again spends its spawn budget anew, the cooldown does not count dead letters, and check
  and enqueue are two lock sections. `SavedAtomically` (SubordinateQueue): the file is truncated
  before it is written. A `run_after` that does not parse makes every cycle raise. A running time that
  includes waiting for path locks counts against the lease. The worker's docstring "processed
  serially" (`sagwan_loop.py:6795`) disregards the admin's worker;
  `MAX_SELF_ENQUEUE_PER_CYCLE` (`sagwan_tasks.py:60`) is read by nothing.
  `_exec_consolidate_review` forces consolidation, so its interval is not kept in queue mode.
* Core sync. Writers with `metadata_replace` take away what was stored since they loaded the
  note, the id of its record (`mcp_server.py:1457`, `sagwan_loop.py:6632`) among it: see
  `ReplacesId`. `core_sync_blocked` and `last_failure_at` are popped from the metadata but survive
  the merge, so a note that is synchronised later stays blocked (`NotBlockedOnceSynced`). An
  update whose retry is enqueued for a note that has an id is dropped (`UpdateReachesCore`).
* Archive. `get_version` may answer 404 for a version that exists, between its two statements
  (`research_method_revisions.py:140`); `ReadsHonest` says what its answers promise all the same.
* Votes. Of two votes at once the later write forgets the other (`EveryVoteCounts`).
* Research log and gaps. A copy written back loses entries (`HistoryKept`); lines appended
  while an analysis runs are lost (`NoMissForgotten`).
* Curation. The call history's trimming races with recording (`sagwan_loop.py:602-616`), and
  the CLI calls of the chat are not in the budget.
* Upkeep. The conflict handler writes stale frontmatter with `metadata_replace` over the flag of
  a duplicate it has just set (6622 and 6635). An archive verdict on a librarian's note
  is blocked and not stamped, so the note stays first in line. Goals whose bonus exceeds what age
  gives crowd out others, in spite of the comment at 6889. A merge without a target
  retires a note without successor.
* Agent. Caps of sweeps are exceeded within one sweep or by two (`DailyCapsKept`; `CapsNearlyKept` is
  what holds); `days_since_last_action` returns the oldest entry of a month, so silence may last
  (`SilenceBroken`). `last_distilled_at` is stamped after the call, and what happened meanwhile is
  never distilled (`NothingMissed`). The policy carryover bypasses gate and history. Stages apart
  in time assume that handlers end within their lease and that queueing is not switched
  (`RunsApart`, `AlwaysApart`); requests of blocked notes are proposed anew (`EveryDecisionKept`).
* Settings. Saving drops two keys (`OthersKept`); loading a truncated file yields the defaults, the
  agent enabled among them (`DisabledStays`); a choice of all tools is undone by the
  migration (`ChoiceOfToolsKept`).
* Users and notes. An admin's own rename is undone by the next change of the store, while notes keep the new
  name. HTTP upserts write targets unchecked and uncounted. No code sets the lifecycle "orphaned".
* Chat. `api_sagwan_memory_distilled_put` looks for `ok`, the function returns `updated`: it answers
  422 though it saved. A reply to a deleted session creates it anew under another participant.
* Search. A deleted or moved note stays listed for up to half a minute; the pages' and the agent's
  searches evict each other's vectors; `GraphFollowsPages`, `DirtyIfUnsaved` and `EmbeddedOnce` do not hold.
* Public memory. Claims are stored without a vector, "picked up later by a backfill cron" (`src/api`
  `main.py:84`) that does not exist, so embedding mode never finds them (`ClaimIndexFresh`,
  `NamedClaimFound`); duplicates are removed after the cut to `top_k` (`AnswerFull`).
* Evidence. One stale packet makes every rendering of its holder fail: it fails closed.

## 13. Proofs

TLAPS proves the following for every value of the constants that the modules' ASSUMEs
allow. They say that knobs and bounds are numbers (some positive), that sets are finite
where they are counted, and what the constants are like in the code: the kinds of
notes and stages have their names, who owns a note is a user, paths are not the value for
none. No theorem assumes anything of the environment. Every invariant and action property of a passing run is stated by a theorem,
`AnswersSound` excepted.

| Module | Theorem | States | Inductive invariant |
|---|---|---|---|
| `SagwanTasksProofs` | `TypeCorrect` | `TypeOK` | `TypeInv`: and a worker with a task in hand has a task's identifier and a non-empty write set |
| | `WriteSetsExcluded` | `WriteSetExclusion` | `LockInv`: a path is held once; who locks holds a sorted prefix of its write set, who is past locking all of it |
| | `LocksDoNotDeadlock` | `NoLockDeadlock` | `LockInv`: the holder of the greatest held path waits, if at all, for a free one |
| | `ExecutionExclusive` | `ExclusiveExecution` | `HandsInv`: identifiers in hand are created; of workers whose claim is good they are running, with a lease not over, and different; who has lost a task has an overrun one |
| | `FinishedTasksStay` | `FinishedIsFinal`, in no run | `HandsInv`: a task that is finished is in lapsed hands only |
| | `OpenTasksUnique` | `UniqueOpenTask` | `OldOpenOverrun` with `HandsInv`: of two open tasks of a signature the older is overrun; a new one is created beside no open one, and only a late report reopens, of a task that is overrun |
| | `ChainsBounded` | `LineageBounded` | `LineageInv`: fresh identifiers; records, and the copies in hand, have the lineage of a chain from a seed |
| | `ExecutionsBounded` | `AttemptsBounded` | `PaidInv`: an attempt on a task that was never overrun is paid for by a counted retry, a crash, or is still in a hand. `SpreadInv`: of an overrun one, attempts are no more than the workers for each of those |
| | `BacklogKept` | `BacklogBounded`, part of `FollowUpsBounded` | `BacklogInv`: orphans are no more than workers times crashes; what is open or in a hand exceeds the limit by no more than one task for each worker, and one more for each worker and crash |
| | `QueueKeepsLifecycle` | `LifecycleKept` | `HandsInv`; each step maps to a step of TaskLifecycle or to a stutter |
| `QueuesProofs` | `TypeCorrect` | `TypeOK` | itself; `RemoveAtFacts` for reports |
| | `ExecutionExclusive` | `ExclusiveExecution` | itself with `TypeOK` |
| | `WakesNotLost` | `NoLostWake` | `WakePending`: what the loop has not seen leaves the event set or about to be |
| | `ScansBounded` | `ScanCopiesBounded` | `CopiesAndDebts`: copies of a scan and the curators about to enqueue it are together no more than the curators: who looked at a queue without the scan pays for its copy |
| | `FollowUpsStayBounded` | `FollowUpsBounded` | both queues' `TypeCorrect`, `ChainsBounded` and `BacklogKept`, of the instance in `MCQueues` |
| `ServicesProofs` | `TypeCorrect`, `CitationsHold` (of CoreRecords), `CitationsServed` | `CitedClaimsHold` | every id that a sender holds or has gathered is a claim of its text and point, as far along as the sender is |
| | `ArchiveTyped` | `TypeOK` of MethodArchive | `TypeInv`: identifiers have no gap, so the next one is new; a reader's record has a type, and its method exists |
| | `AppliedExactlyOnce` | `AppliedOnce` | itself with the types, as `Matched`: the row a write makes was not there |
| | `HistoryHeld`, `FeedbackHeld` | `HistoryUnbroken`, `FeedbackExact` | `RowsFit`: a method never revised has nothing saved, a current body names the version before its own, and saved bodies as well name outcomes of their method |
| | `VersionsStay` | `VersionsImmutable` | `RowsFit`: a step only adds to what can be read (`Grows`) |
| | `ReadersHonest` | `ReadsHonest` | `ReadInv`: between its statements a reader's page is part of what there was, its count no smaller than its list, and the bodies it has read name outcomes of the method |
| | `ArchiveStaysConsistent` | `ArchiveConsistent` | the five theorems before |
| | `InvestigationsTraceable`, `HistoryStaysTraceable` | `HistoryTraceable` | `HistInv`: also what is saved was observed, and the replay of the investigations is what is saved; a saved one adds the last step of the fold |
| | `SyncTyped` | `TypeOK` of CoreSync | itself: an id is left for each record there may still be |
| | `IdsKeptByMerges`, `RecordsStayKept` | `IdKeptByMerges`, `RecordsKept` | `IdInv`: no frontmatter, in a note or held, has the field of the id without an id, a thread about to write has one, and only an editor replaces |
| `VaultProofs` | `TypeCorrect` (of Contributions) | | what is held, and what is about to be written, is frontmatter |
| | `AuthorsRemembered` | `AuthorRemembered` | whoever writes Sagwan as owner names the author in the same write, and no copy names another one |
| | `RequestsBounded` | `RequestRateBounded` | `AskersCounted`: recent requests and callers past the count are together at most `HOURLY` and all callers but one |
| | `AnchorsEarned` | `AnchorEarned` | `LogInv`: also every copy held of the log has earned anchors only |
| | `DuplicatesOnlyRaced` | `DuplicatesOnlyByRace` | `CapsuleInv`: live researched capsules of a topic and runs past its guard are no more than the runs; uses of a seed are paid for by runs and failures. `LessonsCounted` likewise |
| | `VotesStayHonest` | `VotesHonest` | `VotesInv`: every copy held has one voice in either list, all of voices given; its counts are backed by voices and reviews; its revision is no further than the calls |
| | `MissesCountedOnce` | `CountedOnce` | `MissInv`: what a query's note counts and the lines of it that wait, in the log or unprocessed in the analysis, are together no more than the misses there were |
| `OperationsProofs` | `LinksEarned` | `PromotionEarned` | `LinksInv`: a candidate was cited once or named, a link twice or named |
| | `CurationStaysThrifty` | `CurationThrifty` | `CurationInv`: calls recorded within the hour and cycles that wait for an answer are together no more than the cap and the other cycles; verdicts on a note within the validity and cycles that chose it no more than the cycles; a stamp is as young as the last verdict. `UpkeepInv`: order, queue and the task in hand are of notes that exist |
| `AgentProofs` | `SelfEditsTyped`, `SelfEditsSurvive` | `EditsSurvive` | `CopiesFresh`: what a run has loaded is what the note shows, or the day's history tells of an edit |
| | `LookUpsHold` | `LookedUpInTime` | `SweepsInv`: what was applied of a kind on a day is in the log, but for what sweeps still have to log, so a cap is exceeded by no more than two sweeps do. `SettingsInv`: what is loaded is what was saved, normalised |
| | `WritingsStay` | `WritingsKept` | `StagesInv`: in queue mode who executes a stage holds its write set, and the stage is due until that run is recorded. `MemoryInv`: copies in hand are of sections written; of an episode nobody is excused for, one thread has it in its window until the cursor lies behind it |
| `RecordsProofs` | `ConversationsKept` | `ConversationsWhole` | `LoopInv`: each call in the history has its output, or is still to be run. `ChatInv`: a turn under way knows the participant of the session, and what it holds is the session but for disturbed turns |
| | `AccountsKept` | `AccountsInOrder` | `AccInv`: an owner's name on a note is right, or a rename will come to the note; accounts of a day are no more than the cap for each start |
| | `ReviewsHold` | `ReviewsSound` | `ReviewsInv`: a rank goes down along the targets (a new review gets the rank above its target's) |
| | `NotesStayFound` | `NotesFound` | `IndexInv`: a list in a cache or being read has of each note the version its writer returned with, or a later one, or the note is gone; a search expects no more than what was returned and its documents are as new. `ViewInv`: what was shown last is as it should be; for the ranking, that fractions of better places are greater, and that sifting keeps the order |

The proofs have one shape: types first, then the invariant, each with an `...Init`
(`...Start`) and an `...Next` (`...Step`) lemma of one step per action, then the theorem by PTL. Five ideas recur.
*Copies*: as everything loaded may be written back at any time, an invariant of notes has
to hold of each copy in hand; this is what makes `AnchorEarned`, `VotesHonest`, `EditsSurvive`,
`AuthorRemembered`, `IdKeptByMerges` and `ConversationsWhole` inductive. *Tickets*: a check that is not atomic with its effect is bounded by counting those
past the check together with what they made (`ScansBounded`, `RequestsBounded`,
`DuplicatesOnlyRaced`, `CurationStaysThrifty`, `LookUpsHold`). *Debts*: a repetition is paid for by a counted failure
(`ExecutionsBounded`, the seeds of `DuplicatesOnlyRaced`). *Growth*: a reader of several
statements is right at its end because the tables only grow under it (`Grows`, `ReadersHonest`,
`NotesStayFound`). *Ranks*: that there is no circle is shown by numbers that go down (`ReviewsHold`).

`SumTheorems` holds what these arguments need of data. The library's induction theorems take an
operator and cannot be instantiated here, so `Induction` is stated of a set of
numbers that has zero and all successors, and derived from a finite part of it being mapped
into itself; `SetInduction` follows by cardinality. From them come functions
defined step by step (`StepsExist`, `Stepwise`), the left folds of sequences
(`LeftFoldExists`), sums over functions and how they change where one value does, and the counts of finite sets
(`Fewer`, `OneFewer`, `OneMore`). A fold of the community modules is recognised as one of these by its definition
(`ReplayIsFold`, `SiftingIsFold`, `TotalIsSum`), which is why the modules use folds and functions
and no RECURSIVE operator where something is proved.

Model-checked only:

* liveness: `EveryScanRecurs`, `EveryTaskServed`, `BacklogDrains`, `EventuallySynced`, `EveryGapNoted`,
  `ClaimsDecided`, `EveryNoteRevalidated`, `EveryNoteMaintained`, out of the prover's reach.
  `EventuallySynced` is checked of notes that nobody edits: with one edit its state space is
  too large for the liveness check;
* `AnswersSound`: the answers of `PublicMemory` and the packets of `EvidenceRefs` are computed with
  sorted and filtered sequences (`SortSeq`, `SelectSeq`), whose definitions the prover does not expand.

## 14. Not modelled

Method search and context (ranking and HTTP over the archive, read only; its packets are in
EvidenceRefs), supporting services (configuration, logs, metrics, ingestion), benchmarks and experiment
harnesses. Of modelled components: prompts and their parsing beyond the verdicts they
yield, HTML, styles and scripts of the site, passwords, tokens and roles, project folders and assets,
telemetry, the one-time migration `_migrate_legacy_none_claims`, `update_task` and
`register_wake_event` of the Sagwan queue (called by nothing), the recovery from an unreadable queue file
(it is replaced by an empty one). A signal scan that an admin, a tool of the librarian or an MCP
tool enqueues by hand is an offer of SubordinateQueue, and `ScanCopiesBounded` is about kinds nobody offers.
