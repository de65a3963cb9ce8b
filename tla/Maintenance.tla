----------------------------- MODULE Maintenance -----------------------------
(***************************************************************************)
(* Upkeep of capsules and claims.  Each cycle looks at a few notes: new    *)
(* ones for conflicts, the others by a rank in which goals of the agenda,  *)
(* age and isolation count.  With the task queue a cycle only enqueues and *)
(* a worker handles; without it a cycle handles one note of each kind.     *)
(* Citations in an answer become weak and, once earned, canonical links    *)
(* between notes.  One cycle runs at a time: what a second one would load  *)
(* and write of the same note is kept apart by the locks of the task queue.*)
(***************************************************************************)
EXTENDS Agenda

CONSTANTS
    Notes,        \* paths of capsules and claims
    Claims,       \* those that are claims: capsules come first
    Focused,      \* those of the project the goals mention
    Protected,    \* those under the librarian's folder, which are never archived
    AGING,        \* days after which a note is one rank more urgent: 14, 30, 60
    STALE,        \* days after which it is staler by one: 8, 31, 91
    CONNECTED,    \* links that make a note well connected, 3 in the code
    SEEDS,        \* notes one cycle enqueues, 3 in the code
    DRAIN,        \* tasks one cycle handles, 3 in the code
    Modes,        \* settings of task_queue_enabled that are explored
    MaxTrouble    \* bound: failed or blocked tasks, citations, restarts, edits by others

MaintenanceBounds ==
    /\ {CONNECTED, SEEDS, DRAIN} \subseteq Nat \ {0} /\ MaxTrouble \in Nat
    /\ IsFiniteSet(Notes)
    /\ \A tiers \in {AGING, STALE} : tiers \in Seq(Nat \ {0})
    /\ Claims \cup Focused \cup Protected \subseteq Notes
    /\ Modes \subseteq {"queue", "inline"}

VARIABLES
    mode,      \* "queue" or "inline"
    notes,     \* frontmatter of each note
    order,     \* existing notes, the one touched longest ago first
    queue,     \* pending tasks, in the order they are claimed
    run,       \* the cycle
    ran,       \* a cycle has ended since midnight
    trouble,   \* how much of MaxTrouble is used
    cited      \* cited[n][m]: how often n was said to cite m, and if a verdict named m

vars == <<agendaVars, mode, notes, order, queue, run, ran, trouble, cited>>

OLD == Last(STALE)
NoCitations == [count |-> 0, named |-> FALSE]

\* "retired" is superseded or merged; new tells that the note was created today, age how
\* long ago it was last maintained (or created); weak are the related_candidates, each
\* cited once so far, links the paths in related, supersedes and superseded_by.
Note == [state : {"absent", "live", "retired", "archived"}, new : BOOLEAN, checked : BOOLEAN,
         flagged : BOOLEAN, age : 0..OLD, weak : SUBSET Notes, links : SUBSET Notes]
Absent == [state |-> "absent", new |-> FALSE, checked |-> FALSE, flagged |-> FALSE,
           age |-> 0, weak |-> {}, links |-> {}]
Created == [Absent EXCEPT !.state = "live", !.new = TRUE]

\* changed: the note is no longer as it was when the task was enqueued, so that the
\* task's signature does not match it any more.
Task == [kind : {"conflict", "maintenance"}, note : Notes, changed : BOOLEAN]

NoNote == "none"
Idle == [pc |-> "idle", left |-> 0, task |-> << >>]

TroubleLeft == trouble < MaxTrouble
Trouble == trouble' = trouble + 1

-----------------------------------------------------------------------------
(* The rank of a note.                                                     *)

Bucket(tiers, days) == Cardinality({i \in DOMAIN tiers : tiers[i] <= days})

\* Mutant of Aging: age gives no bonus.
NoAging(n) == 0

\* _aging_force_bonus, against the starvation of projects that no goal mentions.
Aging(n) == Bucket(AGING, notes[n].age)

InDegree(n) == Cardinality({m \in Notes : n \in notes[m].links})
Isolation(n) == IF InDegree(n) >= CONNECTED THEN 0 ELSE IF InDegree(n) > 0 THEN 1 ELSE 2

\* The sort key, the higher the sooner; ties go to the note touched longest ago.  The
\* inline stage looks at no goals and at no aging.
Rank(n) ==
    << IF notes[n].flagged THEN 1 ELSE 0,
       IF mode = "inline" THEN 0 ELSE Aging(n) + (IF n \in Focused THEN FocusBonus ELSE 0),
       Bucket(STALE, notes[n].age), Isolation(n), IF n \in Claims THEN 0 ELSE 1 >>

Above(r, s) == \E i \in DOMAIN r : r[i] > s[i] /\ \A j \in 1..(i - 1) : r[j] = s[j]

Before(n, m) ==
    LET one == Rank(n)
        other == Rank(m)
    IN  \/ Above(one, other)
        \/ one = other /\ \E i, j \in DOMAIN order : i < j /\ order[i] = n /\ order[j] = m

Live(n) == notes[n].state = "live"

\* The live notes, sorted by rank: there is one such sequence.
Rankings ==
    {s \in SetToSeqs({n \in Notes : Live(n)}) :
        \A i, j \in DOMAIN s : i < j => Before(s[i], s[j])}

Unchecked == {n \in Notes : notes[n].state # "absent" /\ notes[n].new /\ ~notes[n].checked}

-----------------------------------------------------------------------------
(* Enqueueing: one task of a kind for a note that has not changed.         *)

Open(kind, n) == \E i \in DOMAIN queue : queue[i] = [kind |-> kind, note |-> n, changed |-> FALSE]
Tasks(kind, some) == [i \in DOMAIN some |-> [kind |-> kind, note |-> some[i], changed |-> FALSE]]
AtMost(some, k) == SubSeq(some, 1, IF Len(some) < k THEN Len(some) ELSE k)

\* A note whose task is still pending counts as one of the seeds, so the first SEEDS of
\* the ranking are what gets a task (no task runs while the one cycle bootstraps).
Seeded(kind, some) ==
    FoldLeft(LAMBDA seeds, n : IF Open(kind, n) THEN seeds ELSE seeds \o Tasks(kind, <<n>>),
             << >>, AtMost(some, SEEDS))

\* _bootstrap_enqueue_conflict and _bootstrap_enqueue_maintenance, then the worker's
\* pass begins, with the end of the goals that are over.
Bootstrap ==
    /\ run = Idle /\ mode = "queue"
    /\ run' = [Idle EXCEPT !.pc = "draining", !.left = DRAIN]
    /\ goals' = Archived(goals)
    /\ UNCHANGED <<concerns, mode, notes, order, ran, trouble, cited>>
    /\ \E ranked \in Rankings :
           queue' = queue \o Seeded("conflict", SetToSeq(Unchecked))
                          \o Seeded("maintenance", ranked)

\* _curate_detect_conflicts and then _curate_maintenance: one note each.
InlineTasks(left) ==
    IF left = 2
    THEN {AtMost(Tasks("conflict", SetToSeq(Unchecked)), 1)}
    ELSE {AtMost(Tasks("maintenance", ranked), 1) : ranked \in Rankings}

StartInline ==
    /\ run = Idle /\ mode = "inline"
    /\ run' = [Idle EXCEPT !.pc = "draining", !.left = 2]
    /\ UNCHANGED <<agendaVars, mode, notes, order, queue, ran, trouble, cited>>

EndCycle ==
    /\ run.pc = "draining"
    /\ run.left = 0 \/ (mode = "queue" /\ queue = << >>)
    /\ run' = Idle
    /\ ran' = TRUE
    /\ UNCHANGED <<agendaVars, mode, notes, order, queue, trouble, cited>>

\* The next task is taken and its note loaded; a maintenance task of an archived note,
\* or a stage that finds no candidate, ends there.
Load ==
    /\ run.pc = "draining" /\ run.left > 0
    /\ mode = "queue" => queue # << >>
    /\ queue' = IF mode = "queue" THEN Tail(queue) ELSE queue
    /\ \E found \in IF mode = "queue" THEN {AtMost(queue, 1)} ELSE InlineTasks(run.left) :
           run' = IF found = << >> \/ (found[1].kind = "maintenance"
                                         /\ notes[found[1].note].state = "archived")
                  THEN [run EXCEPT !.left = @ - 1]
                  ELSE [run EXCEPT !.pc = "asking", !.task = found]
    /\ UNCHANGED <<agendaVars, mode, notes, order, ran, trouble, cited>>

\* The call fails or the budget is used up: the task comes back later, or not at all.
Fails ==
    /\ run.pc = "asking" /\ TroubleLeft /\ Trouble
    /\ queue' \in {queue} \cup (IF mode = "queue" THEN {queue \o run.task} ELSE {})
    /\ run' = [Idle EXCEPT !.pc = "draining", !.left = run.left - 1]
    /\ UNCHANGED <<agendaVars, mode, notes, order, ran, cited>>

-----------------------------------------------------------------------------
(* What an answer does.                                                    *)

\* Mutant of Earned: any strong verdict makes its citations links.
EarnedBoldly(note, m, strong, named) == strong \/ m \in note.weak

\* A citation counts as a link when it is the second one, or when a strong verdict is
\* about the cited note itself.
Earned(note, m, strong, named) == (strong /\ named) \/ m \in note.weak

\* _record_citation_candidates: what is linked already is not counted.
Recorded(note, m, strong, named) ==
    IF m \in note.links THEN note
    ELSE IF Earned(note, m, strong, named)
         THEN [note EXCEPT !.weak = @ \ {m}, !.links = @ \cup {m}]
         ELSE [note EXCEPT !.weak = @ \cup {m}]

\* The answer cites m, or nothing, and m is a note: that is recorded on note n, which
\* stands in "all" as the verdict left it.
Cites(n, m, strong, named, all, said) ==
    IF m = NoNote
    THEN notes' = all /\ cited' = said /\ UNCHANGED trouble
    ELSE /\ TroubleLeft /\ Trouble
         /\ m # n /\ all[m].state # "absent"
         /\ notes' = [all EXCEPT ![n] = Recorded(@, m, strong, named)]
         /\ cited' = [said EXCEPT ![n][m] = [count |-> IF @.count < 2 THEN @.count + 1 ELSE 2,
                                             named |-> @.named \/ (strong /\ named)]]

Touched(note) == [note EXCEPT !.age = 0, !.flagged = FALSE]
Retired(note, heir) == [Touched(note) EXCEPT !.state = "retired", !.links = @ \cup heir]
Named(n, some) == [cited EXCEPT ![n] = [m \in Notes |-> IF m \in some
                                                        THEN [@[m] EXCEPT !.named = TRUE]
                                                        ELSE @[m]]]

\* All open tasks of a note that is written are of an older version of it.
Outdated(n) ==
    [i \in DOMAIN queue |-> IF queue[i].note = n THEN [queue[i] EXCEPT !.changed = TRUE]
                            ELSE queue[i]]

\* A worker's maintenance task may also enqueue the note its answer cites (it does unless
\* the limits of the queue forbid it).
FollowUp(n, m) ==
    queue' \in {Outdated(n)} \cup
               (IF mode = "queue" /\ m # NoNote /\ ~Open("maintenance", m)
                THEN {Outdated(n) \o Tasks("maintenance", <<m>>)} ELSE {})

Handles(kind) == run.pc = "asking" /\ run.task[1].kind = kind
Handled ==
    /\ run' = [Idle EXCEPT !.pc = "draining", !.left = run.left - 1]
    /\ UNCHANGED <<agendaVars, mode, ran>>

\* The order after n was touched: no other note was touched later.
MovedBack(n) ==
    LET i == CHOOSE i \in DOMAIN order : order[i] = n
    IN  Append(RemoveAt(order, i), n)
MovesBack(n) == order' = MovedBack(n)

\* "keep" and "revise": the note is stamped.
Stay(verdict, m) ==
    LET n == run.task[1].note
    IN  /\ Handles("maintenance")
        /\ Cites(n, m, verdict = "revise", FALSE, [notes EXCEPT ![n] = Touched(@)], cited)
        /\ MovesBack(n) /\ FollowUp(n, m) /\ Handled

\* "merge": whatever the answer names becomes the successor, if only an empty path.
Merge(target, m) ==
    LET n == run.task[1].note
        heir == {target} \ {NoNote, n}
    IN  /\ Handles("maintenance")
        /\ target # NoNote => notes[target].state # "absent"
        /\ Cites(n, m, TRUE, m = target, [notes EXCEPT ![n] = Retired(@, heir)], Named(n, heir))
        /\ MovesBack(n) /\ FollowUp(n, m) /\ Handled

\* "supersede": the new note links to the old one and inherits its links, and citations
\* are recorded on it.
Supersede(heir, m) ==
    LET n == run.task[1].note
        inherited == (notes[n].links \cup {n}) \ {heir}
    IN  /\ Handles("maintenance")
        /\ notes[heir].state = "absent"
        /\ Cites(heir, m, TRUE, m = n,
                 [notes EXCEPT ![n] = Retired(@, {heir}),
                               ![heir] = [Created EXCEPT !.links = inherited]],
                 [Named(heir, inherited) EXCEPT ![n][heir].named = TRUE])
        /\ order' = Append(MovedBack(n), heir)
        /\ FollowUp(n, m) /\ Handled

\* "archive": a note of the librarian's folder is neither archived nor stamped.
Archive ==
    LET n == run.task[1].note
    IN  /\ Handles("maintenance")
        /\ IF n \in Protected
           THEN TroubleLeft /\ Trouble /\ UNCHANGED <<notes, order, queue>>
           ELSE /\ notes' = [notes EXCEPT ![n] = [Touched(@) EXCEPT !.state = "archived"]]
                /\ MovesBack(n) /\ queue' = Outdated(n)
                /\ UNCHANGED trouble
        /\ UNCHANGED cited
        /\ Handled

\* A conflict task that finds a duplicate flags its note for maintenance and then writes
\* the frontmatter it had loaded: the worker replaces what is there, so the flag is gone
\* again; the inline stage merges into it.
Checked(note, flag) ==
    LET kept == mode = "inline" /\ flag
    IN  [note EXCEPT !.checked = TRUE, !.flagged = (mode = "inline" /\ @) \/ kept,
                     !.age = IF kept THEN 0 ELSE @]

CheckConflict(verdict, target, m, named) ==
    LET n == run.task[1].note
        flag == verdict = "duplicate" /\ target
    IN  /\ Handles("conflict")
        /\ named => target
        /\ Cites(n, m, verdict # "clear", named, [notes EXCEPT ![n] = Checked(@, flag)], cited)
        /\ IF mode = "inline" /\ flag THEN MovesBack(n) ELSE UNCHANGED order
        /\ queue' = Outdated(n)
        /\ Handled

\* Someone else writes the note.
Edit(n) ==
    /\ notes[n].state # "absent" /\ TroubleLeft /\ Trouble
    /\ queue' = Outdated(n)
    /\ UNCHANGED <<agendaVars, mode, notes, order, run, ran, cited>>

\* A day has many cycles.
Midnight ==
    /\ ran /\ run = Idle
    /\ DayPasses
    /\ notes' = [n \in Notes |-> [notes[n] EXCEPT !.new = FALSE,
                                                  !.age = IF @ < OLD THEN @ + 1 ELSE @]]
    /\ ran' = FALSE
    /\ UNCHANGED <<mode, order, queue, run, trouble, cited>>

Restart ==
    /\ run # Idle /\ TroubleLeft /\ Trouble
    /\ run' = Idle
    /\ queue' \in {queue} \cup (IF mode = "queue" THEN {run.task \o queue} ELSE {})
    /\ UNCHANGED <<agendaVars, mode, notes, order, ran, cited>>

Goals ==
    /\ AgendaNext
    /\ UNCHANGED <<mode, notes, order, queue, run, ran, trouble, cited>>

\* The notes there are at first have mentioned each other once, or not at all.
Init ==
    /\ AgendaInit
    /\ mode \in Modes
    /\ \E first \in SUBSET Notes, mentioned \in BOOLEAN :
         LET Weak(n) == IF mentioned THEN first \ {n} ELSE {} IN
         /\ first # {}
         /\ notes = [n \in Notes |-> IF n \in first THEN [Created EXCEPT !.weak = Weak(n)]
                                                ELSE Absent]
         /\ cited = [n \in Notes |-> [m \in Notes |->
                [NoCitations EXCEPT !.count = IF n \in first /\ m \in Weak(n) THEN 1 ELSE 0]]]
         /\ order = SetToSeq(first)
    /\ queue = << >> /\ run = Idle /\ ran = FALSE /\ trouble = 0

Answered ==
    /\ run.pc = "asking"
    /\ \E m \in Notes \cup {NoNote} :
        \/ \E verdict \in {"keep", "revise"} : Stay(verdict, m)
        \/ \E target \in Notes \cup {NoNote} : Merge(target, m)
        \/ \E heir \in Notes : Supersede(heir, m)
        \/ \E verdict \in {"clear", "conflict", "duplicate"}, target, named \in BOOLEAN :
               CheckConflict(verdict, target, m, named)

Cycle == Bootstrap \/ StartInline \/ Load \/ Fails \/ Answered \/ Archive \/ EndCycle

Next == Cycle \/ Restart \/ Midnight \/ Goals \/ \E n \in Notes : Edit(n)

Spec == Init /\ [][Next]_vars

\* The loop goes on and days pass (a day ends between two of the many cycles it has).
Fairness == WF_vars(Cycle) /\ SF_vars(Midnight)
FairSpec == Spec /\ Fairness

-----------------------------------------------------------------------------

TypeOK ==
    /\ AgendaTypeOK
    /\ mode \in {"queue", "inline"}
    /\ notes \in [Notes -> Note]
    /\ ToSet(order) = {n \in Notes : notes[n].state # "absent"} /\ IsInjective(order)
    /\ queue \in Seq(Task)
    /\ run.pc \in {"idle", "draining", "asking"} /\ run.left \in Nat
    /\ run.task \in Seq(Task)
    /\ ran \in BOOLEAN /\ trouble \in 0..MaxTrouble

\* Each live note is maintained again and again, whatever the goals prefer, as long as
\* their bonus is no more than what age gives.
EveryNoteMaintained == \A n \in Notes : []<>(~Live(n) \/ notes[n].age = 0)

\* A canonical link was cited twice, or named by a verdict that is about the linked note,
\* or inherited with the place of the note that its holder supersedes: one strong verdict
\* alone makes no link of what its rationale cites.
PromotionEarned ==
    \A n, m \in Notes : m \in notes[n].links => cited[n][m].count = 2 \/ cited[n][m].named
=============================================================================
