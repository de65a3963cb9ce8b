----------------------------- MODULE SearchGaps -----------------------------
(***************************************************************************)
(* What happens to a search that found too little.  The search appends a   *)
(* line to a log, one for misses and one for weak results; a task of the   *)
(* subordinate reads the log, turns its queries into notes, at most LIMIT  *)
(* of them, and writes back the lines it did not process.  Appending is    *)
(* under a lock, reading and rewriting are not.  A capsule that Sagwan     *)
(* researches later resolves the open notes it is similar to.              *)
(***************************************************************************)
EXTENDS Naturals, FiniteSets, SequencesExt

CONSTANTS
    QUERIES,     \* the queries 1..QUERIES, in the order of their text
    LIMIT,       \* max_new, 10 in the code
    RESOLVES,    \* notes one capsule resolves at most, 8 in the code
    MaxSearches, \* bound: searches ever made
    MaxTrouble,  \* bound: writes that fail
    MaxCrashes   \* bound: crashes of the process

\* What an instance assumes of the constants.
Bounds ==
    /\ {QUERIES, LIMIT, RESOLVES} \subseteq Nat \ {0}
    /\ {MaxSearches, MaxTrouble, MaxCrashes} \subseteq Nat

VARIABLES
    log,     \* the two JSONL files: what is known of a line is its query
    notes,   \* the note of each query in the folder of each log
    task,    \* the analysis under way
    asked,   \* misses ever logged for each query
    spent    \* how much of each bound is used

vars == <<log, notes, task, asked, spent>>

Kinds == {"gap", "weak"}     \* gap-queries.jsonl and search-quality-signals.jsonl
Queries == 1..QUERIES
Statuses == {"none", "open", "resolved"}

Idle == [pc |-> "idle", kind |-> "gap", lines |-> << >>, todo |-> {},
         processed |-> {}, created |-> 0]

CountIn(lines, q) == Cardinality({i \in DOMAIN lines : lines[i] = q})

Lines(k, q) == CountIn(log[k], q)

-----------------------------------------------------------------------------

Search(q, kinds) ==
    /\ spent.searches < MaxSearches
    /\ spent' = [spent EXCEPT !.searches = @ + 1]
    /\ log' = [k \in Kinds |-> IF k \in kinds THEN Append(log[k], q) ELSE log[k]]
    /\ asked' = IF "gap" \in kinds THEN [asked EXCEPT ![q] = @ + 1] ELSE asked
    /\ UNCHANGED <<notes, task>>

\* Too little by _is_gap_query.
SearchNotes(q) == Search(q, {"gap"})

\* Nothing at all, or what _detect_akashic_quality_issues objects to, an error among it.
SearchAkashic(q, kinds) == Search(q, kinds)

\* Misses are taken as the log has them, weak results by how many there are.
Before(k, lines, p, q) ==
    LET first(x) == CHOOSE i \in DOMAIN lines : lines[i] = x /\ \A j \in 1..(i - 1) : lines[j] # x
    IN  IF k = "gap" THEN first(p) < first(q)
        ELSE \/ CountIn(lines, p) > CountIn(lines, q)
             \/ CountIn(lines, p) = CountIn(lines, q) /\ p < q

\* What an analysis sets out to note: of weak results the LIMIT most frequent ones.
Agenda(k, lines, todo) ==
    LET all == ToSet(lines) IN
    /\ todo \subseteq all
    /\ IF k = "gap" \/ Cardinality(all) <= LIMIT
       THEN todo = all
       ELSE /\ Cardinality(todo) = LIMIT
            /\ \A q \in todo, p \in all \ todo : Before(k, lines, q, p)

Read(k) ==
    /\ task = Idle
    /\ log[k] # << >>
    /\ \E todo \in SUBSET Queries :
           /\ Agenda(k, log[k], todo)
           /\ task' = [Idle EXCEPT !.pc = "noting", !.kind = k, !.lines = log[k],
                                   !.todo = todo]
    /\ UNCHANGED <<log, notes, asked, spent>>

\* Mutant of LimitReached: one note more than the limit.
LimitReachedLate == task.kind = "gap" /\ task.created > LIMIT

\* Enough new notes for one task: the rest of the queries waits for the next one.
LimitReached == task.kind = "gap" /\ task.created >= LIMIT

\* A miss adds to the count and leaves the status of a note that is there.
MissNoted(note, times) ==
    IF note.status = "none" THEN [status |-> "open", count |-> times]
    ELSE [note EXCEPT !.count = @ + times]

\* A weak result opens its request again and replaces the count.
WeaknessNoted(times) == [status |-> "open", count |-> times]

Noted(k, note, times) ==
    IF k = "weak" THEN WeaknessNoted(times) ELSE MissNoted(note, times)

\* The query whose turn it is.
IsNext(q) == \A p \in task.todo \ {q} : Before(task.kind, task.lines, q, p)

NoteQuery ==
    LET k == task.kind
        isNew(q) == notes[k][q].status = "none"
    IN  /\ task.pc = "noting" /\ ~LimitReached
        /\ \E q \in task.todo :
               /\ IsNext(q)
               /\ notes' = [notes EXCEPT ![k][q] = Noted(k, @, CountIn(task.lines, q))]
               /\ task' = [task EXCEPT !.todo = @ \ {q}, !.processed = @ \cup {q},
                                       !.created = IF isNew(q) THEN @ + 1 ELSE @]
        /\ UNCHANGED <<log, asked, spent>>

\* A query whose new gap note could not be written is left in the log; in the other
\* cases a query counts as processed before its note is written.
NoteFails ==
    LET kept(q) == task.kind = "gap" /\ notes["gap"][q].status = "none"
    IN  /\ task.pc = "noting" /\ ~LimitReached
        /\ spent.trouble < MaxTrouble
        /\ spent' = [spent EXCEPT !.trouble = @ + 1]
        /\ \E q \in task.todo :
               /\ IsNext(q)
               /\ task' = [task EXCEPT !.todo = @ \ {q},
                                       !.processed = IF kept(q) THEN @ ELSE @ \cup {q}]
        /\ UNCHANGED <<log, notes, asked>>

\* Mutants of Unprocessed: the log is not rotated, or it is emptied.
AllLines == task.lines
NoLines == << >>

\* The log becomes what was read less what was processed.
Unprocessed ==
    FoldLeft(LAMBDA kept, l : IF l \in task.processed THEN kept ELSE Append(kept, l),
             << >>, task.lines)

Rotate ==
    /\ task.pc = "noting"
    /\ task.todo = {} \/ LimitReached
    /\ log' = [log EXCEPT ![task.kind] = Unprocessed]
    /\ task' = Idle
    /\ UNCHANGED <<notes, asked, spent>>

\* _resolve_irs_for_new_capsule, once for each folder: the open notes a new capsule is
\* similar to, the closest RESOLVES of them.
Resolve(k, answered) ==
    /\ answered # {} /\ Cardinality(answered) <= RESOLVES
    /\ \A q \in answered : notes[k][q].status = "open"
    /\ notes' = [notes EXCEPT ![k] = [q \in Queries |->
                   IF q \in answered THEN [notes[k][q] EXCEPT !.status = "resolved"]
                   ELSE notes[k][q]]]
    /\ UNCHANGED <<log, task, asked, spent>>

Crash ==
    /\ spent.crashes < MaxCrashes /\ task # Idle
    /\ spent' = [spent EXCEPT !.crashes = @ + 1]
    /\ task' = Idle
    /\ UNCHANGED <<log, notes, asked>>

Init ==
    /\ log = [k \in Kinds |-> << >>]
    /\ notes = [k \in Kinds |-> [q \in Queries |-> [status |-> "none", count |-> 0]]]
    /\ task = Idle
    /\ asked = [q \in Queries |-> 0]
    /\ spent = [searches |-> 0, trouble |-> 0, crashes |-> 0]

Analyse == (\E k \in Kinds : Read(k)) \/ NoteQuery \/ Rotate

Next ==
    \/ \E q \in Queries :
           \/ SearchNotes(q)
           \/ \E kinds \in SUBSET Kinds \ {{}} : SearchAkashic(q, kinds)
    \/ Analyse
    \/ NoteFails
    \/ \E k \in Kinds, answered \in SUBSET Queries : Resolve(k, answered)
    \/ Crash

Spec == Init /\ [][Next]_vars

\* Stage G enqueues both analyses in every cycle; a task that was started goes on.
Fairness ==
    /\ \A k \in Kinds : SF_vars(Read(k))
    /\ WF_vars(NoteQuery) /\ WF_vars(Rotate)
FairSpec == Spec /\ Fairness

-----------------------------------------------------------------------------

TypeOK ==
    /\ log \in [Kinds -> Seq(Queries)]
    /\ notes \in [Kinds -> [Queries -> [status : Statuses, count : Nat]]]
    /\ task.pc \in {"idle", "noting"} /\ task.kind \in Kinds
    /\ task.lines \in Seq(Queries)
    /\ task.todo \subseteq Queries /\ task.processed \subseteq Queries /\ task.created \in 0..LIMIT
    /\ asked \in [Queries -> Nat]
    /\ spent \in [searches : 0..MaxSearches, trouble : 0..MaxTrouble, crashes : 0..MaxCrashes]

\* As long as no analysis is cut short, no miss is counted twice: what a note counts and
\* what still waits in the log are together no more than the misses there were.
CountedOnce ==
    (spent.crashes = 0 /\ task = Idle) =>
        \A q \in Queries : notes["gap"][q].count + Lines("gap", q) <= asked[q]

\* A query the analysis has read gets its note in this or in a later run, whatever it
\* was read with: only what was processed leaves the log.
EveryGapNoted ==
    \A q \in Queries :
        (task.kind = "gap" /\ q \in ToSet(task.lines)) ~> notes["gap"][q].status # "none"

\* What the docstring of _analyze_search_gaps says: only processed entries are removed
\* from the log, so that a miss is counted or still waits.
NoMissForgotten ==
    (spent.trouble = 0 /\ task = Idle) =>
        \A q \in Queries : notes["gap"][q].count + Lines("gap", q) >= asked[q]
=============================================================================
