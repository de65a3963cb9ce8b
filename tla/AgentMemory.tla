----------------------------- MODULE AgentMemory -----------------------------
(***************************************************************************)
(* Sagwan's memory: what it did is appended to a working memory of limited *)
(* size, and from time to time the model distils the new episodes into a   *)
(* second note, whose frontmatter says up to when that was done.  The      *)
(* cycles, the worker and the chat do this beside each other, and an admin *)
(* may rewrite the distilled note.                                         *)
(***************************************************************************)
EXTENDS Integers, Sequences, FiniteSets

CONSTANTS
    Threads,      \* who remembers and distils
    SIZE,         \* sections a working memory may have before it is trimmed
    FLOOR,        \* sections that trimming leaves, 4 in the code
    WINDOW,       \* episodes that one distillation reads, 40 in the code
    AFTER_TASK,   \* new episodes that a task waits for, 10 in the code
    IN_CYCLE,     \* ... and the curation cycle, 5 in the code
    PAUSE,        \* time between distillations of the cycle, 6 h in the code
    MaxEpisodes,  \* bound: episodes
    MaxTime,      \* bound: the clock
    MaxTrouble    \* bound: calls that fail, crashes and edits of an admin

MemoryBounds ==
    /\ {SIZE, FLOOR, WINDOW, AFTER_TASK, IN_CYCLE, MaxTime} \subseteq Nat \ {0}
    /\ {PAUSE, MaxEpisodes, MaxTrouble} \subseteq Nat

VARIABLES
    now,        \* the clock
    at,         \* at[e]: when episode e happened, 0 when it has not
    memory,     \* the sections of the working memory
    told,       \* every episode appended to it, in order
    raced,      \* the memory was written from a copy that was out of date
    cursor,     \* last_distilled_at of the distilled note, 0 when it has none
    distilled,  \* distilled[e]: how many distillations were of e, counted up to 2
    excused,    \* episodes that were due again: the cursor went back, or others were at it
    pc,         \* where each thread is
    held,       \* what it holds meanwhile
    spent       \* how much of MaxTrouble is used

vars == <<now, at, memory, told, raced, cursor, distilled, excused, pc, held, spent>>
memoryVars == <<at, memory, told, raced>>
distilledVars == <<cursor, distilled, excused>>

Episodes == 1..MaxEpisodes
Summary == 0    \* the section that the note is created with
Nothing == [copy |-> <<>>, cursor |-> 0, window |-> {}, ts |-> 0]

Trouble ==
    /\ spent < MaxTrouble
    /\ spent' = spent + 1

Goto(t, place, what) ==
    /\ pc' = [pc EXCEPT ![t] = place]
    /\ held' = [held EXCEPT ![t] = what]

-----------------------------------------------------------------------------
(* remember *)

Kept == IF SIZE > FLOOR THEN SIZE ELSE FLOOR

\* Mutant of Trimmed: the newest sections go.
TrimmedNewest(m) == IF Len(m) > Kept THEN SubSeq(m, 1, Kept) ELSE m

\* _trim_oldest_sections: the first section stays, the next ones go.
Trimmed(m) ==
    IF Len(m) > Kept THEN <<Head(m)>> \o SubSeq(m, Len(m) - Kept + 2, Len(m)) ELSE m

\* The time of an episode is taken first, then append_section loads the note.
Remember(t) ==
    /\ pc[t] = "idle"
    /\ \E e \in Episodes :
           /\ at[e] = 0 /\ \A f \in Episodes : f < e => at[f] # 0
           /\ at' = [at EXCEPT ![e] = now]
           /\ Goto(t, "append", [Nothing EXCEPT !.copy = memory, !.ts = e])
    /\ UNCHANGED <<now, memory, told, raced, distilledVars, spent>>

Write(t, m) ==
    /\ memory' = m
    /\ raced' = (raced \/ memory # held[t].copy)

AppendEpisode(t) ==
    /\ pc[t] = "append"
    /\ Write(t, Append(held[t].copy, held[t].ts))
    /\ told' = Append(told, held[t].ts)
    /\ Goto(t, "trim", Nothing)
    /\ UNCHANGED <<now, at, distilledVars, spent>>

\* The note is loaded again, and written only when it is too long.
Measure(t) ==
    /\ pc[t] = "trim"
    /\ IF Trimmed(memory) = memory THEN Goto(t, "idle", Nothing)
       ELSE Goto(t, "cut", [Nothing EXCEPT !.copy = memory])
    /\ UNCHANGED <<now, memoryVars, distilledVars, spent>>

Cut(t) ==
    /\ pc[t] = "cut"
    /\ Write(t, Trimmed(held[t].copy))
    /\ Goto(t, "idle", Nothing)
    /\ UNCHANGED <<now, at, told, distilledVars, spent>>

-----------------------------------------------------------------------------
(* distill_memory *)

\* Mutant of IsNew: an episode of the very second of the cursor counts again.
IsNewAgain(e) == e = Summary \/ at[e] >= cursor

\* The heading of the first section compares as later than any time.
IsNew(e) == e = Summary \/ at[e] > cursor

\* Sections by their places in the memory; a window is the last of them.
NewSections == {i \in DOMAIN memory : cursor = 0 \/ IsNew(memory[i])}
Window(places) == {i \in places : Cardinality({j \in places : j > i}) < WINDOW}

\* after_task: the first distillation sees one window of sections.
DueAfterTask ==
    Cardinality(IF cursor = 0 THEN Window(NewSections) ELSE NewSections) >= AFTER_TASK

\* _maybe_distill_sagwan
DueInCycle ==
    /\ cursor = 0 \/ now >= cursor + PAUSE
    /\ Cardinality(NewSections) >= IN_CYCLE

\* The cursor is moved; what lies behind the place it had and is new again is excused.
MoveCursor(c) ==
    /\ cursor' = c
    /\ excused' = excused \cup IF c < cursor THEN {e \in Episodes : at[e] > c} ELSE {}

Distil(t) ==
    /\ pc[t] = "idle" /\ memory # <<>>
    /\ DueAfterTask \/ DueInCycle
    /\ LET window == Episodes \cap {memory[i] : i \in Window(NewSections)} IN
       /\ Goto(t, "call", [Nothing EXCEPT !.window = window])
       /\ excused' = excused \cup (window \cap UNION {held[u].window : u \in Threads})
    /\ UNCHANGED <<now, memoryVars, cursor, distilled, spent>>

\* The model answers with rules; the time that will be the cursor is taken, then
\* append_section loads the distilled note.
Answered(t) ==
    /\ pc[t] = "call"
    /\ Goto(t, "rules", [held[t] EXCEPT !.ts = now, !.cursor = cursor])
    /\ UNCHANGED <<now, memoryVars, distilledVars, spent>>

\* It fails, or says nothing of use.
Unanswered(t) ==
    /\ Trouble
    /\ pc[t] = "call"
    /\ Goto(t, "idle", Nothing)
    /\ UNCHANGED <<now, memoryVars, distilledVars>>

\* The rules are appended, with the frontmatter that was loaded.
AppendRules(t) ==
    /\ pc[t] = "rules"
    /\ distilled' = [e \in Episodes |->
                        IF e \in held[t].window /\ distilled[e] < 2 THEN distilled[e] + 1
                        ELSE distilled[e]]
    /\ MoveCursor(IF held[t].cursor = 0 THEN cursor ELSE held[t].cursor)
    /\ Goto(t, "stamp", held[t])
    /\ UNCHANGED <<now, memoryVars, spent>>

Stamp(t) ==
    /\ pc[t] = "stamp"
    /\ MoveCursor(held[t].ts)
    /\ Goto(t, "idle", Nothing)
    /\ UNCHANGED <<now, memoryVars, distilled, spent>>

\* A failure of the second write is passed over: the rules are there without a stamp.
StampFails(t) ==
    /\ Trouble
    /\ pc[t] = "stamp"
    /\ excused' = excused \cup held[t].window
    /\ Goto(t, "idle", Nothing)
    /\ UNCHANGED <<now, memoryVars, cursor, distilled>>

\* update_sagwan_distilled_memory: the body is replaced with the frontmatter that was
\* loaded, or refused as too short.
Edit(t) ==
    /\ Trouble
    /\ pc[t] = "idle"
    /\ Goto(t, "edit", [Nothing EXCEPT !.cursor = cursor])
    /\ UNCHANGED <<now, memoryVars, distilledVars>>

Edited(t) ==
    /\ pc[t] = "edit"
    /\ MoveCursor(held[t].cursor) \/ UNCHANGED <<cursor, excused>>
    /\ Goto(t, "idle", Nothing)
    /\ UNCHANGED <<now, memoryVars, distilled, spent>>

\* The server is restarted.
Crash ==
    /\ Trouble
    /\ pc' = [t \in Threads |-> "idle"] /\ held' = [t \in Threads |-> Nothing]
    /\ excused' = excused \cup UNION {held[t].window : t \in {u \in Threads : pc[u] = "stamp"}}
    /\ UNCHANGED <<now, memoryVars, cursor, distilled>>

Tick ==
    /\ now < MaxTime
    /\ now' = now + 1
    /\ UNCHANGED <<memoryVars, distilledVars, pc, held, spent>>

-----------------------------------------------------------------------------

Init ==
    /\ now = 1 /\ at = [e \in Episodes |-> 0]
    /\ memory = <<Summary>> /\ told = <<>> /\ raced = FALSE
    /\ cursor = 0 /\ distilled = [e \in Episodes |-> 0] /\ excused = {}
    /\ pc = [t \in Threads |-> "idle"] /\ held = [t \in Threads |-> Nothing]
    /\ spent = 0

Next ==
    \/ \E t \in Threads :
           \/ Remember(t) \/ AppendEpisode(t) \/ Measure(t) \/ Cut(t)
           \/ Distil(t) \/ Answered(t) \/ Unanswered(t)
           \/ AppendRules(t) \/ Stamp(t) \/ StampFails(t)
           \/ Edit(t) \/ Edited(t)
    \/ Crash
    \/ Tick

Spec == Init /\ [][Next]_vars

-----------------------------------------------------------------------------

TypeOK ==
    /\ now \in 1..MaxTime /\ at \in [Episodes -> 0..now] /\ cursor \in 0..now
    /\ memory \in Seq({Summary} \cup Episodes) /\ told \in Seq(Episodes)
    /\ distilled \in [Episodes -> 0..2] /\ excused \subseteq Episodes
    /\ pc \in [Threads -> {"idle", "append", "trim", "cut", "call", "rules", "stamp", "edit"}]
    /\ raced \in BOOLEAN /\ spent \in 0..MaxTrouble

\* However often the memory is trimmed, it holds the newest of the episodes, in order, as
\* long as nobody wrote it from an old copy.
MemoryKeepsNewest ==
    raced \/ \E i \in 1..(Len(told) + 1) : memory = <<Summary>> \o SubSeq(told, i, Len(told))

\* Rules are drawn from an episode once: a second time only if distillations were under way
\* together, or one of them was not stamped, or an old stamp came back.
DistilledOnce == \A e \in Episodes : distilled[e] <= 1 \/ e \in excused

\* Not kept: an episode remembered while the model was at work is older than the stamp of
\* that distillation and never distilled, and so are those before the window.
NothingMissed == \A e \in Episodes : at[e] # 0 /\ at[e] <= cursor => distilled[e] > 0
=============================================================================
