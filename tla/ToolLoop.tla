------------------------------ MODULE ToolLoop ------------------------------
(***************************************************************************)
(* The four loops in which a model asks for tools and the server runs them *)
(* until it answers: the chat over the Responses API, the librarian over   *)
(* the completions API, the librarian over the claude CLI, the subordinate *)
(* over Ollama.  Each keeps the conversation itself and sends all of it in *)
(* every round; they differ in what a bad call or a failing tool does.     *)
(***************************************************************************)
EXTENDS Naturals, Sequences, FiniteSets, SequencesExt

CONSTANTS
    Engines,    \* of "responses", "completions", "cli", "ollama"
    ROUNDS,     \* ROUNDS[e]: 5, 6, 14 and 4 in the code
    MaxBatch    \* bound: calls in one answer

LoopBounds ==
    /\ Engines \subseteq {"responses", "completions", "cli", "ollama"}
    /\ ROUNDS \in [Engines -> Nat \ {0}] /\ MaxBatch \in Nat \ {0}

VARIABLES
    engine,     \* which loop
    round,      \* rounds begun
    sent,       \* the conversation: calls and their outputs
    todo,       \* calls of the last answer that are not dealt with yet
    ran,        \* how many of that answer were run
    effects,    \* calls that took effect
    told,       \* calls that the reply's tool events or the audit log tell of
    unlogged,   \* calls whose line the audit log could not take
    outcome     \* "open" until the loop ends

vars == <<engine, round, sent, todo, ran, effects, told, unlogged, outcome>>

\* A call is known by its place; it may lack its name, carry arguments that cannot be
\* read, be for a tool that fails, or be in order.
Kinds == {"orphan", "unreadable", "failing", "fine"}
Call(i, kind) == [id |-> <<round, i>>, kind |-> kind]
Asked(c) == [type |-> "call", id |-> c.id]
Output(c) == [type |-> "output", id |-> c.id]

\* Only the Responses API streams names and arguments in pieces, and only the CLI's text
\* holds one call at a time.
Batches ==
    UNION {[1..n -> IF engine = "responses" THEN Kinds ELSE Kinds \ {"orphan"}] :
             n \in 0..(IF engine = "cli" THEN 1 ELSE MaxBatch)}

Ends(how) == outcome' = how

Init ==
    /\ engine \in Engines
    /\ round = 0 /\ sent = <<>> /\ todo = <<>> /\ ran = 0
    /\ effects = {} /\ told = {} /\ unlogged = {} /\ outcome = "open"

AtModel == outcome = "open" /\ todo = <<>> /\ ran = 0

\* The service cannot be reached, answers with an error, or the CLI reports one.
CallFails ==
    /\ AtModel /\ round < ROUNDS[engine]
    /\ Ends(IF engine = "completions" THEN "raised" ELSE "error")
    /\ UNCHANGED <<engine, round, sent, todo, ran, effects, told, unlogged>>

\* The model asks for no tool: that is its answer.
Answer ==
    /\ AtModel /\ round < ROUNDS[engine]
    /\ Ends("answer")
    /\ UNCHANGED <<engine, round, sent, todo, ran, effects, told, unlogged>>

\* The stream ends before response.completed: none of its calls is run.
BreaksOff ==
    /\ AtModel /\ round < ROUNDS[engine]
    /\ engine = "responses"
    /\ Ends("error")
    /\ UNCHANGED <<engine, round, sent, todo, ran, effects, told, unlogged>>

\* Two of the loops put all of the calls into the conversation before they run any.
AskForTools ==
    /\ AtModel /\ round < ROUNDS[engine]
    /\ \E batch \in Batches \ {<<>>} :
           LET calls == [i \in DOMAIN batch |-> Call(i, batch[i])] IN
           /\ todo' = calls
           /\ sent' = IF engine \in {"completions", "ollama"}
                      THEN sent \o [i \in DOMAIN calls |-> Asked(calls[i])] ELSE sent
    /\ round' = round + 1
    /\ UNCHANGED <<engine, ran, effects, told, unlogged, outcome>>

\* Mutant of Exchange: a call without a name is put into the conversation all the same.
ExchangeOrphan(c) ==
    IF c.kind = "orphan" THEN <<Asked(c)>>
    ELSE IF engine = "responses" THEN <<Asked(c), Output(c)>> ELSE <<Output(c)>>

\* What a call adds to the conversation; the CLI's is told to it as text.
Exchange(c) ==
    CASE c.kind = "orphan" -> <<>>
      [] c.kind # "orphan" /\ engine \in {"responses", "cli"} -> <<Asked(c), Output(c)>>
      [] OTHER -> <<Output(c)>>

Skip ==
    /\ todo # <<>> /\ Head(todo).kind = "orphan"
    /\ sent' = sent \o Exchange(Head(todo))
    /\ todo' = Tail(todo)
    /\ ran' = IF Len(todo) = 1 /\ ran = 0 THEN 0 ELSE ran
    /\ IF Len(todo) = 1 /\ ran = 0 THEN Ends("answer") ELSE UNCHANGED outcome
    /\ UNCHANGED <<engine, round, effects, told, unlogged>>

\* Arguments that cannot be read, and tools that fail, end the loops of two engines; the
\* others tell the model.
Stops(c) ==
    \/ c.kind = "unreadable" /\ engine \in {"responses", "completions"}
    \/ c.kind = "failing" /\ engine = "completions"

Stop ==
    /\ outcome = "open" /\ todo # <<>> /\ Stops(Head(todo))
    /\ Ends(IF engine = "completions" THEN "raised" ELSE "error")
    /\ todo' = <<>> /\ ran' = 0
    /\ UNCHANGED <<engine, round, sent, effects, told, unlogged>>

\* Mutant of Tells: a call that failed is not told of.
TellsOfSuccess(c) == c.kind = "fine"

\* Tool events hold every call, failed or not; the audit log each system tool.
Tells(c) == c.kind # "orphan"

\* What a tool may have done, whatever it answers; without its arguments it does nothing.
HasEffect(c) == IF c.kind = "unreadable" THEN {FALSE} ELSE BOOLEAN

\* Only the system tools write an audit log, and writing it may fail.
IsLogged == IF engine = "responses" THEN BOOLEAN ELSE {TRUE}

\* Ollama runs an unreadable call without its arguments, which its tools then miss.
Run ==
    /\ outcome = "open" /\ todo # <<>>
    /\ LET c == Head(todo) IN
       /\ c.kind # "orphan" /\ ~Stops(c)
       /\ \E effect \in HasEffect(c), logged \in IsLogged :
              /\ effects' = IF effect THEN effects \cup {c.id} ELSE effects
              /\ told' = IF logged /\ Tells(c) THEN told \cup {c.id} ELSE told
              /\ unlogged' = IF logged THEN unlogged ELSE unlogged \cup {c.id}
       /\ sent' = sent \o Exchange(c)
    /\ todo' = Tail(todo) /\ ran' = ran + 1
    /\ UNCHANGED <<engine, round, outcome>>

\* All calls of the answer are done: the next round.
NextRound ==
    /\ outcome = "open" /\ todo = <<>> /\ ran > 0
    /\ ran' = 0
    /\ UNCHANGED <<engine, round, sent, todo, effects, told, unlogged, outcome>>

\* The last round asked for tools again.
GiveUp ==
    /\ AtModel /\ round = ROUNDS[engine]
    /\ Ends(IF engine = "responses" THEN "error" ELSE "answer")
    /\ UNCHANGED <<engine, round, sent, todo, ran, effects, told, unlogged>>

Next ==
    \/ CallFails \/ Answer \/ BreaksOff \/ AskForTools
    \/ Skip \/ Stop \/ Run \/ NextRound \/ GiveUp

Spec == Init /\ [][Next]_vars

-----------------------------------------------------------------------------

TypeOK ==
    /\ engine \in Engines /\ round \in 0..ROUNDS[engine] /\ ran \in 0..MaxBatch
    /\ \A i \in DOMAIN sent : sent[i].type \in {"call", "output"}
    /\ outcome \in {"open", "answer", "error", "raised"}

\* Whenever the conversation is sent, each call in it has its output behind it.
CallsAnswered ==
    AtModel => \A i \in DOMAIN sent :
        sent[i].type = "call" =>
            \E j \in (i + 1)..Len(sent) : sent[j] = [type |-> "output", id |-> sent[i].id]

\* What the tools did is told, in the reply's events or in the audit log, unless an
\* exception ended the loop or the log could not be written.
EffectsTold == outcome # "open" /\ outcome # "raised" => effects \subseteq told \cup unlogged
=============================================================================
