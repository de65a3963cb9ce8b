------------------------------ MODULE MCRecords ------------------------------
(* What the server keeps for its users and shows them: accounts, reviews,  *)
(* conversations with the librarian and its tools, search indexes, pages,  *)
(* the public memory and references into evidence.  Each has a state of    *)
(* its own, so a behaviour follows one of them, the one in focus, from its *)
(* start.                                                                  *)
EXTENDS Integers, Sequences, FiniteSets, TLC

CONSTANTS
    Users, Admin, Names, AdminName, Reserved, NOTES, DAILY, Requests, MaxRenames, MaxTrouble,
    Capsules, Claims, Writers, Owner, Stances, Lifecycles, DEPTH, MaxBypass,
    Turns, Caller,
    Engines, ROUNDS, MaxBatch,
    Paths, Searchers, Editors, MaxChanges, MaxSearches,
    Documents, FileNames, Viewers, Forms, RRF_K, MaxVotes

VARIABLES
    focus,
    nick, owned, jobs, counted, opened, overlap, accountSpent,
    kind, review, counts, stale, direct, threadSpent,
    session, turn, copy, disturbed, shared, chatSpent,
    engine, round, sent, todo, ran, effects, told, unlogged, outcome,
    mode, claims, capsules, writes, answer,
    notes, returned, writers, cached, loading, words, vectors, disk, dirty, timer, saving,
    searches, embedded, searchSpent,
    vault, votes, graph, page, found,
    index, packets, cited, builds

\* The capsule is one writer's, the claims that may review it and each other another's.
Owners == [n \in {"k", "p", "q", "r"} |-> IF n = "k" THEN "w" ELSE "o"]

\* Two messages of the participant and one of another; two rounds of each loop.
Callers == [m \in 1..3 |-> IF m = 3 THEN "w" ELSE "v"]
Rounds == [e \in {"responses", "completions", "cli", "ollama"} |-> 2]

A == INSTANCE Accounts WITH notes <- owned, spent <- accountSpent
T == INSTANCE Threads WITH spent <- threadSpent
C == INSTANCE ChatSessions WITH pc <- turn, spent <- chatSpent
L == INSTANCE ToolLoop

\* Claims and capsules that resemble and cite each other, rejected ones and requests.
NewClaim(text, status, k) == [text |-> text, status |-> status, kind |-> k]
NewCapsule(title, points, sources, k) ==
    [title |-> title, points |-> points, sources |-> sources, kind |-> k]

P == INSTANCE PublicMemory WITH
    Claims <- 1..3, Capsules <- 1..3, Texts <- {"a", "b"}, Akin <- {{"a", "b"}},
    Links <- {<<1, 2>>},
    NewClaims <- {NewClaim("a", "accepted", "plain"), NewClaim("a", "rejected", "full"),
                  NewClaim("b", "accepted", "request")},
    NewCapsules <- {NewCapsule("a", "b", {}, "plain"), NewCapsule("b", "b", {1}, "plain"),
                    NewCapsule("a", "a", {}, "request")},
    TOP <- 2, ABSENT <- 20, MaxWrites <- 3

S == INSTANCE SearchIndexes WITH
    Writers <- Editors, MaxWrites <- MaxChanges, spent <- searchSpent

V == INSTANCE NoteViews WITH Notes <- Documents, Names <- FileNames

\* Notes of each kind and visibility, some of which mention, review or replace others; two
\* of three may have votes.
Form(k, name, visibility, links, targets, place, trust, replaced) ==
    [kind |-> k, name |-> name, visibility |-> visibility, owner |-> "v", links |-> links,
     review |-> targets, place |-> place, trust |-> trust, replaced |-> replaced, text |-> "x"]

Plain == Form("capsule", "p", "public", {"q", "r"}, {}, "knowledge", "unreviewed", FALSE)

NoVotes == [for |-> 0, against |-> 0]

Shapes ==
    {Plain,
     Form("claim", "q", "private", {}, {1}, "knowledge", "unreviewed", FALSE),
     Form("claim", "q", "public", {"p"}, {}, "knowledge", "unreviewed", FALSE),
     Form("claim", "r", "shared", {}, {}, "archived", "merged", FALSE),
     Form("capsule", "r", "private", {"p"}, {}, "operations", "unreviewed", TRUE)}

\* A body in two versions, one that shrinks, and a page in sections.
Body(url, sha, paragraphs, frames, sections) ==
    [url |-> url, sha |-> sha, paragraphs |-> paragraphs, frames |-> frames,
     sections |-> sections]

E == INSTANCE EvidenceRefs WITH
    Bodies <- {Body("u", 1, <<<<0, 1>>, <<2, 3>>, <<4, 6>>>>, {<<2, 5>>}, {}),
               Body("u", 2, <<<<0, 1>>>>, {}, {}),
               Body("v", 1, <<<<0, 1>>, <<1, 2>>>>, {}, {<<0, 1>>, <<1, 2>>})},
    Clauses <- <<"q1", "scenario">>, ROWS <- 2, PER_CLAUSE <- 2, BUDGET <- 5,
    MaxPackets <- 2, MaxCited <- 1, MaxBuilds <- 1

ASSUME RecordsBounds ==
    /\ A!AccountBounds /\ T!ThreadBounds /\ C!SessionBounds /\ L!LoopBounds
    /\ P!MemoryBounds /\ S!IndexBounds /\ V!ViewBounds /\ E!EvidenceBounds

accountVars == <<nick, owned, jobs, counted, opened, overlap, accountSpent>>
threadVars == <<kind, review, counts, stale, direct, threadSpent>>
chatVars == <<session, turn, copy, disturbed, shared, chatSpent>>
loopVars == <<engine, round, sent, todo, ran, effects, told, unlogged, outcome>>
publicVars == <<mode, claims, capsules, writes, answer>>
searchVars == <<notes, returned, writers, cached, loading, words, vectors, disk, dirty, timer,
                saving, searches, embedded, searchSpent>>
viewVars == <<vault, votes, graph, page, found>>
evidenceVars == <<index, packets, cited, builds>>
recordsVars == <<focus, accountVars, threadVars, chatVars, loopVars, publicVars, searchVars,
                 viewVars, evidenceVars>>

RecordsInit ==
    /\ focus \in {"accounts", "threads", "chats", "tools", "public", "search", "views", "evidence"}
    /\ A!Init /\ T!Init /\ C!Init /\ S!Init
    /\ (focus # "tools" => engine = "cli") /\ L!Init
    /\ (focus # "public" => mode = "hybrid") /\ P!Init
    /\ (focus # "evidence" => index = {}) /\ E!Init
    /\ (focus # "views" => /\ vault = [n \in Documents |-> CHOOSE f \in Forms : TRUE]
                           /\ votes = [n \in Documents |-> NoVotes]) /\ V!Init
    \* the last note has no votes
    /\ \A n \in Documents : votes[n] = NoVotes \/ \E m \in Documents : m > n

\* Nothing is explored of the components that are not in focus.
RecordsNext ==
    /\ UNCHANGED focus
    /\ focus # "accounts" => UNCHANGED accountVars
    /\ focus # "threads" => UNCHANGED threadVars
    /\ focus # "chats" => UNCHANGED chatVars
    /\ focus # "tools" => UNCHANGED loopVars
    /\ focus # "public" => UNCHANGED publicVars
    /\ focus # "search" => UNCHANGED searchVars
    /\ focus # "views" => UNCHANGED viewVars
    /\ focus # "evidence" => UNCHANGED evidenceVars
    /\ \/ focus = "accounts" /\ A!Next
       \/ focus = "threads" /\ T!Next
       \/ focus = "chats" /\ C!Next
       \/ focus = "tools" /\ L!Next
       \/ focus = "public" /\ P!Next
       \/ focus = "search" /\ S!Next
       \/ focus = "views" /\ V!Next
       \/ focus = "evidence" /\ E!Next

RecordsSpec == RecordsInit /\ [][RecordsNext]_recordsVars

\* Each of these begins with the type of its components' state.

\* No two accounts share a nickname, notes name their writer's present one, and a day opens
\* no more accounts than the cap for each start of the server (users.py:update_user_profile,
\* vault.py:rename_actor_references, main.py:_check_provision_daily_cap).
AccountsInOrder == focus = "accounts" =>
    A!TypeOK /\ A!NicknamesUnique /\ A!NotesFollowNames /\ A!OpenedCapped

\* Reviews never target each other in a circle, and each note's counts are those of the
\* reviews there are (mcp_server.py:_normalize_write_metadata, _recompute_parent_aggregate).
ReviewsSound == focus = "threads" => T!TypeOK /\ T!TargetsAcyclic /\ T!CountsCurrent

\* What was said in a conversation is kept and seen by its participants only; each call of a
\* tool is answered once, and the caller is told of what took effect (sagwan_loop.py:
\* append_chat_message, librarian.py:_invoke_chatgpt_responses_with_tools).
ConversationsWhole ==
    /\ focus = "chats" => C!TypeOK /\ C!TurnKept /\ C!SessionsApart
    /\ focus = "tools" => L!TypeOK /\ L!CallsAnswered /\ L!EffectsTold

\* A search sees what was written before it began, under the words of the present notes; the
\* graph and the pages show the same notes, and more trusted ones rank first.
NotesFound ==
    /\ focus = "search" => S!TypeOK /\ S!ReadsOwnWrites /\ S!WordsOfTheseNotes
    /\ focus = "views" => V!TypeOK /\ V!GraphWhole /\ V!PageAgrees /\ V!TrustOrders

\* The public memory answers from present capsules, without requests and rejected claims, by
\* an order both lists agree on; packets show whole spans, each question by turns, and only
\* what was shown and still stands is cited.
AnswersSound ==
    /\ focus = "public" => P!TypeOK /\ P!CapsuleIndexFresh /\ P!AnswersClean /\ P!FusionAgrees
    /\ focus = "evidence" => E!TypeOK /\ E!SpansSound /\ E!ClausesRepresented /\ E!CitationsSound
=============================================================================
