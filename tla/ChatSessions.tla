---------------------------- MODULE ChatSessions ----------------------------
(***************************************************************************)
(* A session of the chat with Sagwan is a note: the endpoint checks whose  *)
(* it is, appends the message, waits for the model, and appends the reply. *)
(* Each append loads the note and writes it back; one that fails writes    *)
(* the session anew.  Requests run in threads of their own, and a session  *)
(* can be deleted while an answer is on its way.                           *)
(***************************************************************************)
EXTENDS Naturals, Sequences, FiniteSets

CONSTANTS
    Turns,       \* messages that are sent, and answered, in one session
    Caller,      \* Caller[m]: the nickname of who sends message m
    Admin,       \* the caller who may read and write every session
    MaxTrouble   \* bound: writes that fail, deletions

Nobody == "nobody"    \* no participant: the session is not there
SessionBounds == MaxTrouble \in Nat /\ \A m \in Turns : Caller[m] # Nobody

VARIABLES
    session,    \* the note: whose it is, what was said, how much that is
    pc,         \* where each turn is
    copy,       \* the note as a turn loaded it
    disturbed,  \* turns that were not alone, or whose session was written anew
    shared,     \* turns whose session became another one after the check
    spent       \* how much of MaxTrouble is used

vars == <<session, pc, copy, disturbed, shared, spent>>

Anyone == "user"    \* the participant of a session that a reply starts
Absent == [participant |-> Nobody, said |-> <<>>, count |-> 0]
Message(m, role) == <<m, role>>

Trouble ==
    /\ spent < MaxTrouble
    /\ spent' = spent + 1

UnderWay == {m \in Turns : pc[m] \notin {"idle", "done", "refused"}}
Goto(m, place) == pc' = [pc EXCEPT ![m] = place]

\* The note is now s; when that is another's session, those under way did not check it.
Becomes(s, aware) ==
    /\ session' = s
    /\ shared' = shared \cup IF s.participant # session.participant THEN UnderWay \ aware ELSE {}

\* Mutant of Allowed: whoever knows the name of a session may write to it.
AllowedAll(c) == TRUE

\* _require_sagwan_session_access; a session of nobody is not checked.
Allowed(c) == session.participant \in {Nobody, c} \/ c = Admin

\* api_sagwan_chat loads the session and checks whose it is.
Receive(m) ==
    /\ pc[m] = "idle"
    /\ Goto(m, IF Allowed(Caller[m]) THEN "question" ELSE "refused")
    /\ disturbed' = disturbed \cup IF UnderWay = {} THEN {} ELSE UnderWay \cup {m}
    /\ UNCHANGED <<session, copy, shared, spent>>

\* append_chat_message loads the note ...
Load(m, place, next) ==
    /\ pc[m] = place
    /\ copy' = [copy EXCEPT ![m] = session]
    /\ Goto(m, next)
    /\ UNCHANGED <<session, disturbed, shared, spent>>

\* Mutant of Appended: the copy of the first load is still there for the reply.
AppendedToFirst(s, msg) ==
    [s EXCEPT !.said = IF msg[2] = "user" \/ @ = <<>> THEN Append(@, msg)
                       ELSE [@ EXCEPT ![Len(@)] = msg],
              !.count = @ + 1]

Appended(s, msg) == [s EXCEPT !.said = Append(@, msg), !.count = @ + 1]
Begun(msg, participant) == [participant |-> participant, said |-> <<msg>>, count |-> 1]

\* ... and writes it with the frontmatter and the text it loaded, or begins it.
Write(m, place, role, next) ==
    LET msg == Message(m, role) IN
    /\ pc[m] = place
    /\ Becomes(IF copy[m] # Absent THEN Appended(copy[m], msg)
               ELSE Begun(msg, IF role = "user" THEN Caller[m] ELSE Anyone), {m})
    /\ Goto(m, next)
    /\ UNCHANGED <<copy, disturbed, spent>>

\* A write that fails is taken for a session that does not exist: it is begun anew.
WriteFails(m, place, role, next) ==
    /\ Trouble
    /\ pc[m] = place /\ copy[m] # Absent
    /\ Becomes(Begun(Message(m, role), IF role = "user" THEN Caller[m] ELSE Anyone), {})
    /\ Goto(m, next)
    /\ disturbed' = Turns
    /\ UNCHANGED copy

\* _sagwan_chat_respond always has something to say, be it an error.
Respond(m) ==
    /\ pc[m] = "model"
    /\ Goto(m, "reply")
    /\ UNCHANGED <<session, copy, disturbed, shared, spent>>

Delete(c) ==
    /\ Trouble
    /\ session # Absent /\ Allowed(c)
    /\ Becomes(Absent, {})
    /\ disturbed' = Turns
    /\ UNCHANGED <<pc, copy>>

Init ==
    /\ session = Absent
    /\ pc = [m \in Turns |-> "idle"] /\ copy = [m \in Turns |-> Absent]
    /\ disturbed = {} /\ shared = {} /\ spent = 0

Next ==
    \/ \E m \in Turns :
           \/ Receive(m) \/ Respond(m)
           \/ Load(m, "question", "asking") \/ Load(m, "reply", "replying")
           \/ Write(m, "asking", "user", "model") \/ Write(m, "replying", "sagwan", "done")
           \/ WriteFails(m, "asking", "user", "model")
           \/ WriteFails(m, "replying", "sagwan", "done")
    \/ \E m \in Turns : Delete(Caller[m])

Spec == Init /\ [][Next]_vars

-----------------------------------------------------------------------------

TypeOK ==
    /\ session.participant \in {Nobody, Anyone} \cup {Caller[m] : m \in Turns}
    /\ session.said \in Seq(Turns \X {"user", "sagwan"}) /\ session.count \in Nat
    /\ pc \in [Turns -> {"idle", "refused", "question", "asking", "model", "reply",
                         "replying", "done"}]
    /\ disturbed \subseteq Turns /\ shared \subseteq Turns /\ spent \in 0..MaxTrouble

\* A turn that was alone in its session stands there as question and answer.
TurnKept ==
    \A m \in Turns : pc[m] = "done" /\ m \notin disturbed =>
        \E i \in 1..(Len(session.said) - 1) :
            /\ session.said[i] = Message(m, "user")
            /\ session.said[i + 1] = Message(m, "sagwan")

\* What stands in a session was said by its participant or an admin, unless the session was
\* begun, begun anew or deleted while the turn was under way.
SessionsApart ==
    \A i \in DOMAIN session.said :
        LET m == session.said[i][1] IN
        m \in shared \/ Caller[m] \in {session.participant, Admin}
=============================================================================
