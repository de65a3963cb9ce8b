------------------------------ MODULE Accounts ------------------------------
(***************************************************************************)
(* User accounts and the notes that carry their names.  The store of users *)
(* is read, changed and written under one lock, and every change first     *)
(* puts the admin's record right.  Notes know their owner only by nickname *)
(* so a new nickname is written into each note afterwards, one by one,     *)
(* while other requests go on with the name they were authenticated with.  *)
(* Passwords, tokens and roles are left out.                               *)
(***************************************************************************)
EXTENDS Naturals, FiniteSets

CONSTANTS
    Users,       \* usernames
    Admin,       \* the username of the admin's record
    Names,       \* nicknames
    AdminName,   \* the nickname that the configuration gives the admin
    Reserved,    \* nicknames of the system's own
    NOTES,       \* notes are 1..NOTES
    DAILY,       \* accounts that visitors may open in a day, provision_daily_cap
    Requests,    \* requests in flight at once
    MaxRenames,  \* bound: requests for a new nickname
    MaxTrouble   \* bound: restarts

AccountBounds ==
    /\ Admin \in Users /\ AdminName \in Names \ Reserved /\ Reserved \subseteq Names
    /\ {NOTES, DAILY, MaxRenames, MaxTrouble} \subseteq Nat
    \* sagwan's account, which keeps its nickname, is left out
    /\ {"sagwan", "none"} \cap Names = {}

VARIABLES
    nick,      \* the nickname of each account in the store
    notes,     \* the owner that each note names, and who wrote it
    jobs,      \* what each request is doing
    counted,   \* _PROVISION_DAILY_COUNT, kept in memory
    opened,    \* accounts that visitors opened today
    overlap,   \* some other request was in flight during a rename, or a restart cut one off
    spent      \* how much of each bound is used

vars == <<nick, notes, jobs, counted, opened, overlap, spent>>

Sagwan == "sagwan"
NoName == "none"
Unwritten == [owner |-> NoName, by |-> NoName]
Notes == 1..NOTES
Accounts == {u \in Users : nick[u] # NoName}

Idle == [step |-> "idle", user |-> Admin, name |-> AdminName, to |-> AdminName, rest |-> {},
         note |-> 0, owner |-> NoName]
Renaming(some) == \E r \in Requests : some[r].step \in {"storing", "scanning", "saving"}

\* What the requests do next.
Becomes(r, job) ==
    LET next == [jobs EXCEPT ![r] = job]
    IN  /\ jobs' = next
        /\ overlap' = (overlap \/ (Renaming(next) /\ \E q \in Requests \ {r} : jobs[q] # Idle))

-----------------------------------------------------------------------------
(* The store.                                                              *)

\* _seed_system_users
Seeded == [nick EXCEPT ![Admin] = AdminName]

\* Mutant of Taken: the names are looked at before the admin's record is put right.
TakenUnseeded(n) == \E u \in Users : nick[u] = n

\* _nickname_exists, on the users that are about to be written.
Taken(n) == \E u \in Users : Seeded[u] = n

\* create_user in _mutate_store: nothing is saved when it refuses.
Create(u, n) ==
    IF Seeded[u] # NoName \/ Taken(n) \/ n \in Reserved
    THEN UNCHANGED nick
    ELSE nick' = [Seeded EXCEPT ![u] = n]

\* Mutant of CapReached: the limit is checked after it was passed.
CapReachedLate == counted > DAILY

CapReached == counted >= DAILY

\* Signing up and provisioning: the attempt counts before the account is made.
SignUp(u, n) ==
    /\ ~CapReached
    /\ Create(u, n)
    /\ counted' = counted + 1
    /\ opened' = IF nick' = nick THEN opened ELSE opened + 1
    /\ UNCHANGED <<notes, jobs, overlap, spent>>

AdminCreates(u, n) ==
    /\ Create(u, n) /\ nick' # nick
    /\ UNCHANGED <<notes, jobs, counted, opened, overlap, spent>>

\* UTC midnight
NewDay ==
    /\ counted' = 0 /\ opened' = 0
    /\ UNCHANGED <<nick, notes, jobs, overlap, spent>>

-----------------------------------------------------------------------------
(* A new nickname.                                                         *)

\* The request is authenticated: the handler knows the nickname of this moment.
AskRename(r, u, n) ==
    /\ jobs[r] = Idle /\ u \in Accounts
    /\ spent.renames < MaxRenames /\ spent' = [spent EXCEPT !.renames = @ + 1]
    /\ Becomes(r, [Idle EXCEPT !.step = "storing", !.user = u, !.name = nick[u], !.to = n])
    /\ UNCHANGED <<nick, notes, counted, opened>>

Written == {n \in Notes : notes[n] # Unwritten}

\* update_user_profile and, unless it refuses, the list of all notes.
Store(r) ==
    LET u == jobs[r].user
        n == jobs[r].to
        refused == n # Seeded[u] /\ (Taken(n) \/ (n \in Reserved /\ u # Admin))
    IN  /\ jobs[r].step = "storing"
        /\ nick' = IF refused THEN nick ELSE [Seeded EXCEPT ![u] = n]
        /\ Becomes(r, IF refused \/ jobs[r].name = n THEN Idle
                      ELSE [jobs[r] EXCEPT !.step = "scanning", !.rest = Written])
        /\ UNCHANGED <<notes, counted, opened, spent>>

\* Mutant of OldName: the name is looked up when the store has the new one already.
OldNameLate(r) == nick[jobs[r].user]

OldName(r) == jobs[r].name

\* rename_actor_references loads a note; one that names somebody else is left alone.
Scan(r, n) ==
    /\ jobs[r].step = "scanning" /\ n \in jobs[r].rest
    /\ \A m \in jobs[r].rest : n <= m
    /\ Becomes(r, IF notes[n].owner = OldName(r)
                  THEN [jobs[r] EXCEPT !.step = "saving", !.note = n, !.rest = @ \ {n}]
                  ELSE [jobs[r] EXCEPT !.rest = @ \ {n}])
    /\ UNCHANGED <<nick, notes, counted, opened, spent>>

Save(r) ==
    /\ jobs[r].step = "saving"
    /\ notes' = [notes EXCEPT ![jobs[r].note].owner = jobs[r].to]
    /\ Becomes(r, [jobs[r] EXCEPT !.step = "scanning", !.note = 0])
    /\ UNCHANGED <<nick, counted, opened, spent>>

Answer(r) ==
    /\ jobs[r].step = "scanning" /\ jobs[r].rest = {}
    /\ Becomes(r, Idle)
    /\ UNCHANGED <<nick, notes, counted, opened, spent>>

-----------------------------------------------------------------------------
(* Notes.                                                                  *)

\* upsert_note of a new note, by the name of the moment of authentication.
AskWrite(r, u) ==
    /\ jobs[r] = Idle /\ u \in Accounts
    /\ Becomes(r, [Idle EXCEPT !.step = "writing", !.user = u, !.name = nick[u]])
    /\ UNCHANGED <<nick, notes, counted, opened, spent>>

Write(r, n) ==
    /\ jobs[r].step = "writing" /\ n \notin Written
    /\ \A m \in Notes \ Written : n <= m
    /\ notes' = [notes EXCEPT ![n] = [owner |-> jobs[r].name, by |-> jobs[r].user]]
    /\ Becomes(r, Idle)
    /\ UNCHANGED <<nick, counted, opened, spent>>

\* A vote, a guardrail's result: the frontmatter is loaded and put back, owner and all.
Load(r, n) ==
    /\ jobs[r] = Idle /\ n \in Written
    /\ Becomes(r, [Idle EXCEPT !.step = "annotating", !.note = n, !.owner = notes[n].owner])
    /\ UNCHANGED <<nick, notes, counted, opened, spent>>

Annotate(r) ==
    /\ jobs[r].step = "annotating"
    /\ notes' = [notes EXCEPT ![jobs[r].note].owner = jobs[r].owner]
    /\ Becomes(r, Idle)
    /\ UNCHANGED <<nick, counted, opened, spent>>

\* set_publication_status: a published note is sagwan's.
Publish(n) ==
    /\ n \in Written /\ notes[n].owner # Sagwan
    /\ notes' = [notes EXCEPT ![n].owner = Sagwan]
    /\ UNCHANGED <<nick, jobs, counted, opened, overlap, spent>>

\* The process starts anew: requests and the count of the day are gone, and the first
\* look at the store seeds it.
Restart ==
    /\ spent.trouble < MaxTrouble /\ spent' = [spent EXCEPT !.trouble = @ + 1]
    /\ jobs' = [r \in Requests |-> Idle]
    /\ overlap' = (overlap \/ Renaming(jobs))
    /\ counted' = 0
    /\ nick' = Seeded
    /\ UNCHANGED <<notes, opened>>

Init ==
    /\ nick = [u \in Users |-> IF u = Admin THEN AdminName ELSE NoName]
    /\ notes = [n \in Notes |-> Unwritten]
    /\ jobs = [r \in Requests |-> Idle]
    /\ counted = 0 /\ opened = 0 /\ overlap = FALSE
    /\ spent = [renames |-> 0, trouble |-> 0]

Request(r) ==
    \/ \E u \in Users : AskWrite(r, u) \/ \E n \in Names : AskRename(r, u, n)
    \/ \E n \in Notes : Scan(r, n) \/ Write(r, n) \/ Load(r, n)
    \/ Store(r) \/ Save(r) \/ Answer(r) \/ Annotate(r)

Next ==
    \/ \E u \in Users, n \in Names : SignUp(u, n) \/ AdminCreates(u, n)
    \/ NewDay \/ Restart
    \/ \E r \in Requests : Request(r)
    \/ \E n \in Notes : Publish(n)

Spec == Init /\ [][Next]_vars

-----------------------------------------------------------------------------

TypeOK ==
    /\ nick \in [Users -> Names \cup {NoName}]
    /\ notes \in [Notes -> [owner : Names \cup {Sagwan, NoName}, by : Users \cup {NoName}]]
    /\ \A r \in Requests : jobs[r].step \in {"idle", "storing", "scanning", "saving", "writing",
                                             "annotating"}
    /\ {counted, opened} \subseteq Nat /\ overlap \in BOOLEAN
    /\ spent \in [renames : 0..MaxRenames, trouble : 0..MaxTrouble]

\* Nobody shares a nickname, though the admin's is put back by each change of the store.
NicknamesUnique ==
    \A u, v \in Accounts : nick[u] = nick[v] => u = v

\* However often accounts change their names, and whoever takes a name that was given up,
\* a note names its author as he is called now or sagwan, but for those a rename in flight
\* has yet to reach, as long as nothing else went on during a rename.  (The admin is called
\* by the configured name again after the next change of the store.)
NotesFollowNames ==
    overlap \/ \A n \in Written :
        \/ notes[n].owner \in {nick[notes[n].by], Sagwan}
        \/ notes[n].by = Admin
        \/ \E r \in Requests : jobs[r].user = notes[n].by /\ Renaming(jobs)

\* Visitors open no more accounts in a day than the cap, per start of the process.
OpenedCapped == opened <= DAILY * (spent.trouble + 1)
=============================================================================
