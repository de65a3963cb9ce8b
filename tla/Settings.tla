------------------------------ MODULE Settings ------------------------------
(***************************************************************************)
(* The settings of Sagwan and of the librarian, each a file that requests  *)
(* of administrators load, change and write, that cycles load at every     *)
(* step, and that an operator may edit by hand.  Writing empties the file  *)
(* first.  A key is normalised when it is loaded and again when it is      *)
(* saved, in two copies of the code.                                       *)
(***************************************************************************)
EXTENDS Integers, FiniteSets

CONSTANTS
    Admins,     \* requests in progress
    LOW, HIGH,  \* the range of a setting that is a number
    Numbers,    \* what may be asked for
    DEFAULT,    \* its default
    Tools,      \* of the librarian, by their names
    Exec,       \* the tool that is off by default
    MaxChanges  \* bound: saves begun, edits and crashes

SettingsBounds ==
    /\ {LOW, HIGH} \subseteq Nat \ {0} /\ DEFAULT \in LOW..HIGH /\ MaxChanges \in Nat
    /\ LOW..HIGH \subseteq Numbers /\ Numbers \subseteq Nat /\ Exec \in Tools

VARIABLES
    sagwan,     \* its file: {a record}, or Blank while it is being written
    librarian,  \* its file: {a set of tools}, or Blank
    requests,   \* what each request has loaded and was asked to save
    answered,   \* what the last save of each file answered, if nothing wrote it since
    wanted,     \* what was last written whole, of what saving knows, and edited by hand
    changes     \* how much of the bound is used

vars == <<sagwan, librarian, requests, answered, wanted, changes>>

\* A file has one value or is empty.
Blank == {}
Nothing == {}
Idle == [step |-> "idle", file |-> "none", next |-> Nothing]

\* interval stands for the settings that saving knows; cooldown for those it does not
\* (research_topic_cooldown_cycles, research_dedup_similarity_threshold).
Values == [enabled : BOOLEAN, interval : Numbers, cooldown : Numbers]
Defaults == [enabled |-> TRUE, interval |-> DEFAULT, cooldown |-> DEFAULT]
DefaultTools == Tools \ {Exec}

Spend ==
    /\ changes < MaxChanges
    /\ changes' = changes + 1

----------------------------------------------------------------------------
(* load_sagwan_settings, save_sagwan_settings.                             *)

Clamped(n) == IF n < LOW THEN LOW ELSE IF n > HIGH THEN HIGH ELSE n

\* Zero is no value: the default stands for it.
Or(n, default) == IF n = 0 THEN default ELSE n

Loaded(file) ==
    IF file = Blank THEN Defaults
    ELSE LET raw == CHOOSE r \in file : TRUE
         IN  [enabled |-> raw.enabled, interval |-> Clamped(Or(raw.interval, DEFAULT)),
              cooldown |-> Clamped(raw.cooldown)]

\* Mutant of Saved: the range is left to loading.
SavedUnclamped(current, payload) ==
    [enabled |-> payload.enabled, interval |-> Or(payload.interval, current.interval),
     cooldown |-> DEFAULT]

\* What a save writes and answers, which has no cooldown: the next load finds its default.
Saved(current, payload) ==
    [enabled |-> payload.enabled, interval |-> Clamped(Or(payload.interval, current.interval)),
     cooldown |-> DEFAULT]

----------------------------------------------------------------------------
(* load_librarian_settings, save_librarian_settings.                       *)

\* All tools in their order are taken for a file from before Exec was off by default.
LoadedTools(file) ==
    IF file \in {Blank, {Tools}, {{}}} THEN DefaultTools ELSE CHOOSE tools \in file : TRUE

----------------------------------------------------------------------------
(* A request loads, empties the file and writes it; one for no tools is    *)
(* refused.                                                                *)

SaveSagwan(a, payload) ==
    /\ requests[a].step = "idle"
    /\ Spend
    /\ requests' = [requests EXCEPT ![a] =
           [step |-> "write", file |-> "sagwan", next |-> {Saved(Loaded(sagwan), payload)}]]
    /\ UNCHANGED <<sagwan, librarian, answered, wanted>>

SaveLibrarian(a, tools) ==
    /\ requests[a].step = "idle" /\ tools # {}
    /\ Spend
    /\ requests' = [requests EXCEPT ![a] = [step |-> "write", file |-> "librarian", next |-> {tools}]]
    /\ UNCHANGED <<sagwan, librarian, answered, wanted>>

\* A file becomes what is being written, and the other stays.
Put(file, value) ==
    /\ sagwan' = IF file = "sagwan" THEN value ELSE sagwan
    /\ librarian' = IF file = "librarian" THEN value ELSE librarian

Truncate(a) ==
    /\ requests[a].step = "write"
    /\ Put(requests[a].file, Blank)
    /\ requests' = [requests EXCEPT ![a].step = "fill"]
    /\ answered' = [answered EXCEPT ![requests[a].file] = Nothing]
    /\ UNCHANGED <<wanted, changes>>

Fill(a) ==
    LET file == requests[a].file
    IN  /\ requests[a].step = "fill"
        /\ Put(file, requests[a].next)
        /\ answered' = [answered EXCEPT ![file] = requests[a].next]
        /\ requests' = [requests EXCEPT ![a] = Idle]
        /\ wanted' = IF file # "sagwan" THEN wanted
                     ELSE [(CHOOSE r \in requests[a].next : TRUE) EXCEPT !.cooldown = wanted.cooldown]
        /\ UNCHANGED changes

\* The file is there from the first load on.
Edit(values) ==
    /\ Spend
    /\ sagwan' = {values} /\ wanted' = values
    /\ answered' = [answered EXCEPT !["sagwan"] = Nothing]
    /\ UNCHANGED <<librarian, requests>>

Crash ==
    /\ Spend
    /\ requests' = [a \in Admins |-> Idle]
    /\ UNCHANGED <<sagwan, librarian, answered, wanted>>

Init ==
    /\ sagwan = {Defaults} /\ wanted = Defaults /\ librarian = {DefaultTools}
    /\ requests = [a \in Admins |-> Idle]
    /\ answered = [f \in {"sagwan", "librarian"} |-> Nothing]
    /\ changes = 0

Next ==
    \/ \E a \in Admins :
           \/ \E payload \in [enabled : BOOLEAN, interval : Numbers] : SaveSagwan(a, payload)
           \/ \E tools \in SUBSET Tools : SaveLibrarian(a, tools)
           \/ Truncate(a) \/ Fill(a)
    \/ \E values \in Values : Edit(values)
    \/ Crash

Spec == Init /\ [][Next]_vars

----------------------------------------------------------------------------
(* Properties.                                                             *)

TypeOK ==
    /\ sagwan \subseteq Values /\ librarian \subseteq SUBSET Tools
    /\ \A a \in Admins : requests[a].step \in {"idle", "write", "fill"}
    /\ changes \in 0..MaxChanges

\* What a save answered is what the next load gives, if nothing was written since: both
\* normalise alike, also what an operator wrote by hand (sagwan_loop.py:save_sagwan_settings,
\* load_sagwan_settings; test_sagwan_quality_fixes.py:93).
SavedIsLoaded == answered["sagwan"] # Nothing => {Loaded(sagwan)} = answered["sagwan"]

\* What the code says of loading, "removing exec_command unless an admin explicitly
\* re-enables it": does not hold, for enabling every tool is what the migration undoes.
ChoiceOfToolsKept == answered["librarian"] # Nothing => {LoadedTools(librarian)} = answered["librarian"]

\* Does not hold: a save drops what it does not know.
OthersKept == sagwan # Blank => Loaded(sagwan).cooldown = Clamped(wanted.cooldown)

\* Does not hold: a load while the file is being written, or after a crash then, gives the
\* defaults, which are to run.
DisabledStays == Loaded(sagwan).enabled => wanted.enabled
=============================================================================
