---------------------------- MODULE AgentProofs ----------------------------
(* What the agent keeps of itself, proved: the edits of its notes, its     *)
(* settings, its periodic stages, its memory and the caps of its sweeps,   *)
(* each by an inductive invariant of its own, and all of them together.    *)
EXTENDS MCAgent, SumTheorems, SequenceTheorems, TLAPS

\* What a run has loaded of a note is what the note shows, or the note has been edited
\* since, and then the history of the last day tells so.
CopiesFresh ==
    \A c \in Cycles :
        LET p == runs[c].path
        IN  runs[c].step = "loaded" /\ p \notin unlogged /\ p # Policy
                => runs[c].text = texts[p] \/ \E e \in history : e.path = p

IInv == TypeOK /\ EditsSurvive /\ CopiesFresh

LEMMA InitInv == SelfEditBounds /\ Init => IInv
  BY DEF SelfEditBounds, Init, IInv, TypeOK, EditsSurvive, CopiesFresh, Idle, Run

\* A step that neither writes nor loads a note.
Quiet ==
    /\ texts' = texts /\ made' = made /\ history' = history /\ unlogged' = unlogged
    /\ runs' \in [Cycles -> Run]
    /\ \A d \in Cycles : runs'[d].step = "loaded" => runs'[d] = runs[d]
    /\ rested' \in 0..INTERVAL /\ unchanged' \in 0..NO_CHANGE /\ spent' \in 0..MaxTrouble

LEMMA QuietInv ==
  ASSUME IInv, Quiet
  PROVE  IInv'
  BY DEF Quiet, IInv, TypeOK, EditsSurvive, CopiesFresh

LEMMA OtherSteps ==
  ASSUME SelfEditBounds, IInv, NEW c \in Cycles,
         \/ \E forced \in BOOLEAN : Ask(c, forced)
         \/ NoAnswer(c) \/ Declines(c) \/ Refused(c)
  PROVE  IInv'
<1>1. /\ 0 \in 0..INTERVAL /\ 0 \in 0..NO_CHANGE /\ Idle \in Run /\ Idle.step # "loaded"
      /\ unchanged < NO_CHANGE => unchanged + 1 \in 0..NO_CHANGE
      /\ spent < MaxTrouble => spent + 1 \in 0..MaxTrouble
  BY DEF SelfEditBounds, IInv, TypeOK, Idle, Run
<1>2. ASSUME NEW forced \in BOOLEAN, Ask(c, forced)
      PROVE  Quiet
  <2>1. spent' \in 0..MaxTrouble
    BY <1>1, <1>2 DEF IInv, TypeOK, Ask, Trouble, TroubleLeft
  <2>2. /\ runs' \in [Cycles -> Run]
        /\ \A d \in Cycles : runs'[d].step = "loaded" => runs'[d] = runs[d]
    BY <1>2 DEF SelfEditBounds, IInv, TypeOK, Ask, Idle, Run
  <2> QED BY <1>2, <2>1, <2>2 DEF IInv, TypeOK, Ask, Quiet
<1>3. CASE NoAnswer(c)
  <2>1. /\ runs' \in [Cycles -> Run]
        /\ \A d \in Cycles : runs'[d].step = "loaded" => runs'[d] = runs[d]
    BY <1>1, <1>3 DEF IInv, TypeOK, NoAnswer
  <2> QED BY <1>3, <2>1, QuietInv DEF IInv, TypeOK, NoAnswer, Quiet
<1>4. ASSUME NEW changed \in BOOLEAN, Ends(c, changed), UNCHANGED <<history, texts, made, unlogged, spent>>
      PROVE  Quiet
  <2>1. /\ runs' \in [Cycles -> Run]
        /\ \A d \in Cycles : runs'[d].step = "loaded" => runs'[d] = runs[d]
    BY <1>1, <1>4 DEF IInv, TypeOK, Ends
  <2>2. rested' \in 0..INTERVAL /\ unchanged' \in 0..NO_CHANGE
    BY <1>1, <1>4 DEF IInv, TypeOK, Ends
  <2> QED BY <1>4, <2>1, <2>2 DEF IInv, TypeOK, Quiet
<1>5. CASE Declines(c)
  <2>1. CASE runs[c].unchanged + 1 >= NO_CHANGE
    <3> DEFINE run == [runs[c] EXCEPT !.step = "forcing", !.text = texts[Policy]]
    <3>2. run \in Run /\ run.step = "forcing"
      BY DEF SelfEditBounds, IInv, TypeOK, Run
    <3>3. runs' = [runs EXCEPT ![c] = run]
      BY <1>5, <2>1 DEF IInv, TypeOK, Declines
    <3>1. /\ runs' \in [Cycles -> Run]
          /\ \A d \in Cycles : runs'[d].step = "loaded" => runs'[d] = runs[d]
      BY <3>2, <3>3 DEF IInv, TypeOK
    <3> QED BY <1>5, <2>1, <3>1, QuietInv DEF IInv, TypeOK, Declines, Quiet
  <2>2. CASE ~(runs[c].unchanged + 1 >= NO_CHANGE)
    BY <1>4, <1>5, <2>2, QuietInv DEF Declines
  <2> QED BY <2>1, <2>2
<1>6. CASE Refused(c)
  BY <1>4, <1>6, QuietInv DEF Refused
<1> QED BY <1>2, <1>3, <1>5, <1>6, QuietInv

LEMMA StepInv ==
  ASSUME SelfEditBounds, IInv, [Next]_vars
  PROVE  IInv'
<1>1. CASE Tick
  <2>1. history' \subseteq [path : Paths, edit : 1..MaxEdits, age : 0..(DAY - 1)]
    BY <1>1 DEF SelfEditBounds, IInv, TypeOK, Tick, Aged
  <2>2. \A c \in Cycles : runs'[c].step # "loaded"
    BY <1>1 DEF IInv, TypeOK, Tick, Run
  <2> QED
    BY <1>1, <2>1, <2>2 DEF SelfEditBounds, IInv, TypeOK, EditsSurvive, CopiesFresh, Tick
<1>2. ASSUME NEW c \in Cycles, Step(c)
      PROVE  IInv'
  <2>1. CASE WritePolicy(c)
    <3>1. /\ history' = history /\ made' = made /\ unlogged' = unlogged /\ spent' = spent
          /\ \A p \in Paths : p # Policy => texts'[p] = texts[p]
          /\ \A d \in Cycles : runs'[d].step = "loaded" => runs'[d] = runs[d]
      BY <2>1 DEF IInv, TypeOK, WritePolicy, Ends, Idle, Run
    <3>2. /\ runs' \in [Cycles -> Run] /\ texts' \in [Paths -> SUBSET (1..MaxEdits)]
          /\ rested' \in 0..INTERVAL /\ unchanged' \in 0..NO_CHANGE
      BY <2>1 DEF SelfEditBounds, IInv, TypeOK, WritePolicy, Ends, Idle, Run
    <3>3. TypeOK'
      BY <3>1, <3>2 DEF IInv, TypeOK
    <3>4. EditsSurvive'
      BY <3>1 DEF IInv, EditsSurvive
    <3>5. \A d \in Cycles : runs[d].path \in Paths
      BY DEF IInv, TypeOK, Run
    <3>6. CopiesFresh'
      BY <3>1, <3>5 DEF IInv, CopiesFresh
    <3> QED
      BY <3>3, <3>4, <3>6 DEF IInv
  <2>2. ASSUME NEW p \in Paths, Propose(c, p)
        PROVE  IInv'
    <3> DEFINE run == [runs[c] EXCEPT !.step = "loaded", !.path = p, !.text = texts[p]]
    <3>1. run \in Run /\ run.path = p /\ run.text = texts[p]
      BY <2>2 DEF IInv, TypeOK, Run
    <3>2. runs' = [runs EXCEPT ![c] = run]
      BY <2>2 DEF IInv, TypeOK, Propose
    <3>3. TypeOK' /\ EditsSurvive'
      BY <2>2, <3>1, <3>2 DEF IInv, TypeOK, EditsSurvive, Propose
    <3>4. CopiesFresh'
      BY <2>2, <3>1, <3>2 DEF IInv, TypeOK, CopiesFresh, Propose
    <3> QED
      BY <3>3, <3>4 DEF IInv
  <2>3. ASSUME NEW recorded \in BOOLEAN, Apply(c, recorded)
        PROVE  IInv'
    <3> DEFINE p == runs[c].path
    <3>1. /\ p \in Paths /\ runs[c].step = "loaded" /\ runs[c].text \subseteq 1..MaxEdits
          /\ made[p] \in 0..MaxEdits
      BY <2>3 DEF IInv, TypeOK, Apply, Run
    <3>2. /\ runs' \in [Cycles -> Run] /\ rested' \in 0..INTERVAL /\ unchanged' \in 0..NO_CHANGE
          /\ \A d \in Cycles : runs'[d].step = "loaded" => runs'[d] = runs[d]
      BY <2>3 DEF SelfEditBounds, IInv, TypeOK, Apply, Ends, Idle, Run
    <3>3. CASE Limited(p)
      BY <2>3, <3>2, <3>3 DEF IInv, TypeOK, EditsSurvive, CopiesFresh, Apply
    <3>4. CASE ~Limited(p)
      <4>1. /\ made[p] + 1 \in 1..MaxEdits
            /\ texts' = [texts EXCEPT ![p] = runs[c].text \cup {made[p] + 1}]
            /\ made' = [made EXCEPT ![p] = made[p] + 1]
        BY <2>3, <3>1, <3>4 DEF Apply
      <4>2. \/ /\ recorded
               /\ history' = history \cup {[path |-> p, edit |-> made[p] + 1, age |-> 0]}
               /\ UNCHANGED <<unlogged, spent>>
            \/ /\ spent < MaxTrouble /\ spent' = spent + 1
               /\ unlogged' = unlogged \cup {p} /\ history' = history
        BY <2>3, <3>4, Zenon DEF Apply, Trouble, TroubleLeft
      <4>3. TypeOK'
        <5>1. /\ texts' \in [Paths -> SUBSET (1..MaxEdits)] /\ made' \in [Paths -> 0..MaxEdits]
          BY <3>1, <4>1 DEF IInv, TypeOK
        <5>2. /\ history' \subseteq [path : Paths, edit : 1..MaxEdits, age : 0..(DAY - 1)]
              /\ unlogged' \subseteq Paths /\ spent' \in 0..MaxTrouble
          BY <3>1, <4>1, <4>2 DEF IInv, TypeOK, SelfEditBounds
        <5> QED BY <3>2, <5>1, <5>2 DEF TypeOK
      <4>4. p \notin unlogged /\ p # Policy => texts'[p] = 1..made'[p]
        <5>1. SUFFICES ASSUME p \notin unlogged, p # Policy PROVE texts'[p] = 1..made'[p]
          OBVIOUS
        <5>2. runs[c].text = texts[p]
          BY <3>1, <3>4, <5>1 DEF IInv, CopiesFresh, Limited
        <5>3. texts[p] = 1..made[p]
          BY <3>1, <5>1 DEF IInv, EditsSurvive
        <5>4. (1..made[p]) \cup {made[p] + 1} = 1..(made[p] + 1)
          BY <3>1
        <5> QED BY <3>1, <4>1, <5>2, <5>3, <5>4 DEF IInv, TypeOK
      <4>5. EditsSurvive'
        BY <3>1, <4>1, <4>2, <4>4 DEF IInv, TypeOK, EditsSurvive
      <4>6. CopiesFresh'
        <5>1. SUFFICES ASSUME NEW d \in Cycles, runs'[d].step = "loaded",
                              runs'[d].path \notin unlogged', runs'[d].path # Policy
                       PROVE  \/ runs'[d].text = texts'[runs'[d].path]
                              \/ \E e \in history' : e.path = runs'[d].path
          BY DEF CopiesFresh
        <5>2. /\ runs'[d] = runs[d] /\ runs[d].path \in Paths
              /\ runs[d].path \notin unlogged
          BY <3>2, <4>2, <5>1 DEF IInv, TypeOK, Run
        <5>3. CASE runs[d].path # p
          BY <4>1, <4>2, <5>1, <5>2, <5>3 DEF IInv, TypeOK, CopiesFresh
        <5>4. CASE runs[d].path = p
          <6>1. history' = history \cup {[path |-> p, edit |-> made[p] + 1, age |-> 0]}
            BY <4>2, <5>1, <5>2, <5>4
          <6> DEFINE entry == [path |-> p, edit |-> made[p] + 1, age |-> 0]
          <6>2. entry \in history' /\ entry.path = p
            BY <6>1
          <6>3. runs'[d].path = p
            BY <5>2, <5>4
          <6> HIDE DEF entry
          <6> QED BY <6>2, <6>3
        <5> QED BY <5>3, <5>4
      <4> QED BY <4>3, <4>5, <4>6 DEF IInv
    <3> QED BY <3>3, <3>4
  <2> QED BY <1>2, <2>1, <2>2, <2>3, OtherSteps DEF Step
<1>3. CASE UNCHANGED vars
  BY <1>3 DEF vars, IInv, TypeOK, EditsSurvive, CopiesFresh
<1> QED BY <1>1, <1>2, <1>3 DEF Next

\* The state of stage S keeps its type (runs, history and texts of _curate_self_improve).
THEOREM SelfEditsTyped == Spec => []TypeOK
<1>1. Init => IInv BY SelfEditBounds, InitInv
<1>2. IInv /\ [Next]_vars => IInv' BY SelfEditBounds, StepInv
<1>3. IInv => TypeOK BY DEF IInv
<1> QED BY <1>1, <1>2, <1>3, PTL DEF Spec

\* No run of stage S undoes an edit of another one while the history is complete: the
\* limit of one edit a day, counted under the lock, covers what was loaded before it.
THEOREM SelfEditsSurvive == Spec => []EditsSurvive
<1>1. Init => IInv BY SelfEditBounds, InitInv
<1>2. IInv /\ [Next]_vars => IInv' BY SelfEditBounds, StepInv
<1>3. IInv => EditsSurvive BY DEF IInv
<1> QED BY <1>1, <1>2, <1>3, PTL DEF Spec

-----------------------------------------------------------------------------
(* The settings: what a file holds is one value, and a value that a save   *)
(* answered is a fixed point of loading.                                   *)

Normal == {v \in O!Values : v.interval \in LOW..HIGH /\ v.cooldown = DEFAULT}

Request == [step : {"idle", "write", "fill"}, file : {"none", "sagwan", "librarian"},
            next : SUBSET (O!Values \cup SUBSET Tools)]

\* What a request is going to write.
Written(q) ==
    \/ q.step = "idle"
    \/ q.file = "sagwan" /\ \E v \in Normal : q.next = {v}
    \/ q.file = "librarian" /\ \E tools \in SUBSET Tools : q.next = {tools}

OneValue == sagwan = {} \/ \E v \in O!Values : sagwan = {v}

SettingsInv ==
    /\ O!TypeOK /\ OneValue
    /\ requests \in [Admins -> Request] /\ \A a \in Admins : Written(requests[a])
    /\ answered \in [{"sagwan", "librarian"} -> SUBSET (O!Values \cup SUBSET Tools)]
    /\ answered["sagwan"] # {} => /\ sagwan = answered["sagwan"]
                                  /\ \E v \in Normal : sagwan = {v}

LEMMA NumbersClamped ==
  ASSUME O!SettingsBounds, NEW n \in Nat
  PROVE  /\ O!Clamped(n) \in LOW..HIGH
         /\ n \in LOW..HIGH => O!Clamped(n) = n /\ O!Or(n, DEFAULT) = n
         /\ LOW..HIGH \subseteq Numbers /\ DEFAULT \in LOW..HIGH
  BY DEF O!SettingsBounds, O!Clamped, O!Or

LEMMA NormalLoaded ==
  ASSUME O!SettingsBounds, NEW v \in Normal
  PROVE  O!Loaded({v}) = v
<1>1. /\ v.interval \in Nat /\ v.interval \in LOW..HIGH /\ v.cooldown = DEFAULT
      /\ DEFAULT \in Nat /\ DEFAULT \in LOW..HIGH
      /\ v = [enabled |-> v.enabled, interval |-> v.interval, cooldown |-> v.cooldown]
  BY DEF Normal, O!Values, O!SettingsBounds
<1>2. (CHOOSE r \in {v} : TRUE) = v
  OBVIOUS
<1>3. {v} # O!Blank
  BY DEF O!Blank
<1>4. /\ O!Clamped(O!Or(v.interval, DEFAULT)) = v.interval
      /\ O!Clamped(v.cooldown) = v.cooldown
  BY <1>1, NumbersClamped
<1>5. O!Loaded({v}) = [enabled |-> v.enabled, interval |-> v.interval, cooldown |-> v.cooldown]
  BY <1>2, <1>3, <1>4 DEF O!Loaded
<1> QED
  BY <1>1, <1>5

LEMMA LoadedValue ==
  ASSUME O!SettingsBounds, OneValue
  PROVE  O!Loaded(sagwan) \in O!Values /\ O!Loaded(sagwan).interval \in LOW..HIGH
<1>1. CASE sagwan = {}
  BY <1>1 DEF O!Loaded, O!Blank, O!Defaults, O!Values, O!SettingsBounds
<1>2. ASSUME NEW v \in O!Values, sagwan = {v}
      PROVE  O!Loaded(sagwan) \in O!Values /\ O!Loaded(sagwan).interval \in LOW..HIGH
  <2>1. sagwan # O!Blank /\ (CHOOSE r \in sagwan : TRUE) = v
    BY <1>2 DEF O!Blank
  <2>2. /\ v.interval \in Nat /\ v.cooldown \in Nat /\ v.enabled \in BOOLEAN
        /\ O!Or(v.interval, DEFAULT) \in Nat
    BY DEF O!Values, O!SettingsBounds, O!Or
  <2>3. /\ O!Clamped(O!Or(v.interval, DEFAULT)) \in LOW..HIGH
        /\ O!Clamped(v.cooldown) \in LOW..HIGH /\ LOW..HIGH \subseteq Numbers
    BY <2>2, NumbersClamped
  <2>4. O!Loaded(sagwan) = [enabled |-> v.enabled, interval |-> O!Clamped(O!Or(v.interval, DEFAULT)),
                            cooldown |-> O!Clamped(v.cooldown)]
    BY <2>1 DEF O!Loaded
  <2> QED
    BY <2>2, <2>3, <2>4 DEF O!Values
<1> QED
  BY <1>1, <1>2 DEF OneValue

LEMMA SavedNormal ==
  ASSUME O!SettingsBounds, OneValue, NEW payload \in [enabled : BOOLEAN, interval : Numbers]
  PROVE  O!Saved(O!Loaded(sagwan), payload) \in Normal
<1>1. O!Loaded(sagwan).interval \in LOW..HIGH
  BY LoadedValue
<1>2. O!Or(payload.interval, O!Loaded(sagwan).interval) \in Nat
  BY <1>1 DEF O!Or, O!SettingsBounds
<1>3. O!Clamped(O!Or(payload.interval, O!Loaded(sagwan).interval)) \in LOW..HIGH
  BY <1>2, NumbersClamped
<1>4. LOW..HIGH \subseteq Numbers /\ DEFAULT \in LOW..HIGH
  BY DEF O!SettingsBounds
<1> QED
  BY <1>3, <1>4 DEF O!Saved, Normal, O!Values

LEMMA SettingsInit ==
  ASSUME O!SettingsBounds, O!Init
  PROVE  SettingsInv
<1>1. O!Defaults \in O!Values
  BY DEF O!SettingsBounds, O!Defaults, O!Values
<1>2. O!Idle \in Request /\ O!Idle.step = "idle"
  BY DEF O!Idle, Request, O!Nothing
<1>3. O!TypeOK
  BY <1>1, <1>2 DEF O!Init, O!TypeOK, O!SettingsBounds, O!DefaultTools
<1>4. requests \in [Admins -> Request] /\ \A a \in Admins : Written(requests[a])
  BY <1>2 DEF O!Init, Written
<1>5. answered["sagwan"] = {}
  BY DEF O!Init, O!Nothing
<1>6. answered \in [{"sagwan", "librarian"} -> SUBSET (O!Values \cup SUBSET Tools)]
  BY DEF O!Init, O!Nothing
<1> QED
  BY <1>1, <1>3, <1>4, <1>5, <1>6 DEF SettingsInv, OneValue, O!Init

\* A request takes its next step; the files and the answers are those of before or changed
\* as said.
LEMMA RequestSteps ==
  ASSUME SettingsInv, NEW a \in Admins, NEW q \in Request, Written(q),
         requests' = [requests EXCEPT ![a] = q]
  PROVE  /\ requests' \in [Admins -> Request] /\ \A b \in Admins : Written(requests'[b])
         /\ \A b \in Admins : requests'[b].step \in {"idle", "write", "fill"}
  BY DEF SettingsInv, Request, Written

LEMMA SettingsStep ==
  ASSUME O!SettingsBounds, SettingsInv, [O!Next]_settingVars
  PROVE  SettingsInv'
<1> USE DEF SettingsInv
<1>1. ASSUME NEW a \in Admins, NEW payload \in [enabled : BOOLEAN, interval : Numbers],
             O!SaveSagwan(a, payload)
      PROVE  SettingsInv'
  <2> DEFINE v == O!Saved(O!Loaded(sagwan), payload)
             q == [step |-> "write", file |-> "sagwan", next |-> {v}]
  <2>1. v \in Normal
    BY SavedNormal
  <2>2. q \in Request /\ Written(q)
    BY <2>1 DEF Request, Written, Normal
  <2>3. requests' = [requests EXCEPT ![a] = q] /\ UNCHANGED <<sagwan, librarian, answered, wanted>>
    BY <1>1 DEF O!SaveSagwan
  <2>4. changes' \in 0..MaxChanges
    BY <1>1 DEF O!SaveSagwan, O!Spend, O!TypeOK, O!SettingsBounds
  <2> HIDE DEF q, v
  <2> QED
    BY <2>2, <2>3, <2>4, RequestSteps DEF O!TypeOK, OneValue
<1>2. ASSUME NEW a \in Admins, NEW tools \in SUBSET Tools, O!SaveLibrarian(a, tools)
      PROVE  SettingsInv'
  <2> DEFINE q == [step |-> "write", file |-> "librarian", next |-> {tools}]
  <2>2. q \in Request /\ Written(q)
    BY DEF Request, Written
  <2>3. requests' = [requests EXCEPT ![a] = q] /\ UNCHANGED <<sagwan, librarian, answered, wanted>>
    BY <1>2 DEF O!SaveLibrarian
  <2>4. changes' \in 0..MaxChanges
    BY <1>2 DEF O!SaveLibrarian, O!Spend, O!TypeOK, O!SettingsBounds
  <2> HIDE DEF q
  <2> QED
    BY <2>2, <2>3, <2>4, RequestSteps DEF O!TypeOK, OneValue
<1>3. ASSUME NEW a \in Admins, O!Truncate(a)
      PROVE  SettingsInv'
  <2> DEFINE q == [requests[a] EXCEPT !.step = "fill"]
  <2>1. /\ requests[a] \in Request /\ requests[a].step = "write"
        /\ requests[a].file \in {"sagwan", "librarian"}
    BY <1>3 DEF O!Truncate, Written
  <2>2. q \in Request /\ Written(q)
    BY <2>1 DEF Request, Written
  <2>3. requests' = [requests EXCEPT ![a] = q] /\ UNCHANGED <<wanted, changes>>
    BY <1>3 DEF O!Truncate
  <2>4. \/ requests[a].file = "sagwan" /\ sagwan' = {} /\ librarian' = librarian
        \/ requests[a].file = "librarian" /\ sagwan' = sagwan /\ librarian' = {}
    BY <1>3, <2>1 DEF O!Truncate, O!Put, O!Blank
  <2>5. answered' = [answered EXCEPT ![requests[a].file] = {}]
    BY <1>3 DEF O!Truncate, O!Nothing
  <2>6. answered' \in [{"sagwan", "librarian"} -> SUBSET (O!Values \cup SUBSET Tools)]
    BY <2>5
  <2>7. answered'["sagwan"] # {} => answered'["sagwan"] = answered["sagwan"] /\ sagwan' = sagwan
    BY <2>1, <2>4, <2>5
  <2>8. O!TypeOK' /\ OneValue'
    BY <2>2, <2>3, <2>4, RequestSteps DEF O!TypeOK, OneValue
  <2> HIDE DEF q
  <2> QED
    BY <2>2, <2>3, <2>6, <2>7, <2>8, RequestSteps
<1>4. ASSUME NEW a \in Admins, O!Fill(a)
      PROVE  SettingsInv'
  <2> DEFINE next == requests[a].next
  <2>1. /\ requests[a] \in Request /\ requests[a].step = "fill"
        /\ \/ requests[a].file = "sagwan" /\ \E v \in Normal : next = {v}
           \/ requests[a].file = "librarian" /\ \E tools \in SUBSET Tools : next = {tools}
    BY <1>4 DEF O!Fill, Written
  <2>2. O!Idle \in Request /\ Written(O!Idle)
    BY DEF O!Idle, Request, O!Nothing, Written
  <2>3. requests' = [requests EXCEPT ![a] = O!Idle] /\ UNCHANGED changes
    BY <1>4 DEF O!Fill
  <2>4. \/ requests[a].file = "sagwan" /\ sagwan' = next /\ librarian' = librarian
        \/ requests[a].file = "librarian" /\ sagwan' = sagwan /\ librarian' = next
    BY <1>4, <2>1 DEF O!Fill, O!Put
  <2>5. answered' = [answered EXCEPT ![requests[a].file] = next]
    BY <1>4 DEF O!Fill
  <2>6. next \in SUBSET (O!Values \cup SUBSET Tools)
    BY <2>1 DEF Request
  <2>7. answered' \in [{"sagwan", "librarian"} -> SUBSET (O!Values \cup SUBSET Tools)]
    BY <2>5, <2>6
  <2>8. CASE requests[a].file = "sagwan"
    <3>1. PICK v \in Normal : next = {v}
      BY <2>1, <2>8
    <3>2. sagwan' = {v} /\ answered'["sagwan"] = {v} /\ librarian' = librarian /\ v \in O!Values
      BY <2>4, <2>5, <2>8, <3>1 DEF Normal
    <3> HIDE DEF next
    <3> QED
      BY <2>2, <2>3, <2>7, <3>2, RequestSteps DEF O!TypeOK, OneValue
  <2>9. CASE requests[a].file = "librarian"
    <3>1. PICK tools \in SUBSET Tools : next = {tools}
      BY <2>1, <2>9
    <3>2. sagwan' = sagwan /\ answered'["sagwan"] = answered["sagwan"] /\ librarian' = {tools}
      BY <2>4, <2>5, <2>9, <3>1
    <3> HIDE DEF next
    <3> QED
      BY <2>2, <2>3, <2>7, <3>2, RequestSteps DEF O!TypeOK, OneValue
  <2> QED
    BY <2>1, <2>8, <2>9
<1>5. ASSUME NEW values \in O!Values, O!Edit(values)
      PROVE  SettingsInv'
  <2>1. /\ sagwan' = {values} /\ UNCHANGED <<librarian, requests>>
        /\ answered' = [answered EXCEPT !["sagwan"] = {}]
    BY <1>5 DEF O!Edit, O!Nothing
  <2>2. changes' \in 0..MaxChanges
    BY <1>5 DEF O!Edit, O!Spend, O!TypeOK, O!SettingsBounds
  <2> QED
    BY <2>1, <2>2 DEF O!TypeOK, OneValue
<1>6. CASE O!Crash
  <2>1. O!Idle \in Request /\ Written(O!Idle) /\ O!Idle.step = "idle"
    BY DEF O!Idle, Request, O!Nothing, Written
  <2>2. requests' = [a \in Admins |-> O!Idle] /\ UNCHANGED <<sagwan, librarian, answered, wanted>>
    BY <1>6 DEF O!Crash
  <2>3. changes' \in 0..MaxChanges
    BY <1>6 DEF O!Crash, O!Spend, O!TypeOK, O!SettingsBounds
  <2>4. \A a \in Admins : requests'[a] = O!Idle
    BY <2>2
  <2> QED
    BY <2>1, <2>2, <2>3, <2>4 DEF O!TypeOK, OneValue
<1>7. CASE UNCHANGED settingVars
  BY <1>7 DEF settingVars, O!TypeOK, OneValue
<1> QED
  BY <1>1, <1>2, <1>3, <1>4, <1>5, <1>6, <1>7 DEF O!Next

LEMMA SettingsSound ==
  ASSUME O!SettingsBounds, SettingsInv
  PROVE  O!TypeOK /\ O!SavedIsLoaded
  BY NormalLoaded DEF SettingsInv, O!SavedIsLoaded, O!Nothing

-----------------------------------------------------------------------------
(* The periodic stages.  With the task queue whoever executes a stage      *)
(* holds its write set, so the stage is due until that run is recorded.    *)

Busy == {"exec", "ask", "write"}

CycleStates == [stage : S!Stages \cup {"none", "worker"},
                step : {"idle", "check"} \cup Busy, todo : SUBSET Requests]

\* Who holds the write set of a stage of the queue.
Holds(c, s) == cycles[c].stage = s /\ cycles[c].step \in Busy

StagesTyped ==
    /\ S!TypeOK
    /\ cycles \in [S!Cycles -> CycleStates] /\ queueing \in BOOLEAN
    /\ \A s \in S!Stages : last_run[s] = S!Never \/ last_run[s] \in 0..hours
    /\ \A s \in S!Queued : running[s] = S!Nothing \/ running[s] \in 0..MaxHours
    /\ \A c \in S!Cycles : cycles[c].step \in Busy => cycles[c].stage \in S!Stages

StagesHeld == queueing =>
    /\ \A s \in S!Queued : gap[s] = PERIOD
    /\ \A s \in S!Queued, c \in S!Cycles : Holds(c, s) =>
           /\ running[s] # S!Nothing
           /\ \A d \in S!Cycles : Holds(d, s) => d = c
           /\ cycles[c].step \in {"ask", "write"} => hours - last_run[s] >= PERIOD

StagesInv == StagesTyped /\ StagesHeld /\ S!DecisionsKept

LEMMA StageNames ==
  ASSUME S!StageBounds
  PROVE  /\ S!Stages \subseteq {"topics", "meta", "research"}
         /\ S!Queued \subseteq S!Stages /\ "topics" \notin S!Queued
         /\ S!Never = -PERIOD /\ S!Nothing = -PERIOD - 1 /\ PERIOD \in Nat \ {0}
         /\ Head(ORDER) \in S!Stages
         /\ \A s \in S!Stages : S!After(s) \in S!Stages \cup {"worker"}
<1>1. ORDER \in Seq({"topics", "meta", "research"}) /\ ORDER # <<>>
  BY DEF S!StageBounds
<1>2. /\ DOMAIN ORDER = 1..Len(ORDER) /\ Len(ORDER) \in Nat \ {0} /\ Head(ORDER) = ORDER[1]
      /\ \A i \in 1..Len(ORDER) : ORDER[i] \in {"topics", "meta", "research"}
  BY <1>1
<1>3. S!Stages \subseteq {"topics", "meta", "research"} /\ Head(ORDER) \in S!Stages
  BY <1>2 DEF S!Stages
<1>4. ASSUME NEW s \in S!Stages
      PROVE  S!After(s) \in S!Stages \cup {"worker"}
  <2> DEFINE i == CHOOSE j \in DOMAIN ORDER : ORDER[j] = s
  <2>1. i \in 1..Len(ORDER)
    BY <1>2 DEF S!Stages
  <2>2. i # Len(ORDER) => i + 1 \in 1..Len(ORDER)
    BY <1>2, <2>1
  <2>3. i # Len(ORDER) => ORDER[i + 1] \in S!Stages
    BY <1>2, <2>2 DEF S!Stages
  <2> QED
    BY <2>3 DEF S!After
<1> QED
  BY <1>3, <1>4 DEF S!StageBounds, S!Queued, S!Never, S!Nothing

LEMMA StagesInit ==
  ASSUME S!StageBounds, S!Init
  PROVE  StagesInv
<1>1. S!Idle \in CycleStates /\ S!Idle.step = "idle"
  BY DEF S!Idle, CycleStates
<1>2. cycles = [c \in S!Cycles |-> S!Idle] /\ \A c \in S!Cycles : cycles[c] = S!Idle
  BY DEF S!Init
<1>3. StagesTyped
  BY <1>1, <1>2, StageNames DEF S!Init, StagesTyped, S!TypeOK, S!StageBounds, Busy, S!Idle
<1>4. StagesHeld
  BY <1>1, <1>2, StageNames DEF S!Init, StagesHeld, Holds, Busy
<1> QED
  BY <1>3, <1>4 DEF StagesInv, S!Init, S!DecisionsKept

\* A cycle takes a step and ends up nowhere; what it may have held is free.
LEMMA GoneOn ==
  ASSUME S!StageBounds, StagesInv, NEW c \in S!Cycles, NEW st \in S!Stages \cup {"worker"},
         S!GoTo(c, st)
  PROVE  /\ cycles' \in [S!Cycles -> CycleStates]
         /\ cycles'[c].step = "check"
         /\ \A d \in S!Cycles : d # c => cycles'[d] = cycles[d]
         /\ \A d \in S!Cycles : cycles'[d].step \in Busy => cycles'[d] = cycles[d] /\ d # c
  BY DEF S!GoTo, StagesInv, StagesTyped, CycleStates, S!Idle, Busy

LEMMA Ended ==
  ASSUME S!StageBounds, StagesInv, NEW c \in S!Cycles, cycles[c].stage \in S!Stages, S!End(c)
  PROVE  /\ cycles' \in [S!Cycles -> CycleStates]
         /\ \A d \in S!Cycles : cycles'[d].step \in Busy => cycles'[d] = cycles[d] /\ d # c
         /\ running' \in [S!Queued -> S!Nothing..MaxHours]
         /\ \A s \in S!Queued : /\ running'[s] \in {running[s], S!Nothing}
                                /\ s # cycles[c].stage => running'[s] = running[s]
<1> DEFINE stage == cycles[c].stage
<1>0. /\ S!After(stage) \in S!Stages \cup {"worker"} /\ S!Nothing \in S!Nothing..MaxHours
  BY StageNames DEF S!StageBounds
<1>1. CASE cycles[c].step \in {"check", "ask", "write"} /\ (stage = "topics" \/ ~queueing)
  <2>1. S!GoTo(c, S!After(stage)) /\ UNCHANGED running
    BY <1>1 DEF S!End
  <2> QED
    BY <1>0, <2>1, GoneOn DEF StagesInv, StagesTyped, S!TypeOK
<1>2. CASE ~(cycles[c].step \in {"check", "ask", "write"} /\ (stage = "topics" \/ ~queueing))
  <2>1. S!GoTo(c, "worker") /\ running' = [running EXCEPT ![stage] = S!Nothing]
    BY <1>2 DEF S!End
  <2>2. running \in [S!Queued -> S!Nothing..MaxHours]
    BY DEF StagesInv, StagesTyped, S!TypeOK
  <2> QED
    BY <1>0, <2>1, <2>2, GoneOn
<1> QED
  BY <1>1, <1>2

\* Whoever was at work still is, and so is its claim on the stage.
LEMMA HoldersStay ==
  ASSUME StagesInv, queueing' = queueing, hours' = hours, last_run' = last_run, gap' = gap,
         NEW c \in S!Cycles,
         \A d \in S!Cycles : cycles'[d].step \in Busy => cycles'[d] = cycles[d] /\ d # c,
         \A s \in S!Queued : /\ running'[s] \in {running[s], S!Nothing}
                             /\ s # cycles[c].stage => running'[s] = running[s],
         \A s \in S!Queued : running'[s] # running[s] => (queueing => Holds(c, s))
  PROVE  StagesHeld'
<1>1. SUFFICES ASSUME queueing, NEW s \in S!Queued, NEW d \in S!Cycles, Holds(d, s)'
               PROVE  /\ running'[s] # S!Nothing
                      /\ \A e \in S!Cycles : Holds(e, s)' => e = d
                      /\ cycles'[d].step \in {"ask", "write"} => hours - last_run[s] >= PERIOD
  BY DEF StagesHeld, StagesInv
<1>2. Holds(d, s) /\ cycles'[d] = cycles[d] /\ d # c
  BY <1>1 DEF Holds
<1>3. ~Holds(c, s)
  BY <1>1, <1>2 DEF StagesInv, StagesHeld
<1>4. running'[s] = running[s]
  BY <1>1, <1>3
<1>5. \A e \in S!Cycles : Holds(e, s)' => Holds(e, s)
  BY DEF Holds
<1> QED
  BY <1>1, <1>2, <1>4, <1>5 DEF StagesInv, StagesHeld

\* The queue and the notes but for what is said.
LEMMA StillTyped ==
  ASSUME StagesTyped, queueing' = queueing, hours' = hours,
         cycles' \in [S!Cycles -> CycleStates],
         \A d \in S!Cycles : cycles'[d].step \in Busy => cycles'[d].stage \in S!Stages,
         last_run' = last_run, gap' = gap, waiting' \in [S!Queued -> SUBSET (0..MaxHours)],
         \A s \in S!Queued : running'[s] \in {running[s], S!Nothing} \cup 0..MaxHours,
         running' \in [S!Queued -> S!Nothing..MaxHours],
         proposals' \in [Requests -> {"none", "proposed", "decided"}]
  PROVE  StagesTyped'
<1>1. \A c \in S!Cycles : cycles'[c].todo \subseteq Requests
  BY DEF CycleStates
<1>2. S!TypeOK'
  BY <1>1 DEF StagesTyped, S!TypeOK
<1>3. \A s \in S!Queued : running'[s] = S!Nothing \/ running'[s] \in 0..MaxHours
  BY DEF StagesTyped
<1> QED
  BY <1>2, <1>3 DEF StagesTyped

LEMMA EndSteps ==
  ASSUME S!StageBounds, StagesInv, NEW c \in S!Cycles, cycles[c].stage \in S!Stages, S!End(c),
         queueing /\ cycles[c].stage \in S!Queued => cycles[c].step \in Busy,
         UNCHANGED <<queueing, hours, decided, waiting, last_run, gap, proposals>>
  PROVE  StagesInv'
<1>1. /\ cycles' \in [S!Cycles -> CycleStates]
      /\ \A d \in S!Cycles : cycles'[d].step \in Busy => cycles'[d] = cycles[d] /\ d # c
      /\ running' \in [S!Queued -> S!Nothing..MaxHours]
      /\ \A s \in S!Queued : /\ running'[s] \in {running[s], S!Nothing}
                             /\ s # cycles[c].stage => running'[s] = running[s]
  BY Ended
<1>2. \A s \in S!Queued : running'[s] # running[s] => (queueing => Holds(c, s))
  BY <1>1 DEF Holds
<1>3. StagesHeld'
  BY <1>1, <1>2, HoldersStay
<1>4. /\ waiting' \in [S!Queued -> SUBSET (0..MaxHours)]
      /\ proposals' \in [Requests -> {"none", "proposed", "decided"}]
  BY DEF StagesInv, StagesTyped, S!TypeOK
<1>5. \A d \in S!Cycles : cycles'[d].step \in Busy => cycles'[d].stage \in S!Stages
  BY <1>1 DEF StagesInv, StagesTyped
<1>6. StagesTyped'
  BY <1>1, <1>4, <1>5, StillTyped DEF StagesInv
<1> QED
  BY <1>3, <1>6 DEF StagesInv, S!DecisionsKept

LEMMA StagesStep ==
  ASSUME S!StageBounds, StagesInv, [S!Next]_stageVars
  PROVE  StagesInv'
<1> USE StageNames
<1>0. /\ waiting \in [S!Queued -> SUBSET (0..MaxHours)]
      /\ running \in [S!Queued -> S!Nothing..MaxHours]
      /\ proposals \in [Requests -> {"none", "proposed", "decided"}]
      /\ hours \in 0..MaxHours /\ last_run \in [S!Stages -> S!Never..MaxHours]
      /\ gap \in [S!Stages -> 0..PERIOD]
      /\ cycles \in [S!Cycles -> CycleStates]
      /\ \A c \in S!Cycles : cycles[c].step \in Busy => cycles[c].stage \in S!Stages
      /\ MaxHours \in Nat
  BY DEF StagesInv, StagesTyped, S!TypeOK, S!StageBounds
<1>1. ASSUME NEW c \in S!Cycles, S!BeginCycle(c)
      PROVE  StagesInv'
  <2>1. /\ S!GoTo(c, Head(ORDER))
        /\ UNCHANGED <<queueing, hours, last_run, gap, running, waiting, decided, proposals>>
    BY <1>1 DEF S!BeginCycle, S!queueVars, S!noteVars, S!otherVars
  <2>2. /\ cycles' \in [S!Cycles -> CycleStates]
        /\ \A d \in S!Cycles : cycles'[d].step \in Busy => cycles'[d] = cycles[d] /\ d # c
    BY <2>1, GoneOn
  <2>3. StagesHeld'
    BY <2>1, <2>2, HoldersStay
  <2>4. StagesTyped'
    BY <1>0, <2>1, <2>2, StillTyped DEF StagesInv
  <2> QED
    BY <2>1, <2>3, <2>4 DEF StagesInv, S!DecisionsKept
<1>2. ASSUME NEW c \in S!Cycles, S!Enqueue(c)
      PROVE  StagesInv'
  <2> DEFINE stage == cycles[c].stage
  <2>1. /\ stage \in S!Queued /\ S!GoTo(c, S!After(stage))
        /\ UNCHANGED <<queueing, hours, last_run, gap, running, decided, proposals>>
        /\ waiting' = IF running[stage] = S!Key(stage) THEN waiting
                      ELSE [waiting EXCEPT ![stage] = @ \cup {S!Key(stage)}]
    BY <1>2 DEF S!Enqueue, S!noteVars, S!otherVars
  <2>2. /\ cycles' \in [S!Cycles -> CycleStates]
        /\ \A d \in S!Cycles : cycles'[d].step \in Busy => cycles'[d] = cycles[d] /\ d # c
    BY <2>1, GoneOn
  <2>3. StagesHeld'
    BY <2>1, <2>2, HoldersStay
  <2>5. S!Key(stage) \in 0..MaxHours
    BY <1>0, <2>1 DEF S!Key, StagesInv, StagesTyped
  <2>6. waiting' \in [S!Queued -> SUBSET (0..MaxHours)]
    BY <1>0, <2>1, <2>5
  <2>4. StagesTyped'
    BY <1>0, <2>1, <2>2, <2>6, StillTyped DEF StagesInv
  <2> QED
    BY <2>1, <2>3, <2>4 DEF StagesInv, S!DecisionsKept
<1>3. ASSUME NEW c \in S!Cycles, S!Check(c)
      PROVE  StagesInv'
  <2> DEFINE stage == cycles[c].stage
  <2>1. /\ stage \in S!Stages /\ cycles[c].step \in {"check", "exec"}
        /\ cycles[c].step = "check" => stage = "topics" \/ ~queueing
        /\ UNCHANGED <<queueing, hours, last_run, gap, waiting, decided, proposals>>
        /\ IF S!MayStart(stage)
           THEN cycles' = [cycles EXCEPT ![c].step = "ask"] /\ UNCHANGED running
           ELSE S!End(c)
    BY <1>3 DEF S!Check, S!noteVars, S!otherVars
  <2>2. CASE ~S!MayStart(stage)
    BY <2>1, <2>2, EndSteps DEF Busy
  <2>3. CASE S!MayStart(stage)
    <3>1. /\ hours - last_run[stage] >= PERIOD /\ UNCHANGED running
          /\ cycles' = [cycles EXCEPT ![c].step = "ask"]
      BY <2>1, <2>3 DEF S!MayStart, S!Due
    <3>2. /\ cycles' \in [S!Cycles -> CycleStates]
          /\ \A d \in S!Cycles : cycles'[d].stage = cycles[d].stage
          /\ \A d \in S!Cycles : d # c => cycles'[d] = cycles[d]
          /\ cycles'[c].step = "ask"
      BY <1>0, <3>1 DEF CycleStates, Busy
    <3>3. StagesTyped'
      BY <1>0, <2>1, <3>1, <3>2, StillTyped DEF StagesInv
    <3>4. queueing => \A s \in S!Queued : \A d \in S!Cycles : Holds(d, s)' => Holds(d, s)
      BY <2>1, <3>2 DEF Holds, Busy
    <3>5. StagesHeld'
      BY <2>1, <3>1, <3>2, <3>4 DEF StagesInv, StagesHeld, Holds
    <3> QED
      BY <2>1, <3>3, <3>5 DEF StagesInv, S!DecisionsKept
  <2> QED
    BY <2>2, <2>3
<1>4. ASSUME NEW c \in S!Cycles, S!EndCycle(c)
      PROVE  StagesInv'
  <2>1. /\ cycles' = [cycles EXCEPT ![c] = S!Idle]
        /\ UNCHANGED <<queueing, hours, last_run, gap, running, waiting, decided, proposals>>
    BY <1>4 DEF S!EndCycle, S!queueVars, S!noteVars, S!otherVars
  <2>2. /\ cycles' \in [S!Cycles -> CycleStates]
        /\ \A d \in S!Cycles : cycles'[d].step \in Busy => cycles'[d] = cycles[d] /\ d # c
    BY <1>0, <2>1 DEF S!Idle, CycleStates, Busy
  <2>3. StagesHeld'
    BY <2>1, <2>2, HoldersStay
  <2>4. StagesTyped'
    BY <1>0, <2>1, <2>2, StillTyped DEF StagesInv
  <2> QED
    BY <2>1, <2>3, <2>4 DEF StagesInv, S!DecisionsKept
<1>5. ASSUME NEW c \in S!Cycles, NEW stage \in S!Queued, NEW key \in 0..MaxHours,
             S!Claim(c, stage, key)
      PROVE  StagesInv'
  <2>1. /\ cycles[c].stage = "worker" /\ running[stage] = S!Nothing
        /\ waiting' = [waiting EXCEPT ![stage] = @ \ {key}]
        /\ running' = [running EXCEPT ![stage] = key]
        /\ cycles' = [cycles EXCEPT ![c] = [S!Idle EXCEPT !.stage = stage, !.step = "exec"]]
        /\ UNCHANGED <<queueing, hours, last_run, gap, decided, proposals>>
    BY <1>5 DEF S!Claim, S!noteVars, S!otherVars
  <2>2. /\ cycles' \in [S!Cycles -> CycleStates]
        /\ \A d \in S!Cycles : d # c => cycles'[d] = cycles[d]
        /\ cycles'[c].stage = stage /\ cycles'[c].step = "exec"
    BY <1>0, <2>1 DEF S!Idle, CycleStates, Busy
  <2>3. /\ waiting' \in [S!Queued -> SUBSET (0..MaxHours)]
        /\ running' \in [S!Queued -> S!Nothing..MaxHours]
        /\ running'[stage] = key /\ key # S!Nothing
        /\ \A s \in S!Queued : s # stage => running'[s] = running[s]
    BY <1>0, <2>1
  <2>4. StagesTyped'
    BY <1>0, <2>1, <2>2, <2>3, StillTyped DEF StagesInv
  <2>5. queueing => \A d \in S!Cycles : ~Holds(d, stage)
    BY <2>1 DEF StagesInv, StagesHeld
  <2>6. queueing => \A s \in S!Queued, d \in S!Cycles :
            Holds(d, s)' => (d = c /\ s = stage) \/ (d # c /\ s # stage /\ Holds(d, s))
    BY <2>2, <2>5 DEF Holds
  <2>7. StagesHeld'
    BY <2>1, <2>2, <2>3, <2>6 DEF StagesInv, StagesHeld
  <2> QED
    BY <2>1, <2>4, <2>7 DEF StagesInv, S!DecisionsKept
<1>6. ASSUME NEW c \in S!Cycles, S!Answer(c)
      PROVE  StagesInv'
  <2>1. /\ cycles[c].step = "ask"
        /\ UNCHANGED <<queueing, hours, last_run, gap, running, waiting, decided, proposals>>
    BY <1>6 DEF S!Answer, S!queueVars, S!noteVars, S!otherVars
  <2>2. PICK todo \in SUBSET Requests : cycles' = [cycles EXCEPT ![c].step = "write", ![c].todo = todo]
    BY <1>6 DEF S!Answer
  <2>3. /\ cycles' \in [S!Cycles -> CycleStates]
        /\ \A d \in S!Cycles : cycles'[d].stage = cycles[d].stage
        /\ \A d \in S!Cycles : d # c => cycles'[d] = cycles[d]
    <3> DEFINE new == [cycles[c] EXCEPT !.step = "write", !.todo = todo]
    <3>1. cycles[c] \in CycleStates /\ new \in CycleStates /\ new.stage = cycles[c].stage
      BY <1>0 DEF CycleStates, Busy
    <3>2. cycles' = [cycles EXCEPT ![c] = new]
      BY <1>0, <2>2, <3>1
    <3> HIDE DEF new
    <3> QED
      BY <1>0, <3>1, <3>2
  <2>4. \A d \in S!Cycles : cycles'[d].step \in Busy => cycles[d].step \in Busy
    BY <2>1, <2>3 DEF Busy
  <2>5. \A d \in S!Cycles : cycles'[d].step \in {"ask", "write"} => cycles[d].step \in {"ask", "write"}
    BY <2>1, <2>3
  <2>6. StagesTyped'
    BY <1>0, <2>1, <2>3, <2>4, StillTyped DEF StagesInv
  <2>7. StagesHeld'
    BY <2>1, <2>3, <2>4, <2>5 DEF StagesInv, StagesHeld, Holds
  <2> QED
    BY <2>1, <2>6, <2>7 DEF StagesInv, S!DecisionsKept
<1>7. ASSUME NEW c \in S!Cycles, S!NoAnswer(c) \/ S!RecordFails(c)
      PROVE  StagesInv'
  <2>1. /\ cycles[c].step \in {"ask", "write"} /\ S!End(c)
        /\ UNCHANGED <<queueing, hours, last_run, gap, waiting, decided, proposals>>
    BY <1>7 DEF S!NoAnswer, S!RecordFails, S!noteVars, S!otherVars
  <2> QED
    BY <1>0, <2>1, EndSteps DEF Busy
<1>8. ASSUME NEW c \in S!Cycles, S!Record(c)
      PROVE  StagesInv'
  <2> DEFINE stage == cycles[c].stage
  <2>1. /\ cycles[c].step = "write" /\ S!End(c) /\ stage \in S!Stages
        /\ last_run' = [last_run EXCEPT ![stage] = hours]
        /\ gap' = [gap EXCEPT ![stage] = S!Min({@, hours - last_run[stage]})]
        /\ UNCHANGED <<queueing, hours, waiting, decided, proposals>>
    BY <1>0, <1>8 DEF S!Record, S!otherVars, Busy
  <2>2. /\ cycles' \in [S!Cycles -> CycleStates]
        /\ \A d \in S!Cycles : cycles'[d].step \in Busy => cycles'[d] = cycles[d] /\ d # c
        /\ running' \in [S!Queued -> S!Nothing..MaxHours]
        /\ \A s \in S!Queued : /\ running'[s] \in {running[s], S!Nothing}
                               /\ s # cycles[c].stage => running'[s] = running[s]
    BY <2>1, Ended
  <2>3. \A a, b \in Int : S!Min({a, b}) = IF a <= b THEN a ELSE b
    BY DEF S!Min
  <2>4. last_run[stage] \in Int /\ last_run[stage] <= hours /\ gap[stage] \in 0..PERIOD
    BY <1>0, <2>1 DEF StagesInv, StagesTyped
  <2>5. /\ last_run' \in [S!Stages -> S!Never..MaxHours] /\ gap' \in [S!Stages -> 0..PERIOD]
        /\ \A s \in S!Stages : last_run'[s] = S!Never \/ last_run'[s] \in 0..hours'
        /\ \A s \in S!Stages : s # stage => gap'[s] = gap[s] /\ last_run'[s] = last_run[s]
        /\ hours - last_run[stage] >= PERIOD /\ gap[stage] = PERIOD => gap'[stage] = PERIOD
    BY <1>0, <2>1, <2>3, <2>4 DEF StagesInv, StagesTyped
  <2>6. StagesTyped'
    <3>1. \A d \in S!Cycles : cycles'[d].todo \subseteq Requests
      BY <2>2 DEF CycleStates
    <3>2. S!TypeOK'
      BY <1>0, <2>1, <2>2, <2>5, <3>1 DEF S!TypeOK
    <3>3. \A s \in S!Queued : running'[s] = S!Nothing \/ running'[s] \in 0..MaxHours
      BY <2>2 DEF StagesInv, StagesTyped
    <3> QED
      BY <1>0, <2>1, <2>2, <2>5, <3>2, <3>3 DEF StagesInv, StagesTyped
  <2>7. StagesHeld'
    <3>1. SUFFICES ASSUME queueing
                   PROVE  /\ \A s \in S!Queued : gap'[s] = PERIOD
                          /\ \A s \in S!Queued, d \in S!Cycles : Holds(d, s)' =>
                                 /\ running'[s] # S!Nothing
                                 /\ \A e \in S!Cycles : Holds(e, s)' => e = d
                                 /\ cycles'[d].step \in {"ask", "write"} =>
                                        hours - last_run'[s] >= PERIOD
      BY <2>1 DEF StagesHeld
    <3>2. \A s \in S!Queued, d \in S!Cycles : Holds(d, s) =>
              /\ running[s] # S!Nothing
              /\ \A e \in S!Cycles : Holds(e, s) => e = d
              /\ cycles[d].step \in {"ask", "write"} => hours - last_run[s] >= PERIOD
      BY <3>1, Zenon DEF StagesInv, StagesHeld
    <3>3. \A s \in S!Queued : gap[s] = PERIOD
      BY <3>1 DEF StagesInv, StagesHeld
    <3>4. stage \in S!Queued => Holds(c, stage) /\ hours - last_run[stage] >= PERIOD
      BY <2>1, <3>2 DEF Holds, Busy
    <3>5. \A s \in S!Queued : gap'[s] = PERIOD
      BY <2>5, <3>3, <3>4
    <3>6. \A s \in S!Queued, d \in S!Cycles :
              Holds(d, s)' => Holds(d, s) /\ s # stage /\ cycles'[d] = cycles[d]
      BY <2>2, <3>2, <3>4 DEF Holds
    <3>7. \A s \in S!Queued : s # stage => running'[s] = running[s] /\ last_run'[s] = last_run[s]
      BY <2>2, <2>5
    <3> QED
      BY <3>2, <3>5, <3>6, <3>7
  <2> QED
    BY <2>1, <2>6, <2>7 DEF StagesInv, S!DecisionsKept
<1>9. ASSUME NEW c \in S!Cycles, NEW r \in Requests, S!WriteRequest(c, r)
      PROVE  StagesInv'
  <2>1. /\ UNCHANGED <<queueing, hours, last_run, gap, running, waiting, decided>>
        /\ proposals' = [proposals EXCEPT ![r] = S!Proposed(r)]
        /\ cycles' = [cycles EXCEPT ![c].todo = @ \ {r}]
    BY <1>9 DEF S!WriteRequest, S!queueVars, S!otherVars
  <2>2. /\ cycles' \in [S!Cycles -> CycleStates]
        /\ \A d \in S!Cycles : cycles'[d].stage = cycles[d].stage /\ cycles'[d].step = cycles[d].step
    BY <1>0, <2>1 DEF CycleStates
  <2>3. S!Proposed(r) \in {"none", "proposed", "decided"}
    BY <1>0 DEF S!Proposed
  <2>4. StagesTyped'
    BY <1>0, <2>1, <2>2, <2>3, StillTyped DEF StagesInv
  <2>5. StagesHeld'
    BY <2>1, <2>2 DEF StagesInv, StagesHeld, Holds
  <2>6. r \in decided \ {BlockedNotes} => proposals[r] = "decided" /\ S!Proposed(r) = "decided"
    BY DEF StagesInv, S!DecisionsKept, S!Proposed
  <2>7. S!DecisionsKept'
    BY <1>0, <2>1, <2>6 DEF StagesInv, S!DecisionsKept
  <2> QED
    BY <2>4, <2>5, <2>7 DEF StagesInv
<1>10. ASSUME NEW r \in Requests, S!Decide(r)
       PROVE  StagesInv'
  <2>1. /\ UNCHANGED <<queueing, hours, last_run, gap, running, waiting, cycles>>
        /\ proposals' = [proposals EXCEPT ![r] = "decided"] /\ decided' = decided \cup {r}
    BY <1>10 DEF S!Decide, S!queueVars
  <2>2. StagesTyped'
    BY <1>0, <2>1, StillTyped DEF StagesInv
  <2>3. StagesHeld'
    BY <2>1 DEF StagesInv, StagesHeld, Holds
  <2>4. S!DecisionsKept'
    BY <1>0, <2>1 DEF StagesInv, S!DecisionsKept
  <2> QED
    BY <2>2, <2>3, <2>4 DEF StagesInv
<1>11. CASE S!Restart
  <2>1. /\ cycles' = [c \in S!Cycles |-> S!Idle]
        /\ waiting' = [s \in S!Queued |-> waiting[s] \cup ({running[s]} \ {S!Nothing})]
        /\ running' = [s \in S!Queued |-> S!Nothing]
        /\ UNCHANGED <<queueing, hours, last_run, gap, decided, proposals>>
    BY <1>11 DEF S!Restart, S!noteVars, S!otherVars
  <2>2. /\ cycles' \in [S!Cycles -> CycleStates]
        /\ \A d \in S!Cycles : cycles'[d].step \notin Busy
    BY <2>1 DEF S!Idle, CycleStates, Busy
  <2>3. /\ waiting' \in [S!Queued -> SUBSET (0..MaxHours)]
        /\ running' \in [S!Queued -> S!Nothing..MaxHours]
        /\ \A s \in S!Queued : running'[s] = S!Nothing
    BY <1>0, <2>1 DEF StagesInv, StagesTyped
  <2>4. StagesTyped'
    BY <1>0, <2>1, <2>2, <2>3, StillTyped DEF StagesInv
  <2>5. StagesHeld'
    BY <2>1, <2>2 DEF StagesInv, StagesHeld, Holds
  <2> QED
    BY <2>1, <2>4, <2>5 DEF StagesInv, S!DecisionsKept
<1>12. CASE S!Hour
  <2>1. /\ hours' = hours + 1 /\ hours' \in 0..MaxHours
        /\ UNCHANGED <<queueing, last_run, gap, running, waiting, cycles, decided, proposals>>
    BY <1>0, <1>12 DEF S!Hour, S!noteVars, S!queueVars
  <2>2. StagesTyped'
    BY <1>0, <2>1 DEF StagesInv, StagesTyped, S!TypeOK
  <2>3. \A s \in S!Queued : last_run[s] \in Int
    BY <1>0
  <2>4. StagesHeld'
    BY <1>0, <2>1, <2>3 DEF StagesInv, StagesHeld, Holds
  <2> QED
    BY <2>1, <2>2, <2>4 DEF StagesInv, S!DecisionsKept
<1>13. CASE UNCHANGED stageVars
  BY <1>13 DEF stageVars, StagesInv, StagesTyped, StagesHeld, Holds, S!TypeOK, S!DecisionsKept
<1> QED
  BY <1>1, <1>2, <1>3, <1>4, <1>5, <1>6, <1>7, <1>8, <1>9, <1>10, <1>11, <1>12, <1>13
     DEF S!Next

-----------------------------------------------------------------------------
(* The memory: appending and trimming keep the newest sections; and who    *)
(* distils an episode that nobody is excused for is the only one, until    *)
(* the cursor lies behind it.                                              *)

Sections(times) == {R!Summary} \cup {e \in R!Episodes : times[e] # 0}

Holding == [copy : Seq({R!Summary} \cup R!Episodes), cursor : Nat,
            window : SUBSET R!Episodes, ts : Nat]

Places == {"idle", "append", "trim", "cut", "call", "rules", "stamp", "edit"}

\* What a thread holds at a place, when episodes happened at these times.
WellHeld(place, h, times, moment) ==
    /\ h \in Holding
    /\ place \notin {"call", "rules", "stamp"} => h.window = {}
    /\ place = "append" => h.ts \in R!Episodes /\ times[h.ts] # 0
    /\ place \in {"append", "cut"} => h.copy \in Seq(Sections(times))
    /\ place \in {"rules", "stamp"} =>
           h.ts \in 1..moment /\ \A e \in h.window : times[e] <= h.ts
    /\ place \in {"rules", "stamp", "edit"} => h.cursor \in 0..moment
    /\ \A e \in h.window : times[e] # 0

MemoryTyped ==
    /\ R!TypeOK /\ memory \in Seq(Sections(at))
    /\ held \in [Threads -> Holding]
    /\ \A t \in Threads : WellHeld(pc[t], held[t], at, now)

\* Of the episodes that nobody is excused for.
Drawn == \A e \in R!Episodes \ excused :
    /\ distilled[e] <= 1
    /\ \A t, u \in Threads : e \in held[t].window /\ e \in held[u].window => t = u
    /\ \A t \in Threads : e \in held[t].window /\ pc[t] \in {"call", "rules"} => distilled[e] = 0
    /\ distilled[e] > 0 =>
           /\ at[e] # 0
           /\ \/ cursor # 0 /\ at[e] <= cursor
              \/ \E t \in Threads : pc[t] = "stamp" /\ e \in held[t].window

MemoryInv == MemoryTyped /\ R!MemoryKeepsNewest /\ Drawn

LEMMA SeqGrows ==
  ASSUME NEW X, NEW Y, X \subseteq Y, NEW s \in Seq(X)
  PROVE  s \in Seq(Y)
  OBVIOUS

LEMMA PartOfSeq ==
  ASSUME NEW X, NEW q, NEW a \in Int, NEW b \in Int, \A c \in a..b : q[c] \in X
  PROVE  /\ SubSeq(q, a, b) \in Seq(X)
         /\ Len(SubSeq(q, a, b)) = IF a <= b THEN b - a + 1 ELSE 0
         /\ \A c \in 1..(b - a + 1) : SubSeq(q, a, b)[c] = q[a + c - 1]
  BY SubSeqProperties

LEMMA SameTail ==
  ASSUME NEW X, NEW p \in Seq(X), NEW q \in Seq(X),
         NEW a \in 1..(Len(p) + 1), NEW b \in 1..(Len(q) + 1), Len(p) - a = Len(q) - b,
         \A c \in 1..(Len(p) - a + 1) : p[a + c - 1] = q[b + c - 1]
  PROVE  SubSeq(p, a, Len(p)) = SubSeq(q, b, Len(q))
<1> DEFINE n == Len(p) - a + 1
           l == Len(p)
           o == Len(q)
<1>1. /\ l \in Int /\ o \in Int /\ n \in Nat /\ n = o - b + 1 /\ (a <= l <=> b <= o) /\ n = l - a + 1
      /\ \A c \in a..l : p[c] \in X
      /\ \A c \in b..o : q[c] \in X
  OBVIOUS
<1> HIDE DEF l, o
<1>2. /\ SubSeq(p, a, l) \in Seq(X)
      /\ Len(SubSeq(p, a, l)) = IF a <= l THEN n ELSE 0
      /\ \A c \in 1..n : SubSeq(p, a, l)[c] = p[a + c - 1]
  BY <1>1, PartOfSeq
<1>3. /\ SubSeq(q, b, o) \in Seq(X)
      /\ Len(SubSeq(q, b, o)) = IF b <= o THEN n ELSE 0
      /\ \A c \in 1..n : SubSeq(q, b, o)[c] = q[b + c - 1]
  BY <1>1, PartOfSeq
<1>4. Len(SubSeq(p, a, l)) = Len(SubSeq(q, b, o)) /\ Len(SubSeq(p, a, l)) <= n
  BY <1>1, <1>2, <1>3
<1>5. \A c \in 1..Len(SubSeq(p, a, l)) : SubSeq(p, a, l)[c] = SubSeq(q, b, o)[c]
  BY <1>1, <1>2, <1>3, <1>4
<1>6. SubSeq(p, a, l) = SubSeq(q, b, o)
  BY <1>2, <1>3, <1>4, <1>5, SeqEqual
<1> QED
  BY <1>6 DEF l, o

\* All sections but the first are the last ones of a sequence.
IsNewest(m, z, s, i) == m = <<z>> \o SubSeq(s, i, Len(s))

LEMMA NewestAppended ==
  ASSUME NEW X, NEW m \in Seq(X), NEW s \in Seq(X), NEW z \in X, NEW x \in X,
         NEW i \in 1..(Len(s) + 1), IsNewest(m, z, s, i)
  PROVE  i \in 1..(Len(Append(s, x)) + 1) /\ IsNewest(Append(m, x), z, Append(s, x), i)
<1>0. m = <<z>> \o SubSeq(s, i, Len(s))
  BY DEF IsNewest
<1>1. Len(Append(s, x)) = Len(s) + 1
  OBVIOUS
<1>2. SubSeq(Append(s, x), i, Len(s) + 1) = Append(SubSeq(s, i, Len(s)), x)
  OBVIOUS
<1>3. Append(<<z>> \o SubSeq(s, i, Len(s)), x) = <<z>> \o Append(SubSeq(s, i, Len(s)), x)
  <2> DEFINE p == SubSeq(s, i, Len(s))
  <2>1. p \in Seq(X)
    OBVIOUS
  <2> HIDE DEF p
  <2>2. Append(p, x) = p \o <<x>> /\ <<z>> \o p \in Seq(X) /\ <<z>> \in Seq(X) /\ <<x>> \in Seq(X)
    BY <2>1, AppendIsConcat
  <2>3. Append(<<z>> \o p, x) = (<<z>> \o p) \o <<x>>
    BY <2>2, AppendIsConcat
  <2>4. (<<z>> \o p) \o <<x>> = <<z>> \o (p \o <<x>>)
    BY <2>1, <2>2, ConcatAssociative
  <2>5. Append(<<z>> \o p, x) = <<z>> \o Append(p, x)
    BY <2>2, <2>3, <2>4
  <2> QED
    BY <2>5 DEF p
<1>4. Append(m, x) = <<z>> \o SubSeq(Append(s, x), i, Len(s) + 1)
  BY <1>0, <1>2, <1>3, Zenon
<1>5. Len(s) \in Nat
  OBVIOUS
<1>6. i \in 1..((Len(s) + 1) + 1)
  BY <1>5
<1> QED
  BY <1>1, <1>4, <1>6, Zenon DEF IsNewest

LEMMA NewestTrimmed ==
  ASSUME NEW X, NEW s \in Seq(X), NEW z \in X, NEW i \in 1..(Len(s) + 1),
         NEW m, IsNewest(m, z, s, i), NEW k \in Nat \ {0}, Len(m) > k
  PROVE  \E j \in 1..(Len(s) + 1) :
             IsNewest(<<Head(m)>> \o SubSeq(m, Len(m) - k + 2, Len(m)), z, s, j)
<1>0. m = <<z>> \o SubSeq(s, i, Len(s))
  BY DEF IsNewest
<1> DEFINE p == SubSeq(s, i, Len(s))
           n == Len(s)
           j == i + Len(m) - k
<1>1. p \in Seq(X) /\ Len(p) = n - i + 1 /\ \A a \in 1..(n - i + 1) : p[a] = s[a + i - 1]
  OBVIOUS
<1>2. /\ m \in Seq(X) /\ Len(m) = n - i + 2 /\ Head(m) = z
      /\ \A a \in 2..Len(m) : m[a] = s[a + i - 2]
  <2> HIDE DEF p
  <2>1. m = <<z>> \o p /\ n - i + 1 \in Nat
    BY <1>0 DEF p
  <2>2. m \in Seq(X) /\ Len(m) = 1 + Len(p) /\ m[1] = z /\ \A a \in 1..Len(p) : m[a + 1] = p[a]
    <3>1. <<z>> \in Seq(X) /\ Len(<<z>>) = 1 /\ <<z>>[1] = z /\ p \in Seq(X) /\ Len(p) \in Nat
      BY <1>1, <2>1
    <3>2. /\ m \in Seq(X) /\ Len(m) = 1 + Len(p)
          /\ \A a \in 1..(1 + Len(p)) : m[a] = IF a <= 1 THEN <<z>>[a] ELSE p[a - 1]
      BY <2>1, <3>1, ConcatProperties
    <3>3. m[1] = z
      <4>1. 1 \in 1..(1 + Len(p))
        BY <3>1
      <4> QED
        BY <3>1, <3>2, <4>1
    <3>4. ASSUME NEW a \in 1..Len(p) PROVE m[a + 1] = p[a]
      <4>1. /\ a + 1 \in 1..(1 + Len(p)) /\ ~(a + 1 <= 1) /\ (a + 1) - 1 = a
        BY <3>1
      <4> QED
        BY <3>2, <4>1
    <3> QED
      BY <3>2, <3>3, <3>4
  <2>3. ASSUME NEW a \in 2..Len(m) PROVE m[a] = s[a + i - 2]
    <3>1. a - 1 \in 1..Len(p) /\ (a - 1) + 1 = a /\ (a - 1) + i - 1 = a + i - 2
      BY <1>1, <2>1, <2>2
    <3> QED
      BY <1>1, <2>2, <3>1
  <2> QED
    BY <1>1, <2>1, <2>2, <2>3
<1>3. j \in 1..(n + 1) /\ Len(m) - k + 2 \in 2..(Len(m) + 1)
  BY <1>2
<1>4. SubSeq(m, Len(m) - k + 2, Len(m)) = SubSeq(s, j, n)
  <2> DEFINE a == Len(m) - k + 2
             c == Len(m) - a + 1
  <2>1. /\ a \in 1..(Len(m) + 1) /\ j \in 1..(n + 1) /\ Len(m) - a = n - j
        /\ \A b \in 1..c : a + b - 1 \in 2..Len(m) /\ a + b - 1 + i - 2 = j + b - 1
    BY <1>2, <1>3
  <2>2. \A b \in 1..c : m[a + b - 1] = s[j + b - 1]
    BY <1>2, <2>1
  <2> HIDE DEF a, j
  <2>3. SubSeq(m, a, Len(m)) = SubSeq(s, j, Len(s))
    BY <1>2, <2>1, <2>2, SameTail
  <2> QED
    BY <2>3 DEF a
<1>5. IsNewest(<<Head(m)>> \o SubSeq(m, Len(m) - k + 2, Len(m)), z, s, j)
  BY <1>2, <1>4 DEF IsNewest
<1> HIDE DEF j
<1> QED
  BY <1>3, <1>5

\* A thread comes to hold something else, of sets that are named so that they stay whole.
LEMMA HoldsElse ==
  ASSUME NEW A, NEW B, NEW r \in [copy : A, cursor : Nat, window : B, ts : Nat],
         NEW copy \in A, NEW n \in Nat, NEW m \in Nat, NEW window \in B
  PROVE  /\ [r EXCEPT !.copy = copy] \in [copy : A, cursor : Nat, window : B, ts : Nat]
         /\ [r EXCEPT !.copy = copy].copy = copy /\ [r EXCEPT !.copy = copy].window = r.window
         /\ [r EXCEPT !.copy = copy, !.ts = n] \in [copy : A, cursor : Nat, window : B, ts : Nat]
         /\ [r EXCEPT !.copy = copy, !.ts = n].copy = copy
         /\ [r EXCEPT !.copy = copy, !.ts = n].window = r.window
         /\ [r EXCEPT !.copy = copy, !.ts = n].ts = n
         /\ [r EXCEPT !.window = window] \in [copy : A, cursor : Nat, window : B, ts : Nat]
         /\ [r EXCEPT !.window = window].window = window
         /\ [r EXCEPT !.cursor = n] \in [copy : A, cursor : Nat, window : B, ts : Nat]
         /\ [r EXCEPT !.cursor = n].window = r.window /\ [r EXCEPT !.cursor = n].cursor = n
         /\ [r EXCEPT !.ts = n, !.cursor = m] \in [copy : A, cursor : Nat, window : B, ts : Nat]
         /\ [r EXCEPT !.ts = n, !.cursor = m].window = r.window
         /\ [r EXCEPT !.ts = n, !.cursor = m].ts = n
         /\ [r EXCEPT !.ts = n, !.cursor = m].cursor = m
  OBVIOUS

LEMMA MemoryInit ==
  ASSUME R!MemoryBounds, R!Init
  PROVE  MemoryInv
<1>1. R!Nothing \in Holding /\ R!Nothing.window = {}
  BY DEF R!Nothing, Holding
<1>2. \A t \in Threads : pc[t] = "idle" /\ held[t] = R!Nothing
  BY DEF R!Init
<1>3. \A t \in Threads : WellHeld(pc[t], held[t], at, now)
  BY <1>1, <1>2 DEF WellHeld
<1>4. memory \in Seq(Sections(at)) /\ memory \in Seq({R!Summary} \cup R!Episodes)
  BY DEF R!Init, Sections
<1>5. R!TypeOK
  <2>1. /\ now \in 1..MaxTime /\ at \in [R!Episodes -> 0..now] /\ cursor \in 0..now
        /\ memorySpent \in 0..MaxTrouble
    BY DEF R!Init, R!MemoryBounds
  <2>2. /\ told \in Seq(R!Episodes) /\ distilled \in [R!Episodes -> 0..2]
        /\ excused \subseteq R!Episodes /\ raced \in BOOLEAN
        /\ pc \in [Threads -> {"idle", "append", "trim", "cut", "call", "rules", "stamp", "edit"}]
    <3>1. /\ told = <<>> /\ distilled = [e \in R!Episodes |-> 0] /\ excused = {} /\ raced = FALSE
          /\ pc = [t \in Threads |-> "idle"]
      BY DEF R!Init
    <3>2. told \in Seq(R!Episodes)
      BY <3>1
    <3>3. distilled \in [R!Episodes -> 0..2]
      BY <3>1
    <3> QED
      BY <3>1, <3>2, <3>3
  <2> QED
    BY <1>4, <2>1, <2>2 DEF R!TypeOK
<1>6. held \in [Threads -> Holding]
  BY <1>1 DEF R!Init
<1>7. R!MemoryKeepsNewest
  <2>1. told = <<>> /\ memory = <<R!Summary>> /\ SubSeq(told, 1, Len(told)) = <<>>
    BY DEF R!Init
  <2>2. memory = <<R!Summary>> \o SubSeq(told, 1, Len(told)) /\ 1 \in 1..(Len(told) + 1)
    BY <2>1
  <2> QED
    BY <2>2 DEF R!MemoryKeepsNewest
<1>8. Drawn
  BY <1>1, <1>2 DEF R!Init, Drawn
<1> QED
  BY <1>3, <1>4, <1>5, <1>6, <1>7, <1>8 DEF MemoryInv, MemoryTyped

\* What a thread holds stays well held while time passes and episodes are added.
LEMMA HeldLater ==
  ASSUME NEW times \in [R!Episodes -> Nat], NEW later \in [R!Episodes -> Nat],
         NEW moment \in Nat, NEW now2 \in Nat, moment <= now2,
         \A e \in R!Episodes : times[e] # 0 => later[e] = times[e],
         NEW place, NEW h, WellHeld(place, h, times, moment)
  PROVE  WellHeld(place, h, later, now2)
<1>1. Sections(times) \subseteq Sections(later)
  BY DEF Sections
<1>2. h.copy \in Seq(Sections(times)) => h.copy \in Seq(Sections(later))
  BY <1>1, SeqGrows
<1> QED
  BY <1>2 DEF WellHeld, Holding

LEMMA WentTo ==
  ASSUME pc \in [Threads -> Places], held \in [Threads -> Holding],
         NEW t \in Threads, NEW place \in Places, NEW what \in Holding, R!Goto(t, place, what)
  PROVE  /\ pc' \in [Threads -> Places] /\ held' \in [Threads -> Holding]
         /\ pc'[t] = place /\ held'[t] = what
         /\ \A u \in Threads : u # t => pc'[u] = pc[u] /\ held'[u] = held[u]
  BY DEF R!Goto

\* A step that leaves the working memory as it is.
LEMMA WorkingMemoryStays ==
  ASSUME MemoryInv, UNCHANGED <<now, at, memory, told, raced>>,
         pc' \in [Threads -> Places], held' \in [Threads -> Holding],
         \A u \in Threads : WellHeld(pc'[u], held'[u], at, now),
         cursor' \in 0..now, distilled' \in [R!Episodes -> 0..2], excused' \subseteq R!Episodes,
         memorySpent' \in 0..MaxTrouble
  PROVE  MemoryTyped' /\ R!MemoryKeepsNewest'
  BY DEF MemoryInv, MemoryTyped, R!TypeOK, R!MemoryKeepsNewest, Places

LEMMA NothingHeld ==
  /\ R!Nothing \in Holding /\ R!Nothing.window = {}
  /\ \A place \in {"idle", "trim"} : WellHeld(place, R!Nothing, at, now)
<1>1. R!Nothing \in Holding /\ R!Nothing.window = {}
  BY DEF R!Nothing, Holding
<1> QED
  BY <1>1 DEF WellHeld

\* A step of a thread that neither reads nor writes the distilled note.
LEMMA DrawnStays ==
  ASSUME MemoryInv, distilled' = distilled, cursor' = cursor, excused \subseteq excused',
         \A e \in R!Episodes : at[e] # 0 => at'[e] = at[e],
         \A u \in Threads : /\ pc'[u] \in {"call", "rules"} /\ held'[u].window # {} =>
                                   pc[u] \in {"call", "rules"}
                            /\ held'[u].window \subseteq held[u].window,
         \A u \in Threads : pc[u] = "stamp" =>
                \/ pc'[u] = "stamp" /\ held'[u].window = held[u].window
                \/ held[u].window \subseteq excused'
  PROVE  Drawn'
  BY DEF MemoryInv, MemoryTyped, Drawn, R!TypeOK

\* What is shown of an episode for Drawn, before a step and after it.
DrawnOf(e) ==
    /\ distilled[e] <= 1
    /\ \A t, u \in Threads : e \in held[t].window /\ e \in held[u].window => t = u
    /\ \A t \in Threads : e \in held[t].window /\ pc[t] \in {"call", "rules"} => distilled[e] = 0
    /\ distilled[e] > 0 =>
           /\ at[e] # 0
           /\ \/ cursor # 0 /\ at[e] <= cursor
              \/ \E t \in Threads : pc[t] = "stamp" /\ e \in held[t].window

LEMMA CursorMoved ==
  ASSUME MemoryInv, NEW c \in 0..now, R!MoveCursor(c)
  PROVE  /\ cursor' = c /\ excused \subseteq excused' /\ excused' \subseteq R!Episodes
         /\ \A e \in R!Episodes \ excused' : cursor # 0 /\ at[e] # 0 /\ at[e] <= cursor =>
                c # 0 /\ at[e] <= c
         /\ \A e \in R!Episodes \ excused' : c >= cursor \/ at[e] <= c
  BY DEF MemoryInv, MemoryTyped, R!TypeOK, R!MoveCursor

LEMMA MemoryStep ==
  ASSUME R!MemoryBounds, MemoryInv, [R!Next]_memoryVars
  PROVE  MemoryInv'
<1>0. /\ now \in 1..MaxTime /\ at \in [R!Episodes -> 0..now] /\ cursor \in 0..now
      /\ MaxTime \in Nat /\ MaxTrouble \in Nat /\ memorySpent \in 0..MaxTrouble
      /\ memory \in Seq({R!Summary} \cup R!Episodes) /\ told \in Seq(R!Episodes)
      /\ distilled \in [R!Episodes -> 0..2] /\ excused \subseteq R!Episodes
      /\ raced \in BOOLEAN /\ pc \in [Threads -> Places] /\ held \in [Threads -> Holding]
      /\ R!Episodes \subseteq Nat \ {0}
  BY DEF MemoryInv, MemoryTyped, R!TypeOK, R!MemoryBounds, R!Episodes, Places
<1>a. /\ \A u \in Threads : WellHeld(pc[u], held[u], at, now)
      /\ memory \in Seq(Sections(at)) /\ MemoryTyped
      /\ \A place \in {"idle", "trim"} : WellHeld(place, R!Nothing, at, now)
      /\ R!Nothing \in Holding /\ R!Nothing.window = {}
  BY NothingHeld DEF MemoryInv, MemoryTyped
<1>b. R!Trouble => memorySpent' \in 0..MaxTrouble
  BY <1>0 DEF R!Trouble
<1>1. ASSUME NEW t \in Threads, R!Remember(t)
      PROVE  MemoryInv'
  <2>1. PICK e \in R!Episodes : /\ at[e] = 0 /\ at' = [at EXCEPT ![e] = now]
                                /\ R!Goto(t, "append", [R!Nothing EXCEPT !.copy = memory, !.ts = e])
    BY <1>1 DEF R!Remember
  <2>2. UNCHANGED <<now, memory, told, raced, cursor, distilled, excused, memorySpent>>
    BY <1>1 DEF R!Remember, R!distilledVars
  <2>3. /\ at' \in [R!Episodes -> 0..now] /\ at'[e] # 0
        /\ \A f \in R!Episodes : at[f] # 0 => at'[f] = at[f]
        /\ at \in [R!Episodes -> Nat] /\ at' \in [R!Episodes -> Nat] /\ now \in Nat
    BY <1>0, <2>1
  <2> DEFINE what == [R!Nothing EXCEPT !.copy = memory, !.ts = e]
  <2>a. what \in Holding /\ what.copy = memory /\ what.window = {} /\ what.ts = e
    <3>1. memory \in Seq({R!Summary} \cup R!Episodes) /\ e \in Nat
      BY <1>0
    <3> QED
      BY <1>a, <3>1, HoldsElse DEF Holding
  <2> HIDE DEF what
  <2>4. memory \in Seq(Sections(at'))
    <3>1. Sections(at) \subseteq Sections(at')
      BY <2>3 DEF Sections
    <3> QED
      BY <1>a, <3>1, SeqGrows
  <2>5. WellHeld("append", what, at', now)
    BY <2>3, <2>4, <2>a DEF WellHeld
  <2>6. \A u \in Threads : WellHeld(pc[u], held[u], at', now)
    BY <1>a, <2>3, HeldLater
  <2>7. what.window = {}
    BY <2>a
  <2>8. /\ pc' \in [Threads -> Places] /\ held' \in [Threads -> Holding]
        /\ \A u \in Threads : WellHeld(pc'[u], held'[u], at', now)
        /\ pc'[t] = "append" /\ held'[t] = what
        /\ \A u \in Threads : u # t => pc'[u] = pc[u] /\ held'[u] = held[u]
    <3>1. R!Goto(t, "append", what) /\ "append" \in Places
      BY <2>1 DEF what, Places
    <3>2. what \in Holding
      BY <2>a
    <3>3. /\ pc' \in [Threads -> Places] /\ held' \in [Threads -> Holding]
          /\ pc'[t] = "append" /\ held'[t] = what
          /\ \A u \in Threads : u # t => pc'[u] = pc[u] /\ held'[u] = held[u]
      BY <1>0, <3>1, <3>2, WentTo
    <3> QED
      BY <2>5, <2>6, <3>3
  <2>9. pc[t] = "idle" /\ held[t].window = {}
    BY <1>1, <1>a DEF R!Remember, WellHeld
  <2>10. MemoryTyped'
    BY <1>0, <2>2, <2>3, <2>4, <2>8 DEF MemoryTyped, R!TypeOK, Places
  <2>11. Drawn'
    BY <2>2, <2>3, <2>7, <2>8, <2>9, DrawnStays
  <2> QED
    BY <2>2, <2>10, <2>11 DEF MemoryInv, R!MemoryKeepsNewest
<1>2. ASSUME NEW t \in Threads, R!AppendEpisode(t)
      PROVE  MemoryInv'
  <2> DEFINE copy == held[t].copy
             ts == held[t].ts
  <2>1. /\ pc[t] = "append" /\ memory' = Append(copy, ts) /\ told' = Append(told, ts)
        /\ raced' = (raced \/ memory # copy) /\ R!Goto(t, "trim", R!Nothing)
        /\ UNCHANGED <<now, at, cursor, distilled, excused, memorySpent>>
    BY <1>2 DEF R!AppendEpisode, R!Write, R!distilledVars
  <2>2. /\ copy \in Seq(Sections(at)) /\ ts \in R!Episodes /\ ts \in Sections(at)
        /\ Sections(at) \subseteq {R!Summary} \cup R!Episodes /\ held[t].window = {}
    BY <1>a, <2>1 DEF WellHeld, Sections
  <2>3. memory' \in Seq(Sections(at)) /\ told' \in Seq(R!Episodes) /\ raced' \in BOOLEAN
    <3> HIDE DEF copy, ts
    <3> QED
      BY <1>0, <2>1, <2>2, AppendProperties
  <2>4. memory' \in Seq({R!Summary} \cup R!Episodes)
    BY <2>2, <2>3, SeqGrows
  <2>5. /\ pc' \in [Threads -> Places] /\ held' \in [Threads -> Holding]
        /\ \A u \in Threads : WellHeld(pc'[u], held'[u], at, now)
        /\ pc'[t] = "trim" /\ held'[t] = R!Nothing
        /\ \A u \in Threads : u # t => pc'[u] = pc[u] /\ held'[u] = held[u]
    <3>1. "trim" \in Places /\ WellHeld("trim", R!Nothing, at, now) /\ R!Nothing \in Holding
      BY <1>a DEF Places
    <3>2. /\ pc' \in [Threads -> Places] /\ held' \in [Threads -> Holding]
          /\ pc'[t] = "trim" /\ held'[t] = R!Nothing
          /\ \A u \in Threads : u # t => pc'[u] = pc[u] /\ held'[u] = held[u]
      BY <1>0, <2>1, <3>1, WentTo
    <3> QED
      BY <1>a, <3>1, <3>2
  <2>6. MemoryTyped'
    BY <1>0, <2>1, <2>3, <2>4, <2>5 DEF MemoryTyped, R!TypeOK, Places
  <2>7. Drawn'
    BY <1>a, <2>1, <2>2, <2>5, DrawnStays
  <2>8. R!MemoryKeepsNewest'
    <3>1. SUFFICES ASSUME ~raced'
                   PROVE  \E i \in 1..(Len(told') + 1) :
                              memory' = <<R!Summary>> \o SubSeq(told', i, Len(told'))
      BY DEF R!MemoryKeepsNewest
    <3>2. ~raced /\ memory = copy
      BY <2>1, <3>1
    <3>3. PICK i \in 1..(Len(told) + 1) : IsNewest(memory, R!Summary, told, i)
      BY <3>2 DEF MemoryInv, R!MemoryKeepsNewest, IsNewest
    <3> DEFINE X == {R!Summary} \cup R!Episodes
    <3>4. /\ memory \in Seq(X) /\ told \in Seq(X) /\ R!Summary \in X /\ ts \in X
      BY <1>0, <2>2, SeqGrows
    <3> HIDE DEF X, ts
    <3>5. /\ i \in 1..(Len(Append(told, ts)) + 1)
          /\ IsNewest(Append(memory, ts), R!Summary, Append(told, ts), i)
      BY <3>3, <3>4, NewestAppended
    <3> QED
      BY <2>1, <3>2, <3>5, Zenon DEF IsNewest
  <2> QED
    BY <2>6, <2>7, <2>8 DEF MemoryInv
<1>3. ASSUME NEW t \in Threads, R!Measure(t)
      PROVE  MemoryInv'
  <2> DEFINE what == [R!Nothing EXCEPT !.copy = memory]
  <2>0. what \in Holding /\ what.copy = memory /\ what.window = {}
    <3>1. memory \in Seq({R!Summary} \cup R!Episodes)
      BY <1>0
    <3> QED
      BY <1>a, <3>1, HoldsElse DEF Holding
  <2>1. /\ pc[t] = "trim"
        /\ R!Goto(t, "idle", R!Nothing) \/ R!Goto(t, "cut", what)
        /\ UNCHANGED <<now, at, memory, told, raced, cursor, distilled, excused, memorySpent>>
    BY <1>3 DEF R!Measure, R!memoryVars, R!distilledVars
  <2>2. /\ what.window = {} /\ WellHeld("cut", what, at, now) /\ {"idle", "cut"} \subseteq Places
        /\ held[t].window = {} /\ what \in Holding
    <3>1. what \in Holding /\ what.window = {} /\ what.copy = memory /\ {"idle", "cut"} \subseteq Places
      BY <2>0 DEF Places
    <3>2. held[t].window = {}
      BY <1>a, <2>1 DEF WellHeld
    <3> HIDE DEF what
    <3> QED
      BY <1>a, <3>1, <3>2 DEF WellHeld
  <2>3. /\ pc' \in [Threads -> Places] /\ held' \in [Threads -> Holding]
        /\ \A u \in Threads : WellHeld(pc'[u], held'[u], at, now)
        /\ pc'[t] \in {"idle", "cut"} /\ held'[t].window = {}
        /\ \A u \in Threads : u # t => pc'[u] = pc[u] /\ held'[u] = held[u]
    <3> HIDE DEF what
    <3>1. CASE R!Goto(t, "idle", R!Nothing)
      <4>1. /\ pc' \in [Threads -> Places] /\ held' \in [Threads -> Holding]
            /\ pc'[t] = "idle" /\ held'[t] = R!Nothing
            /\ \A u \in Threads : u # t => pc'[u] = pc[u] /\ held'[u] = held[u]
        BY <1>0, <1>a, <2>2, <3>1, WentTo
      <4> QED
        BY <1>a, <4>1
    <3>2. CASE R!Goto(t, "cut", what)
      <4>1. /\ pc' \in [Threads -> Places] /\ held' \in [Threads -> Holding]
            /\ pc'[t] = "cut" /\ held'[t] = what
            /\ \A u \in Threads : u # t => pc'[u] = pc[u] /\ held'[u] = held[u]
        BY <1>0, <2>2, <3>2, WentTo
      <4> QED
        BY <1>a, <2>2, <4>1
    <3> QED
      BY <2>1, <3>1, <3>2
  <2>4. MemoryTyped' /\ R!MemoryKeepsNewest'
    BY <1>0, <2>1, <2>3, WorkingMemoryStays
  <2>5. Drawn'
    BY <2>1, <2>2, <2>3, DrawnStays
  <2> QED
    BY <2>4, <2>5 DEF MemoryInv
<1>4. ASSUME NEW t \in Threads, R!Cut(t)
      PROVE  MemoryInv'
  <2> DEFINE copy == held[t].copy
             m == R!Trimmed(copy)
  <2>1. /\ pc[t] = "cut" /\ memory' = m
        /\ raced' = (raced \/ memory # copy) /\ R!Goto(t, "idle", R!Nothing)
        /\ UNCHANGED <<now, at, told, cursor, distilled, excused, memorySpent>>
    BY <1>4 DEF R!Cut, R!Write, R!distilledVars
  <2>2. /\ copy \in Seq(Sections(at)) /\ held[t].window = {}
        /\ Sections(at) \subseteq {R!Summary} \cup R!Episodes
    BY <1>a, <2>1 DEF WellHeld, Sections
  <2>3. R!Kept \in Nat \ {0}
    BY DEF R!Kept, R!MemoryBounds
  <2>4. m \in Seq(Sections(at))
    <3> DEFINE l == Len(copy)
               k == R!Kept
    <3>1. CASE l > k
      <4>1. m = <<Head(copy)>> \o SubSeq(copy, l - k + 2, l)
        BY <3>1 DEF R!Trimmed
      <4>2. l \in Nat /\ copy # <<>> /\ l - k + 2 \in Int /\ l - k + 2 >= 2
        BY <2>2, <2>3, <3>1
      <4>3. Head(copy) \in Sections(at) /\ \A b \in (l - k + 2)..l : copy[b] \in Sections(at)
        <5>1. copy # <<>> => Head(copy) \in Sections(at)
          BY <2>2, HeadTailProperties
        <5>2. \A b \in (l - k + 2)..l : b \in 1..l
          BY <4>2
        <5> QED
          BY <2>2, <4>2, <5>1, <5>2, ElementOfSeq
      <4>4. <<Head(copy)>> \in Seq(Sections(at))
        BY <4>3
      <4>5. SubSeq(copy, l - k + 2, l) \in Seq(Sections(at))
        <5> DEFINE first == l - k + 2
        <5>1. first \in Int /\ l \in Int /\ \A b \in first..l : copy[b] \in Sections(at)
          BY <4>2, <4>3
        <5> HIDE DEF first, l, copy
        <5>2. SubSeq(copy, first, l) \in Seq(Sections(at))
          BY <5>1, PartOfSeq
        <5> QED
          BY <5>2 DEF first
      <4> QED
        BY <4>1, <4>4, <4>5, ConcatProperties
    <3>2. CASE ~(l > k)
      BY <2>2, <3>2 DEF R!Trimmed
    <3> QED
      BY <3>1, <3>2
  <2>5. memory' \in Seq({R!Summary} \cup R!Episodes) /\ raced' \in BOOLEAN
    BY <1>0, <2>1, <2>2, <2>4, SeqGrows
  <2>6. /\ pc' \in [Threads -> Places] /\ held' \in [Threads -> Holding]
        /\ \A u \in Threads : WellHeld(pc'[u], held'[u], at, now)
        /\ pc'[t] = "idle" /\ held'[t] = R!Nothing
        /\ \A u \in Threads : u # t => pc'[u] = pc[u] /\ held'[u] = held[u]
    <3>1. "idle" \in Places /\ WellHeld("idle", R!Nothing, at, now) /\ R!Nothing \in Holding
      BY <1>a DEF Places
    <3>2. /\ pc' \in [Threads -> Places] /\ held' \in [Threads -> Holding]
          /\ pc'[t] = "idle" /\ held'[t] = R!Nothing
          /\ \A u \in Threads : u # t => pc'[u] = pc[u] /\ held'[u] = held[u]
      BY <1>0, <2>1, <3>1, WentTo
    <3> QED
      BY <1>a, <3>1, <3>2
  <2>7. MemoryTyped'
    BY <1>0, <2>1, <2>4, <2>5, <2>6 DEF MemoryTyped, R!TypeOK, Places
  <2>8. Drawn'
    BY <1>a, <2>1, <2>2, <2>6, DrawnStays
  <2>9. R!MemoryKeepsNewest'
    <3>1. SUFFICES ASSUME ~raced'
                   PROVE  \E i \in 1..(Len(told) + 1) :
                              memory' = <<R!Summary>> \o SubSeq(told, i, Len(told))
      BY <2>1 DEF R!MemoryKeepsNewest
    <3>2. ~raced /\ memory = copy
      BY <2>1, <3>1
    <3>3. PICK i \in 1..(Len(told) + 1) : IsNewest(memory, R!Summary, told, i)
      BY <3>2 DEF MemoryInv, R!MemoryKeepsNewest, IsNewest
    <3>4. CASE Len(copy) > R!Kept
      <4> DEFINE X == {R!Summary} \cup R!Episodes
                 k == R!Kept
      <4>1. told \in Seq(X) /\ R!Summary \in X /\ k \in Nat \ {0} /\ Len(memory) > k
        BY <1>0, <2>3, <3>2, <3>4, SeqGrows
      <4> HIDE DEF X, k
      <4>2. \E j \in 1..(Len(told) + 1) :
                IsNewest(<<Head(memory)>> \o SubSeq(memory, Len(memory) - k + 2, Len(memory)),
                         R!Summary, told, j)
        BY <3>3, <4>1, NewestTrimmed
      <4>3. m = <<Head(memory)>> \o SubSeq(memory, Len(memory) - k + 2, Len(memory))
        BY <3>2, <3>4 DEF R!Trimmed, k
      <4> QED
        BY <2>1, <4>2, <4>3, Zenon DEF IsNewest
    <3>5. CASE ~(Len(copy) > R!Kept)
      BY <2>1, <3>2, <3>3, <3>5 DEF R!Trimmed, IsNewest
    <3> QED
      BY <3>4, <3>5
  <2> QED
    BY <2>7, <2>8, <2>9 DEF MemoryInv
<1>5. ASSUME NEW t \in Threads, R!Distil(t)
      PROVE  MemoryInv'
  <2> DEFINE window == R!Episodes \cap {memory[i] : i \in R!Window(R!NewSections)}
             what == [R!Nothing EXCEPT !.window = window]
  <2>1. /\ pc[t] = "idle" /\ R!Goto(t, "call", what)
        /\ excused' = excused \cup (window \cap UNION {held[u].window : u \in Threads})
        /\ UNCHANGED <<now, at, memory, told, raced, cursor, distilled, memorySpent>>
    BY <1>5 DEF R!Distil, R!memoryVars
  <2>2. \A e \in window : e \in R!Episodes /\ at[e] # 0 /\ (cursor = 0 \/ at[e] > cursor)
    <3> SUFFICES ASSUME NEW i \in R!Window(R!NewSections), memory[i] \in R!Episodes
                 PROVE  at[memory[i]] # 0 /\ (cursor = 0 \/ at[memory[i]] > cursor)
      OBVIOUS
    <3>1. i \in DOMAIN memory /\ (cursor = 0 \/ R!IsNew(memory[i]))
      BY DEF R!Window, R!NewSections
    <3>2. memory[i] # R!Summary
      BY <1>0 DEF R!Summary
    <3>3. memory[i] \in Sections(at)
      BY <1>a, <3>1, ElementOfSeq
    <3> QED
      BY <3>1, <3>2, <3>3 DEF Sections, R!IsNew
  <2> HIDE DEF window
  <2>3. what \in Holding /\ what.window = window
    <3>1. window \in SUBSET R!Episodes
      BY <2>2
    <3> QED
      BY <1>a, <3>1, HoldsElse DEF Holding
  <2>4. held[t].window = {}
    BY <1>a, <2>1 DEF WellHeld
  <2> HIDE DEF what
  <2>5. WellHeld("call", what, at, now)
    BY <2>2, <2>3 DEF WellHeld
  <2>6. /\ pc' \in [Threads -> Places] /\ held' \in [Threads -> Holding]
        /\ pc'[t] = "call" /\ held'[t] = what
        /\ \A u \in Threads : u # t => pc'[u] = pc[u] /\ held'[u] = held[u]
    <3>1. "call" \in Places
      BY DEF Places
    <3> QED
      BY <1>0, <2>1, <2>3, <3>1, WentTo
  <2>7. \A u \in Threads : WellHeld(pc'[u], held'[u], at, now)
    BY <1>a, <2>5, <2>6
  <2>8. MemoryTyped' /\ R!MemoryKeepsNewest'
    <3>1. excused' \subseteq R!Episodes
      BY <1>0, <2>1, <2>2
    <3> QED
      BY <1>0, <2>1, <2>6, <2>7, <3>1, WorkingMemoryStays
  <2>9. Drawn'
    <3>1. SUFFICES ASSUME NEW e \in R!Episodes \ excused'
                   PROVE  /\ distilled'[e] <= 1
                          /\ \A a, b \in Threads :
                                 e \in held'[a].window /\ e \in held'[b].window => a = b
                          /\ \A a \in Threads : e \in held'[a].window /\ pc'[a] \in {"call", "rules"}
                                                    => distilled'[e] = 0
                          /\ distilled'[e] > 0 =>
                                 /\ at'[e] # 0
                                 /\ \/ cursor' # 0 /\ at'[e] <= cursor'
                                    \/ \E a \in Threads : pc'[a] = "stamp" /\ e \in held'[a].window
      BY DEF Drawn
    <3>2. /\ e \in R!Episodes \ excused
          /\ e \in window => \A u \in Threads : e \notin held[u].window
      BY <2>1, <3>1
    <3>3. /\ distilled[e] <= 1
          /\ \A a, b \in Threads : e \in held[a].window /\ e \in held[b].window => a = b
          /\ \A a \in Threads : e \in held[a].window /\ pc[a] \in {"call", "rules"}
                                    => distilled[e] = 0
          /\ distilled[e] > 0 =>
                 /\ at[e] # 0
                 /\ \/ cursor # 0 /\ at[e] <= cursor
                    \/ \E a \in Threads : pc[a] = "stamp" /\ e \in held[a].window
      BY <3>2, Zenon DEF MemoryInv, Drawn
    <3>4. e \in window => distilled[e] = 0
      <4>1. at[e] \in 0..now /\ cursor \in 0..now /\ distilled[e] \in 0..2 /\ now \in Nat
        BY <1>0, <3>2
      <4> QED
        BY <2>2, <3>2, <3>3, <4>1
    <3>5. \A a \in Threads : e \in held'[a].window => (a = t /\ e \in window) \/ (a # t /\ e \in held[a].window)
      BY <2>3, <2>6
    <3>6. \A a, b \in Threads : e \in held'[a].window /\ e \in held'[b].window => a = b
      BY <3>2, <3>3, <3>5
    <3>7. \A a \in Threads : e \in held'[a].window /\ pc'[a] \in {"call", "rules"} => distilled[e] = 0
      BY <2>6, <3>3, <3>4, <3>5
    <3>8. \A a \in Threads : pc[a] = "stamp" => pc'[a] = "stamp" /\ held'[a] = held[a]
      BY <2>1, <2>6
    <3> QED
      BY <2>1, <3>3, <3>6, <3>7, <3>8
  <2> QED
    BY <2>8, <2>9 DEF MemoryInv
<1>6. ASSUME NEW t \in Threads, R!Answered(t)
      PROVE  MemoryInv'
  <2> DEFINE what == [held[t] EXCEPT !.ts = now, !.cursor = cursor]
  <2>1. /\ pc[t] = "call" /\ R!Goto(t, "rules", what)
        /\ UNCHANGED <<now, at, memory, told, raced, cursor, distilled, excused, memorySpent>>
    BY <1>6 DEF R!Answered, R!memoryVars, R!distilledVars
  <2>2. /\ what \in Holding /\ what.window = held[t].window /\ what.ts = now /\ what.cursor = cursor
        /\ held[t] \in Holding
    <3>1. held[t] \in Holding /\ now \in Nat /\ cursor \in Nat
      BY <1>0
    <3> QED
      BY <3>1, HoldsElse DEF Holding
  <2>3. \A e \in held[t].window : e \in R!Episodes /\ at[e] # 0 /\ at[e] \in 0..now
    BY <1>0, <1>a, <2>2 DEF WellHeld, Holding
  <2> HIDE DEF what
  <2>4. WellHeld("rules", what, at, now)
    BY <1>0, <2>2, <2>3 DEF WellHeld
  <2>5. /\ pc' \in [Threads -> Places] /\ held' \in [Threads -> Holding]
        /\ pc'[t] = "rules" /\ held'[t] = what
        /\ \A u \in Threads : u # t => pc'[u] = pc[u] /\ held'[u] = held[u]
    <3>1. "rules" \in Places
      BY DEF Places
    <3> QED
      BY <1>0, <2>1, <2>2, <3>1, WentTo
  <2>6. \A u \in Threads : WellHeld(pc'[u], held'[u], at, now)
    BY <1>a, <2>4, <2>5
  <2>7. MemoryTyped' /\ R!MemoryKeepsNewest'
    BY <1>0, <2>1, <2>5, <2>6, WorkingMemoryStays
  <2>8. Drawn'
    BY <2>1, <2>2, <2>5, DrawnStays
  <2> QED
    BY <2>7, <2>8 DEF MemoryInv
<1>7. ASSUME NEW t \in Threads, R!Unanswered(t)
      PROVE  MemoryInv'
  <2>1. /\ pc[t] = "call" /\ R!Goto(t, "idle", R!Nothing) /\ R!Trouble
        /\ UNCHANGED <<now, at, memory, told, raced, cursor, distilled, excused>>
    BY <1>7 DEF R!Unanswered, R!memoryVars, R!distilledVars
  <2>2. /\ pc' \in [Threads -> Places] /\ held' \in [Threads -> Holding]
        /\ pc'[t] = "idle" /\ held'[t] = R!Nothing
        /\ \A u \in Threads : u # t => pc'[u] = pc[u] /\ held'[u] = held[u]
    <3>1. "idle" \in Places
      BY DEF Places
    <3> QED
      BY <1>0, <1>a, <2>1, <3>1, WentTo
  <2>3. \A u \in Threads : WellHeld(pc'[u], held'[u], at, now)
    BY <1>a, <2>2
  <2>4. MemoryTyped' /\ R!MemoryKeepsNewest'
    BY <1>0, <1>b, <2>1, <2>2, <2>3, WorkingMemoryStays
  <2>5. Drawn'
    BY <1>a, <2>1, <2>2, DrawnStays
  <2> QED
    BY <2>4, <2>5 DEF MemoryInv
<1>c. \A e \in R!Episodes \ excused : DrawnOf(e)
  BY Zenon DEF MemoryInv, Drawn, DrawnOf
<1>d. ASSUME \A e \in R!Episodes \ excused' : DrawnOf(e)'
      PROVE  Drawn'
  BY <1>d DEF Drawn, DrawnOf
<1>8. ASSUME NEW t \in Threads, R!AppendRules(t)
      PROVE  MemoryInv'
  <2> DEFINE c == IF held[t].cursor = 0 THEN cursor ELSE held[t].cursor
  <2>1. /\ pc[t] = "rules" /\ R!Goto(t, "stamp", held[t]) /\ R!MoveCursor(c)
        /\ distilled' = [e \in R!Episodes |-> IF e \in held[t].window /\ distilled[e] < 2
                                              THEN distilled[e] + 1 ELSE distilled[e]]
        /\ UNCHANGED <<now, at, memory, told, raced, memorySpent>>
    BY <1>8 DEF R!AppendRules, R!memoryVars
  <2>2. WellHeld("rules", held[t], at, now) /\ WellHeld("stamp", held[t], at, now)
    BY <1>a, <2>1 DEF WellHeld
  <2>3. c \in 0..now /\ held[t] \in Holding /\ \A e \in held[t].window : at[e] # 0
    BY <1>0, <2>2 DEF WellHeld
  <2> HIDE DEF c
  <2>4. /\ pc' \in [Threads -> Places] /\ held' \in [Threads -> Holding]
        /\ pc'[t] = "stamp" /\ held'[t] = held[t]
        /\ \A u \in Threads : u # t => pc'[u] = pc[u] /\ held'[u] = held[u]
    <3>1. "stamp" \in Places
      BY DEF Places
    <3> QED
      BY <1>0, <2>1, <2>3, <3>1, WentTo
  <2>5. \A u \in Threads : WellHeld(pc'[u], held'[u], at, now)
    BY <1>a, <2>2, <2>4
  <2>6. /\ cursor' = c /\ excused \subseteq excused' /\ excused' \subseteq R!Episodes
        /\ \A e \in R!Episodes \ excused' : cursor # 0 /\ at[e] # 0 /\ at[e] <= cursor =>
               c # 0 /\ at[e] <= c
    BY <2>1, <2>3, CursorMoved
  <2>7. distilled' \in [R!Episodes -> 0..2]
    BY <1>0, <2>1
  <2>8. MemoryTyped' /\ R!MemoryKeepsNewest'
    BY <2>1, <2>3, <2>4, <2>5, <2>6, <2>7, <1>0, WorkingMemoryStays
  <2>9. ASSUME NEW e \in R!Episodes \ excused' PROVE DrawnOf(e)'
    <3>1. DrawnOf(e) /\ distilled[e] \in 0..2
      BY <1>0, <1>c, <2>6
    <3>2. distilled'[e] = IF e \in held[t].window /\ distilled[e] < 2 THEN distilled[e] + 1
                          ELSE distilled[e]
      BY <2>1
    <3>3. \A u \in Threads : held'[u] = held[u] /\ (u # t => pc'[u] = pc[u])
      BY <2>4
    <3>4. CASE e \in held[t].window
      <4>1. distilled[e] = 0 /\ distilled'[e] = 1
        BY <2>1, <3>1, <3>2, <3>4 DEF DrawnOf
      <4>2. \A u \in Threads : e \in held[u].window => u = t
        BY <3>1, <3>4 DEF DrawnOf
      <4> QED
        BY <2>1, <2>3, <2>4, <3>1, <3>3, <3>4, <4>1, <4>2 DEF DrawnOf
    <3>5. CASE e \notin held[t].window
      <4>1. distilled'[e] = distilled[e]
        BY <3>2, <3>5
      <4> QED
        BY <2>1, <2>4, <2>6, <3>1, <3>3, <3>5, <4>1 DEF DrawnOf
    <3> QED
      BY <3>4, <3>5
  <2> QED
    BY <1>d, <2>8, <2>9 DEF MemoryInv
<1>9. ASSUME NEW t \in Threads, R!Stamp(t)
      PROVE  MemoryInv'
  <2> DEFINE c == held[t].ts
  <2>1. /\ pc[t] = "stamp" /\ R!Goto(t, "idle", R!Nothing) /\ R!MoveCursor(c)
        /\ UNCHANGED <<now, at, memory, told, raced, distilled, memorySpent>>
    BY <1>9 DEF R!Stamp, R!memoryVars
  <2>2. WellHeld("stamp", held[t], at, now)
    BY <1>a, <2>1
  <2>3. c \in 1..now /\ c \in 0..now /\ \A e \in held[t].window : at[e] # 0 /\ at[e] <= c
    BY <1>0, <2>2 DEF WellHeld
  <2> HIDE DEF c
  <2>4. /\ pc' \in [Threads -> Places] /\ held' \in [Threads -> Holding]
        /\ pc'[t] = "idle" /\ held'[t] = R!Nothing
        /\ \A u \in Threads : u # t => pc'[u] = pc[u] /\ held'[u] = held[u]
    <3>1. "idle" \in Places
      BY DEF Places
    <3> QED
      BY <1>0, <1>a, <2>1, <3>1, WentTo
  <2>5. \A u \in Threads : WellHeld(pc'[u], held'[u], at, now)
    BY <1>a, <2>4
  <2>6. /\ cursor' = c /\ excused \subseteq excused' /\ excused' \subseteq R!Episodes
        /\ \A e \in R!Episodes \ excused' : cursor # 0 /\ at[e] # 0 /\ at[e] <= cursor =>
               c # 0 /\ at[e] <= c
    BY <2>1, <2>3, CursorMoved
  <2>7. MemoryTyped' /\ R!MemoryKeepsNewest'
    BY <1>0, <2>1, <2>3, <2>4, <2>5, <2>6, WorkingMemoryStays
  <2>8. ASSUME NEW e \in R!Episodes \ excused' PROVE DrawnOf(e)'
    <3>1. DrawnOf(e)
      BY <1>c, <2>6
    <3>2. \A u \in Threads : e \in held'[u].window => u # t /\ e \in held[u].window /\ pc'[u] = pc[u]
      BY <1>a, <2>4
    <3>3. e \in held[t].window => c # 0 /\ at[e] # 0 /\ at[e] <= c
      BY <2>3
    <3>4. distilled[e] > 0 => /\ at[e] # 0
                              /\ \/ c # 0 /\ at[e] <= c
                                 \/ \E u \in Threads : pc'[u] = "stamp" /\ e \in held'[u].window
      BY <2>4, <2>6, <3>1, <3>3 DEF DrawnOf
    <3> QED
      BY <2>1, <2>6, <3>1, <3>2, <3>4 DEF DrawnOf
  <2> QED
    BY <1>d, <2>7, <2>8 DEF MemoryInv
<1>10. ASSUME NEW t \in Threads, R!StampFails(t)
       PROVE  MemoryInv'
  <2>1. /\ pc[t] = "stamp" /\ R!Goto(t, "idle", R!Nothing) /\ R!Trouble
        /\ excused' = excused \cup held[t].window
        /\ UNCHANGED <<now, at, memory, told, raced, cursor, distilled>>
    BY <1>10 DEF R!StampFails, R!memoryVars
  <2>2. /\ pc' \in [Threads -> Places] /\ held' \in [Threads -> Holding]
        /\ pc'[t] = "idle" /\ held'[t] = R!Nothing
        /\ \A u \in Threads : u # t => pc'[u] = pc[u] /\ held'[u] = held[u]
    <3>1. "idle" \in Places
      BY DEF Places
    <3> QED
      BY <1>0, <1>a, <2>1, <3>1, WentTo
  <2>3. \A u \in Threads : WellHeld(pc'[u], held'[u], at, now)
    BY <1>a, <2>2
  <2>4. excused' \subseteq R!Episodes
    BY <1>0, <2>1 DEF Holding
  <2>5. MemoryTyped' /\ R!MemoryKeepsNewest'
    BY <1>0, <1>b, <2>1, <2>2, <2>3, <2>4, WorkingMemoryStays
  <2>6. Drawn'
    BY <1>a, <2>1, <2>2, DrawnStays
  <2> QED
    BY <2>5, <2>6 DEF MemoryInv
<1>11. ASSUME NEW t \in Threads, R!Edit(t)
       PROVE  MemoryInv'
  <2> DEFINE what == [R!Nothing EXCEPT !.cursor = cursor]
  <2>1. /\ pc[t] = "idle" /\ R!Goto(t, "edit", what) /\ R!Trouble
        /\ UNCHANGED <<now, at, memory, told, raced, cursor, distilled, excused>>
    BY <1>11 DEF R!Edit, R!memoryVars, R!distilledVars
  <2>2. what \in Holding /\ what.window = {} /\ what.cursor = cursor
    <3>1. cursor \in Nat
      BY <1>0
    <3> QED
      BY <1>a, <3>1, HoldsElse DEF Holding
  <2> HIDE DEF what
  <2>3. WellHeld("edit", what, at, now)
    BY <1>0, <2>2 DEF WellHeld
  <2>4. /\ pc' \in [Threads -> Places] /\ held' \in [Threads -> Holding]
        /\ pc'[t] = "edit" /\ held'[t] = what
        /\ \A u \in Threads : u # t => pc'[u] = pc[u] /\ held'[u] = held[u]
    <3>1. "edit" \in Places
      BY DEF Places
    <3> QED
      BY <1>0, <2>1, <2>2, <3>1, WentTo
  <2>5. \A u \in Threads : WellHeld(pc'[u], held'[u], at, now)
    BY <1>a, <2>3, <2>4
  <2>6. MemoryTyped' /\ R!MemoryKeepsNewest'
    BY <1>0, <1>b, <2>1, <2>4, <2>5, WorkingMemoryStays
  <2>7. Drawn'
    BY <2>1, <2>2, <2>4, DrawnStays
  <2> QED
    BY <2>6, <2>7 DEF MemoryInv
<1>12. ASSUME NEW t \in Threads, R!Edited(t)
       PROVE  MemoryInv'
  <2> DEFINE c == held[t].cursor
  <2>1. /\ pc[t] = "edit" /\ R!Goto(t, "idle", R!Nothing)
        /\ R!MoveCursor(c) \/ UNCHANGED <<cursor, excused>>
        /\ UNCHANGED <<now, at, memory, told, raced, distilled, memorySpent>>
    BY <1>12 DEF R!Edited, R!memoryVars
  <2>2. c \in 0..now /\ held[t].window = {}
    BY <1>a, <2>1 DEF WellHeld
  <2> HIDE DEF c
  <2>4. /\ pc' \in [Threads -> Places] /\ held' \in [Threads -> Holding]
        /\ pc'[t] = "idle" /\ held'[t] = R!Nothing
        /\ \A u \in Threads : u # t => pc'[u] = pc[u] /\ held'[u] = held[u]
    <3>1. "idle" \in Places
      BY DEF Places
    <3> QED
      BY <1>0, <1>a, <2>1, <3>1, WentTo
  <2>5. \A u \in Threads : WellHeld(pc'[u], held'[u], at, now)
    BY <1>a, <2>4
  <2>6. /\ cursor' \in 0..now /\ excused \subseteq excused' /\ excused' \subseteq R!Episodes
        /\ \A e \in R!Episodes \ excused' : cursor # 0 /\ at[e] # 0 /\ at[e] <= cursor =>
               cursor' # 0 /\ at[e] <= cursor'
    <3>1. CASE R!MoveCursor(c)
      BY <2>2, <3>1, CursorMoved
    <3>2. CASE UNCHANGED <<cursor, excused>>
      BY <1>0, <3>2
    <3> QED
      BY <2>1, <3>1, <3>2
  <2>7. MemoryTyped' /\ R!MemoryKeepsNewest'
    BY <1>0, <2>1, <2>4, <2>5, <2>6, WorkingMemoryStays
  <2>8. ASSUME NEW e \in R!Episodes \ excused' PROVE DrawnOf(e)'
    <3>1. DrawnOf(e)
      BY <1>c, <2>6
    <3>2. \A u \in Threads : /\ e \in held'[u].window => u # t /\ e \in held[u].window /\ pc'[u] = pc[u]
                             /\ pc[u] = "stamp" => u # t /\ pc'[u] = pc[u] /\ held'[u] = held[u]
      BY <1>a, <2>1, <2>4
    <3> QED
      BY <2>1, <2>6, <3>1, <3>2 DEF DrawnOf
  <2> QED
    BY <1>d, <2>7, <2>8 DEF MemoryInv
<1>13. CASE R!Crash
  <2>1. /\ R!Trouble
        /\ pc' = [t \in Threads |-> "idle"] /\ held' = [t \in Threads |-> R!Nothing]
        /\ excused' = excused \cup UNION {held[t].window : t \in {u \in Threads : pc[u] = "stamp"}}
        /\ UNCHANGED <<now, at, memory, told, raced, cursor, distilled>>
    BY <1>13 DEF R!Crash, R!memoryVars
  <2>2. /\ pc' \in [Threads -> Places] /\ held' \in [Threads -> Holding]
        /\ \A u \in Threads : pc'[u] = "idle" /\ held'[u] = R!Nothing
    BY <1>a, <2>1 DEF Places
  <2>3. \A u \in Threads : WellHeld(pc'[u], held'[u], at, now)
    BY <1>a, <2>2
  <2>4. excused' \subseteq R!Episodes
    <3> DEFINE Lost == UNION {held[t].window : t \in {u \in Threads : pc[u] = "stamp"}}
    <3>1. \A u \in Threads : held[u].window \subseteq R!Episodes
      BY <1>0 DEF Holding
    <3>2. Lost \subseteq R!Episodes
      BY <3>1
    <3>3. excused' = excused \cup Lost
      BY <2>1
    <3> HIDE DEF Lost
    <3> QED
      BY <1>0, <3>2, <3>3
  <2>5. MemoryTyped' /\ R!MemoryKeepsNewest'
    BY <1>0, <1>b, <2>1, <2>2, <2>3, <2>4, WorkingMemoryStays
  <2>6. \A u \in Threads : pc[u] = "stamp" => held[u].window \subseteq excused'
    BY <2>1
  <2>7. \A u \in Threads : held'[u].window = {}
    BY <1>a, <2>2
  <2>8. Drawn'
    BY <2>1, <2>6, <2>7, DrawnStays
  <2> QED
    BY <2>5, <2>8 DEF MemoryInv
<1>14. CASE R!Tick
  <2>1. /\ now < MaxTime /\ now' = now + 1
        /\ UNCHANGED <<at, memory, told, raced, cursor, distilled, excused, pc, held, memorySpent>>
    BY <1>14 DEF R!Tick, R!memoryVars, R!distilledVars
  <2>2. now' \in 1..MaxTime /\ now' \in Nat /\ now \in Nat /\ now <= now' /\ at \in [R!Episodes -> Nat]
        /\ at' \in [R!Episodes -> 0..now'] /\ cursor' \in 0..now'
    BY <1>0, <2>1
  <2>3. \A u \in Threads : WellHeld(pc[u], held[u], at, now')
    BY <1>a, <2>2, HeldLater
  <2>4. MemoryTyped'
    BY <1>0, <1>a, <2>1, <2>2, <2>3 DEF MemoryTyped, R!TypeOK, Places
  <2>5. R!MemoryKeepsNewest' /\ Drawn'
    BY <2>1 DEF MemoryInv, R!MemoryKeepsNewest, Drawn
  <2> QED
    BY <2>4, <2>5 DEF MemoryInv
<1>15. CASE UNCHANGED memoryVars
  <2>1. UNCHANGED <<now, at, memory, told, raced, cursor, distilled, excused, pc, held, memorySpent>>
    BY <1>15 DEF memoryVars
  <2>2. MemoryTyped' /\ R!MemoryKeepsNewest'
    BY <1>0, <1>a, <2>1, WorkingMemoryStays
  <2>3. Drawn'
    BY <2>1 DEF MemoryInv, Drawn
  <2> QED
    BY <2>2, <2>3 DEF MemoryInv
<1> QED
  BY <1>1, <1>2, <1>3, <1>4, <1>5, <1>6, <1>7, <1>8, <1>9, <1>10, <1>11, <1>12, <1>13, <1>14, <1>15
     DEF R!Next

LEMMA DistilledOnceHolds ==
  ASSUME MemoryInv
  PROVE  R!TypeOK /\ R!MemoryKeepsNewest /\ R!DistilledOnce
  BY DEF MemoryInv, MemoryTyped, Drawn, R!DistilledOnce

-----------------------------------------------------------------------------
(* The caps of what a sweep does. *)

Goals == Targets \cup {W!Forced, W!Unnamed}

\* How many actions of a kind there are in a bag of actions.
At(bag, kind) == SumOver([t \in Goals |-> bag[[kind |-> kind, target |-> t]]])

\* How many of what was applied a sweep has still to log.
Flight(s, kind) ==
    IF ~s.applied THEN 0
    ELSE IF s.step = "ending" THEN (IF kind = "concern" THEN 1 ELSE 0)
    ELSE At(s.done, kind)

SweepStates == [step : {"idle", "asking", "acting", "ending"}, forced : BOOLEAN,
                done : [W!Acts -> Nat], applied : BOOLEAN]

WellSwept(s) ==
    /\ s.step \in {"idle", "asking"} => s.done = W!Nothing /\ ~s.applied
    /\ s.step = "acting" => SumOver(s.done) <= PER_SWEEP
    /\ s.step = "ending" => At(s.done, "concern") >= 1

\* What was applied of a kind is in the log, but for n of the present.
CoveredBy(kind, done, logged, n) ==
    /\ \A a \in 1..(DAY - 1) : done[a][kind] <= At(logged[a], kind)
    /\ done[0][kind] <= At(logged[0], kind) + n

InFlight(swept, kind) == Flight(swept["interval"], kind) + Flight(swept["manual"], kind)

\* No kind was applied beyond its cap and what two sweeps do.
WithinCap(kind, done) ==
    SumOver([a \in 0..(DAY - 1) |-> done[a][kind]]) <= CAP[kind] - 1 + 2 * PER_SWEEP

SweepsInv ==
    /\ W!TypeOK
    /\ sweeps \in [W!Cycles -> SweepStates] /\ \A c \in W!Cycles : WellSwept(sweeps[c])
    /\ sweepUnlogged \/ \A k \in Kinds : /\ CoveredBy(k, applied, log, InFlight(sweeps, k))
                                        /\ WithinCap(k, applied)

LEMMA TotalIsSum == ASSUME NEW f PROVE W!Total(f) = SumOver(f)
  BY Zenon DEF W!Total, W!FoldFunction, W!FoldFunctionOnSet, W!MapThenFoldSet,
               SumOver, FoldFunction, FoldFunctionOnSet, MapThenFoldSet

LEMMA FiniteActs ==
  ASSUME W!SweepBounds
  PROVE  /\ IsFiniteSet(W!Acts) /\ IsFiniteSet(Goals)
         /\ \A k \in Kinds, t \in Goals : [kind |-> k, target |-> t] \in W!Acts
         /\ \A act \in W!Acts : act.target \in Goals
         /\ W!Nothing \in [W!Acts -> Nat]
<1>1. IsFiniteSet(Kinds) /\ IsFiniteSet(Goals)
  <2>1. IsFiniteSet({W!Forced}) /\ IsFiniteSet({W!Unnamed})
    BY FS_Singleton
  <2>4. IsFiniteSet(Targets) /\ IsFiniteSet(Kinds)
    BY DEF W!SweepBounds, W!IsFiniteSet, IsFiniteSet
  <2>2. IsFiniteSet(Targets \cup {W!Forced}) /\ IsFiniteSet(Kinds)
    BY <2>1, <2>4, FS_Union
  <2>3. Goals = (Targets \cup {W!Forced}) \cup {W!Unnamed}
    BY DEF Goals
  <2> QED
    BY <2>1, <2>2, <2>3, FS_Union
<1> DEFINE P == Kinds \X Goals
           Named == [kind : Kinds, target : Goals]
           Extra == {[kind |-> "stage_s", target |-> W!Unnamed]}
           f == [p \in P |-> [kind |-> p[1], target |-> p[2]]]
<1>2. IsFiniteSet(P)
  BY <1>1, FS_Product
<1>3. f \in Surjection(P, Named)
  <2>1. f \in [P -> Named]
    OBVIOUS
  <2>2. ASSUME NEW n \in Named PROVE \E p \in P : f[p] = n
    <3>1. <<n.kind, n.target>> \in P /\ n = [kind |-> n.kind, target |-> n.target]
      OBVIOUS
    <3> QED
      BY <3>1
  <2> HIDE DEF f, P, Named
  <2> QED
    BY <2>1, <2>2 DEF Surjection
<1>4. IsFiniteSet(Named)
  <2> HIDE DEF f, P, Named
  <2> QED
    BY <1>2, <1>3, FS_Surjection
<1>5. W!Acts = Named \cup Extra
  BY DEF W!Acts, Goals
<1>6. IsFiniteSet(W!Acts)
  BY <1>4, <1>5, FS_Union, FS_Singleton
<1>7. \A act \in W!Acts : act.target \in Goals
  BY DEF W!Acts, Goals
<1>8. \A k \in Kinds, t \in Goals : [kind |-> k, target |-> t] \in W!Acts
  BY <1>5
<1>9. W!Nothing \in [W!Acts -> Nat]
  BY DEF W!Nothing
<1> QED
  BY <1>1, <1>6, <1>7, <1>8, <1>9

LEMMA AtType ==
  ASSUME W!SweepBounds, NEW bag \in [W!Acts -> Nat], NEW kind \in Kinds
  PROVE  /\ At(bag, kind) \in Nat /\ SumOver(bag) \in Nat /\ At(bag, kind) <= SumOver(bag)
         /\ \A t \in Goals : bag[[kind |-> kind, target |-> t]] <= At(bag, kind)
<1> DEFINE place == [t \in Goals |-> [kind |-> kind, target |-> t]]
           part == [t \in Goals |-> bag[[kind |-> kind, target |-> t]]]
<1>1. place \in [Goals -> W!Acts] /\ \A t, u \in Goals : place[t] = place[u] => t = u
  BY FiniteActs
<1>2. part \in [Goals -> Nat]
  BY FiniteActs
<1>3. part = [t \in Goals |-> bag[place[t]]]
  OBVIOUS
<1>4. IsFiniteSet(W!Acts) /\ IsFiniteSet(Goals)
  BY FiniteActs
<1>5. At(bag, kind) = SumOver(part)
  BY DEF At
<1>6. \A t \in Goals : part[t] = bag[[kind |-> kind, target |-> t]]
  OBVIOUS
<1> HIDE DEF place, part
<1>7. SumOver(part) \in Nat /\ SumOver(bag) \in Nat /\ \A t \in Goals : part[t] <= SumOver(part)
  BY <1>2, <1>4, SumType
<1>8. SumOver(part) <= SumOver(bag)
  BY <1>1, <1>3, <1>4, SumReindexed
<1> QED
  BY <1>5, <1>6, <1>7, <1>8

LEMMA AtNothing ==
  ASSUME W!SweepBounds
  PROVE  SumOver(W!Nothing) = 0 /\ \A kind \in Kinds : At(W!Nothing, kind) = 0
<1>1. SumOver(W!Nothing) = 0
  BY FiniteActs, SumZero DEF W!Nothing
<1>2. ASSUME NEW kind \in Kinds PROVE At(W!Nothing, kind) = 0
  <2>1. At(W!Nothing, kind) \in Nat /\ At(W!Nothing, kind) <= 0
    BY <1>1, AtType, FiniteActs
  <2> QED
    BY <2>1
<1> QED
  BY <1>1, <1>2

LEMMA AtPlus ==
  ASSUME W!SweepBounds, NEW bag \in [W!Acts -> Nat], NEW more \in [W!Acts -> Nat], NEW kind \in Kinds
  PROVE  /\ W!Plus(bag, more) \in [W!Acts -> Nat]
         /\ At(W!Plus(bag, more), kind) = At(bag, kind) + At(more, kind)
<1> DEFINE f == [t \in Goals |-> bag[[kind |-> kind, target |-> t]]]
           g == [t \in Goals |-> more[[kind |-> kind, target |-> t]]]
           s == [t \in Goals |-> W!Plus(bag, more)[[kind |-> kind, target |-> t]]]
<1>0. \A t \in Goals : [kind |-> kind, target |-> t] \in W!Acts
  BY FiniteActs
<1>1. f \in [Goals -> Nat] /\ g \in [Goals -> Nat] /\ IsFiniteSet(Goals)
  BY <1>0, FiniteActs
<1>2. /\ W!Plus(bag, more) \in [W!Acts -> Nat]
      /\ \A a \in W!Acts : W!Plus(bag, more)[a] = bag[a] + more[a]
  BY DEF W!Plus
<1>3. s = [t \in Goals |-> f[t] + g[t]]
  BY <1>0, <1>2
<1>4. At(bag, kind) = SumOver(f) /\ At(more, kind) = SumOver(g)
      /\ At(W!Plus(bag, more), kind) = SumOver(s)
  BY DEF At
<1> HIDE DEF f, g, s
<1>5. SumOver(s) = SumOver(f) + SumOver(g)
  BY <1>1, <1>3, SumPlus
<1> QED
  BY <1>2, <1>4, <1>5

\* One action more.
LEMMA AtMore ==
  ASSUME W!SweepBounds, NEW bag \in [W!Acts -> Nat], NEW act \in W!Acts
  PROVE  LET more == [bag EXCEPT ![act] = @ + 1]
         IN  /\ more \in [W!Acts -> Nat] /\ SumOver(more) = SumOver(bag) + 1
             /\ \A kind \in Kinds : /\ At(more, kind) >= At(bag, kind)
                                    /\ act.kind = kind => At(more, kind) = At(bag, kind) + 1
<1> DEFINE more == [bag EXCEPT ![act] = @ + 1]
<1>1. /\ bag[act] \in Nat /\ bag[act] + 1 \in Nat /\ more = [bag EXCEPT ![act] = bag[act] + 1]
      /\ more \in [W!Acts -> Nat] /\ more[act] = bag[act] + 1
      /\ \A a \in W!Acts : a # act => more[a] = bag[a]
  OBVIOUS
<1> HIDE DEF more
<1>2. SumOver(more) = SumOver(bag) - bag[act] + (bag[act] + 1) /\ SumOver(bag) \in Nat
  <2>1. IsFiniteSet(W!Acts)
    BY FiniteActs
  <2>2. SumOver(bag) \in Nat
    BY <2>1, SumType
  <2>3. SumOver([bag EXCEPT ![act] = bag[act] + 1]) = SumOver(bag) - bag[act] + (bag[act] + 1)
    <3> DEFINE v == bag[act] + 1
    <3>1. v \in Nat
      BY <1>1
    <3> HIDE DEF v
    <3>2. SumOver([bag EXCEPT ![act] = v]) = SumOver(bag) - bag[act] + v
      BY <2>1, <3>1, SumChanged
    <3> QED
      BY <3>2 DEF v
  <2> QED
    BY <1>1, <2>2, <2>3
<1>3. ASSUME NEW kind \in Kinds
      PROVE  /\ At(more, kind) >= At(bag, kind)
             /\ act.kind = kind => At(more, kind) = At(bag, kind) + 1
  <2> DEFINE f == [t \in Goals |-> bag[[kind |-> kind, target |-> t]]]
             g == [t \in Goals |-> more[[kind |-> kind, target |-> t]]]
  <2>0. \A t \in Goals : [kind |-> kind, target |-> t] \in W!Acts
    BY FiniteActs
  <2>1. f \in [Goals -> Nat] /\ g \in [Goals -> Nat] /\ IsFiniteSet(Goals)
    BY <1>1, <2>0, FiniteActs
  <2>2. At(bag, kind) = SumOver(f) /\ At(more, kind) = SumOver(g)
    BY DEF At
  <2>3. \A t \in Goals : f[t] = bag[[kind |-> kind, target |-> t]]
                         /\ g[t] = more[[kind |-> kind, target |-> t]]
    OBVIOUS
  <2>4. \A t \in Goals : f[t] <= g[t]
    <3> TAKE t \in Goals
    <3> DEFINE a == [kind |-> kind, target |-> t]
    <3>1. a \in W!Acts /\ f[t] = bag[a] /\ g[t] = more[a]
      BY <2>0
    <3> HIDE DEF a, f, g
    <3> QED
      BY <1>1, <3>1
  <2>5. act.kind = kind => g = [f EXCEPT ![act.target] = f[act.target] + 1]
    <3> SUFFICES ASSUME act.kind = kind PROVE g = [f EXCEPT ![act.target] = f[act.target] + 1]
      OBVIOUS
    <3>1. act.target \in Goals /\ act = [kind |-> kind, target |-> act.target]
      BY FiniteActs DEF W!Acts
    <3>2. \A t \in Goals : t # act.target => g[t] = f[t]
      <4> TAKE t \in Goals
      <4> DEFINE a == [kind |-> kind, target |-> t]
      <4>1. a \in W!Acts /\ f[t] = bag[a] /\ g[t] = more[a] /\ a.target = t
        BY <2>0
      <4> HIDE DEF a, f, g
      <4> QED
        BY <1>1, <4>1
    <3>3. g[act.target] = f[act.target] + 1
      <4>1. f[act.target] = bag[act] /\ g[act.target] = more[act]
        BY <2>3, <3>1
      <4> HIDE DEF f, g
      <4> QED
        BY <1>1, <4>1
    <3> HIDE DEF f, g
    <3> QED
      BY <2>1, <3>1, <3>2, <3>3
  <2> HIDE DEF f, g
  <2>6. SumOver(f) <= SumOver(g) /\ SumOver(f) \in Nat /\ SumOver(g) \in Nat
    BY <2>1, <2>4, SumAtMost, SumType
  <2>7. act.kind = kind => SumOver(g) = SumOver(f) + 1
    <3> SUFFICES ASSUME act.kind = kind PROVE SumOver(g) = SumOver(f) + 1
      OBVIOUS
    <3>1. act.target \in Goals
      BY FiniteActs
    <3>2. f[act.target] \in Nat
      BY <2>1, <3>1
    <3>3. f[act.target] + 1 \in Nat
      BY <3>2
    <3>4. SumOver(g) = SumOver(f) - f[act.target] + (f[act.target] + 1)
      BY <2>1, <2>5, <3>1, <3>3, SumChanged
    <3> QED
      BY <2>6, <3>2, <3>4
  <2> QED
    BY <2>2, <2>6, <2>7
<1>4. SumOver(more) = SumOver(bag) + 1
  BY <1>1, <1>2
<1> QED
  BY <1>1, <1>3, <1>4 DEF more

\* What was applied in a day is at most what is logged of it and what is in flight.
LEMMA CoverBounds ==
  ASSUME W!SweepBounds, NEW done \in [0..(DAY - 1) -> [Kinds -> Nat]],
         NEW logged \in [0..(DAY - 1) -> [W!Acts -> Nat]], NEW kind \in Kinds, NEW n \in Nat,
         CoveredBy(kind, done, logged, n)
  PROVE  /\ SumOver([a \in 0..(DAY - 1) |-> done[a][kind]])
              <= SumOver([a \in 0..(DAY - 1) |-> At(logged[a], kind)]) + n
         /\ SumOver([a \in 0..(DAY - 1) |-> done[a][kind]]) \in Nat
         /\ SumOver([a \in 0..(DAY - 1) |-> At(logged[a], kind)]) \in Nat
<1> DEFINE D == 0..(DAY - 1)
           f == [a \in D |-> done[a][kind]]
           g == [a \in D |-> At(logged[a], kind)]
           h == [g EXCEPT ![0] = g[0] + n]
<1>0. DAY \in Nat /\ DAY >= 1
  BY DEF W!SweepBounds
<1>1. IsFiniteSet(D) /\ 0 \in D /\ \A a \in D : a # 0 => a \in 1..(DAY - 1)
  BY <1>0, FS_Interval
<1>2. f \in [D -> Nat] /\ g \in [D -> Nat]
  BY AtType
<1>3. /\ f[0] <= g[0] + n /\ \A a \in D : a # 0 => f[a] <= g[a]
      /\ g[0] \in Nat /\ g[0] + n \in Nat
  BY <1>1, <1>2 DEF CoveredBy
<1> HIDE DEF D, f, g
<1>4. h \in [D -> Nat] /\ \A a \in D : f[a] <= h[a]
  BY <1>1, <1>2, <1>3
<1>5. SumOver(h) = SumOver(g) - g[0] + (g[0] + n)
  BY <1>1, <1>2, <1>3, SumChanged
<1> HIDE DEF h
<1>6. SumOver(f) <= SumOver(h) /\ SumOver(f) \in Nat /\ SumOver(g) \in Nat
  BY <1>1, <1>2, <1>4, SumAtMost, SumType
<1>7. SumOver(f) <= SumOver(g) + n
  BY <1>3, <1>5, <1>6
<1> QED
  BY <1>6, <1>7 DEF f, g, D

LEMMA FlightType ==
  ASSUME W!SweepBounds, NEW s \in SweepStates, WellSwept(s), NEW kind \in Kinds
  PROVE  Flight(s, kind) \in Nat /\ Flight(s, kind) <= PER_SWEEP
<1>1. s.done \in [W!Acts -> Nat] /\ PER_SWEEP \in Nat /\ PER_SWEEP >= 1
  BY DEF SweepStates, W!SweepBounds
<1>2. At(s.done, kind) \in Nat /\ SumOver(s.done) \in Nat /\ At(s.done, kind) <= SumOver(s.done)
  BY <1>1, AtType
<1>3. CASE s.applied /\ s.step = "acting"
  BY <1>1, <1>2, <1>3 DEF WellSwept, Flight
<1>4. CASE ~s.applied \/ s.step # "acting"
  BY <1>1, <1>4 DEF WellSwept, Flight, SweepStates
<1> QED
  BY <1>3, <1>4

\* A sweep goes on; the other one stays as it is.
LEMMA SweepMoved ==
  ASSUME W!SweepBounds, SweepsInv, NEW c \in W!Cycles, NEW new \in SweepStates, WellSwept(new),
         sweeps' = [sweeps EXCEPT ![c] = new]
  PROVE  /\ sweeps' \in [W!Cycles -> SweepStates] /\ \A d \in W!Cycles : WellSwept(sweeps'[d])
         /\ \A k \in Kinds : /\ InFlight(sweeps', k) \in Nat /\ InFlight(sweeps', k) <= 2 * PER_SWEEP
                             /\ InFlight(sweeps, k) \in Nat /\ Flight(sweeps[c], k) \in Nat
                             /\ Flight(new, k) \in Nat
                             /\ InFlight(sweeps', k)
                                  = InFlight(sweeps, k) - Flight(sweeps[c], k) + Flight(new, k)
<1>1. sweeps \in [W!Cycles -> SweepStates] /\ \A d \in W!Cycles : WellSwept(sweeps[d])
  BY DEF SweepsInv
<1>2. /\ sweeps' \in [W!Cycles -> SweepStates] /\ sweeps'[c] = new
      /\ \A d \in W!Cycles : d # c => sweeps'[d] = sweeps[d]
  BY <1>1
<1>3. \A d \in W!Cycles : WellSwept(sweeps'[d])
  BY <1>1, <1>2
<1>4. ASSUME NEW k \in Kinds
      PROVE  /\ InFlight(sweeps', k) \in Nat /\ InFlight(sweeps', k) <= 2 * PER_SWEEP
             /\ InFlight(sweeps, k) \in Nat /\ Flight(sweeps[c], k) \in Nat /\ Flight(new, k) \in Nat
             /\ InFlight(sweeps', k) = InFlight(sweeps, k) - Flight(sweeps[c], k) + Flight(new, k)
  <2>1. \A d \in W!Cycles : /\ Flight(sweeps[d], k) \in Nat
                            /\ Flight(sweeps'[d], k) \in Nat /\ Flight(sweeps'[d], k) <= PER_SWEEP
    <3> TAKE d \in W!Cycles
    <3>1. /\ sweeps[d] \in SweepStates /\ WellSwept(sweeps[d])
          /\ sweeps'[d] \in SweepStates /\ WellSwept(sweeps'[d])
      BY <1>1, <1>2, <1>3
    <3> QED
      BY <3>1, FlightType
  <2>2. PER_SWEEP \in Nat /\ W!Cycles = {"interval", "manual"}
    BY DEF W!SweepBounds, W!Cycles
  <2>3. CASE c = "interval"
    <3>1. sweeps'["interval"] = new /\ sweeps'["manual"] = sweeps["manual"]
      BY <1>2, <2>2, <2>3
    <3> QED
      BY <2>1, <2>2, <2>3, <3>1 DEF InFlight
  <2>4. CASE c = "manual"
    <3>1. sweeps'["manual"] = new /\ sweeps'["interval"] = sweeps["interval"]
      BY <1>2, <2>2, <2>4
    <3> QED
      BY <2>1, <2>2, <2>4, <3>1 DEF InFlight
  <2> QED
    BY <2>2, <2>3, <2>4
<1> QED
  BY <1>2, <1>3, <1>4

LEMMA SweepTypes ==
  ASSUME W!SweepBounds, SweepsInv
  PROVE  /\ DAY \in Nat /\ DAY >= 1 /\ 0 \in 0..(DAY - 1)
         /\ \A a \in 0..(DAY - 1) : a # 0 => a \in 1..(DAY - 1)
         /\ \A a \in 1..(DAY - 1) : a \in 0..(DAY - 1) /\ a # 0
         /\ log \in [0..(DAY - 1) -> [W!Acts -> Nat]]
         /\ applied \in [0..(DAY - 1) -> [Kinds -> Nat]]
         /\ PER_SWEEP \in Nat /\ PER_SWEEP >= 1 /\ CAP \in [Kinds -> Nat]
         /\ \A k \in Kinds : At(log[0], k) \in Nat /\ \A j \in Kinds : applied[0][j] \in Nat
<1>1. DAY \in Nat /\ DAY >= 1 /\ PER_SWEEP \in Nat /\ PER_SWEEP >= 1 /\ CAP \in [Kinds -> Nat]
  BY DEF W!SweepBounds
<1>2. log \in [0..(DAY - 1) -> [W!Acts -> Nat]] /\ applied \in [0..(DAY - 1) -> [Kinds -> Nat]]
  BY DEF SweepsInv, W!TypeOK
<1>3. log[0] \in [W!Acts -> Nat] /\ applied[0] \in [Kinds -> Nat]
  BY <1>1, <1>2
<1>4. \A k \in Kinds : At(log[0], k) \in Nat
  BY <1>3, AtType
<1> QED
  BY <1>1, <1>2, <1>3, <1>4

\* What is applied and logged stays, and nothing that is in flight is dropped.
LEMMA CoverStays ==
  ASSUME W!SweepBounds, SweepsInv, NEW c \in W!Cycles, NEW new \in SweepStates, WellSwept(new),
         \A k \in Kinds : Flight(new, k) >= Flight(sweeps[c], k),
         sweeps' = [sweeps EXCEPT ![c] = new], UNCHANGED <<log, applied, sweepUnlogged>>,
         W!TypeOK'
  PROVE  SweepsInv'
<1>2. sweeps' \in [W!Cycles -> SweepStates] /\ \A d \in W!Cycles : WellSwept(sweeps'[d])
  BY SweepMoved
<1>3. ASSUME ~sweepUnlogged, NEW k \in Kinds
      PROVE  CoveredBy(k, applied, log, InFlight(sweeps', k))
  <2>1. CoveredBy(k, applied, log, InFlight(sweeps, k))
    BY <1>3 DEF SweepsInv
  <2>2. InFlight(sweeps', k) >= InFlight(sweeps, k) /\ InFlight(sweeps', k) \in Nat
        /\ InFlight(sweeps, k) \in Nat
    <3>1. /\ InFlight(sweeps', k) \in Nat /\ InFlight(sweeps', k) <= 2 * PER_SWEEP
          /\ InFlight(sweeps, k) \in Nat /\ Flight(sweeps[c], k) \in Nat /\ Flight(new, k) \in Nat
          /\ InFlight(sweeps', k) = InFlight(sweeps, k) - Flight(sweeps[c], k) + Flight(new, k)
      BY SweepMoved
    <3>2. Flight(new, k) >= Flight(sweeps[c], k)
      OBVIOUS
    <3> QED
      BY <3>1, <3>2
  <2>3. At(log[0], k) \in Nat /\ applied[0][k] \in Nat
    BY SweepTypes
  <2> QED
    BY <2>1, <2>2, <2>3 DEF CoveredBy
<1>4. sweepUnlogged' \/ \A k \in Kinds : /\ CoveredBy(k, applied', log', InFlight(sweeps', k))
                                         /\ WithinCap(k, applied')
  BY <1>3 DEF SweepsInv
<1> QED
  BY <1>2, <1>4 DEF SweepsInv

LEMMA LoggedIsSum ==
  ASSUME NEW kind PROVE W!Logged(kind) = SumOver([a \in 0..(DAY - 1) |-> At(log[a], kind)])
<1> DEFINE f == [a \in 0..(DAY - 1) |-> At(log[a], kind)]
           g == [a \in 0..(DAY - 1) |-> W!Total([t \in Targets \cup {W!Forced, W!Unnamed} |->
                                            log[a][[kind |-> kind, target |-> t]]])]
<1>1. \A a : W!Total([t \in Targets \cup {W!Forced, W!Unnamed} |->
                        log[a][[kind |-> kind, target |-> t]]]) = At(log[a], kind)
  BY TotalIsSum, Zenon DEF At, Goals
<1>2. g = f
  BY <1>1
<1>3. W!Logged(kind) = W!Total(g)
  BY DEF W!Logged
<1> HIDE DEF f, g
<1>4. W!Logged(kind) = SumOver(f)
  BY <1>2, <1>3, TotalIsSum
<1> QED
  BY <1>4 DEF f

\* An action is applied that the log still had room for.
LEMMA CoverGrows ==
  ASSUME W!SweepBounds, SweepsInv, NEW c \in W!Cycles, NEW new \in SweepStates, WellSwept(new),
         NEW kind \in Kinds, ~W!Capped(kind),
         \A k \in Kinds : /\ Flight(new, k) >= Flight(sweeps[c], k)
                          /\ k = kind => Flight(new, k) >= Flight(sweeps[c], k) + 1,
         sweeps' = [sweeps EXCEPT ![c] = new], UNCHANGED <<log, sweepUnlogged>>,
         applied' = [applied EXCEPT ![0][kind] = @ + 1],
         W!TypeOK'
  PROVE  SweepsInv'
<1>0. applied' \in [0..(DAY - 1) -> [Kinds -> Nat]]
  BY DEF W!TypeOK
<1>1. sweeps' \in [W!Cycles -> SweepStates] /\ \A d \in W!Cycles : WellSwept(sweeps'[d])
  BY SweepMoved
<1>2. ASSUME NEW k \in Kinds
      PROVE  /\ InFlight(sweeps', k) \in Nat /\ InFlight(sweeps', k) <= 2 * PER_SWEEP
             /\ InFlight(sweeps, k) \in Nat /\ InFlight(sweeps', k) >= InFlight(sweeps, k)
             /\ k = kind => InFlight(sweeps', k) >= InFlight(sweeps, k) + 1
  <2>1. /\ InFlight(sweeps', k) \in Nat /\ InFlight(sweeps', k) <= 2 * PER_SWEEP
        /\ InFlight(sweeps, k) \in Nat /\ Flight(sweeps[c], k) \in Nat /\ Flight(new, k) \in Nat
        /\ InFlight(sweeps', k) = InFlight(sweeps, k) - Flight(sweeps[c], k) + Flight(new, k)
    BY SweepMoved
  <2>2. /\ Flight(new, k) >= Flight(sweeps[c], k)
        /\ k = kind => Flight(new, k) >= Flight(sweeps[c], k) + 1
    OBVIOUS
  <2> QED
    BY <2>1, <2>2
<1>a. ASSUME NEW k \in Kinds
      PROVE  /\ \A a \in 0..(DAY - 1) : a # 0 \/ k # kind => applied'[a][k] = applied[a][k]
             /\ applied'[0][k] = IF k = kind THEN applied[0][k] + 1 ELSE applied[0][k]
  BY SweepTypes
<1>3. ASSUME ~sweepUnlogged, NEW k \in Kinds
      PROVE  CoveredBy(k, applied', log, InFlight(sweeps', k))
  <2>1. CoveredBy(k, applied, log, InFlight(sweeps, k))
    BY <1>3 DEF SweepsInv
  <2>2. At(log[0], k) \in Nat /\ applied[0][k] \in Nat
    BY SweepTypes
  <2>3. \A a \in 1..(DAY - 1) : applied'[a][k] = applied[a][k]
    BY <1>a, SweepTypes
  <2>4. applied'[0][k] <= At(log[0], k) + InFlight(sweeps', k)
    <3>1. applied[0][k] <= At(log[0], k) + InFlight(sweeps, k)
      BY <2>1 DEF CoveredBy
    <3>2. /\ InFlight(sweeps', k) \in Nat /\ InFlight(sweeps', k) >= InFlight(sweeps, k)
          /\ InFlight(sweeps, k) \in Nat
          /\ k = kind => InFlight(sweeps', k) >= InFlight(sweeps, k) + 1
      BY <1>2
    <3>3. applied'[0][k] = IF k = kind THEN applied[0][k] + 1 ELSE applied[0][k]
      BY <1>a
    <3> DEFINE x == applied[0][k]
               y == applied'[0][k]
               n == InFlight(sweeps, k)
               m == InFlight(sweeps', k)
    <3>4. /\ x <= At(log[0], k) + n /\ y = IF k = kind THEN x + 1 ELSE x
          /\ x \in Nat /\ n \in Nat /\ m \in Nat /\ m >= n /\ (k = kind => m >= n + 1)
      BY <2>2, <3>1, <3>2, <3>3
    <3> HIDE DEF x, y, n, m
    <3>5. y <= At(log[0], k) + m
      BY <2>2, <3>4
    <3> QED
      BY <3>5 DEF y, m
  <2> QED
    BY <2>1, <2>3, <2>4 DEF CoveredBy
<1>4. ASSUME ~sweepUnlogged, NEW k \in Kinds
      PROVE  WithinCap(k, applied')
  <2>1. CASE k = kind
    <3>1. /\ SumOver([a \in 0..(DAY - 1) |-> applied'[a][k]])
                 <= SumOver([a \in 0..(DAY - 1) |-> At(log[a], k)]) + InFlight(sweeps', k)
          /\ SumOver([a \in 0..(DAY - 1) |-> applied'[a][k]]) \in Nat
          /\ SumOver([a \in 0..(DAY - 1) |-> At(log[a], k)]) \in Nat
      <4>1. log \in [0..(DAY - 1) -> [W!Acts -> Nat]] /\ InFlight(sweeps', k) \in Nat
        BY <1>2, SweepTypes
      <4> DEFINE done == applied'
                 n == InFlight(sweeps', k)
      <4>2. done \in [0..(DAY - 1) -> [Kinds -> Nat]] /\ n \in Nat /\ CoveredBy(k, done, log, n)
        BY <1>0, <1>3, <1>4, <4>1
      <4> HIDE DEF done, n
      <4>3. /\ SumOver([a \in 0..(DAY - 1) |-> done[a][k]])
                   <= SumOver([a \in 0..(DAY - 1) |-> At(log[a], k)]) + n
            /\ SumOver([a \in 0..(DAY - 1) |-> done[a][k]]) \in Nat
            /\ SumOver([a \in 0..(DAY - 1) |-> At(log[a], k)]) \in Nat
        BY <4>1, <4>2, CoverBounds
      <4> QED
        BY <4>3 DEF done, n
    <3>2. SumOver([a \in 0..(DAY - 1) |-> At(log[a], k)]) < CAP[k] /\ CAP[k] \in Nat
      <4>1. CAP[k] \in Nat
        BY SweepTypes
      <4>2. ~(SumOver([a \in 0..(DAY - 1) |-> At(log[a], k)]) >= CAP[k])
        BY <2>1, LoggedIsSum DEF W!Capped
      <4> QED
        BY <3>1, <4>1, <4>2
    <3>3. InFlight(sweeps', k) \in Nat /\ InFlight(sweeps', k) <= 2 * PER_SWEEP /\ PER_SWEEP \in Nat
      BY <1>2, SweepTypes
    <3> QED
      BY <3>1, <3>2, <3>3 DEF WithinCap
  <2>2. CASE k # kind
    <3>1. [a \in 0..(DAY - 1) |-> applied'[a][k]] = [a \in 0..(DAY - 1) |-> applied[a][k]]
      BY <1>a, <2>2
    <3>2. WithinCap(k, applied)
      BY <1>4 DEF SweepsInv
    <3> QED
      BY <3>1, <3>2 DEF WithinCap
  <2> QED
    BY <2>1, <2>2
<1>5. sweepUnlogged' \/ \A k \in Kinds : /\ CoveredBy(k, applied', log', InFlight(sweeps', k))
                                         /\ WithinCap(k, applied')
  BY <1>3, <1>4
<1> QED
  BY <1>1, <1>5 DEF SweepsInv

LEMMA CapsHold ==
  ASSUME W!SweepBounds, SweepsInv
  PROVE  W!CapsNearlyKept
<1>1. W!Cardinality(W!Cycles) = 2
  <2>1. Cardinality({"manual"}) = 1 /\ IsFiniteSet({"manual"})
    BY FS_Singleton
  <2>2. Cardinality({"manual"} \cup {"interval"}) = Cardinality({"manual"}) + 1
    BY <2>1, FS_AddElement
  <2>3. {"manual"} \cup {"interval"} = {"interval", "manual"}
    OBVIOUS
  <2>4. Cardinality({"interval", "manual"}) = 2
    BY <2>1, <2>2, <2>3
  <2> QED
    BY <2>4 DEF W!Cardinality, Cardinality, W!Cycles
<1>2. ASSUME NEW k \in Kinds
      PROVE  W!Applied(k) = SumOver([a \in 0..(DAY - 1) |-> applied[a][k]])
  <2>1. DOMAIN applied = 0..(DAY - 1)
    BY SweepTypes
  <2> QED
    BY <2>1, TotalIsSum DEF W!Applied
<1> QED
  BY <1>1, <1>2 DEF SweepsInv, W!CapsNearlyKept, WithinCap

LEMMA SweepsInit ==
  ASSUME W!SweepBounds, W!Init
  PROVE  SweepsInv
<1>1. /\ DAY \in Nat /\ DAY >= 1 /\ PER_SWEEP \in Nat /\ CAP \in [Kinds -> Nat]
      /\ INTERVAL \in Nat /\ MaxManual \in Nat /\ MaxTrouble \in Nat
  BY DEF W!SweepBounds
<1>2. /\ sweeps = [c \in W!Cycles |-> W!Resting]
      /\ log = [a \in 0..(DAY - 1) |-> W!Nothing]
      /\ applied = [a \in 0..(DAY - 1) |-> [k \in Kinds |-> 0]]
  BY DEF W!Init
<1>3. W!Resting \in SweepStates /\ WellSwept(W!Resting)
  BY FiniteActs DEF W!Resting, SweepStates, WellSwept
<1>4. sweeps \in [W!Cycles -> SweepStates] /\ \A c \in W!Cycles : WellSwept(sweeps[c])
  BY <1>2, <1>3
<1>5. log \in [0..(DAY - 1) -> [W!Acts -> Nat]] /\ applied \in [0..(DAY - 1) -> [Kinds -> Nat]]
  BY <1>2, FiniteActs
<1>6. W!TypeOK
  <2>1. \A c \in W!Cycles : /\ sweeps[c].step \in {"idle", "asking", "acting", "ending"}
                            /\ sweeps[c].done \in [W!Acts -> Nat]
    BY <1>4 DEF SweepStates
  <2>4. busy = {} /\ acted = FALSE /\ sweepUnlogged = FALSE /\ sweepRested = INTERVAL
    BY DEF W!Init
  <2>5. sweepRested \in 0..INTERVAL
    BY <1>1, <2>4
  <2>2. /\ busy \subseteq 0..(MONTH - 1) /\ {acted, sweepUnlogged} \subseteq BOOLEAN
        /\ sweepRested \in 0..INTERVAL
    BY <2>4, <2>5
  <2>3. sweepSpent \in [manual : 0..MaxManual, trouble : 0..MaxTrouble]
    BY <1>1 DEF W!Init
  <2> QED
    BY <1>5, <2>1, <2>2, <2>3 DEF W!TypeOK
<1>7. ASSUME NEW k \in Kinds
      PROVE  CoveredBy(k, applied, log, InFlight(sweeps, k)) /\ WithinCap(k, applied)
  <2>1. At(W!Nothing, k) = 0 /\ \A a \in 0..(DAY - 1) : log[a] = W!Nothing /\ applied[a][k] = 0
    BY <1>2, AtNothing
  <2>2. /\ \A a \in 0..(DAY - 1) : At(log[a], k) = 0 /\ applied[a][k] = 0
        /\ 0 \in 0..(DAY - 1) /\ \A a \in 1..(DAY - 1) : a \in 0..(DAY - 1)
    BY <1>1, <2>1
  <2>3. InFlight(sweeps, k) = 0
    <3>1. \A c \in W!Cycles : Flight(sweeps[c], k) = 0
      BY <1>2 DEF Flight, W!Resting
    <3> QED
      BY <3>1 DEF InFlight, W!Cycles
  <2>4. SumOver([a \in 0..(DAY - 1) |-> applied[a][k]]) = 0
    <3>1. [a \in 0..(DAY - 1) |-> applied[a][k]] = [a \in 0..(DAY - 1) |-> 0]
      BY <2>2
    <3>2. IsFiniteSet(0..(DAY - 1))
      BY <1>1, FS_Interval
    <3> QED
      BY <3>1, <3>2, SumZero
  <2>5. 0 <= CAP[k] - 1 + 2 * PER_SWEEP
    <3>1. CAP[k] \in Nat /\ PER_SWEEP >= 1
      BY <1>1 DEF W!SweepBounds
    <3> QED
      BY <1>1, <3>1
  <2> QED
    BY <2>2, <2>3, <2>4, <2>5 DEF CoveredBy, WithinCap
<1> QED
  BY <1>4, <1>6, <1>7 DEF SweepsInv

\* Time passes: every entry of the log is a tick older, and the oldest drop out together.
LEMMA SweepsAge ==
  ASSUME W!SweepBounds, SweepsInv, W!Tick
  PROVE  SweepsInv'
<1> USE SweepTypes
<1>1. /\ \A c \in W!Cycles : sweeps[c].step \in {"idle", "asking"}
      /\ log' = [a \in DOMAIN log |-> IF a = 0 THEN W!Nothing ELSE log[a - 1]]
      /\ busy' = {a + 1 : a \in busy} \ {MONTH}
      /\ applied' = [a \in DOMAIN applied |-> IF a = 0 THEN [k \in Kinds |-> 0] ELSE applied[a - 1]]
      /\ sweepRested' = IF sweepRested < INTERVAL THEN sweepRested + 1 ELSE sweepRested
      /\ UNCHANGED <<sweeps, acted, sweepUnlogged, sweepSpent>>
  BY DEF W!Tick
<1>2. DOMAIN log = 0..(DAY - 1) /\ DOMAIN applied = 0..(DAY - 1)
  OBVIOUS
<1>3. \A a \in 0..(DAY - 1) : a # 0 => a - 1 \in 0..(DAY - 1)
  OBVIOUS
<1>4. /\ log' \in [0..(DAY - 1) -> [W!Acts -> Nat]] /\ log'[0] = W!Nothing
      /\ \A a \in 1..(DAY - 1) : log'[a] = log[a - 1]
  BY <1>1, <1>2, <1>3, FiniteActs
<1>5. /\ applied' \in [0..(DAY - 1) -> [Kinds -> Nat]] /\ \A k \in Kinds : applied'[0][k] = 0
      /\ \A a \in 1..(DAY - 1) : applied'[a] = applied[a - 1]
  BY <1>1, <1>2, <1>3
<1>6. W!TypeOK'
  <2>1. busy' \subseteq 0..(MONTH - 1) /\ sweepRested' \in 0..INTERVAL
    <3>1. busy \subseteq 0..(MONTH - 1) /\ MONTH \in Nat /\ INTERVAL \in Nat /\ sweepRested \in 0..INTERVAL
      BY DEF SweepsInv, W!TypeOK, W!SweepBounds
    <3> QED
      BY <1>1, <3>1
  <2> QED
    BY <1>1, <1>4, <1>5, <2>1 DEF SweepsInv, W!TypeOK
<1>7. ASSUME ~sweepUnlogged, NEW k \in Kinds
      PROVE  CoveredBy(k, applied', log', InFlight(sweeps', k)) /\ WithinCap(k, applied')
  <2>1. CoveredBy(k, applied, log, InFlight(sweeps, k)) /\ WithinCap(k, applied)
    BY <1>7 DEF SweepsInv
  <2>2. InFlight(sweeps, k) = 0
    <3>1. \A c \in W!Cycles : Flight(sweeps[c], k) = 0
      BY <1>1 DEF SweepsInv, WellSwept, Flight
    <3> QED
      BY <3>1 DEF InFlight, W!Cycles
  <2>3. \A a \in 0..(DAY - 1) : applied[a][k] <= At(log[a], k)
    <3>1. At(log[0], k) + 0 = At(log[0], k)
      OBVIOUS
    <3> QED
      BY <2>1, <2>2, <3>1 DEF CoveredBy
  <2>4. At(W!Nothing, k) = 0 /\ sweeps' = sweeps
    BY <1>1, AtNothing
  <2>5. CoveredBy(k, applied', log', InFlight(sweeps', k))
    <3>1. \A a \in 1..(DAY - 1) : applied'[a][k] <= At(log'[a], k)
      BY <1>3, <1>4, <1>5, <2>3
    <3>2. applied'[0][k] <= At(log'[0], k) + InFlight(sweeps', k)
      BY <1>4, <1>5, <2>2, <2>4
    <3> QED
      BY <3>1, <3>2 DEF CoveredBy
  <2>6. WithinCap(k, applied')
    <3> DEFINE w == DAY - 1
               f == [a \in 0..w |-> applied[a][k]]
               g == [a \in 0..w |-> IF a = 0 THEN 0 ELSE f[a - 1]]
    <3>1. w \in Nat /\ f \in [0..w -> Nat]
      OBVIOUS
    <3>2. [a \in 0..(DAY - 1) |-> applied'[a][k]] = g
      <4>1. \A a \in 0..w : applied'[a][k] = IF a = 0 THEN 0 ELSE f[a - 1]
        BY <1>3, <1>5
      <4> QED
        BY <4>1
    <3>3. SumOver(f) <= CAP[k] - 1 + 2 * PER_SWEEP
      BY <2>1 DEF WithinCap
    <3> HIDE DEF w, f
    <3>4. SumOver(g) = SumOver(f) - f[w]
      BY <3>1, SumShifted
    <3>5. IsFiniteSet(0..w) /\ w \in 0..w
      BY <3>1, FS_Interval
    <3>6. SumOver(f) \in Nat /\ f[w] \in Nat
      BY <3>1, <3>5, SumType
    <3> HIDE DEF g
    <3>7. SumOver(g) <= CAP[k] - 1 + 2 * PER_SWEEP
      <4>1. CAP[k] \in Nat /\ PER_SWEEP \in Nat
        OBVIOUS
      <4> QED
        BY <3>3, <3>4, <3>6, <4>1
    <3> QED
      BY <3>2, <3>7 DEF WithinCap
  <2> QED
    BY <2>5, <2>6
<1> QED
  BY <1>1, <1>6, <1>7 DEF SweepsInv

Turned(s, place, acts, outcome) ==
    [s EXCEPT !.step = place, !.done = acts, !.applied = outcome]

\* Whatever the log and the caps, a cycle's sweep is of its type when its parts are.
LEMMA SweepStateOf ==
  ASSUME NEW s \in SweepStates, NEW place \in {"idle", "asking", "acting", "ending"},
         NEW acts \in [W!Acts -> Nat], NEW outcome \in BOOLEAN
  PROVE  /\ Turned(s, place, acts, outcome) \in SweepStates
         /\ Turned(s, place, acts, outcome).step = place
         /\ Turned(s, place, acts, outcome).done = acts
         /\ Turned(s, place, acts, outcome).applied = outcome
  BY DEF SweepStates, Turned

LEMMA StillSwept ==
  ASSUME SweepsInv, sweeps' \in [W!Cycles -> SweepStates],
         applied' \in [0..(DAY - 1) -> [Kinds -> Nat]], log' \in [0..(DAY - 1) -> [W!Acts -> Nat]],
         busy' \subseteq 0..(MONTH - 1), acted' \in BOOLEAN, sweepUnlogged' \in BOOLEAN,
         sweepRested' \in 0..INTERVAL, sweepSpent' \in [manual : 0..MaxManual, trouble : 0..MaxTrouble]
  PROVE  W!TypeOK'
<1>1. \A c \in W!Cycles : /\ sweeps'[c].step \in {"idle", "asking", "acting", "ending"}
                          /\ sweeps'[c].done \in [W!Acts -> Nat]
  BY DEF SweepStates
<1> QED
  BY <1>1 DEF W!TypeOK

\* An action of a sweep, that was applied or not.
LEMMA SweepsAct ==
  ASSUME W!SweepBounds, SweepsInv, NEW c \in W!Cycles, W!Act(c)
  PROVE  SweepsInv'
<1>0. /\ sweeps \in [W!Cycles -> SweepStates] /\ sweeps[c] \in SweepStates /\ WellSwept(sweeps[c])
      /\ sweeps[c].step = "acting"
      /\ sweeps[c].done \in [W!Acts -> Nat] /\ sweeps[c].applied \in BOOLEAN
  BY DEF SweepsInv, W!Act, SweepStates
<1>1. SumOver(sweeps[c].done) < PER_SWEEP /\ SumOver(sweeps[c].done) \in Nat /\ PER_SWEEP \in Nat
  <2>1. IsFiniteSet(W!Acts)
    BY FiniteActs
  <2> QED
    BY <1>0, <2>1, SumType, TotalIsSum, SweepTypes DEF W!Act
<1>2. ASSUME NEW act \in W!Acts, NEW outcome \in BOOLEAN, W!Does(c, act, outcome),
             outcome /\ act.kind \in Kinds => ~W!Capped(act.kind)
      PROVE  SweepsInv'
  <2> DEFINE more == [sweeps[c].done EXCEPT ![act] = @ + 1]
             flag == sweeps[c].applied \/ outcome
             new == Turned(sweeps[c], "acting", more, flag)
  <2>1. /\ more \in [W!Acts -> Nat] /\ SumOver(more) = SumOver(sweeps[c].done) + 1
        /\ \A k \in Kinds : /\ At(more, k) >= At(sweeps[c].done, k)
                            /\ act.kind = k => At(more, k) = At(sweeps[c].done, k) + 1
    BY <1>0, AtMore
  <2>2. flag \in BOOLEAN
    BY <1>0
  <2>3. sweeps' = [sweeps EXCEPT ![c] = new]
    <3>1. sweeps' = [sweeps EXCEPT ![c].done[act] = @ + 1, ![c].applied = @ \/ outcome]
      BY <1>2 DEF W!Does
    <3>2. new = [sweeps[c] EXCEPT !.done = more, !.applied = flag]
      BY <1>0, <2>1, <2>2 DEF SweepStates, Turned
    <3> QED
      BY <1>0, <3>1, <3>2
  <2> HIDE DEF more, flag
  <2>4. /\ new \in SweepStates /\ new.step = "acting" /\ new.done = more /\ new.applied = flag
    <3> DEFINE s == sweeps[c]
    <3>1. s \in SweepStates /\ more \in [W!Acts -> Nat] /\ flag \in BOOLEAN
      BY <1>0, <2>1, <2>2
    <3> HIDE DEF s
    <3>2. /\ Turned(s, "acting", more, flag) \in SweepStates
          /\ Turned(s, "acting", more, flag).step = "acting"
          /\ Turned(s, "acting", more, flag).done = more
          /\ Turned(s, "acting", more, flag).applied = flag
      BY <3>1, SweepStateOf
    <3> QED
      BY <3>2 DEF s
  <2> HIDE DEF new
  <2>5. WellSwept(new)
    BY <1>1, <2>1, <2>4 DEF WellSwept
  <2>6. \A k \in Kinds : At(sweeps[c].done, k) \in Nat /\ At(more, k) \in Nat
    BY <1>0, <2>1, AtType
  <2>7. ASSUME NEW k \in Kinds
        PROVE  /\ Flight(new, k) >= Flight(sweeps[c], k)
               /\ outcome /\ act.kind = k => Flight(new, k) >= Flight(sweeps[c], k) + 1
    <3>1. Flight(new, k) = (IF ~flag THEN 0 ELSE At(more, k))
      BY <2>4 DEF Flight
    <3>2. Flight(sweeps[c], k) = IF ~sweeps[c].applied THEN 0 ELSE At(sweeps[c].done, k)
      BY <1>0 DEF Flight
    <3>3. flag = (sweeps[c].applied \/ outcome)
      BY DEF flag
    <3>4. /\ At(more, k) >= At(sweeps[c].done, k) /\ At(sweeps[c].done, k) \in Nat
          /\ At(more, k) \in Nat
          /\ act.kind = k => At(more, k) = At(sweeps[c].done, k) + 1
      BY <2>1, <2>6
    <3>5. CASE sweeps[c].applied
      <4>1. Flight(new, k) = At(more, k) /\ Flight(sweeps[c], k) = At(sweeps[c].done, k)
        BY <3>1, <3>2, <3>3, <3>5
      <4> QED
        BY <3>4, <4>1
    <3>6. CASE ~sweeps[c].applied /\ outcome
      <4>1. Flight(new, k) = At(more, k) /\ Flight(sweeps[c], k) = 0
        BY <3>1, <3>2, <3>3, <3>6
      <4> QED
        BY <3>4, <4>1
    <3>7. CASE ~sweeps[c].applied /\ ~outcome
      <4>1. Flight(new, k) = 0 /\ Flight(sweeps[c], k) = 0
        BY <3>1, <3>2, <3>3, <3>7
      <4> QED
        BY <3>7, <4>1
    <3> QED
      BY <3>5, <3>6, <3>7
  <2>8. UNCHANGED <<log, busy, acted, sweepRested, sweepUnlogged, sweepSpent>>
    BY <1>2 DEF W!Does
  <2>9. sweeps' \in [W!Cycles -> SweepStates]
    BY <1>0, <2>3, <2>4
  <2>10. CASE outcome /\ act.kind \in Kinds
    <3>1. applied' = [applied EXCEPT ![0][act.kind] = @ + 1]
      BY <1>2, <2>10 DEF W!Does
    <3>2. applied' \in [0..(DAY - 1) -> [Kinds -> Nat]]
      BY <2>10, <3>1, SweepTypes
    <3>3. W!TypeOK'
      BY <2>8, <2>9, <3>2, StillSwept, SweepTypes DEF SweepsInv, W!TypeOK
    <3>4. \A k \in Kinds : /\ Flight(new, k) >= Flight(sweeps[c], k)
                           /\ k = act.kind => Flight(new, k) >= Flight(sweeps[c], k) + 1
      BY <2>7, <2>10
    <3> DEFINE kind == act.kind
    <3>5. /\ kind \in Kinds /\ ~W!Capped(kind) /\ applied' = [applied EXCEPT ![0][kind] = @ + 1]
          /\ \A k \in Kinds : /\ Flight(new, k) >= Flight(sweeps[c], k)
                              /\ k = kind => Flight(new, k) >= Flight(sweeps[c], k) + 1
      BY <1>2, <2>10, <3>1, <3>4
    <3> HIDE DEF kind
    <3> QED
      BY <2>3, <2>4, <2>5, <2>8, <3>3, <3>5, CoverGrows
  <2>11. CASE ~(outcome /\ act.kind \in Kinds)
    <3>1. applied' = applied
      BY <1>2, <2>11 DEF W!Does
    <3>2. W!TypeOK'
      BY <2>8, <2>9, <3>1, StillSwept, SweepTypes DEF SweepsInv, W!TypeOK
    <3>3. \A k \in Kinds : Flight(new, k) >= Flight(sweeps[c], k)
      BY <2>7
    <3> QED
      BY <2>3, <2>4, <2>5, <2>8, <3>1, <3>2, <3>3, CoverStays
  <2> QED
    BY <2>10, <2>11
<1>3. CASE W!Does(c, [kind |-> "stage_s", target |-> W!Unnamed], TRUE)
  <2> DEFINE act == [kind |-> "stage_s", target |-> W!Unnamed]
  <2>1. act \in W!Acts /\ act.kind \notin Kinds
    BY DEF W!Acts, W!SweepBounds
  <2>2. W!Does(c, act, TRUE)
    BY <1>3
  <2> HIDE DEF act
  <2> QED
    BY <1>2, <2>1, <2>2
<1>4. CASE \E kind \in Kinds, target \in Targets, outcome \in BOOLEAN, act \in W!Acts :
               W!Executed(kind, target, outcome, act) /\ W!Does(c, act, outcome)
  <2>1. PICK kind \in Kinds, target \in Targets, outcome \in BOOLEAN, act \in W!Acts :
               W!Executed(kind, target, outcome, act) /\ W!Does(c, act, outcome)
    BY <1>4
  <2>2. outcome => act.kind = kind /\ ~W!Capped(kind)
    BY <2>1 DEF W!Executed
  <2> QED
    BY <1>2, <2>1, <2>2
<1> QED
  BY <1>3, <1>4 DEF W!Act

\* The no-action break, in a sweep that applied nothing.
LEMMA SweepsForce ==
  ASSUME W!SweepBounds, SweepsInv, NEW c \in W!Cycles, W!Force(c)
  PROVE  SweepsInv'
<1>0. /\ sweeps \in [W!Cycles -> SweepStates] /\ sweeps[c] \in SweepStates
      /\ sweeps[c].done \in [W!Acts -> Nat] /\ ~sweeps[c].applied
      /\ UNCHANGED <<log, busy, acted, sweepRested, sweepUnlogged, sweepSpent>>
  BY DEF SweepsInv, W!Force, SweepStates
<1> DEFINE full(outcome) == ~outcome /\ W!Capped("concern") /\ W!Capped("request")
           extra == [kind |-> "stage_s", target |-> W!Unnamed]
           added(outcome, act) == [a \in W!Acts |-> sweeps[c].done[a] + (IF a = act THEN 1 ELSE 0)
                                       + (IF full(outcome) /\ a = extra THEN 1 ELSE 0)]
<1>1. PICK outcome \in BOOLEAN, act \in W!Acts :
            /\ W!Executed("concern", W!Forced, outcome, act)
            /\ sweeps' = [sweeps EXCEPT
                   ![c].step = "ending", ![c].applied = outcome \/ full(outcome),
                   ![c].done = added(outcome, act)]
            /\ applied' = IF outcome THEN [applied EXCEPT ![0]["concern"] = @ + 1] ELSE applied
  BY Zenon DEF W!Force
<1> DEFINE more == added(outcome, act)
           flag == outcome \/ full(outcome)
           new == Turned(sweeps[c], "ending", more, flag)
<1>2. more \in [W!Acts -> Nat] /\ more[act] >= 1 /\ flag \in BOOLEAN /\ (outcome => flag)
  BY <1>0
<1>3. sweeps' = [sweeps EXCEPT ![c] = new]
  BY <1>0, <1>1 DEF Turned
<1>4. /\ outcome => ~W!Capped("concern")
      /\ \E t \in Goals : act = [kind |-> "concern", target |-> t]
      /\ "concern" \in Kinds
  BY <1>1 DEF W!Executed, Goals, W!SweepBounds
<1>5. applied' = IF outcome THEN [applied EXCEPT ![0]["concern"] = @ + 1] ELSE applied
  BY <1>1
<1> HIDE DEF full, added, more, flag
<1>6. /\ new \in SweepStates /\ new.step = "ending" /\ new.done = more /\ new.applied = flag
  <2> DEFINE s == sweeps[c]
  <2>1. s \in SweepStates
    BY <1>0
  <2> HIDE DEF s
  <2>2. /\ Turned(s, "ending", more, flag) \in SweepStates
        /\ Turned(s, "ending", more, flag).step = "ending"
        /\ Turned(s, "ending", more, flag).done = more
        /\ Turned(s, "ending", more, flag).applied = flag
    BY <1>2, <2>1, SweepStateOf
  <2> QED
    BY <2>2 DEF s
<1> HIDE DEF new
<1>7. At(more, "concern") >= 1
  <2>1. PICK t \in Goals : act = [kind |-> "concern", target |-> t]
    BY <1>4
  <2>2. more[[kind |-> "concern", target |-> t]] <= At(more, "concern") /\ At(more, "concern") \in Nat
    BY <1>2, <1>4, AtType
  <2>3. more[act] \in Nat
    BY <1>2
  <2> QED
    BY <1>2, <2>1, <2>2, <2>3
<1>8. WellSwept(new)
  BY <1>6, <1>7 DEF WellSwept
<1>9. ASSUME NEW k \in Kinds
      PROVE  /\ Flight(new, k) >= Flight(sweeps[c], k)
             /\ outcome /\ k = "concern" => Flight(new, k) >= Flight(sweeps[c], k) + 1
  <2>1. Flight(sweeps[c], k) = 0
    BY <1>0 DEF Flight
  <2>2. Flight(new, k) \in Nat
    BY <1>6, <1>8, FlightType
  <2>3. outcome /\ k = "concern" => Flight(new, k) = 1
    BY <1>2, <1>6 DEF Flight
  <2> QED
    BY <2>1, <2>2, <2>3
<1>10. sweeps' \in [W!Cycles -> SweepStates]
  BY <1>0, <1>3, <1>6
<1>11. CASE outcome
  <2>1. applied' = [applied EXCEPT ![0]["concern"] = @ + 1]
    BY <1>5, <1>11
  <2>2. applied' \in [0..(DAY - 1) -> [Kinds -> Nat]]
    BY <1>4, <2>1, SweepTypes
  <2>3. W!TypeOK'
    BY <1>0, <1>10, <2>2, StillSwept, SweepTypes DEF SweepsInv, W!TypeOK
  <2>4. \A k \in Kinds : /\ Flight(new, k) >= Flight(sweeps[c], k)
                         /\ k = "concern" => Flight(new, k) >= Flight(sweeps[c], k) + 1
    BY <1>9, <1>11
  <2> DEFINE kind == "concern"
  <2>5. /\ kind \in Kinds /\ ~W!Capped(kind) /\ applied' = [applied EXCEPT ![0][kind] = @ + 1]
        /\ \A k \in Kinds : /\ Flight(new, k) >= Flight(sweeps[c], k)
                            /\ k = kind => Flight(new, k) >= Flight(sweeps[c], k) + 1
    BY <1>4, <1>11, <2>1, <2>4
  <2> HIDE DEF kind
  <2> QED
    BY <1>0, <1>3, <1>6, <1>8, <2>3, <2>5, CoverGrows
<1>12. CASE ~outcome
  <2>1. applied' = applied
    BY <1>5, <1>12
  <2>2. W!TypeOK'
    BY <1>0, <1>10, <2>1, StillSwept, SweepTypes DEF SweepsInv, W!TypeOK
  <2>3. \A k \in Kinds : Flight(new, k) >= Flight(sweeps[c], k)
    BY <1>9
  <2> QED
    BY <1>0, <1>3, <1>6, <1>8, <2>1, <2>2, <2>3, CoverStays
<1> QED
  BY <1>11, <1>12

\* The end of a sweep: its log entry, or none.
LEMMA SweepsEnd ==
  ASSUME W!SweepBounds, SweepsInv, NEW c \in W!Cycles, W!End(c)
  PROVE  SweepsInv'
<1>0. /\ sweeps \in [W!Cycles -> SweepStates] /\ sweeps[c] \in SweepStates /\ WellSwept(sweeps[c])
      /\ sweeps[c].done \in [W!Acts -> Nat] /\ sweeps[c].applied \in BOOLEAN
      /\ sweeps[c].step \in {"acting", "ending"}
      /\ sweeps' = [sweeps EXCEPT ![c] = W!Resting] /\ acted' = sweeps[c].applied
      /\ sweepRested' = 0 /\ applied' = applied
  BY DEF SweepsInv, W!End, SweepStates
<1>1. W!Resting \in SweepStates /\ WellSwept(W!Resting)
  BY FiniteActs DEF W!Resting, SweepStates, WellSwept
<1>2. sweeps' \in [W!Cycles -> SweepStates] /\ \A d \in W!Cycles : WellSwept(sweeps'[d])
  BY <1>0, <1>1, SweepMoved
<1>3. /\ acted' \in BOOLEAN /\ sweepRested' \in 0..INTERVAL
      /\ applied' \in [0..(DAY - 1) -> [Kinds -> Nat]]
      /\ busy \subseteq 0..(MONTH - 1) /\ sweepUnlogged \in BOOLEAN
      /\ sweepSpent \in [manual : 0..MaxManual, trouble : 0..MaxTrouble]
  <2>1. INTERVAL \in Nat
    BY DEF W!SweepBounds
  <2> QED
    BY <1>0, <2>1, SweepTypes DEF SweepsInv, W!TypeOK
<1>4. CASE /\ log' = [log EXCEPT ![0] = W!Plus(@, sweeps[c].done)]
           /\ busy' = IF sweeps[c].done = W!Nothing THEN busy ELSE busy \cup {0}
           /\ UNCHANGED <<sweepUnlogged, sweepSpent>>
  <2> DEFINE bag == log[0]
             more == sweeps[c].done
  <2>1. bag \in [W!Acts -> Nat] /\ more \in [W!Acts -> Nat] /\ log' = [log EXCEPT ![0] = W!Plus(bag, more)]
    BY <1>0, <1>4, SweepTypes
  <2>2. /\ W!Plus(bag, more) \in [W!Acts -> Nat]
        /\ \A k \in Kinds : /\ At(W!Plus(bag, more), k) = At(bag, k) + At(more, k)
                            /\ At(bag, k) \in Nat /\ At(more, k) \in Nat
    <3>1. W!Plus(bag, more) \in [W!Acts -> Nat]
      BY <2>1 DEF W!Plus
    <3> HIDE DEF bag, more
    <3> QED
      BY <2>1, <3>1, AtPlus, AtType
  <2>3. /\ log' \in [0..(DAY - 1) -> [W!Acts -> Nat]] /\ log'[0] = W!Plus(bag, more)
        /\ \A a \in 1..(DAY - 1) : log'[a] = log[a]
    <3> DEFINE sum == W!Plus(bag, more)
    <3>1. log' = [log EXCEPT ![0] = sum] /\ sum \in [W!Acts -> Nat]
      BY <2>1, <2>2
    <3> HIDE DEF sum
    <3>2. /\ log' \in [0..(DAY - 1) -> [W!Acts -> Nat]] /\ log'[0] = sum
          /\ \A a \in 1..(DAY - 1) : log'[a] = log[a]
      BY <3>1, SweepTypes
    <3> QED
      BY <3>2 DEF sum
  <2>4. W!TypeOK'
    <3>1. 0 \in 0..(MONTH - 1)
      BY DEF W!SweepBounds
    <3>2. busy' \subseteq 0..(MONTH - 1) /\ sweepUnlogged' \in BOOLEAN
          /\ sweepSpent' \in [manual : 0..MaxManual, trouble : 0..MaxTrouble]
      BY <1>3, <1>4, <3>1
    <3> QED
      BY <1>2, <1>3, <2>3, <3>2, StillSwept
  <2>5. ASSUME ~sweepUnlogged, NEW k \in Kinds
        PROVE  CoveredBy(k, applied', log', InFlight(sweeps', k)) /\ WithinCap(k, applied')
    <3>1. CoveredBy(k, applied, log, InFlight(sweeps, k)) /\ WithinCap(k, applied)
      BY <2>5 DEF SweepsInv
    <3>2. Flight(W!Resting, k) = 0
      BY DEF Flight, W!Resting
    <3>3. /\ InFlight(sweeps', k) \in Nat /\ InFlight(sweeps, k) \in Nat /\ Flight(sweeps[c], k) \in Nat
          /\ InFlight(sweeps', k) = InFlight(sweeps, k) - Flight(sweeps[c], k) + Flight(W!Resting, k)
      BY <1>0, <1>1, SweepMoved
    <3>4. Flight(sweeps[c], k) <= At(more, k)
      <4>1. At(more, k) \in Nat
        BY <2>2
      <4>2. CASE sweeps[c].step = "acting"
        BY <4>1, <4>2 DEF Flight
      <4>3. CASE sweeps[c].step = "ending"
        <5>1. At(more, "concern") >= 1
          BY <1>0, <4>3 DEF WellSwept
        <5> QED
          BY <4>1, <4>3, <5>1 DEF Flight
      <4> QED
        BY <1>0, <4>2, <4>3
    <3>5. applied[0][k] \in Nat /\ At(log'[0], k) = At(bag, k) + At(more, k)
          /\ At(bag, k) \in Nat /\ At(more, k) \in Nat
      BY <2>2, <2>3, SweepTypes
    <3>6. applied[0][k] <= At(bag, k) + InFlight(sweeps, k)
      BY <3>1 DEF CoveredBy
    <3> HIDE DEF bag, more
    <3>7. applied[0][k] <= At(log'[0], k) + InFlight(sweeps', k)
      BY <3>2, <3>3, <3>4, <3>5, <3>6
    <3>8. \A a \in 1..(DAY - 1) : applied[a][k] <= At(log'[a], k)
      BY <2>3, <3>1 DEF CoveredBy
    <3> QED
      BY <1>0, <3>1, <3>7, <3>8 DEF CoveredBy
  <2> QED
    BY <1>2, <1>4, <2>4, <2>5 DEF SweepsInv
<1>5. CASE /\ sweepSpent.trouble < MaxTrouble /\ sweepSpent' = [sweepSpent EXCEPT !.trouble = @ + 1]
           /\ sweepUnlogged' = TRUE
           /\ UNCHANGED <<log, busy>>
  <2>1. sweepSpent' \in [manual : 0..MaxManual, trouble : 0..MaxTrouble]
    <3>1. MaxTrouble \in Nat
      BY DEF W!SweepBounds
    <3> QED
      BY <1>3, <1>5, <3>1
  <2>2. W!TypeOK'
    BY <1>2, <1>3, <1>5, <2>1, StillSwept, SweepTypes
  <2> QED
    BY <1>2, <1>5, <2>2 DEF SweepsInv
<1> QED
  BY <1>4, <1>5 DEF W!End

LEMMA SweepsStep ==
  ASSUME W!SweepBounds, SweepsInv, [W!Next]_sweepVars
  PROVE  SweepsInv'
<1>0. /\ sweeps \in [W!Cycles -> SweepStates] /\ \A c \in W!Cycles : WellSwept(sweeps[c])
      /\ busy \subseteq 0..(MONTH - 1) /\ acted \in BOOLEAN /\ sweepUnlogged \in BOOLEAN
      /\ sweepRested \in 0..INTERVAL
      /\ sweepSpent \in [manual : 0..MaxManual, trouble : 0..MaxTrouble]
      /\ INTERVAL \in Nat /\ MaxManual \in Nat
  BY DEF SweepsInv, W!TypeOK, W!SweepBounds
<1>a. W!Resting \in SweepStates /\ WellSwept(W!Resting)
  BY FiniteActs DEF W!Resting, SweepStates, WellSwept
<1>b. ASSUME NEW c \in W!Cycles, NEW new \in SweepStates, WellSwept(new), ~new.applied,
             ~sweeps[c].applied, sweeps' = [sweeps EXCEPT ![c] = new],
             UNCHANGED <<log, busy, applied, acted, sweepUnlogged>>, sweepRested' \in 0..INTERVAL,
             sweepSpent' \in [manual : 0..MaxManual, trouble : 0..MaxTrouble]
      PROVE  SweepsInv'
  <2>1. sweeps' \in [W!Cycles -> SweepStates]
    BY <1>0, <1>b
  <2>2. W!TypeOK'
    BY <1>0, <1>b, <2>1, StillSwept, SweepTypes
  <2>3. \A k \in Kinds : Flight(new, k) >= Flight(sweeps[c], k)
    BY <1>b DEF Flight
  <2> QED
    BY <1>b, <2>2, <2>3, CoverStays
<1>1. ASSUME NEW c \in W!Cycles, W!Begin(c)
      PROVE  SweepsInv'
  <2> DEFINE late == busy = {} \/ W!Max(busy) >= WEEK
             new == [W!Resting EXCEPT !.step = "asking", !.forced = late]
  <2>1. sweeps' = [sweeps EXCEPT ![c] = new] /\ sweeps[c] = W!Resting
    BY <1>1 DEF W!Begin
  <2>2. late \in BOOLEAN
    OBVIOUS
  <2> HIDE DEF late
  <2>3. new \in SweepStates /\ WellSwept(new) /\ ~new.applied
    BY <2>2, FiniteActs DEF SweepStates, WellSwept, W!Resting
  <2>4. ~sweeps[c].applied
    BY <2>1 DEF W!Resting
  <2>5. sweepSpent' \in [manual : 0..MaxManual, trouble : 0..MaxTrouble]
    BY <1>0, <1>1 DEF W!Begin
  <2>6. UNCHANGED <<log, busy, applied, acted, sweepRested, sweepUnlogged>>
    BY <1>1 DEF W!Begin
  <2> HIDE DEF new
  <2> QED
    BY <1>0, <1>b, <2>1, <2>3, <2>4, <2>5, <2>6
<1>2. ASSUME NEW c \in W!Cycles, W!NoAnswer(c)
      PROVE  SweepsInv'
  <2>1. /\ sweeps' = [sweeps EXCEPT ![c] = W!Resting] /\ sweeps[c].step = "asking"
        /\ sweepRested' = 0 /\ UNCHANGED <<log, busy, applied, acted, sweepUnlogged, sweepSpent>>
    BY <1>2 DEF W!NoAnswer
  <2>2. ~sweeps[c].applied
    BY <1>0, <2>1 DEF WellSwept
  <2>3. ~W!Resting.applied /\ sweepRested' \in 0..INTERVAL
    BY <1>0, <2>1 DEF W!Resting
  <2>4. sweepSpent' \in [manual : 0..MaxManual, trouble : 0..MaxTrouble]
    BY <1>0, <2>1
  <2> QED
    BY <1>a, <1>b, <2>1, <2>2, <2>3, <2>4
<1>3. ASSUME NEW c \in W!Cycles, W!Answer(c)
      PROVE  SweepsInv'
  <2> DEFINE new == [sweeps[c] EXCEPT !.step = "acting"]
  <2>1. /\ sweeps' = [sweeps EXCEPT ![c] = new] /\ sweeps[c].step = "asking"
        /\ UNCHANGED <<log, busy, applied, acted, sweepRested, sweepUnlogged, sweepSpent>>
    BY <1>0, <1>3 DEF W!Answer
  <2>2. sweeps[c] \in SweepStates /\ sweeps[c].done = W!Nothing /\ ~sweeps[c].applied
    BY <1>0, <2>1 DEF WellSwept
  <2>3. /\ new \in SweepStates /\ new.step = "acting" /\ new.done = W!Nothing /\ ~new.applied
    BY <2>2 DEF SweepStates
  <2> HIDE DEF new
  <2>4. SumOver(new.done) <= PER_SWEEP
    BY <2>3, AtNothing, SweepTypes
  <2>5. WellSwept(new)
    BY <2>3, <2>4 DEF WellSwept
  <2>6. sweepRested' \in 0..INTERVAL /\ sweepSpent' \in [manual : 0..MaxManual, trouble : 0..MaxTrouble]
    BY <1>0, <2>1
  <2> QED
    BY <1>b, <2>1, <2>2, <2>3, <2>5, <2>6
<1>4. CASE UNCHANGED sweepVars
  BY <1>4 DEF sweepVars, SweepsInv, W!TypeOK, CoveredBy, WithinCap, InFlight
<1> QED
  BY <1>1, <1>2, <1>3, <1>4, SweepsAct, SweepsForce, SweepsEnd, SweepsAge DEF W!Next, W!Sweep

-----------------------------------------------------------------------------
(* The components together: the one in focus takes a step of its own.      *)

AgentInv == IInv /\ SettingsInv /\ StagesInv /\ MemoryInv /\ SweepsInv

LEMMA AgentStart ==
  ASSUME AgentInit
  PROVE  AgentInv
  BY SelfEditBounds, AgentBounds, InitInv, SettingsInit, StagesInit, MemoryInit, SweepsInit
     DEF AgentInit, AgentInv

LEMMA AgentStep ==
  ASSUME AgentInv, [AgentNext]_agentVars
  PROVE  AgentInv'
<1>1. [Next]_vars /\ [W!Next]_sweepVars /\ [S!Next]_stageVars /\ [R!Next]_memoryVars
      /\ [O!Next]_settingVars
  BY DEF AgentNext, agentVars
<1>2. IInv'
  BY <1>1, SelfEditBounds, StepInv DEF AgentInv
<1>3. SettingsInv' /\ StagesInv'
  BY <1>1, AgentBounds, SettingsStep, StagesStep DEF AgentInv
<1>4. MemoryInv' /\ SweepsInv'
  BY <1>1, AgentBounds, MemoryStep, SweepsStep DEF AgentInv
<1> QED
  BY <1>2, <1>3, <1>4 DEF AgentInv

\* What was looked up before a call of minutes still holds where it matters when the call
\* comes back: the caps of a sweep's actions up to what two sweeps in flight do
\* (sagwan_sweep.py:can_do_action), a stage's interval while the queue works
\* (sagwan_loop.py:_periodic_stage_due), one distillation of each episode
\* (agent_memory.py:distill_memory).
THEOREM LookUpsHold == AgentSpec => []LookedUpInTime
<1>1. AgentInit => AgentInv BY AgentStart
<1>2. AgentInv /\ [AgentNext]_agentVars => AgentInv' BY AgentStep
<1>3. AgentInv => LookedUpInTime
  <2> SUFFICES ASSUME AgentInv PROVE LookedUpInTime
    OBVIOUS
  <2>1. S!RunsApart
    BY DEF AgentInv, StagesInv, StagesHeld, S!RunsApart
  <2> QED
    BY <2>1, AgentBounds, CapsHold, DistilledOnceHolds DEF AgentInv, LookedUpInTime
<1> QED BY <1>1, <1>2, <1>3, PTL DEF AgentSpec

\* What was written stays as it was written: a human's decision on a request
\* (sagwan_loop.py:_curate_system_health), the newest episodes through every trim
\* (agent_memory.py:_trim_oldest_sections), the settings a save answered
\* (sagwan_loop.py:save_sagwan_settings); and every component's state has its type.
THEOREM WritingsStay == AgentSpec => []WritingsKept
<1>1. AgentInit => AgentInv BY AgentStart
<1>2. AgentInv /\ [AgentNext]_agentVars => AgentInv' BY AgentStep
<1>3. AgentInv => WritingsKept
  <2> SUFFICES ASSUME AgentInv PROVE WritingsKept
    OBVIOUS
  <2>1. TypeOK /\ S!TypeOK /\ W!TypeOK /\ S!DecisionsKept
    BY DEF AgentInv, IInv, StagesInv, StagesTyped, SweepsInv
  <2> QED
    BY <2>1, AgentBounds, DistilledOnceHolds, SettingsSound
       DEF AgentInv, WritingsKept, AgentTypeOK
<1> QED BY <1>1, <1>2, <1>3, PTL DEF AgentSpec
=============================================================================
