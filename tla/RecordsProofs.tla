---------------------------- MODULE RecordsProofs ----------------------------
(* What the server keeps for its users, proved: the conversations with the *)
(* librarian and its tools, the accounts and their names, the targets and  *)
(* counts of reviews, the indexes and what is found with them, the graph   *)
(* and the pages, for any users, names, notes, messages and limits.        *)
EXTENDS MCRecords, SumTheorems, SequenceTheorems, TLAPS

-----------------------------------------------------------------------------
(* The loops of calls and tools.                                           *)

Ids == Nat \X Nat
ToolCalls == [id : Ids, kind : L!Kinds]
Lines == [type : {"call", "output"}, id : Ids]
Unpaired == {"completions", "ollama"}

\* The output of the call at place i stands behind it.
AnsweredAt(s, i) == \E j \in (i + 1)..Len(s) : s[j] = [type |-> "output", id |-> s[i].id]

\* Every call has its output, or is still to be run.
Underway(s, t) ==
    \A i \in DOMAIN s : s[i].type = "call" =>
        \/ AnsweredAt(s, i)
        \/ engine \in Unpaired /\ \E k \in DOMAIN t : t[k].id = s[i].id

LoopInv ==
    /\ L!TypeOK
    /\ sent \in Seq(Lines) /\ todo \in Seq(ToolCalls) /\ ran + Len(todo) <= MaxBatch
    /\ engine # "responses" => \A k \in DOMAIN todo : todo[k].kind # "orphan"
    /\ outcome # "open" \/ Underway(sent, todo)
    /\ effects \subseteq told \cup unlogged

LEMMA AnsweredStays ==
  ASSUME NEW s \in Seq(Lines), NEW t \in Seq(Lines), NEW i \in DOMAIN s
  PROVE  /\ s \o t \in Seq(Lines) /\ i \in DOMAIN (s \o t) /\ (s \o t)[i] = s[i]
         /\ AnsweredAt(s, i) => AnsweredAt(s \o t, i)
<1>1. /\ s \o t \in Seq(Lines) /\ Len(s \o t) = Len(s) + Len(t)
      /\ \A k \in 1..Len(s) : (s \o t)[k] = s[k]
      /\ Len(s) \in Nat /\ Len(t) \in Nat /\ DOMAIN s = 1..Len(s) /\ DOMAIN (s \o t) = 1..Len(s \o t)
  BY ConcatProperties, LenProperties
<1> QED
  BY <1>1 DEF AnsweredAt

LEMMA AddedLine ==
  ASSUME NEW s \in Seq(Lines), NEW x \in Lines
  PROVE  LET t == s \o <<x>>
         IN  /\ t \in Seq(Lines) /\ Len(t) = Len(s) + 1 /\ t[Len(s) + 1] = x /\ Len(s) \in Nat
             /\ DOMAIN s = 1..Len(s) /\ DOMAIN t = 1..(Len(s) + 1)
             /\ \A k \in 1..Len(s) : t[k] = s[k]
<1>1. <<x>> \in Seq(Lines) /\ Len(<<x>>) = 1 /\ <<x>>[1] = x
  OBVIOUS
<1> QED
  BY <1>1, ConcatProperties, LenProperties

\* The first call is run: the others still wait, and it has its output at the end.
LEMMA OutputAdded ==
  ASSUME NEW s \in Seq(Lines), NEW t \in Seq(ToolCalls), t # <<>>, Underway(s, t)
  PROVE  /\ s \o <<L!Output(Head(t))>> \in Seq(Lines)
         /\ Underway(s \o <<L!Output(Head(t))>>, Tail(t))
<1> DEFINE x == L!Output(Head(t))
           r == s \o <<x>>
<1>1. /\ Len(t) \in Nat /\ Len(t) >= 1 /\ DOMAIN t = 1..Len(t) /\ Head(t) = t[1] /\ t[1] \in ToolCalls
      /\ Tail(t) \in Seq(ToolCalls) /\ Len(Tail(t)) = Len(t) - 1 /\ DOMAIN Tail(t) = 1..(Len(t) - 1)
      /\ \A k \in 1..(Len(t) - 1) : Tail(t)[k] = t[k + 1]
  BY HeadTailProperties, LenProperties, EmptySeq
<1>2. x \in Lines /\ x = [type |-> "output", id |-> t[1].id]
  BY <1>1 DEF L!Output, Lines, ToolCalls
<1> HIDE DEF x
<1>3. /\ r \in Seq(Lines) /\ Len(r) = Len(s) + 1 /\ r[Len(s) + 1] = x /\ Len(s) \in Nat
      /\ DOMAIN s = 1..Len(s) /\ DOMAIN r = 1..(Len(s) + 1)
      /\ \A k \in 1..Len(s) : r[k] = s[k]
  BY <1>2, AddedLine
<1> HIDE DEF r
<1>4. ASSUME NEW i \in DOMAIN r, r[i].type = "call"
      PROVE  \/ AnsweredAt(r, i)
             \/ engine \in Unpaired /\ \E k \in DOMAIN Tail(t) : Tail(t)[k].id = r[i].id
  <2>1. i \in 1..Len(s) /\ r[i] = s[i]
    BY <1>2, <1>3, <1>4
  <2>2. CASE AnsweredAt(s, i)
    <3>1. PICK j \in (i + 1)..Len(s) : s[j] = [type |-> "output", id |-> s[i].id]
      BY <2>2 DEF AnsweredAt
    <3>2. j \in 1..Len(s) /\ j \in (i + 1)..Len(r) /\ r[j] = s[j]
      BY <1>3, <2>1
    <3> QED
      BY <2>1, <3>1, <3>2 DEF AnsweredAt
  <2>3. CASE engine \in Unpaired /\ \E k \in DOMAIN t : t[k].id = s[i].id
    <3>1. PICK k \in DOMAIN t : t[k].id = s[i].id
      BY <2>3
    <3>2. CASE k = 1
      <4>1. Len(s) + 1 \in (i + 1)..Len(r) /\ r[Len(s) + 1] = [type |-> "output", id |-> r[i].id]
        BY <1>2, <1>3, <2>1, <3>1, <3>2
      <4> QED
        BY <4>1 DEF AnsweredAt
    <3>3. CASE k # 1
      <4>1. k - 1 \in 1..(Len(t) - 1) /\ Tail(t)[k - 1] = t[k]
        BY <1>1, <3>3
      <4> QED
        BY <1>1, <2>1, <2>3, <3>1, <4>1
    <3> QED
      BY <3>2, <3>3
  <2>4. i \in DOMAIN s /\ s[i].type = "call"
    BY <1>3, <1>4, <2>1
  <2>5. \/ AnsweredAt(s, i)
        \/ engine \in Unpaired /\ \E k \in DOMAIN t : t[k].id = s[i].id
    BY <2>4 DEF Underway
  <2> QED
    BY <2>2, <2>3, <2>5
<1>5. Underway(r, Tail(t))
  BY <1>4 DEF Underway
<1> QED
  BY <1>3, <1>5 DEF r, x

\* A call and its output are added together, and no other call waits for its own.
LEMMA PairAdded ==
  ASSUME NEW s \in Seq(Lines), NEW t, NEW u, NEW c \in ToolCalls, engine \notin Unpaired,
         Underway(s, t)
  PROVE  /\ s \o <<L!Asked(c), L!Output(c)>> \in Seq(Lines)
         /\ Underway(s \o <<L!Asked(c), L!Output(c)>>, u)
<1> DEFINE p == <<L!Asked(c), L!Output(c)>>
           r == s \o p
<1>1. /\ p \in Seq(Lines) /\ Len(p) = 2 /\ p[1] = L!Asked(c) /\ p[2] = L!Output(c)
      /\ L!Output(c) = [type |-> "output", id |-> L!Asked(c).id] /\ L!Output(c).type = "output"
  BY DEF L!Asked, L!Output, Lines, ToolCalls
<1> HIDE DEF p
<1>2. /\ r \in Seq(Lines) /\ Len(r) = Len(s) + 2 /\ Len(s) \in Nat
      /\ DOMAIN s = 1..Len(s) /\ DOMAIN r = 1..(Len(s) + 2)
      /\ \A k \in 1..Len(s) : r[k] = s[k]
      /\ r[Len(s) + 1] = p[1] /\ r[Len(s) + 2] = p[2]
  <2>1. /\ r \in Seq(Lines) /\ Len(r) = Len(s) + Len(p) /\ Len(s) \in Nat
        /\ \A k \in 1..Len(r) : r[k] = IF k <= Len(s) THEN s[k] ELSE p[k - Len(s)]
        /\ DOMAIN s = 1..Len(s) /\ DOMAIN r = 1..Len(r)
    BY <1>1, ConcatProperties, LenProperties
  <2> HIDE DEF r
  <2>2. Len(s) + 1 \in 1..Len(r) /\ Len(s) + 2 \in 1..Len(r)
        /\ (Len(s) + 1) - Len(s) = 1 /\ (Len(s) + 2) - Len(s) = 2
    BY <1>1, <2>1
  <2>3. r[Len(s) + 1] = p[1] /\ r[Len(s) + 2] = p[2]
    BY <2>1, <2>2
  <2> QED
    BY <1>1, <2>1, <2>3
<1> HIDE DEF r
<1>3. ASSUME NEW i \in DOMAIN r, r[i].type = "call" PROVE AnsweredAt(r, i)
  <2>1. CASE i \in 1..Len(s)
    <3>1. AnsweredAt(s, i)
      BY <1>2, <1>3, <2>1 DEF Underway
    <3>2. PICK j \in (i + 1)..Len(s) : s[j] = [type |-> "output", id |-> s[i].id]
      BY <3>1 DEF AnsweredAt
    <3>3. j \in 1..Len(s) /\ j \in (i + 1)..Len(r) /\ r[j] = s[j] /\ r[i] = s[i]
      BY <1>2, <2>1
    <3> QED
      BY <3>2, <3>3 DEF AnsweredAt
  <2>2. CASE i = Len(s) + 1
    <3>1. Len(s) + 2 \in (i + 1)..Len(r) /\ r[Len(s) + 2] = [type |-> "output", id |-> r[i].id]
      BY <1>1, <1>2, <2>2
    <3> QED
      BY <3>1 DEF AnsweredAt
  <2>3. i # Len(s) + 2
    BY <1>1, <1>2, <1>3
  <2> QED
    BY <1>2, <2>1, <2>2, <2>3
<1>4. Underway(r, u)
  BY <1>3 DEF Underway
<1> QED
  BY <1>2, <1>4 DEF r, p

\* All calls of an answer are put into the conversation, and wait.
LEMMA CallsAdded ==
  ASSUME NEW s \in Seq(Lines), NEW t \in Seq(ToolCalls), NEW n \in Nat, DOMAIN t = 1..n,
         engine \in Unpaired, Underway(s, <<>>)
  PROVE  LET q == [i \in DOMAIN t |-> L!Asked(t[i])]
         IN  s \o q \in Seq(Lines) /\ Underway(s \o q, t)
<1> DEFINE q == [i \in DOMAIN t |-> L!Asked(t[i])]
           r == s \o q
<1>1. \A i \in DOMAIN t : t[i] \in ToolCalls
  BY ElementOfSeq, LenProperties
<1>2. q \in Seq(Lines) /\ Len(q) = n
  <2>1. q \in [1..n -> Lines]
    BY <1>1 DEF L!Asked, Lines, ToolCalls
  <2> QED
    BY <2>1
<1>3. \A i \in 1..n : q[i].id = t[i].id
  BY DEF L!Asked
<1> HIDE DEF q
<1>4. /\ r \in Seq(Lines) /\ Len(r) = Len(s) + n /\ Len(s) \in Nat
      /\ \A k \in 1..Len(r) : r[k] = IF k <= Len(s) THEN s[k] ELSE q[k - Len(s)]
      /\ DOMAIN s = 1..Len(s) /\ DOMAIN r = 1..Len(r)
  BY <1>2, ConcatProperties, LenProperties
<1> HIDE DEF r
<1>5. ASSUME NEW i \in DOMAIN r, r[i].type = "call"
      PROVE  AnsweredAt(r, i) \/ \E k \in DOMAIN t : t[k].id = r[i].id
  <2>1. CASE i <= Len(s)
    <3>1. i \in DOMAIN s /\ r[i] = s[i]
      BY <1>4, <2>1
    <3>2. AnsweredAt(s, i)
      BY <1>5, <3>1 DEF Underway
    <3>3. PICK j \in (i + 1)..Len(s) : s[j] = [type |-> "output", id |-> s[i].id]
      BY <3>2 DEF AnsweredAt
    <3>4. j \in (i + 1)..Len(r) /\ r[j] = s[j]
      BY <1>4, <3>1
    <3> QED
      BY <3>1, <3>3, <3>4 DEF AnsweredAt
  <2>2. CASE ~(i <= Len(s))
    <3>1. i - Len(s) \in 1..n /\ r[i] = q[i - Len(s)]
      BY <1>4, <2>2
    <3> QED
      BY <1>3, <3>1
  <2> QED
    BY <2>1, <2>2
<1>6. Underway(r, t)
  BY <1>5 DEF Underway
<1> QED
  BY <1>4, <1>6 DEF r, q

LEMMA LoopStart == ASSUME RecordsBounds, L!Init PROVE LoopInv
<1>1. /\ ROUNDS[engine] \in Nat /\ MaxBatch \in Nat
      /\ sent = <<>> /\ todo = <<>> /\ sent \in Seq(Lines) /\ todo \in Seq(ToolCalls)
      /\ Len(todo) = 0 /\ DOMAIN sent = {} /\ DOMAIN todo = {}
  BY DEF L!Init, RecordsBounds, L!LoopBounds
<1> QED
  BY <1>1 DEF LoopInv, L!TypeOK, Underway, L!Init

LEMMA LinesTyped ==
  ASSUME NEW s \in Seq(Lines)
  PROVE  \A i \in DOMAIN s : s[i].type \in {"call", "output"}
<1>1. \A i \in DOMAIN s : s[i] \in Lines
  BY ElementOfSeq, LenProperties
<1> QED
  BY <1>1 DEF Lines

\* A loop that ends between rounds changes nothing but its outcome.
LEMMA LoopEnds ==
  ASSUME RecordsBounds, LoopInv, UNCHANGED <<engine, round, sent, effects, told, unlogged>>,
         outcome' \in {"answer", "error", "raised"},
         \/ todo' = todo /\ ran' = ran
         \/ todo' = <<>> /\ ran' = 0
  PROVE  LoopInv'
<1>1. todo' \in Seq(ToolCalls) /\ ran' + Len(todo') <= MaxBatch /\ ran' \in 0..MaxBatch
  <2>1. /\ MaxBatch \in Nat /\ ran \in 0..MaxBatch /\ ran + Len(todo) <= MaxBatch
        /\ Len(<<>>) = 0 /\ <<>> \in Seq(ToolCalls) /\ todo \in Seq(ToolCalls)
    BY DEF LoopInv, L!TypeOK, RecordsBounds, L!LoopBounds
  <2>2. CASE todo' = todo /\ ran' = ran
    BY <2>1, <2>2
  <2>3. CASE todo' = <<>> /\ ran' = 0
    <3>1. Len(todo') = 0 /\ todo' \in Seq(ToolCalls) /\ ran' = 0
      BY <2>1, <2>3
    <3> QED
      BY <2>1, <3>1
  <2> QED
    BY <2>2, <2>3
<1>2. engine # "responses" => \A k \in DOMAIN todo' : todo'[k].kind # "orphan"
  BY DEF LoopInv
<1>3. outcome' # "open"
  OBVIOUS
<1> QED
  BY <1>1, <1>2, <1>3 DEF LoopInv, L!TypeOK

LEMMA LoopAsks == ASSUME RecordsBounds, LoopInv, L!AskForTools PROVE LoopInv'
<1>1. PICK batch \in L!Batches \ {<<>>} :
        LET calls == [i \in DOMAIN batch |-> L!Call(i, batch[i])]
        IN  /\ todo' = calls
            /\ sent' = IF engine \in Unpaired
                       THEN sent \o [i \in DOMAIN calls |-> L!Asked(calls[i])] ELSE sent
  BY DEF L!AskForTools, Unpaired
<1> DEFINE calls == [i \in DOMAIN batch |-> L!Call(i, batch[i])]
<1>2. /\ ROUNDS[engine] \in Nat /\ MaxBatch \in Nat \ {0} /\ round \in Nat /\ ran = 0
      /\ engine \in Engines
      /\ round < ROUNDS[engine] /\ round' = round + 1 /\ outcome = "open" /\ todo = <<>>
      /\ UNCHANGED <<engine, ran, effects, told, unlogged, outcome>>
  <2>1. /\ ROUNDS \in [Engines -> Nat \ {0}] /\ MaxBatch \in Nat \ {0}
    BY DEF RecordsBounds, L!LoopBounds
  <2>2. engine \in Engines /\ round \in 0..ROUNDS[engine]
    BY DEF LoopInv, L!TypeOK
  <2>3. ROUNDS[engine] \in Nat /\ round \in Nat
    BY <2>1, <2>2
  <2>4. /\ round < ROUNDS[engine] /\ round' = round + 1
        /\ outcome = "open" /\ todo = <<>> /\ ran = 0
        /\ UNCHANGED <<engine, ran, effects, told, unlogged, outcome>>
    BY DEF L!AskForTools, L!AtModel
  <2> QED
    BY <2>1, <2>2, <2>3, <2>4
<1>3. PICK n \in 0..MaxBatch :
        batch \in [1..n -> IF engine = "responses" THEN L!Kinds ELSE L!Kinds \ {"orphan"}]
  BY <1>2 DEF L!Batches
<1>4. /\ calls \in [1..n -> ToolCalls] /\ DOMAIN calls = 1..n /\ n \in Nat
      /\ engine # "responses" => \A k \in DOMAIN calls : calls[k].kind # "orphan"
  BY <1>2, <1>3 DEF L!Call, ToolCalls, Ids
<1>5. calls = todo' /\ (sent' = IF engine \in Unpaired
                       THEN sent \o [i \in DOMAIN calls |-> L!Asked(calls[i])] ELSE sent)
  BY <1>1
<1> HIDE DEF calls
<1>6. calls \in Seq(ToolCalls) /\ Len(calls) = n
  BY <1>4
<1>7. Underway(sent, <<>>) /\ sent \in Seq(Lines)
  BY <1>2 DEF LoopInv
<1>8. sent' \in Seq(Lines) /\ Underway(sent', todo')
  <2>1. CASE engine \in Unpaired
    BY <1>4, <1>5, <1>6, <1>7, <2>1, CallsAdded
  <2>2. CASE engine \notin Unpaired
    BY <1>5, <1>7, <2>2 DEF Underway
  <2> QED
    BY <2>1, <2>2
<1>9. \A i \in DOMAIN sent' : sent'[i].type \in {"call", "output"}
  BY <1>8, LinesTyped
<1>10. Underway(sent, todo)'
  BY <1>2, <1>8 DEF Underway
<1>11. round' \in 0..ROUNDS[engine'] /\ ran' + Len(todo') <= MaxBatch
  BY <1>2, <1>3, <1>5, <1>6
<1> QED
  BY <1>2, <1>4, <1>5, <1>6, <1>8, <1>9, <1>10, <1>11 DEF LoopInv, L!TypeOK

\* What is left of the answer once its first call is dealt with.
LEMMA LoopRest ==
  ASSUME LoopInv, todo # <<>>
  PROVE  /\ Head(todo) \in ToolCalls /\ Tail(todo) \in Seq(ToolCalls)
         /\ Len(todo) \in Nat \ {0} /\ Len(Tail(todo)) = Len(todo) - 1
         /\ engine # "responses" =>
              /\ Head(todo).kind # "orphan"
              /\ \A k \in DOMAIN Tail(todo) : Tail(todo)[k].kind # "orphan"
         /\ Len(todo) = 1 => Tail(todo) = <<>>
<1>1. /\ todo \in Seq(ToolCalls) /\ todo # <<>>
      /\ engine # "responses" => \A k \in DOMAIN todo : todo[k].kind # "orphan"
  BY DEF LoopInv
<1>2. /\ Len(todo) \in Nat /\ Len(todo) >= 1 /\ DOMAIN todo = 1..Len(todo)
      /\ Head(todo) = todo[1] /\ todo[1] \in ToolCalls
      /\ Tail(todo) \in Seq(ToolCalls) /\ Len(Tail(todo)) = Len(todo) - 1
      /\ DOMAIN Tail(todo) = 1..(Len(todo) - 1)
      /\ \A k \in 1..(Len(todo) - 1) : Tail(todo)[k] = todo[k + 1]
  BY <1>1, HeadTailProperties, LenProperties, EmptySeq
<1>3. Len(todo) = 1 => Tail(todo) = <<>>
  BY <1>2, EmptySeq
<1>4. \A k \in 1..(Len(todo) - 1) : k + 1 \in DOMAIN todo
  BY <1>2
<1> QED
  BY <1>1, <1>2, <1>3, <1>4

LEMMA LoopSkips == ASSUME RecordsBounds, LoopInv, L!Skip PROVE LoopInv'
<1>1. /\ todo # <<>> /\ Head(todo).kind = "orphan" /\ todo' = Tail(todo)
      /\ sent' = sent \o <<>>
      /\ ran' = IF Len(todo) = 1 /\ ran = 0 THEN 0 ELSE ran
      /\ outcome' \in {outcome, "answer"}
      /\ UNCHANGED <<engine, round, effects, told, unlogged>>
  BY DEF L!Skip, L!Exchange, L!Ends
<1>2. /\ sent \in Seq(Lines) /\ ran \in 0..MaxBatch /\ ran + Len(todo) <= MaxBatch
      /\ MaxBatch \in Nat
  BY DEF LoopInv, L!TypeOK, RecordsBounds, L!LoopBounds
<1>3. sent' = sent
  BY <1>1, <1>2
<1>4. engine = "responses"
  BY <1>1, LoopRest
<1>5. /\ todo' \in Seq(ToolCalls) /\ ran' = ran /\ ran' + Len(todo') <= MaxBatch
  BY <1>1, <1>2, LoopRest
<1>6. outcome' # "open" => outcome' \in {"answer", "error", "raised"}
  BY <1>1 DEF LoopInv, L!TypeOK
<1>7. outcome' # "open" \/ Underway(sent, todo)'
  <2>1. CASE outcome' = "open"
    <3>1. Underway(sent, todo)
      BY <1>1, <2>1 DEF LoopInv
    <3> QED
      BY <1>1, <1>3, <1>4, <3>1 DEF Underway, Unpaired
  <2> QED
    BY <2>1
<1> QED
  BY <1>1, <1>3, <1>4, <1>5, <1>6, <1>7 DEF LoopInv, L!TypeOK

LEMMA LoopRuns == ASSUME RecordsBounds, LoopInv, L!Run PROVE LoopInv'
<1> DEFINE c == Head(todo)
<1>1. /\ outcome = "open" /\ todo # <<>> /\ c.kind # "orphan" /\ ~L!Stops(c)
      /\ todo' = Tail(todo) /\ ran' = ran + 1 /\ UNCHANGED <<engine, round, outcome>>
      /\ sent' = sent \o (IF engine \in {"responses", "cli"} THEN <<L!Asked(c), L!Output(c)>>
                          ELSE <<L!Output(c)>>)
  BY DEF L!Run, L!Exchange
<1>2. PICK effect \in BOOLEAN, logged \in BOOLEAN :
        /\ effects' = IF effect THEN effects \cup {c.id} ELSE effects
        /\ told' = IF logged /\ L!Tells(c) THEN told \cup {c.id} ELSE told
        /\ unlogged' = IF logged THEN unlogged ELSE unlogged \cup {c.id}
  BY DEF L!Run, L!HasEffect, L!IsLogged
<1>3. effects' \subseteq told' \cup unlogged'
  BY <1>1, <1>2 DEF LoopInv, L!Tells
<1>4. /\ sent \in Seq(Lines) /\ todo \in Seq(ToolCalls) /\ Underway(sent, todo)
      /\ ran \in 0..MaxBatch /\ ran + Len(todo) <= MaxBatch /\ MaxBatch \in Nat
  BY <1>1 DEF LoopInv, L!TypeOK, RecordsBounds, L!LoopBounds
<1>5. c \in ToolCalls /\ todo' \in Seq(ToolCalls) /\ Len(todo) \in Nat \ {0}
      /\ Len(todo') = Len(todo) - 1
  BY <1>1, LoopRest
<1>6. ran' \in 0..MaxBatch /\ ran' + Len(todo') <= MaxBatch
  BY <1>1, <1>4, <1>5
<1> HIDE DEF c
<1>7. sent' \in Seq(Lines) /\ Underway(sent', todo')
  <2>1. CASE engine \in {"responses", "cli"}
    <3>1. engine \notin Unpaired /\ sent' = sent \o <<L!Asked(c), L!Output(c)>>
      BY <1>1, <2>1 DEF Unpaired
    <3> QED
      BY <1>4, <1>5, <3>1, PairAdded
  <2>2. CASE engine \notin {"responses", "cli"}
    <3>1. sent' = sent \o <<L!Output(Head(todo))>> /\ todo' = Tail(todo)
      BY <1>1, <2>2 DEF c
    <3> QED
      BY <1>1, <1>4, <3>1, OutputAdded
  <2> QED
    BY <2>1, <2>2
<1>8. Underway(sent, todo)'
  BY <1>1, <1>7 DEF Underway
<1>9. \A i \in DOMAIN sent' : sent'[i].type \in {"call", "output"}
  BY <1>7, LinesTyped
<1>10. engine' # "responses" => \A k \in DOMAIN todo' : todo'[k].kind # "orphan"
  BY <1>1, LoopRest
<1> QED
  BY <1>1, <1>3, <1>5, <1>6, <1>7, <1>8, <1>9, <1>10 DEF LoopInv, L!TypeOK

LEMMA LoopStep ==
  ASSUME RecordsBounds, LoopInv, L!Next \/ UNCHANGED loopVars
  PROVE  LoopInv'
<1>1. CASE L!CallFails
  BY <1>1, LoopEnds DEF L!CallFails, L!Ends
<1>2. CASE L!Answer
  BY <1>2, LoopEnds DEF L!Answer, L!Ends
<1>3. CASE L!BreaksOff
  BY <1>3, LoopEnds DEF L!BreaksOff, L!Ends
<1>4. CASE L!AskForTools
  BY <1>4, LoopAsks
<1>5. CASE L!Skip
  BY <1>5, LoopSkips
<1>6. CASE L!Stop
  BY <1>6, LoopEnds DEF L!Stop, L!Ends
<1>7. CASE L!Run
  BY <1>7, LoopRuns
<1>8. CASE L!NextRound
  <2>1. /\ ran \in 0..MaxBatch /\ todo \in Seq(ToolCalls) /\ Len(todo) \in Nat
        /\ ran + Len(todo) <= MaxBatch /\ MaxBatch \in Nat
    BY LenProperties DEF LoopInv, L!TypeOK, RecordsBounds, L!LoopBounds
  <2>2. /\ ran' = 0 /\ UNCHANGED <<engine, round, sent, todo, effects, told, unlogged, outcome>>
    BY <1>8 DEF L!NextRound
  <2>3. ran' \in 0..MaxBatch /\ ran' + Len(todo') <= MaxBatch
    BY <2>1, <2>2
  <2> QED
    BY <2>2, <2>3 DEF LoopInv, L!TypeOK, Underway
<1>9. CASE L!GiveUp
  BY <1>9, LoopEnds DEF L!GiveUp, L!Ends
<1>10. CASE UNCHANGED loopVars
  BY <1>10 DEF loopVars, LoopInv, L!TypeOK, Underway
<1> QED
  BY <1>1, <1>2, <1>3, <1>4, <1>5, <1>6, <1>7, <1>8, <1>9, <1>10 DEF L!Next

LEMMA LoopHolds == ASSUME LoopInv PROVE L!TypeOK /\ L!CallsAnswered /\ L!EffectsTold
<1>1. ASSUME L!AtModel, NEW i \in DOMAIN sent, sent[i].type = "call"
      PROVE  \E j \in (i + 1)..Len(sent) : sent[j] = [type |-> "output", id |-> sent[i].id]
  <2>1. Underway(sent, todo) /\ DOMAIN todo = {}
    BY <1>1 DEF LoopInv, L!AtModel
  <2> QED
    BY <1>1, <2>1 DEF Underway, AnsweredAt
<1> QED
  BY <1>1 DEF LoopInv, L!CallsAnswered, L!EffectsTold

-----------------------------------------------------------------------------
(* The conversations with sagwan.                                          *)

Participants == {C!Nobody, C!Anyone} \cup {Caller[m] : m \in Turns}
SaidBy == Turns \X {"user", "sagwan"}
ChatNotes == [participant : Participants, said : Seq(SaidBy), count : Nat]

Holding(m) == turn[m] \in {"asking", "replying"}

\* The question of m is the last that was said; question and answer stand side by side.
LastIs(m, s) == Len(s.said) > 0 /\ s.said[Len(s.said)] = C!Message(m, "user")
Answered(m, s) ==
    \E i \in 1..(Len(s.said) - 1) :
        s.said[i] = C!Message(m, "user") /\ s.said[i + 1] = C!Message(m, "sagwan")

\* What an undisturbed turn can rely on, until it is done and after.
Alone(m) ==
    /\ m \in C!UnderWay => C!UnderWay = {m}
    /\ Holding(m) => copy[m] = session
    /\ turn[m] \in {"model", "reply", "replying"} => LastIs(m, session)
    /\ turn[m] = "done" =>
         Answered(m, session) /\ \A u \in Turns : Holding(u) => Answered(m, copy[u])

\* What stands in s was said by its participant, but for the turns that could not know it.
Apart(s, unaware) ==
    \A i \in DOMAIN s.said :
        s.said[i][1] \in unaware \/ Caller[s.said[i][1]] \in {s.participant, Admin}

Filled(s) == s.participant = C!Nobody => s = C!Absent

\* What a turn under way still knows of the session that it checked.
Aware(m) ==
    /\ Caller[m] = Admin \/ session.participant \in {C!Nobody, Caller[m]}
    /\ Holding(m) => copy[m].participant = session.participant
    /\ turn[m] \in {"model", "reply"} => session # C!Absent
    /\ turn[m] = "replying" => copy[m] # C!Absent

ChatTyped == C!TypeOK /\ session \in ChatNotes /\ copy \in [Turns -> ChatNotes]

ChatInv ==
    /\ ChatTyped
    /\ Filled(session) /\ \A u \in Turns : Filled(copy[u])
    /\ Apart(session, shared) /\ \A u \in Turns : Holding(u) => Apart(copy[u], shared)
    /\ \A m \in C!UnderWay : m \in shared \/ Aware(m)
    /\ \A m \in Turns : m \in disturbed \/ Alone(m)

LEMMA Appending ==
  ASSUME NEW s \in ChatNotes, NEW x \in SaidBy, NEW t, t = C!Appended(s, x)
  PROVE  /\ t \in ChatNotes /\ t.participant = s.participant /\ Len(s.said) \in Nat
         /\ Len(t.said) = Len(s.said) + 1 /\ t.said[Len(s.said) + 1] = x
         /\ DOMAIN s.said = 1..Len(s.said) /\ DOMAIN t.said = 1..(Len(s.said) + 1)
         /\ \A k \in 1..Len(s.said) : t.said[k] = s.said[k]
<1>1. s.said \in Seq(SaidBy) /\ s.count \in Nat /\ s.participant \in Participants
  BY DEF ChatNotes
<1>2. /\ Append(s.said, x) \in Seq(SaidBy) /\ Len(Append(s.said, x)) = Len(s.said) + 1
      /\ Append(s.said, x)[Len(s.said) + 1] = x /\ Len(s.said) \in Nat
      /\ \A k \in 1..Len(s.said) : Append(s.said, x)[k] = s.said[k]
      /\ DOMAIN s.said = 1..Len(s.said) /\ DOMAIN Append(s.said, x) = 1..(Len(s.said) + 1)
  BY <1>1, AppendProperties, LenProperties
<1>3. t.said = Append(s.said, x) /\ t.participant = s.participant /\ t \in ChatNotes
  <2> DEFINE y == Append(s.said, x)
             k == s.count + 1
  <2>1. t = [s EXCEPT !.said = y, !.count = k] /\ y \in Seq(SaidBy) /\ k \in Nat
    BY <1>1, <1>2 DEF C!Appended
  <2> HIDE DEF y, k
  <2>2. t.said = y /\ t.participant = s.participant /\ t \in ChatNotes
    BY <2>1 DEF ChatNotes
  <2> QED
    BY <2>2 DEF y
<1> QED
  BY <1>2, <1>3

LEMMA Beginning ==
  ASSUME NEW x \in SaidBy, NEW p \in Participants, NEW t, t = C!Begun(x, p)
  PROVE  /\ t \in ChatNotes /\ t.participant = p /\ Len(t.said) = 1 /\ t.said[1] = x
         /\ DOMAIN t.said = {1}
<1>1. /\ <<x>> \in Seq(SaidBy) /\ Len(<<x>>) = 1 /\ <<x>>[1] = x /\ DOMAIN <<x>> = {1}
  OBVIOUS
<1>2. t = [participant |-> p, said |-> <<x>>, count |-> 1]
  BY DEF C!Begun
<1> QED
  BY <1>1, <1>2 DEF ChatNotes

LEMMA AbsentNote ==
  /\ C!Absent \in ChatNotes /\ C!Absent.participant = C!Nobody
  /\ Len(C!Absent.said) = 0 /\ DOMAIN C!Absent.said = {}
  /\ \A m : ~Answered(m, C!Absent) /\ ~LastIs(m, C!Absent)
<1>1. <<>> \in Seq(SaidBy) /\ Len(<<>>) = 0 /\ DOMAIN <<>> = {}
  BY EmptySeq
<1>2. C!Absent.said = <<>> /\ C!Absent.participant = C!Nobody /\ C!Absent.count = 0
      /\ C!Absent = [participant |-> C!Nobody, said |-> <<>>, count |-> 0]
  BY DEF C!Absent
<1>3. C!Absent \in ChatNotes
  BY <1>1, <1>2 DEF ChatNotes, Participants
<1>4. Len(C!Absent.said) = 0 /\ DOMAIN C!Absent.said = {} /\ 1..(0 - 1) = {}
  BY <1>1, <1>2
<1> QED
  BY <1>2, <1>3, <1>4 DEF Answered, LastIs

\* What an appended message does to what stood in the session.
LEMMA AppendedKeeps ==
  ASSUME NEW s \in ChatNotes, NEW x \in SaidBy, NEW t, t = C!Appended(s, x)
  PROVE  /\ \A m : Answered(m, s) => Answered(m, t)
         /\ \A m : x = C!Message(m, "user") => LastIs(m, t)
         /\ \A m : x = C!Message(m, "sagwan") /\ LastIs(m, s) => Answered(m, t)
         /\ t # C!Absent
<1>1. /\ t \in ChatNotes /\ t.participant = s.participant /\ Len(s.said) \in Nat
      /\ Len(t.said) = Len(s.said) + 1 /\ t.said[Len(s.said) + 1] = x
      /\ \A k \in 1..Len(s.said) : t.said[k] = s.said[k]
  BY Appending
<1>2. ASSUME NEW m, Answered(m, s) PROVE Answered(m, t)
  <2>1. PICK i \in 1..(Len(s.said) - 1) :
          s.said[i] = C!Message(m, "user") /\ s.said[i + 1] = C!Message(m, "sagwan")
    BY <1>2 DEF Answered
  <2>2. /\ i \in 1..(Len(t.said) - 1) /\ i \in 1..Len(s.said) /\ i + 1 \in 1..Len(s.said)
    BY <1>1, <2>1
  <2> QED
    BY <1>1, <2>1, <2>2 DEF Answered
<1>3. ASSUME NEW m, x = C!Message(m, "user") PROVE LastIs(m, t)
  BY <1>1, <1>3 DEF LastIs
<1>4. ASSUME NEW m, x = C!Message(m, "sagwan"), LastIs(m, s) PROVE Answered(m, t)
  <2>1. Len(s.said) \in 1..(Len(t.said) - 1) /\ Len(s.said) \in 1..Len(s.said)
        /\ s.said[Len(s.said)] = C!Message(m, "user")
    BY <1>1, <1>4 DEF LastIs
  <2> QED
    BY <1>1, <1>4, <2>1 DEF Answered
<1>5. t # C!Absent
  BY <1>1, AbsentNote
<1> QED
  BY <1>2, <1>3, <1>4, <1>5

LEMMA AppendedApart ==
  ASSUME NEW s \in ChatNotes, NEW x \in SaidBy, NEW t, t = C!Appended(s, x),
         NEW U, Apart(s, U), x[1] \in U \/ Caller[x[1]] \in {s.participant, Admin}
  PROVE  Apart(t, U)
<1>1. /\ t.participant = s.participant /\ Len(s.said) \in Nat /\ t.said[Len(s.said) + 1] = x
      /\ DOMAIN s.said = 1..Len(s.said) /\ DOMAIN t.said = 1..(Len(s.said) + 1)
      /\ \A k \in 1..Len(s.said) : t.said[k] = s.said[k]
  BY Appending
<1>2. ASSUME NEW i \in DOMAIN t.said
      PROVE  t.said[i][1] \in U \/ Caller[t.said[i][1]] \in {t.participant, Admin}
  <2>1. CASE i = Len(s.said) + 1
    BY <1>1, <2>1
  <2>2. CASE i \in 1..Len(s.said)
    BY <1>1, <2>2 DEF Apart
  <2> QED
    BY <1>1, <2>1, <2>2
<1> QED
  BY <1>2 DEF Apart

LEMMA ApartWidens ==
  ASSUME NEW s, NEW U, NEW W, Apart(s, U), U \subseteq W
  PROVE  Apart(s, W)
BY DEF Apart

LEMMA ChatStart == ASSUME RecordsBounds, C!Init PROVE ChatInv
<1>1. /\ C!UnderWay = {} /\ session = C!Absent /\ shared = {} /\ disturbed = {}
      /\ \A u \in Turns : turn[u] = "idle" /\ copy[u] = C!Absent
  BY DEF C!Init, C!UnderWay
<1>2. ChatTyped
  <2>1. session.participant \in {C!Nobody, C!Anyone} \cup {Caller[m] : m \in Turns}
        /\ session.said \in Seq(SaidBy) /\ session.count \in Nat
    BY <1>1, AbsentNote DEF ChatNotes, Participants
  <2>2. /\ turn \in [Turns -> {"idle", "refused", "question", "asking", "model", "reply",
                               "replying", "done"}]
        /\ copy \in [Turns -> ChatNotes]
    BY AbsentNote DEF C!Init
  <2>3. chatSpent \in 0..MaxTrouble
    BY DEF C!Init, RecordsBounds, C!SessionBounds
  <2> QED
    BY <1>1, <2>1, <2>2, <2>3, AbsentNote DEF ChatTyped, C!TypeOK, SaidBy
<1>3. Apart(session, shared)
  BY <1>1, AbsentNote DEF Apart
<1>4. \A m \in Turns : ~Holding(m) /\ Alone(m)
  BY <1>1 DEF Holding, Alone
<1> QED
  BY <1>1, <1>2, <1>3, <1>4 DEF ChatInv, Filled

Places == {"idle", "refused", "question", "asking", "model", "reply", "replying", "done"}

\* A step that leaves the session as it is.
LEMMA ChatReceives == ASSUME ChatInv, NEW m \in Turns, C!Receive(m) PROVE ChatInv'
<1>1. PICK p \in {"question", "refused"} :
        turn' = [turn EXCEPT ![m] = p] /\ (p = "question" => C!Allowed(Caller[m]))
  BY DEF C!Receive, C!Goto
<1>2. /\ turn[m] = "idle" /\ UNCHANGED <<session, copy, shared, chatSpent>>
      /\ disturbed' = disturbed \cup IF C!UnderWay = {} THEN {} ELSE C!UnderWay \cup {m}
  BY DEF C!Receive
<1>3. /\ turn \in [Turns -> Places] /\ turn'[m] = p
      /\ \A u \in Turns : u # m => turn'[u] = turn[u]
  BY <1>1 DEF ChatInv, ChatTyped, C!TypeOK, Places
<1>4. ChatTyped'
  <2>1. turn' \in [Turns -> Places] /\ disturbed' \subseteq Turns
    BY <1>1, <1>2, <1>3 DEF Places, C!UnderWay, ChatInv, ChatTyped, C!TypeOK
  <2> QED
    BY <1>2, <2>1 DEF ChatInv, ChatTyped, C!TypeOK, Places
<1>5. \A u \in Turns : Holding(u)' => Holding(u)
  BY <1>3 DEF Holding
<1>6. ASSUME NEW u \in C!UnderWay' PROVE u \in shared' \/ Aware(u)'
  <2>1. CASE u = m
    <3>1. p = "question" /\ C!Allowed(Caller[m])
      BY <1>1, <1>3, <1>6, <2>1 DEF C!UnderWay
    <3> QED
      BY <1>2, <1>3, <2>1, <3>1 DEF C!Allowed, Aware, Holding
  <2>2. CASE u # m
    <3>1. u \in C!UnderWay /\ u \in Turns /\ turn'[u] = turn[u]
      BY <1>3, <1>6, <2>2 DEF C!UnderWay
    <3>2. u \in shared \/ Aware(u)
      BY <3>1 DEF ChatInv
    <3> QED
      BY <1>2, <3>1, <3>2 DEF Aware, Holding
  <2> QED
    BY <2>1, <2>2
<1>7. ASSUME NEW u \in Turns, u \notin disturbed' PROVE Alone(u)'
  <2>1. u \notin disturbed /\ Alone(u)
    BY <1>2, <1>7 DEF ChatInv
  <2>2. CASE u = m
    <3>1. C!UnderWay = {}
      BY <1>2, <1>7, <2>2
    <3>2. C!UnderWay' \subseteq {m}
      BY <1>3, <3>1 DEF C!UnderWay
    <3> QED
      BY <1>3, <2>2, <3>2 DEF Alone, Holding
  <2>3. CASE u # m
    <3>1. u \notin C!UnderWay /\ u \notin C!UnderWay' /\ turn'[u] = turn[u]
      BY <1>2, <1>3, <1>7, <2>3 DEF C!UnderWay
    <3>2. turn[u] \in {"idle", "refused", "done"}
      BY <3>1 DEF C!UnderWay
    <3> QED
      BY <1>2, <1>5, <2>1, <3>1, <3>2 DEF Alone, Holding
  <2> QED
    BY <2>2, <2>3
<1> QED
  BY <1>2, <1>4, <1>5, <1>6, <1>7 DEF ChatInv

LEMMA ChatLoads ==
  ASSUME ChatInv, NEW m \in Turns,
         C!Load(m, "question", "asking") \/ C!Load(m, "reply", "replying")
  PROVE  ChatInv'
<1>1. PICK p \in {"asking", "replying"} :
        /\ turn' = [turn EXCEPT ![m] = p] /\ turn[m] \in {"question", "reply"}
        /\ p = "replying" => turn[m] = "reply"
        /\ copy' = [copy EXCEPT ![m] = session]
        /\ UNCHANGED <<session, disturbed, shared, chatSpent>>
  BY DEF C!Load, C!Goto
<1>2. /\ turn \in [Turns -> Places] /\ turn'[m] = p /\ m \in C!UnderWay
      /\ session \in ChatNotes /\ copy \in [Turns -> ChatNotes] /\ copy'[m] = session
      /\ \A u \in Turns : u # m => turn'[u] = turn[u] /\ copy'[u] = copy[u]
      /\ C!UnderWay' = C!UnderWay
  BY <1>1 DEF ChatInv, ChatTyped, C!TypeOK, Places, C!UnderWay
<1>3. ChatTyped'
  <2>1. turn' \in [Turns -> Places] /\ copy' \in [Turns -> ChatNotes]
    BY <1>1, <1>2 DEF Places
  <2> QED
    BY <1>1, <2>1 DEF ChatInv, ChatTyped, C!TypeOK, Places
<1>4. \A u \in Turns : Filled(copy[u])'
  BY <1>1, <1>2 DEF ChatInv, Filled
<1>5. ASSUME NEW u \in Turns, Holding(u)' PROVE Apart(copy[u], shared)'
  BY <1>1, <1>2, <1>5 DEF ChatInv, Holding, Apart
<1>6. ASSUME NEW u \in C!UnderWay' PROVE u \in shared' \/ Aware(u)'
  <2>1. u \in Turns /\ (u \in shared \/ Aware(u))
    BY <1>2, <1>6 DEF ChatInv, C!UnderWay
  <2> QED
    BY <1>1, <1>2, <2>1 DEF Aware, Holding
<1>7. ASSUME NEW u \in Turns, u \notin disturbed' PROVE Alone(u)'
  <2>1. Alone(u)
    BY <1>1, <1>7 DEF ChatInv
  <2>2. u \in C!UnderWay' => C!UnderWay' = {u}
    BY <1>2, <2>1 DEF Alone
  <2>3. Holding(u)' => copy'[u] = session'
    BY <1>1, <1>2, <2>1 DEF Alone, Holding
  <2>4. turn'[u] \in {"model", "reply", "replying"} => LastIs(u, session)'
    BY <1>1, <1>2, <2>1 DEF Alone, LastIs
  <2>5. ASSUME turn'[u] = "done" 
        PROVE  Answered(u, session)' /\ \A v \in Turns : Holding(v)' => Answered(u, copy[v])'
    <3>1. turn[u] = "done"
      BY <1>1, <1>2, <2>5
    <3>2. Answered(u, session) /\ \A v \in Turns : Holding(v) => Answered(u, copy[v])
      BY <2>1, <3>1 DEF Alone
    <3>3. \A v \in Turns : Holding(v)' => copy'[v] = session \/ (copy'[v] = copy[v] /\ Holding(v))
      BY <1>2 DEF Holding
    <3> QED
      BY <1>1, <3>2, <3>3 DEF Answered
  <2> QED
    BY <2>2, <2>3, <2>4, <2>5 DEF Alone
<1> QED
  BY <1>1, <1>3, <1>4, <1>5, <1>6, <1>7 DEF ChatInv, Filled, Apart

LEMMA ChatResponds == ASSUME ChatInv, NEW m \in Turns, C!Respond(m) PROVE ChatInv'
<1>1. /\ turn' = [turn EXCEPT ![m] = "reply"] /\ turn[m] = "model"
      /\ UNCHANGED <<session, copy, disturbed, shared, chatSpent>>
  BY DEF C!Respond, C!Goto
<1>2. /\ turn \in [Turns -> Places] /\ turn'[m] = "reply"
      /\ \A u \in Turns : u # m => turn'[u] = turn[u]
      /\ C!UnderWay' = C!UnderWay
  BY <1>1 DEF ChatInv, ChatTyped, C!TypeOK, Places, C!UnderWay
<1>3. ChatTyped'
  <2>1. turn' \in [Turns -> Places]
    BY <1>1, <1>2 DEF Places
  <2> QED
    BY <1>1, <2>1 DEF ChatInv, ChatTyped, C!TypeOK, Places
<1>4. \A u \in Turns : Holding(u)' <=> Holding(u)
  BY <1>1, <1>2 DEF Holding
<1>5. ASSUME NEW u \in C!UnderWay' PROVE u \in shared' \/ Aware(u)'
  <2>1. u \in Turns /\ (u \in shared \/ Aware(u))
    BY <1>2, <1>5 DEF ChatInv, C!UnderWay
  <2> QED
    BY <1>1, <1>2, <1>4, <2>1 DEF Aware
<1>6. ASSUME NEW u \in Turns, u \notin disturbed' PROVE Alone(u)'
  <2>1. Alone(u)
    BY <1>1, <1>6 DEF ChatInv
  <2> QED
    BY <1>1, <1>2, <1>4, <2>1 DEF Alone
<1> QED
  BY <1>1, <1>3, <1>4, <1>5, <1>6 DEF ChatInv

\* Which steps write: the question, and the reply.
Writing(place, role, next) ==
    \/ place = "asking" /\ role = "user" /\ next = "model"
    \/ place = "replying" /\ role = "sagwan" /\ next = "done"

\* Turns that the new session is not theirs any more are counted among those not aware.
LEMMA StillAware ==
  ASSUME ChatInv, NEW u \in C!UnderWay, NEW U, shared' = shared \cup U,
         session'.participant # session.participant => u \in U,
         session' # C!Absent, turn'[u] = turn[u], copy' = copy
  PROVE  u \in shared' \/ Aware(u)'
<1>1. u \in shared \/ Aware(u)
  BY DEF ChatInv
<1>2. CASE u \in shared \/ session'.participant # session.participant
  BY <1>2
<1>3. CASE Aware(u) /\ session'.participant = session.participant
  BY <1>3 DEF Aware, Holding
<1> QED
  BY <1>1, <1>2, <1>3

LEMMA ChatWrites ==
  ASSUME RecordsBounds, ChatInv, NEW m \in Turns, NEW place, NEW role, NEW next,
         Writing(place, role, next), C!Write(m, place, role, next)
  PROVE  ChatInv'
<1> DEFINE x == C!Message(m, role)
           p == IF role = "user" THEN Caller[m] ELSE C!Anyone
           U == IF session'.participant # session.participant THEN C!UnderWay \ {m} ELSE {}
<1>1. /\ session' = IF copy[m] # C!Absent THEN C!Appended(copy[m], x) ELSE C!Begun(x, p)
      /\ shared' = shared \cup U
      /\ turn[m] = place /\ turn' = [turn EXCEPT ![m] = next]
      /\ UNCHANGED <<copy, disturbed, chatSpent>>
  BY DEF C!Write, C!Becomes, C!Goto
<1>2. /\ x \in SaidBy /\ x[1] = m /\ p \in Participants /\ p # C!Nobody
      /\ place = "asking" => x = C!Message(m, "user") /\ p = Caller[m]
      /\ place = "replying" => x = C!Message(m, "sagwan")
  BY DEF Writing, C!Message, SaidBy, Participants, RecordsBounds, C!SessionBounds, C!Nobody,
         C!Anyone
<1> HIDE DEF x, p
<1>3. /\ turn \in [Turns -> Places] /\ turn'[m] = next /\ m \in C!UnderWay /\ Holding(m)
      /\ copy \in [Turns -> ChatNotes] /\ copy[m] \in ChatNotes
      /\ \A u \in Turns : u # m => turn'[u] = turn[u]
      /\ C!UnderWay' \subseteq C!UnderWay
      /\ next \in {"model", "done"}
  BY <1>1 DEF ChatInv, ChatTyped, C!TypeOK, Places, C!UnderWay, Holding, Writing
<1>4. session' \in ChatNotes /\ session' # C!Absent /\ session'.participant # C!Nobody
  <2>1. CASE copy[m] # C!Absent
    <3>1. copy[m].participant # C!Nobody
      BY <2>1 DEF ChatInv, Filled
    <3> QED
      BY <1>1, <1>2, <1>3, <2>1, <3>1, Appending, AppendedKeeps
  <2>2. CASE copy[m] = C!Absent
    BY <1>1, <1>2, <2>2, Beginning, AbsentNote
  <2> QED
    BY <2>1, <2>2
<1>5. ChatTyped'
  <2>1. turn' \in [Turns -> Places] /\ shared' \subseteq Turns
    BY <1>1, <1>3 DEF Places, ChatInv, ChatTyped, C!TypeOK, C!UnderWay
  <2>2. session'.participant \in Participants /\ session'.said \in Seq(SaidBy)
        /\ session'.count \in Nat
    BY <1>4 DEF ChatNotes
  <2> QED
    BY <1>1, <1>4, <2>1, <2>2 DEF ChatInv, ChatTyped, C!TypeOK, Places, SaidBy, Participants
<1>6. ASSUME NEW u \in Turns, Holding(u)' PROVE Holding(u) /\ u # m /\ Apart(copy[u], shared)'
  <2>1. Holding(u) /\ u # m
    BY <1>3, <1>6 DEF Holding
  <2>2. Apart(copy[u], shared) /\ shared \subseteq shared'
    BY <1>1, <2>1 DEF ChatInv
  <2>3. Apart(copy[u], shared')
    BY <2>2, ApartWidens
  <2> QED
    BY <1>1, <2>1, <2>3 DEF Apart
<1>7. m \in shared \/ Aware(m)
  BY <1>3 DEF ChatInv
<1>8. Apart(session, shared)'
  <2>1. Apart(copy[m], shared) /\ shared \subseteq shared'
    BY <1>1, <1>3 DEF ChatInv
  <2>2. Apart(copy[m], shared')
    BY <2>1, ApartWidens
  <2>3. CASE copy[m] # C!Absent
    <3>1. copy[m].participant # C!Nobody
      BY <2>3 DEF ChatInv, Filled
    <3>2. m \in shared' \/ Caller[m] \in {copy[m].participant, Admin}
      BY <1>1, <1>3, <1>7, <3>1 DEF Aware
    <3>3. Apart(session', shared')
      BY <1>1, <1>2, <1>3, <2>2, <2>3, <3>2, AppendedApart
    <3> QED
      BY <3>3 DEF Apart
  <2>4. CASE copy[m] = C!Absent
    <3>1. session'.participant = p /\ DOMAIN session'.said = {1} /\ session'.said[1] = x
      BY <1>1, <1>2, <2>4, Beginning
    <3>2. m \in shared' \/ Caller[m] = p
      BY <1>1, <1>2, <1>7, <2>4 DEF Aware, Writing
    <3> QED
      BY <1>2, <3>1, <3>2 DEF Apart
  <2> QED
    BY <2>3, <2>4
<1>9. ASSUME NEW u \in C!UnderWay' PROVE u \in shared' \/ Aware(u)'
  <2>1. CASE u # m
    <3>1. u \in C!UnderWay /\ turn'[u] = turn[u] /\ copy' = copy
          /\ (session'.participant # session.participant => u \in U)
      BY <1>1, <1>3, <1>9, <2>1 DEF C!UnderWay
    <3> HIDE DEF U
    <3> QED
      BY <1>1, <1>4, <3>1, StillAware
  <2>2. CASE u = m
    <3>1. place = "asking" /\ turn'[m] = "model"
      BY <1>1, <1>3, <1>9, <2>2 DEF C!UnderWay, Writing
    <3>2. CASE m \in shared
      BY <1>1, <2>2, <3>2
    <3>3. CASE Aware(m) /\ copy[m] # C!Absent
      <4>1. session'.participant = copy[m].participant
        BY <1>1, <1>2, <1>3, <3>3, Appending
      <4>2. Caller[m] = Admin \/ session'.participant \in {C!Nobody, Caller[m]}
        BY <1>3, <3>3, <4>1 DEF Aware
      <4> QED
        BY <1>4, <2>2, <3>1, <4>2 DEF Aware, Holding
    <3>4. CASE copy[m] = C!Absent
      <4>1. session'.participant = Caller[m]
        BY <1>1, <1>2, <3>1, <3>4, Beginning
      <4> QED
        BY <1>4, <2>2, <3>1, <4>1 DEF Aware, Holding
    <3> QED
      BY <1>7, <3>2, <3>3, <3>4
  <2> QED
    BY <2>1, <2>2
<1>10. ASSUME NEW u \in Turns, u \notin disturbed' PROVE Alone(u)'
  <2>1. Alone(u)
    BY <1>1, <1>10 DEF ChatInv
  <2>2. CASE u = m
    <3>1. C!UnderWay = {m} /\ copy[m] = session
      BY <1>3, <2>1, <2>2 DEF Alone
    <3>2. C!UnderWay' \subseteq {m} /\ \A v \in Turns : ~Holding(v)'
      BY <1>3, <3>1 DEF C!UnderWay, Holding
    <3>3. CASE place = "asking"
      <4>1. turn'[m] = "model"
        BY <1>1, <1>3, <3>3 DEF Writing
      <4>2. LastIs(m, session')
        <5>1. CASE copy[m] # C!Absent
          BY <1>1, <1>2, <1>3, <3>3, <5>1, AppendedKeeps
        <5>2. CASE copy[m] = C!Absent
          <6>1. Len(session'.said) = 1 /\ session'.said[1] = C!Message(m, "user")
            BY <1>1, <1>2, <3>3, <5>2, Beginning
          <6> QED
            BY <6>1 DEF LastIs
        <5> QED
          BY <5>1, <5>2
      <4> QED
        BY <2>2, <3>2, <4>1, <4>2 DEF Alone, LastIs, Holding, C!UnderWay
    <3>4. CASE place = "replying"
      <4>1. turn'[m] = "done"
        BY <1>1, <1>3, <3>4 DEF Writing
      <4>2. LastIs(m, copy[m])
        BY <1>1, <2>1, <2>2, <3>1, <3>4 DEF Alone
      <4>3. copy[m] # C!Absent
        BY <4>2, AbsentNote
      <4>4. Answered(m, session')
        BY <1>1, <1>2, <1>3, <3>4, <4>2, <4>3, AppendedKeeps
      <4> QED
        BY <2>2, <3>2, <4>1, <4>4 DEF Alone, Answered, Holding, C!UnderWay
    <3> QED
      BY <3>3, <3>4 DEF Writing
  <2>3. CASE u # m
    <3>1. u \notin C!UnderWay /\ u \notin C!UnderWay' /\ turn'[u] = turn[u]
      BY <1>3, <2>1, <2>3 DEF Alone, C!UnderWay
    <3>2. turn[u] \in {"idle", "refused", "done"}
      BY <3>1 DEF C!UnderWay
    <3>3. CASE turn[u] # "done"
      BY <3>1, <3>2, <3>3 DEF Alone, Holding
    <3>4. CASE turn[u] = "done"
      <4>1. \A v \in Turns : Holding(v) => Answered(u, copy[v])
        BY <2>1, <3>4 DEF Alone
      <4>2. Answered(u, copy[m]) /\ copy[m] # C!Absent
        BY <1>3, <4>1, AbsentNote
      <4>3. Answered(u, session')
        BY <1>1, <1>2, <1>3, <4>2, AppendedKeeps
      <4>4. \A v \in Turns : Holding(v)' => Answered(u, copy'[v])
        BY <1>1, <1>6, <4>1
      <4> QED
        BY <3>1, <3>4, <4>3, <4>4 DEF Alone, Holding, Answered
    <3> QED
      BY <3>3, <3>4
  <2> QED
    BY <2>2, <2>3
<1> QED
  BY <1>1, <1>4, <1>5, <1>6, <1>8, <1>9, <1>10 DEF ChatInv, Filled

LEMMA ChatWriteFails ==
  ASSUME RecordsBounds, ChatInv, NEW m \in Turns, NEW place, NEW role, NEW next,
         Writing(place, role, next), C!WriteFails(m, place, role, next)
  PROVE  ChatInv'
<1> DEFINE x == C!Message(m, role)
           p == IF role = "user" THEN Caller[m] ELSE C!Anyone
           U == IF session'.participant # session.participant THEN C!UnderWay ELSE {}
<1>1. /\ session' = C!Begun(x, p) /\ shared' = shared \cup U
      /\ turn[m] = place /\ turn' = [turn EXCEPT ![m] = next] /\ copy[m] # C!Absent
      /\ disturbed' = Turns /\ UNCHANGED copy
      /\ chatSpent < MaxTrouble /\ chatSpent' = chatSpent + 1
  BY DEF C!WriteFails, C!Becomes, C!Goto, C!Trouble
<1>2. /\ x \in SaidBy /\ x[1] = m /\ p \in Participants /\ p # C!Nobody
      /\ place = "asking" => p = Caller[m]
      /\ place = "replying" => p = C!Anyone
  BY DEF Writing, C!Message, SaidBy, Participants, RecordsBounds, C!SessionBounds, C!Nobody,
         C!Anyone
<1> HIDE DEF x, p
<1>3. /\ turn \in [Turns -> Places] /\ turn'[m] = next /\ m \in C!UnderWay /\ Holding(m)
      /\ \A u \in Turns : u # m => turn'[u] = turn[u]
      /\ next \in {"model", "done"}
  BY <1>1 DEF ChatInv, ChatTyped, C!TypeOK, Places, C!UnderWay, Holding, Writing
<1>4. /\ session' \in ChatNotes /\ session' # C!Absent /\ session'.participant = p
      /\ DOMAIN session'.said = {1} /\ session'.said[1] = x
  BY <1>1, <1>2, Beginning, AbsentNote
<1>5. ChatTyped'
  <2>1. turn' \in [Turns -> Places] /\ shared' \subseteq Turns /\ disturbed' \subseteq Turns
    BY <1>1, <1>3 DEF Places, ChatInv, ChatTyped, C!TypeOK, C!UnderWay
  <2>2. session'.participant \in Participants /\ session'.said \in Seq(SaidBy)
        /\ session'.count \in Nat
    BY <1>4 DEF ChatNotes
  <2>3. chatSpent' \in 0..MaxTrouble
    BY <1>1 DEF ChatInv, ChatTyped, C!TypeOK, RecordsBounds, C!SessionBounds
  <2> QED
    BY <1>1, <1>4, <2>1, <2>2, <2>3 DEF ChatInv, ChatTyped, C!TypeOK, Places, SaidBy, Participants
<1>6. ASSUME NEW u \in Turns, Holding(u)' PROVE Apart(copy[u], shared)'
  <2>1. Holding(u)
    BY <1>3, <1>6 DEF Holding
  <2>2. Apart(copy[u], shared) /\ shared \subseteq shared'
    BY <1>1, <2>1 DEF ChatInv
  <2>3. Apart(copy[u], shared')
    BY <2>2, ApartWidens
  <2> QED
    BY <1>1, <2>3 DEF Apart
<1>7. m \in shared \/ Aware(m)
  BY <1>3 DEF ChatInv
<1>8. m \in shared' \/ Caller[m] \in {p, Admin}
  <2>1. CASE p = session.participant
    BY <1>1, <1>2, <1>7, <2>1 DEF Aware
  <2>2. CASE p # session.participant
    BY <1>1, <1>3, <1>4, <2>2
  <2> QED
    BY <2>1, <2>2
<1>9. Apart(session, shared)'
  BY <1>2, <1>4, <1>8 DEF Apart
<1>10. ASSUME NEW u \in C!UnderWay' PROVE u \in shared' \/ Aware(u)'
  <2>1. CASE u # m
    <3>1. u \in C!UnderWay /\ turn'[u] = turn[u] /\ copy' = copy
          /\ (session'.participant # session.participant => u \in U)
      BY <1>1, <1>3, <1>10, <2>1 DEF C!UnderWay
    <3> HIDE DEF U
    <3> QED
      BY <1>1, <1>4, <3>1, StillAware
  <2>2. CASE u = m
    <3>1. turn'[m] = "model"
      BY <1>3, <1>10, <2>2 DEF C!UnderWay
    <3> QED
      BY <1>4, <1>8, <2>2, <3>1 DEF Aware, Holding
  <2> QED
    BY <2>1, <2>2
<1> QED
  BY <1>1, <1>2, <1>4, <1>5, <1>6, <1>9, <1>10 DEF ChatInv, Filled

LEMMA ChatDeletes == ASSUME RecordsBounds, ChatInv, NEW c, C!Delete(c) PROVE ChatInv'
<1> DEFINE U == IF session'.participant # session.participant THEN C!UnderWay ELSE {}
<1>1. /\ session' = C!Absent /\ session # C!Absent /\ shared' = shared \cup U
      /\ disturbed' = Turns /\ UNCHANGED <<turn, copy>>
      /\ chatSpent < MaxTrouble /\ chatSpent' = chatSpent + 1
  BY DEF C!Delete, C!Becomes, C!Trouble
<1>2. session'.participant # session.participant
  BY <1>1, AbsentNote DEF ChatInv, Filled
<1>3. C!UnderWay' = C!UnderWay /\ C!UnderWay \subseteq Turns /\ C!UnderWay \subseteq shared'
      /\ shared \subseteq shared' /\ shared' \subseteq Turns
  BY <1>1, <1>2 DEF C!UnderWay, ChatInv, ChatTyped, C!TypeOK
<1>4. ChatTyped'
  <2>1. session'.participant \in Participants /\ session'.said \in Seq(SaidBy)
        /\ session'.count \in Nat /\ session' \in ChatNotes
    BY <1>1, AbsentNote DEF ChatNotes
  <2>2. chatSpent' \in 0..MaxTrouble
    BY <1>1 DEF ChatInv, ChatTyped, C!TypeOK, RecordsBounds, C!SessionBounds
  <2> QED
    BY <1>1, <1>3, <2>1, <2>2 DEF ChatInv, ChatTyped, C!TypeOK, SaidBy, Participants
<1>5. ASSUME NEW u \in Turns, Holding(u)' PROVE Apart(copy[u], shared)'
  <2>1. Holding(u)
    BY <1>1, <1>5 DEF Holding
  <2>2. Apart(copy[u], shared)
    BY <2>1 DEF ChatInv
  <2>3. Apart(copy[u], shared')
    BY <1>3, <2>2, ApartWidens
  <2> QED
    BY <1>1, <2>3 DEF Apart
<1>6. Apart(session, shared)'
  BY <1>1, AbsentNote DEF Apart
<1> QED
  BY <1>1, <1>3, <1>4, <1>5, <1>6 DEF ChatInv, Filled

LEMMA ChatStep ==
  ASSUME RecordsBounds, ChatInv, C!Next \/ UNCHANGED chatVars
  PROVE  ChatInv'
<1>1. CASE C!Next
  <2>1. CASE \E m \in Turns : C!Delete(Caller[m])
    BY <2>1, ChatDeletes
  <2>2. CASE ~\E m \in Turns : C!Delete(Caller[m])
    <3>1. PICK m \in Turns :
            \/ C!Receive(m) \/ C!Respond(m)
            \/ C!Load(m, "question", "asking") \/ C!Load(m, "reply", "replying")
            \/ C!Write(m, "asking", "user", "model") \/ C!Write(m, "replying", "sagwan", "done")
            \/ C!WriteFails(m, "asking", "user", "model")
            \/ C!WriteFails(m, "replying", "sagwan", "done")
      BY <1>1, <2>2 DEF C!Next
    <3>2. Writing("asking", "user", "model") /\ Writing("replying", "sagwan", "done")
      BY DEF Writing
    <3>3. CASE C!Receive(m) \/ C!Respond(m)
      BY <3>3, ChatReceives, ChatResponds
    <3>4. CASE C!Load(m, "question", "asking") \/ C!Load(m, "reply", "replying")
      BY <3>4, ChatLoads
    <3>5. CASE C!Write(m, "asking", "user", "model") \/ C!Write(m, "replying", "sagwan", "done")
      BY <3>2, <3>5, ChatWrites
    <3>6. CASE \/ C!WriteFails(m, "asking", "user", "model")
               \/ C!WriteFails(m, "replying", "sagwan", "done")
      BY <3>2, <3>6, ChatWriteFails
    <3> QED
      BY <3>1, <3>3, <3>4, <3>5, <3>6
  <2> QED
    BY <2>1, <2>2
<1>2. CASE UNCHANGED chatVars
  BY <1>2 DEF chatVars, ChatInv, ChatTyped, C!TypeOK, Filled, Apart, Aware, Alone, Holding,
              LastIs, Answered, C!UnderWay
<1> QED
  BY <1>1, <1>2

LEMMA ChatHolds == ASSUME ChatInv PROVE C!TypeOK /\ C!TurnKept /\ C!SessionsApart
<1>1. C!TypeOK
  BY DEF ChatInv, ChatTyped
<1>2. C!TurnKept
  <2>1. ASSUME NEW m \in Turns, turn[m] = "done", m \notin disturbed PROVE Answered(m, session)
    BY <2>1 DEF ChatInv, Alone
  <2> QED
    BY <2>1 DEF C!TurnKept, Answered
<1>3. C!SessionsApart
  BY DEF ChatInv, Apart, C!SessionsApart
<1> QED
  BY <1>1, <1>2, <1>3

-----------------------------------------------------------------------------
(* Accounts, and the notes that name them.                                 *)

Steps == {"idle", "storing", "scanning", "saving", "writing", "annotating"}
OwnerNames == Names \cup {A!Sagwan, A!NoName}
AccJob == [step : Steps, user : Users, name : Names, to : Names, rest : SUBSET A!Notes,
           note : 0..NOTES, owner : OwnerNames]

Doing(r, steps) == jobs[r].step \in steps
Renamer(r) == Doing(r, {"storing", "scanning", "saving"})

\* The store: the admin has a nickname, and nobody else has the one that is kept for it.
StoreSound ==
    /\ nick \in [Users -> Names \cup {A!NoName}]
    /\ nick[Admin] # A!NoName /\ \A u \in Users \ {Admin} : nick[u] # AdminName
    /\ A!NicknamesUnique

NotesTyped ==
    /\ owned \in [A!Notes -> [owner : OwnerNames, by : Users \cup {A!NoName}]]
    /\ \A n \in A!Written : /\ owned[n].by \in Users /\ nick[owned[n].by] # A!NoName
                            /\ owned[n].owner \in Names \cup {A!Sagwan}

JobsTyped ==
    /\ jobs \in [Requests -> AccJob]
    /\ \A r \in Requests :
         /\ nick[jobs[r].user] # A!NoName
         /\ Doing(r, {"saving", "annotating"}) => jobs[r].note \in A!Written
         /\ Doing(r, {"annotating"}) => jobs[r].owner \in Names \cup {A!Sagwan}

DayCapped ==
    /\ {counted, opened} \subseteq Nat
    /\ accountSpent \in [renames : 0..MaxRenames, trouble : 0..MaxTrouble]
    /\ counted <= DAILY /\ opened <= DAILY * accountSpent.trouble + counted

\* The name o is right for note n; a rename will still make it so.
Right(n, o) == owned[n].by = Admin \/ o \in {nick[owned[n].by], A!Sagwan}
Due(r, n) ==
    /\ Doing(r, {"scanning", "saving"})
    /\ jobs[r].user = owned[n].by /\ jobs[r].name = owned[n].owner
    /\ n \in jobs[r].rest \/ (Doing(r, {"saving"}) /\ n = jobs[r].note)

\* What a request can rely on while no other is in flight during a rename.
JobSound(r) ==
    /\ Renamer(r) =>
         /\ \A q \in Requests \ {r} : jobs[q] = A!Idle
         /\ \A n \in A!Written :
              owned[n].by \notin {jobs[r].user, Admin} => owned[n].owner # jobs[r].name
    /\ Doing(r, {"storing", "writing"}) =>
         jobs[r].user = Admin \/ jobs[r].name = nick[jobs[r].user]
    /\ Doing(r, {"scanning", "saving"}) =>
         jobs[r].user = Admin \/ jobs[r].to = nick[jobs[r].user]
    /\ Doing(r, {"annotating"}) => Right(jobs[r].note, jobs[r].owner)
    /\ Doing(r, {"saving"}) => owned[jobs[r].note].by \in {jobs[r].user, Admin}

Followed ==
    /\ \A n \in A!Written : Right(n, owned[n].owner) \/ \E r \in Requests : Due(r, n)
    /\ \A r \in Requests : JobSound(r)

AccInv ==
    /\ StoreSound /\ NotesTyped /\ JobsTyped /\ DayCapped
    /\ overlap \in BOOLEAN /\ (overlap \/ Followed)

\* Who has an account keeps one, and but for the members of X the name.
NamesStay(X) ==
    \A u \in Users : nick[u] # A!NoName => nick'[u] # A!NoName /\ (u \notin X => nick'[u] = nick[u])

LEMMA AccountFacts ==
  ASSUME RecordsBounds
  PROVE  /\ Admin \in Users /\ AdminName \in Names
         /\ NOTES \in Nat /\ DAILY \in Nat /\ MaxRenames \in Nat /\ MaxTrouble \in Nat
         /\ A!Sagwan \notin Names /\ A!NoName \notin Names /\ A!Sagwan # A!NoName
BY DEF RecordsBounds, A!AccountBounds, A!Sagwan, A!NoName

LEMMA IdleJob ==
  ASSUME RecordsBounds
  PROVE  /\ A!Idle \in AccJob /\ A!Idle.step = "idle" /\ A!Idle.user = Admin
         /\ A!Idle.rest = {} /\ A!Idle.note = 0
BY AccountFacts DEF A!Idle, AccJob, Steps, OwnerNames

LEMMA Seeding ==
  ASSUME RecordsBounds, StoreSound
  PROVE  /\ A!Seeded \in [Users -> Names \cup {A!NoName}] /\ A!Seeded[Admin] = AdminName
         /\ \A u \in Users \ {Admin} : A!Seeded[u] = nick[u] /\ A!Seeded[u] # AdminName
BY AccountFacts DEF StoreSound, A!Seeded

\* A store that is seeded, and in which at most u has a new name n that nobody has.
LEMMA Stored ==
  ASSUME RecordsBounds, StoreSound, NEW u \in Users, NEW n \in Names,
         nick' = [A!Seeded EXCEPT ![u] = n], n = A!Seeded[u] \/ ~A!Taken(n)
  PROVE  StoreSound' /\ NamesStay({Admin, u}) /\ nick'[u] = n
<1>1. /\ A!Seeded \in [Users -> Names \cup {A!NoName}] /\ A!Seeded[Admin] = AdminName
      /\ \A v \in Users \ {Admin} : A!Seeded[v] = nick[v] /\ A!Seeded[v] # AdminName
  BY Seeding
<1>2. \A v \in Users : v # u => A!Seeded[v] # n
  <2>1. ASSUME NEW v \in Users, NEW w \in Users, A!Seeded[v] = A!Seeded[w],
               A!Seeded[v] # A!NoName
        PROVE  v = w
    <3>1. CASE v = Admin \/ w = Admin
      BY <1>1, <2>1, <3>1
    <3>2. CASE v # Admin /\ w # Admin
      BY <1>1, <2>1, <3>2 DEF StoreSound, A!NicknamesUnique, A!Accounts
    <3> QED
      BY <3>1, <3>2
  <2>2. CASE ~A!Taken(n)
    BY <2>2 DEF A!Taken
  <2>3. CASE n = A!Seeded[u]
    BY <2>1, <2>3, AccountFacts
  <2> QED
    BY <2>2, <2>3
<1>3. /\ nick' \in [Users -> Names \cup {A!NoName}] /\ nick'[u] = n
      /\ \A v \in Users : v # u => nick'[v] = A!Seeded[v]
  BY <1>1
<1>4. NamesStay({Admin, u})
  BY <1>1, <1>3, AccountFacts DEF NamesStay
<1>5. nick'[Admin] # A!NoName /\ \A v \in Users \ {Admin} : nick'[v] # AdminName
  BY <1>1, <1>2, <1>3, AccountFacts
<1>6. A!NicknamesUnique'
  <2>1. ASSUME NEW v \in Users, NEW w \in Users, nick'[v] = nick'[w], nick'[v] # A!NoName
        PROVE  v = w
    <3>1. CASE v = u \/ w = u
      BY <1>2, <1>3, <2>1, <3>1
    <3>2. CASE v # u /\ w # u
      <4>1. A!Seeded[v] = A!Seeded[w] /\ A!Seeded[v] # A!NoName
        BY <1>3, <2>1, <3>2
      <4>2. CASE v = Admin \/ w = Admin
        BY <1>1, <4>1, <4>2
      <4>3. CASE v # Admin /\ w # Admin
        BY <1>1, <4>1, <4>3 DEF StoreSound, A!NicknamesUnique, A!Accounts
      <4> QED
        BY <4>2, <4>3
    <3> QED
      BY <3>1, <3>2
  <2> QED
    BY <2>1 DEF A!NicknamesUnique, A!Accounts
<1> QED
  BY <1>3, <1>4, <1>5, <1>6 DEF StoreSound

\* Opening an account changes nobody's name but the admin's.
LEMMA Created ==
  ASSUME RecordsBounds, StoreSound, NEW u \in Users, NEW n \in Names, A!Create(u, n)
  PROVE  StoreSound' /\ NamesStay({Admin})
<1>1. CASE UNCHANGED nick
  BY <1>1 DEF StoreSound, NamesStay, A!NicknamesUnique, A!Accounts
<1>2. CASE nick' # nick
  <2>1. A!Seeded[u] = A!NoName /\ ~A!Taken(n) /\ nick' = [A!Seeded EXCEPT ![u] = n]
    BY <1>2 DEF A!Create
  <2>2. u # Admin /\ nick[u] = A!NoName
    BY <2>1, Seeding, AccountFacts
  <2>3. StoreSound' /\ NamesStay({Admin, u})
    BY <2>1, Stored
  <2> QED
    BY <2>2, <2>3 DEF NamesStay
<1> QED
  BY <1>1, <1>2

LEMMA Reseeded ==
  ASSUME RecordsBounds, StoreSound, nick' = A!Seeded
  PROVE  StoreSound' /\ NamesStay({Admin})
<1>1. A!Seeded = [A!Seeded EXCEPT ![Admin] = AdminName]
  BY Seeding
<1> QED
  BY <1>1, Stored, Seeding, AccountFacts

LEMMA Became ==
  ASSUME jobs \in [Requests -> AccJob], overlap \in BOOLEAN,
         NEW r \in Requests, NEW job \in AccJob, A!Becomes(r, job)
  PROVE  /\ jobs' \in [Requests -> AccJob] /\ jobs'[r] = job /\ overlap' \in BOOLEAN
         /\ \A q \in Requests : q # r => jobs'[q] = jobs[q]
         /\ ~overlap' => ~overlap
         /\ ~overlap' => \A q \in Requests :
              Renamer(q)' => \A p \in Requests \ {r} : jobs[p] = A!Idle
BY DEF A!Becomes, A!Renaming, Renamer, Doing

LEMMA JobsBecome ==
  ASSUME JobsTyped, overlap \in BOOLEAN, NEW r \in Requests, NEW job \in AccJob, A!Becomes(r, job),
         \A u \in Users : nick[u] # A!NoName => nick'[u] # A!NoName,
         A!Written \subseteq A!Written',
         nick'[job.user] # A!NoName,
         job.step \in {"saving", "annotating"} => job.note \in A!Written',
         job.step = "annotating" => job.owner \in Names \cup {A!Sagwan}
  PROVE  JobsTyped' /\ overlap' \in BOOLEAN
<1>1. /\ jobs \in [Requests -> AccJob] /\ jobs' \in [Requests -> AccJob]
      /\ jobs'[r] = job /\ overlap' \in BOOLEAN
      /\ \A q \in Requests : q # r => jobs'[q] = jobs[q]
  BY Became DEF JobsTyped
<1>2. ASSUME NEW q \in Requests
      PROVE  /\ nick'[jobs'[q].user] # A!NoName
             /\ jobs'[q].step \in {"saving", "annotating"} => jobs'[q].note \in A!Written'
             /\ jobs'[q].step = "annotating" => jobs'[q].owner \in Names \cup {A!Sagwan}
  <2>1. CASE q = r
    BY <1>1, <2>1
  <2>2. CASE q # r
    <3>1. jobs'[q] = jobs[q] /\ jobs[q].user \in Users
      BY <1>1, <2>2 DEF AccJob
    <3> QED
      BY <3>1 DEF JobsTyped, Doing
  <2> QED
    BY <2>1, <2>2
<1> QED
  BY <1>1, <1>2 DEF JobsTyped, Doing

\* A request that begins while a nickname is changed is an overlap.
LEMMA Begins ==
  ASSUME RecordsBounds, AccInv, NEW r \in Requests, jobs[r] = A!Idle, NEW job \in AccJob,
         A!Becomes(r, job), UNCHANGED <<nick, owned>>, nick[job.user] # A!NoName,
         \/ job.step \in {"storing", "writing"} /\ job.name = nick[job.user]
         \/ job.step = "annotating" /\ job.note \in A!Written /\ job.owner = owned[job.note].owner
  PROVE  /\ NotesTyped' /\ StoreSound' /\ JobsTyped'
         /\ overlap' \in BOOLEAN /\ (overlap' \/ Followed')
<1>1. /\ jobs' \in [Requests -> AccJob] /\ jobs'[r] = job /\ overlap' \in BOOLEAN
      /\ \A q \in Requests : q # r => jobs'[q] = jobs[q]
      /\ ~overlap' => ~overlap
      /\ ~overlap' => \A q \in Requests :
           Renamer(q)' => \A p \in Requests \ {r} : jobs[p] = A!Idle
  BY Became DEF AccInv, JobsTyped
<1>2. NotesTyped' /\ StoreSound' /\ A!Written' = A!Written
  BY DEF AccInv, NotesTyped, StoreSound, A!NicknamesUnique, A!Accounts, A!Written
<1>3. JobsTyped'
  <2>1. job.step = "annotating" => job.owner \in Names \cup {A!Sagwan}
    BY DEF AccInv, NotesTyped
  <2>2. job.step \in {"saving", "annotating"} => job.note \in A!Written'
    BY <1>2
  <2> QED
    BY <1>2, <2>1, <2>2, JobsBecome DEF AccInv
<1>4. ASSUME ~overlap' PROVE Followed'
  <2>1. Followed /\ ~overlap
    BY <1>1, <1>4 DEF AccInv
  <2>2. \A q \in Requests : ~Renamer(q)
    <3>1. ASSUME NEW q \in Requests, Renamer(q) PROVE FALSE
      <4>1. q # r
        BY <3>1, IdleJob DEF Renamer, Doing
      <4>2. Renamer(q)'
        BY <1>1, <3>1, <4>1 DEF Renamer, Doing
      <4>3. jobs[q] = A!Idle
        BY <1>1, <1>4, <4>1, <4>2
      <4> QED
        BY <3>1, <4>3, IdleJob DEF Renamer, Doing
    <3> QED
      BY <3>1
  <2>3. \A n \in A!Written : Right(n, owned[n].owner)
    BY <2>1, <2>2 DEF Followed, Due, Renamer, Doing
  <2>4. ASSUME NEW q \in Requests, q # r PROVE JobSound(q)'
    <3>1. JobSound(q) /\ jobs'[q] = jobs[q] /\ ~Renamer(q)
      BY <1>1, <2>1, <2>2, <2>4 DEF Followed
    <3> QED
      BY <3>1 DEF JobSound, Right, Renamer, Doing
  <2>5. JobSound(r)'
    <3>1. CASE job.step = "storing"
      <4>1. \A p \in Requests \ {r} : jobs'[p] = A!Idle
        BY <1>1, <1>4, <3>1 DEF Renamer, Doing
      <4>2. ASSUME NEW n \in A!Written, owned[n].by \notin {job.user, Admin}
            PROVE  owned[n].owner # job.name
        <5>1. /\ owned[n].owner \in {nick[owned[n].by], A!Sagwan} /\ job.user \in Users
              /\ owned[n].by \in Users /\ nick[owned[n].by] # A!NoName
          BY <2>3, <4>2 DEF Right, AccInv, NotesTyped, AccJob
        <5>2. nick[owned[n].by] # nick[job.user]
          BY <4>2, <5>1 DEF AccInv, StoreSound, A!NicknamesUnique, A!Accounts
        <5>3. job.name \in Names /\ job.name = nick[job.user]
          BY <3>1 DEF AccJob
        <5> QED
          BY <5>1, <5>2, <5>3, AccountFacts
      <4>3. \A n \in A!Written' :
              owned'[n].by \notin {jobs'[r].user, Admin} => owned'[n].owner # jobs'[r].name
        BY <1>1, <1>2, <4>2
      <4> QED
        BY <1>1, <3>1, <4>1, <4>3 DEF JobSound, Renamer, Doing
    <3>2. CASE job.step = "writing"
      BY <1>1, <3>2 DEF JobSound, Renamer, Doing
    <3>3. CASE job.step = "annotating"
      <4>1. Right(job.note, job.owner)
        BY <2>3, <3>3
      <4> QED
        BY <1>1, <3>3, <4>1 DEF JobSound, Renamer, Doing, Right
    <3> QED
      BY <3>1, <3>2, <3>3
  <2> QED
    BY <1>2, <2>3, <2>4, <2>5 DEF Followed, Right
<1> QED
  BY <1>1, <1>2, <1>3, <1>4

LEMMA DayStays ==
  ASSUME RecordsBounds, DayCapped, UNCHANGED <<counted, opened>>,
         accountSpent' \in [renames : 0..MaxRenames, trouble : 0..MaxTrouble],
         accountSpent'.trouble = accountSpent.trouble
  PROVE  DayCapped'
BY DEF DayCapped

LEMMA AccBegins ==
  ASSUME RecordsBounds, AccInv, NEW r \in Requests, NEW u \in Users,
         \/ A!AskWrite(r, u)
         \/ \E n \in Names : A!AskRename(r, u, n)
         \/ \E n \in A!Notes : A!Load(r, n)
  PROVE  AccInv'
<1>1. \A v \in Users : nick[v] # A!NoName => nick[v] \in Names
  BY DEF AccInv, StoreSound
<1>2. accountSpent \in [renames : 0..MaxRenames, trouble : 0..MaxTrouble]
      /\ MaxRenames \in Nat
  BY AccountFacts DEF AccInv, DayCapped
<1>3. CASE A!AskWrite(r, u)
  <2> DEFINE job == [A!Idle EXCEPT !.step = "writing", !.user = u, !.name = nick[u]]
  <2>1. /\ jobs[r] = A!Idle /\ nick[u] # A!NoName /\ A!Becomes(r, job)
        /\ UNCHANGED <<nick, owned, counted, opened, accountSpent>>
    BY <1>3 DEF A!AskWrite, A!Accounts
  <2>2. /\ job \in AccJob /\ job.step = "writing" /\ job.user = u /\ job.name = nick[u]
    BY <1>1, <2>1, IdleJob DEF AccJob, Steps
  <2> HIDE DEF job
  <2>3. DayCapped'
    BY <1>2, <2>1, DayStays DEF AccInv
  <2> QED
    BY <2>1, <2>2, <2>3, Begins DEF AccInv
<1>4. CASE \E n \in Names : A!AskRename(r, u, n)
  <2>1. PICK n \in Names : A!AskRename(r, u, n)
    BY <1>4
  <2> DEFINE job == [A!Idle EXCEPT !.step = "storing", !.user = u, !.name = nick[u], !.to = n]
  <2>2. /\ jobs[r] = A!Idle /\ nick[u] # A!NoName /\ A!Becomes(r, job)
        /\ UNCHANGED <<nick, owned, counted, opened>>
        /\ accountSpent.renames < MaxRenames
        /\ accountSpent' = [accountSpent EXCEPT !.renames = @ + 1]
    BY <2>1 DEF A!AskRename, A!Accounts
  <2>3. /\ job \in AccJob /\ job.step = "storing" /\ job.user = u /\ job.name = nick[u]
    BY <1>1, <2>2, IdleJob DEF AccJob, Steps
  <2> HIDE DEF job
  <2>4. /\ accountSpent' \in [renames : 0..MaxRenames, trouble : 0..MaxTrouble]
        /\ accountSpent'.trouble = accountSpent.trouble
    BY <1>2, <2>2
  <2>5. DayCapped'
    BY <2>2, <2>4, DayStays DEF AccInv
  <2> QED
    BY <2>2, <2>3, <2>5, Begins DEF AccInv
<1>5. CASE \E n \in A!Notes : A!Load(r, n)
  <2>1. PICK n \in A!Notes : A!Load(r, n)
    BY <1>5
  <2> DEFINE job == [A!Idle EXCEPT !.step = "annotating", !.note = n, !.owner = owned[n].owner]
  <2>2. /\ jobs[r] = A!Idle /\ n \in A!Written /\ A!Becomes(r, job)
        /\ UNCHANGED <<nick, owned, counted, opened, accountSpent>>
    BY <2>1 DEF A!Load
  <2>3. n \in 0..NOTES /\ owned[n].owner \in OwnerNames
    BY <2>1, <2>2, AccountFacts DEF A!Notes, AccInv, NotesTyped, OwnerNames
  <2>4. /\ job \in AccJob /\ job.step = "annotating" /\ job.user = Admin /\ job.note = n
        /\ job.owner = owned[n].owner
    BY <2>3, IdleJob DEF AccJob, Steps
  <2> HIDE DEF job
  <2>5. DayCapped'
    BY <1>2, <2>2, DayStays DEF AccInv
  <2>6. nick[Admin] # A!NoName
    BY DEF AccInv, StoreSound
  <2> QED
    BY <2>2, <2>4, <2>5, <2>6, Begins DEF AccInv
<1> QED
  BY <1>3, <1>4, <1>5

\* While a nickname is changed and nothing overlaps, no other request is in flight.
LEMMA OnlyOne ==
  ASSUME RecordsBounds, Followed, NEW r \in Requests, jobs[r] # A!Idle
  PROVE  \A q \in Requests : q # r => ~Renamer(q)
BY DEF Followed, JobSound

\* A rename in flight is the only request, and the only one by which a name is due.
LEMMA OneDue ==
  ASSUME RecordsBounds, Followed, NEW r \in Requests, Renamer(r)
  PROVE  /\ \A q \in Requests : q # r => jobs[q] = A!Idle
         /\ \A n \in A!Written : Right(n, owned[n].owner) \/ Due(r, n)
<1>1. \A q \in Requests : q # r => jobs[q] = A!Idle
  BY DEF Followed, JobSound
<1>2. \A q \in Requests, n \in A!Written : q # r => ~Due(q, n)
  BY <1>1, IdleJob DEF Due, Doing
<1> QED
  BY <1>1, <1>2 DEF Followed

\* A request that is not renaming goes its way: then no name is due.
LEMMA NoneDue ==
  ASSUME RecordsBounds, Followed, NEW r \in Requests, jobs[r] # A!Idle, ~Renamer(r)
  PROVE  \A n \in A!Written : Right(n, owned[n].owner)
<1>1. \A q \in Requests : ~Renamer(q)
  BY OnlyOne
<1> QED
  BY <1>1 DEF Followed, Due, Renamer, Doing

LEMMA IdleSound ==
  ASSUME RecordsBounds, NEW q \in Requests, jobs[q] = A!Idle
  PROVE  JobSound(q)
BY IdleJob DEF JobSound, Renamer, Doing

LEMMA AccScans ==
  ASSUME RecordsBounds, AccInv, NEW r \in Requests, NEW n \in A!Notes, A!Scan(r, n)
  PROVE  AccInv'
<1> DEFINE job == IF owned[n].owner = jobs[r].name
                  THEN [jobs[r] EXCEPT !.step = "saving", !.note = n, !.rest = @ \ {n}]
                  ELSE [jobs[r] EXCEPT !.rest = @ \ {n}]
<1>1. /\ jobs[r].step = "scanning" /\ n \in jobs[r].rest /\ A!Becomes(r, job)
      /\ UNCHANGED <<nick, owned, counted, opened, accountSpent>>
  BY DEF A!Scan, A!OldName
<1>2. jobs[r] \in AccJob /\ NOTES \in Nat
  BY AccountFacts DEF AccInv, JobsTyped
<1>3. /\ job \in AccJob /\ job.user = jobs[r].user /\ job.name = jobs[r].name
      /\ job.to = jobs[r].to /\ job.owner = jobs[r].owner /\ job.rest = jobs[r].rest \ {n}
      /\ job.step = IF owned[n].owner = jobs[r].name THEN "saving" ELSE "scanning"
      /\ job.note = IF owned[n].owner = jobs[r].name THEN n ELSE jobs[r].note
  <2>1. n \in 0..NOTES
    BY <1>2 DEF A!Notes
  <2>2. CASE owned[n].owner = jobs[r].name
    BY <1>1, <1>2, <2>1, <2>2 DEF AccJob, Steps
  <2>3. CASE owned[n].owner # jobs[r].name
    BY <1>1, <1>2, <2>3 DEF AccJob, Steps
  <2> QED
    BY <2>2, <2>3
<1> HIDE DEF job
<1>4. /\ jobs' \in [Requests -> AccJob] /\ jobs'[r] = job /\ overlap' \in BOOLEAN
      /\ \A q \in Requests : q # r => jobs'[q] = jobs[q]
      /\ ~overlap' => ~overlap
  BY <1>1, <1>3, Became DEF AccInv, JobsTyped
<1>5. NotesTyped' /\ StoreSound' /\ A!Written' = A!Written
  BY <1>1 DEF AccInv, NotesTyped, StoreSound, A!NicknamesUnique, A!Accounts, A!Written
<1>6. owned[n].owner = jobs[r].name => n \in A!Written
  BY <1>2, AccountFacts DEF A!Written, A!Unwritten, AccJob
<1>7. JobsTyped'
  <2>1. nick'[job.user] # A!NoName
    BY <1>1, <1>3 DEF AccInv, JobsTyped
  <2>2. /\ job.step \in {"saving", "annotating"} => job.note \in A!Written'
        /\ job.step # "annotating"
    BY <1>3, <1>5, <1>6
  <2> QED
    BY <1>1, <1>3, <1>5, <2>1, <2>2, JobsBecome DEF AccInv
<1>8. ASSUME ~overlap' PROVE Followed'
  <2>1. Followed /\ Renamer(r) /\ JobSound(r)
    BY <1>1, <1>4, <1>8 DEF AccInv, Renamer, Doing, Followed
  <2>2. /\ \A q \in Requests : q # r => jobs[q] = A!Idle
        /\ \A m \in A!Written : Right(m, owned[m].owner) \/ Due(r, m)
    BY <2>1, OneDue
  <2>3. ASSUME NEW m \in A!Written PROVE Right(m, owned[m].owner) \/ Due(r, m)'
    <3>1. CASE Due(r, m)
      <4>1. owned[m].by = jobs[r].user /\ owned[m].owner = jobs[r].name /\ m \in jobs[r].rest
        BY <1>1, <3>1 DEF Due, Doing
      <4>2. m \in job.rest \/ (job.step = "saving" /\ m = job.note)
        BY <1>3, <4>1
      <4> QED
        BY <1>1, <1>3, <1>4, <4>1, <4>2 DEF Due, Doing
    <3> QED
      BY <2>2, <3>1
  <2>4. ASSUME NEW q \in Requests, q # r PROVE JobSound(q)'
    <3>1. jobs'[q] = A!Idle
      BY <1>4, <2>2, <2>4
    <3> QED
      BY <3>1, IdleJob DEF JobSound, Renamer, Doing
  <2>5. JobSound(r)'
    <3>1. \A q \in Requests \ {r} : jobs'[q] = A!Idle
      BY <1>4, <2>2
    <3>2. /\ \A m \in A!Written :
               owned[m].by \notin {jobs[r].user, Admin} => owned[m].owner # jobs[r].name
          /\ jobs[r].user = Admin \/ jobs[r].to = nick[jobs[r].user]
      BY <1>1, <2>1 DEF JobSound, Renamer, Doing
    <3>3. job.step = "saving" => owned[job.note].by \in {jobs[r].user, Admin}
      BY <1>3, <1>6, <3>2
    <3>4. /\ \A m \in A!Written' :
               owned'[m].by \notin {jobs'[r].user, Admin} => owned'[m].owner # jobs'[r].name
          /\ jobs'[r].user = Admin \/ jobs'[r].to = nick'[jobs'[r].user]
          /\ jobs'[r].step = "saving" => owned'[jobs'[r].note].by \in {jobs'[r].user, Admin}
          /\ jobs'[r].step \in {"scanning", "saving"}
      BY <1>1, <1>3, <1>4, <1>5, <3>2, <3>3
    <3> QED
      BY <3>1, <3>4 DEF JobSound, Renamer, Doing
  <2> QED
    BY <1>1, <1>5, <2>3, <2>4, <2>5 DEF Followed, Right
<1>9. DayCapped'
  BY <1>1, DayStays DEF AccInv, DayCapped
<1> QED
  BY <1>4, <1>5, <1>7, <1>8, <1>9 DEF AccInv

\* The last note was looked at: every name is right.
LEMMA AccAnswers ==
  ASSUME RecordsBounds, AccInv, NEW r \in Requests, A!Answer(r)
  PROVE  AccInv'
<1>1. /\ jobs[r].step = "scanning" /\ jobs[r].rest = {} /\ A!Becomes(r, A!Idle)
      /\ UNCHANGED <<nick, owned, counted, opened, accountSpent>>
  BY DEF A!Answer
<1>2. /\ jobs' \in [Requests -> AccJob] /\ jobs'[r] = A!Idle /\ overlap' \in BOOLEAN
      /\ \A q \in Requests : q # r => jobs'[q] = jobs[q]
      /\ ~overlap' => ~overlap
  BY <1>1, IdleJob, Became DEF AccInv, JobsTyped
<1>3. NotesTyped' /\ StoreSound' /\ A!Written' = A!Written
  BY <1>1 DEF AccInv, NotesTyped, StoreSound, A!NicknamesUnique, A!Accounts, A!Written
<1>4. JobsTyped'
  <2>1. nick'[Admin] # A!NoName
    BY <1>1 DEF AccInv, StoreSound
  <2> QED
    BY <1>1, <1>3, <2>1, IdleJob, JobsBecome DEF AccInv
<1>5. ASSUME ~overlap' PROVE Followed'
  <2>1. Followed /\ Renamer(r)
    BY <1>1, <1>2, <1>5 DEF AccInv, Renamer, Doing
  <2>2. /\ \A q \in Requests : q # r => jobs[q] = A!Idle
        /\ \A m \in A!Written : Right(m, owned[m].owner)
    BY <1>1, <2>1, OneDue DEF Due, Doing
  <2>3. ASSUME NEW q \in Requests PROVE JobSound(q)'
    <3>1. jobs'[q] = A!Idle
      BY <1>2, <2>2
    <3> QED
      BY <3>1, IdleJob DEF JobSound, Renamer, Doing
  <2> QED
    BY <1>1, <1>3, <2>2, <2>3 DEF Followed, Right
<1>6. DayCapped'
  BY <1>1, DayStays DEF AccInv, DayCapped
<1> QED
  BY <1>2, <1>3, <1>4, <1>5, <1>6 DEF AccInv

\* The notes keep their types when the accounts stay.
LEMMA NotesStay ==
  ASSUME AccInv, UNCHANGED owned, \A u \in Users : nick[u] # A!NoName => nick'[u] # A!NoName
  PROVE  NotesTyped' /\ A!Written' = A!Written
BY DEF AccInv, NotesTyped, A!Written

LEMMA AccStores == ASSUME RecordsBounds, AccInv, NEW r \in Requests, A!Store(r) PROVE AccInv'
<1> DEFINE u == jobs[r].user
           n == jobs[r].to
           refused == n # A!Seeded[u] /\ (A!Taken(n) \/ (n \in Reserved /\ u # Admin))
           scan == [jobs[r] EXCEPT !.step = "scanning", !.rest = A!Written]
           job == IF refused \/ jobs[r].name = n THEN A!Idle ELSE scan
<1>1. /\ jobs[r].step = "storing"
      /\ nick' = IF refused THEN nick ELSE [A!Seeded EXCEPT ![u] = n]
      /\ A!Becomes(r, job)
      /\ UNCHANGED <<owned, counted, opened, accountSpent>>
  BY DEF A!Store
<1>2. /\ jobs[r] \in AccJob /\ u \in Users /\ n \in Names /\ jobs[r].name \in Names
      /\ nick[u] # A!NoName
  BY DEF AccInv, JobsTyped, AccJob
<1>3. /\ scan \in AccJob /\ scan.user = u /\ scan.name = jobs[r].name /\ scan.to = n
      /\ scan.step = "scanning" /\ scan.rest = A!Written
  <2>1. A!Written \subseteq A!Notes
    BY DEF A!Written
  <2> QED
    BY <1>2, <2>1 DEF AccJob, Steps
<1> HIDE DEF scan
<1>4. job \in AccJob /\ job.step \in {"idle", "scanning"} /\ job.user \in {Admin, u}
  BY <1>3, IdleJob
<1>5. StoreSound' /\ NamesStay({Admin, u}) /\ (refused \/ nick'[u] = n)
  <2>1. CASE refused
    BY <1>1, <2>1 DEF AccInv, StoreSound, NamesStay, A!NicknamesUnique, A!Accounts
  <2>2. CASE ~refused
    <3>1. nick' = [A!Seeded EXCEPT ![u] = n] /\ (n = A!Seeded[u] \/ ~A!Taken(n))
      BY <1>1, <2>2
    <3> HIDE DEF u, n, refused
    <3>2. StoreSound' /\ NamesStay({Admin, u}) /\ nick'[u] = n
      BY <1>2, <3>1, Stored DEF AccInv
    <3> QED
      BY <3>2
  <2> QED
    BY <2>1, <2>2
<1>6. /\ jobs' \in [Requests -> AccJob] /\ jobs'[r] = job /\ overlap' \in BOOLEAN
      /\ \A q \in Requests : q # r => jobs'[q] = jobs[q]
      /\ ~overlap' => ~overlap
  <2> HIDE DEF job
  <2> QED
    BY <1>1, <1>4, Became DEF AccInv, JobsTyped
<1>7. \A v \in Users : nick[v] # A!NoName => nick'[v] # A!NoName
  BY <1>5 DEF NamesStay
<1>8. NotesTyped' /\ A!Written' = A!Written
  BY <1>1, <1>7, NotesStay
<1>9. JobsTyped'
  <2>1. nick'[job.user] # A!NoName
    BY <1>2, <1>4, <1>5, <1>7 DEF StoreSound
  <2> HIDE DEF job
  <2> QED
    BY <1>1, <1>4, <1>7, <1>8, <2>1, JobsBecome DEF AccInv
<1>10. ASSUME ~overlap' PROVE Followed'
  <2>1. Followed /\ Renamer(r) /\ JobSound(r)
    BY <1>1, <1>6, <1>10 DEF AccInv, Renamer, Doing, Followed
  <2>2. /\ \A q \in Requests : q # r => jobs[q] = A!Idle
        /\ \A m \in A!Written : Right(m, owned[m].owner)
    BY <1>1, <2>1, OneDue DEF Due, Doing
  <2>3. /\ \A m \in A!Written :
             owned[m].by \notin {u, Admin} => owned[m].owner # jobs[r].name
        /\ u = Admin \/ jobs[r].name = nick[u]
    BY <1>1, <2>1 DEF JobSound, Renamer, Doing
  <2>4. ASSUME NEW q \in Requests, q # r PROVE JobSound(q)'
    <3>1. jobs'[q] = A!Idle
      BY <1>6, <2>2, <2>4
    <3> QED
      BY <3>1, IdleJob DEF JobSound, Renamer, Doing
  <2>5. \A m \in A!Written : owned[m].by # u \/ u = Admin => Right(m, owned[m].owner)'
    <3>1. ASSUME NEW m \in A!Written, owned[m].by # u \/ u = Admin
          PROVE  Right(m, owned[m].owner)'
      <4>1. owned[m].by \notin {Admin, u} \ {Admin} /\ Right(m, owned[m].owner)
        BY <2>2, <3>1
      <4> HIDE DEF u
      <4>2. owned[m].by \in Users /\ nick[owned[m].by] # A!NoName
        BY <3>1 DEF AccInv, NotesTyped
      <4> QED
        BY <1>1, <1>5, <4>1, <4>2 DEF NamesStay, Right
    <3> QED
      BY <3>1
  <2>6. CASE job = A!Idle
    <3>1. JobSound(r)'
      BY <1>6, <2>6, IdleJob DEF JobSound, Renamer, Doing
    <3>2. u = Admin \/ nick'[u] = nick[u]
      <4>1. CASE refused
        BY <1>1, <4>1
      <4>2. CASE ~refused
        <5>1. jobs[r].name = n
          <6>1. CASE job = scan
            BY <1>3, <2>6, <6>1, IdleJob
          <6> QED
            BY <4>2, <6>1
        <5> QED
          BY <1>5, <2>3, <4>2, <5>1
      <4> QED
        BY <4>1, <4>2
    <3>3. ASSUME NEW m \in A!Written PROVE Right(m, owned[m].owner)'
      <4>1. Right(m, owned[m].owner)
        BY <2>2
      <4>2. CASE owned[m].by = u /\ u # Admin
        BY <1>1, <3>2, <4>1, <4>2 DEF Right
      <4> QED
        BY <2>5, <4>2
    <3> QED
      BY <1>8, <2>4, <3>1, <3>3 DEF Followed, Right
  <2>7. CASE job # A!Idle
    <3>1. job = scan /\ ~refused /\ nick'[u] = n
      BY <1>5, <2>7
    <3>2. ASSUME NEW m \in A!Written, owned[m].by = u, u # Admin
          PROVE  Right(m, owned[m].owner)' \/ Due(r, m)'
      <4>1. owned[m].owner \in {jobs[r].name, A!Sagwan}
        BY <2>2, <2>3, <3>2 DEF Right
      <4>2. CASE owned[m].owner = jobs[r].name
        BY <1>1, <1>3, <1>6, <3>1, <3>2, <4>2 DEF Due, Doing
      <4>3. CASE owned[m].owner = A!Sagwan
        BY <1>1, <4>3 DEF Right
      <4> QED
        BY <4>1, <4>2, <4>3
    <3>3. JobSound(r)'
      <4>1. \A q \in Requests \ {r} : jobs'[q] = A!Idle
        BY <1>6, <2>2
      <4>2. /\ \A m \in A!Written' :
                 owned'[m].by \notin {jobs'[r].user, Admin} => owned'[m].owner # jobs'[r].name
            /\ jobs'[r].user = Admin \/ jobs'[r].to = nick'[jobs'[r].user]
            /\ jobs'[r].step = "scanning"
        BY <1>1, <1>3, <1>6, <1>8, <2>3, <3>1
      <4> QED
        BY <4>1, <4>2 DEF JobSound, Renamer, Doing
    <3>4. \A m \in A!Written' : Right(m, owned[m].owner)' \/ Due(r, m)'
      BY <1>8, <2>5, <3>2
    <3> QED
      BY <2>4, <3>3, <3>4 DEF Followed
  <2> QED
    BY <2>6, <2>7
<1>11. DayCapped'
  BY <1>1, DayStays DEF AccInv, DayCapped
<1> QED
  BY <1>5, <1>6, <1>8, <1>9, <1>10, <1>11 DEF AccInv

LEMMA NoteChanged ==
  ASSUME RecordsBounds, NotesTyped, NEW m \in A!Written, NEW o \in Names \cup {A!Sagwan},
         owned' = [owned EXCEPT ![m].owner = o], UNCHANGED nick
  PROVE  /\ NotesTyped' /\ A!Written' = A!Written
         /\ owned'[m].owner = o /\ owned'[m].by = owned[m].by
         /\ \A n \in A!Notes : n # m => owned'[n] = owned[n]
         /\ \A n \in A!Notes : owned'[n].by = owned[n].by
<1>1. /\ owned \in [A!Notes -> [owner : OwnerNames, by : Users \cup {A!NoName}]]
      /\ m \in A!Notes /\ o \in OwnerNames /\ o # A!NoName
  BY AccountFacts DEF NotesTyped, A!Written, OwnerNames
<1>2. /\ owned' \in [A!Notes -> [owner : OwnerNames, by : Users \cup {A!NoName}]]
      /\ owned'[m].owner = o /\ owned'[m].by = owned[m].by
      /\ \A n \in A!Notes : n # m => owned'[n] = owned[n]
  BY <1>1
<1>3. A!Written' = A!Written
  <2>1. owned'[m] # A!Unwritten
    BY <1>1, <1>2 DEF A!Unwritten
  <2> QED
    BY <1>2, <2>1 DEF A!Written
<1>4. \A n \in A!Written' : /\ owned'[n].by \in Users /\ nick'[owned'[n].by] # A!NoName
                            /\ owned'[n].owner \in Names \cup {A!Sagwan}
  BY <1>1, <1>2, <1>3 DEF NotesTyped, A!Written
<1> QED
  BY <1>2, <1>3, <1>4 DEF NotesTyped

LEMMA AccSaves == ASSUME RecordsBounds, AccInv, NEW r \in Requests, A!Save(r) PROVE AccInv'
<1> DEFINE m == jobs[r].note
           o == jobs[r].to
           job == [jobs[r] EXCEPT !.step = "scanning", !.note = 0]
<1>1. /\ jobs[r].step = "saving" /\ owned' = [owned EXCEPT ![m].owner = o]
      /\ A!Becomes(r, job) /\ UNCHANGED <<nick, counted, opened, accountSpent>>
  BY DEF A!Save
<1>2. /\ jobs[r] \in AccJob /\ m \in A!Written /\ o \in Names /\ nick[jobs[r].user] # A!NoName
  BY <1>1 DEF AccInv, JobsTyped, AccJob, Doing
<1>3. /\ job \in AccJob /\ job.user = jobs[r].user /\ job.name = jobs[r].name /\ job.to = o
      /\ job.rest = jobs[r].rest /\ job.step = "scanning"
  <2>1. 0 \in 0..NOTES
    BY AccountFacts
  <2> QED
    BY <1>2, <2>1 DEF AccJob, Steps
<1> HIDE DEF job
<1>4. /\ NotesTyped' /\ A!Written' = A!Written
      /\ owned'[m].owner = o /\ owned'[m].by = owned[m].by
      /\ \A n \in A!Notes : n # m => owned'[n] = owned[n]
      /\ \A n \in A!Notes : owned'[n].by = owned[n].by
  <2> HIDE DEF m, o
  <2> QED
    BY <1>1, <1>2, NoteChanged DEF AccInv
<1>5. StoreSound'
  BY <1>1 DEF AccInv, StoreSound, A!NicknamesUnique, A!Accounts
<1>6. /\ jobs' \in [Requests -> AccJob] /\ jobs'[r] = job /\ overlap' \in BOOLEAN
      /\ \A q \in Requests : q # r => jobs'[q] = jobs[q]
      /\ ~overlap' => ~overlap
  BY <1>1, <1>3, Became DEF AccInv, JobsTyped
<1>7. JobsTyped'
  BY <1>1, <1>2, <1>3, <1>4, JobsBecome DEF AccInv
<1>8. ASSUME ~overlap' PROVE Followed'
  <2>1. Followed /\ Renamer(r) /\ JobSound(r)
    BY <1>1, <1>6, <1>8 DEF AccInv, Renamer, Doing, Followed
  <2>2. /\ \A q \in Requests : q # r => jobs[q] = A!Idle
        /\ \A n \in A!Written : Right(n, owned[n].owner) \/ Due(r, n)
    BY <2>1, OneDue
  <2>3. /\ \A n \in A!Written :
             owned[n].by \notin {jobs[r].user, Admin} => owned[n].owner # jobs[r].name
        /\ jobs[r].user = Admin \/ o = nick[jobs[r].user]
        /\ owned[m].by \in {jobs[r].user, Admin}
    BY <1>1, <2>1 DEF JobSound, Renamer, Doing
  <2>4. ASSUME NEW n \in A!Written PROVE Right(n, owned[n].owner)' \/ Due(r, n)'
    <3>1. CASE n = m
      BY <1>1, <1>4, <2>3, <3>1 DEF Right
    <3>2. CASE n # m
      <4>1. owned'[n] = owned[n]
        BY <1>4, <3>2 DEF A!Written
      <4>2. CASE Right(n, owned[n].owner)
        BY <1>1, <4>1, <4>2 DEF Right
      <4>3. CASE Due(r, n)
        <5>1. n \in jobs[r].rest /\ jobs[r].user = owned[n].by /\ jobs[r].name = owned[n].owner
          BY <3>2, <4>3 DEF Due
        <5> QED
          BY <1>3, <1>6, <4>1, <5>1 DEF Due, Doing
      <4> QED
        BY <2>2, <4>2, <4>3
    <3> QED
      BY <3>1, <3>2
  <2>5. ASSUME NEW q \in Requests, q # r PROVE JobSound(q)'
    <3>1. jobs'[q] = A!Idle
      BY <1>6, <2>2, <2>5
    <3> QED
      BY <3>1, IdleJob DEF JobSound, Renamer, Doing
  <2>6. JobSound(r)'
    <3>1. \A q \in Requests \ {r} : jobs'[q] = A!Idle
      BY <1>6, <2>2
    <3>2. ASSUME NEW n \in A!Written, owned[n].by \notin {jobs[r].user, Admin}
          PROVE  owned'[n].owner # jobs[r].name
      <4>1. n # m /\ owned[n].owner # jobs[r].name
        BY <2>3, <3>2
      <4> QED
        BY <1>4, <4>1 DEF A!Written
    <3>3. /\ \A n \in A!Written' :
               owned'[n].by \notin {jobs'[r].user, Admin} => owned'[n].owner # jobs'[r].name
          /\ jobs'[r].user = Admin \/ jobs'[r].to = nick'[jobs'[r].user]
          /\ jobs'[r].step = "scanning"
      <4>1. \A n \in A!Written : owned'[n].by = owned[n].by
        BY <1>4 DEF A!Written
      <4> QED
        BY <1>1, <1>3, <1>4, <1>6, <2>3, <3>2, <4>1
    <3> QED
      BY <3>1, <3>3 DEF JobSound, Renamer, Doing
  <2>7. \A n \in A!Written' : Right(n, owned[n].owner)' \/ Due(r, n)'
    BY <1>4, <2>4
  <2> QED
    BY <2>5, <2>6, <2>7 DEF Followed
<1>9. DayCapped'
  BY <1>1, DayStays DEF AccInv, DayCapped
<1> QED
  BY <1>4, <1>5, <1>6, <1>7, <1>8, <1>9 DEF AccInv

\* A request that is not renaming ends, and what it leaves behind is right.
LEMMA Finishes ==
  ASSUME RecordsBounds, AccInv, NEW r \in Requests, jobs[r] # A!Idle, ~Renamer(r),
         A!Becomes(r, A!Idle), UNCHANGED <<nick, counted, opened, accountSpent>>,
         NotesTyped', A!Written \subseteq A!Written',
         NEW m \in A!Notes, \A n \in A!Notes : n # m => owned'[n] = owned[n],
         Followed => owned'[m].by = Admin \/ owned'[m].owner \in {nick[owned'[m].by], A!Sagwan},
         \A n \in A!Written : owned'[n].by = owned[n].by
  PROVE  AccInv'
<1>1. /\ jobs' \in [Requests -> AccJob] /\ jobs'[r] = A!Idle /\ overlap' \in BOOLEAN
      /\ \A q \in Requests : q # r => jobs'[q] = jobs[q]
      /\ ~overlap' => ~overlap
  BY IdleJob, Became DEF AccInv, JobsTyped
<1>2. StoreSound'
  BY DEF AccInv, StoreSound, A!NicknamesUnique, A!Accounts
<1>3. JobsTyped'
  <2>1. nick'[Admin] # A!NoName
    BY DEF AccInv, StoreSound
  <2> QED
    BY <2>1, IdleJob, JobsBecome DEF AccInv
<1>4. ASSUME ~overlap' PROVE Followed'
  <2>1. Followed
    BY <1>1, <1>4 DEF AccInv
  <2>2. /\ \A n \in A!Written : Right(n, owned[n].owner)
        /\ \A q \in Requests : ~Renamer(q)
    BY <2>1, NoneDue, OnlyOne
  <2>3. ASSUME NEW n \in A!Written' PROVE Right(n, owned[n].owner)'
    <3>1. CASE n = m
      BY <2>1, <3>1 DEF Right
    <3>2. CASE n # m
      <4>1. owned'[n] = owned[n] /\ n \in A!Written
        BY <2>3, <3>2 DEF A!Written
      <4> QED
        BY <2>2, <4>1 DEF Right
    <3> QED
      BY <3>1, <3>2
  <2>4. ASSUME NEW q \in Requests PROVE JobSound(q)'
    <3>1. CASE q = r
      BY <1>1, <3>1, IdleJob DEF JobSound, Renamer, Doing
    <3>2. CASE q # r
      <4>1. JobSound(q) /\ jobs'[q] = jobs[q] /\ ~Renamer(q)
        BY <1>1, <2>1, <2>2, <3>2 DEF Followed
      <4>2. CASE Doing(q, {"annotating"})
        <5>1. jobs[q].note \in A!Written /\ Right(jobs[q].note, jobs[q].owner)
          BY <4>1, <4>2 DEF AccInv, JobsTyped, Doing, JobSound
        <5> QED
          BY <4>1, <4>2, <5>1 DEF JobSound, Renamer, Doing, Right
      <4>3. CASE ~Doing(q, {"annotating"})
        BY <4>1, <4>3 DEF JobSound, Renamer, Doing
      <4> QED
        BY <4>2, <4>3
    <3> QED
      BY <3>1, <3>2
  <2> QED
    BY <2>3, <2>4 DEF Followed
<1>5. DayCapped'
  BY DayStays DEF AccInv, DayCapped
<1> QED
  BY <1>1, <1>2, <1>3, <1>4, <1>5 DEF AccInv

LEMMA AccAnnotates == ASSUME RecordsBounds, AccInv, NEW r \in Requests, A!Annotate(r) PROVE AccInv'
<1> DEFINE m == jobs[r].note
           o == jobs[r].owner
<1>1. /\ jobs[r].step = "annotating" /\ owned' = [owned EXCEPT ![m].owner = o]
      /\ A!Becomes(r, A!Idle) /\ UNCHANGED <<nick, counted, opened, accountSpent>>
  BY DEF A!Annotate
<1>2. /\ m \in A!Written /\ o \in Names \cup {A!Sagwan} /\ jobs[r] # A!Idle /\ ~Renamer(r)
  BY <1>1, IdleJob DEF AccInv, JobsTyped, Doing, Renamer
<1>3. Followed => Right(m, o)
  BY <1>1 DEF Followed, JobSound, Doing
<1> HIDE DEF m, o
<1>4. /\ NotesTyped' /\ A!Written' = A!Written /\ m \in A!Notes
      /\ owned'[m].owner = o /\ owned'[m].by = owned[m].by
      /\ \A n \in A!Notes : n # m => owned'[n] = owned[n]
      /\ \A n \in A!Notes : owned'[n].by = owned[n].by
  BY <1>1, <1>2, NoteChanged DEF AccInv, A!Written
<1>5. \A n \in A!Written : owned'[n].by = owned[n].by
  BY <1>4 DEF A!Written
<1>6. Followed => owned'[m].by = Admin \/ owned'[m].owner \in {nick[owned'[m].by], A!Sagwan}
  BY <1>3, <1>4 DEF Right
<1> QED
  BY <1>1, <1>2, <1>4, <1>5, <1>6, Finishes

LEMMA AccWrites ==
  ASSUME RecordsBounds, AccInv, NEW r \in Requests, NEW n \in A!Notes, A!Write(r, n)
  PROVE  AccInv'
<1> DEFINE note == [owner |-> jobs[r].name, by |-> jobs[r].user]
<1>1. /\ jobs[r].step = "writing" /\ n \notin A!Written /\ owned' = [owned EXCEPT ![n] = note]
      /\ A!Becomes(r, A!Idle) /\ UNCHANGED <<nick, counted, opened, accountSpent>>
  BY DEF A!Write
<1>2. /\ jobs[r].user \in Users /\ jobs[r].name \in Names /\ nick[jobs[r].user] # A!NoName
      /\ jobs[r] # A!Idle /\ ~Renamer(r)
  BY <1>1, IdleJob DEF AccInv, JobsTyped, AccJob, Doing, Renamer
<1>3. /\ owned' \in [A!Notes -> [owner : OwnerNames, by : Users \cup {A!NoName}]]
      /\ owned'[n].owner = jobs[r].name /\ owned'[n].by = jobs[r].user
      /\ \A k \in A!Notes : k # n => owned'[k] = owned[k]
  BY <1>1, <1>2 DEF AccInv, NotesTyped, OwnerNames
<1>4. /\ A!Written' \subseteq A!Written \cup {n} /\ A!Written \subseteq A!Written'
      /\ A!Written \subseteq A!Notes
  BY <1>1, <1>3 DEF A!Written
<1>5. NotesTyped'
  <2>1. ASSUME NEW k \in A!Written'
        PROVE  /\ owned'[k].by \in Users /\ nick'[owned'[k].by] # A!NoName
               /\ owned'[k].owner \in Names \cup {A!Sagwan}
    <3>1. CASE k = n
      BY <1>1, <1>2, <1>3, <3>1
    <3>2. CASE k # n
      BY <1>1, <1>3, <1>4, <3>2 DEF AccInv, NotesTyped
    <3> QED
      BY <3>1, <3>2
  <2> QED
    BY <1>3, <2>1 DEF NotesTyped
<1>6. Followed => owned'[n].by = Admin \/ owned'[n].owner \in {nick[owned'[n].by], A!Sagwan}
  BY <1>1, <1>3 DEF Followed, JobSound, Doing
<1>7. \A k \in A!Written : owned'[k].by = owned[k].by
  BY <1>1, <1>3, <1>4
<1> QED
  BY <1>1, <1>2, <1>3, <1>4, <1>5, <1>6, <1>7, Finishes

LEMMA AccPublishes ==
  ASSUME RecordsBounds, AccInv, NEW m \in A!Notes, A!Publish(m)
  PROVE  AccInv'
<1>1. /\ m \in A!Written /\ owned' = [owned EXCEPT ![m].owner = A!Sagwan]
      /\ UNCHANGED <<nick, jobs, counted, opened, overlap, accountSpent>>
  BY DEF A!Publish
<1>2. /\ NotesTyped' /\ A!Written' = A!Written
      /\ owned'[m].owner = A!Sagwan /\ owned'[m].by = owned[m].by
      /\ \A n \in A!Notes : n # m => owned'[n] = owned[n]
      /\ \A n \in A!Notes : owned'[n].by = owned[n].by
  BY <1>1, NoteChanged DEF AccInv
<1>3. StoreSound' /\ JobsTyped' /\ DayCapped'
  BY <1>1, <1>2 DEF AccInv, StoreSound, A!NicknamesUnique, A!Accounts, JobsTyped, DayCapped,
                    Doing
<1>4. ASSUME Followed PROVE Followed'
  <2>1. ASSUME NEW n \in A!Written PROVE Right(n, owned[n].owner)' \/ \E r \in Requests : Due(r, n)'
    <3>1. CASE n = m
      BY <1>2, <3>1 DEF Right
    <3>2. CASE n # m
      <4>1. owned'[n] = owned[n]
        BY <1>2, <3>2 DEF A!Written
      <4> QED
        BY <1>1, <1>4, <4>1 DEF Followed, Right, Due, Doing
    <3> QED
      BY <3>1, <3>2
  <2>2. ASSUME NEW r \in Requests PROVE JobSound(r)'
    <3>1. JobSound(r) /\ jobs[r] \in AccJob
      BY <1>4 DEF Followed, AccInv, JobsTyped
    <3>2. jobs[r].name # A!Sagwan /\ \A n \in A!Written : owned'[n].by = owned[n].by
      BY <1>2, <3>1, AccountFacts DEF AccJob, A!Written
    <3>3. ASSUME Renamer(r), NEW n \in A!Written, owned[n].by \notin {jobs[r].user, Admin}
          PROVE  owned'[n].owner # jobs[r].name
      <4>1. CASE n = m
        BY <1>2, <3>2, <4>1
      <4>2. CASE n # m
        BY <1>2, <3>1, <3>3, <4>2 DEF JobSound, A!Written
      <4> QED
        BY <4>1, <4>2
    <3>4. Doing(r, {"saving", "annotating"}) => jobs[r].note \in A!Written
      BY DEF AccInv, JobsTyped
    <3>5. Renamer(r)' <=> Renamer(r)
      BY <1>1 DEF Renamer, Doing
    <3>6. Renamer(r)' =>
            /\ \A q \in Requests \ {r} : jobs'[q] = A!Idle
            /\ \A n \in A!Written' :
                 owned'[n].by \notin {jobs'[r].user, Admin} => owned'[n].owner # jobs'[r].name
      BY <1>1, <1>2, <3>1, <3>2, <3>3, <3>5 DEF JobSound
    <3>7. Doing(r, {"annotating"}) => Right(jobs[r].note, jobs[r].owner)'
      BY <1>1, <3>1, <3>2, <3>4 DEF JobSound, Right, Doing
    <3>8. Doing(r, {"saving"}) => owned'[jobs[r].note].by \in {jobs[r].user, Admin}
      BY <3>1, <3>2, <3>4 DEF JobSound, Doing
    <3> QED
      BY <1>1, <3>1, <3>6, <3>7, <3>8 DEF JobSound, Doing
  <2> QED
    BY <1>2, <2>1, <2>2 DEF Followed
<1> QED
  BY <1>1, <1>2, <1>3, <1>4 DEF AccInv

\* Nothing of requests and notes hangs on the admin's name, or on who is new.
LEMMA FollowedStays ==
  ASSUME RecordsBounds, AccInv, NamesStay({Admin}), UNCHANGED <<owned, jobs, overlap>>
  PROVE  /\ NotesTyped' /\ JobsTyped' /\ overlap' \in BOOLEAN /\ (overlap' \/ Followed')
<1>1. \A u \in Users : nick[u] # A!NoName =>
        nick'[u] # A!NoName /\ (u # Admin => nick'[u] = nick[u])
  BY DEF NamesStay
<1>2. NotesTyped' /\ A!Written' = A!Written
  BY <1>1, NotesStay
<1>3. /\ \A r \in Requests : jobs[r].user \in Users /\ nick[jobs[r].user] # A!NoName
      /\ \A n \in A!Written : owned[n].by \in Users /\ nick[owned[n].by] # A!NoName
  BY DEF AccInv, JobsTyped, AccJob, NotesTyped
<1>4. JobsTyped'
  BY <1>1, <1>2, <1>3 DEF AccInv, JobsTyped, Doing
<1>5. ASSUME Followed PROVE Followed'
  <2>1. \A n \in A!Written : \A o : Right(n, o) => Right(n, o)'
    BY <1>1, <1>3 DEF Right
  <2>2. ASSUME NEW n \in A!Written
        PROVE  Right(n, owned[n].owner)' \/ \E r \in Requests : Due(r, n)'
    <3>1. Right(n, owned[n].owner) \/ \E r \in Requests : Due(r, n)
      BY <1>5 DEF Followed
    <3>2. CASE Right(n, owned[n].owner)
      BY <1>1, <1>3, <3>2 DEF Right
    <3>3. CASE \E r \in Requests : Due(r, n)
      BY <3>3 DEF Due, Doing
    <3> QED
      BY <3>1, <3>2, <3>3
  <2>3. ASSUME NEW r \in Requests PROVE JobSound(r)'
    <3>1. JobSound(r) /\ (Doing(r, {"saving", "annotating"}) => jobs[r].note \in A!Written)
      BY <1>5 DEF Followed, AccInv, JobsTyped
    <3>2. /\ Doing(r, {"storing", "writing"}) =>
               jobs[r].user = Admin \/ jobs[r].name = nick'[jobs[r].user]
          /\ Doing(r, {"scanning", "saving"}) =>
               jobs[r].user = Admin \/ jobs[r].to = nick'[jobs[r].user]
      BY <1>1, <1>3, <3>1 DEF JobSound
    <3>3. Doing(r, {"annotating"}) => Right(jobs[r].note, jobs[r].owner)'
      BY <1>1, <1>3, <3>1 DEF JobSound, Right, Doing
    <3> QED
      BY <1>2, <3>1, <3>2, <3>3 DEF JobSound, Renamer, Doing
  <2> QED
    BY <1>2, <2>2, <2>3 DEF Followed
<1> QED
  BY <1>2, <1>4, <1>5 DEF AccInv

LEMMA AccOpens ==
  ASSUME RecordsBounds, AccInv, NEW u \in Users, NEW n \in Names,
         A!SignUp(u, n) \/ A!AdminCreates(u, n)
  PROVE  AccInv'
<1>1. A!Create(u, n) /\ UNCHANGED <<owned, jobs, overlap, accountSpent>>
  BY DEF A!SignUp, A!AdminCreates
<1>2. StoreSound' /\ NamesStay({Admin})
  BY <1>1, Created DEF AccInv
<1>3. DayCapped'
  <2>1. CASE A!AdminCreates(u, n)
    BY <2>1 DEF A!AdminCreates, AccInv, DayCapped
  <2>2. CASE A!SignUp(u, n)
    <3>1. /\ ~(counted >= DAILY) /\ counted' = counted + 1 /\ opened' \in {opened, opened + 1}
      BY <2>2 DEF A!SignUp, A!CapReached
    <3> DEFINE k == DAILY * accountSpent.trouble
    <3>2. /\ counted \in Nat /\ opened \in Nat /\ counted <= DAILY /\ opened <= k + counted
          /\ accountSpent.trouble \in Nat /\ DAILY \in Nat
      BY AccountFacts DEF AccInv, DayCapped
    <3>3. k \in Nat
      BY <3>2
    <3> HIDE DEF k
    <3>4. counted' \in Nat /\ opened' \in Nat /\ counted' <= DAILY /\ opened' <= k + counted'
      BY <3>1, <3>2, <3>3
    <3> QED
      BY <1>1, <3>4 DEF AccInv, DayCapped, k
  <2> QED
    BY <2>1, <2>2
<1> QED
  BY <1>1, <1>2, <1>3, FollowedStays DEF AccInv

LEMMA AccDays ==
  ASSUME RecordsBounds, AccInv, A!NewDay \/ A!Restart
  PROVE  AccInv'
<1>1. /\ counted \in Nat /\ opened \in Nat /\ counted <= DAILY /\ DAILY \in Nat
      /\ opened <= DAILY * accountSpent.trouble + counted
      /\ accountSpent \in [renames : 0..MaxRenames, trouble : 0..MaxTrouble]
      /\ accountSpent.trouble \in Nat /\ MaxTrouble \in Nat
  BY AccountFacts DEF AccInv, DayCapped
<1>2. CASE A!NewDay
  <2>1. counted' = 0 /\ opened' = 0 /\ UNCHANGED <<nick, owned, jobs, overlap, accountSpent>>
    BY <1>2 DEF A!NewDay
  <2>2. DAILY * accountSpent.trouble \in Nat
    BY <1>1
  <2>3. DayCapped'
    BY <1>1, <2>1, <2>2 DEF DayCapped
  <2>4. StoreSound' /\ NamesStay({Admin})
    BY <2>1 DEF AccInv, StoreSound, NamesStay, A!NicknamesUnique, A!Accounts
  <2> QED
    BY <2>1, <2>3, <2>4, FollowedStays DEF AccInv
<1>3. CASE A!Restart
  <2>1. /\ accountSpent.trouble < MaxTrouble
        /\ accountSpent' = [accountSpent EXCEPT !.trouble = @ + 1]
        /\ jobs' = [r \in Requests |-> A!Idle]
        /\ overlap' = (overlap \/ A!Renaming(jobs))
        /\ counted' = 0 /\ nick' = A!Seeded /\ UNCHANGED <<owned, opened>>
    BY <1>3 DEF A!Restart
  <2>2. DayCapped'
    <3>1. /\ accountSpent'.trouble = accountSpent.trouble + 1
          /\ accountSpent' \in [renames : 0..MaxRenames, trouble : 0..MaxTrouble]
      BY <1>1, <2>1
    <3>2. DAILY * (accountSpent.trouble + 1) = DAILY * accountSpent.trouble + DAILY
      BY <1>1
    <3>3. opened <= DAILY * accountSpent'.trouble + 0
      BY <1>1, <3>1, <3>2
    <3> QED
      BY <1>1, <2>1, <3>1, <3>3 DEF DayCapped
  <2>3. StoreSound' /\ NamesStay({Admin})
    BY <2>1, Reseeded DEF AccInv
  <2>4. NotesTyped' /\ A!Written' = A!Written
    BY <2>1, <2>3, NotesStay DEF NamesStay
  <2>5. JobsTyped'
    <3>1. \A r \in Requests : jobs'[r] = A!Idle
      BY <2>1
    <3>2. nick'[Admin] # A!NoName /\ jobs' \in [Requests -> AccJob]
      BY <2>1, <2>3, IdleJob DEF StoreSound
    <3> QED
      BY <3>1, <3>2, IdleJob DEF JobsTyped, Doing
  <2>6. ASSUME ~overlap' PROVE Followed'
    <3>1. Followed /\ \A r \in Requests : ~Renamer(r)
      BY <2>1, <2>6 DEF AccInv, A!Renaming, Renamer, Doing
    <3>2. \A n \in A!Written : Right(n, owned[n].owner)
      BY <3>1 DEF Followed, Due, Renamer, Doing
    <3>3. \A n \in A!Written : owned[n].by \in Users /\ nick[owned[n].by] # A!NoName
      BY DEF AccInv, NotesTyped
    <3>4. \A n \in A!Written : Right(n, owned[n].owner)'
      BY <2>1, <2>3, <3>2, <3>3 DEF NamesStay, Right
    <3>5. \A r \in Requests : JobSound(r)'
      BY <2>1, IdleJob DEF JobSound, Renamer, Doing
    <3> QED
      BY <2>4, <3>4, <3>5 DEF Followed
  <2>7. overlap' \in BOOLEAN
    BY <2>1 DEF AccInv
  <2> QED
    BY <2>2, <2>3, <2>4, <2>5, <2>6, <2>7 DEF AccInv
<1> QED
  BY <1>2, <1>3

LEMMA AccStart == ASSUME RecordsBounds, A!Init PROVE AccInv
<1>1. /\ nick = [u \in Users |-> IF u = Admin THEN AdminName ELSE A!NoName]
      /\ owned = [n \in A!Notes |-> A!Unwritten] /\ jobs = [r \in Requests |-> A!Idle]
      /\ counted = 0 /\ opened = 0 /\ overlap = FALSE
      /\ accountSpent = [renames |-> 0, trouble |-> 0]
  BY DEF A!Init
<1>2. StoreSound
  BY <1>1, AccountFacts DEF StoreSound, A!NicknamesUnique, A!Accounts
<1>3. NotesTyped /\ A!Written = {}
  BY <1>1 DEF NotesTyped, A!Written, A!Unwritten, OwnerNames
<1>4. JobsTyped /\ Followed
  BY <1>1, <1>2, <1>3, IdleJob, IdleSound DEF JobsTyped, Followed, Doing, StoreSound
<1>5. DayCapped
  BY <1>1, AccountFacts DEF DayCapped
<1> QED
  BY <1>1, <1>2, <1>3, <1>4, <1>5 DEF AccInv

LEMMA AccStep ==
  ASSUME RecordsBounds, AccInv, A!Next \/ UNCHANGED accountVars
  PROVE  AccInv'
<1>1. CASE \E u \in Users, n \in Names : A!SignUp(u, n) \/ A!AdminCreates(u, n)
  BY <1>1, AccOpens
<1>2. CASE A!NewDay \/ A!Restart
  BY <1>2, AccDays
<1>3. CASE \E r \in Requests : A!Request(r)
  <2>1. PICK r \in Requests : A!Request(r)
    BY <1>3
  <2>2. CASE \E n \in A!Notes : A!Load(r, n)
    BY <2>2, AccBegins, AccountFacts
  <2>3. CASE \E u \in Users : A!AskWrite(r, u) \/ \E n \in Names : A!AskRename(r, u, n)
    BY <2>3, AccBegins
  <2>4. CASE \E n \in A!Notes : A!Scan(r, n) \/ A!Write(r, n)
    BY <2>4, AccScans, AccWrites
  <2>5. CASE A!Store(r) \/ A!Save(r) \/ A!Answer(r) \/ A!Annotate(r)
    BY <2>5, AccStores, AccSaves, AccAnswers, AccAnnotates
  <2> QED
    BY <2>1, <2>2, <2>3, <2>4, <2>5 DEF A!Request
<1>4. CASE \E n \in A!Notes : A!Publish(n)
  BY <1>4, AccPublishes
<1>5. CASE UNCHANGED accountVars
  <2>1. UNCHANGED <<nick, owned, jobs, counted, opened, overlap, accountSpent>>
    BY <1>5 DEF accountVars
  <2>2. StoreSound' /\ NamesStay({Admin})
    BY <2>1 DEF AccInv, StoreSound, NamesStay, A!NicknamesUnique, A!Accounts
  <2>3. DayCapped'
    BY <2>1 DEF AccInv, DayCapped
  <2> QED
    BY <2>1, <2>2, <2>3, FollowedStays DEF AccInv
<1> QED
  BY <1>1, <1>2, <1>3, <1>4, <1>5 DEF A!Next

LEMMA AccHolds ==
  ASSUME RecordsBounds, AccInv
  PROVE  A!TypeOK /\ A!NicknamesUnique /\ A!NotesFollowNames /\ A!OpenedCapped
<1>1. A!TypeOK
  <2>1. \A r \in Requests : jobs[r].step \in Steps
    BY DEF AccInv, JobsTyped, AccJob
  <2> QED
    BY <2>1 DEF AccInv, StoreSound, NotesTyped, DayCapped, A!TypeOK, OwnerNames, Steps
<1>2. A!NotesFollowNames
  <2>1. ASSUME ~overlap, NEW n \in A!Written
        PROVE  \/ owned[n].owner \in {nick[owned[n].by], A!Sagwan}
               \/ owned[n].by = Admin
               \/ \E r \in Requests : jobs[r].user = owned[n].by /\ A!Renaming(jobs)
    <3>1. Right(n, owned[n].owner) \/ \E r \in Requests : Due(r, n)
      BY <2>1 DEF AccInv, Followed
    <3> QED
      BY <3>1 DEF Right, Due, Doing, A!Renaming
  <2> QED
    BY <2>1 DEF A!NotesFollowNames
<1>3. A!OpenedCapped
  <2>1. /\ counted \in Nat /\ opened \in Nat /\ counted <= DAILY /\ DAILY \in Nat
        /\ opened <= DAILY * accountSpent.trouble + counted /\ accountSpent.trouble \in Nat
    BY AccountFacts DEF AccInv, DayCapped
  <2>2. DAILY * (accountSpent.trouble + 1) = DAILY * accountSpent.trouble + DAILY
    BY <2>1
  <2> QED
    BY <2>1, <2>2 DEF A!OpenedCapped
<1> QED
  BY <1>1, <1>2, <1>3 DEF AccInv, StoreSound

-----------------------------------------------------------------------------
(* Reviews and what they target.                                           *)

ReviewType == [target : T!Notes \cup {T!Nobody}, stance : Stances \cup {T!Nobody},
               lifecycle : Lifecycles \cup {T!Nobody}, own : BOOLEAN]
NoteKinds == {"absent", "capsule", "claim", "other"}

\* Along the targets a rank goes down.
Descends(rank) ==
    \A n \in T!Notes : T!Target(n) \in T!Notes => rank[T!Target(n)] < rank[n]

ReviewsTyped ==
    /\ kind \in [T!Notes -> NoteKinds] /\ review \in [Claims -> ReviewType]
    /\ counts \in [T!Notes -> [Stances -> Nat]]
    /\ stale \subseteq T!Notes /\ direct \in BOOLEAN /\ threadSpent \in 0..MaxBypass

CountsRight == \A n \in T!Notes : n \in stale \/ counts[n] = T!Counted(n, kind, review)

ReviewsInv ==
    /\ ReviewsTyped /\ CountsRight
    /\ direct \/ \E rank \in [T!Notes -> Nat] : Descends(rank)

LEMMA ReviewFacts ==
  ASSUME RecordsBounds
  PROVE  /\ T!Nobody \notin T!Notes /\ Claims \subseteq T!Notes /\ IsFiniteSet(Claims)
         /\ DEPTH \in Nat \ {0} /\ MaxBypass \in Nat /\ T!NoReview \in ReviewType
         /\ T!NoReview.target = T!Nobody
<1>1. /\ T!Nobody \notin T!Notes /\ Claims \subseteq T!Notes /\ IsFiniteSet(Claims)
      /\ DEPTH \in Nat \ {0} /\ MaxBypass \in Nat
  BY DEF RecordsBounds, T!ThreadBounds, T!IsFiniteSet, IsFiniteSet, T!Nobody, T!Notes
<1> QED
  BY <1>1 DEF T!NoReview, ReviewType

\* The walk along the targets.

After(n) == IF n = T!Nobody THEN T!Nobody ELSE T!Target(n)
IsWalk(w, n, k) == w = [i \in 0..k |-> IF i = 0 THEN n ELSE After(w[i - 1])]

LEMMA WalkExists == ASSUME NEW n, NEW k \in Nat PROVE \E w : IsWalk(w, n, k)
<1> DEFINE K == {i \in Nat : \E w : IsWalk(w, n, i)}
<1>1. 0 \in K
  <2> DEFINE w == [i \in 0..0 |-> n]
  <2>1. IsWalk(w, n, 0)
    BY DEF IsWalk
  <2> QED
    BY <2>1
<1>2. ASSUME NEW i \in K PROVE i + 1 \in K
  <2>1. PICK w : IsWalk(w, n, i)
    BY <1>2
  <2> DEFINE x == [j \in 0..(i + 1) |-> IF j = i + 1 THEN After(w[i]) ELSE w[j]]
  <2>2. i \in Nat
    OBVIOUS
  <2>3. /\ \A j \in 0..i : w[j] = IF j = 0 THEN n ELSE After(w[j - 1])
        /\ \A j \in 0..i : x[j] = w[j]
        /\ x[i + 1] = After(w[i])
    BY <2>1, <2>2 DEF IsWalk
  <2>4. \A j \in 0..(i + 1) : x[j] = IF j = 0 THEN n ELSE After(x[j - 1])
    <3>1. ASSUME NEW j \in 0..(i + 1) PROVE x[j] = IF j = 0 THEN n ELSE After(x[j - 1])
      <4>1. CASE j = i + 1
        BY <2>2, <2>3, <4>1
      <4>2. CASE j # i + 1 /\ j # 0
        <5>1. j \in 0..i /\ j - 1 \in 0..i
          BY <2>2, <4>2
        <5> HIDE DEF x
        <5> QED
          BY <2>3, <4>2, <5>1
      <4>3. CASE j = 0
        BY <2>2, <2>3, <4>3
      <4> QED
        BY <4>1, <4>2, <4>3
    <3> QED
      BY <3>1
  <2>5. x = [j \in 0..(i + 1) |-> x[j]]
    OBVIOUS
  <2> HIDE DEF x
  <2>6. IsWalk(x, n, i + 1)
    BY <2>4, <2>5 DEF IsWalk
  <2> QED
    BY <2>2, <2>6
<1>3. k \in K
  <2> HIDE DEF K
  <2>1. K \in SUBSET Nat
    BY DEF K
  <2> QED
    BY <1>1, <1>2, <2>1, Induction
<1> QED
  BY <1>3

LEMMA WalkFacts ==
  ASSUME RecordsBounds, NEW n
  PROVE  /\ T!Walk(n)[0] = n
         /\ \A i \in 0..(DEPTH - 1) : T!Walk(n)[i + 1] = After(T!Walk(n)[i])
<1>1. T!Walk(n) = CHOOSE w : IsWalk(w, n, DEPTH)
  BY DEF T!Walk, IsWalk, After
<1>2. IsWalk(T!Walk(n), n, DEPTH)
  BY <1>1, WalkExists, ReviewFacts
<1> HIDE DEF T!Walk
<1>3. \A i \in 0..DEPTH : T!Walk(n)[i] = IF i = 0 THEN n ELSE After(T!Walk(n)[i - 1])
  BY <1>2 DEF IsWalk
<1>4. \A i \in 0..(DEPTH - 1) : i + 1 \in 0..DEPTH /\ i + 1 # 0 /\ (i + 1) - 1 = i
  BY ReviewFacts
<1> QED
  BY <1>3, <1>4, ReviewFacts

LEMMA TargetType ==
  ASSUME RecordsBounds, ReviewsTyped, NEW n
  PROVE  T!Target(n) \in T!Notes \cup {T!Nobody}
BY DEF ReviewsTyped, ReviewType, T!Target

\* Along a walk the rank goes down, so nobody comes by where the walk began.
LEMMA WalkDescends ==
  ASSUME RecordsBounds, ReviewsTyped, NEW rank \in [T!Notes -> Nat], Descends(rank),
         NEW c \in T!Notes, NEW i \in 1..DEPTH
  PROVE  T!Walk(c)[i] # c
<1> DEFINE w == T!Walk(c)
           K == {k \in Nat : k + 1 <= DEPTH =>
                   w[k + 1] = T!Nobody \/ (w[k + 1] \in T!Notes /\ rank[w[k + 1]] < rank[c])}
<1>1. /\ w[0] = c /\ DEPTH \in Nat /\ T!Nobody \notin T!Notes
      /\ \A k \in 0..(DEPTH - 1) : w[k + 1] = After(w[k])
  BY WalkFacts, ReviewFacts
<1> HIDE DEF w
<1>2. 0 \in K
  <2>1. w[0 + 1] = T!Target(c) \/ ~(0 + 1 <= DEPTH)
    BY <1>1 DEF After
  <2> QED
    BY <2>1, TargetType DEF Descends
<1>3. ASSUME NEW k \in K PROVE k + 1 \in K
  <2>1. SUFFICES ASSUME (k + 1) + 1 <= DEPTH
                 PROVE  \/ w[(k + 1) + 1] = T!Nobody
                        \/ w[(k + 1) + 1] \in T!Notes /\ rank[w[(k + 1) + 1]] < rank[c]
    OBVIOUS
  <2>2. /\ w[(k + 1) + 1] = After(w[k + 1])
        /\ w[k + 1] = T!Nobody \/ (w[k + 1] \in T!Notes /\ rank[w[k + 1]] < rank[c])
    BY <1>1, <2>1
  <2>3. CASE w[k + 1] = T!Nobody
    BY <2>2, <2>3 DEF After
  <2>4. CASE w[k + 1] \in T!Notes /\ rank[w[k + 1]] < rank[c] /\ w[k + 1] # T!Nobody
    <3> DEFINE v == w[k + 1]
               t == T!Target(v)
    <3>1. w[(k + 1) + 1] = t /\ t \in T!Notes \cup {T!Nobody} /\ v \in T!Notes /\ rank[v] < rank[c]
      BY <2>2, <2>4, TargetType DEF After
    <3>2. t \in T!Notes => rank[t] < rank[v]
      BY <3>1 DEF Descends
    <3> HIDE DEF t, v
    <3>3. t \in T!Notes => rank[t] \in Nat /\ rank[v] \in Nat /\ rank[c] \in Nat
      BY <3>1
    <3> QED
      BY <3>1, <3>2, <3>3
  <2> QED
    BY <1>1, <2>2, <2>3, <2>4
<1>4. i - 1 \in K
  <2>1. K \in SUBSET Nat /\ i - 1 \in Nat
    BY <1>1
  <2> HIDE DEF K
  <2> QED
    BY <1>2, <1>3, <2>1, Induction
<1>5. (i - 1) + 1 = i /\ i <= DEPTH
  BY <1>1
<1>6. w[i] = T!Nobody \/ (w[i] \in T!Notes /\ rank[w[i]] < rank[c])
  BY <1>4, <1>5
<1>7. w[i] # c
  BY <1>1, <1>6
<1> QED
  BY <1>7 DEF w

\* The target t of c was found to be free of c by the walk: c moves above all of the walk.
LEMMA StillDescends ==
  ASSUME RecordsBounds, ReviewsTyped, NEW rank \in [T!Notes -> Nat], Descends(rank),
         NEW c \in Claims, NEW t \in T!Notes, T!MayTarget(c, t),
         T!Target(c)' = t, \A n \in T!Notes : n # c => T!Target(n)' = T!Target(n)
  PROVE  \E after \in [T!Notes -> Nat] : Descends(after)'
<1> DEFINE w == T!Walk(t)
           X == {w[i] : i \in 0..DEPTH} \ {T!Nobody}
           after == [n \in T!Notes |-> IF n \in X THEN rank[n] ELSE rank[n] + rank[t] + 1]
<1>1. /\ w[0] = t /\ DEPTH \in Nat \ {0} /\ T!Nobody \notin T!Notes /\ c \in T!Notes
      /\ \A k \in 0..(DEPTH - 1) : w[k + 1] = After(w[k])
      /\ \A k \in 0..(DEPTH - 1) : w[k] # c
      /\ w[DEPTH] = T!Nobody
  BY WalkFacts, ReviewFacts DEF T!MayTarget, T!Loops
<1> HIDE DEF w
<1>2. t \in X
  BY <1>1
<1>3. c \notin X
  <2>1. ASSUME NEW i \in 0..DEPTH PROVE w[i] # c
    <3>1. CASE i = DEPTH
      BY <1>1, <3>1
    <3>2. CASE i # DEPTH
      BY <1>1, <3>2
    <3> QED
      BY <3>1, <3>2
  <2> QED
    BY <2>1
<1>4. ASSUME NEW n \in X, T!Target(n) \in T!Notes PROVE T!Target(n) \in X
  <2>1. PICK i \in 0..DEPTH : n = w[i] /\ n # T!Nobody
    OBVIOUS
  <2>2. i \in 0..(DEPTH - 1)
    BY <1>1, <2>1
  <2>3. w[i + 1] = T!Target(n) /\ i + 1 \in 0..DEPTH
    BY <1>1, <2>1, <2>2 DEF After
  <2> QED
    BY <1>1, <1>4, <2>3
<1> HIDE DEF X
<1>5. after \in [T!Notes -> Nat]
  OBVIOUS
<1>6. ASSUME NEW n \in T!Notes, T!Target(n)' \in T!Notes PROVE after[T!Target(n)'] < after[n]
  <2>1. CASE n = c
    <3>1. T!Target(n)' = t /\ after[t] = rank[t] /\ after[n] = rank[n] + rank[t] + 1
      BY <1>2, <1>3, <2>1
    <3> HIDE DEF after
    <3> QED
      BY <3>1
  <2>2. CASE n # c
    <3> DEFINE v == T!Target(n)
    <3>1. v \in T!Notes /\ T!Target(n)' = v /\ rank[v] < rank[n]
      BY <1>6, <2>2 DEF Descends
    <3>2. n \in X => v \in X
      BY <1>4, <3>1
    <3> HIDE DEF v
    <3>3. /\ after[v] = IF v \in X THEN rank[v] ELSE rank[v] + rank[t] + 1
          /\ after[n] = IF n \in X THEN rank[n] ELSE rank[n] + rank[t] + 1
          /\ rank[v] \in Nat /\ rank[n] \in Nat /\ rank[t] \in Nat
      BY <3>1
    <3> HIDE DEF after
    <3>4. after[v] < after[n]
      BY <3>1, <3>2, <3>3
    <3> QED
      BY <3>1, <3>4
  <2> QED
    BY <2>1, <2>2
<1> HIDE DEF after
<1>7. \A n \in T!Notes : T!Target(n)' \in T!Notes => after[T!Target(n)'] < after[n]
  BY <1>6
<1> QED
  BY <1>5, <1>7 DEF Descends

\* A note that loses its target leaves every rank as it is.
LEMMA DescendsStill ==
  ASSUME RecordsBounds, NEW rank \in [T!Notes -> Nat], Descends(rank),
         \A n \in T!Notes : T!Target(n)' \in {T!Target(n), T!Nobody}
  PROVE  Descends(rank)'
BY ReviewFacts DEF Descends

\* Claim c counts for note n.
Tells(c, n, s, kinds, says) ==
    /\ kinds[c] = "claim" /\ says[c].target = n
    /\ says[c].lifecycle # "consolidated" /\ ~says[c].own /\ says[c].stance = s

LEMMA CountType ==
  ASSUME RecordsBounds, NEW n, NEW kinds, NEW says
  PROVE  T!Counted(n, kinds, says) \in [Stances -> Nat]
<1>1. ASSUME NEW s \in Stances
      PROVE  Cardinality({c \in Claims :
                /\ kinds[c] = "claim" /\ says[c].target = n
                /\ says[c].lifecycle # "consolidated" /\ ~says[c].own /\ says[c].stance = s}) \in Nat
  <2> DEFINE D == {c \in Claims :
                /\ kinds[c] = "claim" /\ says[c].target = n
                /\ says[c].lifecycle # "consolidated" /\ ~says[c].own /\ says[c].stance = s}
  <2>1. D \subseteq Claims
    OBVIOUS
  <2> HIDE DEF D
  <2>2. Cardinality(D) \in Nat
    BY <2>1, ReviewFacts, FS_Subset, FS_CardinalityType
  <2> QED
    BY <2>2 DEF D
<1> QED
  BY <1>1 DEF T!Counted, T!Cardinality, Cardinality

\* The same claims count, so the counts are the same.
LEMMA SameCount ==
  ASSUME NEW n, NEW kinds, NEW says, NEW kindsB, NEW saysB,
         \A c \in Claims, s \in Stances : Tells(c, n, s, kinds, says) <=> Tells(c, n, s, kindsB, saysB)
  PROVE  T!Counted(n, kinds, says) = T!Counted(n, kindsB, saysB)
<1>1. ASSUME NEW s \in Stances
      PROVE  {c \in Claims : /\ kinds[c] = "claim" /\ says[c].target = n
                             /\ says[c].lifecycle # "consolidated" /\ ~says[c].own
                             /\ says[c].stance = s}
             = {c \in Claims : /\ kindsB[c] = "claim" /\ saysB[c].target = n
                               /\ saysB[c].lifecycle # "consolidated" /\ ~saysB[c].own
                               /\ saysB[c].stance = s}
  BY DEF Tells
<1> QED
  BY <1>1 DEF T!Counted

LEMMA Written ==
  ASSUME RecordsBounds, ReviewsTyped, CountsRight, NEW c \in Claims, NEW new \in ReviewType,
         T!WriteReview(c, new), UNCHANGED threadSpent
  PROVE  /\ ReviewsTyped' /\ CountsRight'
         /\ T!Target(c)' = new.target /\ \A n \in T!Notes : n # c => T!Target(n)' = T!Target(n)
<1> DEFINE says == [review EXCEPT ![c] = new]
           kinds == [kind EXCEPT ![c] = "claim"]
           old == IF T!Exists(c) THEN review[c] ELSE T!NoReview
           remaining == T!Recounted(old, new)
           fails == old.target \in remaining /\ ~T!Exists(old.target)
<1>1. /\ kind' = kinds /\ review' = says /\ UNCHANGED direct
      /\ IF fails THEN counts' = counts /\ stale' = stale \cup remaining
         ELSE /\ counts' = [n \in T!Notes |-> IF n \in remaining THEN T!Counted(n, kinds, says)
                                              ELSE counts[n]]
              /\ stale' = stale \ remaining
  BY DEF T!WriteReview
<1>2. /\ kind \in [T!Notes -> NoteKinds] /\ review \in [Claims -> ReviewType]
      /\ c \in T!Notes /\ T!Nobody \notin T!Notes /\ old \in ReviewType
  BY ReviewFacts DEF ReviewsTyped
<1>3. /\ kinds \in [T!Notes -> NoteKinds] /\ says \in [Claims -> ReviewType]
      /\ kinds[c] = "claim" /\ says[c] = new
      /\ \A n \in T!Notes : n # c => kinds[n] = kind[n]
      /\ \A n \in Claims : n # c => says[n] = review[n]
  BY <1>2 DEF NoteKinds
<1>4. remaining \subseteq T!Notes
  <2>1. old.target \in T!Notes \cup {T!Nobody} /\ new.target \in T!Notes \cup {T!Nobody}
    BY <1>2 DEF ReviewType
  <2> HIDE DEF old
  <2> QED
    BY <2>1 DEF T!Recounted
<1>5. ASSUME NEW n \in T!Notes, n \notin remaining
      PROVE  T!Counted(n, kinds, says) = T!Counted(n, kind, review)
  <2>1. ASSUME NEW s \in Stances PROVE ~Tells(c, n, s, kind, review)
    <3>1. CASE new.target = n
      BY <1>2, <1>5, <2>1, <3>1 DEF T!Recounted, Tells, T!Exists
    <3>2. CASE new.target # n
      BY <1>2, <1>5, <2>1, <3>2 DEF T!Recounted, Tells, T!Exists
    <3> QED
      BY <3>1, <3>2
  <2>2. ASSUME NEW s \in Stances PROVE ~Tells(c, n, s, kinds, says)
    <3>1. CASE new.target = n
      BY <1>2, <1>3, <1>5, <3>1 DEF T!Recounted, Tells
    <3>2. CASE new.target # n
      BY <1>3, <3>2 DEF Tells
    <3> QED
      BY <3>1, <3>2
  <2> HIDE DEF kinds, says, old, remaining
  <2>3. \A d \in Claims, s \in Stances : Tells(d, n, s, kinds, says) <=> Tells(d, n, s, kind, review)
    <3>1. ASSUME NEW d \in Claims, NEW s \in Stances, d # c
          PROVE  Tells(d, n, s, kinds, says) <=> Tells(d, n, s, kind, review)
      <4>1. kinds[d] = kind[d] /\ says[d] = review[d]
        BY <1>3, <3>1, ReviewFacts
      <4> QED
        BY <4>1 DEF Tells
    <3> QED
      BY <2>1, <2>2, <3>1
  <2> QED
    BY <2>3, SameCount
<1> HIDE DEF kinds, says, old, remaining
<1>6. ReviewsTyped'
  <2>1. counts' \in [T!Notes -> [Stances -> Nat]]
    BY <1>1, CountType DEF ReviewsTyped
  <2>2. stale' \subseteq T!Notes
    BY <1>1, <1>4 DEF ReviewsTyped
  <2> QED
    BY <1>1, <1>3, <2>1, <2>2 DEF ReviewsTyped
<1>7. CountsRight'
  <2>1. ASSUME NEW n \in T!Notes PROVE n \in stale' \/ counts'[n] = T!Counted(n, kind', review')
    <3>1. n \in stale \/ counts[n] = T!Counted(n, kind, review)
      BY DEF CountsRight
    <3>2. CASE fails
      BY <1>1, <1>5, <3>1, <3>2
    <3>3. CASE ~fails
      BY <1>1, <1>5, <3>1, <3>3
    <3> QED
      BY <3>2, <3>3
  <2> QED
    BY <2>1 DEF CountsRight
<1>8. T!Target(c)' = new.target /\ \A n \in T!Notes : n # c => T!Target(n)' = T!Target(n)
  BY <1>1, <1>3 DEF T!Target, T!Exists
<1> QED
  BY <1>6, <1>7, <1>8

LEMMA ReviewUpserts ==
  ASSUME RecordsBounds, ReviewsInv, NEW c \in Claims, NEW by \in Writers, NEW t \in T!Notes,
         NEW stance \in Stances, NEW lifecycle \in Lifecycles,
         T!UpsertReview(c, by, t, stance, lifecycle)
  PROVE  ReviewsInv'
<1> DEFINE new == [target |-> t, stance |-> stance, lifecycle |-> lifecycle,
                   own |-> Owner[t] = by]
<1>1. /\ T!MayTarget(c, t) /\ T!WriteReview(c, new) /\ UNCHANGED threadSpent /\ direct' = direct
      /\ new \in ReviewType /\ new.target = t
  BY DEF T!UpsertReview, T!WriteReview, ReviewType
<1> HIDE DEF new
<1>2. /\ ReviewsTyped' /\ CountsRight'
      /\ T!Target(c)' = t /\ \A n \in T!Notes : n # c => T!Target(n)' = T!Target(n)
  BY <1>1, Written DEF ReviewsInv
<1>3. ASSUME ~direct PROVE \E rank \in [T!Notes -> Nat] : Descends(rank)'
  <2>1. PICK rank \in [T!Notes -> Nat] : Descends(rank)
    BY <1>3 DEF ReviewsInv
  <2> QED
    BY <1>1, <1>2, <2>1, StillDescends DEF ReviewsInv
<1> QED
  BY <1>1, <1>2, <1>3 DEF ReviewsInv

LEMMA RanksStay ==
  ASSUME RecordsBounds, ReviewsInv, direct' = direct,
         \A n \in T!Notes : T!Target(n)' \in {T!Target(n), T!Nobody}
  PROVE  direct' \/ \E rank \in [T!Notes -> Nat] : Descends(rank)'
<1>1. ASSUME ~direct PROVE \E rank \in [T!Notes -> Nat] : Descends(rank)'
  <2>1. PICK rank \in [T!Notes -> Nat] : Descends(rank)
    BY <1>1 DEF ReviewsInv
  <2> QED
    BY <2>1, DescendsStill
<1> QED
  BY <1>1

LEMMA ReviewDetaches ==
  ASSUME RecordsBounds, ReviewsInv, NEW c \in Claims, NEW by \in Writers, T!Detach(c, by)
  PROVE  ReviewsInv'
<1>1. T!WriteReview(c, T!NoReview) /\ UNCHANGED threadSpent /\ direct' = direct
  BY DEF T!Detach, T!WriteReview
<1>2. /\ ReviewsTyped' /\ CountsRight'
      /\ T!Target(c)' = T!Nobody /\ \A n \in T!Notes : n # c => T!Target(n)' = T!Target(n)
  BY <1>1, ReviewFacts, Written DEF ReviewsInv
<1>3. direct' \/ \E rank \in [T!Notes -> Nat] : Descends(rank)'
  BY <1>1, <1>2, RanksStay
<1> QED
  BY <1>2, <1>3 DEF ReviewsInv

\* Counts of notes are right when what they count and say is as before.
LEMMA CountsStay ==
  ASSUME RecordsBounds, ReviewsTyped, CountsRight, stale \subseteq stale',
         \A n \in T!Notes \ stale' : counts'[n] = counts[n],
         \A n \in T!Notes \ stale', c \in Claims, s \in Stances :
             Tells(c, n, s, kind', review') <=> Tells(c, n, s, kind, review)
  PROVE  CountsRight'
<1>1. ASSUME NEW n \in T!Notes, n \notin stale' PROVE counts'[n] = T!Counted(n, kind', review')
  <2>1. counts'[n] = counts[n] /\ counts[n] = T!Counted(n, kind, review)
    BY <1>1 DEF CountsRight
  <2>2. \A c \in Claims, s \in Stances :
          Tells(c, n, s, kind, review) <=> Tells(c, n, s, kind', review')
    BY <1>1
  <2>3. T!Counted(n, kind, review) = T!Counted(n, kind', review')
    BY <2>2, SameCount
  <2> QED
    BY <2>1, <2>3
<1> QED
  BY <1>1 DEF CountsRight

LEMMA ReviewBypassed ==
  ASSUME RecordsBounds, ReviewsTyped, T!Bypass
  PROVE  threadSpent' \in 0..MaxBypass
BY ReviewFacts DEF ReviewsTyped, T!Bypass

LEMMA ReviewChanges ==
  ASSUME RecordsBounds, ReviewsInv, NEW c \in Claims, T!ChangeKind(c)
  PROVE  ReviewsInv'
<1>1. /\ kind[c] = "claim" /\ kind' = [kind EXCEPT ![c] = "other"] /\ T!Bypass
      /\ stale' = stale \cup ({review[c].target} \ {T!Nobody})
      /\ UNCHANGED <<review, counts, direct>>
  BY DEF T!ChangeKind
<1>2. /\ kind \in [T!Notes -> NoteKinds] /\ review \in [Claims -> ReviewType] /\ c \in T!Notes
      /\ Claims \subseteq T!Notes /\ T!Nobody \notin T!Notes
      /\ review[c].target \in T!Notes \cup {T!Nobody}
      /\ kind' \in [T!Notes -> NoteKinds] /\ kind'[c] = "other"
      /\ \A n \in T!Notes : n # c => kind'[n] = kind[n]
  BY <1>1, ReviewFacts DEF ReviewsInv, ReviewsTyped, NoteKinds, ReviewType
<1>3. ReviewsTyped'
  BY <1>1, <1>2, ReviewBypassed DEF ReviewsInv, ReviewsTyped
<1>4. CountsRight'
  <2>1. ASSUME NEW n \in T!Notes \ stale', NEW d \in Claims, NEW s \in Stances
        PROVE  Tells(d, n, s, kind', review') <=> Tells(d, n, s, kind, review)
    BY <1>1, <1>2, <2>1 DEF Tells
  <2> QED
    BY <1>1, <2>1, CountsStay DEF ReviewsInv
<1>5. \A n \in T!Notes : T!Target(n)' \in {T!Target(n), T!Nobody}
  BY <1>1, <1>2 DEF T!Target, T!Exists
<1>6. direct' \/ \E rank \in [T!Notes -> Nat] : Descends(rank)'
  BY <1>1, <1>5, RanksStay
<1> QED
  BY <1>3, <1>4, <1>6 DEF ReviewsInv

LEMMA ReviewDeletes ==
  ASSUME RecordsBounds, ReviewsInv, NEW m \in T!Notes, T!Delete(m)
  PROVE  ReviewsInv'
<1>1. /\ kind[m] # "absent" /\ kind' = [kind EXCEPT ![m] = "absent"] /\ T!Bypass
      /\ counts' = [counts EXCEPT ![m] = T!NoCounts]
      /\ stale' = stale \cup {m} \cup ({T!Target(m)} \ {T!Nobody})
      /\ UNCHANGED <<review, direct>>
  BY DEF T!Delete, T!Exists
<1>2. /\ kind \in [T!Notes -> NoteKinds] /\ review \in [Claims -> ReviewType]
      /\ Claims \subseteq T!Notes /\ T!Nobody \notin T!Notes
      /\ T!Target(m) \in T!Notes \cup {T!Nobody}
      /\ kind' \in [T!Notes -> NoteKinds] /\ kind'[m] = "absent"
      /\ \A n \in T!Notes : n # m => kind'[n] = kind[n]
  BY <1>1, ReviewFacts, TargetType DEF ReviewsInv, ReviewsTyped, NoteKinds
<1>3. /\ counts' \in [T!Notes -> [Stances -> Nat]]
      /\ \A n \in T!Notes : n # m => counts'[n] = counts[n]
  BY <1>1 DEF ReviewsInv, ReviewsTyped, T!NoCounts
<1>4. ReviewsTyped'
  BY <1>1, <1>2, <1>3, ReviewBypassed DEF ReviewsInv, ReviewsTyped
<1>5. CountsRight'
  <2>1. ASSUME NEW n \in T!Notes \ stale', NEW d \in Claims, NEW s \in Stances
        PROVE  Tells(d, n, s, kind', review') <=> Tells(d, n, s, kind, review)
    <3>1. CASE d = m
      <4>1. T!Target(m) = review[m].target
        BY <1>1, <3>1 DEF T!Target, T!Exists
      <4> QED
        BY <1>1, <1>2, <2>1, <3>1, <4>1 DEF Tells
    <3>2. CASE d # m
      BY <1>1, <1>2, <3>2 DEF Tells
    <3> QED
      BY <3>1, <3>2
  <2>2. \A n \in T!Notes \ stale' : counts'[n] = counts[n]
    BY <1>1, <1>3
  <2> QED
    BY <1>1, <2>1, <2>2, CountsStay DEF ReviewsInv
<1>6. \A n \in T!Notes : T!Target(n)' \in {T!Target(n), T!Nobody}
  BY <1>1, <1>2 DEF T!Target, T!Exists
<1>7. direct' \/ \E rank \in [T!Notes -> Nat] : Descends(rank)'
  BY <1>1, <1>6, RanksStay
<1> QED
  BY <1>4, <1>5, <1>7 DEF ReviewsInv

LEMMA ReviewDirects ==
  ASSUME RecordsBounds, ReviewsInv, NEW c \in Claims, NEW new \in T!Said, T!WriteDirectly(c, new)
  PROVE  ReviewsInv'
<1>1. /\ kind' = [kind EXCEPT ![c] = "claim"] /\ review' = [review EXCEPT ![c] = new] /\ T!Bypass
      /\ stale' = stale \cup ({new.target, T!Target(c)} \ {T!Nobody})
      /\ direct' = TRUE /\ UNCHANGED counts
  BY DEF T!WriteDirectly
<1>2. new \in ReviewType
  BY DEF T!Said, ReviewType
<1>3. /\ kind \in [T!Notes -> NoteKinds] /\ review \in [Claims -> ReviewType] /\ c \in T!Notes
      /\ Claims \subseteq T!Notes /\ T!Nobody \notin T!Notes
      /\ T!Target(c) \in T!Notes \cup {T!Nobody} /\ new.target \in T!Notes \cup {T!Nobody}
      /\ kind' \in [T!Notes -> NoteKinds] /\ kind'[c] = "claim"
      /\ review' \in [Claims -> ReviewType] /\ review'[c] = new
      /\ \A n \in T!Notes : n # c => kind'[n] = kind[n]
      /\ \A n \in Claims : n # c => review'[n] = review[n]
  BY <1>1, <1>2, ReviewFacts, TargetType DEF ReviewsInv, ReviewsTyped, NoteKinds, ReviewType
<1>4. ReviewsTyped'
  BY <1>1, <1>3, ReviewBypassed DEF ReviewsInv, ReviewsTyped
<1>5. CountsRight'
  <2>1. ASSUME NEW n \in T!Notes \ stale', NEW d \in Claims, NEW s \in Stances
        PROVE  Tells(d, n, s, kind', review') <=> Tells(d, n, s, kind, review)
    <3>1. CASE d = c
      <4>1. ~Tells(c, n, s, kind', review')
        BY <1>1, <1>3, <2>1 DEF Tells
      <4>2. ~Tells(c, n, s, kind, review)
        BY <1>1, <1>3, <2>1 DEF Tells, T!Target, T!Exists
      <4> QED
        BY <3>1, <4>1, <4>2
    <3>2. CASE d # c
      BY <1>3, <3>2 DEF Tells
    <3> QED
      BY <3>1, <3>2
  <2> QED
    BY <1>1, <2>1, CountsStay DEF ReviewsInv
<1> QED
  BY <1>1, <1>4, <1>5 DEF ReviewsInv

LEMMA ReviewStart == ASSUME RecordsBounds, T!Init PROVE ReviewsInv
<1>1. /\ kind = [n \in T!Notes |-> IF n \in Capsules THEN "capsule" ELSE "absent"]
      /\ review = [c \in Claims |-> T!NoReview] /\ counts = [n \in T!Notes |-> T!NoCounts]
      /\ stale = {} /\ direct = FALSE /\ threadSpent = 0
  BY DEF T!Init
<1>2. Capsules \cap Claims = {} /\ Claims \subseteq T!Notes
  BY ReviewFacts DEF RecordsBounds, T!ThreadBounds
<1>3. ReviewsTyped
  <2>1. T!NoCounts \in [Stances -> Nat]
    BY DEF T!NoCounts
  <2>2. counts \in [T!Notes -> [Stances -> Nat]]
    BY <1>1, <2>1
  <2>3. kind \in [T!Notes -> NoteKinds] /\ review \in [Claims -> ReviewType]
    BY <1>1, ReviewFacts DEF NoteKinds
  <2>4. threadSpent \in 0..MaxBypass
    BY <1>1, ReviewFacts
  <2> QED
    BY <1>1, <2>2, <2>3, <2>4 DEF ReviewsTyped
<1>4. ASSUME NEW n PROVE T!Target(n) = T!Nobody
  BY <1>1, <1>2 DEF T!Target, T!Exists
<1>5. \E rank \in [T!Notes -> Nat] : Descends(rank)
  <2> DEFINE rank == [n \in T!Notes |-> 0]
  <2>1. rank \in [T!Notes -> Nat] /\ Descends(rank)
    BY <1>4, ReviewFacts DEF Descends
  <2> QED
    BY <2>1
<1>6. ASSUME NEW n \in T!Notes PROVE counts[n] = T!Counted(n, kind, review)
  <2>1. ASSUME NEW s \in Stances
        PROVE  {c \in Claims : /\ kind[c] = "claim" /\ review[c].target = n
                               /\ review[c].lifecycle # "consolidated" /\ ~review[c].own
                               /\ review[c].stance = s} = {}
    BY <1>1, <1>2
  <2>2. Cardinality({}) = 0
    BY FS_EmptySet
  <2>3. \A s \in Stances : T!Counted(n, kind, review)[s] = 0
    BY <2>1, <2>2 DEF T!Counted, T!Cardinality, Cardinality
  <2>4. T!Counted(n, kind, review) = [s \in Stances |-> T!Counted(n, kind, review)[s]]
    BY DEF T!Counted
  <2>5. counts[n] = [s \in Stances |-> 0]
    BY <1>1 DEF T!NoCounts
  <2> HIDE DEF T!Counted
  <2> QED
    BY <2>3, <2>4, <2>5
<1> QED
  BY <1>3, <1>5, <1>6 DEF ReviewsInv, CountsRight

LEMMA ReviewStep ==
  ASSUME RecordsBounds, ReviewsInv, T!Next \/ UNCHANGED threadVars
  PROVE  ReviewsInv'
<1>1. CASE T!Next
  <2>1. PICK c \in Claims :
          \/ \E by \in Writers, t \in T!Notes, stance \in Stances, lifecycle \in Lifecycles :
                 T!UpsertReview(c, by, t, stance, lifecycle)
          \/ \E by \in Writers : T!Detach(c, by)
          \/ T!ChangeKind(c)
          \/ \E n \in T!Notes : T!Delete(n)
          \/ \E new \in T!Said : T!WriteDirectly(c, new)
    BY <1>1 DEF T!Next
  <2> QED
    BY <2>1, ReviewUpserts, ReviewDetaches, ReviewChanges, ReviewDeletes, ReviewDirects
<1>2. CASE UNCHANGED threadVars
  <2>1. UNCHANGED <<kind, review, counts, stale, direct, threadSpent>>
    BY <1>2 DEF threadVars
  <2>2. ReviewsTyped'
    BY <2>1 DEF ReviewsInv, ReviewsTyped
  <2>3. \A n \in T!Notes : T!Target(n)' \in {T!Target(n), T!Nobody}
    BY <2>1 DEF T!Target, T!Exists
  <2>4. CountsRight'
    BY <2>1 DEF ReviewsInv, CountsRight
  <2> QED
    BY <2>1, <2>2, <2>3, <2>4, RanksStay DEF ReviewsInv
<1> QED
  BY <1>1, <1>2

LEMMA ReviewHolds ==
  ASSUME RecordsBounds, ReviewsInv
  PROVE  T!TypeOK /\ T!TargetsAcyclic /\ T!CountsCurrent
<1>1. T!TypeOK
  BY DEF ReviewsInv, ReviewsTyped, ReviewType, NoteKinds, T!TypeOK
<1>2. T!TargetsAcyclic
  <2>1. ASSUME ~direct, NEW c \in Claims, NEW i \in 1..DEPTH PROVE T!Walk(c)[i] # c
    <3>1. PICK rank \in [T!Notes -> Nat] : Descends(rank)
      BY <2>1 DEF ReviewsInv
    <3> QED
      BY <3>1, WalkDescends, ReviewFacts DEF ReviewsInv
  <2> QED
    BY <2>1 DEF T!TargetsAcyclic
<1>3. T!CountsCurrent
  BY DEF ReviewsInv, CountsRight, T!CountsCurrent
<1> QED
  BY <1>1, <1>2, <1>3

-----------------------------------------------------------------------------
(* The indexes of the vault and the searches that read them.               *)

Versions == 0..(MaxChanges + 1)
Stages == {"idle", "list", "files", "ensure", "embed", "score"}
Lists == UNION {[D -> Versions] : D \in SUBSET Paths}
SearchRecords == [pc : Stages, kind : S!Kinds, docs : Lists, expect : [Paths -> Versions],
                  missing : SUBSET Paths, hits : Lists]

\* A list has of each note what its writer has returned with, or a later version, or none
\* because the note is gone.
Current(list, done) == \A p \in DOMAIN list : list[p] = 0 \/ list[p] >= done[p]

\* A search in progress: it expects no more than what was returned, its documents are
\* as new as it expects, and its words are theirs.
InOrder(x, done) ==
    /\ \A p \in Paths : x.expect[p] <= done[p]
    /\ \A p \in DOMAIN x.docs : x.docs[p] >= x.expect[p]
    /\ x.missing \subseteq DOMAIN x.docs
    /\ x.pc \in {"list", "files"} => x.missing = {} /\ DOMAIN x.hits = {}
    /\ x.pc = "ensure" => \A p \in DOMAIN x.hits : p \in DOMAIN x.docs /\ x.hits[p] = x.docs[p]

FilesInv ==
    /\ notes \in [Paths -> [version : Versions, there : BOOLEAN]]
    /\ returned \in [Paths -> Versions]
    /\ writers \in [Editors -> Paths \cup {S!Free}]
    /\ searchSpent \in [{"writes", "searches", "trouble"} -> Nat]
    /\ \A p \in Paths : /\ returned[p] <= notes[p].version
                        /\ notes[p].version <= searchSpent["writes"] + 1

ListInv ==
    /\ cached \in Lists /\ (cached = S!NoList \/ DOMAIN cached = Paths) /\ Current(cached, returned)
    /\ loading \in [held : BOOLEAN, read : Lists] /\ Current(loading.read, returned)

VectorsInv ==
    /\ DOMAIN vectors \subseteq S!Keys /\ DOMAIN disk \subseteq S!Keys
    /\ DOMAIN saving.what \subseteq S!Keys
    /\ dirty \in BOOLEAN /\ timer \in BOOLEAN

SearchesInv ==
    /\ words \in [Paths -> Versions]
    /\ searches \in [Searchers -> SearchRecords]
    /\ \A s \in Searchers : InOrder(searches[s], returned)

IndexInv == FilesInv /\ ListInv /\ VectorsInv /\ SearchesInv

LEMMA SearchFacts ==
  ASSUME RecordsBounds
  PROVE  /\ MaxChanges \in Nat /\ MaxSearches \in Nat /\ MaxTrouble \in Nat
         /\ Paths \subseteq Nat /\ 0 \notin Paths /\ S!Versions = Versions
         /\ 0 \in Versions /\ 1 \in Versions /\ Versions \subseteq Nat
BY RecordsBounds DEF S!IndexBounds, S!Versions, Versions

LEMMA EmptyList ==
  /\ S!Empty \in Lists /\ DOMAIN S!Empty = {} /\ S!NoList = S!Empty
  /\ \A done : Current(S!Empty, done)
<1>1. S!Empty \in [{} -> Versions] /\ DOMAIN S!Empty = {}
  BY DEF S!Empty
<1> QED
  BY <1>1 DEF Lists, Current, S!NoList

LEMMA IdleFits ==
  ASSUME RecordsBounds, NEW done \in [Paths -> Versions]
  PROVE  S!Idle \in SearchRecords /\ InOrder(S!Idle, done)
<1>1. /\ DOMAIN S!Idle.docs = {} /\ DOMAIN S!Idle.hits = {} /\ S!Idle.missing = {}
      /\ S!Idle.pc = "idle" /\ S!Idle.expect = [p \in Paths |-> 0]
  BY EmptyList DEF S!Idle
<1>2. S!Idle \in SearchRecords
  BY EmptyList, SearchFacts DEF S!Idle, SearchRecords, Stages, S!Kinds
<1>3. \A p \in Paths : S!Idle.expect[p] <= done[p]
  BY <1>1, SearchFacts
<1> QED
  BY <1>1, <1>2, <1>3 DEF InOrder

\* A list over some of the paths.
LEMMA ListMade ==
  ASSUME RecordsBounds, NEW D \in SUBSET Paths, NEW f, f = [p \in D |-> f[p]],
         \A p \in D : f[p] \in Versions
  PROVE  f \in Lists /\ DOMAIN f = D
<1>1. f \in [D -> Versions]
  OBVIOUS
<1> QED
  BY <1>1 DEF Lists

LEMMA ListParts ==
  ASSUME NEW f \in Lists
  PROVE  DOMAIN f \subseteq Paths /\ \A p \in DOMAIN f : f[p] \in Versions
BY DEF Lists

\* One search goes on, the others stay where they are.
LEMMA SearchMoves ==
  ASSUME NEW old \in [Searchers -> SearchRecords], NEW done, NEW s \in Searchers,
         \A t \in Searchers : InOrder(old[t], done),
         NEW x \in SearchRecords, InOrder(x, done)
  PROVE  /\ [old EXCEPT ![s] = x] \in [Searchers -> SearchRecords]
         /\ \A t \in Searchers : InOrder([old EXCEPT ![s] = x][t], done)
<1> DEFINE new == [old EXCEPT ![s] = x]
<1>1. new \in [Searchers -> SearchRecords]
  OBVIOUS
<1>2. \A t \in Searchers : new[t] = IF t = s THEN x ELSE old[t]
  OBVIOUS
<1> HIDE DEF new
<1>3. \A t \in Searchers : InOrder(new[t], done)
  BY <1>2
<1> QED
  BY <1>1, <1>3 DEF new

-----------------------------------------------------------------------------

LEMMA SearchStart == ASSUME RecordsBounds, S!Init PROVE IndexInv
<1>1. FilesInv
  BY SearchFacts DEF S!Init, FilesInv
<1>2. ListInv
  BY EmptyList DEF S!Init, ListInv, S!Unlocked
<1>3. VectorsInv
  BY EmptyList DEF S!Init, VectorsInv, S!NoSave
<1>4. SearchesInv
  BY SearchFacts, IdleFits, <1>1 DEF S!Init, SearchesInv, FilesInv
<1> QED
  BY <1>1, <1>2, <1>3, <1>4 DEF IndexInv

\* More is returned: what was expected and what was read are as current as before.
LEMMA SearchWrites ==
  ASSUME RecordsBounds, IndexInv, NEW w \in Editors, NEW p \in Paths, S!Write(w, p)
  PROVE  IndexInv'
<1> USE DEF IndexInv
<1>1. /\ searchSpent["writes"] + 1 <= MaxChanges
      /\ searchSpent' = [searchSpent EXCEPT !["writes"] = @ + 1]
      /\ notes' = [notes EXCEPT ![p] = [version |-> @.version + 1, there |-> TRUE]]
      /\ writers' = [writers EXCEPT ![w] = p]
      /\ UNCHANGED <<returned, cached, loading, words, vectors, disk, dirty, timer, saving,
                     embedded, searches>>
  BY DEF S!Write, S!Spend, S!listVars, S!vectorVars
<1>2. FilesInv'
  <2>1. /\ searchSpent' \in [{"writes", "searches", "trouble"} -> Nat]
        /\ searchSpent'["writes"] = searchSpent["writes"] + 1
    BY <1>1 DEF FilesInv
  <2>2. notes[p].version \in Nat /\ notes[p].version + 1 \in Versions
        /\ notes[p].version + 1 <= searchSpent'["writes"] + 1
    BY <1>1, <2>1, SearchFacts DEF FilesInv, Versions
  <2> DEFINE x == [version |-> notes[p].version + 1, there |-> TRUE]
  <2>3. x \in [version : Versions, there : BOOLEAN] /\ x.version = notes[p].version + 1
    BY <2>2
  <2> HIDE DEF x
  <2>4. notes' = [notes EXCEPT ![p] = x]
    BY <1>1 DEF x
  <2>5. notes' \in [Paths -> [version : Versions, there : BOOLEAN]]
        /\ \A q \in Paths : notes'[q] = IF q = p THEN x ELSE notes[q]
    BY <2>3, <2>4 DEF FilesInv
  <2>6. writers' \in [Editors -> Paths \cup {S!Free}]
    BY <1>1 DEF FilesInv
  <2>7. \A q \in Paths : /\ returned'[q] <= notes'[q].version
                         /\ notes'[q].version <= searchSpent'["writes"] + 1
    BY <1>1, <2>1, <2>2, <2>3, <2>5, SearchFacts DEF FilesInv
  <2> QED
    BY <1>1, <2>1, <2>5, <2>6, <2>7 DEF FilesInv
<1>3. ListInv' /\ VectorsInv' /\ SearchesInv'
  BY <1>1 DEF ListInv, VectorsInv, SearchesInv
<1> QED
  BY <1>2, <1>3

LEMMA SearchDeletes ==
  ASSUME RecordsBounds, IndexInv, NEW p \in Paths, S!Delete(p)
  PROVE  IndexInv'
<1> USE DEF IndexInv
<1>1. /\ searchSpent["writes"] + 1 <= MaxChanges
      /\ searchSpent' = [searchSpent EXCEPT !["writes"] = @ + 1]
      /\ notes' = [notes EXCEPT ![p] = [version |-> @.version + 1, there |-> FALSE]]
      /\ UNCHANGED <<returned, writers, cached, loading, words, vectors, disk, dirty, timer,
                     saving, embedded, searches>>
  BY DEF S!Delete, S!Spend, S!listVars, S!vectorVars
<1>2. FilesInv'
  <2>1. /\ searchSpent' \in [{"writes", "searches", "trouble"} -> Nat]
        /\ searchSpent'["writes"] = searchSpent["writes"] + 1
    BY <1>1 DEF FilesInv
  <2>2. notes[p].version \in Nat /\ notes[p].version + 1 \in Versions
        /\ notes[p].version + 1 <= searchSpent'["writes"] + 1
    BY <1>1, <2>1, SearchFacts DEF FilesInv, Versions
  <2> DEFINE x == [version |-> notes[p].version + 1, there |-> FALSE]
  <2>3. x \in [version : Versions, there : BOOLEAN] /\ x.version = notes[p].version + 1
    BY <2>2
  <2> HIDE DEF x
  <2>4. notes' = [notes EXCEPT ![p] = x]
    BY <1>1 DEF x
  <2>5. notes' \in [Paths -> [version : Versions, there : BOOLEAN]]
        /\ \A q \in Paths : notes'[q] = IF q = p THEN x ELSE notes[q]
    BY <2>3, <2>4 DEF FilesInv
  <2>6. \A q \in Paths : /\ returned'[q] <= notes'[q].version
                         /\ notes'[q].version <= searchSpent'["writes"] + 1
    BY <1>1, <2>1, <2>2, <2>3, <2>5, SearchFacts DEF FilesInv
  <2> QED
    BY <1>1, <2>1, <2>5, <2>6 DEF FilesInv
<1>3. ListInv' /\ VectorsInv' /\ SearchesInv'
  BY <1>1 DEF ListInv, VectorsInv, SearchesInv
<1> QED
  BY <1>2, <1>3

\* Nobody is loading and the list is thrown away, so only searches know what was returned
\* before, and they expect no more than that.
LEMMA SearchReturns ==
  ASSUME RecordsBounds, IndexInv, NEW w \in Editors, S!Return(w)
  PROVE  IndexInv'
<1> USE DEF IndexInv
<1> DEFINE p == writers[w]
<1>1. /\ writers[w] # S!Free /\ loading = S!Unlocked /\ cached' = S!NoList
      /\ returned' = [returned EXCEPT ![p] = notes[p].version]
      /\ writers' = [writers EXCEPT ![w] = S!Free]
      /\ UNCHANGED <<notes, loading, words, vectors, disk, dirty, timer, saving, embedded,
                     searches, searchSpent>>
  BY DEF S!Return, S!Invalidate, S!vectorVars
<1>2. p \in Paths
  BY <1>1 DEF FilesInv
<1> HIDE DEF p
<1>3. notes[p].version \in Versions
  BY <1>2 DEF FilesInv
<1>4. /\ returned' \in [Paths -> Versions]
      /\ \A q \in Paths : returned'[q] = IF q = p THEN notes[p].version ELSE returned[q]
  BY <1>1, <1>2, <1>3 DEF FilesInv
<1>5. \A q \in Paths : returned[q] <= returned'[q] /\ returned'[q] <= notes[q].version
  BY <1>2, <1>3, <1>4, SearchFacts DEF FilesInv
<1>6. FilesInv'
  BY <1>1, <1>4, <1>5 DEF FilesInv
<1>7. ListInv'
  <2>1. loading'.read = S!Empty
    BY <1>1 DEF S!Unlocked
  <2> QED
    BY <1>1, <2>1, EmptyList DEF ListInv
<1>8. VectorsInv'
  BY <1>1 DEF VectorsInv
<1>9. SearchesInv'
  <2>1. ASSUME NEW s \in Searchers PROVE InOrder(searches[s], returned')
    <3>1. InOrder(searches[s], returned) /\ searches[s] \in SearchRecords
      BY DEF SearchesInv
    <3>2. \A q \in Paths : searches[s].expect[q] \in Nat /\ returned[q] \in Nat /\ returned'[q] \in Nat
      BY <3>1, <1>4, SearchFacts DEF SearchRecords, FilesInv
    <3> QED
      BY <3>1, <3>2, <1>5 DEF InOrder
  <2> QED
    BY <1>1, <2>1 DEF SearchesInv
<1> QED
  BY <1>6, <1>7, <1>8, <1>9

-----------------------------------------------------------------------------

LEMMA Begun ==
  ASSUME NEW stage, NEW k, NEW given
  PROVE  [S!Idle EXCEPT !.pc = stage, !.kind = k, !.expect = given]
         = [pc |-> stage, kind |-> k, docs |-> S!Empty, expect |-> given, missing |-> {},
            hits |-> S!Empty]
<1> DEFINE e == [p \in Paths |-> 0]
           y == [S!Idle EXCEPT !.pc = stage]
           z == [y EXCEPT !.kind = k]
<1>1. S!Idle = [pc |-> "idle", kind |-> "pages", docs |-> S!Empty, expect |-> e, missing |-> {},
                hits |-> S!Empty]
  BY Zenon DEF S!Idle
<1> HIDE DEF e
<1>2. y = [pc |-> stage, kind |-> "pages", docs |-> S!Empty, expect |-> e, missing |-> {},
           hits |-> S!Empty]
  BY <1>1
<1> HIDE DEF y
<1>3. z = [pc |-> stage, kind |-> k, docs |-> S!Empty, expect |-> e, missing |-> {},
           hits |-> S!Empty]
  BY <1>2
<1> HIDE DEF z
<1>4. [z EXCEPT !.expect = given]
      = [pc |-> stage, kind |-> k, docs |-> S!Empty, expect |-> given, missing |-> {},
         hits |-> S!Empty]
  BY <1>3
<1> QED
  BY <1>4 DEF z, y

LEMMA SearchBegins ==
  ASSUME RecordsBounds, IndexInv, NEW s \in Searchers, NEW k \in S!Kinds, S!Begin(s, k)
  PROVE  IndexInv'
<1> USE DEF IndexInv
<1> DEFINE stage == IF k = "pages" THEN "list" ELSE "files"
           x == [S!Idle EXCEPT !.pc = stage, !.kind = k, !.expect = returned]
<1>1. /\ searchSpent' = [searchSpent EXCEPT !["searches"] = @ + 1]
      /\ searches' = [searches EXCEPT ![s] = x]
      /\ UNCHANGED <<notes, returned, writers, cached, loading, words, vectors, disk, dirty,
                     timer, saving, embedded>>
  BY DEF S!Begin, S!Spend, S!listVars, S!vectorVars, S!noteVars
<1>2. stage \in {"list", "files"}
  OBVIOUS
<1> HIDE DEF stage
<1>3. x = [pc |-> stage, kind |-> k, docs |-> S!Empty, expect |-> returned, missing |-> {},
           hits |-> S!Empty]
  BY Begun
<1>4. x \in SearchRecords /\ InOrder(x, returned)
  <2>1. x \in SearchRecords
    BY <1>2, <1>3, EmptyList DEF SearchRecords, Stages, FilesInv
  <2>2. \A p \in Paths : returned[p] <= returned[p]
    BY SearchFacts DEF FilesInv
  <2> QED
    BY <1>2, <1>3, <2>1, <2>2, EmptyList DEF InOrder
<1> HIDE DEF x
<1>5. SearchesInv'
  <2>1. /\ [searches EXCEPT ![s] = x] \in [Searchers -> SearchRecords]
        /\ \A t \in Searchers : InOrder([searches EXCEPT ![s] = x][t], returned)
    BY <1>4, SearchMoves DEF SearchesInv
  <2> QED
    BY <1>1, <2>1 DEF SearchesInv
<1>6. FilesInv'
  BY <1>1 DEF FilesInv
<1>7. ListInv' /\ VectorsInv'
  BY <1>1 DEF ListInv, VectorsInv
<1> QED
  BY <1>5, <1>6, <1>7

LEMMA SearchLoads ==
  ASSUME RecordsBounds, IndexInv, NEW s \in Searchers, S!StartLoading(s)
  PROVE  IndexInv'
<1> USE DEF IndexInv
<1>1. /\ loading' = [held |-> TRUE, read |-> S!Empty]
      /\ UNCHANGED <<notes, returned, writers, cached, words, vectors, disk, dirty,
                     timer, saving, embedded, searches, searchSpent>>
  BY DEF S!StartLoading, S!noteVars, S!vectorVars
<1>2. ListInv'
  BY <1>1, EmptyList DEF ListInv
<1> QED
  BY <1>1, <1>2 DEF FilesInv, VectorsInv, SearchesInv

\* What is read of a file is what its writers have returned with, or newer.
LEMMA SearchReads ==
  ASSUME RecordsBounds, IndexInv, NEW p \in Paths, S!ReadNote(p)
  PROVE  IndexInv'
<1> USE DEF IndexInv
<1> DEFINE seen == IF notes[p].there THEN notes[p].version ELSE 0
           D == DOMAIN loading.read \cup {p}
           read == [q \in D |-> IF q # p THEN loading.read[q] ELSE seen]
<1>1. /\ loading' = [loading EXCEPT !.read = read]
      /\ UNCHANGED <<notes, returned, writers, cached, words, vectors, disk, dirty,
                     timer, saving, embedded, searches, searchSpent>>
  BY DEF S!ReadNote, S!noteVars, S!vectorVars
<1>2. seen \in Versions /\ (seen = 0 \/ seen >= returned[p])
  BY SearchFacts DEF FilesInv
<1> HIDE DEF seen
<1>3. /\ D \in SUBSET Paths
      /\ \A q \in D : read[q] = IF q = p THEN seen ELSE loading.read[q]
      /\ \A q \in D : q # p => q \in DOMAIN loading.read
  BY ListParts DEF ListInv
<1>4. /\ \A q \in DOMAIN loading.read : loading.read[q] \in Versions
      /\ \A q \in DOMAIN loading.read : loading.read[q] = 0 \/ loading.read[q] >= returned[q]
  BY ListParts DEF ListInv, Current
<1>5. /\ \A q \in D : read[q] \in Versions
      /\ \A q \in D : read[q] = 0 \/ read[q] >= returned[q]
      /\ read = [q \in D |-> read[q]] /\ DOMAIN read = D
  BY <1>2, <1>3, <1>4
<1> HIDE DEF read, D
<1>6. read \in Lists /\ Current(read, returned)
  BY <1>3, <1>5, ListMade DEF Current
<1>7. ListInv'
  BY <1>1, <1>6 DEF ListInv
<1> QED
  BY <1>1, <1>7 DEF FilesInv, VectorsInv, SearchesInv

LEMMA SearchKeeps ==
  ASSUME RecordsBounds, IndexInv, S!EndLoading \/ S!Expire
  PROVE  IndexInv'
<1> USE DEF IndexInv
<1>1. UNCHANGED <<notes, returned, writers, words, vectors, disk, dirty,
                  timer, saving, embedded, searches, searchSpent>>
  BY DEF S!EndLoading, S!Expire, S!noteVars, S!vectorVars
<1>2. CASE S!EndLoading
  <2>1. /\ DOMAIN loading.read = Paths /\ cached' = loading.read /\ loading' = S!Unlocked
    BY <1>2 DEF S!EndLoading
  <2>2. ListInv'
    BY <1>1, <2>1, EmptyList DEF ListInv, S!Unlocked
  <2> QED
    BY <1>1, <2>2 DEF FilesInv, VectorsInv, SearchesInv
<1>3. CASE S!Expire
  <2>1. ListInv'
    BY <1>1, <1>3, EmptyList DEF ListInv, S!Expire
  <2> QED
    BY <1>1, <2>1 DEF FilesInv, VectorsInv, SearchesInv
<1> QED
  BY <1>2, <1>3

-----------------------------------------------------------------------------

LEMMA DocumentsSet ==
  ASSUME NEW r \in SearchRecords, NEW a, NEW d
  PROVE  [r EXCEPT !.pc = a, !.docs = d] =
            [pc |-> a, kind |-> r.kind, docs |-> d, expect |-> r.expect,
             missing |-> r.missing, hits |-> r.hits]
<1> DEFINE x == [r EXCEPT !.pc = a]
<1>1. r = [pc |-> r.pc, kind |-> r.kind, docs |-> r.docs, expect |-> r.expect,
           missing |-> r.missing, hits |-> r.hits]
  BY DEF SearchRecords
<1>2. x = [pc |-> a, kind |-> r.kind, docs |-> r.docs, expect |-> r.expect,
           missing |-> r.missing, hits |-> r.hits]
  BY <1>1
<1> HIDE DEF x
<1>3. [x EXCEPT !.docs = d] = [pc |-> a, kind |-> r.kind, docs |-> d, expect |-> r.expect,
                               missing |-> r.missing, hits |-> r.hits]
  BY <1>2
<1> QED
  BY <1>3 DEF x

LEMMA WordsSet ==
  ASSUME NEW r \in SearchRecords, NEW a, NEW d, NEW h
  PROVE  [r EXCEPT !.pc = a, !.docs = d, !.hits = h] =
            [pc |-> a, kind |-> r.kind, docs |-> d, expect |-> r.expect,
             missing |-> r.missing, hits |-> h]
<1> DEFINE y == [r EXCEPT !.pc = a, !.docs = d]
<1>1. y = [pc |-> a, kind |-> r.kind, docs |-> d, expect |-> r.expect,
           missing |-> r.missing, hits |-> r.hits]
  BY DocumentsSet, Zenon
<1> HIDE DEF y
<1>2. [y EXCEPT !.hits = h] = [pc |-> a, kind |-> r.kind, docs |-> d, expect |-> r.expect,
                               missing |-> r.missing, hits |-> h]
  BY <1>1
<1> QED
  BY <1>2 DEF y

LEMMA MissingSet ==
  ASSUME NEW r \in SearchRecords, NEW a, NEW m
  PROVE  [r EXCEPT !.pc = a, !.missing = m] =
            [pc |-> a, kind |-> r.kind, docs |-> r.docs, expect |-> r.expect,
             missing |-> m, hits |-> r.hits]
<1> DEFINE x == [r EXCEPT !.pc = a]
<1>1. r = [pc |-> r.pc, kind |-> r.kind, docs |-> r.docs, expect |-> r.expect,
           missing |-> r.missing, hits |-> r.hits]
  BY DEF SearchRecords
<1>2. x = [pc |-> a, kind |-> r.kind, docs |-> r.docs, expect |-> r.expect,
           missing |-> r.missing, hits |-> r.hits]
  BY <1>1
<1> HIDE DEF x
<1>3. [x EXCEPT !.missing = m] = [pc |-> a, kind |-> r.kind, docs |-> r.docs,
                                  expect |-> r.expect, missing |-> m, hits |-> r.hits]
  BY <1>2
<1> QED
  BY <1>3 DEF x

LEMMA LookedUpSet ==
  ASSUME NEW r \in SearchRecords, NEW a, NEW m, NEW h
  PROVE  [r EXCEPT !.pc = a, !.missing = m, !.hits = h] =
            [pc |-> a, kind |-> r.kind, docs |-> r.docs, expect |-> r.expect,
             missing |-> m, hits |-> h]
<1> DEFINE y == [r EXCEPT !.pc = a, !.missing = m]
<1>1. y = [pc |-> a, kind |-> r.kind, docs |-> r.docs, expect |-> r.expect,
           missing |-> m, hits |-> r.hits]
  BY MissingSet, Zenon
<1> HIDE DEF y
<1>2. [y EXCEPT !.hits = h] = [pc |-> a, kind |-> r.kind, docs |-> r.docs,
                               expect |-> r.expect, missing |-> m, hits |-> h]
  BY <1>1
<1> QED
  BY <1>2 DEF y

LEMMA SearchRanks ==
  ASSUME RecordsBounds, IndexInv, NEW s \in Searchers, NEW pool \in SUBSET Paths,
         NEW hit \in SUBSET Paths, S!Lexical(s, pool, hit)
  PROVE  IndexInv'
<1> USE DEF IndexInv
<1> DEFINE hits == {p \in hit : words'[p] > 0}
           wanted == IF hits \cap pool = {} THEN pool ELSE hits \cap pool
           stage == IF wanted = {} THEN "idle" ELSE "ensure"
           d == [p \in wanted |-> cached[p]]
           h == [p \in hits |-> words'[p]]
           r == searches[s]
           x == [r EXCEPT !.pc = stage, !.docs = d, !.hits = h]
<1>1. /\ r.pc = "list" /\ cached # S!NoList /\ pool \subseteq {p \in Paths : cached[p] > 0}
      /\ words' = [p \in Paths |-> IF p \in pool THEN cached[p] ELSE 0]
      /\ searches' = [searches EXCEPT ![s] = x]
      /\ UNCHANGED <<notes, returned, writers, cached, loading, vectors, disk, dirty,
                     timer, saving, embedded, searchSpent>>
  BY DEF S!Lexical, S!Indexed, S!listVars, S!vectorVars, S!noteVars
<1>2. /\ DOMAIN cached = Paths
      /\ \A p \in Paths : cached[p] \in Versions /\ (cached[p] = 0 \/ cached[p] >= returned[p])
  BY <1>1, ListParts DEF ListInv, Current
<1>3. /\ words' \in [Paths -> Versions]
      /\ \A p \in Paths : words'[p] = IF p \in pool THEN cached[p] ELSE 0
  BY <1>1, <1>2, SearchFacts
<1>4. /\ hits \subseteq pool /\ wanted \subseteq Paths /\ hits \subseteq wanted
      /\ \A p \in hits : words'[p] = cached[p]
      /\ \A p \in wanted : cached[p] > 0
  BY <1>1, <1>3
<1>5. /\ d \in Lists /\ DOMAIN d = wanted /\ \A p \in wanted : d[p] = cached[p]
      /\ h \in Lists /\ DOMAIN h = hits /\ \A p \in hits : h[p] = cached[p]
  <2>1. d = [p \in wanted |-> d[p]] /\ \A p \in wanted : d[p] = cached[p]
    OBVIOUS
  <2>2. h = [p \in hits |-> h[p]] /\ \A p \in hits : h[p] = cached[p]
    BY <1>4
  <2> HIDE DEF d, h, wanted, hits
  <2>3. (\A p \in wanted : d[p] \in Versions) /\ (\A p \in hits : h[p] \in Versions)
    BY <1>2, <1>4, <2>1, <2>2
  <2> QED
    BY <2>1, <2>2, <2>3, <1>1, <1>4, ListMade
<1>6. stage \in {"idle", "ensure"}
  OBVIOUS
<1> HIDE DEF d, h, stage, wanted, hits
<1>7. r \in SearchRecords /\ InOrder(r, returned)
  BY DEF SearchesInv
<1>8. x = [pc |-> stage, kind |-> r.kind, docs |-> d, expect |-> r.expect,
           missing |-> r.missing, hits |-> h]
  BY <1>7, WordsSet, Zenon
<1>9. x \in SearchRecords
  BY <1>5, <1>6, <1>7, <1>8 DEF SearchRecords, Stages
<1>10. InOrder(x, returned)
  <2>1. \A p \in Paths : /\ r.expect[p] <= returned[p] /\ r.expect[p] \in Nat
                         /\ returned[p] \in Nat /\ cached[p] \in Nat
    BY <1>2, <1>7, SearchFacts DEF InOrder, SearchRecords, FilesInv
  <2>2. \A p \in wanted : d[p] >= r.expect[p]
    BY <2>1, <1>2, <1>4, <1>5
  <2>3. r.missing = {}
    BY <1>1, <1>7 DEF InOrder
  <2> QED
    BY <2>1, <2>2, <2>3, <1>4, <1>5, <1>6, <1>8 DEF InOrder
<1> HIDE DEF x
<1>11. SearchesInv'
  <2>1. /\ [searches EXCEPT ![s] = x] \in [Searchers -> SearchRecords]
        /\ \A t \in Searchers : InOrder([searches EXCEPT ![s] = x][t], returned)
    BY <1>9, <1>10, SearchMoves DEF SearchesInv
  <2> QED
    BY <1>1, <1>3, <2>1 DEF SearchesInv
<1> QED
  BY <1>1, <1>11 DEF FilesInv, ListInv, VectorsInv

LEMMA SearchOpens ==
  ASSUME RecordsBounds, IndexInv, NEW s \in Searchers, S!ReadFiles(s)
  PROVE  IndexInv'
<1> USE DEF IndexInv
<1> DEFINE stage == IF S!Live = {} THEN "idle" ELSE "ensure"
           d == [p \in S!Live |-> notes[p].version]
           r == searches[s]
           x == [r EXCEPT !.pc = stage, !.docs = d]
<1>1. /\ r.pc = "files"
      /\ searches' = [searches EXCEPT ![s] = x]
      /\ UNCHANGED <<notes, returned, writers, cached, loading, words, vectors, disk, dirty,
                     timer, saving, embedded, searchSpent>>
  BY DEF S!ReadFiles, S!listVars, S!vectorVars, S!noteVars
<1>2. S!Live \in SUBSET Paths /\ stage \in {"idle", "ensure"}
  BY DEF S!Live
<1>3. d \in Lists /\ DOMAIN d = S!Live /\ \A p \in S!Live : d[p] = notes[p].version
  <2>1. d = [p \in S!Live |-> d[p]] /\ \A p \in S!Live : d[p] = notes[p].version
    OBVIOUS
  <2> HIDE DEF d
  <2>2. \A p \in S!Live : d[p] \in Versions
    BY <1>2, <2>1 DEF FilesInv
  <2> QED
    BY <1>2, <2>1, <2>2, ListMade
<1> HIDE DEF d, stage
<1>4. r \in SearchRecords /\ InOrder(r, returned)
  BY DEF SearchesInv
<1>5. x = [pc |-> stage, kind |-> r.kind, docs |-> d, expect |-> r.expect,
           missing |-> r.missing, hits |-> r.hits]
  BY <1>4, DocumentsSet, Zenon
<1>6. x \in SearchRecords
  BY <1>2, <1>3, <1>4, <1>5 DEF SearchRecords, Stages
<1>7. InOrder(x, returned)
  <2>1. \A p \in Paths : /\ r.expect[p] <= returned[p] /\ r.expect[p] \in Nat
                         /\ returned[p] \in Nat /\ notes[p].version \in Nat
                         /\ returned[p] <= notes[p].version
    BY <1>4, SearchFacts DEF InOrder, SearchRecords, FilesInv
  <2>2. \A p \in S!Live : d[p] >= r.expect[p]
    BY <2>1, <1>2, <1>3
  <2>3. r.missing = {} /\ DOMAIN r.hits = {}
    BY <1>1, <1>4 DEF InOrder
  <2> QED
    BY <2>1, <2>2, <2>3, <1>2, <1>3, <1>5 DEF InOrder
<1> HIDE DEF x
<1>8. SearchesInv'
  <2>1. /\ [searches EXCEPT ![s] = x] \in [Searchers -> SearchRecords]
        /\ \A t \in Searchers : InOrder([searches EXCEPT ![s] = x][t], returned)
    BY <1>6, <1>7, SearchMoves DEF SearchesInv
  <2> QED
    BY <1>1, <2>1 DEF SearchesInv
<1> QED
  BY <1>1, <1>8 DEF FilesInv, ListInv, VectorsInv

LEMMA SearchEnsures ==
  ASSUME RecordsBounds, IndexInv, NEW s \in Searchers, S!Ensure(s)
  PROVE  IndexInv'
<1> USE DEF IndexInv
<1> DEFINE r == searches[s]
           lacks == {p \in DOMAIN r.docs :
                        LET k == S!Key(r.kind, p)
                        IN  k \in DOMAIN vectors => vectors[k] # r.docs[p]}
           stage == IF lacks = {} THEN "score" ELSE "embed"
           x == [r EXCEPT !.pc = stage, !.missing = lacks, !.hits = S!Empty]
<1>1. /\ searches' = [searches EXCEPT ![s] = x]
      /\ vectors' = [k \in S!Kept(s) |-> vectors[k]]
      /\ UNCHANGED <<notes, returned, writers, cached, loading, words, disk,
                     saving, embedded, searchSpent>>
  BY DEF S!Ensure, S!listVars, S!noteVars
<1>2. dirty' \in BOOLEAN /\ timer' \in BOOLEAN
  BY DEF S!Ensure, S!Scheduled, VectorsInv
<1>3. lacks \subseteq DOMAIN r.docs /\ stage \in {"score", "embed"}
  OBVIOUS
<1> HIDE DEF stage, lacks
<1>4. r \in SearchRecords /\ InOrder(r, returned)
  BY DEF SearchesInv
<1>5. x = [pc |-> stage, kind |-> r.kind, docs |-> r.docs, expect |-> r.expect,
           missing |-> lacks, hits |-> S!Empty]
  BY <1>4, LookedUpSet, Zenon
<1>6. x \in SearchRecords
  <2>1. DOMAIN r.docs \subseteq Paths
    BY <1>4, ListParts DEF SearchRecords
  <2> QED
    BY <1>3, <1>4, <1>5, <2>1, EmptyList DEF SearchRecords, Stages
<1>7. InOrder(x, returned)
  BY <1>3, <1>4, <1>5 DEF InOrder
<1> HIDE DEF x
<1>8. SearchesInv'
  <2>1. /\ [searches EXCEPT ![s] = x] \in [Searchers -> SearchRecords]
        /\ \A t \in Searchers : InOrder([searches EXCEPT ![s] = x][t], returned)
    BY <1>6, <1>7, SearchMoves DEF SearchesInv
  <2> QED
    BY <1>1, <2>1 DEF SearchesInv
<1>9. VectorsInv'
  BY <1>1, <1>2 DEF VectorsInv, S!Kept
<1> QED
  BY <1>1, <1>8, <1>9 DEF FilesInv, ListInv

LEMMA SearchEmbeds ==
  ASSUME RecordsBounds, IndexInv, NEW s \in Searchers, S!Embed(s)
  PROVE  IndexInv'
<1> USE DEF IndexInv
<1> DEFINE r == searches[s]
           new == {S!Key(r.kind, p) : p \in r.missing}
           x == [r EXCEPT !.pc = "score", !.missing = {}]
<1>1. /\ searches' = [searches EXCEPT ![s] = x]
      /\ DOMAIN vectors' = DOMAIN vectors \cup new
      /\ dirty' = TRUE /\ timer' = TRUE
      /\ UNCHANGED <<notes, returned, writers, cached, loading, words, disk, saving,
                     searchSpent>>
  BY DEF S!Embed, S!listVars, S!noteVars, S!Scheduled
<1>2. r \in SearchRecords /\ InOrder(r, returned)
  BY DEF SearchesInv
<1>3. new \subseteq S!Keys
  BY <1>2 DEF SearchRecords, S!Key, S!Keys
<1>4. x = [pc |-> "score", kind |-> r.kind, docs |-> r.docs, expect |-> r.expect,
           missing |-> {}, hits |-> r.hits]
  BY <1>2, MissingSet, Zenon
<1>5. x \in SearchRecords /\ InOrder(x, returned)
  BY <1>2, <1>4 DEF SearchRecords, Stages, InOrder
<1> HIDE DEF x, new
<1>6. SearchesInv'
  <2>1. /\ [searches EXCEPT ![s] = x] \in [Searchers -> SearchRecords]
        /\ \A t \in Searchers : InOrder([searches EXCEPT ![s] = x][t], returned)
    BY <1>5, SearchMoves DEF SearchesInv
  <2> QED
    BY <1>1, <2>1 DEF SearchesInv
<1>7. VectorsInv'
  BY <1>1, <1>3 DEF VectorsInv
<1> QED
  BY <1>1, <1>6, <1>7 DEF FilesInv, ListInv

LEMMA SearchEnds ==
  ASSUME RecordsBounds, IndexInv, NEW s \in Searchers, S!Score(s) \/ S!EmbedFails(s)
  PROVE  IndexInv'
<1> USE DEF IndexInv
<1>1. /\ searches' = [searches EXCEPT ![s] = S!Idle]
      /\ searchSpent' = searchSpent \/ searchSpent' = [searchSpent EXCEPT !["trouble"] = @ + 1]
      /\ UNCHANGED <<notes, returned, writers, cached, loading, words, vectors, disk, dirty,
                     timer, saving, embedded>>
  BY DEF S!Score, S!EmbedFails, S!Spend, S!listVars, S!vectorVars, S!noteVars
<1>2. S!Idle \in SearchRecords /\ InOrder(S!Idle, returned)
  BY IdleFits DEF FilesInv
<1>3. SearchesInv'
  <2>1. /\ [searches EXCEPT ![s] = S!Idle] \in [Searchers -> SearchRecords]
        /\ \A t \in Searchers : InOrder([searches EXCEPT ![s] = S!Idle][t], returned)
    BY <1>2, SearchMoves DEF SearchesInv
  <2> QED
    BY <1>1, <2>1 DEF SearchesInv
<1>4. FilesInv'
  BY <1>1 DEF FilesInv
<1> QED
  BY <1>1, <1>3, <1>4 DEF ListInv, VectorsInv

LEMMA SearchSaves ==
  ASSUME RecordsBounds, IndexInv, S!TimerFires \/ S!Save \/ S!SaveFails
  PROVE  IndexInv'
<1> USE DEF IndexInv
<1>1. /\ searchSpent' = searchSpent \/ searchSpent' = [searchSpent EXCEPT !["trouble"] = @ + 1]
      /\ UNCHANGED <<notes, returned, writers, cached, loading, words, vectors, searches>>
  BY DEF S!TimerFires, S!Save, S!SaveFails, S!Spend, S!listVars, S!noteVars
<1>2. FilesInv'
  BY <1>1 DEF FilesInv
<1>3. DOMAIN S!NoSave.what = {}
  BY EmptyList DEF S!NoSave
<1>4. VectorsInv'
  <2>1. CASE S!TimerFires
    BY <2>1, <1>3 DEF S!TimerFires, VectorsInv
  <2>2. CASE S!Save
    BY <2>2, <1>3 DEF S!Save, VectorsInv
  <2>3. CASE S!SaveFails
    BY <2>3, <1>3 DEF S!SaveFails, VectorsInv
  <2> QED
    BY <2>1, <2>2, <2>3
<1> QED
  BY <1>1, <1>2, <1>4 DEF ListInv, SearchesInv

LEMMA SearchRestarts ==
  ASSUME RecordsBounds, IndexInv, S!Restart
  PROVE  IndexInv'
<1> USE DEF IndexInv
<1>1. /\ searchSpent' = [searchSpent EXCEPT !["trouble"] = @ + 1]
      /\ disk' = IF saving.on THEN S!Empty ELSE disk
      /\ vectors' = disk' /\ dirty' = FALSE /\ timer' = FALSE /\ saving' = S!NoSave
      /\ cached' = S!NoList /\ loading' = S!Unlocked
      /\ writers' = [w \in Editors |-> S!Free]
      /\ searches' = [s \in Searchers |-> S!Idle]
      /\ UNCHANGED <<notes, returned, words>>
  BY DEF S!Restart, S!Spend
<1>2. FilesInv'
  BY <1>1 DEF FilesInv
<1>3. ListInv'
  BY <1>1, EmptyList DEF ListInv, S!Unlocked
<1>4. VectorsInv'
  BY <1>1, EmptyList DEF VectorsInv, S!NoSave
<1>5. SearchesInv'
  BY <1>1, IdleFits DEF SearchesInv, FilesInv
<1> QED
  BY <1>2, <1>3, <1>4, <1>5

LEMMA SearchStep ==
  ASSUME RecordsBounds, IndexInv, S!Next \/ UNCHANGED searchVars
  PROVE  IndexInv'
<1>1. CASE S!Next
  <2>1. \/ \E w \in Editors : S!Return(w)
        \/ \E w \in Editors : \E p \in Paths : S!Write(w, p)
        \/ \E p \in Paths : S!Delete(p)
        \/ \E p \in Paths : S!ReadNote(p)
        \/ S!EndLoading \/ S!Expire
        \/ \E s \in Searchers : \E k \in S!Kinds : S!Begin(s, k)
        \/ \E s \in Searchers : S!StartLoading(s)
        \/ \E s \in Searchers : \E pool, hit \in SUBSET Paths : S!Lexical(s, pool, hit)
        \/ \E s \in Searchers : S!ReadFiles(s)
        \/ \E s \in Searchers : S!Ensure(s)
        \/ \E s \in Searchers : S!Embed(s)
        \/ \E s \in Searchers : S!Score(s) \/ S!EmbedFails(s)
        \/ S!TimerFires \/ S!Save \/ S!SaveFails
        \/ S!Restart
    BY <1>1 DEF S!Next
  <2> QED
    BY <2>1, SearchReturns, SearchWrites, SearchDeletes, SearchReads, SearchKeeps, SearchBegins,
       SearchLoads, SearchRanks, SearchOpens, SearchEnsures, SearchEmbeds, SearchEnds,
       SearchSaves, SearchRestarts
<1>2. CASE UNCHANGED searchVars
  BY <1>2 DEF searchVars, IndexInv, FilesInv, ListInv, VectorsInv, SearchesInv
<1> QED
  BY <1>1, <1>2

LEMMA SearchHolds ==
  ASSUME RecordsBounds, IndexInv
  PROVE  S!TypeOK /\ S!ReadsOwnWrites /\ S!WordsOfTheseNotes
<1> USE DEF IndexInv
<1>1. S!TypeOK
  BY SearchFacts DEF S!TypeOK, FilesInv, VectorsInv, SearchesInv, SearchRecords, Stages, InOrder
<1>2. S!ReadsOwnWrites
  BY DEF S!ReadsOwnWrites, SearchesInv, InOrder
<1>3. S!WordsOfTheseNotes
  BY DEF S!WordsOfTheseNotes, SearchesInv, InOrder
<1> QED
  BY <1>1, <1>2, <1>3

-----------------------------------------------------------------------------
(* Pages, the graph and the results of a search.                           *)

OneEach(s) == s \in Seq(Documents) /\ \A i, j \in DOMAIN s : i # j => s[i] # s[j]
Members(s) == {s[i] : i \in DOMAIN s}
At(s, n) == CHOOSE i \in DOMAIN s : s[i] = n
Place(s, n) == IF n \in Members(s) THEN At(s, n) ELSE Len(s) + 1

VaultTyped ==
    /\ vault \in [Documents -> Forms]
    /\ votes \in [Documents -> [for : 0..MaxVotes, against : 0..MaxVotes]]

LEMMA ViewFacts ==
  ASSUME RecordsBounds
  PROVE  /\ Documents \subseteq Nat /\ IsFiniteSet(Documents) /\ RRF_K \in Nat
         /\ MaxVotes \in 0..188
         /\ \A f \in Forms : /\ f.kind \in {"claim", "capsule"} /\ f.links \subseteq FileNames
                             /\ f.review \subseteq Documents /\ f.trust \in V!Statuses
<1>1. V!IsFiniteSet(Documents) => IsFiniteSet(Documents)
  BY DEF V!IsFiniteSet, IsFiniteSet
<1> QED
  BY RecordsBounds, <1>1 DEF V!ViewBounds

LEMMA MembersPlaced ==
  ASSUME NEW s, OneEach(s)
  PROVE  /\ Len(s) \in Nat /\ DOMAIN s = 1..Len(s) /\ Members(s) \subseteq Documents
         /\ \A i \in DOMAIN s : At(s, s[i]) = i
         /\ \A n \in Members(s) : At(s, n) \in 1..Len(s) /\ s[At(s, n)] = n
         /\ \A n : /\ Place(s, n) \in 1..(Len(s) + 1)
                   /\ Place(s, n) <= Len(s) <=> n \in Members(s)
                   /\ n \in Members(s) => Place(s, n) = At(s, n)
<1>1. Len(s) \in Nat /\ DOMAIN s = 1..Len(s) /\ \A i \in DOMAIN s : s[i] \in Documents
  BY LenProperties, ElementOfSeq DEF OneEach
<1>2. Members(s) \subseteq Documents
  BY <1>1 DEF Members
<1>3. \A i \in DOMAIN s : At(s, s[i]) = i
  BY DEF OneEach, At
<1>4. \A n \in Members(s) : At(s, n) \in 1..Len(s) /\ s[At(s, n)] = n
  BY <1>1, <1>3 DEF Members
<1>5. \A n : /\ Place(s, n) \in 1..(Len(s) + 1)
             /\ Place(s, n) <= Len(s) <=> n \in Members(s)
             /\ n \in Members(s) => Place(s, n) = At(s, n)
  BY <1>1, <1>4 DEF Place
<1> QED
  BY <1>1, <1>2, <1>3, <1>4, <1>5

LEMMA OrdersOf ==
  ASSUME RecordsBounds, NEW all \in SUBSET Documents, NEW s \in V!SetToSeqs(all)
  PROVE  OneEach(s) /\ Members(s) = all
<1> DEFINE k == Cardinality(all)
<1>1. IsFiniteSet(all) /\ k \in Nat
  BY ViewFacts, FS_Subset, FS_CardinalityType
<1>2. V!Cardinality(all) = k
  BY DEF V!Cardinality, Cardinality
<1>3. s \in [1..k -> all] /\ \A i, j \in 1..k : i # j => s[i] # s[j]
  BY <1>2 DEF V!SetToSeqs
<1> HIDE DEF k
<1>4. s \in Injection(1..k, all)
  BY <1>3 DEF Injection, IsInjective
<1>5. Cardinality(1..k) = k /\ IsFiniteSet(1..k)
  <2>1. k - 1 + 1 = k
    BY <1>1
  <2> QED
    BY <1>1, FS_Interval
<1>6. s \in Surjection(1..k, all)
  BY <1>1, <1>4, <1>5, FS_Injection DEF k
<1>7. Members(s) = all
  BY <1>3, <1>6 DEF Members, Surjection
<1>8. s \in Seq(Documents) /\ DOMAIN s = 1..k
  BY <1>1, <1>3, SeqDef
<1> QED
  BY <1>3, <1>7, <1>8 DEF OneEach

LEMMA RankingFacts ==
  ASSUME RecordsBounds, NEW s \in V!Rankings
  PROVE  OneEach(s) /\ V!ToSet(s) = Members(s)
<1>1. PICK all \in SUBSET Documents : s \in V!SetToSeqs(all)
  BY DEF V!Rankings
<1> QED
  BY <1>1, OrdersOf DEF V!ToSet, Members

-----------------------------------------------------------------------------
(* Scores: fractions of which the better place in both orders has more.    *)

LEMMA Product ==
  ASSUME NEW a \in Nat, NEW b \in Nat, NEW c \in Nat, a < b, c > 0
  PROVE  a * c < b * c /\ c * a < c * b /\ a * c \in Nat /\ b * c \in Nat /\ b * c > 0
<1>1. PICK d \in Nat : b = a + d /\ d > 0
  <2>1. b - a \in Nat /\ b = a + (b - a) /\ b - a > 0
    OBVIOUS
  <2> QED
    BY <2>1
<1>2. d * c > 0 /\ d * c \in Nat
  BY <1>1
<1>3. b * c = a * c + d * c /\ a * c \in Nat
  BY <1>1
<1> QED
  BY <1>2, <1>3

\* Two places each, the first note before the second in both orders.
LEMMA BothBetter ==
  ASSUME NEW x \in Nat, NEW y \in Nat, NEW u \in Nat, NEW v \in Nat,
         0 < x, x < u, 0 < y, y < v, NEW t \in Nat, NEW q \in Nat, t >= q, q > 0
  PROVE  ((y + x) * t) * (u * v) > ((v + u) * q) * (x * y)
<1>1. /\ u * v \in Nat /\ x * y \in Nat /\ x * y > 0 /\ u * v > 0
  BY Product
<1>2. y * (u * v) > v * (x * y)
  <2>1. y * v \in Nat /\ y * v > 0
    BY Product
  <2>2. x * (y * v) < u * (y * v)
    BY <2>1, Product
  <2>3. y * (u * v) = u * (y * v) /\ v * (x * y) = x * (y * v)
    OBVIOUS
  <2> QED
    BY <2>2, <2>3
<1>3. x * (u * v) > u * (x * y)
  <2>1. x * u \in Nat /\ x * u > 0
    BY Product
  <2>2. y * (x * u) < v * (x * u)
    BY <2>1, Product
  <2>3. x * (u * v) = v * (x * u) /\ u * (x * y) = y * (x * u)
    OBVIOUS
  <2> QED
    BY <2>2, <2>3
<1> DEFINE m == (y + x) * (u * v)
           n == (v + u) * (x * y)
<1>4. m \in Nat /\ n \in Nat /\ n < m
  <2>1. m = y * (u * v) + x * (u * v) /\ n = v * (x * y) + u * (x * y)
    OBVIOUS
  <2>2. /\ y * (u * v) \in Nat /\ x * (u * v) \in Nat
        /\ v * (x * y) \in Nat /\ u * (x * y) \in Nat
    BY <1>1
  <2> QED
    BY <1>2, <1>3, <2>1, <2>2
<1>5. ((y + x) * t) * (u * v) = t * m /\ ((v + u) * q) * (x * y) = q * n
  OBVIOUS
<1> HIDE DEF m, n
<1>6. q * n < q * m
  BY <1>4, Product
<1>7. q * m <= t * m
  <2>1. CASE q = t
    BY <1>4, <2>1
  <2>2. CASE q < t
    BY <1>4, <2>2, Product
  <2> QED
    BY <2>1, <2>2
<1>8. q * n \in Nat /\ q * m \in Nat /\ t * m \in Nat
  BY <1>4
<1> QED
  BY <1>5, <1>6, <1>7, <1>8

\* Two places against one behind the first of them.
LEMMA OneBetter ==
  ASSUME NEW x \in Nat, NEW y \in Nat, NEW u \in Nat, 0 < x, x < u, 0 < y,
         NEW t \in Nat, NEW q \in Nat, t >= q, q > 0
  PROVE  ((y + x) * t) * u > q * (x * y)
<1>1. x * y \in Nat /\ u * y \in Nat /\ x * y < u * y
  BY Product
<1> DEFINE m == (y + x) * u
<1>2. m \in Nat /\ x * y < m
  <2>1. m = y * u + x * u /\ y * u = u * y /\ x * u \in Nat
    OBVIOUS
  <2> QED
    BY <1>1, <2>1
<1>3. ((y + x) * t) * u = t * m
  OBVIOUS
<1> HIDE DEF m
<1>4. q * (x * y) < q * m
  BY <1>1, <1>2, Product
<1>5. q * m <= t * m
  <2>1. CASE q = t
    BY <1>2, <2>1
  <2>2. CASE q < t
    BY <1>1, <1>2, <2>2, Product
  <2> QED
    BY <2>1, <2>2
<1>6. q * (x * y) \in Nat /\ q * m \in Nat /\ t * m \in Nat
  BY <1>1, <1>2
<1> QED
  BY <1>3, <1>4, <1>5, <1>6

LEMMA Trusted ==
  ASSUME RecordsBounds, VaultTyped, NEW n \in Documents
  PROVE  V!Trust(n) \in Nat /\ V!Trust(n) > 0
<1> DEFINE standing == V!Standing(n)
           boost == IF standing \in {"superseded", "merged"} THEN 100 ELSE 100 + 4 * votes[n].for
<1>1. votes[n].for \in 0..MaxVotes /\ votes[n].against \in 0..188
  <2>1. votes[n] \in [for : 0..MaxVotes, against : 0..MaxVotes]
    BY DEF VaultTyped
  <2>2. votes[n].for \in 0..MaxVotes /\ votes[n].against \in 0..MaxVotes
    BY <2>1
  <2>3. MaxVotes \in Nat /\ MaxVotes <= 188
    BY ViewFacts
  <2> QED
    BY <2>2, <2>3
<1>2. standing \in V!Statuses
  BY ViewFacts DEF VaultTyped, V!Standing, V!Statuses
<1>3. V!Base[standing] \in Nat /\ V!Base[standing] >= 35
  BY <1>2 DEF V!Statuses, V!Base
<1>4. boost \in Nat /\ boost >= 100
  BY <1>1, ViewFacts
<1>5. V!Trust(n) = (V!Base[standing] * boost) \div (100 + 18 * votes[n].against)
  BY DEF V!Trust
<1> HIDE DEF standing, boost
<1> DEFINE base == V!Base[standing]
<1>6. base * boost \in Nat /\ base * boost >= 3500
  <2>1. PICK d \in Nat : base = 35 + d
    <3>1. base - 35 \in Nat /\ base = 35 + (base - 35)
      BY <1>3
    <3> QED
      BY <3>1
  <2>2. base * boost = 35 * boost + d * boost /\ d * boost \in Nat
    BY <1>4, <2>1
  <2> QED
    BY <1>4, <2>2
<1> DEFINE many == base * boost
           weight == 100 + 18 * votes[n].against
<1>7. weight \in Nat /\ weight > 0 /\ weight <= 3484
  BY <1>1
<1>8. V!Trust(n) = many \div weight /\ many \in Nat /\ many >= weight
  BY <1>5, <1>6, <1>7
<1> HIDE DEF many, weight
<1>9. many \div weight \in Nat /\ many \div weight > 0
  BY <1>7, <1>8
<1> QED
  BY <1>8, <1>9

\* A note ahead of another in both orders and trusted no less has the higher score.
LEMMA HigherScore ==
  ASSUME RecordsBounds, VaultTyped, NEW ws \in V!Rankings, NEW vs \in V!Rankings,
         NEW a \in Documents, NEW b \in Documents,
         Place(ws, a) < Place(ws, b), Place(vs, a) < Place(vs, b), V!Trust(a) >= V!Trust(b)
  PROVE  /\ V!Higher(V!Score(ws, vs, a), V!Score(ws, vs, b))
         /\ ~V!Higher(V!Score(ws, vs, b), V!Score(ws, vs, a))
<1> DEFINE t == V!Trust(a)
           q == V!Trust(b)
           x == RRF_K + Place(ws, a)
           y == RRF_K + Place(vs, a)
           u == RRF_K + Place(ws, b)
           v == RRF_K + Place(vs, b)
<1>1. t \in Nat /\ q \in Nat /\ q > 0 /\ t >= q
  BY Trusted
<1>2. OneEach(ws) /\ OneEach(vs) /\ V!ToSet(ws) = Members(ws) /\ V!ToSet(vs) = Members(vs)
  BY RankingFacts
<1>3. /\ Place(ws, a) \in 1..(Len(ws) + 1) /\ Place(vs, a) \in 1..(Len(vs) + 1)
      /\ Place(ws, b) \in 1..(Len(ws) + 1) /\ Place(vs, b) \in 1..(Len(vs) + 1)
      /\ Len(ws) \in Nat /\ Len(vs) \in Nat
  BY <1>2, MembersPlaced
<1>4. a \in Members(ws) /\ a \in Members(vs)
  <2>1. Place(ws, a) <= Len(ws) /\ Place(vs, a) <= Len(vs)
    BY <1>3
  <2> QED
    BY <1>2, <2>1, MembersPlaced
<1>5. /\ x \in Nat /\ y \in Nat /\ u \in Nat /\ v \in Nat
      /\ 0 < x /\ x < u /\ 0 < y /\ y < v
  <2>1. /\ Place(ws, a) \in Nat /\ Place(vs, a) \in Nat /\ Place(ws, a) > 0 /\ Place(vs, a) > 0
        /\ Place(ws, b) \in Nat /\ Place(vs, b) \in Nat
    BY <1>3
  <2>2. RRF_K \in Nat
    BY ViewFacts
  <2> QED
    BY <2>1, <2>2
<1>6. V!Fraction(ws, a) = <<1, x>> /\ V!Fraction(vs, a) = <<1, y>>
  BY <1>2, <1>4 DEF V!Fraction, Place, At
<1>7. /\ b \in Members(ws) => V!Fraction(ws, b) = <<1, u>>
      /\ b \notin Members(ws) => V!Fraction(ws, b) = <<0, 1>>
      /\ b \in Members(vs) => V!Fraction(vs, b) = <<1, v>>
      /\ b \notin Members(vs) => V!Fraction(vs, b) = <<0, 1>>
  BY <1>2 DEF V!Fraction, Place, At
<1> HIDE DEF x, y, u, v, t, q
<1>8. V!Score(ws, vs, a) = <<(1 * y + 1 * x) * t, x * y>>
  BY <1>6 DEF V!Score, t
<1>9. V!Score(ws, vs, a) = <<(y + x) * t, x * y>>
  BY <1>5, <1>8
<1>10. /\ (y + x) * t \in Nat /\ x * y \in Nat /\ x * y > 0 /\ (y + x) * t > 0
  <2>1. t > 0 /\ y + x > 0 /\ y + x \in Nat
    BY <1>1, <1>5
  <2> QED
    BY <1>1, <1>5, <2>1, Product
<1>11. CASE b \in Members(ws) /\ b \in Members(vs)
  <2>1. V!Score(ws, vs, b) = <<(1 * v + 1 * u) * q, u * v>>
    BY <1>7, <1>11 DEF V!Score, q
  <2>2. V!Score(ws, vs, b) = <<(v + u) * q, u * v>>
    BY <1>5, <2>1
  <2>3. ((y + x) * t) * (u * v) > ((v + u) * q) * (x * y)
    BY <1>1, <1>5, BothBetter
  <2>4. ((y + x) * t) * (u * v) \in Nat /\ ((v + u) * q) * (x * y) \in Nat
    BY <1>1, <1>5
  <2> DEFINE m == ((y + x) * t) * (u * v)
             n == ((v + u) * q) * (x * y)
  <2>5. V!Higher(V!Score(ws, vs, a), V!Score(ws, vs, b)) <=> m > n
    BY <1>9, <2>2 DEF V!Higher
  <2>6. V!Higher(V!Score(ws, vs, b), V!Score(ws, vs, a)) <=> n > m
    BY <1>9, <2>2 DEF V!Higher
  <2> HIDE DEF m, n
  <2>7. m > n /\ m \in Nat /\ n \in Nat
    BY <2>3, <2>4 DEF m, n
  <2> QED
    BY <2>5, <2>6, <2>7
<1>12. CASE b \in Members(ws) /\ b \notin Members(vs)
  <2>1. V!Score(ws, vs, b) = <<(1 * 1 + 0 * u) * q, u * 1>>
    BY <1>7, <1>12 DEF V!Score, q
  <2>2. V!Score(ws, vs, b) = <<q, u>>
    BY <1>1, <1>5, <2>1
  <2> DEFINE m == ((y + x) * t) * u
             n == q * (x * y)
  <2>3. m > n /\ m \in Nat /\ n \in Nat
    BY <1>1, <1>5, OneBetter
  <2>4. V!Higher(V!Score(ws, vs, a), V!Score(ws, vs, b)) <=> m > n
    BY <1>9, <2>2 DEF V!Higher
  <2>5. V!Higher(V!Score(ws, vs, b), V!Score(ws, vs, a)) <=> n > m
    BY <1>9, <2>2 DEF V!Higher
  <2> HIDE DEF m, n
  <2> QED
    BY <2>3, <2>4, <2>5
<1>13. CASE b \notin Members(ws) /\ b \in Members(vs)
  <2>1. V!Score(ws, vs, b) = <<(0 * v + 1 * 1) * q, 1 * v>>
    BY <1>7, <1>13 DEF V!Score, q
  <2>2. V!Score(ws, vs, b) = <<q, v>>
    BY <1>1, <1>5, <2>1
  <2> DEFINE m == ((y + x) * t) * v
             n == q * (x * y)
  <2>3. m > n /\ m \in Nat /\ n \in Nat
    <3>1. ((x + y) * t) * v > q * (y * x)
      BY <1>1, <1>5, OneBetter
    <3>2. ((x + y) * t) * v = m /\ q * (y * x) = n
      BY <1>1, <1>5
    <3> QED
      BY <1>1, <1>5, <3>1, <3>2
  <2>4. V!Higher(V!Score(ws, vs, a), V!Score(ws, vs, b)) <=> m > n
    BY <1>9, <2>2 DEF V!Higher
  <2>5. V!Higher(V!Score(ws, vs, b), V!Score(ws, vs, a)) <=> n > m
    BY <1>9, <2>2 DEF V!Higher
  <2> HIDE DEF m, n
  <2> QED
    BY <2>3, <2>4, <2>5
<1>14. CASE b \notin Members(ws) /\ b \notin Members(vs)
  <2>1. V!Score(ws, vs, b) = <<(0 * 1 + 0 * 1) * q, 1 * 1>>
    BY <1>7, <1>14 DEF V!Score, q
  <2>2. V!Score(ws, vs, b) = <<0, 1>>
    BY <1>1, <2>1
  <2> DEFINE m == (y + x) * t
             n == x * y
  <2>3. V!Higher(V!Score(ws, vs, a), V!Score(ws, vs, b)) <=> m * 1 > 0 * n
    BY <1>9, <2>2 DEF V!Higher
  <2>4. V!Higher(V!Score(ws, vs, b), V!Score(ws, vs, a)) <=> 0 * n > m * 1
    BY <1>9, <2>2 DEF V!Higher
  <2>5. m \in Nat /\ m > 0 /\ n \in Nat
    BY <1>10
  <2> HIDE DEF m, n
  <2> QED
    BY <2>3, <2>4, <2>5
<1> QED
  BY <1>11, <1>12, <1>13, <1>14

-----------------------------------------------------------------------------
(* Of claims that say the same the first stays.                            *)

\* The first notes of a list, sifted one by one.
IsSifting(g, s) ==
    g = [t \in SUBSET DOMAIN s |->
            IF t = {} THEN << >>
            ELSE IF \E c \in V!ToSet(g[t \ {V!Max(t)}]) : V!SaysTheSame(s[V!Max(t)], c)
                 THEN g[t \ {V!Max(t)}]
                 ELSE Append(g[t \ {V!Max(t)}], s[V!Max(t)])]
Sifting(s) == CHOOSE g : IsSifting(g, s)

LEMMA SiftingIsFold == ASSUME NEW s PROVE V!ClaimsOnce(s) = Sifting(s)[DOMAIN s]
  BY Zenon DEF V!ClaimsOnce, V!FoldLeft, V!MapThenFoldSet, Sifting, IsSifting

\* What is left of the first k notes of s: in their order, and of a note that is left out
\* an earlier one that says the same.
Sifted(x, s, k) ==
    /\ x \in Seq(Documents)
    /\ \A i \in DOMAIN x : x[i] \in Members(s) /\ At(s, x[i]) <= k
    /\ \A i, j \in DOMAIN x : i < j => At(s, x[i]) < At(s, x[j])
    /\ \A m \in 1..k : \/ s[m] \in Members(x)
                       \/ \E c \in Members(x) : V!SaysTheSame(s[m], c) /\ At(s, c) < m

LEMMA SiftedNext ==
  ASSUME NEW s, OneEach(s), NEW k \in Nat, k + 1 <= Len(s), NEW x, Sifted(x, s, k)
  PROVE  Sifted(IF \E c \in V!ToSet(x) : V!SaysTheSame(s[k + 1], c) THEN x
                ELSE Append(x, s[k + 1]), s, k + 1)
<1> DEFINE n == s[k + 1]
<1>1. /\ Len(s) \in Nat /\ DOMAIN s = 1..Len(s) /\ Members(s) \subseteq Documents
      /\ \A i \in DOMAIN s : At(s, s[i]) = i
      /\ \A d \in Members(s) : At(s, d) \in 1..Len(s) /\ s[At(s, d)] = d
  BY MembersPlaced
<1>2. /\ k + 1 \in DOMAIN s /\ n \in Members(s) /\ n \in Documents /\ At(s, n) = k + 1
  BY <1>1 DEF Members
<1>3. V!ToSet(x) = Members(x) /\ x \in Seq(Documents)
  BY DEF V!ToSet, Members, Sifted
<1>4. /\ Len(x) \in Nat /\ DOMAIN x = 1..Len(x)
  BY <1>3, LenProperties
<1>5. \A m \in 1..(k + 1) : m \in 1..k \/ m = k + 1
  OBVIOUS
<1>6. \A i \in DOMAIN x : At(s, x[i]) \in Nat /\ At(s, x[i]) <= k
  BY <1>1 DEF Sifted
<1>7. CASE \E c \in V!ToSet(x) : V!SaysTheSame(n, c)
  <2>1. PICK c \in Members(x) : V!SaysTheSame(n, c)
    BY <1>3, <1>7
  <2>2. At(s, c) < k + 1
    BY <1>6, <2>1 DEF Members
  <2>3. \A m \in 1..(k + 1) : \/ s[m] \in Members(x)
                              \/ \E d \in Members(x) : V!SaysTheSame(s[m], d) /\ At(s, d) < m
    BY <1>5, <2>1, <2>2 DEF Sifted
  <2>4. \A i \in DOMAIN x : x[i] \in Members(s) /\ At(s, x[i]) <= k + 1
    BY <1>6 DEF Sifted
  <2>5. Sifted(x, s, k + 1)
    BY <2>3, <2>4 DEF Sifted
  <2> QED
    BY <1>7, <2>5
<1>8. CASE ~\E c \in V!ToSet(x) : V!SaysTheSame(n, c)
  <2> DEFINE y == Append(x, n)
  <2>1. /\ y \in Seq(Documents) /\ Len(y) = Len(x) + 1 /\ y[Len(x) + 1] = n
        /\ \A i \in 1..Len(x) : y[i] = x[i]
    BY <1>2, <1>3, AppendProperties
  <2>2. DOMAIN y = 1..(Len(x) + 1)
    BY <2>1, LenProperties
  <2> HIDE DEF y
  <2>3. \A i \in DOMAIN y : (i \in DOMAIN x /\ y[i] = x[i]) \/ (i = Len(x) + 1 /\ y[i] = n)
    BY <1>4, <2>1, <2>2
  <2>4. \A i \in DOMAIN y : y[i] \in Members(s) /\ At(s, y[i]) <= k + 1
    BY <1>2, <1>6, <2>3 DEF Sifted
  <2>5. \A i, j \in DOMAIN y : i < j => At(s, y[i]) < At(s, y[j])
    <3>1. SUFFICES ASSUME NEW i \in DOMAIN y, NEW j \in DOMAIN y, i < j
                   PROVE  At(s, y[i]) < At(s, y[j])
      OBVIOUS
    <3>2. i \in DOMAIN x /\ y[i] = x[i]
      BY <1>4, <2>2, <2>3, <3>1
    <3>3. CASE j \in DOMAIN x /\ y[j] = x[j]
      BY <3>1, <3>2, <3>3 DEF Sifted
    <3>4. CASE y[j] = n
      BY <1>2, <1>6, <3>2, <3>4
    <3> QED
      BY <2>3, <3>3, <3>4
  <2>6. Members(x) \subseteq Members(y) /\ n \in Members(y)
    BY <1>4, <2>1, <2>2 DEF Members
  <2>7. \A m \in 1..(k + 1) : \/ s[m] \in Members(y)
                              \/ \E c \in Members(y) : V!SaysTheSame(s[m], c) /\ At(s, c) < m
    BY <1>5, <2>6 DEF Sifted
  <2>8. Sifted(y, s, k + 1)
    BY <2>1, <2>4, <2>5, <2>7 DEF Sifted
  <2> QED
    BY <1>8, <2>8 DEF y
<1> QED
  BY <1>7, <1>8

LEMMA SiftingSteps ==
  ASSUME NEW s, OneEach(s)
  PROVE  Sifted(V!ClaimsOnce(s), s, Len(s))
<1> DEFINE n == Len(s)
           D == 1..n
           X == Seq(Documents)
           Next(x, i) == IF \E c \in V!ToSet(x) : V!SaysTheSame(s[i], c) THEN x
                         ELSE Append(x, s[i])
           step == [i \in D |-> [x \in X |-> Next(x, i)]]
<1>1. n \in Nat /\ DOMAIN s = D /\ \A i \in D : s[i] \in Documents
  BY LenProperties, ElementOfSeq DEF OneEach
<1>2. step \in [D -> [X -> X]] /\ << >> \in X
  <2>1. \A i \in D, x \in X : Append(x, s[i]) \in X
    BY <1>1, AppendProperties
  <2>2. << >> \in X
    OBVIOUS
  <2> HIDE DEF D, X
  <2>3. \A i \in D, x \in X : Next(x, i) \in X
    BY <2>1
  <2> HIDE DEF Next
  <2> QED
    BY <2>2, <2>3
<1> HIDE DEF Next
<1>3. \A i \in D, x \in X : step[i][x] = Next(x, i)
  OBVIOUS
<1> HIDE DEF X, step
<1>4. PICK g : LeftFold(g, n, X, << >>, step)
  BY <1>1, <1>2, LeftFoldExists
<1>5. \A t \in SUBSET D : t # {} => Greatest(t) \in t
  BY <1>1, GreatestOfInterval
<1>6. \A t : V!Max(t) = Greatest(t)
  BY DEF V!Max, Greatest
<1> HIDE DEF D
<1>7. ASSUME NEW t \in SUBSET D
      PROVE  g[t] = IF t = {} THEN << >> ELSE Next(g[t \ {V!Max(t)}], V!Max(t))
  <2>1. t # {} => g[t \ {Greatest(t)}] \in X /\ Greatest(t) \in D
    BY <1>4, <1>5 DEF LeftFold, D
  <2>2. g[t] = IF t = {} THEN << >> ELSE step[Greatest(t)][g[t \ {Greatest(t)}]]
    BY <1>4 DEF LeftFold, D
  <2> QED
    BY <1>3, <1>6, <2>1, <2>2
<1>8. g \in [SUBSET D -> X]
  BY <1>4 DEF LeftFold, D
<1>9. IsSifting(g, s)
  <2>1. \A t \in SUBSET D :
           g[t] = IF t = {} THEN << >>
                  ELSE IF \E c \in V!ToSet(g[t \ {V!Max(t)}]) : V!SaysTheSame(s[V!Max(t)], c)
                       THEN g[t \ {V!Max(t)}]
                       ELSE Append(g[t \ {V!Max(t)}], s[V!Max(t)])
    BY <1>7 DEF Next
  <2> QED
    BY <1>1, <1>8, <2>1 DEF IsSifting
<1> DEFINE h == Sifting(s)
<1>10. IsSifting(h, s)
  BY <1>9 DEF Sifting
<1> HIDE DEF h
<1>11. \A t \in SUBSET D : h[t] = IF t = {} THEN << >> ELSE Next(h[t \ {V!Max(t)}], V!Max(t))
  BY <1>1, <1>10 DEF IsSifting, Next
<1> DEFINE K == {k \in Nat : k <= n => Sifted(h[1..k], s, k)}
<1>12. 0 \in K
  <2>1. 1..0 = {} /\ << >> \in Seq(Documents) /\ DOMAIN << >> = {}
    OBVIOUS
  <2>2. h[1..0] = << >>
    BY <1>11, <2>1
  <2>3. Sifted(<< >>, s, 0)
    BY <2>1 DEF Sifted
  <2> QED
    BY <2>2, <2>3
<1>13. ASSUME NEW k \in K PROVE k + 1 \in K
  <2> SUFFICES ASSUME k + 1 <= n PROVE Sifted(h[1..(k + 1)], s, k + 1)
    OBVIOUS
  <2>1. k \in Nat /\ k + 1 \in 1..n /\ (k + 1) - 1 = k /\ k <= n
    BY <1>1
  <2>2. Sifted(h[1..k], s, k)
    BY <2>1
  <2>3. 1..(k + 1) \in SUBSET D /\ k + 1 \in D /\ 1..(k + 1) # {}
    <3>1. /\ n \in Nat /\ k \in Nat /\ k + 1 \in 1..n /\ k + 1 \in 1..(k + 1)
          /\ \A i \in 1..(k + 1) : i \in 1..n
      <4> HIDE DEF n
      <4> QED
        BY <1>1, <2>1
    <3> QED
      BY <3>1 DEF D
  <2>4. V!Max(1..(k + 1)) = k + 1 /\ (1..(k + 1)) \ {k + 1} = 1..k
    BY <1>1, <1>6, <2>1, GreatestOfInterval
  <2>5. h[1..(k + 1)] = Next(h[1..k], k + 1)
    BY <1>11, <2>3, <2>4
  <2>6. Sifted(Next(h[1..k], k + 1), s, k + 1)
    BY <2>1, <2>2, SiftedNext DEF Next
  <2> QED
    BY <2>5, <2>6
<1>14. Sifted(h[1..n], s, n)
  <2>1. K \in SUBSET Nat
    OBVIOUS
  <2>2. \A k \in Nat : k \in K
    <3> HIDE DEF K
    <3> QED
      BY <1>12, <1>13, <2>1, Induction
  <2>3. n <= n => Sifted(h[1..n], s, n)
    BY <1>1, <2>2
  <2> QED
    BY <1>1, <2>3
<1> QED
  BY <1>1, <1>14, SiftingIsFold DEF h, D

\* The results of a search: in order, and of a note that is left out another that says the
\* same is no later than any the note had to come before.
Ordered(ws, vs, r) ==
    \A a, b \in Members(ws) \cup Members(vs) :
        Place(ws, a) < Place(ws, b) /\ Place(vs, a) < Place(vs, b) /\ V!Trust(a) >= V!Trust(b)
        => \/ Place(r, a) < Place(r, b)
           \/ \E c \in Members(r) : V!SaysTheSame(a, c) /\ ~(Place(r, b) < Place(r, c))

LEMMA ResultsOrdered ==
  ASSUME RecordsBounds, VaultTyped, NEW ws \in V!Rankings, NEW vs \in V!Rankings,
         NEW s \in V!RankedByTrust(ws, vs)
  PROVE  OneEach(V!ClaimsOnce(s)) /\ Ordered(ws, vs, V!ClaimsOnce(s))
<1> DEFINE r == V!ClaimsOnce(s)
           all == Members(ws) \cup Members(vs)
<1>1. /\ all = V!ToSet(ws) \cup V!ToSet(vs) /\ all \in SUBSET Documents
  BY RankingFacts, MembersPlaced
<1>2. s \in V!SetToSeqs(all)
  BY <1>1 DEF V!RankedByTrust
<1>3. OneEach(s) /\ Members(s) = all
  BY <1>1, <1>2, OrdersOf
<1>4. Sifted(r, s, Len(s))
  BY <1>3, SiftingSteps
<1>5. \A i, j \in DOMAIN s : i < j => V!Before(ws, vs, s[i], s[j])
  BY DEF V!RankedByTrust
<1> HIDE DEF r, all
<1>6. /\ Len(s) \in Nat /\ DOMAIN s = 1..Len(s)
      /\ \A d \in Members(s) : At(s, d) \in 1..Len(s) /\ s[At(s, d)] = d
  BY <1>3, MembersPlaced
<1>7. /\ \A i \in DOMAIN r : r[i] \in Members(s) /\ At(s, r[i]) \in Nat
      /\ \A i, j \in DOMAIN r : i < j => At(s, r[i]) < At(s, r[j])
      /\ r \in Seq(Documents)
  BY <1>4, <1>6 DEF Sifted
<1>8. OneEach(r)
  <2>1. DOMAIN r = 1..Len(r) /\ Len(r) \in Nat
    BY <1>7, LenProperties
  <2>2. ASSUME NEW i \in DOMAIN r, NEW j \in DOMAIN r, i # j PROVE r[i] # r[j]
    <3>1. i < j \/ j < i
      BY <2>1, <2>2
    <3>2. At(s, r[i]) < At(s, r[j]) \/ At(s, r[j]) < At(s, r[i])
      BY <1>7, <3>1
    <3> QED
      BY <1>7, <3>2
  <2> QED
    BY <1>7, <2>2 DEF OneEach
<1>9. /\ Len(r) \in Nat /\ DOMAIN r = 1..Len(r)
      /\ \A n \in Members(r) : At(r, n) \in 1..Len(r) /\ r[At(r, n)] = n
      /\ \A n : /\ Place(r, n) \in 1..(Len(r) + 1)
                /\ Place(r, n) <= Len(r) <=> n \in Members(r)
                /\ n \in Members(r) => Place(r, n) = At(r, n)
  BY <1>8, MembersPlaced
<1>10. ASSUME NEW m \in Members(r), NEW n, At(s, m) < At(s, n), n \in Members(s)
       PROVE  Place(r, m) < Place(r, n)
  <2>1. At(r, m) \in DOMAIN r /\ r[At(r, m)] = m /\ Place(r, m) = At(r, m)
    BY <1>9
  <2>2. CASE n \in Members(r)
    <3>1. At(r, n) \in DOMAIN r /\ r[At(r, n)] = n /\ Place(r, n) = At(r, n)
      BY <1>9, <2>2
    <3>2. ~(At(s, n) < At(s, m)) /\ m # n
      BY <1>6, <1>7, <1>10, <2>1, <3>1
    <3>3. ~(At(r, n) < At(r, m)) /\ At(r, n) # At(r, m)
      BY <1>7, <2>1, <3>1, <3>2
    <3> QED
      BY <1>9, <2>1, <3>1, <3>3
  <2>3. CASE n \notin Members(r)
    BY <1>9, <2>1, <2>3
  <2> QED
    BY <2>2, <2>3
<1>11. ASSUME NEW a \in all, NEW b \in all,
              Place(ws, a) < Place(ws, b), Place(vs, a) < Place(vs, b), V!Trust(a) >= V!Trust(b)
       PROVE  \/ Place(r, a) < Place(r, b)
              \/ \E c \in Members(r) : V!SaysTheSame(a, c) /\ ~(Place(r, b) < Place(r, c))
  <2>1. a \in Documents /\ b \in Documents
    BY <1>1
  <2>2. /\ V!Higher(V!Score(ws, vs, a), V!Score(ws, vs, b))
        /\ ~V!Higher(V!Score(ws, vs, b), V!Score(ws, vs, a))
    BY <1>11, <2>1, HigherScore
  <2>3. ~V!Before(ws, vs, b, a)
    BY <2>2 DEF V!Before
  <2>4. Place(ws, a) # Place(ws, b)
    <3>1. OneEach(ws)
      BY RankingFacts
    <3> QED
      BY <1>11, <3>1, MembersPlaced
  <2>5. /\ At(s, a) \in DOMAIN s /\ s[At(s, a)] = a /\ At(s, a) \in 1..Len(s)
        /\ At(s, b) \in DOMAIN s /\ s[At(s, b)] = b /\ At(s, b) \in 1..Len(s)
    BY <1>3, <1>6
  <2>6. ~(At(s, b) < At(s, a))
    BY <1>5, <2>3, <2>5
  <2>7. At(s, a) < At(s, b)
    BY <1>6, <2>4, <2>5, <2>6
  <2>8. CASE a \in Members(r)
    BY <1>3, <1>10, <2>7, <2>8
  <2>9. CASE a \notin Members(r)
    <3>1. PICK c \in Members(r) : V!SaysTheSame(a, c) /\ At(s, c) < At(s, a)
      BY <1>4, <2>5, <2>9 DEF Sifted
    <3>2. At(s, c) \in Nat
      BY <1>7, <3>1 DEF Members
    <3>3. At(s, c) < At(s, b)
      BY <1>6, <2>5, <2>7, <3>1, <3>2
    <3>4. Place(r, c) < Place(r, b)
      BY <1>3, <1>10, <3>1, <3>3
    <3>5. ~(Place(r, b) < Place(r, c))
      BY <1>9, <3>4
    <3> QED
      BY <3>1, <3>5
  <2> QED
    BY <2>8, <2>9
<1>12. Ordered(ws, vs, r)
  BY <1>11 DEF Ordered, all
<1> QED
  BY <1>8, <1>12 DEF r

-----------------------------------------------------------------------------
(* The graph and the page of a note.                                       *)

LEMMA CountedAsGiven == ASSUME NEW all PROVE V!Cardinality(all) = Cardinality(all)
  BY DEF V!Cardinality, Cardinality

\* What GraphWhole says of one graph.
Whole(g) ==
    /\ g.nodes \subseteq Documents /\ g.edges \subseteq g.nodes \X g.nodes
    /\ \A n \in g.nodes : g.degree[n] = Cardinality({e \in g.edges : n \in {e[1], e[2]}})
    /\ \A e \in g.edges : /\ e[1] \in V!Visible(g.viewer)
                          /\ e[2] \in V!Visible(g.viewer) \cup g.restricted

\* Both ends of an edge are shown, so that no edge is left out and degrees stand.
LEMMA GraphShown ==
  ASSUME RecordsBounds, VaultTyped, NEW viewer, NEW orphans \in BOOLEAN,
         NEW archived \in BOOLEAN, NEW operations \in BOOLEAN
  PROVE  Whole(V!Graph(viewer, orphans, archived, operations))
<1> DEFINE all == V!Shown(archived, operations)
           edges == V!Edges(all, viewer)
           visible == {n \in all : V!MayOpen(viewer, n)}
           restricted == V!Placeholders(edges, visible)
           degree == [n \in all |-> V!Cardinality({e \in edges : n \in {e[1], e[2]}})]
           nodes == {n \in visible \cup restricted : orphans \/ degree[n] > 0}
           kept == {e \in edges : {e[1], e[2]} \subseteq nodes}
           g == V!Graph(viewer, orphans, archived, operations)
<1>1. g = [viewer |-> viewer, orphans |-> orphans, nodes |-> nodes, restricted |-> restricted,
           edges |-> kept, degree |-> [n \in nodes |-> degree[n]]]
  BY DEF V!Graph
<1>2. DOMAIN vault = Documents /\ all \subseteq Documents
  BY DEF VaultTyped, V!Shown
<1>3. IsFiniteSet(all)
  BY <1>2, ViewFacts, FS_Subset
<1>4. /\ edges \subseteq all \X all
      /\ \A e \in edges : V!MayOpen(viewer, e[1])
  BY DEF V!Edges
<1> HIDE DEF all, edges
<1>5. IsFiniteSet(edges)
  <2>1. IsFiniteSet(all \X all)
    BY <1>3, FS_Product
  <2> QED
    BY <1>4, <2>1, FS_Subset
<1>6. \A e \in edges : /\ e[1] \in all /\ e[2] \in all /\ e = <<e[1], e[2]>>
                       /\ e[1] \in visible /\ e[2] \in visible \cup restricted
  BY <1>4 DEF V!Placeholders
<1>7. visible \subseteq all /\ restricted \subseteq all
  BY <1>6 DEF V!Placeholders
<1> HIDE DEF visible, restricted
<1>8. \A n \in all : degree[n] = Cardinality({e \in edges : n \in {e[1], e[2]}})
  BY CountedAsGiven
<1> HIDE DEF degree
<1>9. ASSUME NEW e \in edges, NEW n \in {e[1], e[2]} PROVE degree[n] > 0
  <2> DEFINE ends == {f \in edges : n \in {f[1], f[2]}}
  <2>1. e \in ends
    BY <1>9
  <2>2. IsFiniteSet(ends)
    BY <1>5, FS_Subset
  <2>3. Cardinality(ends) \in Nat /\ Cardinality(ends) # 0
    <3> HIDE DEF ends
    <3> QED
      BY <2>1, <2>2, FS_EmptySet, FS_CardinalityType
  <2>4. degree[n] = Cardinality(ends)
    BY <1>6, <1>8, <1>9
  <2> HIDE DEF ends
  <2> QED
    BY <2>3, <2>4
<1>10. \A e \in edges : e[1] \in nodes /\ e[2] \in nodes
  BY <1>6, <1>9
<1>11. kept = edges
  BY <1>10
<1>12. nodes \subseteq all
  BY <1>7
<1>13. /\ visible \subseteq V!Visible(viewer)
  BY <1>2 DEF visible, V!Visible
<1> HIDE DEF nodes, kept
<1>14. \A n \in nodes : [m \in nodes |-> degree[m]][n]
                          = Cardinality({e \in edges : n \in {e[1], e[2]}})
  BY <1>8, <1>12
<1> HIDE DEF g
<1>15. /\ g.viewer = viewer /\ g.nodes = nodes /\ g.edges = edges /\ g.restricted = restricted
       /\ g.degree = [n \in nodes |-> degree[n]]
  BY <1>1, <1>11
<1>16. edges \subseteq nodes \X nodes
  BY <1>6, <1>10
<1>17. /\ g.nodes \subseteq Documents /\ g.edges \subseteq g.nodes \X g.nodes
  BY <1>2, <1>12, <1>15, <1>16
<1>18. \A n \in g.nodes : g.degree[n] = Cardinality({e \in g.edges : n \in {e[1], e[2]}})
  BY <1>14, <1>15
<1>19. \A e \in g.edges : /\ e[1] \in V!Visible(g.viewer)
                          /\ e[2] \in V!Visible(g.viewer) \cup g.restricted
  BY <1>6, <1>13, <1>15
<1>20. Whole(g)
  BY <1>17, <1>18, <1>19 DEF Whole
<1> QED
  BY <1>20 DEF g

\* What PageAgrees says of one page.
Agrees(p) ==
    p # V!NoPage =>
        p.backlinks = {n \in V!Visible(p.viewer) \ {p.note} :
            \E name \in vault[n].links : p.note \in V!OnPage(V!Visible(p.viewer), name)}

LEMMA PageShown ==
  ASSUME RecordsBounds, VaultTyped, NEW viewer, NEW n, V!ShowNote(viewer, n)
  PROVE  page'.backlinks \subseteq Documents /\ Agrees(page')
<1> DEFINE among == V!Visible(viewer)
<1>1. /\ page'.viewer = viewer /\ page'.note = n
      /\ page'.backlinks = {m \in among : V!Refers(among, m, n)}
  BY DEF V!ShowNote
<1>2. \A m : V!Refers(among, m, n)
              <=> m # n /\ \E name \in vault[m].links : n \in V!OnPage(among, name)
  BY DEF V!Refers, V!Linked
<1>3. among \subseteq Documents
  BY DEF VaultTyped, V!Visible
<1> HIDE DEF among
<1>4. page'.backlinks = {m \in among \ {n} :
                            \E name \in vault[m].links : n \in V!OnPage(among, name)}
  BY <1>1, <1>2
<1>5. page'.backlinks = {m \in V!Visible(page'.viewer) \ {page'.note} :
           \E name \in vault[m].links : page'.note \in V!OnPage(V!Visible(page'.viewer), name)}
  BY <1>1, <1>4 DEF among
<1> QED
  BY <1>1, <1>3, <1>5 DEF Agrees

-----------------------------------------------------------------------------

ResultsWhole ==
    /\ V!ToSet(found.words) = Members(found.words)
    /\ V!ToSet(found.vectors) = Members(found.vectors)
    /\ OneEach(found.results)
    /\ Ordered(found.words, found.vectors, found.results)

LEMMA OrderStays ==
  ASSUME NEW ws, NEW vs, NEW r, Ordered(ws, vs, r), vault' = vault, votes' = votes
  PROVE  Ordered(ws, vs, r)'
<1>1. \A n : V!Standing(n)' = V!Standing(n)
  BY DEF V!Standing
<1>2. \A n : V!Trust(n)' = V!Trust(n)
  BY <1>1 DEF V!Trust
<1>3. \A a, c : V!SaysTheSame(a, c)' <=> V!SaysTheSame(a, c)
  BY DEF V!SaysTheSame
<1> QED
  BY <1>2, <1>3 DEF Ordered

LEMMA ResultsStay ==
  ASSUME ResultsWhole, vault' = vault, votes' = votes, found' = found
  PROVE  ResultsWhole'
<1>1. (Ordered(found.words, found.vectors, found.results))'
  BY DEF ResultsWhole, Ordered, V!Trust, V!Standing, V!SaysTheSame
<1>2. /\ (V!ToSet(found.words) = Members(found.words))'
      /\ (V!ToSet(found.vectors) = Members(found.vectors))' /\ OneEach(found.results)'
  BY DEF ResultsWhole, Members, V!ToSet, OneEach
<1> QED
  BY <1>1, <1>2 DEF ResultsWhole

\* The notes have their types, and what was shown last is as it should be.
ViewInv ==
    /\ VaultTyped /\ Whole(graph)
    /\ page.backlinks \subseteq Documents /\ Agrees(page)
    /\ ResultsWhole

LEMMA ViewStart == ASSUME RecordsBounds, V!Init PROVE ViewInv
<1>1. VaultTyped /\ graph = V!NoGraph /\ page = V!NoPage /\ found = V!NothingFound
  BY DEF V!Init, VaultTyped
<1>2. Whole(graph)
  BY <1>1 DEF V!NoGraph, Whole
<1>3. page.backlinks \subseteq Documents /\ Agrees(page)
  BY <1>1 DEF V!NoPage, Agrees
<1>4. found.words = << >> /\ found.vectors = << >> /\ found.results = << >>
  BY <1>1 DEF V!NothingFound
<1>5. Members(<< >>) = {} /\ V!ToSet(<< >>) = {}
  BY DEF Members, V!ToSet
<1>6. OneEach(<< >>)
  BY DEF OneEach
<1>7. Ordered(<< >>, << >>, << >>)
  BY <1>5 DEF Ordered
<1> QED
  BY <1>1, <1>2, <1>3, <1>4, <1>5, <1>6, <1>7 DEF ViewInv, ResultsWhole

LEMMA ViewStep ==
  ASSUME RecordsBounds, ViewInv, V!Next \/ UNCHANGED viewVars
  PROVE  ViewInv'
<1>1. CASE UNCHANGED viewVars
  <2>1. vault' = vault /\ votes' = votes /\ graph' = graph /\ page' = page /\ found' = found
    BY <1>1 DEF viewVars
  <2>2. ResultsWhole'
    BY <2>1, ResultsStay DEF ViewInv
  <2>3. VaultTyped' /\ (page.backlinks \subseteq Documents)'
    BY <2>1 DEF ViewInv, VaultTyped
  <2>4. Agrees(page)'
    BY <2>1 DEF ViewInv, Agrees, V!Visible, V!MayOpen, V!OnPage, V!Named
  <2>5. Whole(graph)'
    BY <2>1 DEF ViewInv, Whole, V!Visible, V!MayOpen
  <2> QED
    BY <2>2, <2>3, <2>4, <2>5 DEF ViewInv
<1>2. ASSUME NEW viewer, NEW orphans \in BOOLEAN, NEW archived \in BOOLEAN,
             NEW operations \in BOOLEAN, V!ShowGraph(viewer, orphans, archived, operations)
      PROVE  ViewInv'
  <2>1. graph' = V!Graph(viewer, orphans, archived, operations)
        /\ vault' = vault /\ votes' = votes /\ page' = page /\ found' = found
    BY <1>2 DEF V!ShowGraph
  <2>2. Whole(V!Graph(viewer, orphans, archived, operations))
    BY GraphShown DEF ViewInv
  <2> DEFINE g == V!Graph(viewer, orphans, archived, operations)
  <2> HIDE DEF g
  <2>3. Whole(graph)'
    <3>1. Whole(g) /\ graph' = g
      BY <2>1, <2>2 DEF g
    <3> QED
      BY <2>1, <3>1 DEF Whole, V!Visible, V!MayOpen
  <2>4. VaultTyped' /\ (page.backlinks \subseteq Documents)'
    BY <2>1 DEF ViewInv, VaultTyped
  <2>5. Agrees(page)'
    BY <2>1 DEF ViewInv, Agrees, V!Visible, V!MayOpen, V!OnPage, V!Named
  <2>6. ResultsWhole'
    BY <2>1, ResultsStay DEF ViewInv
  <2> QED
    BY <2>3, <2>4, <2>5, <2>6 DEF ViewInv
<1>3. ASSUME NEW viewer, NEW n, V!ShowNote(viewer, n) PROVE ViewInv'
  <2>1. vault' = vault /\ votes' = votes /\ graph' = graph /\ found' = found
    BY <1>3 DEF V!ShowNote
  <2>2. page'.backlinks \subseteq Documents /\ Agrees(page')
    BY <1>3, PageShown DEF ViewInv
  <2>3. Agrees(page)'
    BY <2>1, <2>2 DEF Agrees, V!Visible, V!MayOpen, V!OnPage, V!Named
  <2>4. VaultTyped'
    BY <2>1 DEF ViewInv, VaultTyped
  <2>5. Whole(graph)'
    BY <2>1 DEF ViewInv, Whole, V!Visible, V!MayOpen
  <2>6. ResultsWhole'
    BY <2>1, ResultsStay DEF ViewInv
  <2> QED
    BY <2>2, <2>3, <2>4, <2>5, <2>6 DEF ViewInv
<1>4. ASSUME NEW ws \in V!Rankings, NEW vs \in V!Rankings, V!Search(ws, vs) PROVE ViewInv'
  <2>1. vault' = vault /\ votes' = votes /\ graph' = graph /\ page' = page
    BY <1>4 DEF V!Search
  <2>2. PICK s \in V!RankedByTrust(ws, vs) :
            found' = [words |-> ws, vectors |-> vs, results |-> V!ClaimsOnce(s)]
    BY <1>4 DEF V!Search
  <2>3. PICK r : /\ found' = [words |-> ws, vectors |-> vs, results |-> r]
                 /\ OneEach(r) /\ Ordered(ws, vs, r)
    BY <2>2, ResultsOrdered DEF ViewInv
  <2>4. found'.words = ws /\ found'.vectors = vs /\ found'.results = r
    BY <2>3
  <2>5. V!ToSet(ws) = Members(ws) /\ V!ToSet(vs) = Members(vs)
    BY RankingFacts
  <2>6. Ordered(ws, vs, r)'
    BY <2>1, <2>3, OrderStays
  <2>7. ResultsWhole'
    BY <2>3, <2>4, <2>5, <2>6 DEF ResultsWhole, OneEach, Members, V!ToSet
  <2>8. VaultTyped' /\ (page.backlinks \subseteq Documents)'
    BY <2>1 DEF ViewInv, VaultTyped
  <2>9. Agrees(page)'
    BY <2>1 DEF ViewInv, Agrees, V!Visible, V!MayOpen, V!OnPage, V!Named
  <2>10. Whole(graph)'
    BY <2>1 DEF ViewInv, Whole, V!Visible, V!MayOpen
  <2> QED
    BY <2>7, <2>8, <2>9, <2>10 DEF ViewInv
<1> QED
  BY <1>1, <1>2, <1>3, <1>4 DEF V!Next

\* Places as TrustOrders counts them.
SetPlace(s, n) ==
    IF n \in V!ToSet(s) THEN CHOOSE i \in DOMAIN s : s[i] = n ELSE V!Len(s) + 1
IsPlaced(s) == V!ToSet(s) = Members(s) /\ V!Len(s) = Len(s)

LEMMA ViewHolds ==
  ASSUME RecordsBounds, ViewInv
  PROVE  V!TypeOK /\ V!GraphWhole /\ V!PageAgrees /\ V!TrustOrders
<1>1. V!ToSet(found.results) = Members(found.results) /\ Members(found.results) \subseteq Documents
  BY MembersPlaced DEF ViewInv, ResultsWhole, V!ToSet, Members
<1>2. V!TypeOK
  BY <1>1 DEF ViewInv, VaultTyped, Whole, V!TypeOK
<1>3. V!GraphWhole
  BY CountedAsGiven DEF ViewInv, Whole, V!GraphWhole
<1>4. V!PageAgrees
  BY DEF ViewInv, Agrees, V!PageAgrees
<1>5. V!TrustOrders
  <2>1. /\ V!ToSet(found.words) = Members(found.words)
        /\ V!ToSet(found.vectors) = Members(found.vectors)
        /\ V!ToSet(found.results) = Members(found.results)
    BY <1>1 DEF ViewInv, ResultsWhole
  <2>2. \A s : IsPlaced(s) => \A n : SetPlace(s, n) = Place(s, n)
    BY DEF IsPlaced, SetPlace, Place, At
  <2>3. V!TrustOrders <=>
            \A a, b \in V!ToSet(found.words) \cup V!ToSet(found.vectors) :
                /\ SetPlace(found.words, a) < SetPlace(found.words, b)
                /\ SetPlace(found.vectors, a) < SetPlace(found.vectors, b)
                /\ V!Trust(a) >= V!Trust(b)
                => \/ SetPlace(found.results, a) < SetPlace(found.results, b)
                   \/ \E c \in V!ToSet(found.results) :
                         /\ V!SaysTheSame(a, c)
                         /\ ~(SetPlace(found.results, b) < SetPlace(found.results, c))
    BY DEF V!TrustOrders, SetPlace
  <2> QED
    BY <2>1, <2>2, <2>3 DEF ViewInv, ResultsWhole, Ordered, IsPlaced
<1> QED
  BY <1>2, <1>3, <1>4, <1>5

-----------------------------------------------------------------------------

\* What was said in a conversation is kept, and seen by its participants only; each call of
\* a tool is answered once, and the caller is told of what took effect, for any messages of
\* any callers and any number of rounds and of calls in them (sagwan_loop.py:
\* append_chat_message, librarian.py:_invoke_chatgpt_responses_with_tools).
THEOREM ConversationsKept == RecordsSpec => []ConversationsWhole
<1>1. RecordsInit => LoopInv /\ ChatInv
  BY RecordsBounds, LoopStart, ChatStart DEF RecordsInit
<1>2. LoopInv /\ ChatInv /\ [RecordsNext]_recordsVars => (LoopInv /\ ChatInv)'
  <2> SUFFICES ASSUME LoopInv, ChatInv, [RecordsNext]_recordsVars
               PROVE  LoopInv' /\ ChatInv'
    OBVIOUS
  <2>1. L!Next \/ UNCHANGED loopVars
    BY DEF RecordsNext, recordsVars
  <2>2. C!Next \/ UNCHANGED chatVars
    BY DEF RecordsNext, recordsVars
  <2> QED
    BY <2>1, <2>2, RecordsBounds, LoopStep, ChatStep
<1>3. LoopInv /\ ChatInv => ConversationsWhole
  BY LoopHolds, ChatHolds DEF ConversationsWhole
<1> QED
  BY <1>1, <1>2, <1>3, PTL DEF RecordsSpec

\* No two accounts share a nickname, notes name their writer's present one unless a rename
\* overlapped with another request, and a day opens no more accounts than the cap for each
\* start of the server, for any users, names, notes and requests (users.py:
\* update_user_profile, vault.py:rename_actor_references, main.py:
\* _check_provision_daily_cap).
THEOREM AccountsKept == RecordsSpec => []AccountsInOrder
<1>1. RecordsInit => AccInv
  BY RecordsBounds, AccStart DEF RecordsInit
<1>2. AccInv /\ [RecordsNext]_recordsVars => AccInv'
  <2> SUFFICES ASSUME AccInv, [RecordsNext]_recordsVars PROVE AccInv'
    OBVIOUS
  <2>1. A!Next \/ UNCHANGED accountVars
    BY DEF RecordsNext, recordsVars
  <2> QED
    BY <2>1, RecordsBounds, AccStep
<1>3. AccInv => AccountsInOrder
  BY RecordsBounds, AccHolds DEF AccountsInOrder
<1> QED
  BY <1>1, <1>2, <1>3, PTL DEF RecordsSpec

\* Reviews never target each other in a circle, as long as every target was written by the
\* tool, and each note's counts are those of the reviews there are unless the last change
\* passed by the recount, for any capsules, claims, stances and length of a chain
\* (mcp_server.py:_normalize_write_metadata, _recompute_parent_aggregate).
THEOREM ReviewsHold == RecordsSpec => []ReviewsSound
<1>1. RecordsInit => ReviewsInv
  BY RecordsBounds, ReviewStart DEF RecordsInit
<1>2. ReviewsInv /\ [RecordsNext]_recordsVars => ReviewsInv'
  <2> SUFFICES ASSUME ReviewsInv, [RecordsNext]_recordsVars PROVE ReviewsInv'
    OBVIOUS
  <2>1. T!Next \/ UNCHANGED threadVars
    BY DEF RecordsNext, recordsVars
  <2> QED
    BY <2>1, RecordsBounds, ReviewStep
<1>3. ReviewsInv => ReviewsSound
  BY RecordsBounds, ReviewHolds DEF ReviewsSound
<1> QED
  BY <1>1, <1>2, <1>3, PTL DEF RecordsSpec

\* A search sees what was written before it began, under the words of the present notes;
\* the graph and the pages show the same notes, and where words and vectors agree that one
\* of two notes is better, the one that is trusted no less comes first, for any notes,
\* names, links, votes, viewers, writers and searches (semantic_search.py:semantic_rank,
\* site.py:get_closed_graph, _note_payload, search_closed_notes).
THEOREM NotesStayFound == RecordsSpec => []NotesFound
<1>1. RecordsInit => IndexInv /\ ViewInv
  BY RecordsBounds, SearchStart, ViewStart DEF RecordsInit
<1>2. IndexInv /\ ViewInv /\ [RecordsNext]_recordsVars => (IndexInv /\ ViewInv)'
  <2> SUFFICES ASSUME IndexInv, ViewInv, [RecordsNext]_recordsVars
               PROVE  IndexInv' /\ ViewInv'
    OBVIOUS
  <2>1. S!Next \/ UNCHANGED searchVars
    BY DEF RecordsNext, recordsVars
  <2>2. V!Next \/ UNCHANGED viewVars
    BY DEF RecordsNext, recordsVars
  <2> QED
    BY <2>1, <2>2, RecordsBounds, SearchStep, ViewStep
<1>3. IndexInv /\ ViewInv => NotesFound
  BY RecordsBounds, SearchHolds, ViewHolds DEF NotesFound
<1> QED
  BY <1>1, <1>2, <1>3, PTL DEF RecordsSpec
=============================================================================
