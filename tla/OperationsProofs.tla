-------------------------- MODULE OperationsProofs --------------------------
(***************************************************************************)
(* What upkeep and curation of MCOperations promise for any notes, goals,  *)
(* limits and bounds.                                                      *)
(***************************************************************************)
EXTENDS MCOperations, SumTheorems, SequenceTheorems, TLAPS

-----------------------------------------------------------------------------
(* Upkeep: links are earned. *)

NoteFields == {"state", "new", "checked", "flagged", "age", "weak", "links"}
Citation == [count : 0..2, named : BOOLEAN]

\* What a note holds of its citations and what was said of it: a candidate was cited once
\* or named, and a link twice or named.
Backed(it, said) ==
    /\ DOMAIN it = NoteFields
    /\ said \in [Notes -> Citation]
    /\ \A m \in Notes : /\ m \in it.weak => said[m].count >= 1 \/ said[m].named
                        /\ m \in it.links => said[m].count = 2 \/ said[m].named

AllBacked(all, said) ==
    /\ DOMAIN all = Notes /\ DOMAIN said = Notes
    /\ \A n \in Notes : Backed(all[n], said[n])

LinksInv == AllBacked(notes, cited)

\* A note with the candidates and links of another, or with links that were named.
LEMMA BackedLike ==
    ASSUME NEW it, NEW said, NEW other, NEW known, Backed(other, known), DOMAIN it = NoteFields,
           said \in [Notes -> Citation],
           \A m \in Notes : /\ said[m].count >= known[m].count
                            /\ known[m].named => said[m].named
                            /\ m \in it.weak => m \in other.weak \/ said[m].named
                            /\ m \in it.links => m \in other.links \/ said[m].named
    PROVE  Backed(it, said)
  BY DEF Backed, Citation

LEMMA CitationNamed ==
    ASSUME NEW one \in Citation
    PROVE  LET it == [one EXCEPT !.named = TRUE]
           IN  it \in Citation /\ it.count = one.count /\ it.named = TRUE
  BY DEF Citation

LEMMA NamedFacts ==
    ASSUME NEW n, NEW some, DOMAIN cited = Notes, \A x \in Notes : cited[x] \in [Notes -> Citation]
    PROVE  /\ DOMAIN M!Named(n, some) = Notes
           /\ \A x \in Notes :
                 /\ M!Named(n, some)[x] \in [Notes -> Citation]
                 /\ \A m \in Notes :
                       /\ M!Named(n, some)[x][m].count = cited[x][m].count
                       /\ cited[x][m].named => M!Named(n, some)[x][m].named
                       /\ x = n /\ m \in some => M!Named(n, some)[x][m].named
<1> DEFINE N == M!Named(n, some)
           line == [m \in Notes |-> IF m \in some THEN [cited[n][m] EXCEPT !.named = TRUE]
                                    ELSE cited[n][m]]
<1>1. N = [cited EXCEPT ![n] = line]
  BY DEF M!Named
<1>2. ASSUME n \in Notes
      PROVE  /\ line \in [Notes -> Citation]
             /\ \A m \in Notes : /\ line[m].count = cited[n][m].count
                                 /\ cited[n][m].named => line[m].named
                                 /\ m \in some => line[m].named
  <2>1. \A m \in Notes : cited[n][m] \in Citation
    BY <1>2
  <2>2. \A m \in Notes : line[m] = IF m \in some THEN [cited[n][m] EXCEPT !.named = TRUE]
                                   ELSE cited[n][m]
    OBVIOUS
  <2>3. line = [m \in Notes |-> line[m]]
    OBVIOUS
  <2> HIDE DEF line
  <2>4. ASSUME NEW m \in Notes
        PROVE  /\ line[m] \in Citation
               /\ line[m].count = cited[n][m].count
               /\ cited[n][m].named => line[m].named
               /\ m \in some => line[m].named
    BY <2>1, <2>2, CitationNamed
  <2> QED
    BY <2>3, <2>4
<1> HIDE DEF N, line
<1>3. DOMAIN N = Notes /\ \A x \in Notes : N[x] = IF x = n THEN line ELSE cited[x]
  BY <1>1
<1> QED
  BY <1>2, <1>3 DEF N

\* One more citation of m, on which m becomes a candidate or a link.
LEMMA RecordedBacked ==
    ASSUME NEW it, NEW said, Backed(it, said), NEW m \in Notes, NEW strong \in BOOLEAN,
           NEW named \in BOOLEAN
    PROVE  Backed(M!Recorded(it, m, strong, named),
                  [said EXCEPT ![m] = [count |-> IF @.count < 2 THEN @.count + 1 ELSE 2,
                                       named |-> @.named \/ (strong /\ named)]])
<1> DEFINE more == [said EXCEPT ![m] = [count |-> IF @.count < 2 THEN @.count + 1 ELSE 2,
                                        named |-> @.named \/ (strong /\ named)]]
           new == M!Recorded(it, m, strong, named)
<1>1. said \in [Notes -> Citation] /\ DOMAIN it = NoteFields
  BY DEF Backed
<1>2. /\ more \in [Notes -> Citation]
      /\ \A x \in Notes \ {m} : more[x] = said[x]
      /\ more[m].count = IF said[m].count < 2 THEN said[m].count + 1 ELSE 2
      /\ more[m].named <=> said[m].named \/ (strong /\ named)
  BY <1>1 DEF Citation
<1>3. /\ DOMAIN new = NoteFields
      /\ m \in it.links => new = it
      /\ m \notin it.links /\ M!Earned(it, m, strong, named)
            => new.weak = it.weak \ {m} /\ new.links = it.links \cup {m}
      /\ m \notin it.links /\ ~M!Earned(it, m, strong, named)
            => new.weak = it.weak \cup {m} /\ new.links = it.links
  BY <1>1 DEF M!Recorded, NoteFields
<1> HIDE DEF more, new
<1>4. Backed(new, more)
  BY <1>1, <1>2, <1>3 DEF Backed, Citation, M!Earned
<1> QED
  BY <1>4 DEF more, new

LEMMA CitesBacked ==
    ASSUME NEW n, NEW m, NEW strong \in BOOLEAN, NEW named \in BOOLEAN, NEW all, NEW said,
           m = M!NoNote \/ m \in Notes, AllBacked(all, said), M!Cites(n, m, strong, named, all, said)
    PROVE  LinksInv'
<1>1. CASE m = M!NoNote
  BY <1>1 DEF M!Cites, LinksInv
<1>2. CASE m # M!NoNote
  <2> DEFINE more == [said[n] EXCEPT ![m] = [count |-> IF @.count < 2 THEN @.count + 1 ELSE 2,
                                             named |-> @.named \/ (strong /\ named)]]
             new == M!Recorded(all[n], m, strong, named)
  <2>1. /\ notes' = [all EXCEPT ![n] = new]
        /\ cited' = [said EXCEPT ![n] = more]
    BY <1>2 DEF M!Cites
  <2>2. n \in Notes => Backed(new, more)
    BY <1>2, RecordedBacked DEF AllBacked
  <2> HIDE DEF new, more
  <2> QED
    BY <2>1, <2>2 DEF LinksInv, AllBacked
<1> QED
  BY <1>1, <1>2

\* A note that is written with its candidates and links as they were.
LEMMA RewrittenBacked ==
    ASSUME LinksInv, NEW n, NEW it,
           n \in Notes => /\ DOMAIN it = NoteFields
                          /\ it.weak = notes[n].weak /\ it.links = notes[n].links
    PROVE  AllBacked([notes EXCEPT ![n] = it], cited)
<1>1. n \in Notes => Backed(it, cited[n])
  BY BackedLike DEF LinksInv, AllBacked, Backed, Citation
<1> QED
  BY <1>1 DEF LinksInv, AllBacked

LEMMA AnswerBacked ==
    ASSUME LinksInv, NEW m \in Notes \cup {M!NoNote}
    PROVE  /\ \A verdict \in {"keep", "revise"} : M!Stay(verdict, m) => LinksInv'
           /\ \A target \in Notes \cup {M!NoNote} : M!Merge(target, m) => LinksInv'
           /\ \A heir \in Notes : M!Supersede(heir, m) => LinksInv'
           /\ \A verdict \in {"clear", "conflict", "duplicate"}, target, named \in BOOLEAN :
                 M!CheckConflict(verdict, target, m, named)
                 => LinksInv'
<1> DEFINE n == run.task[1].note
<1>0. /\ DOMAIN notes = Notes /\ \A x \in Notes : DOMAIN notes[x] = NoteFields
      /\ DOMAIN cited = Notes /\ \A x \in Notes : cited[x] \in [Notes -> Citation]
      /\ \A x \in Notes : Backed(notes[x], cited[x])
  BY DEF LinksInv, AllBacked, Backed
<1>1. ASSUME NEW verdict \in {"keep", "revise"}, M!Stay(verdict, m)
      PROVE  LinksInv'
  <2> DEFINE it == M!Touched(notes[n])
  <2>1. M!Cites(n, m, verdict = "revise", FALSE, [notes EXCEPT ![n] = it], cited)
    BY <1>1 DEF M!Stay, M!Touched
  <2>2. n \in Notes => /\ DOMAIN it = NoteFields
                       /\ it.weak = notes[n].weak /\ it.links = notes[n].links
    BY <1>0 DEF M!Touched, NoteFields
  <2> HIDE DEF it, n
  <2>3. AllBacked([notes EXCEPT ![n] = it], cited)
    BY <2>2, RewrittenBacked
  <2>4. (verdict = "revise") \in BOOLEAN
    OBVIOUS
  <2> QED
    BY <2>1, <2>3, <2>4, CitesBacked
<1>2. ASSUME NEW target \in Notes \cup {M!NoNote}, M!Merge(target, m)
      PROVE  LinksInv'
  <2> DEFINE heir == {target} \ {M!NoNote, n}
             it == M!Retired(notes[n], heir)
             said == M!Named(n, heir)
             all == [notes EXCEPT ![n] = it]
  <2>1. M!Cites(n, m, TRUE, m = target, all, said)
    BY <1>2 DEF M!Merge, M!Retired, M!Touched
  <2>2. n \in Notes => /\ DOMAIN it = NoteFields
                       /\ it.weak = notes[n].weak /\ it.links = notes[n].links \cup heir
    BY <1>0 DEF M!Retired, M!Touched, NoteFields
  <2>3. /\ DOMAIN said = Notes
        /\ \A x \in Notes :
              /\ said[x] \in [Notes -> Citation]
              /\ \A y \in Notes : /\ said[x][y].count = cited[x][y].count
                                  /\ cited[x][y].named => said[x][y].named
                                  /\ x = n /\ y \in heir => said[x][y].named
    BY <1>0, NamedFacts
  <2> HIDE DEF heir, it, said, n
  <2>4. AllBacked(all, said)
    <3>1. DOMAIN all = Notes /\ \A x \in Notes : all[x] = IF x = n THEN it ELSE notes[x]
      BY <1>0
    <3> HIDE DEF all
    <3>2. ASSUME NEW x \in Notes
          PROVE  Backed(all[x], said[x])
      <4>1. DOMAIN all[x] = NoteFields
        BY <1>0, <2>2, <3>1
      <4>2. \A y \in Notes : /\ said[x][y].count >= cited[x][y].count
                             /\ cited[x][y].named => said[x][y].named
                             /\ y \in all[x].weak => y \in notes[x].weak
                             /\ y \in all[x].links => y \in notes[x].links \/ said[x][y].named
        <5> TAKE y \in Notes
        <5>1. cited[x][y].count \in 0..2
          BY <1>0 DEF Citation
        <5>2. /\ said[x][y].count >= cited[x][y].count
              /\ cited[x][y].named => said[x][y].named
          BY <5>1, <2>2, <2>3, <3>1
        <5>3. /\ y \in all[x].weak => y \in notes[x].weak
              /\ y \in all[x].links => y \in notes[x].links \/ said[x][y].named
          BY <2>2, <2>3, <3>1
        <5> QED
          BY <5>2, <5>3
      <4> QED
        BY <1>0, <2>3, <4>1, <4>2, BackedLike
    <3> QED
      BY <2>3, <3>1, <3>2 DEF AllBacked
  <2>5. (m = target) \in BOOLEAN
    OBVIOUS
  <2> HIDE DEF all
  <2> QED
    BY <2>1, <2>4, <2>5, CitesBacked
<1>3. ASSUME NEW heir \in Notes, M!Supersede(heir, m)
      PROVE  LinksInv'
  <2> DEFINE inherited == (notes[n].links \cup {n}) \ {heir}
             it == M!Retired(notes[n], {heir})
             new == [M!Created EXCEPT !.links = inherited]
             named == M!Named(heir, inherited)
             said == [named EXCEPT ![n][heir].named = TRUE]
             all == [notes EXCEPT ![n] = it, ![heir] = new]
  <2>1. M!Cites(heir, m, TRUE, m = n, all, said)
    BY <1>3 DEF M!Supersede, M!Retired, M!Touched
  <2>2. n \in Notes => /\ DOMAIN it = NoteFields
                       /\ it.weak = notes[n].weak /\ it.links = notes[n].links \cup {heir}
    BY <1>0 DEF M!Retired, M!Touched, NoteFields
  <2>3. DOMAIN new = NoteFields /\ new.weak = {} /\ new.links = inherited
    BY DEF M!Created, M!Absent, NoteFields
  <2>4. /\ DOMAIN named = Notes
        /\ \A x \in Notes :
              /\ named[x] \in [Notes -> Citation]
              /\ \A y \in Notes : /\ named[x][y].count = cited[x][y].count
                                  /\ cited[x][y].named => named[x][y].named
                                  /\ x = heir /\ y \in inherited => named[x][y].named
    BY <1>0, NamedFacts
  <2> HIDE DEF inherited, it, new, named, n
  <2>5. /\ DOMAIN said = Notes
        /\ \A x \in Notes :
              /\ said[x] \in [Notes -> Citation]
              /\ \A y \in Notes : /\ said[x][y].count = cited[x][y].count
                                  /\ cited[x][y].named => said[x][y].named
                                  /\ x = heir /\ y \in inherited => said[x][y].named
                                  /\ x = n /\ y = heir => said[x][y].named
    <3> DEFINE line == [named[n] EXCEPT ![heir] = [@ EXCEPT !.named = TRUE]]
    <3>1. said = [named EXCEPT ![n] = line]
      OBVIOUS
    <3>2. ASSUME n \in Notes
          PROVE  /\ line \in [Notes -> Citation]
                 /\ \A y \in Notes : /\ line[y].count = named[n][y].count
                                     /\ named[n][y].named => line[y].named
                                     /\ y = heir => line[y].named
      <4>1. named[n] \in [Notes -> Citation] /\ named[n][heir] \in Citation
        BY <2>4, <3>2
      <4> DEFINE one == [named[n][heir] EXCEPT !.named = TRUE]
      <4>2. one \in Citation /\ one.count = named[n][heir].count /\ one.named = TRUE
        BY <4>1, CitationNamed
      <4>3. line = [named[n] EXCEPT ![heir] = one]
        OBVIOUS
      <4> HIDE DEF one, line
      <4> QED
        BY <4>1, <4>2, <4>3
    <3> HIDE DEF line, said
    <3>3. DOMAIN said = Notes /\ \A x \in Notes : said[x] = IF x = n THEN line ELSE named[x]
      BY <2>4, <3>1
    <3>4. ASSUME NEW x \in Notes
          PROVE  /\ said[x] \in [Notes -> Citation]
                 /\ \A y \in Notes : /\ said[x][y].count = named[x][y].count
                                     /\ named[x][y].named => said[x][y].named
                                     /\ x = n /\ y = heir => said[x][y].named
      BY <2>4, <3>2, <3>3
    <3> QED
      BY <2>4, <3>3, <3>4
  <2> HIDE DEF said
  <2>6. AllBacked(all, said)
    <3>1. /\ DOMAIN all = Notes
          /\ \A x \in Notes : all[x] = IF x = heir THEN new ELSE IF x = n THEN it ELSE notes[x]
      BY <1>0
    <3> HIDE DEF all
    <3>2. ASSUME NEW x \in Notes
          PROVE  Backed(all[x], said[x])
      <4>1. DOMAIN all[x] = NoteFields
        BY <1>0, <2>2, <2>3, <3>1
      <4>2. \A y \in Notes : /\ said[x][y].count >= cited[x][y].count
                             /\ cited[x][y].named => said[x][y].named
                             /\ y \in all[x].weak => y \in notes[x].weak
                             /\ y \in all[x].links => y \in notes[x].links \/ said[x][y].named
        <5> TAKE y \in Notes
        <5>1. cited[x][y].count \in 0..2
          BY <1>0 DEF Citation
        <5>2. /\ said[x][y].count >= cited[x][y].count
              /\ cited[x][y].named => said[x][y].named
          BY <5>1, <2>2, <2>3, <2>5, <3>1
        <5>3. /\ y \in all[x].weak => y \in notes[x].weak
              /\ y \in all[x].links => y \in notes[x].links \/ said[x][y].named
          BY <2>2, <2>3, <2>5, <3>1
        <5> QED
          BY <5>2, <5>3
      <4> QED
        BY <1>0, <2>5, <4>1, <4>2, BackedLike
    <3> QED
      BY <2>5, <3>1, <3>2 DEF AllBacked
  <2>7. (m = n) \in BOOLEAN
    OBVIOUS
  <2> HIDE DEF all
  <2> QED
    BY <2>1, <2>6, <2>7, CitesBacked
<1>4. ASSUME NEW verdict \in {"clear", "conflict", "duplicate"}, NEW target \in BOOLEAN, NEW named \in BOOLEAN,
             M!CheckConflict(verdict, target, m, named)
      PROVE  LinksInv'
  <2> DEFINE flag == verdict = "duplicate" /\ target
             it == M!Checked(notes[n], flag)
  <2>1. M!Cites(n, m, verdict # "clear", named, [notes EXCEPT ![n] = it], cited)
    BY <1>4 DEF M!CheckConflict, M!Checked
  <2>2. n \in Notes => /\ DOMAIN it = NoteFields
                       /\ it.weak = notes[n].weak /\ it.links = notes[n].links
    BY <1>0 DEF M!Checked, NoteFields
  <2> HIDE DEF it, n
  <2>3. AllBacked([notes EXCEPT ![n] = it], cited)
    BY <2>2, RewrittenBacked
  <2>4. (verdict # "clear") \in BOOLEAN
    OBVIOUS
  <2> QED
    BY <2>1, <2>3, <2>4, CitesBacked
<1> QED
  BY <1>1, <1>2, <1>3, <1>4

LEMMA LinksNext ==
    ASSUME LinksInv, M!Next \/ UNCHANGED upkeepVars
    PROVE  LinksInv'
<1> DEFINE n == run.task[1].note
<1>1. CASE UNCHANGED <<notes, cited>>
  BY <1>1 DEF LinksInv
<1>2. CASE M!Answered
  BY <1>2, AnswerBacked DEF M!Answered
<1>3. CASE M!Archive
  <2> DEFINE it == [M!Touched(notes[n]) EXCEPT !.state = "archived"]
  <2>1. notes' \in {notes, [notes EXCEPT ![n] = it]} /\ cited' = cited
    BY <1>3 DEF M!Archive, M!Touched
  <2>2. n \in Notes => /\ DOMAIN it = NoteFields
                       /\ it.weak = notes[n].weak /\ it.links = notes[n].links
    BY DEF M!Touched, NoteFields, LinksInv, AllBacked, Backed
  <2> HIDE DEF it, n
  <2>3. AllBacked([notes EXCEPT ![n] = it], cited)
    BY <2>2, RewrittenBacked
  <2> QED
    BY <2>1, <2>3 DEF LinksInv
<1>4. CASE M!Midnight
  <2>1. /\ DOMAIN notes' = Notes /\ cited' = cited
        /\ \A x \in Notes :
              notes'[x] = [notes[x] EXCEPT !.new = FALSE,
                                           !.age = IF @ < M!OLD THEN @ + 1 ELSE @]
    BY <1>4 DEF M!Midnight
  <2>2. \A x \in Notes : /\ DOMAIN notes'[x] = NoteFields
                         /\ notes'[x].weak = notes[x].weak /\ notes'[x].links = notes[x].links
    BY <2>1 DEF NoteFields, LinksInv, AllBacked, Backed
  <2> QED
    BY <2>1, <2>2 DEF LinksInv, AllBacked, Backed
<1> QED
  BY <1>1, <1>2, <1>3, <1>4
  DEF M!Next, M!Cycle, M!Bootstrap, M!StartInline, M!Load, M!Fails, M!EndCycle, M!Restart,
      M!Goals, M!Edit, upkeepVars

\* A canonical link rests on two citations or on a verdict about the linked note, however
\* notes are merged, superseded and cited by other answers
\* (sagwan_loop.py:_record_citation_candidates).
THEOREM LinksEarned == OperationsSpec => []PromotionEarned
<1>1. OperationsInit => LinksInv
  <2> SUFFICES ASSUME M!Init PROVE LinksInv
    BY DEF OperationsInit
  <2>1. PICK first \in SUBSET Notes, mentioned \in BOOLEAN :
          LET Weak(x) == IF mentioned THEN first \ {x} ELSE {} IN
          /\ notes = [x \in Notes |-> IF x \in first THEN [M!Created EXCEPT !.weak = Weak(x)]
                                                   ELSE M!Absent]
          /\ cited = [x \in Notes |-> [m \in Notes |->
                [M!NoCitations EXCEPT !.count = IF x \in first /\ m \in Weak(x) THEN 1 ELSE 0]]]
    BY DEF M!Init
  <2> DEFINE weak(x) == IF mentioned THEN first \ {x} ELSE {}
  <2>2. ASSUME NEW x \in Notes
        PROVE  Backed(notes[x], cited[x])
    <3>1. /\ DOMAIN notes[x] = NoteFields /\ notes[x].links = {}
          /\ notes[x].weak = IF x \in first THEN weak(x) ELSE {}
      <4> DEFINE w == weak(x)
      <4>1. notes[x] = IF x \in first THEN [M!Created EXCEPT !.weak = w] ELSE M!Absent
        BY <2>1
      <4> HIDE DEF w
      <4>2. notes[x].weak = IF x \in first THEN w ELSE {}
        BY <4>1 DEF M!Created, M!Absent
      <4> QED
        BY <4>1, <4>2 DEF M!Created, M!Absent, NoteFields, w
    <3>2. \A m \in Notes :
             cited[x][m] = [count |-> IF x \in first /\ m \in weak(x) THEN 1 ELSE 0,
                            named |-> FALSE]
      BY <2>1 DEF M!NoCitations
    <3>3. DOMAIN cited[x] = Notes /\ cited[x] = [m \in Notes |-> cited[x][m]]
      BY <2>1
    <3>4. \A m \in Notes : /\ cited[x][m] \in Citation
                           /\ cited[x][m].count = IF x \in first /\ m \in weak(x) THEN 1 ELSE 0
      <4> TAKE m \in Notes
      <4> DEFINE k == IF x \in first /\ m \in weak(x) THEN 1 ELSE 0
      <4>1. cited[x][m] = [count |-> k, named |-> FALSE] /\ k \in 0..2
        BY <3>2
      <4> HIDE DEF k
      <4>2. cited[x][m] \in Citation /\ cited[x][m].count = k
        BY <4>1 DEF Citation
      <4> QED
        BY <4>2 DEF k
    <3>5. cited[x] \in [Notes -> Citation]
      BY <3>3, <3>4
    <3> HIDE DEF weak
    <3> QED
      BY <3>1, <3>4, <3>5 DEF Backed
  <2> QED
    BY <2>1, <2>2 DEF LinksInv, AllBacked
<1>2. LinksInv /\ [OperationsNext]_operationsVars => LinksInv'
  BY LinksNext DEF OperationsNext, operationsVars
<1>3. LinksInv => PromotionEarned
  BY DEF LinksInv, AllBacked, Backed, PromotionEarned, M!PromotionEarned
<1> QED
  BY <1>1, <1>2, <1>3, PTL DEF OperationsSpec

-----------------------------------------------------------------------------
(* Sequences from which one element is moved to the end *)

NoRepeats(s) == \A i, j \in DOMAIN s : s[i] = s[j] => i = j
Members(s) == {s[i] : i \in DOMAIN s}
MovedToEnd(s, i) == Append(SubSeq(s, 1, i - 1) \o SubSeq(s, i + 1, Len(s)), s[i])

LEMMA MovedParts ==
    ASSUME NEW T, NEW s \in Seq(T), NEW i \in 1..Len(s)
    PROVE  /\ MovedToEnd(s, i) \in Seq(T)
           /\ Len(MovedToEnd(s, i)) = Len(s)
           /\ \A j \in 1..Len(s) :
                  MovedToEnd(s, i)[j] = IF j < i THEN s[j] ELSE IF j < Len(s) THEN s[j + 1] ELSE s[i]
<1> DEFINE n == Len(s)
           a == SubSeq(s, 1, i - 1)
           b == SubSeq(s, i + 1, n)
<1>1. n \in Nat /\ i \in 1..n /\ \A j \in 1..n : s[j] \in T
  BY LenProperties, ElementOfSeq
<1>2. /\ a \in Seq(T) /\ Len(a) = i - 1 /\ \A j \in 1..(i - 1) : a[j] = s[j]
  BY <1>1, SubSeqProperties
<1>3. /\ b \in Seq(T) /\ Len(b) = n - i /\ \A j \in 1..(n - i) : b[j] = s[i + j]
  BY <1>1, SubSeqProperties
<1> HIDE DEF a, b, n
<1>4. /\ a \o b \in Seq(T) /\ Len(a \o b) = n - 1
      /\ \A j \in 1..(i - 1) : (a \o b)[j] = s[j]
      /\ \A j \in i..(n - 1) : (a \o b)[j] = s[j + 1]
  <2>1. /\ a \o b \in Seq(T) /\ Len(a \o b) = Len(a) + Len(b)
        /\ \A j \in 1..(Len(a) + Len(b)) :
               (a \o b)[j] = IF j <= Len(a) THEN a[j] ELSE b[j - Len(a)]
    BY <1>2, <1>3, ConcatProperties
  <2>2. Len(a) + Len(b) = n - 1
    BY <1>1, <1>2, <1>3
  <2>3. \A j \in 1..(i - 1) : (a \o b)[j] = s[j]
    BY <1>1, <1>2, <2>1, <2>2
  <2>4. ASSUME NEW j \in i..(n - 1) PROVE (a \o b)[j] = s[j + 1]
    <3>1. /\ j \in 1..(Len(a) + Len(b)) /\ ~(j <= Len(a)) /\ j - Len(a) = j - i + 1
          /\ j - i + 1 \in 1..(n - i) /\ i + (j - i + 1) = j + 1
      BY <1>1, <1>2, <2>2
    <3>2. (a \o b)[j] = b[j - i + 1]
      BY <2>1, <3>1
    <3> QED
      BY <1>3, <3>1, <3>2
  <2> QED
    BY <2>1, <2>2, <2>3, <2>4
<1> DEFINE c == a \o b
<1> HIDE DEF c
<1>5. /\ Append(c, s[i]) \in Seq(T) /\ Len(Append(c, s[i])) = n
      /\ \A j \in 1..(n - 1) : Append(c, s[i])[j] = c[j]
      /\ Append(c, s[i])[n] = s[i]
  BY <1>1, <1>4, AppendProperties DEF c
<1>6. MovedToEnd(s, i) = Append(c, s[i])
  BY DEF MovedToEnd, a, b, c, n
<1>7. ASSUME NEW j \in 1..n
      PROVE  Append(c, s[i])[j] = IF j < i THEN s[j] ELSE IF j < n THEN s[j + 1] ELSE s[i]
  <2>1. CASE j < i
    <3>1. j \in 1..(n - 1) /\ j \in 1..(i - 1)
      BY <1>1, <2>1
    <3> QED
      BY <1>4, <1>5, <2>1, <3>1 DEF c
  <2>2. CASE ~(j < i) /\ j < n
    <3>1. j \in 1..(n - 1) /\ j \in i..(n - 1)
      BY <1>1, <2>2
    <3>2. c[j] = s[j + 1]
      BY <1>4, <3>1 DEF c
    <3> QED
      BY <1>1, <1>5, <2>2, <3>1, <3>2
  <2>3. CASE j = n /\ ~(j < i)
    BY <1>1, <1>5, <2>3
  <2>4. j < i \/ (~(j < i) /\ j < n) \/ (j = n /\ ~(j < i))
    <3>1. n \in Nat /\ i \in 1..n /\ j \in 1..n
      BY <1>1
    <3> QED
      BY <3>1
  <2> QED
    BY <2>1, <2>2, <2>3, <2>4
<1> QED
  BY <1>5, <1>6, <1>7 DEF n

\* What is moved stays once, and so do all the others.
LEMMA MovedToEndKeeps ==
    ASSUME NEW T, NEW s \in Seq(T), NEW i \in 1..Len(s)
    PROVE  /\ MovedToEnd(s, i) \in Seq(T)
           /\ Len(MovedToEnd(s, i)) = Len(s)
           /\ Members(MovedToEnd(s, i)) = Members(s)
           /\ NoRepeats(s) => NoRepeats(MovedToEnd(s, i))
<1> DEFINE n == Len(s)
           m == MovedToEnd(s, i)
           from(j) == IF j < i THEN j ELSE IF j < n THEN j + 1 ELSE i
<1>1. /\ n \in Nat /\ DOMAIN s = 1..n /\ i \in 1..n
      /\ m \in Seq(T) /\ Len(m) = n
      /\ \A j \in 1..n : m[j] = IF j < i THEN s[j] ELSE IF j < n THEN s[j + 1] ELSE s[i]
  BY MovedParts, LenProperties
<1>2. DOMAIN m = 1..n
  BY <1>1, LenProperties
<1> HIDE DEF m, n
<1>3. \A j \in 1..n : from(j) \in 1..n /\ m[j] = s[from(j)]
  BY <1>1
<1>4. \A j, k \in 1..n : from(j) = from(k) => j = k
  BY <1>1
<1>5. \A j \in 1..n : \E k \in 1..n : from(k) = j
  <2> TAKE j \in 1..n
  <2>1. CASE j < i
    BY <1>1, <2>1
  <2>2. CASE j = i
    BY <1>1, <2>2
  <2>3. CASE j > i
    <3>1. j - 1 \in 1..n /\ from(j - 1) = j
      BY <1>1, <2>3
    <3> HIDE DEF from
    <3> QED
      BY <3>1
  <2> QED
    BY <1>1, <2>1, <2>2, <2>3
<1> HIDE DEF from
<1>6. Members(m) = Members(s)
  <2>1. \A j \in DOMAIN m : m[j] \in Members(s)
    BY <1>1, <1>2, <1>3 DEF Members
  <2>2. ASSUME NEW j \in DOMAIN s PROVE s[j] \in Members(m)
    <3>1. PICK k \in 1..n : from(k) = j
      BY <1>1, <1>5
    <3>2. m[k] = s[j] /\ k \in DOMAIN m
      BY <1>2, <1>3, <3>1
    <3> QED
      BY <3>2 DEF Members
  <2> QED
    BY <2>1, <2>2 DEF Members
<1>7. NoRepeats(s) => NoRepeats(m)
  BY <1>1, <1>2, <1>3, <1>4 DEF NoRepeats
<1> QED
  BY <1>1, <1>6, <1>7 DEF m, n

-----------------------------------------------------------------------------
(* Curation: the budget is kept, and notes are left alone *)

CycleState == [stage : {"none", "before", "revalidate", "after"},
               step : {"idle", "free", "waiting"}, calls : Nat,
               targets : Seq(C!Paths), copy : C!Note]
CallHistory == [0..(HOUR - 1) -> Nat]
VerdictHistory == [0..(VALID - 1) -> Nat]

CurationTyped ==
    /\ cycles \in [C!Runs -> CycleState]
    /\ recorded \in CallHistory
    /\ published \in [C!Paths -> C!Note]
    /\ validated \in [C!Paths -> C!Paths] /\ NoRepeats(validated)
    /\ verdicts \in [C!Paths -> VerdictHistory]
    /\ slept \in 0..PAUSE
    /\ spent \in [manual : 0..MaxManual, trouble : 0..MaxCurationTrouble]

\* A cycle has each target once, and one target at least while it asks for a verdict.
TargetsFit(cycle) ==
    /\ NoRepeats(cycle.targets)
    /\ cycle.stage = "revalidate" /\ cycle.step = "waiting" => cycle.targets # << >>

\* The stamp of a note is at least as young as the last verdict on it.
StampsYoung ==
    \A n \in C!Paths, a \in 0..(VALID - 1) : verdicts[n][a] > 0 => published[n].age <= a

\* Calls that are not recorded yet, and cycles that may still give a verdict on a note.
Asking == {r \in C!Runs : cycles[r].step = "waiting"}
Holding(n) == {r \in C!Runs : n \in Members(cycles[r].targets)}

CallsCounted ==
    C!Sum(recorded) + Cardinality(Asking) <= CALLS + Cardinality(C!Runs) - 1
VerdictsCounted ==
    \A n \in C!Paths : C!Sum(verdicts[n]) + Cardinality(Holding(n)) <= Cardinality(C!Runs)

CurationInv ==
    /\ CurationTyped
    /\ \A r \in C!Runs : TargetsFit(cycles[r])
    /\ StampsYoung /\ CallsCounted /\ VerdictsCounted

LEMMA CurationConstants ==
    /\ {NOTES, CALLS, HOUR, VALID, PER_CYCLE} \subseteq Nat \ {0}
    /\ {PAUSE, BEFORE, AFTER, MaxManual, MaxCurationTrouble} \subseteq Nat
    /\ HOUR - 1 \in Nat /\ VALID - 1 \in Nat
  BY OperationsBounds DEF C!BoundsAssumption

LEMMA CyclesFinite ==
    /\ IsFiniteSet(C!Runs) /\ Cardinality(C!Runs) \in Nat
    /\ C!Cardinality(C!Runs) = Cardinality(C!Runs)
    /\ Cardinality(C!Runs) >= 1
<1>1. /\ IsFiniteSet({}) /\ IsFiniteSet({} \cup {"interval"})
      /\ IsFiniteSet(({} \cup {"interval"}) \cup {"manual"})
  BY FS_EmptySet, FS_AddElement
<1>2. C!Runs = ({} \cup {"interval"}) \cup {"manual"}
  BY DEF C!Runs
<1>3. IsFiniteSet(C!Runs) /\ Cardinality(C!Runs) \in Nat
  BY <1>1, <1>2, FS_CardinalityType
<1>4. Cardinality(C!Runs) # 0
  BY <1>2, <1>3, FS_EmptySet
<1> QED
  BY <1>3, <1>4 DEF C!Cardinality, Cardinality

LEMMA SumAlike == ASSUME NEW f PROVE C!Sum(f) = SumOver(f)
  BY Zenon DEF C!Sum, C!FoldFunction, C!FoldFunctionOnSet, C!MapThenFoldSet,
               SumOver, FoldFunction, FoldFunctionOnSet, MapThenFoldSet

\* A history over a window: one more, a tick later, and empty.
LEMMA HistorySums ==
    ASSUME NEW w \in Nat \ {0}, NEW f \in [0..(w - 1) -> Nat]
    PROVE  /\ C!Sum(f) \in Nat
           /\ [f EXCEPT ![0] = @ + 1] \in [0..(w - 1) -> Nat]
           /\ C!Sum([f EXCEPT ![0] = @ + 1]) = C!Sum(f) + 1
           /\ C!Shifted(f, w) \in [0..(w - 1) -> Nat]
           /\ C!Sum(C!Shifted(f, w)) <= C!Sum(f) /\ C!Sum(C!Shifted(f, w)) \in Nat
           /\ C!Sum([a \in 0..(w - 1) |-> 0]) = 0
<1> DEFINE D == 0..(w - 1)
<1>1. IsFiniteSet(D) /\ 0 \in D /\ w - 1 \in Nat /\ w - 1 \in D
  <2>1. w - 1 \in Nat
    OBVIOUS
  <2>2. IsFiniteSet(D)
    BY <2>1, FS_Interval
  <2> QED
    BY <2>1, <2>2
<1>2. f[0] \in Nat /\ f[0] + 1 \in Nat /\ f[w - 1] \in Nat
  BY <1>1
<1>3. SumOver(f) \in Nat
  BY <1>1, SumType
<1>4. [f EXCEPT ![0] = @ + 1] \in [D -> Nat] /\ SumOver([f EXCEPT ![0] = @ + 1]) = SumOver(f) + 1
  <2>1. SumOver([f EXCEPT ![0] = f[0] + 1]) = SumOver(f) - f[0] + (f[0] + 1)
    <3>1. f \in [D -> Nat]
      OBVIOUS
    <3> DEFINE v == f[0] + 1
    <3>2. v \in Nat
      BY <1>2
    <3> HIDE DEF D, v
    <3>3. SumOver([f EXCEPT ![0] = v]) = SumOver(f) - f[0] + v
      BY <1>1, <3>1, <3>2, SumChanged
    <3> QED
      BY <3>3 DEF v
  <2> QED
    BY <1>2, <1>3, <2>1
<1>5. C!Shifted(f, w) \in [D -> Nat] /\ SumOver(C!Shifted(f, w)) = SumOver(f) - f[w - 1]
  <2>1. C!Shifted(f, w) \in [D -> Nat]
    BY DEF C!Shifted
  <2>2. SumOver(C!Shifted(f, w)) = SumOver(f) - f[w - 1]
    BY <1>1, SumShifted DEF C!Shifted
  <2> QED
    BY <2>1, <2>2
<1>6. SumOver(C!Shifted(f, w)) \in Nat
  <2> HIDE DEF D
  <2> QED
    BY <1>1, <1>5, SumType
<1>7. SumOver([a \in D |-> 0]) = 0
  <2> HIDE DEF D
  <2> QED
    BY <1>1, SumZero
<1> QED
  BY <1>2, <1>3, <1>4, <1>5, <1>6, <1>7, SumAlike

\* No note on which a verdict was given in the window is due.
LEMMA DueUntouched ==
    ASSUME CurationInv, NEW n \in C!Paths, C!Due(n)
    PROVE  C!Sum(verdicts[n]) = 0
<1>1. verdicts[n] \in VerdictHistory /\ published[n].age = VALID
  BY DEF CurationInv, CurationTyped, C!Due
<1>2. ASSUME NEW a \in 0..(VALID - 1) PROVE verdicts[n][a] = 0
  <2>1. verdicts[n][a] \in Nat /\ (verdicts[n][a] > 0 => VALID <= a)
    BY <1>1 DEF CurationInv, StampsYoung, VerdictHistory
  <2> QED
    BY <2>1, CurationConstants
<1>3. verdicts[n] = [a \in 0..(VALID - 1) |-> 0]
  BY <1>1, <1>2 DEF VerdictHistory
<1>4. VALID \in Nat \ {0} /\ verdicts[n] \in [0..(VALID - 1) -> Nat]
  BY <1>1, CurationConstants DEF VerdictHistory
<1> QED
  BY <1>3, <1>4, HistorySums

\* The choice of targets, for the first notes in the order and so for all of them.
IsChoosing(g, s) ==
    g = [t \in SUBSET DOMAIN s |->
            IF t = {} THEN << >>
            ELSE IF C!Due(s[C!Max(t)]) /\ Len(g[t \ {C!Max(t)}]) < PER_CYCLE
                 THEN Append(g[t \ {C!Max(t)}], s[C!Max(t)])
                 ELSE g[t \ {C!Max(t)}]]
Choosing(s) == CHOOSE g : IsChoosing(g, s)

LEMMA ChoosingIsFold == C!Targets = Choosing(validated)[DOMAIN validated]
  BY Zenon DEF C!Targets, C!FoldLeft, C!MapThenFoldSet, Choosing, IsChoosing

LEMMA ChoosingSteps ==
    ASSUME NEW s \in [C!Paths -> C!Paths]
    PROVE  /\ Choosing(s)[1..0] = << >>
           /\ \A k \in C!Paths :
                  Choosing(s)[1..k] = IF C!Due(s[k]) /\ Len(Choosing(s)[1..(k - 1)]) < PER_CYCLE
                                      THEN Append(Choosing(s)[1..(k - 1)], s[k])
                                      ELSE Choosing(s)[1..(k - 1)]
<1> DEFINE D == 1..NOTES
           X == Seq(C!Paths)
           step == [i \in D |-> [x \in X |-> IF C!Due(s[i]) /\ Len(x) < PER_CYCLE
                                             THEN Append(x, s[i]) ELSE x]]
           h == Choosing(s)
<1>1. /\ NOTES \in Nat /\ C!Paths = D /\ DOMAIN s = D /\ \A i \in D : s[i] \in C!Paths
  BY CurationConstants DEF C!Paths
<1>2. step \in [D -> [X -> X]] /\ << >> \in X
  <2>1. \A i \in D, x \in X : Append(x, s[i]) \in X
    BY <1>1, AppendProperties
  <2>2. << >> \in X
    OBVIOUS
  <2> HIDE DEF D, X
  <2> QED
    BY <2>1, <2>2
<1>3. \A i \in D, x \in X : step[i][x] = IF C!Due(s[i]) /\ Len(x) < PER_CYCLE
                                         THEN Append(x, s[i]) ELSE x
  OBVIOUS
<1> HIDE DEF X, step
<1>4. PICK g : LeftFold(g, NOTES, X, << >>, step)
  BY <1>1, <1>2, LeftFoldExists
<1>5. \A t \in SUBSET D : t # {} => Greatest(t) \in t
  BY <1>1, GreatestOfInterval
<1>6. \A t : C!Max(t) = Greatest(t)
  BY DEF C!Max, Greatest
<1> HIDE DEF D
<1>7. ASSUME NEW t \in SUBSET D
      PROVE  g[t] = IF t = {} THEN << >>
                    ELSE IF C!Due(s[C!Max(t)]) /\ Len(g[t \ {C!Max(t)}]) < PER_CYCLE
                         THEN Append(g[t \ {C!Max(t)}], s[C!Max(t)])
                         ELSE g[t \ {C!Max(t)}]
  <2>1. t # {} => g[t \ {Greatest(t)}] \in X /\ Greatest(t) \in D
    BY <1>4, <1>5 DEF LeftFold, D
  <2>2. g[t] = IF t = {} THEN << >> ELSE step[Greatest(t)][g[t \ {Greatest(t)}]]
    BY <1>4 DEF LeftFold, D
  <2> QED
    BY <1>3, <1>6, <2>1, <2>2
<1>8. IsChoosing(g, s)
  <2>1. g \in [SUBSET D -> X]
    BY <1>4 DEF LeftFold, D
  <2> QED
    BY <1>1, <1>7, <2>1 DEF IsChoosing
<1>9. IsChoosing(h, s)
  BY <1>8 DEF Choosing
<1> HIDE DEF h
<1>10. \A t \in SUBSET D :
           h[t] = IF t = {} THEN << >>
                  ELSE IF C!Due(s[C!Max(t)]) /\ Len(h[t \ {C!Max(t)}]) < PER_CYCLE
                       THEN Append(h[t \ {C!Max(t)}], s[C!Max(t)])
                       ELSE h[t \ {C!Max(t)}]
  BY <1>1, <1>9 DEF IsChoosing
<1>11. h[1..0] = << >>
  <2>1. 1..0 = {}
    OBVIOUS
  <2> QED
    BY <1>10, <2>1
<1>12. ASSUME NEW k \in D
       PROVE  h[1..k] = IF C!Due(s[k]) /\ Len(h[1..(k - 1)]) < PER_CYCLE
                        THEN Append(h[1..(k - 1)], s[k]) ELSE h[1..(k - 1)]
  <2>1. 1..k \in SUBSET D /\ k \in 1..k
    BY <1>1 DEF D
  <2>2. C!Max(1..k) = k /\ (1..k) \ {k} = 1..(k - 1)
    BY <1>1, <1>6, GreatestOfInterval DEF D
  <2> QED
    BY <1>10, <2>1, <2>2
<1> QED
  BY <1>1, <1>11, <1>12 DEF h

\* Targets are due notes, each once.
LEMMA TargetsChosen ==
    ASSUME CurationTyped
    PROVE  /\ C!Targets \in Seq(C!Paths) /\ NoRepeats(C!Targets)
           /\ \A n \in Members(C!Targets) : n \in C!Paths /\ C!Due(n)
<1> DEFINE h == Choosing(validated)
           Fit(t, k) == /\ t \in Seq(C!Paths) /\ NoRepeats(t)
                        /\ \A i \in 1..Len(t) : /\ C!Due(t[i])
                                                /\ \E j \in 1..k : t[i] = validated[j]
           K == {k \in Nat : k <= NOTES => Fit(h[1..k], k)}
<1>1. /\ NOTES \in Nat /\ C!Paths = 1..NOTES /\ DOMAIN validated = 1..NOTES
      /\ \A i \in 1..NOTES : validated[i] \in C!Paths
      /\ \A i, j \in 1..NOTES : validated[i] = validated[j] => i = j
  BY CurationConstants DEF CurationTyped, NoRepeats, C!Paths
<1>2. /\ h[1..0] = << >>
      /\ \A k \in 1..NOTES : h[1..k] = IF C!Due(validated[k]) /\ Len(h[1..(k - 1)]) < PER_CYCLE
                                       THEN Append(h[1..(k - 1)], validated[k])
                                       ELSE h[1..(k - 1)]
  BY <1>1, ChoosingSteps DEF CurationTyped
<1> HIDE DEF h
<1>3. 0 \in K
  <2>1. << >> \in Seq(C!Paths) /\ NoRepeats(<< >>) /\ 1..Len(<< >>) = {}
    BY DEF NoRepeats
  <2> QED
    BY <1>2, <2>1
<1>4. ASSUME NEW k \in K PROVE k + 1 \in K
  <2> SUFFICES ASSUME k + 1 <= NOTES PROVE Fit(h[1..(k + 1)], k + 1)
    OBVIOUS
  <2>0. k \in Nat /\ (k <= NOTES => Fit(h[1..k], k))
    OBVIOUS
  <2>1. k \in Nat /\ k + 1 \in 1..NOTES /\ (k + 1) - 1 = k /\ Fit(h[1..k], k)
    <3> HIDE DEF Fit
    <3>1. k <= NOTES /\ k + 1 \in 1..NOTES /\ (k + 1) - 1 = k
      BY <1>1, <2>0
    <3> QED
      BY <2>0, <3>1
  <2> DEFINE x == validated[k + 1]
             t == h[1..k]
  <2>2. x \in C!Paths /\ h[1..(k + 1)] \in {t} \cup (IF C!Due(x) THEN {Append(t, x)} ELSE {})
    BY <1>1, <1>2, <2>1
  <2>3. Fit(t, k + 1)
    <3>1. 1..k \subseteq 1..(k + 1)
      BY <2>1
    <3> QED
      BY <2>1, <3>1
  <2>4. C!Due(x) => Fit(Append(t, x), k + 1)
    <3> SUFFICES ASSUME C!Due(x) PROVE Fit(Append(t, x), k + 1)
      OBVIOUS
    <3> DEFINE n == Len(t)
               u == Append(t, x)
    <3>0. /\ t \in Seq(C!Paths) /\ NoRepeats(t)
          /\ \A i \in 1..n : C!Due(t[i]) /\ \E j \in 1..k : t[i] = validated[j]
      BY <2>1
    <3>1. /\ u \in Seq(C!Paths) /\ n \in Nat /\ Len(u) = n + 1 /\ u[n + 1] = x
          /\ \A i \in 1..n : u[i] = t[i]
          /\ DOMAIN u = 1..(n + 1) /\ DOMAIN t = 1..n
      BY <2>2, <3>0, AppendProperties, LenProperties
    <3> HIDE DEF u, n, t
    <3>2. \A i \in 1..n : t[i] # x
      BY <1>1, <2>1, <3>0
    <3>3. NoRepeats(u)
      BY <3>0, <3>1, <3>2 DEF NoRepeats
    <3>4. ASSUME NEW i \in 1..(n + 1)
          PROVE  C!Due(u[i]) /\ \E j \in 1..(k + 1) : u[i] = validated[j]
      <4>1. CASE i = n + 1
        <5>1. u[i] = validated[k + 1] /\ k + 1 \in 1..(k + 1) /\ C!Due(u[i])
          BY <2>1, <3>1, <4>1
        <5> QED
          BY <5>1
      <4>2. CASE i # n + 1
        <5>1. i \in 1..n /\ 1..k \subseteq 1..(k + 1)
          BY <2>1, <3>1, <4>2
        <5> QED
          BY <3>0, <3>1, <5>1
      <4> QED
        BY <4>1, <4>2
    <3> QED
      BY <3>1, <3>3, <3>4 DEF u, n, t
  <2> HIDE DEF Fit
  <2> QED
    BY <2>2, <2>3, <2>4
<1>5. Fit(h[1..NOTES], NOTES)
  <2>1. K \in SUBSET Nat
    OBVIOUS
  <2>2. \A k \in Nat : k \in K
    <3> HIDE DEF K
    <3> QED
      BY <1>3, <1>4, <2>1, Induction
  <2>3. NOTES <= NOTES => Fit(h[1..NOTES], NOTES)
    BY <1>1, <2>2
  <2> HIDE DEF Fit
  <2> QED
    BY <1>1, <2>3
<1>6. C!Targets = h[1..NOTES]
  BY <1>1, ChoosingIsFold DEF h
<1> HIDE DEF h
<1>7. ASSUME NEW n \in Members(C!Targets) PROVE n \in C!Paths /\ C!Due(n)
  <2>1. PICK i \in DOMAIN C!Targets : n = C!Targets[i]
    BY DEF Members
  <2>2. i \in 1..Len(C!Targets) /\ C!Targets \in Seq(C!Paths)
    BY <1>5, <1>6, LenProperties
  <2> QED
    BY <1>5, <1>6, <2>1, <2>2, ElementOfSeq
<1> QED
  BY <1>5, <1>6, <1>7

LEMMA RestingFits ==
    /\ C!Resting \in CycleState /\ C!Resting.step = "idle" /\ C!Resting.targets = << >>
    /\ TargetsFit(C!Resting) /\ Members(<< >>) = {} /\ NoRepeats(<< >>)
    /\ \A stage \in {"before", "revalidate", "after"} :
          LET it == [C!Resting EXCEPT !.stage = stage, !.step = "free"]
          IN  /\ it \in CycleState /\ it.step = "free" /\ it.targets = << >>
              /\ TargetsFit(it)
<1>1. Members(<< >>) = {} /\ NoRepeats(<< >>)
  BY DEF Members, NoRepeats
<1>2. [published |-> TRUE, age |-> VALID, stale |-> FALSE, judged |-> TRUE] \in C!Note
  BY CurationConstants DEF C!Note
<1>3. C!Resting \in CycleState /\ C!Resting.step = "idle" /\ C!Resting.targets = << >>
  BY <1>2 DEF C!Resting, CycleState
<1> QED
  BY <1>1, <1>3 DEF CycleState, TargetsFit

\* The counts of the cycles that ask, and of those that have a target, when one moves.
LEMMA CycleMoves ==
    ASSUME CurationInv, NEW r \in C!Runs, NEW new \in CycleState, TargetsFit(new),
           cycles' = [cycles EXCEPT ![r] = new]
    PROVE  /\ cycles' \in [C!Runs -> CycleState]
           /\ \A q \in C!Runs : TargetsFit(cycles'[q])
           /\ Cardinality(Asking) \in Nat /\ Cardinality(Asking') \in Nat
           /\ Cardinality(Asking') <= Cardinality(C!Runs)
           /\ new.step # "waiting" => Cardinality(Asking') <= Cardinality(Asking)
           /\ new.step # "waiting" /\ cycles[r].step = "waiting"
                 => Cardinality(Asking') + 1 <= Cardinality(Asking)
           /\ \A n \in C!Paths :
                 /\ Cardinality(Holding(n)) \in Nat /\ Cardinality(Holding(n)') \in Nat
                 /\ Cardinality(Holding(n)') <= Cardinality(C!Runs)
                 /\ (n \in Members(new.targets) => n \in Members(cycles[r].targets))
                       => Cardinality(Holding(n)') <= Cardinality(Holding(n))
                 /\ n \notin Members(new.targets) /\ n \in Members(cycles[r].targets)
                       => Cardinality(Holding(n)') + 1 <= Cardinality(Holding(n))
<1>1. /\ cycles \in [C!Runs -> CycleState] /\ \A q \in C!Runs : TargetsFit(cycles[q])
      /\ cycles' \in [C!Runs -> CycleState]
      /\ \A q \in C!Runs : cycles'[q] = IF q = r THEN new ELSE cycles[q]
  BY DEF CurationInv, CurationTyped
<1>2. \A q \in C!Runs : TargetsFit(cycles'[q])
  BY <1>1
<1>3. Asking \subseteq C!Runs /\ Asking' \subseteq C!Runs
  BY DEF Asking
<1>4. IsFiniteSet(Asking) /\ Cardinality(Asking) \in Nat /\ Cardinality(Asking') \in Nat
      /\ Cardinality(Asking') <= Cardinality(C!Runs)
  BY <1>3, CyclesFinite, Fewer
<1>5. new.step # "waiting" => Asking' \subseteq Asking \ {r}
  BY <1>1 DEF Asking
<1>6. new.step # "waiting" => Cardinality(Asking') <= Cardinality(Asking)
  <2>1. new.step # "waiting" => Asking' \subseteq Asking
    BY <1>5
  <2> QED
    BY <1>4, <2>1, Fewer
<1>7. new.step # "waiting" /\ cycles[r].step = "waiting"
          => Cardinality(Asking') + 1 <= Cardinality(Asking)
  <2>1. cycles[r].step = "waiting" => r \in Asking
    BY DEF Asking
  <2> QED
    BY <1>4, <1>5, <2>1, OneFewer
<1>8. ASSUME NEW n \in C!Paths
      PROVE  /\ Cardinality(Holding(n)) \in Nat /\ Cardinality(Holding(n)') \in Nat
             /\ Cardinality(Holding(n)') <= Cardinality(C!Runs)
             /\ (n \in Members(new.targets) => n \in Members(cycles[r].targets))
                   => Cardinality(Holding(n)') <= Cardinality(Holding(n))
             /\ n \notin Members(new.targets) /\ n \in Members(cycles[r].targets)
                   => Cardinality(Holding(n)') + 1 <= Cardinality(Holding(n))
  <2>1. Holding(n) \subseteq C!Runs /\ Holding(n)' \subseteq C!Runs
    BY DEF Holding
  <2>2. /\ IsFiniteSet(Holding(n)) /\ Cardinality(Holding(n)) \in Nat
        /\ Cardinality(Holding(n)') \in Nat /\ Cardinality(Holding(n)') <= Cardinality(C!Runs)
    BY <2>1, CyclesFinite, Fewer
  <2>3. Holding(n)' = {q \in C!Runs : n \in Members(IF q = r THEN new.targets ELSE cycles[q].targets)}
    BY <1>1 DEF Holding
  <2>4. (n \in Members(new.targets) => n \in Members(cycles[r].targets))
            => Holding(n)' \subseteq Holding(n)
    BY <2>3 DEF Holding
  <2>5. n \notin Members(new.targets) => Holding(n)' \subseteq Holding(n) \ {r}
    BY <2>3 DEF Holding
  <2>6. n \in Members(cycles[r].targets) => r \in Holding(n)
    BY DEF Holding
  <2>7. (n \in Members(new.targets) => n \in Members(cycles[r].targets))
            => Cardinality(Holding(n)') <= Cardinality(Holding(n))
    BY <2>2, <2>4, Fewer
  <2>8. n \notin Members(new.targets) /\ n \in Members(cycles[r].targets)
            => Cardinality(Holding(n)') + 1 <= Cardinality(Holding(n))
    BY <2>2, <2>5, <2>6, OneFewer
  <2> QED
    BY <2>2, <2>7, <2>8
<1> QED
  BY <1>1, <1>2, <1>4, <1>6, <1>7, <1>8

\* The sums are numbers.
LEMMA CurationSums ==
    ASSUME CurationTyped
    PROVE  /\ C!Sum(recorded) \in Nat
           /\ \A n \in C!Paths : C!Sum(verdicts[n]) \in Nat
<1>1. HOUR \in Nat \ {0} /\ VALID \in Nat \ {0}
  BY CurationConstants
<1>2. recorded \in [0..(HOUR - 1) -> Nat] /\ \A n \in C!Paths : verdicts[n] \in [0..(VALID - 1) -> Nat]
  BY DEF CurationTyped, CallHistory, VerdictHistory
<1> QED
  BY <1>1, <1>2, HistorySums

SpentBounds == [manual : 0..MaxManual, trouble : 0..MaxCurationTrouble]

\* A cycle goes on without asking; if it waited, its call may be recorded.
LEMMA QuietMove ==
    ASSUME CurationInv, NEW r \in C!Runs, NEW new \in CycleState, TargetsFit(new),
           cycles' = [cycles EXCEPT ![r] = new], new.step # "waiting",
           Members(new.targets) \subseteq Members(cycles[r].targets),
           recorded' = recorded \/ (cycles[r].step = "waiting" /\ C!Record),
           UNCHANGED <<published, validated, verdicts>>,
           slept' \in 0..PAUSE, spent' \in SpentBounds
    PROVE  CurationInv'
<1>1. CurationTyped /\ StampsYoung /\ CallsCounted /\ VerdictsCounted
  BY DEF CurationInv
<1>2. /\ cycles' \in [C!Runs -> CycleState]
      /\ \A q \in C!Runs : TargetsFit(cycles'[q])
      /\ Cardinality(Asking) \in Nat /\ Cardinality(Asking') \in Nat
      /\ Cardinality(Asking') <= Cardinality(Asking)
      /\ cycles[r].step = "waiting" => Cardinality(Asking') + 1 <= Cardinality(Asking)
  BY CycleMoves
<1>3. /\ C!Sum(recorded) \in Nat /\ recorded' \in CallHistory
      /\ C!Sum(recorded') \in {C!Sum(recorded)}
            \cup (IF cycles[r].step = "waiting" THEN {C!Sum(recorded) + 1} ELSE {})
  <2>1. HOUR \in Nat \ {0} /\ recorded \in [0..(HOUR - 1) -> Nat]
    BY <1>1, CurationConstants DEF CurationTyped, CallHistory
  <2>2. /\ C!Sum(recorded) \in Nat
        /\ [recorded EXCEPT ![0] = @ + 1] \in [0..(HOUR - 1) -> Nat]
        /\ C!Sum([recorded EXCEPT ![0] = @ + 1]) = C!Sum(recorded) + 1
    BY <2>1, HistorySums
  <2>3. CASE recorded' = recorded
    BY <2>1, <2>2, <2>3 DEF CallHistory
  <2>4. CASE cycles[r].step = "waiting" /\ C!Record
    BY <2>2, <2>4 DEF CallHistory, C!Record
  <2> QED
    BY <2>3, <2>4
<1>4. CallsCounted'
  <2>1. C!Sum(recorded') = C!Sum(recorded)
        \/ (cycles[r].step = "waiting" /\ C!Sum(recorded') = C!Sum(recorded) + 1)
    BY <1>3
  <2>2. CALLS \in Nat /\ Cardinality(C!Runs) \in Nat
    BY CurationConstants, CyclesFinite
  <2>3. C!Sum(recorded') + Cardinality(Asking') <= CALLS + Cardinality(C!Runs) - 1
    BY <1>1, <1>2, <1>3, <2>1, <2>2 DEF CallsCounted
  <2> QED
    BY <2>3 DEF CallsCounted
<1>5. VerdictsCounted'
  <2> SUFFICES ASSUME NEW n \in C!Paths
               PROVE  C!Sum(verdicts[n]) + Cardinality(Holding(n)') <= Cardinality(C!Runs)
    BY DEF VerdictsCounted
  <2>1. /\ Cardinality(Holding(n)) \in Nat /\ Cardinality(Holding(n)') \in Nat
        /\ Cardinality(Holding(n)') <= Cardinality(Holding(n))
    BY CycleMoves
  <2>2. C!Sum(verdicts[n]) \in Nat /\ C!Sum(verdicts[n]) + Cardinality(Holding(n)) <= Cardinality(C!Runs)
    BY <1>1, CurationSums DEF VerdictsCounted
  <2> QED
    BY <2>1, <2>2, CyclesFinite
<1>6. StampsYoung' /\ CurationTyped'
  BY <1>1, <1>2, <1>3 DEF StampsYoung, CurationTyped, SpentBounds
<1> QED
  BY <1>2, <1>4, <1>5, <1>6 DEF CurationInv

\* A cycle asks, with the targets it has.
LEMMA AskingMove ==
    ASSUME CurationInv, NEW r \in C!Runs, NEW new \in CycleState, TargetsFit(new),
           cycles' = [cycles EXCEPT ![r] = new], new.targets = cycles[r].targets, C!MayCall,
           UNCHANGED <<recorded, published, validated, verdicts, slept, spent>>
    PROVE  CurationInv'
<1>1. CurationTyped /\ StampsYoung /\ VerdictsCounted
  BY DEF CurationInv
<1>2. /\ cycles' \in [C!Runs -> CycleState]
      /\ \A q \in C!Runs : TargetsFit(cycles'[q])
      /\ Cardinality(Asking') \in Nat /\ Cardinality(Asking') <= Cardinality(C!Runs)
  BY CycleMoves
<1>3. CallsCounted'
  <2>1. C!Sum(recorded) \in Nat /\ C!Sum(recorded) < CALLS /\ CALLS \in Nat
    BY <1>1, CurationSums, CurationConstants DEF C!MayCall
  <2>2. C!Sum(recorded) + Cardinality(Asking') <= CALLS + Cardinality(C!Runs) - 1
    BY <1>2, <2>1, CyclesFinite
  <2> QED
    BY <2>2 DEF CallsCounted
<1>4. VerdictsCounted'
  <2> SUFFICES ASSUME NEW n \in C!Paths
               PROVE  C!Sum(verdicts[n]) + Cardinality(Holding(n)') <= Cardinality(C!Runs)
    BY DEF VerdictsCounted
  <2>1. /\ Cardinality(Holding(n)) \in Nat /\ Cardinality(Holding(n)') \in Nat
        /\ Cardinality(Holding(n)') <= Cardinality(Holding(n))
    BY CycleMoves
  <2>2. C!Sum(verdicts[n]) \in Nat /\ C!Sum(verdicts[n]) + Cardinality(Holding(n)) <= Cardinality(C!Runs)
    BY <1>1, CurationSums DEF VerdictsCounted
  <2> QED
    BY <2>1, <2>2, CyclesFinite
<1>5. StampsYoung' /\ CurationTyped'
  BY <1>1, <1>2 DEF StampsYoung, CurationTyped
<1> QED
  BY <1>2, <1>3, <1>4, <1>5 DEF CurationInv

\* A cycle that is not moved by the step.
LEMMA CycleFacts ==
    ASSUME CurationInv, NEW r \in C!Runs
    PROVE  /\ cycles \in [C!Runs -> CycleState] /\ cycles[r] \in CycleState
           /\ TargetsFit(cycles[r]) /\ cycles[r].targets \in Seq(C!Paths)
           /\ slept \in 0..PAUSE /\ spent \in SpentBounds
           /\ PAUSE \in Nat /\ MaxManual \in Nat /\ MaxCurationTrouble \in Nat
  BY CurationConstants DEF CurationInv, CurationTyped, CycleState, SpentBounds

\* A cycle in a stage of its own, with no targets.
LEMMA StageMove ==
    ASSUME CurationInv, NEW r \in C!Runs, NEW stage \in {"before", "revalidate", "after"},
           C!GoTo(r, stage),
           recorded' = recorded \/ (cycles[r].step = "waiting" /\ C!Record),
           UNCHANGED <<published, validated, verdicts>>,
           slept' \in 0..PAUSE, spent' \in SpentBounds
    PROVE  CurationInv'
<1> DEFINE new == [C!Resting EXCEPT !.stage = stage, !.step = "free"]
<1>1. /\ new \in CycleState /\ new.step = "free" /\ new.targets = << >> /\ TargetsFit(new)
      /\ Members(<< >>) = {}
  BY RestingFits
<1>2. cycles' = [cycles EXCEPT ![r] = new]
  BY DEF C!GoTo
<1> HIDE DEF new
<1> QED
  BY <1>1, <1>2, QuietMove

LEMMA StartKeeps ==
    ASSUME CurationInv, NEW r \in C!Runs, C!Start(r)
    PROVE  CurationInv'
<1>1. /\ slept \in 0..PAUSE /\ spent \in SpentBounds /\ MaxManual \in Nat
  BY CycleFacts
<1>2. spent' \in SpentBounds
  BY <1>1 DEF C!Start, SpentBounds
<1> QED
  BY <1>1, <1>2, StageMove DEF C!Start

LEMMA AskKeeps ==
    ASSUME CurationInv, NEW r \in C!Runs, C!Ask(r)
    PROVE  CurationInv'
<1> DEFINE calls == cycles[r].calls + 1
           new == [cycles[r] EXCEPT !.step = "waiting", !.calls = calls]
<1>1. cycles \in [C!Runs -> CycleState] /\ cycles[r] \in CycleState /\ TargetsFit(cycles[r])
  BY CycleFacts
<1>2. cycles' = [cycles EXCEPT ![r] = new]
  BY <1>1 DEF C!Ask
<1>3. /\ new \in CycleState /\ new.targets = cycles[r].targets /\ new.stage = cycles[r].stage
  <2>1. calls \in Nat
    BY <1>1 DEF CycleState
  <2> HIDE DEF calls
  <2> QED
    BY <1>1, <2>1 DEF CycleState
<1>4. cycles[r].stage # "revalidate"
  BY DEF C!Ask
<1> HIDE DEF new
<1>5. TargetsFit(new)
  BY <1>1, <1>3, <1>4 DEF TargetsFit
<1> QED
  BY <1>2, <1>3, <1>5, AskingMove DEF C!Ask

LEMMA AnsweredKeeps ==
    ASSUME CurationInv, NEW r \in C!Runs, C!Answered(r)
    PROVE  CurationInv'
<1> DEFINE new == [cycles[r] EXCEPT !.step = "free"]
<1>1. /\ cycles \in [C!Runs -> CycleState] /\ cycles[r] \in CycleState /\ TargetsFit(cycles[r])
      /\ slept \in 0..PAUSE /\ spent \in SpentBounds
  BY CycleFacts
<1>2. cycles' = [cycles EXCEPT ![r] = new]
  BY <1>1 DEF C!Answered
<1>3. new \in CycleState /\ new.targets = cycles[r].targets /\ new.step = "free"
  BY <1>1 DEF CycleState
<1> HIDE DEF new
<1>4. TargetsFit(new)
  BY <1>1, <1>3 DEF TargetsFit
<1> QED
  BY <1>1, <1>2, <1>3, <1>4, QuietMove DEF C!Answered

LEMMA EndAfterKeeps ==
    ASSUME CurationInv, NEW r \in C!Runs, C!EndAfter(r)
    PROVE  CurationInv'
<1>1. slept \in 0..PAUSE /\ spent \in SpentBounds /\ PAUSE \in Nat
  BY CycleFacts
<1>2. /\ C!Resting \in CycleState /\ C!Resting.step # "waiting" /\ TargetsFit(C!Resting)
      /\ Members(C!Resting.targets) = {}
  BY RestingFits
<1>3. slept' \in 0..PAUSE
  BY <1>1 DEF C!EndAfter
<1> QED
  BY <1>1, <1>2, <1>3, QuietMove DEF C!EndAfter

\* The cycle that has chosen its targets may give a verdict on each; on none of them was
\* one given in the window.
LEMMA EndBeforeKeeps ==
    ASSUME CurationInv, NEW r \in C!Runs, C!EndBefore(r)
    PROVE  CurationInv'
<1> DEFINE new == [C!Resting EXCEPT !.stage = "revalidate", !.step = "free",
                                    !.targets = C!Targets]
<1>1. CurationTyped /\ StampsYoung /\ CallsCounted /\ VerdictsCounted
  BY DEF CurationInv
<1>2. /\ C!Targets \in Seq(C!Paths) /\ NoRepeats(C!Targets)
      /\ \A n \in Members(C!Targets) : n \in C!Paths /\ C!Due(n)
  BY <1>1, TargetsChosen
<1>3. new \in CycleState /\ new.targets = C!Targets /\ new.step = "free"
  <2>1. C!Resting \in CycleState
    BY RestingFits
  <2> QED
    BY <1>2, <2>1 DEF CycleState
<1>4. cycles' = [cycles EXCEPT ![r] = new]
  BY DEF C!EndBefore
<1> HIDE DEF new
<1>5. TargetsFit(new)
  BY <1>2, <1>3 DEF TargetsFit
<1>6. /\ cycles' \in [C!Runs -> CycleState]
      /\ \A q \in C!Runs : TargetsFit(cycles'[q])
      /\ Cardinality(Asking) \in Nat /\ Cardinality(Asking') \in Nat
      /\ Cardinality(Asking') <= Cardinality(Asking)
  BY <1>3, <1>4, <1>5, CycleMoves
<1>7. UNCHANGED <<recorded, published, validated, verdicts, slept, spent>>
  BY DEF C!EndBefore
<1>8. CallsCounted'
  <2>1. C!Sum(recorded) \in Nat /\ CALLS \in Nat /\ Cardinality(C!Runs) \in Nat
    BY <1>1, CurationSums, CurationConstants, CyclesFinite
  <2>2. C!Sum(recorded) + Cardinality(Asking') <= CALLS + Cardinality(C!Runs) - 1
    BY <1>1, <1>6, <2>1 DEF CallsCounted
  <2> QED
    BY <1>7, <2>2 DEF CallsCounted
<1>9. VerdictsCounted'
  <2> SUFFICES ASSUME NEW n \in C!Paths
               PROVE  C!Sum(verdicts[n]) + Cardinality(Holding(n)') <= Cardinality(C!Runs)
    BY <1>7 DEF VerdictsCounted
  <2>1. /\ Cardinality(Holding(n)) \in Nat /\ Cardinality(Holding(n)') \in Nat
        /\ Cardinality(Holding(n)') <= Cardinality(C!Runs)
        /\ n \notin Members(new.targets) => Cardinality(Holding(n)') <= Cardinality(Holding(n))
    BY <1>3, <1>4, <1>5, CycleMoves
  <2>2. C!Sum(verdicts[n]) \in Nat /\ C!Sum(verdicts[n]) + Cardinality(Holding(n)) <= Cardinality(C!Runs)
    BY <1>1, CurationSums DEF VerdictsCounted
  <2>3. CASE n \in Members(C!Targets)
    <3>1. C!Sum(verdicts[n]) = 0
      BY <1>2, <2>3, DueUntouched
    <3> QED
      BY <2>1, <3>1, CyclesFinite
  <2>4. CASE n \notin Members(C!Targets)
    BY <1>3, <2>1, <2>2, <2>4, CyclesFinite
  <2> QED
    BY <2>3, <2>4
<1>10. StampsYoung' /\ CurationTyped'
  BY <1>1, <1>6, <1>7 DEF StampsYoung, CurationTyped
<1> QED
  BY <1>6, <1>8, <1>9, <1>10 DEF CurationInv

LEMMA RevalidateKeeps ==
    ASSUME CurationInv, NEW r \in C!Runs, C!Revalidate(r)
    PROVE  CurationInv'
<1>1. /\ cycles \in [C!Runs -> CycleState] /\ cycles[r] \in CycleState /\ TargetsFit(cycles[r])
      /\ slept \in 0..PAUSE /\ spent \in SpentBounds /\ cycles[r].targets \in Seq(C!Paths)
  BY CycleFacts
<1>2. UNCHANGED <<recorded, published, validated, verdicts, slept, spent>>
  BY DEF C!Revalidate
<1>3. CASE C!GoTo(r, "after")
  BY <1>1, <1>2, <1>3, StageMove
<1> DEFINE copy == published[Head(cycles[r].targets)]
           new == [cycles[r] EXCEPT !.step = "waiting", !.copy = copy]
<1>4. CASE cycles[r].targets # << >> /\ C!MayCall /\ cycles' = [cycles EXCEPT ![r].step = "waiting", ![r].copy = copy]
  <2>1. Head(cycles[r].targets) \in C!Paths
    BY <1>1, <1>4, HeadTailProperties
  <2>2. copy \in C!Note
    BY <2>1 DEF CurationInv, CurationTyped
  <2> HIDE DEF copy
  <2>3. cycles' = [cycles EXCEPT ![r] = new]
    BY <1>1, <1>4
  <2>4. new \in CycleState /\ new.targets = cycles[r].targets
    BY <1>1, <2>2 DEF CycleState
  <2> HIDE DEF new
  <2>5. TargetsFit(new)
    BY <1>1, <1>4, <2>4 DEF TargetsFit
  <2> QED
    BY <1>2, <1>4, <2>3, <2>4, <2>5, AskingMove
<1> QED
  BY <1>3, <1>4 DEF C!Revalidate

\* The first target is not among the others.
LEMMA HeadOnce ==
    ASSUME NEW T, NEW s \in Seq(T), s # << >>, NoRepeats(s)
    PROVE  /\ Head(s) \in T /\ Head(s) \in Members(s)
           /\ Tail(s) \in Seq(T) /\ NoRepeats(Tail(s))
           /\ Members(Tail(s)) \subseteq Members(s) \ {Head(s)}
<1> DEFINE n == Len(s)
           t == Tail(s)
<1>1. /\ n \in Nat \ {0} /\ DOMAIN s = 1..n /\ Head(s) = s[1] /\ s[1] \in T
      /\ t \in Seq(T) /\ Len(t) = n - 1 /\ \A i \in 1..(n - 1) : t[i] = s[i + 1]
  <2>1. n \in Nat /\ n # 0 /\ DOMAIN s = 1..n
    BY LenProperties, EmptySeq
  <2>2. Head(s) = s[1] /\ t \in Seq(T) /\ Len(t) = n - 1 /\ \A i \in 1..Len(t) : t[i] = s[i + 1]
    BY HeadTailProperties
  <2>3. s[1] \in T
    BY <2>1, ElementOfSeq
  <2> QED
    BY <2>1, <2>2, <2>3
<1>2. DOMAIN t = 1..(n - 1)
  BY <1>1, LenProperties
<1>3. /\ 1 \in DOMAIN s
      /\ \A i \in DOMAIN t : i + 1 \in DOMAIN s /\ t[i] = s[i + 1] /\ i + 1 # 1 /\ i \in Nat
  BY <1>1, <1>2
<1> HIDE DEF n, t
<1>4. Head(s) \in T /\ Head(s) \in Members(s)
  BY <1>1, <1>3 DEF Members
<1>5. NoRepeats(t)
  <2> SUFFICES ASSUME NEW i \in DOMAIN t, NEW j \in DOMAIN t, t[i] = t[j] PROVE i = j
    BY DEF NoRepeats
  <2>1. i + 1 = j + 1
    BY <1>3 DEF NoRepeats
  <2> QED
    BY <1>3, <2>1
<1>6. Members(t) \subseteq Members(s) \ {Head(s)}
  <2> SUFFICES ASSUME NEW i \in DOMAIN t PROVE t[i] \in Members(s) /\ t[i] # Head(s)
    BY DEF Members
  <2>1. t[i] \in Members(s)
    BY <1>3 DEF Members
  <2>2. s[i + 1] # s[1]
    BY <1>3 DEF NoRepeats
  <2> QED
    BY <1>1, <1>3, <2>1, <2>2
<1> QED
  BY <1>1, <1>4, <1>5, <1>6 DEF t

\* A write that fails takes a target away, a verdict that is given does so too.
LEMMA NextTarget ==
    ASSUME CurationInv, NEW r \in C!Runs,
           cycles[r].step = "waiting", cycles[r].stage = "revalidate"
    PROVE  LET n == Head(cycles[r].targets)
               new == [cycles[r] EXCEPT !.step = "free", !.targets = Tail(@)]
           IN  /\ n \in C!Paths /\ n \in Members(cycles[r].targets)
               /\ new \in CycleState /\ new.step = "free" /\ TargetsFit(new)
               /\ Members(new.targets) \subseteq Members(cycles[r].targets) \ {n}
               /\ [cycles EXCEPT ![r].step = "free", ![r].targets = Tail(@)]
                     = [cycles EXCEPT ![r] = new]
<1> DEFINE targets == cycles[r].targets
           tail == Tail(targets)
           new == [cycles[r] EXCEPT !.step = "free", !.targets = tail]
<1>1. /\ cycles \in [C!Runs -> CycleState] /\ cycles[r] \in CycleState
      /\ TargetsFit(cycles[r]) /\ targets \in Seq(C!Paths)
  BY CycleFacts
<1>2. targets # << >> /\ NoRepeats(targets)
  BY <1>1 DEF TargetsFit
<1> HIDE DEF targets
<1>3. /\ Head(targets) \in C!Paths /\ Head(targets) \in Members(targets)
      /\ tail \in Seq(C!Paths) /\ NoRepeats(tail)
      /\ Members(tail) \subseteq Members(targets) \ {Head(targets)}
  BY <1>1, <1>2, HeadOnce
<1> HIDE DEF tail
<1>4. new \in CycleState /\ new.step = "free" /\ new.targets = tail
  BY <1>1, <1>3 DEF CycleState
<1>5. TargetsFit(new)
  <2> HIDE DEF new
  <2> QED
    BY <1>3, <1>4 DEF TargetsFit
<1>6. [cycles EXCEPT ![r].step = "free", ![r].targets = tail] = [cycles EXCEPT ![r] = new]
  BY <1>1
<1> QED
  BY <1>3, <1>4, <1>5, <1>6 DEF targets, tail

LEMMA JudgeFailsKeeps ==
    ASSUME CurationInv, NEW r \in C!Runs, C!JudgeFails(r)
    PROVE  CurationInv'
<1>1. /\ slept \in 0..PAUSE /\ spent \in SpentBounds /\ MaxCurationTrouble \in Nat
  BY CycleFacts
<1>2. /\ cycles[r].step = "waiting" /\ cycles[r].stage = "revalidate" /\ C!Record
      /\ UNCHANGED <<published, validated, verdicts, slept>>
  BY DEF C!JudgeFails
<1>3. spent' \in SpentBounds /\ slept' \in 0..PAUSE
  BY <1>1, <1>2 DEF C!JudgeFails, C!TroubleLeft, C!Trouble, SpentBounds
<1>4. CASE C!GoTo(r, "after")
  BY <1>2, <1>3, <1>4, StageMove
<1> DEFINE new == [cycles[r] EXCEPT !.step = "free", !.targets = Tail(@)]
<1>5. CASE cycles' = [cycles EXCEPT ![r].step = "free", ![r].targets = Tail(@)]
  <2>1. /\ cycles' = [cycles EXCEPT ![r] = new]
        /\ new \in CycleState /\ new.step = "free" /\ TargetsFit(new)
        /\ Members(new.targets) \subseteq Members(cycles[r].targets)
    BY <1>2, <1>5, NextTarget
  <2> HIDE DEF new
  <2> QED
    BY <1>2, <1>3, <2>1, QuietMove
<1> QED
  BY <1>4, <1>5 DEF C!JudgeFails

\* Each note is somewhere in the order, so that one of them can be moved to its end.
LEMMA RestampedFits ==
    ASSUME CurationTyped, NEW n \in C!Paths
    PROVE  C!Restamped(n) \in [C!Paths -> C!Paths] /\ NoRepeats(C!Restamped(n))
<1> DEFINE P == C!Paths
           s == validated
<1>1. NOTES \in Nat /\ P = 1..NOTES /\ s \in [P -> P] /\ DOMAIN s = P /\ NoRepeats(s)
  BY CurationConstants DEF CurationTyped, C!Paths
<1>2. s \in Seq(P) /\ Len(s) = NOTES
  BY <1>1
<1>3. IsFiniteSet(P)
  BY <1>1, FS_Interval
<1>4. s \in Injection(P, P)
  BY <1>1 DEF Injection, IsInjective, NoRepeats
<1>5. s \in Surjection(P, P)
  BY <1>3, <1>4, FS_Injection
<1>6. \E i \in DOMAIN s : s[i] = n
  BY <1>1, <1>5 DEF Surjection
<1> DEFINE i == CHOOSE j \in DOMAIN s : s[j] = n
<1>7. i \in DOMAIN s /\ s[i] = n
  BY <1>6
<1>8. C!Restamped(n) = MovedToEnd(s, i)
  BY <1>7 DEF C!Restamped, C!RemoveAt, MovedToEnd
<1> HIDE DEF i, s, P
<1>9. /\ MovedToEnd(s, i) \in Seq(P) /\ Len(MovedToEnd(s, i)) = NOTES
      /\ NoRepeats(MovedToEnd(s, i))
  <2>1. i \in 1..Len(s)
    BY <1>1, <1>2, <1>7
  <2> QED
    BY <1>1, <1>2, <2>1, MovedToEndKeeps
<1>10. MovedToEnd(s, i) \in [1..NOTES -> P]
  BY <1>9, LenProperties
<1> QED
  BY <1>1, <1>8, <1>9, <1>10 DEF P

\* The verdict of an answer is written over the copy.
LEMMA JudgedFits ==
    ASSUME NEW copy \in C!Note, NEW answer
    PROVE  C!Judged(copy, answer) \in C!Note /\ C!Judged(copy, answer).age = 0
<1> DEFINE stale == (C!Verdict(answer) = "stale") \/ (copy.stale /\ C!Verdict(answer) = "refresh")
           judged == answer # "error"
<1>1. C!Judged(copy, answer) = [copy EXCEPT !.age = 0, !.stale = stale, !.judged = judged]
  BY DEF C!Judged
<1>2. stale \in BOOLEAN /\ judged \in BOOLEAN /\ 0 \in 0..VALID
  BY CurationConstants DEF C!Note
<1> HIDE DEF stale, judged
<1> QED
  BY <1>1, <1>2 DEF C!Note

\* One verdict more, and one cycle fewer that may give one.
LEMMA JudgeKeeps ==
    ASSUME CurationInv, NEW r \in C!Runs, NEW answer, C!Judge(r, answer)
    PROVE  CurationInv'
<1> DEFINE n == Head(cycles[r].targets)
           new == [cycles[r] EXCEPT !.step = "free", !.targets = Tail(@)]
           it == C!Judged(cycles[r].copy, answer)
           line == [verdicts[n] EXCEPT ![0] = @ + 1]
           calls == [recorded EXCEPT ![0] = @ + 1]
<1>1. CurationTyped /\ StampsYoung /\ CallsCounted /\ VerdictsCounted
  BY DEF CurationInv
<1>2. cycles[r].step = "waiting" /\ cycles[r].stage = "revalidate"
  BY DEF C!Judge
<1>3. /\ n \in C!Paths /\ n \in Members(cycles[r].targets)
      /\ new \in CycleState /\ new.step = "free" /\ TargetsFit(new)
      /\ Members(new.targets) \subseteq Members(cycles[r].targets) \ {n}
      /\ cycles' = [cycles EXCEPT ![r] = new]
  BY <1>2, NextTarget DEF C!Judge
<1>4. it \in C!Note /\ it.age = 0
  <2>1. cycles[r].copy \in C!Note
    BY CycleFacts DEF CycleState
  <2> QED
    BY <2>1, JudgedFits
<1>5. /\ recorded' = calls /\ published' = [published EXCEPT ![n] = it]
      /\ validated' = C!Restamped(n) /\ slept' = slept
      /\ spent' = spent \/ (C!TroubleLeft /\ C!Trouble)
  BY DEF C!Judge, C!Record
<1>6. verdicts' = [verdicts EXCEPT ![n] = line]
  <2>1. verdicts' = [verdicts EXCEPT ![n][0] = @ + 1]
    BY DEF C!Judge
  <2>2. verdicts \in [C!Paths -> VerdictHistory]
    BY <1>1 DEF CurationTyped
  <2> HIDE DEF n
  <2> QED
    BY <2>1, <2>2
<1>7. /\ calls \in CallHistory /\ C!Sum(recorded) \in Nat /\ C!Sum(calls) = C!Sum(recorded) + 1
  <2>1. HOUR \in Nat \ {0} /\ recorded \in [0..(HOUR - 1) -> Nat]
    BY <1>1, CurationConstants DEF CurationTyped, CallHistory
  <2> QED
    BY <2>1, HistorySums DEF CallHistory
<1>8. /\ line \in VerdictHistory /\ C!Sum(verdicts[n]) \in Nat
      /\ C!Sum(line) = C!Sum(verdicts[n]) + 1
      /\ \A a \in 0..(VALID - 1) : line[a] > 0 => a = 0 \/ verdicts[n][a] > 0
  <2> DEFINE known == verdicts[n]
  <2>1. VALID \in Nat \ {0} /\ known \in [0..(VALID - 1) -> Nat]
    BY <1>1, <1>3, CurationConstants DEF CurationTyped, VerdictHistory
  <2> HIDE DEF known, n
  <2>2. /\ [known EXCEPT ![0] = @ + 1] \in [0..(VALID - 1) -> Nat] /\ C!Sum(known) \in Nat
        /\ C!Sum([known EXCEPT ![0] = @ + 1]) = C!Sum(known) + 1
    BY <2>1, HistorySums
  <2>3. \A a \in 0..(VALID - 1) : a # 0 => [known EXCEPT ![0] = @ + 1][a] = known[a]
    BY <2>1
  <2> QED
    BY <2>2, <2>3 DEF VerdictHistory, known
<1>9. verdicts \in [C!Paths -> VerdictHistory] /\ published \in [C!Paths -> C!Note]
      /\ slept \in 0..PAUSE /\ spent \in SpentBounds
  BY <1>1, CycleFacts DEF CurationTyped
<1> HIDE DEF n, new, it, line, calls
<1>10. /\ cycles' \in [C!Runs -> CycleState]
       /\ \A q \in C!Runs : TargetsFit(cycles'[q])
       /\ Cardinality(Asking) \in Nat /\ Cardinality(Asking') \in Nat
       /\ Cardinality(Asking') + 1 <= Cardinality(Asking)
  BY <1>2, <1>3, CycleMoves
<1>11. CurationTyped'
  <2>1. validated' \in [C!Paths -> C!Paths] /\ NoRepeats(validated')
    BY <1>1, <1>3, <1>5, RestampedFits
  <2>2. spent' \in SpentBounds
    <3>1. MaxCurationTrouble \in Nat
      BY CurationConstants
    <3> QED
      BY <1>5, <1>9, <3>1 DEF C!TroubleLeft, C!Trouble, SpentBounds
  <2>3. published' \in [C!Paths -> C!Note] /\ verdicts' \in [C!Paths -> VerdictHistory]
    BY <1>3, <1>4, <1>5, <1>6, <1>8, <1>9
  <2> QED
    BY <1>5, <1>7, <1>9, <1>10, <2>1, <2>2, <2>3 DEF CurationTyped, SpentBounds
<1>12. StampsYoung'
  <2> SUFFICES ASSUME NEW m \in C!Paths, NEW a \in 0..(VALID - 1), verdicts'[m][a] > 0
               PROVE  published'[m].age <= a
    BY DEF StampsYoung
  <2>1. VALID \in Nat \ {0} /\ a \in Nat
    BY CurationConstants
  <2>2. CASE m = n
    <3>1. published'[m].age = 0
      BY <1>4, <1>5, <1>9, <2>2
    <3> QED
      BY <2>1, <3>1
  <2>3. CASE m # n
    <3>1. published'[m] = published[m] /\ verdicts'[m] = verdicts[m]
      BY <1>5, <1>6, <1>9, <2>3
    <3> QED
      BY <1>1, <3>1 DEF StampsYoung
  <2> QED
    BY <2>2, <2>3
<1>13. CallsCounted'
  <2>1. CALLS \in Nat /\ Cardinality(C!Runs) \in Nat
    BY CurationConstants, CyclesFinite
  <2>2. C!Sum(calls) + Cardinality(Asking') <= CALLS + Cardinality(C!Runs) - 1
    BY <1>1, <1>7, <1>10, <2>1 DEF CallsCounted
  <2> QED
    BY <1>5, <2>2 DEF CallsCounted
<1>14. VerdictsCounted'
  <2> SUFFICES ASSUME NEW m \in C!Paths
               PROVE  C!Sum(verdicts'[m]) + Cardinality(Holding(m)') <= Cardinality(C!Runs)
    BY DEF VerdictsCounted
  <2>1. /\ Cardinality(Holding(m)) \in Nat /\ Cardinality(Holding(m)') \in Nat
        /\ Cardinality(Holding(m)') <= Cardinality(Holding(m))
        /\ m = n => Cardinality(Holding(m)') + 1 <= Cardinality(Holding(m))
    BY <1>3, CycleMoves
  <2>2. C!Sum(verdicts[m]) \in Nat /\ C!Sum(verdicts[m]) + Cardinality(Holding(m)) <= Cardinality(C!Runs)
    BY <1>1, CurationSums DEF VerdictsCounted
  <2>3. verdicts'[m] = IF m = n THEN line ELSE verdicts[m]
    BY <1>6, <1>9
  <2>4. C!Sum(verdicts'[m]) = IF m = n THEN C!Sum(verdicts[m]) + 1 ELSE C!Sum(verdicts[m])
    BY <1>8, <2>3
  <2> QED
    BY <2>1, <2>2, <2>4, CyclesFinite
<1> QED
  BY <1>10, <1>11, <1>12, <1>13, <1>14 DEF CurationInv

LEMMA WithdrawKeeps ==
    ASSUME CurationInv, NEW n \in C!Paths, C!Withdraw(n)
    PROVE  CurationInv'
<1>1. CurationTyped /\ StampsYoung
  BY DEF CurationInv
<1>2. /\ published' = [published EXCEPT ![n].published = FALSE]
      /\ UNCHANGED <<cycles, recorded, validated, verdicts, slept>>
      /\ C!TroubleLeft /\ C!Trouble
  BY DEF C!Withdraw
<1>3. published \in [C!Paths -> C!Note]
  BY <1>1 DEF CurationTyped
<1>4. /\ published' \in [C!Paths -> C!Note]
      /\ \A m \in C!Paths : published'[m].age = published[m].age
  BY <1>2, <1>3 DEF C!Note
<1>5. spent' \in SpentBounds
  BY <1>1, <1>2, CurationConstants DEF CurationTyped, C!TroubleLeft, C!Trouble, SpentBounds
<1>6. CurationTyped' /\ StampsYoung'
  BY <1>1, <1>2, <1>4, <1>5 DEF CurationTyped, StampsYoung, SpentBounds
<1>7. CallsCounted' /\ VerdictsCounted' /\ \A r \in C!Runs : TargetsFit(cycles'[r])
  BY <1>2 DEF CurationInv, CallsCounted, VerdictsCounted, Asking, Holding
<1> QED
  BY <1>6, <1>7 DEF CurationInv

LEMMA TickKeeps ==
    ASSUME CurationInv, C!Tick
    PROVE  CurationInv'
<1>1. CurationTyped /\ StampsYoung /\ CallsCounted /\ VerdictsCounted
  BY DEF CurationInv
<1>2. /\ recorded' = C!Shifted(recorded, HOUR)
      /\ verdicts' = [n \in C!Paths |-> C!Shifted(verdicts[n], VALID)]
      /\ UNCHANGED <<cycles, validated, spent>>
  BY DEF C!Tick
<1>3. /\ recorded' \in CallHistory /\ C!Sum(recorded) \in Nat /\ C!Sum(recorded') \in Nat
      /\ C!Sum(recorded') <= C!Sum(recorded)
  <2>1. HOUR \in Nat \ {0} /\ recorded \in [0..(HOUR - 1) -> Nat]
    BY <1>1, CurationConstants DEF CurationTyped, CallHistory
  <2> QED
    BY <1>2, <2>1, HistorySums DEF CallHistory
<1>4. \A n \in C!Paths :
         /\ verdicts'[n] = C!Shifted(verdicts[n], VALID)
         /\ verdicts'[n] \in VerdictHistory
         /\ C!Sum(verdicts[n]) \in Nat /\ C!Sum(verdicts'[n]) \in Nat
         /\ C!Sum(verdicts'[n]) <= C!Sum(verdicts[n])
  <2> TAKE n \in C!Paths
  <2>1. VALID \in Nat \ {0} /\ verdicts[n] \in [0..(VALID - 1) -> Nat]
    BY <1>1, CurationConstants DEF CurationTyped, VerdictHistory
  <2> QED
    BY <1>2, <2>1, HistorySums DEF VerdictHistory
<1>5. /\ published \in [C!Paths -> C!Note]
      /\ published' \in [C!Paths -> C!Note]
      /\ \A n \in C!Paths : published[n].age \in Nat /\ published'[n].age \in Nat
                            /\ published'[n].age <= published[n].age + 1
  <2>1. published \in [C!Paths -> C!Note] /\ VALID \in Nat
    BY <1>1, CurationConstants DEF CurationTyped
  <2> DEFINE older(n) == IF published[n].age < VALID THEN published[n].age + 1 ELSE published[n].age
  <2>2. published' = [n \in C!Paths |-> [published[n] EXCEPT !.age = older(n)]]
    BY DEF C!Tick
  <2>3. \A n \in C!Paths : /\ published[n] \in C!Note /\ published[n].age \in Nat
                           /\ older(n) \in 0..VALID /\ older(n) <= published[n].age + 1
    BY <2>1 DEF C!Note
  <2> HIDE DEF older
  <2>4. \A n \in C!Paths : published'[n] \in C!Note /\ published'[n].age = older(n)
    BY <2>2, <2>3 DEF C!Note
  <2>5. published' \in [C!Paths -> C!Note]
    BY <2>2, <2>4
  <2> QED
    BY <2>1, <2>3, <2>4, <2>5
<1>6. slept' \in 0..PAUSE
  BY <1>1, CurationConstants DEF CurationTyped, C!Tick
<1>7. CurationTyped'
  <2>1. verdicts' \in [C!Paths -> VerdictHistory]
    BY <1>2, <1>4
  <2> QED
    BY <1>1, <1>2, <1>3, <1>5, <1>6, <2>1 DEF CurationTyped
<1>8. StampsYoung'
  <2> SUFFICES ASSUME NEW n \in C!Paths, NEW a \in 0..(VALID - 1), verdicts'[n][a] > 0
               PROVE  published'[n].age <= a
    BY DEF StampsYoung
  <2>1. VALID \in Nat \ {0} /\ verdicts'[n][a] = IF a = 0 THEN 0 ELSE verdicts[n][a - 1]
    BY <1>4, CurationConstants DEF C!Shifted
  <2>2. a # 0 /\ a - 1 \in 0..(VALID - 1) /\ verdicts[n][a - 1] > 0
    BY <2>1
  <2>3. published[n].age <= a - 1
    BY <1>1, <2>2 DEF StampsYoung
  <2> QED
    BY <1>5, <2>1, <2>2, <2>3
<1>9. CallsCounted'
  <2>1. /\ Asking' = Asking /\ Cardinality(Asking) \in Nat
        /\ CALLS \in Nat /\ Cardinality(C!Runs) \in Nat
    <3>1. Asking \subseteq C!Runs
      BY DEF Asking
    <3> QED
      BY <1>2, <3>1, CyclesFinite, Fewer, CurationConstants DEF Asking
  <2>2. C!Sum(recorded') + Cardinality(Asking) <= CALLS + Cardinality(C!Runs) - 1
    BY <1>1, <1>3, <2>1 DEF CallsCounted
  <2> QED
    BY <2>1, <2>2 DEF CallsCounted
<1>10. VerdictsCounted'
  <2> SUFFICES ASSUME NEW n \in C!Paths
               PROVE  C!Sum(verdicts'[n]) + Cardinality(Holding(n)') <= Cardinality(C!Runs)
    BY DEF VerdictsCounted
  <2>1. Holding(n)' = Holding(n) /\ Cardinality(Holding(n)) \in Nat /\ Cardinality(C!Runs) \in Nat
    <3>1. Holding(n) \subseteq C!Runs
      BY DEF Holding
    <3> QED
      BY <1>2, <3>1, CyclesFinite, Fewer DEF Holding
  <2>2. C!Sum(verdicts[n]) + Cardinality(Holding(n)) <= Cardinality(C!Runs)
    BY <1>1 DEF VerdictsCounted
  <2> QED
    BY <1>4, <2>1, <2>2
<1>11. \A r \in C!Runs : TargetsFit(cycles'[r])
  BY <1>2 DEF CurationInv
<1> QED
  BY <1>7, <1>8, <1>9, <1>10, <1>11 DEF CurationInv

\* No cycle runs and no call is recorded at first, nor after a restart.
LEMMA NothingUnderWay ==
    ASSUME NEW some, NEW calls,
           some = [r \in C!Runs |-> C!Resting], calls = [a \in 0..(HOUR - 1) |-> 0]
    PROVE  /\ some \in [C!Runs -> CycleState] /\ calls \in CallHistory
           /\ \A r \in C!Runs : TargetsFit(some[r])
           /\ C!Sum(calls) + Cardinality({r \in C!Runs : some[r].step = "waiting"})
                 <= CALLS + Cardinality(C!Runs) - 1
           /\ \A n \in C!Paths :
                 Cardinality({r \in C!Runs : n \in Members(some[r].targets)}) = 0
<1>1. /\ C!Resting \in CycleState /\ C!Resting.step = "idle" /\ C!Resting.targets = << >>
      /\ TargetsFit(C!Resting) /\ Members(<< >>) = {}
  BY RestingFits
<1>2. \A r \in C!Runs : some[r] = C!Resting
  OBVIOUS
<1>3. HOUR \in Nat \ {0} /\ HOUR - 1 \in Nat
  BY CurationConstants
<1>4. calls \in [0..(HOUR - 1) -> Nat]
  OBVIOUS
<1>5. C!Sum(calls) = 0
  BY <1>3, <1>4, HistorySums
<1>6. /\ {r \in C!Runs : some[r].step = "waiting"} = {}
      /\ \A n \in C!Paths : {r \in C!Runs : n \in Members(some[r].targets)} = {}
  BY <1>1, <1>2
<1>7. Cardinality({}) = 0
  BY FS_EmptySet
<1>8. C!Sum(calls) + Cardinality({r \in C!Runs : some[r].step = "waiting"})
          <= CALLS + Cardinality(C!Runs) - 1
  <2>1. CALLS \in Nat /\ Cardinality(C!Runs) \in Nat /\ Cardinality(C!Runs) >= 1
    BY CurationConstants, CyclesFinite
  <2>2. 0 <= CALLS + Cardinality(C!Runs) - 1
    BY <2>1
  <2>3. Cardinality({r \in C!Runs : some[r].step = "waiting"}) = 0
    BY <1>6, <1>7
  <2> DEFINE sum == C!Sum(calls)
             waiting == Cardinality({r \in C!Runs : some[r].step = "waiting"})
  <2>4. sum = 0 /\ waiting = 0
    BY <1>5, <2>3
  <2> HIDE DEF sum, waiting
  <2>5. sum + waiting <= CALLS + Cardinality(C!Runs) - 1
    BY <2>2, <2>4
  <2> QED
    BY <2>5 DEF sum, waiting
<1> QED
  BY <1>1, <1>2, <1>4, <1>6, <1>7, <1>8 DEF CallHistory

LEMMA CurationRestartKeeps ==
    ASSUME CurationInv, C!Restart
    PROVE  CurationInv'
<1>1. CurationTyped /\ StampsYoung /\ VerdictsCounted
  BY DEF CurationInv
<1>2. /\ cycles' = [r \in C!Runs |-> C!Resting] /\ recorded' = [a \in 0..(HOUR - 1) |-> 0]
      /\ slept' = PAUSE /\ UNCHANGED <<published, validated, verdicts>>
      /\ C!TroubleLeft /\ C!Trouble
  BY DEF C!Restart
<1>3. /\ cycles' \in [C!Runs -> CycleState] /\ recorded' \in CallHistory
      /\ \A r \in C!Runs : TargetsFit(cycles'[r])
      /\ CallsCounted'
      /\ \A n \in C!Paths : Cardinality(Holding(n)') = 0
  BY <1>2, NothingUnderWay DEF CallsCounted, Asking, Holding
<1>4. spent' \in SpentBounds /\ PAUSE \in Nat
  <2>1. spent \in SpentBounds /\ MaxCurationTrouble \in Nat /\ PAUSE \in Nat
    BY <1>1, CurationConstants DEF CurationTyped, SpentBounds
  <2> QED
    BY <1>2, <2>1 DEF C!TroubleLeft, C!Trouble, SpentBounds
<1>5. CurationTyped' /\ StampsYoung'
  BY <1>1, <1>2, <1>3, <1>4 DEF CurationTyped, StampsYoung, SpentBounds
<1>6. VerdictsCounted'
  <2> SUFFICES ASSUME NEW n \in C!Paths
               PROVE  C!Sum(verdicts[n]) + Cardinality(Holding(n)') <= Cardinality(C!Runs)
    BY <1>2 DEF VerdictsCounted
  <2>1. Holding(n) \subseteq C!Runs
    BY DEF Holding
  <2>2. Cardinality(Holding(n)) \in Nat /\ Cardinality(C!Runs) \in Nat
    BY <2>1, CyclesFinite, Fewer
  <2>3. C!Sum(verdicts[n]) \in Nat /\ C!Sum(verdicts[n]) + Cardinality(Holding(n)) <= Cardinality(C!Runs)
    BY <1>1, CurationSums DEF VerdictsCounted
  <2> QED
    BY <1>3, <2>2, <2>3
<1> QED
  BY <1>3, <1>5, <1>6 DEF CurationInv

LEMMA CurationStart == C!Init => CurationInv
<1> SUFFICES ASSUME C!Init PROVE CurationInv
  OBVIOUS
<1> DEFINE fresh == [published |-> TRUE, age |-> VALID, stale |-> FALSE, judged |-> TRUE]
           zero == [a \in 0..(VALID - 1) |-> 0]
<1>1. /\ cycles = [r \in C!Runs |-> C!Resting] /\ recorded = [a \in 0..(HOUR - 1) |-> 0]
      /\ published = [n \in C!Paths |-> fresh] /\ validated = [n \in C!Paths |-> n]
      /\ verdicts = [n \in C!Paths |-> zero] /\ slept = PAUSE
      /\ spent = [manual |-> 0, trouble |-> 0]
  BY DEF C!Init
<1>2. /\ cycles \in [C!Runs -> CycleState] /\ recorded \in CallHistory
      /\ \A r \in C!Runs : TargetsFit(cycles[r])
      /\ CallsCounted
      /\ \A n \in C!Paths : Cardinality(Holding(n)) = 0
  BY <1>1, NothingUnderWay DEF CallsCounted, Asking, Holding
<1>3. fresh \in C!Note
  BY CurationConstants DEF C!Note
<1>4. VALID \in Nat \ {0} /\ zero \in [0..(VALID - 1) -> Nat]
  BY CurationConstants
<1>5. C!Sum(zero) = 0
  BY <1>4, HistorySums
<1>6. zero \in VerdictHistory /\ \A a \in 0..(VALID - 1) : zero[a] = 0
  BY <1>4 DEF VerdictHistory
<1> HIDE DEF fresh, zero
<1>7. CurationTyped
  <2>1. slept \in 0..PAUSE /\ spent \in SpentBounds
    BY <1>1, CurationConstants DEF SpentBounds
  <2>2. validated \in [C!Paths -> C!Paths] /\ NoRepeats(validated)
    BY <1>1 DEF NoRepeats
  <2>3. published \in [C!Paths -> C!Note] /\ verdicts \in [C!Paths -> VerdictHistory]
    BY <1>1, <1>3, <1>6
  <2> QED
    BY <1>2, <2>1, <2>2, <2>3 DEF CurationTyped, SpentBounds
<1>8. StampsYoung
  BY <1>1, <1>6 DEF StampsYoung
<1>9. VerdictsCounted
  <2> SUFFICES ASSUME NEW n \in C!Paths
               PROVE  C!Sum(verdicts[n]) + Cardinality(Holding(n)) <= Cardinality(C!Runs)
    BY DEF VerdictsCounted
  <2>1. C!Sum(verdicts[n]) = 0
    BY <1>1, <1>5
  <2> QED
    BY <1>2, <2>1, CyclesFinite
<1> QED
  BY <1>2, <1>7, <1>8, <1>9 DEF CurationInv

LEMMA CurationKept == CurationInv /\ [C!Next]_curationVars => CurationInv'
<1> SUFFICES ASSUME CurationInv, [C!Next]_curationVars PROVE CurationInv'
  OBVIOUS
<1>1. CASE UNCHANGED curationVars
  <2>1. UNCHANGED <<cycles, recorded, published, validated, verdicts, slept, spent>>
    BY <1>1 DEF curationVars
  <2> QED
    BY <2>1 DEF CurationInv, CurationTyped, StampsYoung, CallsCounted, VerdictsCounted,
                Asking, Holding
<1>2. ASSUME NEW r \in C!Runs, C!Step(r) PROVE CurationInv'
  <2>1. CASE C!Start(r)
    BY <2>1, StartKeeps
  <2>2. CASE C!Ask(r)
    BY <2>2, AskKeeps
  <2>3. CASE C!Answered(r)
    BY <2>3, AnsweredKeeps
  <2>4. CASE C!EndBefore(r)
    BY <2>4, EndBeforeKeeps
  <2>5. CASE C!EndAfter(r)
    BY <2>5, EndAfterKeeps
  <2>6. CASE C!Revalidate(r)
    BY <2>6, RevalidateKeeps
  <2>7. CASE C!JudgeFails(r)
    BY <2>7, JudgeFailsKeeps
  <2>8. CASE \E answer \in C!Answers \cup {"error"} : C!Judge(r, answer)
    BY <2>8, JudgeKeeps
  <2> QED
    BY <1>2, <2>1, <2>2, <2>3, <2>4, <2>5, <2>6, <2>7, <2>8 DEF C!Step
<1>3. CASE \E n \in C!Paths : C!Withdraw(n)
  BY <1>3, WithdrawKeeps
<1>4. CASE C!Tick
  BY <1>4, TickKeeps
<1>5. CASE C!Restart
  BY <1>5, CurationRestartKeeps
<1> QED
  BY <1>1, <1>2, <1>3, <1>4, <1>5 DEF C!Next

\* What the invariant says is what curation promises.
LEMMA CurationPromises == CurationInv => C!TypeOK /\ C!BudgetKept /\ C!RevalidatedSparingly
<1> SUFFICES ASSUME CurationInv PROVE C!TypeOK /\ C!BudgetKept /\ C!RevalidatedSparingly
  OBVIOUS
<1>1. CurationTyped /\ CallsCounted /\ VerdictsCounted
  BY DEF CurationInv
<1>2. C!TypeOK
  <2>1. C!IsInjective(validated)
    BY <1>1 DEF CurationTyped, NoRepeats, C!IsInjective
  <2>2. \A r \in C!Runs : cycles[r] \in CycleState
    BY <1>1 DEF CurationTyped
  <2> QED
    BY <1>1, <2>1, <2>2 DEF C!TypeOK, CurationTyped, CycleState, CallHistory, VerdictHistory
<1>3. C!BudgetKept
  <2>1. Asking \subseteq C!Runs
    BY DEF Asking
  <2>2. Cardinality(Asking) \in Nat /\ Cardinality(C!Runs) \in Nat /\ CALLS \in Nat
        /\ C!Sum(recorded) \in Nat
    BY <1>1, <2>1, CyclesFinite, Fewer, CurationConstants, CurationSums
  <2>3. C!Sum(recorded) <= CALLS + Cardinality(C!Runs) - 1
    BY <1>1, <2>2 DEF CallsCounted
  <2> QED
    BY <2>3, CyclesFinite DEF C!BudgetKept
<1>4. C!RevalidatedSparingly
  <2> SUFFICES ASSUME NEW n \in C!Paths PROVE C!Sum(verdicts[n]) <= Cardinality(C!Runs)
    BY CyclesFinite DEF C!RevalidatedSparingly
  <2>1. Holding(n) \subseteq C!Runs
    BY DEF Holding
  <2>2. Cardinality(Holding(n)) \in Nat /\ Cardinality(C!Runs) \in Nat
        /\ C!Sum(verdicts[n]) \in Nat
    BY <1>1, <2>1, CyclesFinite, Fewer, CurationSums
  <2> QED
    BY <1>1, <2>2 DEF VerdictsCounted
<1> QED
  BY <1>2, <1>3, <1>4

-----------------------------------------------------------------------------
(* Upkeep: notes, order, tasks and agenda are of their types *)

\* Notes that there are in one state of them all, and tasks for these.
Present(all) == {n \in Notes : all[n].state # "absent"}
KnownTask(all) == {t \in M!Task : t.note \in Present(all)}
RunState == [pc : {"idle", "draining", "asking"}, left : Nat, task : Seq(M!Task)]

Listed(list, all) == list \in Seq(Notes) /\ NoRepeats(list) /\ Members(list) = Present(all)

\* Every task is for a note that there is, so that the note can be moved in the order.
UpkeepInv ==
    /\ M!AgendaTypeOK
    /\ mode \in {"queue", "inline"}
    /\ notes \in [Notes -> M!Note] /\ Listed(order, notes)
    /\ queue \in Seq(KnownTask(notes))
    /\ run \in RunState /\ run.task \in Seq(KnownTask(notes))
    /\ run.pc = "asking" => run.left > 0 /\ run.task # << >>
    /\ ran \in BOOLEAN /\ trouble \in 0..MaxUpkeepTrouble

LEMMA UpkeepConstants ==
    /\ {GOALS, HORIZON, TTL, CONNECTED, SEEDS, DRAIN} \subseteq Nat \ {0}
    /\ Priorities \subseteq Nat /\ MaxUpkeepTrouble \in Nat
    /\ IsFiniteSet(Notes) /\ Modes \subseteq {"queue", "inline"}
    /\ M!OLD = 3
<1>1. M!OLD = 3
  <2>1. Staleness[3] = 3 /\ Len(Staleness) = 3
    BY DEF Staleness
  <2> QED
    BY <2>1 DEF M!OLD, M!Last
<1>2. M!IsFiniteSet(Notes) => IsFiniteSet(Notes)
  BY DEF M!IsFiniteSet, IsFiniteSet
<1> QED
  BY <1>1, <1>2, OperationsBounds DEF M!AgendaBounds, M!MaintenanceBounds

LEMMA AtMostFits ==
    ASSUME NEW T, NEW s \in Seq(T), NEW k \in Nat
    PROVE  M!AtMost(s, k) \in Seq(T)
<1> DEFINE m == IF Len(s) < k THEN Len(s) ELSE k
<1>1. Len(s) \in Nat /\ m \in Int /\ m <= Len(s)
  BY LenProperties
<1> HIDE DEF m
<1>2. \A i \in 1..m : s[i] \in T
  BY <1>1, ElementOfSeq
<1>3. SubSeq(s, 1, m) \in Seq(T)
  BY <1>1, <1>2, SubSeqProperties
<1> QED
  BY <1>3 DEF M!AtMost, m

LEMMA TasksFit ==
    ASSUME NEW all, NEW s \in Seq(Present(all)), NEW kind \in {"conflict", "maintenance"}
    PROVE  M!Tasks(kind, s) \in Seq(KnownTask(all))
<1>1. Len(s) \in Nat /\ DOMAIN s = 1..Len(s) /\ \A i \in 1..Len(s) : s[i] \in Present(all)
  BY LenProperties, ElementOfSeq
<1>2. \A i \in 1..Len(s) : [kind |-> kind, note |-> s[i], changed |-> FALSE] \in KnownTask(all)
  BY <1>1 DEF KnownTask, Present, M!Task
<1>3. [i \in 1..Len(s) |-> [kind |-> kind, note |-> s[i], changed |-> FALSE]] \in Seq(KnownTask(all))
  BY <1>1, <1>2
<1> QED
  BY <1>1, <1>3 DEF M!Tasks

LEMMA OneTaskFits ==
    ASSUME NEW all, NEW n \in Present(all), NEW kind \in {"conflict", "maintenance"}
    PROVE  M!Tasks(kind, <<n>>) \in Seq(KnownTask(all))
<1>1. <<n>> \in Seq(Present(all))
  OBVIOUS
<1> QED
  BY <1>1, TasksFit

\* A finite set as a sequence.
LEMMA SetAsSequence ==
    ASSUME NEW S, IsFiniteSet(S)
    PROVE  M!SetToSeq(S) \in Seq(S) /\ NoRepeats(M!SetToSeq(S)) /\ Members(M!SetToSeq(S)) = S
<1> DEFINE k == Cardinality(S)
           IsList(f) == f \in [1..k -> S] /\ M!IsInjective(f)
<1>1. k \in Nat
  BY FS_CardinalityType
<1>2. ExistsBijection(1..k, S)
  BY FS_CardinalityType
<1>3. \E f : IsList(f)
  <2>1. PICK f : f \in Bijection(1..k, S)
    BY <1>2 DEF ExistsBijection
  <2> HIDE DEF k
  <2>2. f \in [1..k -> S] /\ M!IsInjective(f)
    BY <2>1 DEF Bijection, Injection, IsInjective, M!IsInjective
  <2> QED
    BY <2>2
<1>4. M!Cardinality(S) = k
  BY DEF M!Cardinality, Cardinality
<1> DEFINE s == M!SetToSeq(S)
<1>5. s = CHOOSE f \in [1..k -> S] : M!IsInjective(f)
  BY <1>4 DEF M!SetToSeq
<1> HIDE DEF s, k
<1>6. s \in [1..k -> S] /\ M!IsInjective(s)
  BY <1>3, <1>5
<1>7. s \in Injection(1..k, S)
  BY <1>6 DEF Injection, IsInjective, M!IsInjective
<1>8. Cardinality(1..k) = k /\ IsFiniteSet(1..k)
  <2>1. k - 1 + 1 = k
    BY <1>1
  <2> QED
    BY <1>1, FS_Interval
<1>9. s \in Surjection(1..k, S)
  BY <1>7, <1>8, FS_Injection DEF k
<1>10. Members(s) = S
  BY <1>6, <1>9 DEF Members, Surjection
<1> QED
  BY <1>1, <1>6, <1>10 DEF NoRepeats, M!IsInjective, s

\* The tasks of the first notes of a list, step by step.
IsSeeding(g, kind, s) ==
    g = [t \in SUBSET DOMAIN s |->
            IF t = {} THEN << >>
            ELSE IF M!Open(kind, s[M!Max(t)]) THEN g[t \ {M!Max(t)}]
                 ELSE g[t \ {M!Max(t)}] \o M!Tasks(kind, <<s[M!Max(t)]>>)]
Seeding(kind, s) == CHOOSE g : IsSeeding(g, kind, s)

LEMMA SeedingIsFold ==
    ASSUME NEW kind, NEW some
    PROVE  M!Seeded(kind, some)
              = Seeding(kind, M!AtMost(some, SEEDS))[DOMAIN M!AtMost(some, SEEDS)]
  BY Zenon DEF M!Seeded, M!FoldLeft, M!MapThenFoldSet, Seeding, IsSeeding

LEMMA SeedingFits ==
    ASSUME NEW all, NEW s \in Seq(Present(all)), NEW kind \in {"conflict", "maintenance"}
    PROVE  Seeding(kind, s)[DOMAIN s] \in Seq(KnownTask(all))
<1> DEFINE n == Len(s)
           D == 1..n
           X == Seq(KnownTask(all))
           step == [i \in D |-> [x \in X |-> IF M!Open(kind, s[i]) THEN x
                                             ELSE x \o M!Tasks(kind, <<s[i]>>)]]
<1>1. n \in Nat /\ DOMAIN s = D /\ \A i \in D : s[i] \in Present(all)
  BY LenProperties, ElementOfSeq
<1>2. \A i \in D : M!Tasks(kind, <<s[i]>>) \in X
  BY <1>1, OneTaskFits
<1>3. step \in [D -> [X -> X]] /\ << >> \in X
  <2>1. \A i \in D, x \in X : x \o M!Tasks(kind, <<s[i]>>) \in X
    BY <1>2, ConcatProperties
  <2>2. << >> \in X
    OBVIOUS
  <2> HIDE DEF D, X
  <2> QED
    BY <2>1, <2>2
<1>4. \A i \in D, x \in X : step[i][x] = IF M!Open(kind, s[i]) THEN x
                                         ELSE x \o M!Tasks(kind, <<s[i]>>)
  OBVIOUS
<1> HIDE DEF X, step
<1>5. PICK g : LeftFold(g, n, X, << >>, step)
  BY <1>1, <1>3, LeftFoldExists
<1>6. \A t \in SUBSET D : t # {} => Greatest(t) \in t
  BY <1>1, GreatestOfInterval
<1>7. \A t : M!Max(t) = Greatest(t)
  BY DEF M!Max, Greatest
<1> HIDE DEF D
<1>8. ASSUME NEW t \in SUBSET D
      PROVE  g[t] = IF t = {} THEN << >>
                    ELSE IF M!Open(kind, s[M!Max(t)]) THEN g[t \ {M!Max(t)}]
                         ELSE g[t \ {M!Max(t)}] \o M!Tasks(kind, <<s[M!Max(t)]>>)
  <2>1. t # {} => g[t \ {Greatest(t)}] \in X /\ Greatest(t) \in D
    BY <1>5, <1>6 DEF LeftFold, D
  <2>2. g[t] = IF t = {} THEN << >> ELSE step[Greatest(t)][g[t \ {Greatest(t)}]]
    BY <1>5 DEF LeftFold, D
  <2> QED
    BY <1>4, <1>7, <2>1, <2>2
<1>9. g \in [SUBSET D -> X]
  BY <1>5 DEF LeftFold, D
<1>10. IsSeeding(g, kind, s)
  BY <1>1, <1>8, <1>9 DEF IsSeeding
<1> DEFINE h == Seeding(kind, s)
<1>11. IsSeeding(h, kind, s)
  BY <1>10 DEF Seeding
<1> HIDE DEF h
<1>12. \A t \in SUBSET D :
           h[t] = IF t = {} THEN << >>
                  ELSE IF M!Open(kind, s[M!Max(t)]) THEN h[t \ {M!Max(t)}]
                       ELSE h[t \ {M!Max(t)}] \o M!Tasks(kind, <<s[M!Max(t)]>>)
  BY <1>1, <1>11 DEF IsSeeding
<1> DEFINE K == {k \in Nat : k <= n => h[1..k] \in X}
<1>13. 0 \in K
  <2>1. 1..0 = {} /\ << >> \in X
    BY <1>3
  <2> QED
    BY <1>12, <2>1
<1>14. ASSUME NEW k \in K PROVE k + 1 \in K
  <2> SUFFICES ASSUME k + 1 <= n PROVE h[1..(k + 1)] \in X
    OBVIOUS
  <2>1. k \in Nat /\ k + 1 \in 1..n /\ (k + 1) - 1 = k /\ k <= n
    BY <1>1
  <2>2. h[1..k] \in X
    BY <2>1
  <2>3. 1..(k + 1) \in SUBSET D /\ k + 1 \in D /\ 1..(k + 1) # {}
    <3>1. /\ n \in Nat /\ k \in Nat /\ k + 1 \in 1..n /\ k + 1 \in 1..(k + 1)
          /\ \A i \in 1..(k + 1) : i \in 1..n
      <4> HIDE DEF n
      <4> QED
        BY <1>1, <2>1
    <3> QED
      BY <3>1 DEF D
  <2>4. M!Max(1..(k + 1)) = k + 1 /\ (1..(k + 1)) \ {k + 1} = 1..k
    BY <1>1, <1>7, <2>1, GreatestOfInterval
  <2>5. h[1..(k + 1)] = IF M!Open(kind, s[k + 1]) THEN h[1..k]
                        ELSE h[1..k] \o M!Tasks(kind, <<s[k + 1]>>)
    BY <1>12, <2>3, <2>4
  <2>6. h[1..k] \o M!Tasks(kind, <<s[k + 1]>>) \in X
    BY <1>2, <2>2, <2>3, ConcatProperties DEF X
  <2> QED
    BY <2>2, <2>5, <2>6
<1>15. h[1..n] \in X
  <2>1. K \in SUBSET Nat
    OBVIOUS
  <2>2. \A k \in Nat : k \in K
    <3> HIDE DEF K
    <3> QED
      BY <1>13, <1>14, <2>1, Induction
  <2>3. n <= n => h[1..n] \in X
    BY <1>1, <2>2
  <2> QED
    BY <1>1, <2>3
<1> QED
  BY <1>1, <1>15 DEF h, D, X

LEMMA SeededFits ==
    ASSUME NEW all, NEW s \in Seq(Present(all)), NEW kind \in {"conflict", "maintenance"}
    PROVE  M!Seeded(kind, s) \in Seq(KnownTask(all))
<1>1. M!AtMost(s, SEEDS) \in Seq(Present(all))
  BY AtMostFits, UpkeepConstants
<1> QED
  BY <1>1, SeedingIsFold, SeedingFits

LEMMA AgendaKept ==
    ASSUME M!AgendaTypeOK
    PROVE  /\ M!AgendaNext => M!AgendaTypeOK'
           /\ M!DayPasses => M!AgendaTypeOK'
           /\ goals' = M!Archived(goals) /\ concerns' = concerns => M!AgendaTypeOK'
           /\ UNCHANGED <<goals, concerns>> => M!AgendaTypeOK'
<1> DEFINE Goal == [active : BOOLEAN, priority : Priorities \cup {0}, left : 0..HORIZON]
<1>1. /\ goals \in [1..GOALS -> Goal]
      /\ DOMAIN concerns \subseteq Concerns /\ \A c \in DOMAIN concerns : concerns[c] \in 0..TTL
  BY DEF M!AgendaTypeOK
<1>2. HORIZON \in Nat \ {0} /\ TTL \in Nat \ {0}
  BY UpkeepConstants
<1>3. ASSUME NEW g \in 1..GOALS, NEW priority \in Priorities, M!AddGoal(g, priority)
      PROVE  M!AgendaTypeOK'
  <2>1. [active |-> TRUE, priority |-> priority, left |-> HORIZON] \in Goal
    BY <1>2
  <2>2. goals' \in [1..GOALS -> Goal] /\ concerns' = concerns
    <3> HIDE DEF Goal
    <3> QED
      BY <1>1, <1>3, <2>1 DEF M!AddGoal
  <2> QED
    BY <1>1, <2>2 DEF M!AgendaTypeOK
<1>4. ASSUME NEW g \in 1..GOALS, NEW priority \in Priorities, NEW active \in BOOLEAN,
             NEW left \in 0..HORIZON, M!UpdateGoal(g, active, priority, left)
      PROVE  M!AgendaTypeOK'
  <2> DEFINE new == [active |-> active, priority |-> priority, left |-> left]
  <2>1. new \in Goal
    OBVIOUS
  <2>2. goals' = [goals EXCEPT ![g] = new] /\ concerns' = concerns
    BY <1>1, <1>4 DEF M!UpdateGoal
  <2>3. goals' \in [1..GOALS -> Goal]
    <3> HIDE DEF Goal, new
    <3> QED
      BY <1>1, <2>1, <2>2
  <2> QED
    BY <1>1, <2>2, <2>3 DEF M!AgendaTypeOK
<1>5. ASSUME NEW c \in Concerns, M!AddConcern(c) PROVE M!AgendaTypeOK'
  <2>1. /\ concerns' = [x \in DOMAIN concerns \cup {c} |-> IF x = c THEN TTL ELSE concerns[x]]
        /\ goals' = goals
    BY <1>5 DEF M!AddConcern
  <2>2. TTL \in 0..TTL
    BY <1>2
  <2>3. DOMAIN concerns' \subseteq Concerns /\ \A x \in DOMAIN concerns' : concerns'[x] \in 0..TTL
    BY <1>1, <2>1, <2>2
  <2> QED
    BY <1>1, <2>1, <2>3 DEF M!AgendaTypeOK
<1>6. M!AgendaNext => M!AgendaTypeOK'
  BY <1>3, <1>4, <1>5 DEF M!AgendaNext
<1>7. ASSUME M!DayPasses PROVE M!AgendaTypeOK'
  <2>1. /\ goals' = [g \in 1..GOALS |-> [goals[g] EXCEPT !.left = M!Sooner(@)]]
        /\ concerns' = [c \in DOMAIN concerns |-> M!Sooner(concerns[c])]
    BY <1>1, <1>7 DEF M!DayPasses
  <2>2. ASSUME NEW g \in 1..GOALS PROVE [goals[g] EXCEPT !.left = M!Sooner(@)] \in Goal
    <3> DEFINE sooner == M!Sooner(goals[g].left)
    <3>1. goals[g] \in Goal /\ sooner \in 0..HORIZON
      BY <1>1, <1>2 DEF M!Sooner
    <3> HIDE DEF sooner
    <3>2. [goals[g] EXCEPT !.left = sooner] \in Goal
      BY <3>1
    <3> QED
      BY <3>2 DEF sooner
  <2>3. goals' \in [1..GOALS -> Goal]
    <3> HIDE DEF Goal
    <3> QED
      BY <2>1, <2>2
  <2>4. \A c \in DOMAIN concerns : M!Sooner(concerns[c]) \in 0..TTL
    BY <1>1, <1>2 DEF M!Sooner
  <2> QED
    BY <1>1, <2>1, <2>3, <2>4 DEF M!AgendaTypeOK
<1>8. ASSUME goals' = M!Archived(goals), concerns' = concerns PROVE M!AgendaTypeOK'
  <2>1. \A g \in 1..GOALS : (IF M!Expired(goals[g]) THEN [goals[g] EXCEPT !.active = FALSE]
                             ELSE goals[g]) \in Goal
    BY <1>1
  <2>2. goals' \in [1..GOALS -> Goal]
    <3> HIDE DEF Goal
    <3> QED
      BY <1>1, <1>8, <2>1 DEF M!Archived
  <2> QED
    BY <1>1, <1>8, <2>2 DEF M!AgendaTypeOK
<1>9. UNCHANGED <<goals, concerns>> => M!AgendaTypeOK'
  BY DEF M!AgendaTypeOK
<1> QED
  BY <1>6, <1>7, <1>8, <1>9

\* Tasks stay tasks of notes that there are when no note disappears.
LEMMA StillKnown ==
    ASSUME NEW before, NEW after, Present(before) \subseteq Present(after),
           NEW tasks \in Seq(KnownTask(before))
    PROVE  tasks \in Seq(KnownTask(after))
<1>1. KnownTask(before) \subseteq KnownTask(after)
  BY DEF KnownTask
<1> QED
  BY <1>1, SeqMonotonic

LEMMA MovedBackFits ==
    ASSUME NEW all, Listed(order, all), NEW n \in Present(all)
    PROVE  Listed(M!MovedBack(n), all)
<1> DEFINE i == CHOOSE j \in DOMAIN order : order[j] = n
<1>1. order \in Seq(Notes) /\ NoRepeats(order) /\ Members(order) = Present(all)
  BY DEF Listed
<1>2. \E j \in DOMAIN order : order[j] = n
  BY <1>1 DEF Members
<1>3. i \in DOMAIN order /\ order[i] = n
  BY <1>2
<1>4. M!MovedBack(n) = MovedToEnd(order, i)
  BY <1>3 DEF M!MovedBack, M!RemoveAt, MovedToEnd
<1> HIDE DEF i
<1>5. i \in 1..Len(order)
  BY <1>1, <1>3, LenProperties
<1> QED
  BY <1>1, <1>4, <1>5, MovedToEndKeeps DEF Listed

LEMMA AddedFits ==
    ASSUME NEW s \in Seq(Notes), NoRepeats(s), NEW n \in Notes, n \notin Members(s)
    PROVE  /\ Append(s, n) \in Seq(Notes) /\ NoRepeats(Append(s, n))
           /\ Members(Append(s, n)) = Members(s) \cup {n}
<1> DEFINE k == Len(s)
           t == Append(s, n)
<1>1. /\ k \in Nat /\ DOMAIN s = 1..k /\ t \in Seq(Notes) /\ Len(t) = k + 1
      /\ t[k + 1] = n /\ \A i \in 1..k : t[i] = s[i]
  BY AppendProperties, LenProperties
<1>2. DOMAIN t = 1..(k + 1)
  BY <1>1, LenProperties
<1> HIDE DEF k, t
<1>3. \A i \in DOMAIN t : (i \in DOMAIN s /\ t[i] = s[i]) \/ (i = k + 1 /\ t[i] = n)
  BY <1>1, <1>2
<1>4. \A i \in DOMAIN s : s[i] # n
  BY DEF Members
<1>5. NoRepeats(t)
  BY <1>3, <1>4 DEF NoRepeats
<1>6. k + 1 \in DOMAIN t /\ \A i \in DOMAIN s : i \in DOMAIN t
  BY <1>1, <1>2
<1>7. Members(t) = Members(s) \cup {n}
  BY <1>1, <1>3, <1>6 DEF Members
<1> QED
  BY <1>1, <1>5, <1>7 DEF t

LEMMA OutdatedFits ==
    ASSUME NEW all, queue \in Seq(KnownTask(all)), NEW n
    PROVE  M!Outdated(n) \in Seq(KnownTask(all))
<1> DEFINE it(i) == IF queue[i].note = n THEN [queue[i] EXCEPT !.changed = TRUE] ELSE queue[i]
<1>1. Len(queue) \in Nat /\ DOMAIN queue = 1..Len(queue)
      /\ \A i \in 1..Len(queue) : queue[i] \in KnownTask(all)
  BY LenProperties, ElementOfSeq
<1>2. \A i \in 1..Len(queue) : it(i) \in KnownTask(all)
  BY <1>1 DEF KnownTask, M!Task
<1> HIDE DEF it
<1>3. [i \in 1..Len(queue) |-> it(i)] \in Seq(KnownTask(all))
  BY <1>1, <1>2
<1> QED
  BY <1>1, <1>3 DEF M!Outdated, it

LEMMA RecordedTyped ==
    ASSUME NEW it \in M!Note, NEW m \in Notes, NEW strong, NEW named
    PROVE  /\ M!Recorded(it, m, strong, named) \in M!Note
           /\ M!Recorded(it, m, strong, named).state = it.state
<1> DEFINE link == [it EXCEPT !.weak = @ \ {m}, !.links = @ \cup {m}]
           candidate == [it EXCEPT !.weak = @ \cup {m}]
<1>1. M!Recorded(it, m, strong, named) \in {it, link, candidate}
  BY DEF M!Recorded
<1>2. /\ link \in M!Note /\ link.state = it.state
      /\ candidate \in M!Note /\ candidate.state = it.state
  BY DEF M!Note
<1> HIDE DEF link, candidate
<1> QED
  BY <1>1, <1>2

\* What an answer cites is recorded on a note, and nothing appears or disappears by it.
LEMMA CitesTyped ==
    ASSUME NEW n, NEW m, NEW strong, NEW named, NEW all \in [Notes -> M!Note], NEW said,
           m = M!NoNote \/ m \in Notes, trouble \in 0..MaxUpkeepTrouble,
           M!Cites(n, m, strong, named, all, said)
    PROVE  /\ notes' \in [Notes -> M!Note] /\ trouble' \in 0..MaxUpkeepTrouble
           /\ Present(notes') = Present(all)
           /\ m # M!NoNote => m \in Present(notes')
<1>1. CASE m = M!NoNote
  BY <1>1 DEF M!Cites
<1>2. CASE m # M!NoNote
  <2> DEFINE new == M!Recorded(all[n], m, strong, named)
  <2>1. /\ notes' = [all EXCEPT ![n] = new] /\ all[m].state # "absent"
        /\ trouble < MaxUpkeepTrouble /\ trouble' = trouble + 1
    BY <1>2 DEF M!Cites, M!TroubleLeft, M!Trouble
  <2>2. n \in Notes => new \in M!Note /\ new.state = all[n].state
    BY <1>2, RecordedTyped
  <2>3. MaxUpkeepTrouble \in Nat
    BY UpkeepConstants
  <2> HIDE DEF new
  <2>4. notes' \in [Notes -> M!Note] /\ \A x \in Notes : notes'[x].state = all[x].state
    BY <2>1, <2>2
  <2> QED
    BY <1>2, <2>1, <2>3, <2>4 DEF Present
<1> QED
  BY <1>1, <1>2

LEMMA FollowUpFits ==
    ASSUME NEW all, queue \in Seq(KnownTask(all)), NEW n, NEW m,
           m # M!NoNote => m \in Present(all), M!FollowUp(n, m)
    PROVE  queue' \in Seq(KnownTask(all))
<1> DEFINE old == M!Outdated(n)
           more == M!Tasks("maintenance", <<m>>)
<1>1. old \in Seq(KnownTask(all))
  BY OutdatedFits
<1>2. m # M!NoNote => old \o more \in Seq(KnownTask(all))
  <2>1. m # M!NoNote => more \in Seq(KnownTask(all))
    BY OneTaskFits
  <2> HIDE DEF old, more
  <2> QED
    BY <1>1, <2>1, ConcatProperties
<1>3. queue' = old \/ (m # M!NoNote /\ queue' = old \o more)
  BY DEF M!FollowUp
<1> QED
  BY <1>1, <1>2, <1>3

\* The note of a task that is answered is there.
LEMMA TaskFacts ==
    ASSUME UpkeepInv, run.pc = "asking"
    PROVE  /\ run.task[1] \in M!Task /\ run.task[1].note \in Present(notes)
           /\ run.left \in Nat /\ run.left > 0 /\ run.left - 1 \in Nat
<1>1. /\ run.task \in Seq(KnownTask(notes)) /\ run.task # << >>
      /\ run.left \in Nat /\ run.left > 0
  BY DEF UpkeepInv, RunState
<1> DEFINE tasks == run.task
<1>2. tasks \in Seq(KnownTask(notes)) /\ tasks # << >>
  BY <1>1
<1> HIDE DEF tasks
<1>3. Len(tasks) \in Nat /\ Len(tasks) # 0
  BY <1>2, LenProperties, EmptySeq
<1>4. 1 \in 1..Len(tasks)
  BY <1>3
<1>5. tasks[1] \in KnownTask(notes)
  BY <1>2, <1>4, ElementOfSeq
<1> QED
  BY <1>1, <1>5 DEF KnownTask, tasks

\* The cycle goes on without a task.
LEMMA TaskDone ==
    ASSUME NEW k \in Nat, NEW pc \in {"idle", "draining"}, NEW all,
           run' = [pc |-> pc, left |-> k, task |-> << >>]
    PROVE  /\ run' \in RunState /\ run'.task \in Seq(KnownTask(all))
           /\ run'.pc = "asking" => run'.left > 0 /\ run'.task # << >>
<1>1. << >> \in Seq(M!Task) /\ << >> \in Seq(KnownTask(all))
  OBVIOUS
<1>2. run' \in RunState
  BY <1>1 DEF RunState
<1>3. run'.task = << >> /\ run'.pc # "asking"
  OBVIOUS
<1> QED
  BY <1>1, <1>2, <1>3

\* A task is answered: notes are written, the order and the queue follow.
LEMMA HandledTyped ==
    ASSUME UpkeepInv, run.pc = "asking", M!Handled,
           notes' \in [Notes -> M!Note], Listed(order', notes'),
           queue' \in Seq(KnownTask(notes')), trouble' \in 0..MaxUpkeepTrouble
    PROVE  UpkeepInv'
<1> DEFINE k == run.left - 1
<1>1. /\ run' = [pc |-> "draining", left |-> k, task |-> << >>]
      /\ UNCHANGED <<goals, concerns>> /\ mode' = mode /\ ran' = ran
  BY DEF M!Handled, M!agendaVars, M!Idle
<1>2. k \in Nat
  BY TaskFacts
<1> HIDE DEF k
<1>3. /\ run' \in RunState /\ run'.task \in Seq(KnownTask(notes'))
      /\ run'.pc = "asking" => run'.left > 0 /\ run'.task # << >>
  BY <1>1, <1>2, TaskDone
<1>4. M!AgendaTypeOK'
  BY <1>1, AgendaKept DEF UpkeepInv
<1> QED
  BY <1>1, <1>3, <1>4 DEF UpkeepInv

LEMMA ListedLike ==
    ASSUME NEW list, NEW before, NEW after, Listed(list, before),
           Present(before) = Present(after)
    PROVE  Listed(list, after)
  BY DEF Listed

\* A maintenance task is answered with the note n rewritten.
LEMMA RewrittenTyped ==
    ASSUME UpkeepInv, run.pc = "asking", M!Handled,
           NEW n, n = run.task[1].note, NEW it, NEW said, NEW strong, NEW named,
           NEW m \in Notes \cup {M!NoNote},
           notes[n] \in M!Note => it \in M!Note /\ (it.state = "absent" <=> notes[n].state = "absent"),
           M!Cites(n, m, strong, named, [notes EXCEPT ![n] = it], said),
           order' = order \/ M!MovesBack(n),
           queue' = M!Outdated(n) \/ M!FollowUp(n, m)
    PROVE  UpkeepInv'
<1> DEFINE all == [notes EXCEPT ![n] = it]
<1>1. /\ notes \in [Notes -> M!Note] /\ Listed(order, notes) /\ queue \in Seq(KnownTask(notes))
      /\ trouble \in 0..MaxUpkeepTrouble
  BY DEF UpkeepInv
<1>2. n \in Present(notes)
  BY TaskFacts
<1>3. n \in Notes /\ notes[n] \in M!Note
  BY <1>1, <1>2 DEF Present
<1>4. /\ all \in [Notes -> M!Note] /\ Present(all) = Present(notes)
  BY <1>1, <1>3 DEF Present
<1> HIDE DEF all
<1>5. M!Cites(n, m, strong, named, all, said)
  BY DEF all
<1>6. /\ notes' \in [Notes -> M!Note] /\ trouble' \in 0..MaxUpkeepTrouble
      /\ Present(notes') = Present(all)
      /\ m # M!NoNote => m \in Present(notes')
  BY <1>1, <1>4, <1>5, CitesTyped
<1>7. Listed(order', notes')
  <2>1. Listed(M!MovedBack(n), notes)
    BY <1>1, <1>2, MovedBackFits
  <2>2. Listed(order', notes)
    BY <1>1, <2>1 DEF M!MovesBack
  <2> QED
    BY <1>4, <1>6, <2>2, ListedLike
<1>8. queue' \in Seq(KnownTask(notes'))
  <2>1. queue \in Seq(KnownTask(notes'))
    BY <1>1, <1>4, <1>6, StillKnown
  <2> QED
    BY <1>6, <2>1, OutdatedFits, FollowUpFits
<1> QED
  BY <1>6, <1>7, <1>8, HandledTyped

LEMMA TouchedTyped ==
    ASSUME NEW it \in M!Note
    PROVE  /\ M!Touched(it) \in M!Note /\ M!Touched(it).state = it.state
           /\ \A some \in SUBSET Notes :
                 /\ M!Retired(it, some) \in M!Note /\ M!Retired(it, some).state = "retired"
           /\ [M!Touched(it) EXCEPT !.state = "archived"] \in M!Note
           /\ [M!Touched(it) EXCEPT !.state = "archived"].state = "archived"
<1>1. 0 \in 0..M!OLD
  BY UpkeepConstants
<1>2. M!Touched(it) \in M!Note /\ M!Touched(it).state = it.state
  BY <1>1 DEF M!Touched, M!Note
<1>3. ASSUME NEW some \in SUBSET Notes
      PROVE  M!Retired(it, some) \in M!Note /\ M!Retired(it, some).state = "retired"
  BY <1>2 DEF M!Retired, M!Note
<1>4. /\ [M!Touched(it) EXCEPT !.state = "archived"] \in M!Note
      /\ [M!Touched(it) EXCEPT !.state = "archived"].state = "archived"
  BY <1>2 DEF M!Note
<1> QED
  BY <1>2, <1>3, <1>4

LEMMA StayTyped ==
    ASSUME UpkeepInv, NEW m \in Notes \cup {M!NoNote}, NEW verdict, M!Stay(verdict, m)
    PROVE  UpkeepInv'
<1> DEFINE n == run.task[1].note
           it == M!Touched(notes[n])
           strong == verdict = "revise"
<1>1. /\ run.pc = "asking" /\ M!Handled /\ M!MovesBack(n) /\ M!FollowUp(n, m)
      /\ M!Cites(n, m, strong, FALSE, [notes EXCEPT ![n] = it], cited)
  BY DEF M!Stay, M!Handles, M!Touched
<1>2. notes[n] \in M!Note => it \in M!Note /\ (it.state = "absent" <=> notes[n].state = "absent")
  BY TouchedTyped
<1> HIDE DEF it, strong
<1> QED
  BY <1>1, <1>2, RewrittenTyped

LEMMA MergeTyped ==
    ASSUME UpkeepInv, NEW m \in Notes \cup {M!NoNote}, NEW target \in Notes \cup {M!NoNote},
           M!Merge(target, m)
    PROVE  UpkeepInv'
<1> DEFINE n == run.task[1].note
           heir == {target} \ {M!NoNote, n}
           it == M!Retired(notes[n], heir)
           said == M!Named(n, heir)
           named == m = target
<1>1. /\ run.pc = "asking" /\ M!Handled /\ M!MovesBack(n) /\ M!FollowUp(n, m)
      /\ M!Cites(n, m, TRUE, named, [notes EXCEPT ![n] = it], said)
  BY DEF M!Merge, M!Handles, M!Retired, M!Touched
<1>2. notes[n] \in M!Note => it \in M!Note /\ it.state = "retired"
  <2>1. heir \in SUBSET Notes
    OBVIOUS
  <2> HIDE DEF heir
  <2> QED
    BY <2>1, TouchedTyped
<1>3. n \in Present(notes)
  BY <1>1, TaskFacts
<1> HIDE DEF it, said, named
<1>4. notes[n] \in M!Note => it \in M!Note /\ (it.state = "absent" <=> notes[n].state = "absent")
  BY <1>2, <1>3 DEF Present
<1> HIDE DEF heir
<1> QED
  BY <1>1, <1>4, RewrittenTyped

LEMMA CheckConflictTyped ==
    ASSUME UpkeepInv, NEW m \in Notes \cup {M!NoNote}, NEW verdict, NEW target \in BOOLEAN, NEW named,
           M!CheckConflict(verdict, target, m, named)
    PROVE  UpkeepInv'
<1> DEFINE n == run.task[1].note
           flag == verdict = "duplicate" /\ target
           it == M!Checked(notes[n], flag)
           strong == verdict # "clear"
<1>1. /\ run.pc = "asking" /\ M!Handled /\ queue' = M!Outdated(n)
      /\ order' = order \/ M!MovesBack(n)
      /\ M!Cites(n, m, strong, named, [notes EXCEPT ![n] = it], cited)
  BY DEF M!CheckConflict, M!Handles, M!Checked
<1>2. ASSUME notes[n] \in M!Note
      PROVE  it \in M!Note /\ it.state = notes[n].state
  <2> DEFINE kept == mode = "inline" /\ flag
             flagged == (mode = "inline" /\ notes[n].flagged) \/ kept
             age == IF kept THEN 0 ELSE notes[n].age
  <2>1. it = [notes[n] EXCEPT !.checked = TRUE, !.flagged = flagged, !.age = age]
    BY DEF M!Checked
  <2>2. flagged \in BOOLEAN /\ age \in 0..M!OLD
    BY <1>2, UpkeepConstants DEF M!Note
  <2> HIDE DEF flagged, age, it
  <2> QED
    BY <1>2, <2>1, <2>2 DEF M!Note
<1> HIDE DEF it, strong, flag
<1> QED
  BY <1>1, <1>2, RewrittenTyped

LEMMA CreatedTyped ==
    ASSUME NEW some \in SUBSET Notes
    PROVE  /\ M!Absent \in M!Note /\ M!Absent.state = "absent"
           /\ [M!Created EXCEPT !.links = some] \in M!Note
           /\ [M!Created EXCEPT !.links = some].state = "live"
           /\ [M!Created EXCEPT !.weak = some] \in M!Note
           /\ [M!Created EXCEPT !.weak = some].state = "live"
<1>1. 0 \in 0..M!OLD
  BY UpkeepConstants
<1> QED
  BY <1>1 DEF M!Created, M!Absent, M!Note

\* The one answer by which a note appears: it comes last in the order.
LEMMA SupersedeTyped ==
    ASSUME UpkeepInv, NEW m \in Notes \cup {M!NoNote}, NEW heir \in Notes, M!Supersede(heir, m)
    PROVE  UpkeepInv'
<1> DEFINE n == run.task[1].note
           inherited == (notes[n].links \cup {n}) \ {heir}
           it == M!Retired(notes[n], {heir})
           new == [M!Created EXCEPT !.links = inherited]
           said == [M!Named(heir, inherited) EXCEPT ![n][heir].named = TRUE]
           all == [notes EXCEPT ![n] = it, ![heir] = new]
           named == m = n
           moved == M!MovedBack(n)
<1>1. /\ run.pc = "asking" /\ M!Handled /\ M!FollowUp(n, m) /\ notes[heir].state = "absent"
      /\ M!Cites(heir, m, TRUE, named, all, said)
      /\ order' = Append(moved, heir)
  BY DEF M!Supersede, M!Handles, M!Retired, M!Touched
<1>2. /\ notes \in [Notes -> M!Note] /\ Listed(order, notes) /\ queue \in Seq(KnownTask(notes))
      /\ trouble \in 0..MaxUpkeepTrouble
  BY DEF UpkeepInv
<1>3. n \in Present(notes)
  BY <1>1, TaskFacts
<1> HIDE DEF n, said, named
<1>4. n \in Notes /\ notes[n] \in M!Note /\ n # heir
  BY <1>1, <1>2, <1>3 DEF Present
<1>5. inherited \in SUBSET Notes
  BY <1>4 DEF M!Note
<1> HIDE DEF inherited
<1>6. it \in M!Note /\ it.state = "retired" /\ new \in M!Note /\ new.state = "live"
  <2>1. {heir} \in SUBSET Notes
    OBVIOUS
  <2> QED
    <3>1. it \in M!Note /\ it.state = "retired"
      BY <1>4, <2>1, TouchedTyped
    <3>2. new \in M!Note /\ new.state = "live"
      BY <1>5, CreatedTyped
    <3> QED
      BY <3>1, <3>2
<1> HIDE DEF it, new
<1>7. all \in [Notes -> M!Note] /\ Present(all) = Present(notes) \cup {heir}
  <2>1. /\ all \in [Notes -> M!Note]
        /\ \A x \in Notes : all[x] = IF x = heir THEN new ELSE IF x = n THEN it ELSE notes[x]
    BY <1>2, <1>4, <1>6
  <2> HIDE DEF all
  <2> QED
    BY <1>3, <1>6, <2>1 DEF Present
<1> HIDE DEF all
<1>8. /\ notes' \in [Notes -> M!Note] /\ trouble' \in 0..MaxUpkeepTrouble
      /\ Present(notes') = Present(all)
      /\ m # M!NoNote => m \in Present(notes')
  BY <1>1, <1>2, <1>7, CitesTyped
<1>9. Listed(order', notes')
  <2>1. Listed(moved, notes)
    BY <1>2, <1>3, MovedBackFits
  <2> HIDE DEF moved
  <2>2. moved \in Seq(Notes) /\ NoRepeats(moved) /\ Members(moved) = Present(notes)
    BY <2>1 DEF Listed
  <2>3. heir \notin Members(moved)
    BY <1>1, <2>2 DEF Present
  <2> QED
    BY <1>1, <1>7, <1>8, <2>2, <2>3, AddedFits DEF Listed
<1>10. queue' \in Seq(KnownTask(notes'))
  <2>1. queue \in Seq(KnownTask(notes'))
    BY <1>2, <1>7, <1>8, StillKnown
  <2> QED
    BY <1>1, <1>8, <2>1, FollowUpFits
<1> QED
  BY <1>1, <1>8, <1>9, <1>10, HandledTyped

LEMMA ArchiveTyped ==
    ASSUME UpkeepInv, M!Archive
    PROVE  UpkeepInv'
<1> DEFINE n == run.task[1].note
           it == [M!Touched(notes[n]) EXCEPT !.state = "archived"]
           all == [notes EXCEPT ![n] = it]
<1>1. /\ notes \in [Notes -> M!Note] /\ Listed(order, notes) /\ queue \in Seq(KnownTask(notes))
      /\ trouble \in 0..MaxUpkeepTrouble /\ MaxUpkeepTrouble \in Nat
  BY UpkeepConstants DEF UpkeepInv
<1>2. run.pc = "asking" /\ M!Handled
  BY DEF M!Archive, M!Handles
<1>3. CASE n \in Protected
  <2>1. UNCHANGED <<notes, order, queue>> /\ trouble' \in 0..MaxUpkeepTrouble
    BY <1>1, <1>3 DEF M!Archive, M!TroubleLeft, M!Trouble
  <2> QED
    BY <1>1, <1>2, <2>1, HandledTyped
<1>4. CASE n \notin Protected
  <2>1. /\ notes' = all /\ order' = M!MovedBack(n) /\ queue' = M!Outdated(n)
        /\ trouble' = trouble
    BY <1>4 DEF M!Archive, M!MovesBack, M!Touched
  <2>2. n \in Present(notes)
    BY <1>2, TaskFacts
  <2>3. n \in Notes /\ notes[n] \in M!Note
    BY <1>1, <2>2 DEF Present
  <2>4. it \in M!Note /\ it.state = "archived"
    BY <2>3, TouchedTyped
  <2> HIDE DEF it, n
  <2>5. all \in [Notes -> M!Note] /\ Present(all) = Present(notes)
    BY <1>1, <2>2, <2>3, <2>4 DEF Present
  <2>6. Listed(order', all)
    BY <1>1, <2>1, <2>2, <2>5, MovedBackFits, ListedLike
  <2> HIDE DEF all
  <2>7. queue \in Seq(KnownTask(all))
    BY <1>1, <2>5, StillKnown
  <2>8. queue' \in Seq(KnownTask(all))
    BY <2>1, <2>7, OutdatedFits
  <2> QED
    BY <1>1, <1>2, <2>1, <2>5, <2>6, <2>8, HandledTyped
<1> QED
  BY <1>3, <1>4

LEMMA RankingsFit ==
    ASSUME NEW ranked \in M!Rankings
    PROVE  ranked \in Seq(Present(notes))
<1> DEFINE live == {n \in Notes : M!Live(n)}
<1>1. live \subseteq Notes /\ live \subseteq Present(notes)
  BY DEF Present, M!Live
<1>2. IsFiniteSet(live) /\ Cardinality(live) \in Nat
  BY <1>1, UpkeepConstants, FS_Subset, FS_CardinalityType
<1>3. ranked \in [1..Cardinality(live) -> live]
  <2>1. M!Cardinality(live) = Cardinality(live)
    BY DEF M!Cardinality, Cardinality
  <2> QED
    BY <2>1 DEF M!Rankings, M!SetToSeqs
<1> HIDE DEF live
<1>4. ranked \in Seq(live)
  BY <1>2, <1>3
<1> QED
  BY <1>1, <1>4, SeqMonotonic

LEMMA UncheckedFit ==
    ASSUME TRUE
    PROVE  M!SetToSeq(M!Unchecked) \in Seq(Present(notes))
<1>1. M!Unchecked \subseteq Notes /\ M!Unchecked \subseteq Present(notes)
  BY DEF Present, M!Unchecked
<1>2. IsFiniteSet(M!Unchecked)
  BY <1>1, UpkeepConstants, FS_Subset
<1>3. M!SetToSeq(M!Unchecked) \in Seq(M!Unchecked)
  BY <1>2, SetAsSequence
<1> QED
  BY <1>1, <1>3, SeqMonotonic

LEMMA InlineTasksFit ==
    ASSUME NEW left, NEW found \in M!InlineTasks(left)
    PROVE  found \in Seq(KnownTask(notes))
<1>1. M!AtMost(M!Tasks("conflict", M!SetToSeq(M!Unchecked)), 1) \in Seq(KnownTask(notes))
  <2>1. M!Tasks("conflict", M!SetToSeq(M!Unchecked)) \in Seq(KnownTask(notes))
    BY UncheckedFit, TasksFit
  <2> QED
    BY <2>1, AtMostFits
<1>2. ASSUME NEW ranked \in M!Rankings
      PROVE  M!AtMost(M!Tasks("maintenance", ranked), 1) \in Seq(KnownTask(notes))
  <2>1. M!Tasks("maintenance", ranked) \in Seq(KnownTask(notes))
    BY RankingsFit, TasksFit
  <2> QED
    BY <2>1, AtMostFits
<1> QED
  BY <1>1, <1>2 DEF M!InlineTasks

LEMMA BootstrapTyped ==
    ASSUME UpkeepInv, M!Bootstrap
    PROVE  UpkeepInv'
<1>1. /\ run' = [pc |-> "draining", left |-> DRAIN, task |-> << >>]
      /\ goals' = M!Archived(goals)
      /\ UNCHANGED <<concerns, mode, notes, order, ran, trouble>>
  BY DEF M!Bootstrap, M!Idle
<1>2. PICK ranked \in M!Rankings :
         queue' = queue \o M!Seeded("conflict", M!SetToSeq(M!Unchecked))
                        \o M!Seeded("maintenance", ranked)
  BY DEF M!Bootstrap
<1> DEFINE some == M!Seeded("conflict", M!SetToSeq(M!Unchecked))
           more == M!Seeded("maintenance", ranked)
<1>3. some \in Seq(KnownTask(notes)) /\ more \in Seq(KnownTask(notes))
  BY UncheckedFit, RankingsFit, SeededFits
<1>4. queue \in Seq(KnownTask(notes)) /\ M!AgendaTypeOK
  BY DEF UpkeepInv
<1>5. queue' = queue \o some \o more
  BY <1>2
<1> HIDE DEF some, more
<1>6. queue' \in Seq(KnownTask(notes))
  <2>1. queue \o some \in Seq(KnownTask(notes))
    BY <1>3, <1>4, ConcatProperties
  <2> QED
    BY <1>3, <1>5, <2>1, ConcatProperties
<1>7. DRAIN \in Nat
  BY UpkeepConstants
<1>8. /\ run' \in RunState /\ run'.task \in Seq(KnownTask(notes))
      /\ run'.pc = "asking" => run'.left > 0 /\ run'.task # << >>
  BY <1>1, <1>7, TaskDone
<1>9. M!AgendaTypeOK'
  BY <1>1, <1>4, AgendaKept
<1> QED
  BY <1>1, <1>6, <1>8, <1>9 DEF UpkeepInv

LEMMA LoadTyped ==
    ASSUME UpkeepInv, M!Load
    PROVE  UpkeepInv'
<1>1. /\ queue \in Seq(KnownTask(notes)) /\ M!AgendaTypeOK /\ run \in RunState
      /\ run.task \in Seq(KnownTask(notes))
  BY DEF UpkeepInv
<1>2. /\ run.pc = "draining" /\ run.left > 0 /\ (mode = "queue" => queue # << >>)
      /\ queue' = IF mode = "queue" THEN Tail(queue) ELSE queue
      /\ UNCHANGED <<goals, concerns, mode, notes, order, ran, trouble>>
  BY DEF M!Load, M!agendaVars
<1>3. PICK found \in IF mode = "queue" THEN {M!AtMost(queue, 1)} ELSE M!InlineTasks(run.left) :
          \/ run' = [run EXCEPT !.left = @ - 1]
          \/ found # << >> /\ run' = [run EXCEPT !.pc = "asking", !.task = found]
  BY Zenon DEF M!Load
<1>4. found \in Seq(KnownTask(notes))
  <2>1. M!AtMost(queue, 1) \in Seq(KnownTask(notes))
    BY <1>1, AtMostFits
  <2> QED
    BY <1>3, <2>1, InlineTasksFit
<1>5. queue' \in Seq(KnownTask(notes))
  <2>1. queue # << >> => Tail(queue) \in Seq(KnownTask(notes))
    BY <1>1, HeadTailProperties
  <2> QED
    BY <1>1, <1>2, <2>1
<1>6. /\ run' \in RunState /\ run'.task \in Seq(KnownTask(notes))
      /\ run'.pc = "asking" => run'.left > 0 /\ run'.task # << >>
  <2> DEFINE k == run.left - 1
  <2>1. run.left \in Nat /\ run.left > 0 /\ k \in Nat
    BY <1>1, <1>2 DEF RunState
  <2>2. CASE run' = [run EXCEPT !.left = k]
    <3> HIDE DEF k
    <3>1. run' \in RunState /\ run'.task = run.task /\ run'.pc = run.pc
      BY <1>1, <2>1, <2>2 DEF RunState
    <3> QED
      BY <1>1, <1>2, <3>1
  <2>3. CASE found # << >> /\ run' = [run EXCEPT !.pc = "asking", !.task = found]
    <3>1. found \in Seq(M!Task)
      <4>1. KnownTask(notes) \subseteq M!Task
        BY DEF KnownTask
      <4> QED
        BY <1>4, <4>1, SeqMonotonic
    <3>2. run' \in RunState /\ run'.task = found /\ run'.left = run.left
      BY <1>1, <2>3, <3>1 DEF RunState
    <3> QED
      BY <1>2, <1>4, <2>3, <3>2
  <2> QED
    BY <1>3, <2>2, <2>3
<1>7. M!AgendaTypeOK'
  BY <1>1, <1>2, AgendaKept
<1> QED
  BY <1>2, <1>5, <1>6, <1>7 DEF UpkeepInv

\* The tasks that come back when a call fails, or when the process ends.
LEMMA ReturnedTyped ==
    ASSUME UpkeepInv, M!Fails \/ M!Restart
    PROVE  UpkeepInv'
<1>1. /\ queue \in Seq(KnownTask(notes)) /\ run.task \in Seq(KnownTask(notes))
      /\ M!AgendaTypeOK /\ trouble \in 0..MaxUpkeepTrouble /\ MaxUpkeepTrouble \in Nat
  BY UpkeepConstants DEF UpkeepInv
<1>2. /\ queue' = queue \/ queue' = queue \o run.task \/ queue' = run.task \o queue
      /\ trouble < MaxUpkeepTrouble /\ trouble' = trouble + 1
      /\ UNCHANGED <<goals, concerns, mode, notes, order, ran>>
  BY DEF M!Fails, M!Restart, M!TroubleLeft, M!Trouble, M!agendaVars
<1>3. queue' \in Seq(KnownTask(notes))
  <2> DEFINE back == run.task
  <2>1. back \in Seq(KnownTask(notes)) /\ queue' \in {queue, queue \o back, back \o queue}
    BY <1>1, <1>2
  <2> HIDE DEF back
  <2> QED
    BY <1>1, <2>1, ConcatProperties
<1>4. /\ run' \in RunState /\ run'.task \in Seq(KnownTask(notes))
      /\ run'.pc = "asking" => run'.left > 0 /\ run'.task # << >>
  <2>1. CASE M!Fails
    <3> DEFINE k == run.left - 1
    <3>1. run' = [pc |-> "draining", left |-> k, task |-> << >>] /\ run.pc = "asking"
      BY <2>1 DEF M!Fails, M!Idle
    <3>2. k \in Nat
      BY <3>1, TaskFacts
    <3> HIDE DEF k
    <3> QED
      BY <3>1, <3>2, TaskDone
  <2>2. CASE M!Restart
    <3>1. run' = [pc |-> "idle", left |-> 0, task |-> << >>]
      BY <2>2 DEF M!Restart, M!Idle
    <3> QED
      BY <3>1, TaskDone
  <2> QED
    BY <2>1, <2>2
<1>5. M!AgendaTypeOK' /\ trouble' \in 0..MaxUpkeepTrouble
  BY <1>1, <1>2, AgendaKept
<1> QED
  BY <1>2, <1>3, <1>4, <1>5 DEF UpkeepInv

LEMMA MidnightTyped ==
    ASSUME UpkeepInv, M!Midnight
    PROVE  UpkeepInv'
<1> DEFINE age(n) == IF notes[n].age < M!OLD THEN notes[n].age + 1 ELSE notes[n].age
<1>1. /\ notes \in [Notes -> M!Note] /\ Listed(order, notes) /\ queue \in Seq(KnownTask(notes))
      /\ run \in RunState /\ run.task \in Seq(KnownTask(notes)) /\ M!AgendaTypeOK
      /\ M!OLD = 3
  BY UpkeepConstants DEF UpkeepInv
<1>2. /\ notes' = [n \in Notes |-> [notes[n] EXCEPT !.new = FALSE, !.age = age(n)]]
      /\ ran' = FALSE /\ UNCHANGED <<mode, order, queue, run, trouble>> /\ M!DayPasses
  BY DEF M!Midnight
<1>3. \A n \in Notes : notes[n] \in M!Note /\ age(n) \in 0..M!OLD
  BY <1>1 DEF M!Note
<1> HIDE DEF age
<1>4. \A n \in Notes : notes'[n] \in M!Note /\ notes'[n].state = notes[n].state
  <2>1. ASSUME NEW it \in M!Note, NEW a \in 0..M!OLD
        PROVE  LET new == [it EXCEPT !.new = FALSE, !.age = a]
               IN  new \in M!Note /\ new.state = it.state
    BY DEF M!Note
  <2> TAKE n \in Notes
  <2> DEFINE a == age(n)
             it == notes[n]
  <2>2. it \in M!Note /\ a \in 0..M!OLD /\ notes'[n] = [it EXCEPT !.new = FALSE, !.age = a]
    BY <1>2, <1>3
  <2> HIDE DEF a, it
  <2>3. notes'[n] \in M!Note /\ notes'[n].state = it.state
    BY <2>1, <2>2
  <2> QED
    BY <2>3 DEF it
<1>5. notes' \in [Notes -> M!Note]
  BY <1>2, <1>4
<1>6. Present(notes') = Present(notes)
  BY <1>4 DEF Present
<1>7. /\ Listed(order, notes') /\ queue \in Seq(KnownTask(notes'))
      /\ run.task \in Seq(KnownTask(notes'))
  BY <1>1, <1>6, ListedLike, StillKnown
<1>8. M!AgendaTypeOK'
  BY <1>1, <1>2, AgendaKept
<1> QED
  BY <1>1, <1>2, <1>5, <1>7, <1>8 DEF UpkeepInv

LEMMA UpkeepKept == UpkeepInv /\ [M!Next]_upkeepVars => UpkeepInv'
<1> SUFFICES ASSUME UpkeepInv, [M!Next]_upkeepVars PROVE UpkeepInv'
  OBVIOUS
<1>1. CASE UNCHANGED upkeepVars
  BY <1>1, AgendaKept DEF upkeepVars, UpkeepInv
<1>2. CASE M!Bootstrap
  BY <1>2, BootstrapTyped
<1>3. CASE M!StartInline
  <2>1. /\ run' = [pc |-> "draining", left |-> 2, task |-> << >>]
        /\ UNCHANGED <<goals, concerns, mode, notes, order, queue, ran, trouble>>
    BY <1>3 DEF M!StartInline, M!Idle, M!agendaVars
  <2>2. /\ run' \in RunState /\ run'.task \in Seq(KnownTask(notes))
        /\ run'.pc = "asking" => run'.left > 0 /\ run'.task # << >>
    BY <2>1, TaskDone
  <2>3. M!AgendaTypeOK'
    BY <2>1, AgendaKept DEF UpkeepInv
  <2> QED
    BY <2>1, <2>2, <2>3 DEF UpkeepInv
<1>4. CASE M!Load
  BY <1>4, LoadTyped
<1>5. CASE M!Fails \/ M!Restart
  BY <1>5, ReturnedTyped
<1>6. CASE M!Answered
  <2>1. PICK m \in Notes \cup {M!NoNote} :
          \/ \E verdict \in {"keep", "revise"} : M!Stay(verdict, m)
          \/ \E target \in Notes \cup {M!NoNote} : M!Merge(target, m)
          \/ \E heir \in Notes : M!Supersede(heir, m)
          \/ \E verdict \in {"clear", "conflict", "duplicate"}, target, named \in BOOLEAN :
                 M!CheckConflict(verdict, target, m, named)
    BY <1>6 DEF M!Answered
  <2>2. CASE \E verdict \in {"keep", "revise"} : M!Stay(verdict, m)
    BY <2>2, StayTyped
  <2>3. CASE \E target \in Notes \cup {M!NoNote} : M!Merge(target, m)
    BY <2>3, MergeTyped
  <2>4. CASE \E heir \in Notes : M!Supersede(heir, m)
    BY <2>4, SupersedeTyped
  <2>5. CASE \E verdict \in {"clear", "conflict", "duplicate"}, target, named \in BOOLEAN :
                 M!CheckConflict(verdict, target, m, named)
    BY <2>5, CheckConflictTyped
  <2> QED
    BY <2>1, <2>2, <2>3, <2>4, <2>5
<1>7. CASE M!Archive
  BY <1>7, ArchiveTyped
<1>8. CASE M!EndCycle
  <2>1. /\ run' = [pc |-> "idle", left |-> 0, task |-> << >>] /\ ran' = TRUE
        /\ UNCHANGED <<goals, concerns, mode, notes, order, queue, trouble>>
    BY <1>8 DEF M!EndCycle, M!Idle, M!agendaVars
  <2>2. /\ run' \in RunState /\ run'.task \in Seq(KnownTask(notes))
        /\ run'.pc = "asking" => run'.left > 0 /\ run'.task # << >>
    BY <2>1, TaskDone
  <2>3. M!AgendaTypeOK'
    BY <2>1, AgendaKept DEF UpkeepInv
  <2> QED
    BY <2>1, <2>2, <2>3 DEF UpkeepInv
<1>9. CASE M!Midnight
  BY <1>9, MidnightTyped
<1>10. CASE M!Goals
  <2>1. M!AgendaNext /\ UNCHANGED <<mode, notes, order, queue, run, ran, trouble>>
    BY <1>10 DEF M!Goals
  <2>2. M!AgendaTypeOK'
    BY <2>1, AgendaKept DEF UpkeepInv
  <2> QED
    BY <2>1, <2>2 DEF UpkeepInv
<1>11. ASSUME NEW n \in Notes, M!Edit(n) PROVE UpkeepInv'
  <2>1. /\ queue' = M!Outdated(n) /\ trouble < MaxUpkeepTrouble /\ trouble' = trouble + 1
        /\ UNCHANGED <<goals, concerns, mode, notes, order, run, ran>>
    BY <1>11 DEF M!Edit, M!TroubleLeft, M!Trouble, M!agendaVars
  <2>2. queue' \in Seq(KnownTask(notes))
    BY <2>1, OutdatedFits DEF UpkeepInv
  <2>3. M!AgendaTypeOK' /\ trouble' \in 0..MaxUpkeepTrouble
    BY <2>1, AgendaKept, UpkeepConstants DEF UpkeepInv
  <2> QED
    BY <2>1, <2>2, <2>3 DEF UpkeepInv
<1> QED
  BY <1>1, <1>2, <1>3, <1>4, <1>5, <1>6, <1>7, <1>8, <1>9, <1>10, <1>11 DEF M!Next, M!Cycle

LEMMA UpkeepStart == M!Init => UpkeepInv
<1> SUFFICES ASSUME M!Init PROVE UpkeepInv
  OBVIOUS
<1>1. PICK first \in SUBSET Notes, mentioned \in BOOLEAN :
        LET Weak(n) == IF mentioned THEN first \ {n} ELSE {} IN
        /\ notes = [n \in Notes |-> IF n \in first THEN [M!Created EXCEPT !.weak = Weak(n)]
                                                 ELSE M!Absent]
        /\ order = M!SetToSeq(first)
  BY DEF M!Init
<1>2. \A n \in Notes : /\ notes[n] \in M!Note
                       /\ notes[n].state = IF n \in first THEN "live" ELSE "absent"
  <2> TAKE n \in Notes
  <2> DEFINE weak == IF mentioned THEN first \ {n} ELSE {}
  <2>1. notes[n] = IF n \in first THEN [M!Created EXCEPT !.weak = weak] ELSE M!Absent
    BY <1>1
  <2>2. weak \in SUBSET Notes
    OBVIOUS
  <2> HIDE DEF weak
  <2> QED
    BY <2>1, <2>2, CreatedTyped
<1>3. notes \in [Notes -> M!Note] /\ Present(notes) = first
  <2>1. notes = [n \in Notes |-> notes[n]]
    BY <1>1
  <2>2. notes \in [Notes -> M!Note]
    BY <1>2, <2>1
  <2> QED
    BY <1>2, <2>2 DEF Present
<1>4. Listed(order, notes)
  <2>1. IsFiniteSet(first)
    BY UpkeepConstants, FS_Subset
  <2>2. order \in Seq(first) /\ NoRepeats(order) /\ Members(order) = first
    BY <1>1, <2>1, SetAsSequence
  <2>3. order \in Seq(Notes)
    BY <2>2, SeqMonotonic
  <2> QED
    BY <1>3, <2>2, <2>3 DEF Listed
<1>5. M!AgendaTypeOK
  <2>1. /\ goals = [g \in 1..GOALS |-> [active |-> FALSE, priority |-> 0, left |-> 0]]
        /\ concerns = << >>
    BY DEF M!Init, M!AgendaInit, M!Unset
  <2>2. 0 \in 0..HORIZON
    BY UpkeepConstants
  <2>3. goals \in [1..GOALS -> [active : BOOLEAN, priority : Priorities \cup {0}, left : 0..HORIZON]]
    BY <2>1, <2>2
  <2>4. DOMAIN concerns = {}
    BY <2>1
  <2> QED
    BY <2>3, <2>4 DEF M!AgendaTypeOK
<1>6. /\ mode \in Modes /\ queue = << >> /\ run = [pc |-> "idle", left |-> 0, task |-> << >>]
      /\ ran = FALSE /\ trouble = 0
  BY DEF M!Init, M!Idle
<1>7. << >> \in Seq(M!Task) /\ << >> \in Seq(KnownTask(notes))
  OBVIOUS
<1>8. run \in RunState /\ run.task = << >> /\ run.pc # "asking"
  BY <1>6, <1>7 DEF RunState
<1>9. mode \in {"queue", "inline"} /\ trouble \in 0..MaxUpkeepTrouble
  <2>1. Modes \subseteq {"queue", "inline"} /\ MaxUpkeepTrouble \in Nat
    BY UpkeepConstants
  <2>2. mode \in {"queue", "inline"}
    BY <1>6, <2>1
  <2> QED
    BY <1>6, <2>1, <2>2
<1> QED
  BY <1>3, <1>4, <1>5, <1>6, <1>7, <1>8, <1>9 DEF UpkeepInv

LEMMA UpkeepPromises == UpkeepInv => M!TypeOK
<1> SUFFICES ASSUME UpkeepInv PROVE M!TypeOK
  OBVIOUS
<1>1. M!ToSet(order) = Present(notes) /\ M!IsInjective(order)
  BY DEF UpkeepInv, Listed, Members, NoRepeats, M!ToSet, M!IsInjective
<1>2. queue \in Seq(M!Task)
  <2>1. KnownTask(notes) \subseteq M!Task
    BY DEF KnownTask
  <2> QED
    BY <2>1, SeqMonotonic DEF UpkeepInv
<1> QED
  BY <1>1, <1>2 DEF UpkeepInv, RunState, Present, M!TypeOK

\* The calls of an hour stay within the cap but for those that another cycle has in
\* flight, a note that was validated is left alone by all cycles but those that had chosen
\* it before, and every field of upkeep and curation keeps its type: the order of the notes
\* is theirs, each once, and no task is of a note that is not there
\* (sagwan_loop.py:_check_rate_limit, _curate_revalidate_published).
THEOREM CurationStaysThrifty == OperationsSpec => []CurationThrifty
<1>1. OperationsInit => UpkeepInv /\ CurationInv
  BY UpkeepStart, CurationStart DEF OperationsInit
<1>2. UpkeepInv /\ CurationInv /\ [OperationsNext]_operationsVars => (UpkeepInv /\ CurationInv)'
  <2> SUFFICES ASSUME UpkeepInv, CurationInv, [OperationsNext]_operationsVars
               PROVE  UpkeepInv' /\ CurationInv'
    OBVIOUS
  <2>1. [M!Next]_upkeepVars /\ [C!Next]_curationVars
    BY DEF OperationsNext, operationsVars
  <2> QED
    BY <2>1, UpkeepKept, CurationKept
<1>3. UpkeepInv /\ CurationInv => CurationThrifty
  BY UpkeepPromises, CurationPromises DEF CurationThrifty, OperationsTypeOK
<1> QED
  BY <1>1, <1>2, <1>3, PTL DEF OperationsSpec
=============================================================================
