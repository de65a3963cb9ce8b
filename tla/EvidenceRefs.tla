---------------------------- MODULE EvidenceRefs ----------------------------
(***************************************************************************)
(* References to exact spans of approved sources.  A host searches the     *)
(* index or registers what an agent has read, holds the packets the agent  *)
(* was shown, and turns the references the agent selects into citations.   *)
(* An operator builds the index anew meanwhile, one snapshot for another.  *)
(* Spans are half open; a body is its paragraphs, its frames (functions,   *)
(* or fenced code in Markdown) and, for Markdown, its sections.            *)
(***************************************************************************)
EXTENDS Integers, Sequences, FiniteSets, FiniteSetsExt, SequencesExt

CONSTANTS
    Bodies,     \* records: url, sha, paragraphs (in order), frames, sections
    Clauses,    \* a query's questions in order, the scenario last
    ROWS,       \* candidates of a packet, 12 in the code
    PER_CLAUSE, \* candidates of a question, 3 in the code; the scenario has one
    BUDGET,     \* of a packet: a unit for each character and each source
    MaxPackets, \* bound: packets a host holds
    MaxCited,   \* bound: references selected at once, 12 for a question in the code
    MaxBuilds   \* bound: snapshots built

EvidenceBounds ==
    /\ {ROWS, PER_CLAUSE, BUDGET, MaxPackets, MaxCited, MaxBuilds} \subseteq Nat
    /\ Len(Clauses) <= ROWS

VARIABLES
    index,      \* the bodies of the present snapshot, none if it is absent
    packets,    \* what the host holds: the packets its agent was shown, each with its items,
                \* the window it was read from and the clauses that have no candidate
    cited,      \* the citations last rendered, and the snapshot they were rendered from
    builds      \* how much of the bound is used

vars == <<index, packets, cited, builds>>

\* A snapshot has at most one body for each URL.
Snapshots == {s \in SUBSET Bodies : \A a, b \in s : a.url = b.url => a = b}

Overlap(s, t) == s[1] < t[2] /\ t[1] < s[2]
Cuts(span, frame) == Overlap(span, frame) /\ (frame[1] < span[1] \/ span[2] < frame[2])
Hull(spans) == <<Min({s[1] : s \in spans}), Max({s[2] : s \in spans})>>

\* _safe_span: wider until no frame is cut.
SafeSpan(span, frames) ==
    FoldSet(LAMBDA i, s : Hull({s} \cup {f \in frames : Cuts(s, f)}), span,
            1..Cardinality(frames))

\* source_units: what is searched.
Units(body) == {SafeSpan(body.paragraphs[i], body.frames) : i \in DOMAIN body.paragraphs}
AllUnits == UNION {{[body |-> b, span |-> u] : u \in Units(b)} : b \in index}

----------------------------------------------------------------------------
(* A packet of a search.                                                   *)

\* The units a clause matches in their order, which the ranks decide; any order may be.
Groups ==
    LET Ranked(n) == {g \in UNION {[1..m -> AllUnits] : m \in 0..n} :
                          \A i, j \in DOMAIN g : g[i] = g[j] => i = j}
    IN  {g \in [DOMAIN Clauses -> Ranked(PER_CLAUSE)] :
             \A i \in DOMAIN g : Clauses[i] = "scenario" => Len(g[i]) <= 1}

\* Mutant of InTurn: the units of a clause are taken before those of the next.
InTurnByClause(groups) == FlattenSeq(groups)

\* The first of each clause, then the second of each, and so on.
InTurn(groups) ==
    FlattenSeq([depth \in 1..PER_CLAUSE |->
        FlattenSeq([i \in DOMAIN groups |->
            IF depth \in DOMAIN groups[i] THEN <<groups[i][depth]>> ELSE <<>>])])

Candidates(groups) ==
    LET once == FoldLeft(LAMBDA seen, u : IF Contains(seen, u) THEN seen ELSE Append(seen, u),
                         <<>>, InTurn(groups))
        rows == SubSeq(once, 1, Min({ROWS, Len(once)}))
    IN  [k \in DOMAIN rows |-> [body |-> rows[k].body, span |-> rows[k].span,
            questions |-> {Clauses[i] : i \in {j \in DOMAIN groups : Contains(groups[j], rows[k])}}]]

Cost(items) ==
    MapThenSumSet(LAMBDA i : i.span[2] - i.span[1], items) + Cardinality({i.body : i \in items})

\* Mutant of Near: spans that touch are left apart.
NearIfOverlapping(item, body, span) == item.body = body /\ Overlap(item.span, span)

Near(item, body, span) ==
    item.body = body /\ item.span[1] <= span[2] /\ span[1] <= item.span[2]

\* _put_span: one span with all it meets, or nothing if that exceeds the budget.
Put(items, body, span) ==
    LET near == {i \in items : Near(i, body, span)}
        item == [body |-> body, span |-> Hull({span} \cup {i.span : i \in near}), whole |-> TRUE]
        next == (items \ near) \cup {item}
    IN  IF Cost(next) > BUDGET THEN items ELSE next

Holds(items, body, span) ==
    \E i \in items : i.body = body /\ i.span[1] <= span[1] /\ span[2] <= i.span[2]

\* The candidates in turn, each whole.
Seeded(rows) ==
    FoldLeft(LAMBDA items, r : Put(items, r.body, r.span), {}, rows)

\* Paragraphs before and after a seed, in the three windows that are tried in this order;
\* no other section of Markdown, and no function that the seed is not of.
Windows(body, span) ==
    LET ps == body.paragraphs
        first == Min({i \in DOMAIN ps : ps[i][2] > span[1]})
        last == Max({i \in DOMAIN ps : ps[i][1] < span[2]})
        before == Max({1, first - 1})
        after == Min({Len(ps), last + 1})
        section == {s \in body.sections : s[1] <= span[1] /\ span[1] < s[2]}
        Clipped(w) == IF section = {} THEN w
                      ELSE LET s == CHOOSE s \in section : TRUE
                           IN  <<Max({w[1], s[1]}), Min({w[2], s[2]})>>
        Window(i, j) == Clipped(Hull({span, ps[i], ps[j]}))
        MayBe(w) == \/ body.sections # {}
                    \/ \A f \in body.frames : Overlap(f, w) => Overlap(f, span)
    IN  SelectSeq(<<Window(before, after), Window(first, after), Window(before, last)>>, MayBe)

Context(items, body, span) ==
    IF \E f \in body.frames : Overlap(f, span) THEN items
    ELSE LET Grown(w) == Put(items, body, SafeSpan(w, body.frames))
             fitting == SelectSeq(Windows(body, span), LAMBDA w : Grown(w) # items \/
                            Holds(items, body, SafeSpan(w, body.frames)))
         IN  IF fitting = <<>> THEN items ELSE Grown(Head(fitting))

\* Only a candidate that was put is a seed.
Packed(rows) ==
    LET seeded == Seeded(rows)
        seeds == SelectSeq(rows, LAMBDA r : Holds(seeded, r.body, r.span))
    IN  FoldLeft(LAMBDA items, r : Context(items, r.body, r.span), seeded, seeds)

\* Of the clauses that match anything, those without a candidate.
Unanswered(groups, rows) ==
    {Clauses[i] : i \in {j \in DOMAIN groups : groups[j] # <<>>}}
        \ UNION {rows[k].questions : k \in DOMAIN rows}

\* Without an index the packet is empty.
Search(groups) ==
    LET rows == Candidates(groups)
    IN  /\ Cardinality(packets) < MaxPackets
        /\ packets' = packets \cup {[window |-> <<0, 0>>, items |-> Packed(rows),
                                     unanswered |-> Unanswered(groups, rows)]}
        /\ UNCHANGED <<index, cited, builds>>

----------------------------------------------------------------------------
(* register_read: what an agent has read, and no more, in ranges.          *)

\* Mutant of Clip: a frame that reaches out of the window is shown whole.
ClipNot(span, window) == span

Clip(span, window) == <<Max({span[1], window[1]}), Min({span[2], window[2]})>>

Ranges(body, window) ==
    LET seen == SelectSeq(body.paragraphs, LAMBDA p : Overlap(p, window))
        Safe(p) == SafeSpan(<<Max({p[1], window[1]}), Min({p[2], window[2]})>>, body.frames)
        RangeOf(p) == [body |-> body, span |-> Clip(Safe(p), window),
                     whole |-> window[1] <= Safe(p)[1] /\ Safe(p)[2] <= window[2]]
        Joined(ranges, r) ==
            IF ranges # <<>> /\ r.span[1] <= Last(ranges).span[2]
            THEN Append(Front(ranges),
                        [r EXCEPT !.span = <<Last(ranges).span[1], Max({r.span[2], Last(ranges).span[2]})>>,
                                  !.whole = @ /\ Last(ranges).whole])
            ELSE Append(ranges, r)
    IN  IF seen = <<>>
        THEN {[body |-> body, span |-> window, whole |-> FALSE]}
        ELSE ToSet(FoldLeft(LAMBDA ranges, p : Joined(ranges, RangeOf(p)), <<>>, seen))

RegisterRead(body, window) ==
    /\ body \in index
    /\ Cardinality(packets) < MaxPackets
    /\ packets' = packets \cup {[window |-> window, items |-> Ranges(body, window),
                                 unanswered |-> {}]}
    /\ UNCHANGED <<index, cited, builds>>

----------------------------------------------------------------------------
(* render_citations: only what was shown, from a snapshot that still has   *)
(* the source of every packet as it was; nothing at all otherwise.         *)

\* Mutant of Approved: a source is known by its URL.
ApprovedUrl(body) == \E b \in index : b.url = body.url

Approved(body) == body \in index

Shown == UNION {p.items : p \in packets}

Render(selection) ==
    /\ index # {} /\ packets # {}
    /\ \A i \in Shown : Approved(i.body)
    /\ selection \subseteq Shown /\ Cardinality(selection) <= MaxCited
    /\ cited' = [items |-> {[body |-> i.body, span |-> i.span] : i \in selection},
                 index |-> index]
    /\ UNCHANGED <<index, packets, builds>>

----------------------------------------------------------------------------

\* build_reference_index: written beside the present one and moved over it.
Build(snapshot) ==
    /\ builds < MaxBuilds
    /\ builds' = builds + 1
    /\ index' = snapshot
    /\ UNCHANGED <<packets, cited>>

Init ==
    /\ index \in Snapshots /\ packets = {} /\ builds = 0
    /\ cited = [items |-> {}, index |-> {}]

Next ==
    \/ \E groups \in Groups : Search(groups)
    \/ \E body \in index : \E last \in 1..Last(body.paragraphs)[2] :
           \E first \in 0..last - 1 : RegisterRead(body, <<first, last>>)
    \/ \E selection \in SUBSET Shown : Render(selection)
    \/ \E snapshot \in Snapshots : Build(snapshot)

Spec == Init /\ [][Next]_vars

----------------------------------------------------------------------------
(* Properties.                                                             *)

TypeOK ==
    /\ index \in Snapshots /\ cited.index \in Snapshots
    /\ \A i \in Shown : i.body \in Bodies /\ i.span \in Nat \X Nat
    /\ builds \in 0..MaxBuilds

\* However spans merge and grow, those of one source in one packet stay apart, a packet of a
\* search stays within its budget and cuts no function, and a range of a read that is called
\* whole cuts none either (research_evidence_refs.py:_put_span, reference_packet,
\* register_read).
SpansSound ==
    \A p \in packets :
        /\ \A i, j \in p.items : i # j /\ i.body = j.body =>
               i.span[2] < j.span[1] \/ j.span[2] < i.span[1]
        /\ p.window = <<0, 0>> => Cost(p.items) <= BUDGET
        /\ \A i \in p.items : i.whole => \A f \in i.body.frames : ~Cuts(i.span, f)

\* Every clause that matches anything has a candidate that answers to it, whatever the
\* others match (research_evidence_refs.py:_candidates).
ClausesRepresented == \A p \in packets : p.unanswered = {}

\* A citation is of bytes that are approved in the snapshot it was rendered from, and lies
\* inside what a search packed or an agent has read, also after snapshots were exchanged
\* (research_evidence_refs.py:register_read, render_citations).
CitationsSound ==
    \A i \in cited.items :
        /\ i.body \in cited.index
        /\ \E p \in packets :
               /\ \E j \in p.items : j.body = i.body /\ j.span = i.span
               /\ p.window # <<0, 0>> => p.window[1] <= i.span[1] /\ i.span[2] <= p.window[2]
=============================================================================
