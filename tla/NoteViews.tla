----------------------------- MODULE NoteViews -----------------------------
(***************************************************************************)
(* What is computed for a page from all notes of the vault: one note with  *)
(* what it links and what links it, the graph a viewer gets of them, and   *)
(* the result of a search, ranked by words, by vectors and by the trust    *)
(* that votes and reviews have earned.  Links name notes as files are      *)
(* named, and notes in two folders may have one name: the first has it as  *)
(* its slug, the others have their paths.                                  *)
(***************************************************************************)
EXTENDS Integers, Sequences, FiniteSets, SequencesExt

CONSTANTS
    Notes,      \* numbered, in the order of their paths
    Names,      \* of files
    Forms,      \* what a note may be
    Viewers,    \* users, with one of them, or none, as Admin
    Admin,
    RRF_K,      \* 60
    MaxVotes    \* bound: votes for and against a note

Statuses == {"unreviewed", "confirmed", "disputed", "superseded", "merged"}

ViewBounds ==
    /\ Notes \subseteq Nat /\ IsFiniteSet(Notes) /\ RRF_K \in Nat
    /\ MaxVotes \in 0..188   \* with more, a note's trust would be rounded to none
    /\ \A f \in Forms :
           /\ f.kind \in {"claim", "capsule"} /\ f.visibility \in {"public", "shared", "private"}
           /\ f.name \in Names /\ f.links \subseteq Names /\ f.review \subseteq Notes
           /\ f.place \in {"knowledge", "operations", "archived"} /\ f.trust \in Statuses

VARIABLES
    vault,      \* the notes there are
    votes,      \* votes for and against each
    graph,      \* the last graph that was shown, with the viewer and the options
    page,       \* the last note that was shown
    found       \* the last search: its two rankings and what it returned

vars == <<vault, votes, graph, page, found>>

NoGraph == [viewer |-> "nobody", orphans |-> TRUE, nodes |-> {}, restricted |-> {},
            edges |-> {}, degree |-> << >>]
NoPage == [viewer |-> "nobody", note |-> 0, linked |-> {}, backlinks |-> {}, reviews |-> {}]
NothingFound == [words |-> << >>, vectors |-> << >>, results |-> << >>]

----------------------------------------------------------------------------
(* Notes and references between them.                                      *)

\* _viewer_can_open_note
MayOpen(viewer, n) ==
    \/ vault[n].visibility = "public" \/ viewer = Admin
    \/ vault[n].visibility = "shared" /\ viewer # "nobody"
    \/ viewer # "nobody" /\ vault[n].owner = viewer

Named(name) == {n \in DOMAIN vault : vault[n].name = name}

\* Where a page finds a name: the last note that has it, of those the viewer may open.
OnPage(among, name) == {n \in among \cap Named(name) : \A m \in among \cap Named(name) : m <= n}

\* Where the graph finds it: the note that has it as its slug.
InGraph(all, name) == {n \in all \cap Named(name) : \A m \in Named(name) : n <= m}

Linked(among, n) == UNION {OnPage(among, name) : name \in vault[n].links}

----------------------------------------------------------------------------
(* get_closed_note_by_slug.                                                *)

Visible(viewer) == {n \in DOMAIN vault : MayOpen(viewer, n)}

\* Mutant of Refers: names are looked up in the whole vault.
RefersInVault(among, n, m) == n # m /\ m \in Linked(DOMAIN vault, n)

\* Whether the page of m names n as linking it.
Refers(among, n, m) == n # m /\ m \in Linked(among, n)

\* Reviews are claims that name this note by its path.
ShowNote(viewer, n) ==
    LET among == Visible(viewer)
    IN  /\ n \in among
        /\ page' = [viewer |-> viewer, note |-> n, linked |-> Linked(among, n),
                    backlinks |-> {m \in among : Refers(among, m, n)},
                    reviews |-> {m \in among : /\ vault[n].review = {} /\ vault[m].kind = "claim"
                                            /\ n \in vault[m].review}]
        /\ UNCHANGED <<vault, votes, graph, found>>

----------------------------------------------------------------------------
(* get_closed_graph.                                                       *)

\* Archived notes and the notes of operations are left out unless asked for.
Shown(archived, operations) ==
    {n \in DOMAIN vault : /\ vault[n].place = "archived" => archived
                          /\ vault[n].place = "operations" => operations}

\* An edge per ordered pair, whatever links and reviews there are between the two.
Edges(all, viewer) ==
    {e \in all \X all :
        LET n == e[1]
            m == e[2]
        IN  /\ n # m /\ MayOpen(viewer, n)
            /\ m \in UNION {InGraph(all, name) : name \in vault[n].links} \cup vault[n].review}

\* Mutant of Placeholders: what the viewer may not open is not shown at all.
PlaceholdersNone(edges, visible) == {}

\* A note the viewer may not open is a node without content if a note they may open links
\* it: links show it, and it has none of its own.
Placeholders(edges, visible) == {e[2] : e \in edges} \ visible

Graph(viewer, orphans, archived, operations) ==
    LET all == Shown(archived, operations)
        edges == Edges(all, viewer)
        visible == {n \in all : MayOpen(viewer, n)}
        restricted == Placeholders(edges, visible)
        degree == [n \in all |-> Cardinality({e \in edges : n \in {e[1], e[2]}})]
        nodes == {n \in visible \cup restricted : orphans \/ degree[n] > 0}
    IN  [viewer |-> viewer, orphans |-> orphans, nodes |-> nodes, restricted |-> restricted,
         edges |-> {e \in edges : {e[1], e[2]} \subseteq nodes},
         degree |-> [n \in nodes |-> degree[n]]]

ShowGraph(viewer, orphans, archived, operations) ==
    /\ graph' = Graph(viewer, orphans, archived, operations)
    /\ UNCHANGED <<vault, votes, page, found>>

----------------------------------------------------------------------------
(* search_closed_notes.                                                    *)

\* Notes of operations, reviews of other notes and replaced notes are no results; archived
\* ones are.
Searchable == {n \in DOMAIN vault : /\ vault[n].place # "operations" /\ ~vault[n].replaced
                                    /\ ~(vault[n].kind = "claim" /\ vault[n].review # {})}

\* _normalize_claim_review_status: what the note says, else what the votes say.
Standing(n) ==
    IF vault[n].trust # "unreviewed" THEN vault[n].trust
    ELSE IF votes[n].against > 0 THEN "disputed"
    ELSE IF vault[n].kind = "claim" /\ votes[n].for > 0 THEN "confirmed" ELSE "unreviewed"

Base == [unreviewed |-> 100, confirmed |-> 108, disputed |-> 74, superseded |-> 35, merged |-> 46]

\* _claim_trust_multiplier, in percent; a line stands for the logarithm of the votes.
Trust(n) ==
    LET boost == IF Standing(n) \in {"superseded", "merged"} THEN 100 ELSE 100 + 4 * votes[n].for
    IN  (Base[Standing(n)] * boost) \div (100 + 18 * votes[n].against)

\* Mutant of Fraction: places count from the end.
FractionFromLast(s, n) ==
    IF n \in ToSet(s) THEN <<1, RRF_K + 1 + Len(s) - (CHOOSE i \in DOMAIN s : s[i] = n)>> ELSE <<0, 1>>

\* What a ranking gives a note, 1/(k + place), as numerator and denominator.
Fraction(s, n) ==
    IF n \in ToSet(s) THEN <<1, RRF_K + (CHOOSE i \in DOMAIN s : s[i] = n)>> ELSE <<0, 1>>

Score(words, vectors, n) ==
    LET a == Fraction(words, n)
        b == Fraction(vectors, n)
    IN  <<(a[1] * b[2] + b[1] * a[2]) * Trust(n), a[2] * b[2]>>

Higher(x, y) == x[1] * y[2] > y[1] * x[2]

\* By score, then by title.
Before(words, vectors, a, b) ==
    LET x == Score(words, vectors, a)
        y == Score(words, vectors, b)
    IN  Higher(x, y) \/ (~Higher(y, x) /\ a < b)

\* The order of what either of them found: one sequence, as no two notes are equal in it.
RankedByTrust(words, vectors) ==
    {s \in SetToSeqs(ToSet(words) \cup ToSet(vectors)) :
        \A i, j \in DOMAIN s : i < j => Before(words, vectors, s[i], s[j])}

\* _claim_dedupe_key: two claims that say the same.
SaysTheSame(a, b) ==
    vault[a].kind = "claim" /\ vault[b].kind = "claim" /\ vault[a].text = vault[b].text

\* _dedupe_claim_search_results: of claims with one text the best stays.
ClaimsOnce(s) ==
    FoldLeft(LAMBDA kept, n :
                 IF \E c \in ToSet(kept) : SaysTheSame(n, c) THEN kept ELSE Append(kept, n),
             << >>, s)

\* Whatever the two indexes rank, of the notes that may be results.
Search(words, vectors) ==
    /\ ToSet(words) \cup ToSet(vectors) \subseteq Searchable
    /\ \E ranked \in RankedByTrust(words, vectors) :
           found' = [words |-> words, vectors |-> vectors, results |-> ClaimsOnce(ranked)]
    /\ UNCHANGED <<vault, votes, graph, page>>

----------------------------------------------------------------------------

\* Orders of a set of notes: what an index may return.
Rankings == UNION {SetToSeqs(S) : S \in SUBSET Notes}

Init ==
    /\ vault \in [Notes -> Forms]
    /\ votes \in [Notes -> [for : 0..MaxVotes, against : 0..MaxVotes]]
    /\ graph = NoGraph /\ page = NoPage
    /\ found = NothingFound

\* A page shows one of the three.
Next ==
    /\ graph = NoGraph /\ page = NoPage /\ found = NothingFound
    /\ \/ \E viewer \in Viewers \cup {"nobody"}, orphans, archived, operations \in BOOLEAN :
              ShowGraph(viewer, orphans, archived, operations)
       \/ \E viewer \in Viewers \cup {"nobody"}, n \in Notes : ShowNote(viewer, n)
       \/ \E words, vectors \in Rankings : Search(words, vectors)

Spec == Init /\ [][Next]_vars

----------------------------------------------------------------------------
(* Properties.                                                             *)

TypeOK ==
    /\ vault \in [Notes -> Forms]
    /\ graph.nodes \subseteq Notes /\ page.backlinks \subseteq Notes /\ graph.edges \subseteq graph.nodes \X graph.nodes
    /\ ToSet(found.results) \subseteq Notes

\* A node says of itself what the links of the same answer say, though they are counted
\* before nodes are left out; a link leads to a note its viewer may open, or to a
\* placeholder, and from a note they may open (site.py:get_closed_graph).
GraphWhole ==
    LET visible == Visible(graph.viewer)
    IN  /\ \A n \in graph.nodes : graph.degree[n] = Cardinality({e \in graph.edges : n \in {e[1], e[2]}})
        /\ \A e \in graph.edges : e[1] \in visible /\ e[2] \in visible \cup graph.restricted

\* A note is named as linking this one if and only if its own page, shown to the same
\* viewer, links this one: also where two notes have one name and the viewer may open one
\* of them (site.py:_note_payload).
PageAgrees ==
    page # NoPage =>
        page.backlinks = {n \in Visible(page.viewer) \ {page.note} :
            \E name \in vault[n].links : page.note \in OnPage(Visible(page.viewer), name)}

\* Does not hold: of two notes with one name a page links the last, the graph the first.
GraphFollowsPages ==
    graph # NoGraph => \A e \in graph.edges :
        {e[1], e[2]} \subseteq Visible(graph.viewer) /\ e[2] \notin vault[e[1]].review
        => e[2] \in Linked(Visible(graph.viewer), e[1])

\* Where words and vectors agree that one note is better than another, and it is trusted
\* no less, it comes first; and a claim that is left out because another says the same has
\* that other before it (site.py:search_closed_notes, _dedupe_claim_search_results).
TrustOrders ==
    LET place(s, n) == IF n \in ToSet(s) THEN CHOOSE i \in DOMAIN s : s[i] = n ELSE Len(s) + 1
        ahead(s, a, b) == place(s, a) < place(s, b)
    IN  \A a, b \in ToSet(found.words) \cup ToSet(found.vectors) :
            ahead(found.words, a, b) /\ ahead(found.vectors, a, b) /\ Trust(a) >= Trust(b)
            => \/ ahead(found.results, a, b)
               \/ \E c \in ToSet(found.results) : SaysTheSame(a, c) /\ ~ahead(found.results, b, c)

=============================================================================
