---------------------------- MODULE PublicMemory ----------------------------
(***************************************************************************)
(* The public memory store: claims and capsules in a database, each with   *)
(* the vector of what it said when it was last embedded, and the queries   *)
(* that rank them by words, by vectors or by both.  Every request is one   *)
(* transaction.  A text stands for the row's words after normalisation and *)
(* for its vector; the embedding service may be down at any request.       *)
(***************************************************************************)
EXTENDS Integers, Sequences, FiniteSets, SequencesExt

CONSTANTS
    Claims, Capsules,   \* rows there may be, numbered in the order of their creation
    Texts,
    Akin,               \* pairs of texts that resemble each other
    Links,              \* pairs of claims linked by the seed
    NewClaims,          \* what clients create: texts with a status and a kind
    NewCapsules,        \* the same of capsules: title, points, cited claims, kind
    TOP,                \* top_k of the queries
    RRF_K, ABSENT,      \* of the fusion: 60, and 10000 for a row a list lacks
    MaxWrites           \* bound: writes of a behaviour

None == "none"
Statuses == {"accepted", "rejected"}

MemoryBounds ==
    /\ Claims \subseteq Nat /\ Capsules \subseteq Nat /\ Links \subseteq Claims \X Claims
    /\ NewClaims \subseteq [text : Texts, status : Statuses, kind : {"plain", "full", "request"}]
    /\ NewCapsules \subseteq [title : Texts, points : Texts, sources : SUBSET Claims,
                               kind : {"plain", "request", "superseded"}]
    /\ {TOP, RRF_K} \subseteq Nat \ {0} /\ ABSENT > RRF_K /\ MaxWrites \in Nat

VARIABLES
    mode,       \* retrieval_mode: "embedding" or "hybrid"
    claims,     \* rows of the table claims
    capsules,   \* rows of the table capsules
    writes,     \* number of writes so far: the time of the last one
    answer      \* what the last query returned, until the next write

vars == <<mode, claims, capsules, writes, answer>>

NoAnswer == [query |-> None, statuses |-> {}, words |-> << >>, vectors |-> << >>,
             claims |-> << >>, capsules |-> << >>, related |-> {}]

\* embed_one: no vector when the service does not answer.
Embedded(text, up) == IF up THEN text ELSE None

\* A capsule is embedded by its title with its first points.
Blob(k) == <<k.title, k.points>>

Written ==
    /\ writes < MaxWrites
    /\ writes' = writes + 1
    /\ answer' = NoAnswer
    /\ UNCHANGED mode

----------------------------------------------------------------------------
(* Writes.                                                                 *)

\* Mentions are taken from the text, here: the text itself.
CreateClaim(c, form, up) ==
    /\ c \notin DOMAIN claims /\ \A d \in Claims : d < c => d \in DOMAIN claims
    /\ Written
    /\ claims' = [d \in DOMAIN claims \cup {c} |->
           IF d \in DOMAIN claims THEN claims[d]
           ELSE [text |-> form.text, mention |-> form.text, vector |-> Embedded(form.text, up),
                 status |-> form.status, kind |-> form.kind, updated |-> writes']]
    /\ UNCHANGED capsules

\* A changed text keeps its old vector and its old mentions.
UpdateClaim(c, text) ==
    /\ c \in DOMAIN claims
    /\ Written
    /\ claims' = [claims EXCEPT ![c].text = text, ![c].updated = writes']
    /\ UNCHANGED capsules

UpdateClaimStatus(c, status) ==
    /\ c \in DOMAIN claims
    /\ Written
    /\ claims' = [claims EXCEPT ![c].status = status, ![c].updated = writes']
    /\ UNCHANGED capsules

\* Claims are given by identifiers that were handed out.
CreateCapsule(k, form, up) ==
    /\ form.sources \subseteq DOMAIN claims
    /\ k \notin DOMAIN capsules /\ \A l \in Capsules : l < k => l \in DOMAIN capsules
    /\ Written
    /\ capsules' = [l \in DOMAIN capsules \cup {k} |->
           IF l \in DOMAIN capsules THEN capsules[l]
           ELSE [title |-> form.title, points |-> form.points, sources |-> form.sources,
                 kind |-> form.kind, vector |-> Embedded(Blob(form), up), updated |-> writes']]
    /\ UNCHANGED claims

\* Mutant of Indexed: only a new title is indexed again.
IndexedByTitle(field) == field = "title"

\* What is embedded, and so embedded again when a patch names it.
Indexed(field) == field \in {"title", "points"}

UpdateCapsule(k, field, value, up) ==
    LET row == [capsules[k] EXCEPT ![field] = value, !.updated = writes']
    IN  /\ k \in DOMAIN capsules
        /\ Written
        /\ capsules' = [capsules EXCEPT ![k] =
               IF Indexed(field) THEN [row EXCEPT !.vector = Embedded(Blob(row), up)] ELSE row]
        /\ UNCHANGED claims

DeleteCapsule(k) ==
    /\ k \in DOMAIN capsules
    /\ Written
    /\ capsules' = [l \in DOMAIN capsules \ {k} |-> capsules[l]]
    /\ UNCHANGED claims

----------------------------------------------------------------------------
(* Ranking.                                                                *)

Closeness(a, b) == IF a = b THEN 4 ELSE IF {a, b} \in Akin THEN 2 ELSE 0

Upto(s, limit) == SubSeq(s, 1, IF limit < Len(s) THEN limit ELSE Len(s))

\* The rows with the highest scores, best first; the database may return equals in any
\* order, of which two are tried.
Ranked(S, score, newest, limit) ==
    LET before(a, b) == \/ score[a] > score[b]
                        \/ score[a] = score[b] /\ (IF newest THEN a > b ELSE a < b)
        all == SetToSortSeq(S, before)
    IN  Upto(all, limit)

Place(s, x) == CHOOSE i \in DOMAIN s : s[i] = x

\* Mutant of Rank: what a list lacks ranks first in it.
RankMissingFirst(s, x) == IF x \in ToSet(s) THEN Place(s, x) - 1 ELSE 0

\* The place of a row in a list, from 0.
Rank(s, x) == IF x \in ToSet(s) THEN Place(s, x) - 1 ELSE ABSENT

\* _rrf_merge: 1/(k + rank) in each list, summed.
Fused(words, vectors, limit) ==
    LET p(x) == RRF_K + Rank(words, x)
        q(x) == RRF_K + Rank(vectors, x)
        above(a, b) == LET l == (p(a) + q(a)) * p(b) * q(b)
                           r == (p(b) + q(b)) * p(a) * q(a)
                       IN  \/ l > r
                           \* equals: the rows of the first list first, each in order
                           \/ /\ l = r
                              /\ \/ Rank(words, a) < Rank(words, b)
                                 \/ /\ Rank(words, a) = Rank(words, b)
                                    /\ Rank(vectors, a) < Rank(vectors, b)
        all == SetToSortSeq(ToSet(words) \cup ToSet(vectors), above)
    IN  Upto(all, limit)

\* Mutant of Eligible: publication requests are looked for too.
EligibleWithRequests(statuses) == {c \in DOMAIN claims : claims[c].status \in statuses}

\* Claims a query may find: of the asked status, and no publication request.
Eligible(statuses) ==
    {c \in DOMAIN claims : claims[c].status \in statuses /\ claims[c].kind # "request"}

Cosine(query) ==
    [c \in {d \in DOMAIN claims : claims[d].vector # None} |-> Closeness(query, claims[c].vector)]

\* Words of the text count most, then a mention.
WordScore(query) ==
    [c \in DOMAIN claims |-> 2 * Closeness(query, claims[c].text)
                                 + (IF claims[c].mention = query THEN 1 ELSE 0)]

ClaimsByVector(query, statuses, newest) ==
    Ranked(Eligible(statuses) \cap DOMAIN Cosine(query), Cosine(query), newest, 3 * TOP)

ClaimsByWords(query, statuses) ==
    Ranked({c \in Eligible(statuses) : WordScore(query)[c] > 0},
           [c \in DOMAIN claims |-> WordScore(query)[c] * (MaxWrites + 1) + claims[c].updated],
           TRUE, 3 * TOP)

\* _expand_related_claims: what the first are linked with.
Related(first, statuses) ==
    {c \in Eligible(statuses) \ ToSet(first) :
        \E d \in ToSet(first) : <<c, d>> \in Links \/ <<d, c>> \in Links}

\* Mutant of OncePerText: copies of a text stay.
OncePerTextNot(s, score) == s

\* _dedupe_claim_rows: of the rows with one text the one of the best score stays, then of
\* the fullest metadata, then the last updated, at its own place.
OncePerText(s, score) ==
    LET worth(c) == <<score[c], IF claims[c].kind = "full" THEN 1 ELSE 0, claims[c].updated>>
        better(a, b) == \E i \in 1..3 : /\ worth(a)[i] > worth(b)[i]
                                        /\ \A j \in 1..(i - 1) : worth(a)[j] = worth(b)[j]
        kept(c) == \A d \in ToSet(s) : claims[d].text = claims[c].text =>
                       ~better(d, c) /\ (better(c, d) \/ Rank(s, c) <= Rank(s, d))
    IN  SelectSeq(s, kept)

\* The claims of an answer.  The fused order only selects: the score orders again.
AnswerClaims(query, statuses, byVector, words, vectors) ==
    LET first == IF byVector THEN Upto(vectors, TOP)
                 ELSE Fused(words, vectors, 2 * TOP)
        linked == Related(Upto(first, TOP), statuses)
        score == [c \in ToSet(first) \cup linked |->
                     IF c \notin ToSet(first) THEN 1
                     ELSE IF ~byVector /\ c \in ToSet(words) THEN WordScore(query)[c]
                     ELSE Cosine(query)[c]]
        merged == Ranked(DOMAIN score, score, TRUE, 3 * TOP)
        once == OncePerText(merged, score)
    IN  Upto(once, TOP)

Findable(k) == capsules[k].kind \notin {"request", "superseded"}

CapsuleCloseness(text, vector) ==
    2 * Closeness(text, vector[1]) + Closeness(text, vector[2])

Vectored == {k \in DOMAIN capsules : capsules[k].vector # None}

CapsulesByVector(query, newest) ==
    Ranked({k \in Vectored : Findable(k)},
           [k \in Vectored |-> CapsuleCloseness(query, capsules[k].vector)], newest, 2 * TOP)

\* By the title, or because it cites a claim that was found.
CapsulesByWords(query, found) ==
    LET score == [k \in DOMAIN capsules |->
                     2 * Closeness(query, capsules[k].title)
                     + (IF capsules[k].sources \cap found # {} THEN 3 ELSE 0)]
    IN  Ranked({k \in DOMAIN capsules : Findable(k) /\ score[k] > 0},
               [k \in DOMAIN capsules |-> score[k] * (MaxWrites + 1) + capsules[k].updated],
               TRUE, TOP)

\* _attach_related_capsules: others near a capsule of the answer; also superseded ones.
RelatedCapsules(shown) ==
    {k \in Vectored \ ToSet(shown) :
        /\ capsules[k].kind # "request"
        /\ \E l \in ToSet(shown) \cap Vectored :
               CapsuleCloseness(capsules[l].vector[1], capsules[k].vector) > 4}

----------------------------------------------------------------------------
(* query_memory, the only reader.                                          *)

Query(query, statuses, up, newest) ==
    LET byVector == mode = "embedding" /\ up
        vectors == IF up THEN ClaimsByVector(query, statuses, newest) ELSE << >>
        words == IF byVector THEN << >> ELSE ClaimsByWords(query, statuses)
        found == AnswerClaims(query, statuses, byVector, words, vectors)
        close == IF up THEN CapsulesByVector(query, newest) ELSE << >>
        worded == IF byVector THEN << >> ELSE CapsulesByWords(query, ToSet(found))
        shown == IF byVector THEN Upto(close, TOP)
                 ELSE Fused(worded, close, TOP)
    IN  /\ answer = NoAnswer           \* bound: one query between two writes
        /\ answer' = [query |-> query, statuses |-> statuses, words |-> worded,
                      vectors |-> close, claims |-> found, capsules |-> shown,
                      related |-> RelatedCapsules(shown)]
        /\ UNCHANGED <<mode, claims, capsules, writes>>

Init ==
    /\ mode \in {"embedding", "hybrid"}
    /\ claims = << >> /\ capsules = << >>
    /\ writes = 0
    /\ answer = NoAnswer

Next ==
    \/ \E c \in Claims, up \in BOOLEAN :
           \/ \E form \in NewClaims : CreateClaim(c, form, up)
           \/ \E text \in Texts : UpdateClaim(c, text)
           \/ \E status \in Statuses : UpdateClaimStatus(c, status)
    \/ \E k \in Capsules, up \in BOOLEAN :
           \/ \E form \in NewCapsules : CreateCapsule(k, form, up)
           \/ \E field \in {"title", "points"}, text \in Texts : UpdateCapsule(k, field, text, up)
           \/ \E form \in NewCapsules : /\ form.sources \subseteq DOMAIN claims
                                         /\ UpdateCapsule(k, "sources", form.sources, up)
           \/ UpdateCapsule(k, "kind", "superseded", up)
           \/ DeleteCapsule(k)
    \/ \E query \in Texts, statuses \in {{"accepted"}, Statuses}, up, newest \in BOOLEAN :
           Query(query, statuses, up, newest)

Spec == Init /\ [][Next]_vars

----------------------------------------------------------------------------
(* Properties.                                                             *)

TypeOK ==
    /\ mode \in {"embedding", "hybrid"}
    /\ DOMAIN claims \subseteq Claims /\ DOMAIN capsules \subseteq Capsules
    /\ \A c \in DOMAIN claims : claims[c] \in
           [text : Texts, mention : Texts, vector : Texts \cup {None}, status : Statuses,
            kind : {"plain", "full", "request"}, updated : 1..MaxWrites]
    /\ \A k \in DOMAIN capsules :
           /\ Blob(capsules[k]) \in Texts \X Texts
           /\ capsules[k].sources \subseteq Claims
           /\ capsules[k].kind \in {"plain", "request", "superseded"}
    /\ writes \in 0..MaxWrites

\* Whatever patches a capsule goes through, in whatever order, and however often the
\* embedding service is down: a vector it is found by is of what it says now
\* (main.py:update_capsule, create_capsule).
CapsuleIndexFresh ==
    \A k \in Vectored : capsules[k].vector = Blob(capsules[k])

\* The same of claims does not hold: update_claim changes the text and keeps the vector.
ClaimIndexFresh ==
    \A c \in DOMAIN claims : claims[c].vector \in {None, claims[c].text}

\* However a claim came into an answer, by words, by its vector or by a link, it has the
\* asked status and is no publication request, and no other claim of the answer says the
\* same; no capsule is superseded, and what is shown as related is not shown already
\* (retrieval.py:query_memory).
AnswersClean ==
    /\ \A i \in DOMAIN answer.claims : LET c == answer.claims[i] IN
           /\ claims[c].status \in answer.statuses /\ claims[c].kind # "request"
           /\ \A j \in DOMAIN answer.claims :
                  claims[answer.claims[j]].text = claims[c].text => i = j
    /\ \A i \in DOMAIN answer.capsules : Findable(answer.capsules[i])
    /\ answer.related \cap ToSet(answer.capsules) = {}

\* The fusion of the two rankings contradicts neither where they agree: a capsule that
\* precedes another in both, or in one while the other list has neither, is not left out
\* or ranked after it (retrieval.py:_rrf_merge).
FusionAgrees ==
    LET ahead(s, a, b) == a \in ToSet(s) /\ (b \in ToSet(s) => Place(s, a) < Place(s, b))
        neither(s, a, b) == a \notin ToSet(s) /\ b \notin ToSet(s)
        no(s, a, b) == ahead(s, a, b) \/ neither(s, a, b)
    IN  \A b \in ToSet(answer.capsules) :
        \A a \in ToSet(answer.words) \cup ToSet(answer.vectors) :
            /\ a # b
            /\ no(answer.words, a, b) /\ no(answer.vectors, a, b)
            => ahead(answer.capsules, a, b)

\* Does not hold, in either mode: while the embedding service answers, a claim that was
\* created when it did not is found by no vector, and nothing embeds it later.
NamedClaimFound ==
    answer.query # None =>
        \A c \in Eligible(answer.statuses) : claims[c].text = answer.query =>
            \E i \in DOMAIN answer.claims : claims[answer.claims[i]].text = answer.query

\* Does not hold in mode "embedding": the answer is cut to its length before copies of a
\* text are taken out, so copies crowd other claims out.
AnswerFull ==
    answer.query # None => Len(answer.claims) >=
        LET texts == {claims[c].text : c \in {d \in Eligible(answer.statuses) : claims[d].vector # None}}
        IN  IF Cardinality(texts) < TOP THEN Cardinality(texts) ELSE TOP
=============================================================================
