------------------------------- MODULE Reviews -------------------------------
(***************************************************************************)
(* What others say about one published note: one-click confirmations and   *)
(* disputes kept in its frontmatter, reviews that are notes of their own,  *)
(* the counts derived from both, and the stage that merges the reviews     *)
(* into a verdict.  Nobody holds a lock from the load of the note to its   *)
(* write, and confirmations, disputes and the conflict task put the whole  *)
(* frontmatter back.                                                       *)
(***************************************************************************)
EXTENDS Naturals, FiniteSets, Sequences, SequencesExt

CONSTANTS
    Callers,     \* agents whose tool calls run at once
    MIN,         \* active reviews that make a note worth consolidating, 3 in the code
    MaxReviews,  \* bound: reviews ever written
    MaxCalls    \* bound: consolidations and conflict checks

\* What an instance assumes of the constants.
Bounds == {MIN, MaxReviews, MaxCalls} \subseteq Nat \ {0}

VARIABLES
    note,      \* the frontmatter: votes, counts, trust and revision of the note
    reviews,   \* the reviews of the note, in the order they were written
    jobs,      \* what everybody holds
    voices,    \* callers whose vote was ever written
    calls      \* how much of MaxCalls is used

vars == <<note, reviews, jobs, voices, calls>>

Owner == "owner"
Sagwan == "sagwan"
Lists == {"confirmed", "disputed"}
Stances == {"support", "dispute", "neutral"}
StanceOf(list) == IF list = "confirmed" THEN "support" ELSE "dispute"
Jobs == Callers \cup {"stage", "worker"}
Writers == Callers \cup {Sagwan}

NoCounts == [s \in Stances |-> 0]
Blank == [confirmed |-> << >>, disputed |-> << >>, trust |-> "unreviewed",
          counts |-> NoCounts, revision |-> 0]
Idle == [pc |-> "idle", copy |-> Blank, list |-> "confirmed", counts |-> NoCounts, read |-> {}]
Free(j) == jobs[j].pc = "idle"

\* _confirmation_callers and _effective_confirm_count: who voted, but for the owner.
Effective(list) == Cardinality(ToSet(list) \ {Owner})
Active == {r \in DOMAIN reviews : reviews[r].lifecycle # "consolidated"}
Speaking(stance) ==
    Cardinality({r \in Active : reviews[r].stance = stance /\ reviews[r].by # Owner})

Call ==
    /\ calls < MaxCalls
    /\ calls' = calls + 1

----------------------------------------------------------------------------
(* confirm_note and dispute_note: load, write all back, recount.           *)

\* Mutant of MayVote: votes are not looked through.
MayVoteAgain(c, list) == c \in Callers

\* A caller whose vote is on the note, as it is loaded, has voted.
MayVote(c, list) == ~Contains(note[list], c)

Vote(c, list) ==
    /\ Free(c)
    /\ Call
    /\ MayVote(c, list)
    /\ jobs' = [jobs EXCEPT ![c] =
           [Idle EXCEPT !.pc = "vote", !.list = list,
                        !.copy = [note EXCEPT ![list] = Append(@, c),
                                  !.trust = IF list = "disputed" /\ @ # "superseded"
                                            THEN "disputed" ELSE @]]]
    /\ UNCHANGED <<note, reviews, voices>>

WriteVote(c) ==
    /\ jobs[c].pc = "vote"
    /\ note' = jobs[c].copy
    /\ voices' = [voices EXCEPT ![jobs[c].list] = @ \cup {c}]
    /\ jobs' = [jobs EXCEPT ![c] = [Idle EXCEPT !.pc = "recount"]]
    /\ UNCHANGED <<reviews, calls>>

\* _recompute_parent_aggregate loads the note, goes through the reviews and merges the
\* three counts into what the note has become by then.
LoadParent(j) ==
    /\ jobs[j].pc = "recount"
    /\ jobs' = [jobs EXCEPT ![j].pc = "scan", ![j].counts =
           [s \in Stances |-> IF s = "neutral" THEN 0
                              ELSE IF s = "support" THEN Effective(note.confirmed)
                              ELSE Effective(note.disputed)]]
    /\ UNCHANGED <<note, reviews, voices, calls>>

ScanReviews(j) ==
    /\ jobs[j].pc = "scan"
    /\ jobs' = [jobs EXCEPT ![j].pc = "counts",
                            ![j].counts = [s \in Stances |-> @[s] + Speaking(s)]]
    /\ UNCHANGED <<note, reviews, voices, calls>>

\* Mutant of WriteCounts: the new counts are added to the old ones.
WriteCountsAdded(j) ==
    /\ jobs[j].pc = "counts"
    /\ note' = [note EXCEPT !.counts = [s \in Stances |-> @[s] + jobs[j].counts[s]]]
    /\ jobs' = [jobs EXCEPT ![j] = Idle]
    /\ UNCHANGED <<reviews, voices, calls>>

WriteCounts(j) ==
    /\ jobs[j].pc = "counts"
    /\ note' = [note EXCEPT !.counts = jobs[j].counts]
    /\ jobs' = [jobs EXCEPT ![j] = Idle]
    /\ UNCHANGED <<reviews, voices, calls>>

Recount(j) == LoadParent(j) \/ ScanReviews(j) \/ WriteCounts(j)

----------------------------------------------------------------------------
(* review_note writes a review; sagwan refreshes the one of its topic.     *)

NewReview(by, stance) ==
    /\ Len(reviews) < MaxReviews
    /\ reviews' = Append(reviews, [by |-> by, stance |-> stance, lifecycle |-> "active"])

ReviewNote(c, stance) ==
    /\ Free(c)
    /\ Call
    /\ NewReview(c, stance)
    /\ jobs' = [jobs EXCEPT ![c] = [Idle EXCEPT !.pc = "recount"]]
    /\ UNCHANGED <<note, voices>>

EditReview(c, r, stance) ==
    /\ Free(c)
    /\ Call
    /\ reviews[r].by = c /\ reviews[r].stance # stance
    /\ reviews' = [reviews EXCEPT ![r].stance = stance]
    /\ jobs' = [jobs EXCEPT ![c] = [Idle EXCEPT !.pc = "recount"]]
    /\ UNCHANGED <<note, voices>>

\* The conflict task holds its own note while it asks the LLM; here the note it finds in
\* conflict is this one, and it posts a dispute.  (Its write of the checked note is a
\* whole copy like RewriteAll's.)
PostInternalReview ==
    LET own == {r \in Active : reviews[r].by = Sagwan} IN
    /\ Free("worker")
    /\ Call
    /\ IF own = {} THEN NewReview(Sagwan, "dispute")
       ELSE \E r \in own : /\ \A s \in own : r <= s
                           /\ reviews' = [reviews EXCEPT ![r].stance = "dispute"]
    /\ jobs' = [jobs EXCEPT !["worker"] = [Idle EXCEPT !.pc = "recount"]]
    /\ UNCHANGED <<note, voices>>

\* The conflict task and the maintenance task checked this note: a whole old copy.
CheckNote ==
    /\ Free("worker")
    /\ Call
    /\ jobs' = [jobs EXCEPT !["worker"] = [Idle EXCEPT !.pc = "check", !.copy = note]]
    /\ UNCHANGED <<note, reviews, voices>>

RewriteAll ==
    /\ jobs["worker"].pc = "check"
    /\ note' = jobs["worker"].copy
    /\ jobs' = [jobs EXCEPT !["worker"] = Idle]
    /\ UNCHANGED <<reviews, voices, calls>>

----------------------------------------------------------------------------
(* The consolidation stage: read, ask, mark each review, then the note.    *)

ReadReviews ==
    /\ Free("stage")
    /\ calls < MaxCalls
    /\ note.trust # "superseded"
    /\ Cardinality(Active) >= MIN
    /\ calls' = calls + 1
    /\ jobs' = [jobs EXCEPT !["stage"] = [Idle EXCEPT !.pc = "mark", !.copy = note, !.read = Active]]
    /\ UNCHANGED <<note, reviews, voices>>

\* No call within the hour's limit, or no verdict in the answer.
NoVerdict ==
    /\ jobs["stage"].pc = "mark" /\ jobs["stage"].read \subseteq Active
    /\ jobs' = [jobs EXCEPT !["stage"] = Idle]
    /\ UNCHANGED <<note, reviews, voices, calls>>

MarkReview(r) ==
    /\ jobs["stage"].pc = "mark"
    /\ r \in jobs["stage"].read \cap Active
    /\ \A s \in jobs["stage"].read \cap Active : r <= s
    /\ reviews' = [reviews EXCEPT ![r].lifecycle = "consolidated"]
    /\ UNCHANGED <<note, jobs, voices, calls>>

Marked == jobs["stage"].pc = "mark" /\ jobs["stage"].read \cap Active = {}

\* Uphold and supersede merge into the note as it is now; revise merges the copy that
\* was read before the question.
Upheld == note
Superseded == [note EXCEPT !.trust = "superseded"]
Revised(old) == [old EXCEPT !.revision = @ + 1]

Decide ==
    /\ Marked
    /\ note' \in {Upheld, Superseded, Revised(jobs["stage"].copy)}
    /\ jobs' = [jobs EXCEPT !["stage"] = [Idle EXCEPT !.pc = "recount"]]
    /\ UNCHANGED <<reviews, voices, calls>>

\* A revised text that is too short: the reviews count again.
TooWeak ==
    /\ Marked
    /\ reviews' = [r \in DOMAIN reviews |->
           IF r \in jobs["stage"].read THEN [reviews[r] EXCEPT !.lifecycle = "active"]
           ELSE reviews[r]]
    /\ jobs' = [jobs EXCEPT !["stage"] = Idle]
    /\ UNCHANGED <<note, voices, calls>>

\* resolve_conflict and the maintenance of the note set its trust.
ResolveConflict(trust) ==
    /\ note.trust # trust
    /\ note' = [note EXCEPT !.trust = trust]
    /\ UNCHANGED <<reviews, jobs, voices, calls>>

Crash ==
    /\ Call
    /\ jobs' = [j \in Jobs |-> Idle]
    /\ UNCHANGED <<note, reviews, voices>>

Init ==
    /\ note = Blank
    /\ reviews = << >>
    /\ jobs = [j \in Jobs |-> Idle]
    /\ voices = [l \in Lists |-> {}]
    /\ calls = 0

Next ==
    \/ \E c \in Callers : \/ \E l \in Lists : Vote(c, l)
                          \/ WriteVote(c)
                          \/ \E s \in Stances : ReviewNote(c, s)
                          \/ \E s \in Stances, r \in DOMAIN reviews : EditReview(c, r, s)
    \/ \E j \in Jobs : Recount(j)
    \/ PostInternalReview \/ CheckNote \/ RewriteAll
    \/ ReadReviews \/ NoVerdict \/ (\E r \in DOMAIN reviews : MarkReview(r))
    \/ Decide \/ TooWeak
    \/ ResolveConflict("confirmed")
    \/ Crash

Spec == Init /\ [][Next]_vars

----------------------------------------------------------------------------
(* Properties.                                                             *)

Fields(meta) ==
    /\ \A l \in Lists : ToSet(meta[l]) \subseteq Callers
    /\ meta.trust \in {"unreviewed", "confirmed", "disputed", "superseded"}
    /\ meta.counts \in [Stances -> Nat]
    /\ meta.revision \in 0..MaxCalls

TypeOK ==
    /\ Fields(note)
    /\ \A r \in DOMAIN reviews : reviews[r] \in
           [by : Writers, stance : Stances, lifecycle : {"active", "consolidated"}]
    /\ \A j \in Jobs : Fields(jobs[j].copy)
    /\ voices \in [Lists -> SUBSET Callers]
    /\ calls \in 0..MaxCalls

\* Calls of one agent that repeat, and old copies that are put back over newer ones,
\* never make it vote twice (mcp_server.py:confirm_note, "Anti-gaming").
OneVoiceEach ==
    \A l \in Lists : /\ IsInjective(note[l])
                     /\ ToSet(note[l]) \subseteq voices[l]

\* A count that searches rank by was counted from votes and reviews that somebody gave:
\* recounts that overlap consolidations do not count a voice twice.
CountsBacked ==
    \A l \in Lists : note.counts[StanceOf(l)] <= Cardinality(voices[l]) + Len(reviews)

\* Stated by confirm_note: it "appends a timestamped entry" to the votes of the note
\* (mcp_server.py:1410), so a vote that was written stays in the note.
EveryVoteCounts == \A l \in Lists : voices[l] \subseteq ToSet(note[l])
=============================================================================
