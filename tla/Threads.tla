------------------------------- MODULE Threads -------------------------------
(***************************************************************************)
(* Reviews are claims that target a capsule or another claim.  The tool    *)
(* that writes them checks what they target, keeps the chain of targets    *)
(* free of cycles, and recounts the notes that lose or gain a review.  It  *)
(* runs on the server's event loop: from its checks to its last recount no *)
(* other tool runs (Reviews has the recounts of other threads).  The HTTP  *)
(* endpoint writes the same notes and checks none of this.                 *)
(***************************************************************************)
EXTENDS Naturals, FiniteSets

CONSTANTS
    Capsules,   \* notes that target nothing
    Claims,     \* notes that may be claims, some of them reviews
    Writers,    \* who writes claims
    Owner,      \* Owner[n]: who owns note n
    Stances,    \* what a review may say: "support", "dispute", "neutral"
    Lifecycles, \* of a review: "active", "consolidated", "orphaned"
    DEPTH,      \* notes in a chain of targets, 8 in the code
    MaxBypass   \* bound: HTTP writes, deletions and changes of kind

ThreadBounds ==
    /\ Capsules \cap Claims = {} /\ Owner \in [Capsules \cup Claims -> Writers]
    /\ DEPTH \in Nat \ {0} /\ MaxBypass \in Nat
    /\ IsFiniteSet(Claims) /\ "none" \notin Capsules \cup Claims

VARIABLES
    kind,      \* "claim", "capsule", "other", or "absent"
    review,    \* review[c]: what claim c says, and of which note
    counts,    \* what each note's frontmatter says of its reviews
    stale,     \* notes that lost, gained or kept reviews past the tool
    direct,    \* a target was written through the HTTP endpoint
    spent      \* how much of MaxBypass is used

vars == <<kind, review, counts, stale, direct, spent>>

Notes == Capsules \cup Claims
Nobody == "none"
NoCounts == [s \in Stances |-> 0]
NoReview == [target |-> Nobody, stance |-> Nobody, lifecycle |-> Nobody, own |-> FALSE]
Exists(n) == kind[n] # "absent"
Target(n) == IF n \in Claims /\ Exists(n) THEN review[n].target ELSE Nobody

Bypass ==
    /\ spent < MaxBypass
    /\ spent' = spent + 1

\* The notes that the walk along the targets comes by, one place after the other.
Walk(n) ==
    LET at[i \in 0..DEPTH] == IF i = 0 THEN n
                              ELSE IF at[i - 1] = Nobody THEN Nobody ELSE Target(at[i - 1])
    IN  at

\* Mutant of Loops: only the target's own target is looked at.
LoopsDirectly(c, t) == t = c \/ Target(t) = c

\* "targets cycle detected or depth>8"
Loops(c, t) ==
    \/ \E i \in 0..(DEPTH - 1) : Walk(t)[i] = c
    \/ Walk(t)[DEPTH] # Nobody

MayTarget(c, t) ==
    /\ kind[t] \in {"capsule", "claim"}
    /\ ~Loops(c, t)

\* _recompute_parent_aggregate of the reviews as they are now; votes are left out.
Counted(n, kinds, says) ==
    [s \in Stances |-> Cardinality({c \in Claims :
        /\ kinds[c] = "claim" /\ says[c].target = n
        /\ says[c].lifecycle # "consolidated" /\ ~says[c].own /\ says[c].stance = s})]

\* Mutant of Recounted: a note that loses a review is not recounted.
RecountedNew(old, new) == IF new.target = Nobody THEN {} ELSE {new.target}

\* Which notes upsert_note recounts.
Recounted(old, new) ==
    (IF old.target # new.target THEN {old.target} \ {Nobody} ELSE {})
    \cup (IF new.lifecycle # "consolidated" \/ old.target = new.target
          THEN {new.target} \ {Nobody} ELSE {})

\* The note is written; then the recount of a note that is gone ends the call, and what
\* was to be recounted after it is not.
WriteReview(c, new) ==
    LET says == [review EXCEPT ![c] = new]
        kinds == [kind EXCEPT ![c] = "claim"]
        old == IF Exists(c) THEN review[c] ELSE NoReview
        todo == Recounted(old, new)
        fails == old.target \in todo /\ ~Exists(old.target)
    IN  /\ kind' = kinds /\ review' = says
        /\ IF fails
           THEN counts' = counts /\ stale' = stale \cup todo
           ELSE /\ counts' = [n \in Notes |-> IF n \in todo THEN Counted(n, kinds, says)
                                              ELSE counts[n]]
                /\ stale' = stale \ todo
        /\ UNCHANGED direct

\* upsert_note of a claim with a target, given or kept, and a stance; review_note is the
\* call for a new one.
UpsertReview(c, by, t, stance, lifecycle) ==
    /\ by = Owner[c]
    /\ MayTarget(c, t)
    /\ WriteReview(c, [target |-> t, stance |-> stance, lifecycle |-> lifecycle,
                       own |-> Owner[t] = by])
    /\ UNCHANGED spent

\* ... with an empty target: the claim is atomic again.
Detach(c, by) ==
    /\ by = Owner[c] /\ kind[c] = "claim"
    /\ WriteReview(c, NoReview)
    /\ UNCHANGED spent

\* A note that stops being a claim keeps its target and is not recounted.
ChangeKind(c) ==
    /\ Bypass
    /\ kind[c] = "claim"
    /\ kind' = [kind EXCEPT ![c] = "other"]
    /\ stale' = stale \cup ({review[c].target} \ {Nobody})
    /\ UNCHANGED <<review, counts, direct>>

\* delete_note unlinks the file.
Delete(n) ==
    /\ Bypass
    /\ Exists(n)
    /\ kind' = [kind EXCEPT ![n] = "absent"]
    /\ counts' = [counts EXCEPT ![n] = NoCounts]
    /\ stale' = stale \cup {n} \cup ({Target(n)} \ {Nobody})
    /\ UNCHANGED <<review, direct>>

\* api_upsert_note takes the metadata as it comes.
WriteDirectly(c, new) ==
    /\ Bypass
    /\ kind' = [kind EXCEPT ![c] = "claim"]
    /\ review' = [review EXCEPT ![c] = new]
    /\ stale' = stale \cup ({new.target, Target(c)} \ {Nobody})
    /\ direct' = TRUE
    /\ UNCHANGED counts

Init ==
    /\ kind = [n \in Notes |-> IF n \in Capsules THEN "capsule" ELSE "absent"]
    /\ review = [c \in Claims |-> NoReview]
    /\ counts = [n \in Notes |-> NoCounts]
    /\ stale = {} /\ direct = FALSE /\ spent = 0

Said == [target : Notes, stance : Stances, lifecycle : Lifecycles, own : {FALSE}]

Next ==
    \E c \in Claims :
        \/ \E by \in Writers, t \in Notes, stance \in Stances, lifecycle \in Lifecycles :
               UpsertReview(c, by, t, stance, lifecycle)
        \/ \E by \in Writers : Detach(c, by)
        \/ ChangeKind(c)
        \/ \E n \in Notes : Delete(n)
        \/ \E new \in Said : WriteDirectly(c, new)

Spec == Init /\ [][Next]_vars

-----------------------------------------------------------------------------

TypeOK ==
    /\ kind \in [Notes -> {"absent", "capsule", "claim", "other"}]
    /\ \A c \in Claims : /\ review[c].target \in Notes \cup {Nobody}
                         /\ review[c].stance \in Stances \cup {Nobody}
                         /\ review[c].lifecycle \in Lifecycles \cup {Nobody}
    /\ counts \in [Notes -> [Stances -> Nat]]
    /\ stale \subseteq Notes /\ direct \in BOOLEAN /\ spent \in 0..MaxBypass

\* However claims are attached, moved and detached, no note is in its own chain of targets,
\* as long as every target was written by the tool.
TargetsAcyclic ==
    direct \/ \A c \in Claims : \A i \in 1..DEPTH : Exists(c) => Walk(c)[i] # c

\* A note counts the reviews it has, unless the last change of them passed by the tool or
\* ended before it recounted.
CountsCurrent ==
    \A n \in Notes : Exists(n) => n \in stale \/ counts[n] = Counted(n, kind, review)
=============================================================================
