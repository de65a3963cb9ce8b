----------------------------- MODULE CoreRecords -----------------------------
(***************************************************************************)
(* One send of a note to the Core API is many requests.  A capsule's every *)
(* point becomes a claim of its own: the claim is created as pending, gets *)
(* a link to the note as evidence and is accepted, and only then may the   *)
(* capsule cite it.  A claim note is one accepted claim and its evidence.  *)
(* Each request may fail, or be carried out and its answer be lost.        *)
(***************************************************************************)
EXTENDS Naturals, Sequences

CONSTANTS
    Senders,    \* threads, tasks and admins that send notes
    POINTS,     \* points of the capsule note
    MaxVersions,  \* bound: texts the note ever has
    MaxRecords  \* bound: claims ever created

ASSUME BoundsAssumption == {POINTS, MaxVersions, MaxRecords} \subseteq Nat \ {0}

VARIABLES
    claims,   \* the claims of the Core API, in the order they were created
    capsule,  \* what its capsule of the note says: a text, and a claim per point or 0
    current,  \* the note's text
    sends     \* what each sender is doing

vars == <<claims, capsule, current, sends>>

Points == 1..POINTS
Ids == DOMAIN claims
NoCites == [p \in Points |-> 0]
Idle == [pc |-> "idle", text |-> 0, point |-> 1, id |-> 0, cites |-> NoCites]

Claim(text, point, status) ==
    [text |-> text, point |-> point, status |-> status, evidence |-> FALSE]

NewClaim(claim) ==
    /\ Len(claims) < MaxRecords
    /\ claims' = Append(claims, claim)

\* The note is edited while it is being sent.
Edit ==
    /\ current < MaxVersions
    /\ current' = current + 1
    /\ UNCHANGED <<claims, capsule, sends>>

Start(s, pc) ==
    /\ sends[s] = Idle
    /\ sends' = [sends EXCEPT ![s] = [Idle EXCEPT !.pc = pc, !.text = current]]
    /\ UNCHANGED <<claims, capsule, current>>

\* _create_derived_claim is done with a point, with the claim it may be cited by.
NextPoint(send, id) ==
    [send EXCEPT !.id = 0, !.point = @ + 1, !.cites[send.point] = id,
                 !.pc = IF send.point = POINTS THEN "capsule" ELSE "claim"]

\* Mutant of PointFails: the point is cited by the claim as far as it got.
PointFailsCited(s) ==
    /\ sends[s].pc \in {"claim", "evidence", "accept"}
    /\ sends' = [sends EXCEPT ![s] = NextPoint(@, @.id)]

\* Any of its requests may fail to be answered: the point is then cited by no claim.
PointFails(s) ==
    /\ sends[s].pc \in {"claim", "evidence", "accept"}
    /\ sends' = [sends EXCEPT ![s] = NextPoint(@, 0)]

PostClaim(s) ==
    LET send == sends[s] IN
    /\ send.pc = "claim"
    /\ NewClaim(Claim(send.text, send.point, "pending"))
    /\ \/ sends' = [sends EXCEPT ![s].id = Len(claims) + 1, ![s].pc = "evidence"]
       \/ PointFails(s)
    /\ UNCHANGED <<capsule, current>>

PostEvidence(s) ==
    /\ sends[s].pc = "evidence"
    /\ claims' = [claims EXCEPT ![sends[s].id].evidence = TRUE]
    /\ \/ sends' = [sends EXCEPT ![s].pc = "accept"]
       \/ PointFails(s)
    /\ UNCHANGED <<capsule, current>>

PatchClaimStatus(s) ==
    /\ sends[s].pc = "accept"
    /\ claims' = [claims EXCEPT ![sends[s].id].status = "accepted"]
    /\ \/ sends' = [sends EXCEPT ![s] = NextPoint(@, @.id)]
       \/ PointFails(s)
    /\ UNCHANGED <<capsule, current>>

RequestFails(s) ==
    /\ PointFails(s)
    /\ UNCHANGED <<claims, capsule, current>>

\* The capsule is created or replaced whole; whether the answer arrives is CoreSync's.
SendCapsule(s) ==
    /\ sends[s].pc = "capsule"
    /\ \/ capsule' = [text |-> sends[s].text, cites |-> sends[s].cites]
       \/ UNCHANGED capsule
    /\ sends' = [sends EXCEPT ![s] = Idle]
    /\ UNCHANGED <<claims, current>>

\* A claim note: accepted from the start, and the evidence follows if it can.
SendClaimNote(s) ==
    /\ sends[s].pc = "note"
    /\ NewClaim(Claim(sends[s].text, 0, "accepted"))
    /\ sends' = [sends EXCEPT ![s].id = Len(claims) + 1, ![s].pc = "attach"]
    /\ UNCHANGED <<capsule, current>>

AttachEvidence(s) ==
    /\ sends[s].pc = "attach"
    /\ \/ claims' = [claims EXCEPT ![sends[s].id].evidence = TRUE]
       \/ UNCHANGED claims
    /\ sends' = [sends EXCEPT ![s] = Idle]
    /\ UNCHANGED <<capsule, current>>

DeleteCapsule ==
    /\ capsule.text # 0
    /\ capsule' = [text |-> 0, cites |-> NoCites]
    /\ UNCHANGED <<claims, current, sends>>

Crash ==
    /\ sends' = [s \in Senders |-> Idle]
    /\ UNCHANGED <<claims, capsule, current>>

Init ==
    /\ claims = << >>
    /\ capsule = [text |-> 0, cites |-> NoCites]
    /\ current = 1
    /\ sends = [s \in Senders |-> Idle]

Next ==
    \/ Edit
    \/ \E s \in Senders :
           \/ \E pc \in {"claim", "note"} : Start(s, pc)
           \/ PostClaim(s) \/ PostEvidence(s) \/ PatchClaimStatus(s) \/ RequestFails(s)
           \/ SendCapsule(s)
           \/ SendClaimNote(s) \/ AttachEvidence(s)
    \/ DeleteCapsule
    \/ Crash

Spec == Init /\ [][Next]_vars

----------------------------------------------------------------------------
(* Properties.                                                             *)

TypeOK ==
    /\ claims \in Seq([text : 1..MaxVersions, point : 0..POINTS,
                       status : {"pending", "accepted"}, evidence : BOOLEAN])
    /\ Len(claims) <= MaxRecords
    /\ capsule \in [text : 0..MaxVersions, cites : [Points -> 0..MaxRecords]]
    /\ current \in 1..MaxVersions
    /\ sends \in [Senders ->
           [pc : {"idle", "claim", "evidence", "accept", "capsule", "note", "attach"},
            text : 0..MaxVersions, point : 1..(POINTS + 1), id : 0..MaxRecords,
            cites : [Points -> 0..MaxRecords]]]

\* However requests fail, senders interleave and the note is edited meanwhile, a point
\* of the capsule cites nothing or an accepted claim, with evidence, that says what the
\* point says (core_api_bridge.py:_create_derived_claim, _sync_capsule).
CitedClaimsHold ==
    \A p \in Points : capsule.cites[p] # 0 =>
        claims[capsule.cites[p]] =
            [text |-> capsule.text, point |-> p, status |-> "accepted", evidence |-> TRUE]
=============================================================================
