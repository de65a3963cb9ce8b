--------------------------- MODULE ServicesProofs ---------------------------
(***************************************************************************)
(* What a capsule of the Core API cites, for any number of senders, points,*)
(* texts and claims; what the method archive keeps; what investigations    *)
(* report and what is saved of them; which ids notes keep;                 *)
(* and what these services of MCServices promise together.                 *)
(***************************************************************************)
EXTENDS MCServices, SumTheorems, FiniteSetTheorems, SequenceTheorems, TLAPS

Claims == [text : 1..MaxVersions, point : 0..POINTS,
           status : {"pending", "accepted"}, evidence : BOOLEAN]
Send == [pc : {"idle", "claim", "evidence", "accept", "capsule", "note", "attach"},
         text : 0..MaxVersions, point : 1..(POINTS + 1), id : 0..MaxRecords,
         cites : [Points -> 0..MaxRecords]]

\* The claim id may be cited for point p of that text.
Citable(id, text, p) ==
    /\ id \in 1..Len(claims)
    /\ claims[id].text = text /\ claims[id].point = p
    /\ claims[id].status = "accepted" /\ claims[id].evidence

CitesHold(cites, text) == \A p \in Points : cites[p] # 0 => Citable(cites[p], text, p)

\* What a sender holds: the text it set out with, citations that hold, and while it
\* makes a claim, the claim of its own point, with its evidence once that is posted.
SendHolds(send) ==
    /\ send.pc # "idle" => send.text \in 1..MaxVersions
    /\ CitesHold(send.cites, send.text)
    /\ send.pc \in {"claim", "evidence", "accept"} => send.point \in Points
    /\ send.pc \in {"evidence", "accept"} =>
          /\ send.id \in 1..Len(claims)
          /\ claims[send.id].text = send.text /\ claims[send.id].point = send.point
    /\ send.pc = "accept" => claims[send.id].evidence
    /\ send.pc = "attach" => send.id \in 1..Len(claims)

IInv ==
    /\ TypeOK
    /\ CitesHold(capsule.cites, capsule.text)
    /\ \A s \in Senders : SendHolds(sends[s])

LEMMA IdleHolds == Idle \in Send /\ SendHolds(Idle)
  BY BoundsAssumption DEF Idle, Send, NoCites, SendHolds, CitesHold, Points

LEMMA InitInv == Init => IInv
<1> SUFFICES ASSUME Init PROVE IInv
  OBVIOUS
<1>1. NoCites \in [Points -> 0..MaxRecords] /\ \A p \in Points : NoCites[p] = 0
  BY BoundsAssumption DEF NoCites, Points
<1>2. TypeOK
  BY <1>1, IdleHolds, BoundsAssumption DEF Init, TypeOK, Send
<1>3. CitesHold(capsule.cites, capsule.text)
  BY <1>1 DEF Init, CitesHold
<1> QED
  BY <1>2, <1>3, IdleHolds DEF Init, IInv

\* Claims are only added, and those there are keep their text and point, their evidence
\* and their acceptance.
Grown ==
    /\ claims' \in Seq(Claims) /\ Len(claims') \in Len(claims)..MaxRecords
    /\ \A id \in 1..Len(claims) :
          /\ claims'[id].text = claims[id].text /\ claims'[id].point = claims[id].point
          /\ claims[id].evidence => claims'[id].evidence
          /\ claims[id].status = "accepted" => claims'[id].status = "accepted"

\* However the claims grow, what held of a citation or a sender holds.
LEMMA GrowthKeeps ==
  ASSUME TypeOK, Grown
  PROVE  /\ \A cites, text : CitesHold(cites, text) => CitesHold(cites, text)'
         /\ \A send \in Send : SendHolds(send) => SendHolds(send)'
<1>1. 1..Len(claims) \subseteq 1..Len(claims')
  BY DEF TypeOK, Grown
<1>2. ASSUME NEW id, NEW text, NEW p, Citable(id, text, p)
      PROVE  Citable(id, text, p)'
  BY <1>1, <1>2 DEF Grown, Citable
<1>3. ASSUME NEW cites, NEW text, CitesHold(cites, text)
      PROVE  CitesHold(cites, text)'
  BY <1>2, <1>3 DEF CitesHold
<1>4. ASSUME NEW send \in Send, SendHolds(send)
      PROVE  SendHolds(send)'
  <2>1. CitesHold(send.cites, send.text)'
    BY <1>3, <1>4 DEF SendHolds
  <2> QED
    BY <1>1, <1>4, <2>1 DEF Grown, SendHolds
<1> QED
  BY <1>3, <1>4

LEMMA UnchangedGrown ==
  ASSUME TypeOK, UNCHANGED claims
  PROVE  Grown
  BY DEF TypeOK, Grown, Claims

\* A step of one sender that leaves it with send, and the capsule as it was.
LEMMA SenderInv ==
  ASSUME IInv, NEW s \in Senders, NEW send \in Send,
         Grown, SendHolds(send)', sends' = [sends EXCEPT ![s] = send],
         UNCHANGED <<capsule, current>>
  PROVE  IInv'
<1>1. TypeOK'
  BY DEF IInv, TypeOK, Grown, Claims, Send
<1>2. CitesHold(capsule.cites, capsule.text)'
  <2> PICK cites, text : cites = capsule.cites /\ text = capsule.text
    OBVIOUS
  <2>1. CitesHold(cites, text)
    BY DEF IInv
  <2>2. CitesHold(cites, text)'
    BY <2>1, GrowthKeeps DEF IInv
  <2> QED
    BY <2>2 DEF CitesHold, Citable
<1>3. ASSUME NEW r \in Senders
      PROVE  SendHolds(sends[r])'
  <2>1. CASE r = s
    BY <2>1 DEF IInv, TypeOK, SendHolds, CitesHold, Citable
  <2>2. CASE r # s
    <3>1. sends'[r] = sends[r] /\ sends[r] \in Send
      BY <2>2 DEF IInv, TypeOK, Send
    <3>2. SendHolds(sends[r])
      BY DEF IInv
    <3>3. \A x \in Send : SendHolds(x) => SendHolds(x)'
      BY GrowthKeeps DEF IInv
    <3> QED
      BY <3>1, <3>2, <3>3 DEF SendHolds, CitesHold, Citable
  <2> QED
    BY <2>1, <2>2
<1> QED
  BY <1>1, <1>2, <1>3 DEF IInv

LEMMA AddedClaim ==
  ASSUME TypeOK, NEW claim \in Claims, NewClaim(claim)
  PROVE  /\ Grown /\ Len(claims) + 1 \in 1..Len(claims')
         /\ Len(claims) + 1 \in 0..MaxRecords
         /\ claims'[Len(claims) + 1] = claim
  BY BoundsAssumption DEF TypeOK, NewClaim, Grown, Claims

LEMMA ClaimsTyped ==
  ASSUME TypeOK
  PROVE  /\ claims \in Seq(Claims) /\ Len(claims) \in 0..MaxRecords
         /\ DOMAIN claims = 1..Len(claims) /\ \A id \in 1..Len(claims) : claims[id] \in Claims
<1>1. claims \in Seq(Claims) /\ Len(claims) \in 0..MaxRecords
  BY DEF TypeOK, Claims
<1> QED
  BY <1>1

\* A claim gets its evidence or is accepted.
LEMMA ChangedClaim ==
  ASSUME TypeOK, NEW id \in 1..Len(claims),
         \/ claims' = [claims EXCEPT ![id].evidence = TRUE]
         \/ claims' = [claims EXCEPT ![id].status = "accepted"]
  PROVE  Grown
<1>1. claims \in Seq(Claims) /\ Len(claims) \in 0..MaxRecords
  BY ClaimsTyped
<1>2. claims[id] \in Claims
  BY ClaimsTyped
<1> PICK claim \in Claims :
      /\ claims' = [claims EXCEPT ![id] = claim]
      /\ claim.text = claims[id].text /\ claim.point = claims[id].point
      /\ claims[id].evidence => claim.evidence
      /\ claims[id].status = "accepted" => claim.status = "accepted"
  <2>1. CASE claims' = [claims EXCEPT ![id].evidence = TRUE]
    <3>1. [claims[id] EXCEPT !.evidence = TRUE] \in Claims
      BY <1>2 DEF Claims
    <3> QED
      BY <1>2, <2>1, <3>1 DEF Claims
  <2>2. CASE claims' = [claims EXCEPT ![id].status = "accepted"]
    <3>1. [claims[id] EXCEPT !.status = "accepted"] \in Claims
      BY <1>2 DEF Claims
    <3> QED
      BY <1>2, <2>2, <3>1 DEF Claims
  <2> QED
    BY <2>1, <2>2
<1>3. claims' \in Seq(Claims) /\ Len(claims') = Len(claims)
  BY <1>1, ExceptSeq
<1> QED
  BY <1>1, <1>3 DEF Grown

\* A sender that is done with a point cites nothing for it, or what may be cited.
LEMMA NextPointHolds ==
  ASSUME NEW send \in Send, SendHolds(send)', send.pc # "idle", send.point \in Points,
         NEW id \in 0..MaxRecords, id # 0 => Citable(id, send.text, send.point)'
  PROVE  NextPoint(send, id) \in Send /\ SendHolds(NextPoint(send, id))'
<1> DEFINE next == NextPoint(send, id)
<1> DEFINE cites == [send.cites EXCEPT ![send.point] = id]
           pc == IF send.point = POINTS THEN "capsule" ELSE "claim"
<1>0. next = [send EXCEPT !.id = 0, !.point = @ + 1, !.cites = cites, !.pc = pc]
  BY DEF NextPoint, Send
<1>1. /\ next.pc \in {"capsule", "claim"} /\ next.text = send.text /\ next.id = 0
      /\ next.point = send.point + 1 /\ next.cites = cites
      /\ next.pc = "claim" => send.point # POINTS
      /\ next \in Send
  <2>1. cites \in [Points -> 0..MaxRecords]
    BY DEF Send
  <2>2. send.point + 1 \in 1..(POINTS + 1)
    BY BoundsAssumption DEF Points
  <2>3. 0 \in 0..MaxRecords
    BY BoundsAssumption
  <2> HIDE DEF cites, next
  <2> QED
    BY <1>0, <2>1, <2>2, <2>3 DEF Send
<1>2. CitesHold(next.cites, next.text)'
  BY <1>1 DEF SendHolds, CitesHold, Send
<1>3. next.pc = "claim" => next.point \in Points
  BY <1>1, BoundsAssumption DEF Points
<1> QED
  BY <1>1, <1>2, <1>3 DEF SendHolds

\* A request may fail at any point, whether or not it was carried out.
LEMMA PointFailsInv ==
  ASSUME IInv, NEW s \in Senders, PointFails(s), Grown, UNCHANGED <<capsule, current>>
  PROVE  IInv'
<1> PICK send \in Send : send = sends[s]
  BY DEF IInv, TypeOK, Send
<1>1. SendHolds(send) /\ send.pc # "idle" /\ send.point \in Points
  BY DEF IInv, PointFails, SendHolds
<1>2. SendHolds(send)'
  BY <1>1, GrowthKeeps DEF IInv
<1>3. 0 \in 0..MaxRecords
  BY BoundsAssumption
<1> PICK next \in Send : next = NextPoint(send, 0) /\ SendHolds(next)'
  BY <1>1, <1>2, <1>3, NextPointHolds
<1>4. sends' = [sends EXCEPT ![s] = next]
  BY DEF PointFails
<1> QED
  BY <1>4, SenderInv

LEMMA SenderStepInv ==
  ASSUME IInv, NEW s \in Senders,
         \/ \E pc \in {"claim", "note"} : Start(s, pc)
         \/ PostClaim(s) \/ PostEvidence(s) \/ PatchClaimStatus(s) \/ RequestFails(s)
         \/ SendClaimNote(s) \/ AttachEvidence(s)
  PROVE  IInv'
<1> PICK send \in Send : send = sends[s]
  BY DEF IInv, TypeOK, Send
<1>0. TypeOK /\ SendHolds(send)
  BY DEF IInv
<1>1. ASSUME NEW pc \in {"claim", "note"}, Start(s, pc)
      PROVE  IInv'
  <2>0. current \in 0..MaxVersions
    BY <1>0, BoundsAssumption DEF TypeOK
  <2> PICK next \in Send : next = [Idle EXCEPT !.pc = pc, !.text = current]
    BY <2>0, IdleHolds DEF Send
  <2>1. SendHolds(next)
    BY <1>0, IdleHolds, BoundsAssumption DEF TypeOK, Idle, SendHolds, CitesHold, NoCites, Points
  <2>2. Grown
    BY <1>0, <1>1, UnchangedGrown DEF Start
  <2>3. SendHolds(next)' /\ sends' = [sends EXCEPT ![s] = next]
    BY <1>0, <1>1, <2>1, <2>2, GrowthKeeps DEF Start
  <2> QED
    BY <1>1, <2>2, <2>3, SenderInv DEF Start
<1>2. CASE PostClaim(s)
  <2>0. send.text \in 1..MaxVersions /\ send.point \in 0..POINTS
    BY <1>0, <1>2, BoundsAssumption DEF PostClaim, SendHolds, Points
  <2> PICK claim \in Claims : claim = Claim(send.text, send.point, "pending")
    BY <2>0 DEF Claim, Claims
  <2>1. /\ Grown /\ Len(claims) + 1 \in 1..Len(claims') /\ claims'[Len(claims) + 1] = claim
        /\ Len(claims) + 1 \in 0..MaxRecords
    BY <1>0, <1>2, AddedClaim DEF PostClaim
  <2>2. CASE PointFails(s)
    BY <1>2, <2>1, <2>2, PointFailsInv DEF PostClaim
  <2>3. CASE sends' = [sends EXCEPT ![s].id = Len(claims) + 1, ![s].pc = "evidence"]
    <3> PICK next \in Send : next = [send EXCEPT !.id = Len(claims) + 1, !.pc = "evidence"]
      BY <2>1 DEF Send
    <3>1. SendHolds(send)'
      BY <1>0, <2>1, GrowthKeeps
    <3>2. SendHolds(next)'
      BY <1>2, <2>1, <3>1 DEF PostClaim, SendHolds, Claim, Send
    <3>3. sends' = [sends EXCEPT ![s] = next]
      BY <1>0, <2>3 DEF TypeOK, Send
    <3> QED
      BY <1>2, <2>1, <3>2, <3>3, SenderInv DEF PostClaim
  <2> QED
    BY <1>2, <2>2, <2>3 DEF PostClaim
<1>3. CASE PostEvidence(s)
  <2>1. send.id \in 1..Len(claims) /\ send.pc = "evidence"
    BY <1>0, <1>3 DEF PostEvidence, SendHolds
  <2>2. Grown /\ claims'[send.id].evidence
    <3>1. claims[send.id] \in Claims /\ DOMAIN claims = 1..Len(claims)
      BY <1>0, <2>1, ClaimsTyped
    <3>2. claims'[send.id].evidence
      BY <1>3, <2>1, <3>1 DEF PostEvidence, Claims
    <3> QED
      BY <1>0, <1>3, <2>1, <3>2, ChangedClaim DEF PostEvidence
  <2>3. CASE PointFails(s)
    BY <1>3, <2>2, <2>3, PointFailsInv DEF PostEvidence
  <2>4. CASE sends' = [sends EXCEPT ![s].pc = "accept"]
    <3> PICK next \in Send : next = [send EXCEPT !.pc = "accept"]
      BY DEF Send
    <3>1. SendHolds(send)'
      BY <1>0, <2>2, GrowthKeeps
    <3>2. SendHolds(next)'
      BY <2>1, <2>2, <3>1 DEF SendHolds, Send
    <3>3. sends' = [sends EXCEPT ![s] = next]
      BY <1>0, <2>4 DEF TypeOK, Send
    <3> QED
      BY <1>3, <2>2, <3>2, <3>3, SenderInv DEF PostEvidence
  <2> QED
    BY <1>3, <2>3, <2>4 DEF PostEvidence
<1>4. CASE PatchClaimStatus(s)
  <2>1. /\ send.id \in 1..Len(claims) /\ send.pc = "accept" /\ send.point \in Points
        /\ claims[send.id].text = send.text /\ claims[send.id].point = send.point
        /\ claims[send.id].evidence
    BY <1>0, <1>4 DEF PatchClaimStatus, SendHolds
  <2>2. Grown /\ claims'[send.id].status = "accepted"
    <3>1. claims[send.id] \in Claims /\ DOMAIN claims = 1..Len(claims)
      BY <1>0, <2>1, ClaimsTyped
    <3>2. claims'[send.id].status = "accepted"
      BY <1>4, <2>1, <3>1 DEF PatchClaimStatus, Claims
    <3> QED
      BY <1>0, <1>4, <2>1, <3>2, ChangedClaim DEF PatchClaimStatus
  <2>3. CASE PointFails(s)
    BY <1>4, <2>2, <2>3, PointFailsInv DEF PatchClaimStatus
  <2>4. CASE sends' = [sends EXCEPT ![s] = NextPoint(@, @.id)]
    <3>1. SendHolds(send)'
      BY <1>0, <2>2, GrowthKeeps
    <3>2. Citable(send.id, send.text, send.point)'
      BY <2>1, <2>2 DEF Grown, Citable
    <3>3. send.id \in 0..MaxRecords
      BY DEF Send
    <3> PICK next \in Send : next = NextPoint(send, send.id) /\ SendHolds(next)'
      BY <2>1, <3>1, <3>2, <3>3, NextPointHolds
    <3>4. sends' = [sends EXCEPT ![s] = next]
      BY <1>0, <2>4 DEF TypeOK, Send
    <3> QED
      BY <1>4, <2>2, <3>4, SenderInv DEF PatchClaimStatus
  <2> QED
    BY <1>4, <2>3, <2>4 DEF PatchClaimStatus
<1>5. CASE RequestFails(s)
  BY <1>0, <1>5, UnchangedGrown, PointFailsInv DEF RequestFails
<1>6. CASE SendClaimNote(s)
  <2>5. send.text \in 1..MaxVersions /\ 0 \in 0..POINTS
    BY <1>0, <1>6, BoundsAssumption DEF SendClaimNote, SendHolds
  <2> PICK claim \in Claims : claim = Claim(send.text, 0, "accepted")
    BY <2>5 DEF Claim, Claims
  <2>1. /\ Grown /\ Len(claims) + 1 \in 1..Len(claims') /\ Len(claims) + 1 \in 0..MaxRecords
    BY <1>0, <1>6, AddedClaim DEF SendClaimNote
  <2> PICK next \in Send : next = [send EXCEPT !.id = Len(claims) + 1, !.pc = "attach"]
    BY <2>1 DEF Send
  <2>2. SendHolds(send)'
    BY <1>0, <2>1, GrowthKeeps
  <2>3. SendHolds(next)'
    BY <1>6, <2>1, <2>2 DEF SendClaimNote, SendHolds, Send
  <2>4. sends' = [sends EXCEPT ![s] = next]
    BY <1>0, <1>6 DEF SendClaimNote, TypeOK, Send
  <2> QED
    BY <1>6, <2>1, <2>3, <2>4, SenderInv DEF SendClaimNote
<1>7. CASE AttachEvidence(s)
  <2>1. send.id \in 1..Len(claims)
    BY <1>0, <1>7 DEF AttachEvidence, SendHolds
  <2>2. Grown
    BY <1>0, <1>7, <2>1, ChangedClaim, UnchangedGrown DEF AttachEvidence
  <2>3. Idle \in Send /\ SendHolds(Idle)'
    BY <1>0, <2>2, IdleHolds, GrowthKeeps
  <2> PICK next \in Send : next = Idle
    BY <2>3
  <2>4. sends' = [sends EXCEPT ![s] = next] /\ SendHolds(next)'
    BY <1>7, <2>3 DEF AttachEvidence
  <2> QED
    BY <1>7, <2>2, <2>4, SenderInv DEF AttachEvidence
<1> QED
  BY <1>1, <1>2, <1>3, <1>4, <1>5, <1>6, <1>7

LEMMA StepInv ==
  ASSUME IInv, [Next]_vars
  PROVE  IInv'
<1>0. TypeOK
  BY DEF IInv
<1>1. ASSUME UNCHANGED <<claims, sends>>,
             capsule' = [text |-> 0, cites |-> NoCites] \/ UNCHANGED capsule,
             current' \in 1..MaxVersions
      PROVE  IInv'
  <2>1. TypeOK'
    BY <1>0, <1>1, BoundsAssumption DEF TypeOK, NoCites
  <2>2. CitesHold(capsule.cites, capsule.text)'
    BY <1>1 DEF IInv, CitesHold, Citable, NoCites
  <2>3. \A s \in Senders : SendHolds(sends[s])'
    BY <1>1 DEF IInv, SendHolds, CitesHold, Citable
  <2> QED
    BY <2>1, <2>2, <2>3 DEF IInv
<1>2. CASE Edit \/ DeleteCapsule \/ UNCHANGED vars
  BY <1>0, <1>1, <1>2, BoundsAssumption DEF TypeOK, Edit, DeleteCapsule, vars
<1>3. ASSUME NEW s \in Senders, SendCapsule(s)
      PROVE  IInv'
  <2> PICK send \in Send : send = sends[s]
    BY <1>0 DEF TypeOK, Send
  <2>1. SendHolds(send) /\ Idle \in Send /\ SendHolds(Idle) /\ Grown
    BY <1>0, <1>3, IdleHolds, UnchangedGrown DEF IInv, SendCapsule
  <2>2. TypeOK'
    BY <1>0, <1>3, <2>1 DEF TypeOK, SendCapsule, Send
  <2>3. CitesHold(capsule.cites, capsule.text)'
    BY <1>3, <2>1 DEF IInv, SendCapsule, SendHolds, CitesHold, Citable
  <2>4. ASSUME NEW r \in Senders
        PROVE  SendHolds(sends[r])'
    <3> PICK held \in Send : held = sends'[r] /\ SendHolds(held)
      BY <1>0, <1>3, <2>1 DEF IInv, TypeOK, SendCapsule, Send
    <3> QED
      BY <1>3 DEF SendCapsule, SendHolds, CitesHold, Citable
  <2> QED
    BY <2>2, <2>3, <2>4 DEF IInv
<1>4. CASE Crash
  <2>1. Idle \in Send /\ SendHolds(Idle)
    BY IdleHolds
  <2>2. TypeOK'
    BY <1>0, <1>4, <2>1 DEF TypeOK, Crash, Send
  <2>3. CitesHold(capsule.cites, capsule.text)'
    BY <1>4 DEF IInv, Crash, CitesHold, Citable
  <2>4. \A r \in Senders : SendHolds(sends[r])'
    BY <1>4, <2>1 DEF Crash, SendHolds, CitesHold, Citable
  <2> QED
    BY <2>2, <2>3, <2>4 DEF IInv
<1> QED
  BY <1>2, <1>3, <1>4, SenderStepInv DEF Next

\* Every variable keeps its type: no request that fails leaves a sender anywhere else
\* than at its next point (core_api_bridge.py:_create_derived_claim).
THEOREM TypeCorrect == Spec => []TypeOK
<1>1. Init => IInv
  BY InitInv
<1>2. IInv /\ [Next]_vars => IInv'
  BY StepInv
<1>3. IInv => TypeOK
  BY DEF IInv
<1> QED
  BY <1>1, <1>2, <1>3, PTL DEF Spec

\* What a capsule cites for a point is an accepted claim with its evidence that says what
\* the capsule's text says, although the note is edited while it is sent, senders
\* interleave, requests fail or are carried out unanswered, and the process dies
\* (core_api_bridge.py:_create_derived_claim, _sync_capsule).
THEOREM CitationsHold == Spec => []CitedClaimsHold
<1>1. Init => IInv
  BY InitInv
<1>2. IInv /\ [Next]_vars => IInv'
  BY StepInv
<1>3. ASSUME IInv
      PROVE  CitedClaimsHold
  <2>1. TypeOK /\ CitesHold(capsule.cites, capsule.text)
    BY <1>3 DEF IInv
  <2>2. \A id \in 1..Len(claims) : claims[id] \in Claims
    BY <2>1, ClaimsTyped
  <2> QED
    BY <2>1, <2>2 DEF CitedClaimsHold, CitesHold, Citable, Claims
<1> QED
  BY <1>1, <1>2, <1>3, PTL DEF Spec

-----------------------------------------------------------------------------
(* The method archive, for every set of keys, texts and readers and every   *)
(* page size.                                                               *)

(* Operators on tables *)

LEMMA ExtendFacts ==
    ASSUME NEW f, NEW x, NEW y
    PROVE  /\ DOMAIN M!Extend(f, x, y) = DOMAIN f \cup {x}
           /\ M!Extend(f, x, y)[x] = y
           /\ \A z \in DOMAIN f : z # x => M!Extend(f, x, y)[z] = f[z]
  BY DEF M!Extend

\* Identifiers are handed out in order.
Dense(f) == \E n \in Nat : DOMAIN f = 1..n

\* The instance counts like this module.
LEMMA CountsAlike ==
    ASSUME NEW X
    PROVE  M!Cardinality(X) = Cardinality(X)
  BY DEF M!Cardinality, Cardinality

LEMMA DenseNewId ==
    ASSUME NEW f, Dense(f)
    PROVE  /\ M!NewId(f) \in Nat \ {0}
           /\ M!NewId(f) \notin DOMAIN f
           /\ \A y : Dense(M!Extend(f, M!NewId(f), y))
<1>1. PICK n \in Nat : DOMAIN f = 1..n
  BY DEF Dense
<1>2. Cardinality(1..n) = n
  BY FS_Interval
<1>3. M!NewId(f) = n + 1
  BY <1>1, <1>2, CountsAlike DEF M!NewId
<1>4. (1..n) \cup {n + 1} = 1..(n + 1)
  OBVIOUS
<1>5. \A y : DOMAIN M!Extend(f, M!NewId(f), y) = 1..(n + 1)
  <2>1. \A y : DOMAIN M!Extend(f, M!NewId(f), y) = DOMAIN f \cup {M!NewId(f)}
    BY ExtendFacts
  <2> QED
    BY <1>1, <1>3, <1>4, <2>1
<1> QED
  BY <1>1, <1>3, <1>5 DEF Dense

LEMMA RememberFacts ==
    ASSUME NEW key, NEW request, NEW response, M!Remember(key, request, response)
    PROVE  /\ DOMAIN method_idempotency' = DOMAIN method_idempotency \cup {key}
           /\ method_idempotency'[key] = [request |-> request, response |-> response]
           /\ \A k \in DOMAIN method_idempotency :
                 k # key => method_idempotency'[k] = method_idempotency[k]
  BY DEF M!Remember

LEMMA FirstOfSubset ==
    ASSUME NEW D, NEW n
    PROVE  M!FirstOf(D, n) \subseteq D /\ M!NewestOf(D, n) \subseteq D
  BY DEF M!FirstOf, M!NewestOf

-----------------------------------------------------------------------------
(* Types *)

Reading ==
    [pc : {"idle", "feedback", "count", "got", "number", "history", "missing", "drawn",
           "look", "found", "absent"},
     method : M!MethodIds \cup {M!None}, body : M!Body \cup {M!NoBody},
     outcomes : SUBSET M!OutcomeIds, listed : SUBSET M!OutcomeIds, total : Nat,
     current : M!Body \cup {M!NoBody}, count : Nat, versions : SUBSET M!Body]

\* What a reader remembers has a type as well, a method it reads exists, and
\* identifiers have no gap.
TypeInv ==
    /\ M!TypeOK
    /\ Dense(method_methods) /\ Dense(method_outcomes) /\ Dense(method_opinions)
    /\ DOMAIN method_outcomes \subseteq M!OutcomeIds
    /\ \A k \in DOMAIN method_revisions : k[1] \in DOMAIN method_methods
    /\ reads \in [Readers -> Reading]
    /\ \A r \in Readers :
          /\ reads[r].pc # "idle" => reads[r].method \in DOMAIN method_methods
          /\ reads[r].pc \in {"number", "history"} => reads[r].current \in M!Body

LEMMA BoundTypes ==
    ASSUME M!Bounds
    PROVE  /\ MaxMethods \in Nat /\ MaxVersion \in Nat \ {0} /\ MaxOutcomes \in Nat
           /\ \A n \in M!Versions \cup M!MethodIds \cup M!OutcomeIds : n \in Nat \ {0}
           /\ 1 \in M!Versions
           /\ IsFiniteSet(M!OutcomeIds)
<1>1. MaxMethods \in Nat /\ MaxVersion \in Nat \ {0} /\ MaxOutcomes \in Nat
  BY DEF M!Bounds
<1>2. IsFiniteSet(M!OutcomeIds)
  BY <1>1, FS_Interval DEF M!OutcomeIds
<1> QED
  BY <1>1, <1>2 DEF M!Versions, M!MethodIds, M!OutcomeIds

LEMMA IdleType ==
    /\ M!Idle \in Reading /\ M!Idle.pc = "idle"
  BY DEF M!Idle, Reading, M!None, M!NoBody

LEMMA TypeInit == M!Bounds /\ M!Init => TypeInv
<1> SUFFICES ASSUME M!Bounds, M!Init PROVE TypeInv
  OBVIOUS
<1>1. DOMAIN << >> = 1..0
  OBVIOUS
<1>2. /\ Dense(method_methods) /\ Dense(method_outcomes) /\ Dense(method_opinions)
      /\ DOMAIN method_methods = {} /\ DOMAIN method_outcomes = {}
      /\ DOMAIN method_opinions = {} /\ DOMAIN method_revisions = {}
      /\ DOMAIN method_idempotency = {}
  BY <1>1 DEF M!Init, Dense
<1>3. reads \in [Readers -> Reading] /\ \A r \in Readers : reads[r] = M!Idle
  BY IdleType DEF M!Init
<1>4. \A r \in Readers : reads[r].body = M!NoBody
  BY <1>3 DEF M!Idle
<1> QED
  BY <1>2, <1>3, <1>4, IdleType DEF TypeInv, M!TypeOK

\* The version replaced is saved if it was not, and the new one always.
RevisionSaved(m, body) ==
    LET old == <<m, method_methods[m].version>>
        new == <<m, body.version>>
    IN  /\ DOMAIN method_revisions' = DOMAIN method_revisions \cup {old, new}
        /\ method_revisions'[new] = body
        /\ old \notin DOMAIN method_revisions
              => method_revisions'[old] = method_methods[m]
        /\ \A k \in DOMAIN method_revisions :
              k # new => method_revisions'[k] = method_revisions[k]

LEMMA WithRevisionFacts ==
    ASSUME NEW m \in M!MethodIds, NEW body \in M!Body,
           body.version # method_methods[m].version,
           method_revisions' = M!WithRevision(m, body)
    PROVE  RevisionSaved(m, body)
<1> DEFINE old == <<m, method_methods[m].version>>
           new == <<m, body.version>>
           kept == IF old \in DOMAIN method_revisions THEN method_revisions
                   ELSE M!Extend(method_revisions, old, method_methods[m])
<1>1. method_revisions' = M!Extend(kept, new, body)
  BY DEF M!WithRevision
<1>2. old # new
  OBVIOUS
<1>3. /\ DOMAIN kept = DOMAIN method_revisions \cup {old}
      /\ old \notin DOMAIN method_revisions => kept[old] = method_methods[m]
      /\ \A k \in DOMAIN method_revisions : kept[k] = method_revisions[k]
  BY DEF M!Extend
<1> HIDE DEF kept, old, new
<1>4. /\ DOMAIN method_revisions' = DOMAIN kept \cup {new}
      /\ method_revisions'[new] = body
      /\ \A k \in DOMAIN kept : k # new => method_revisions'[k] = kept[k]
  BY <1>1 DEF M!Extend
<1>5. /\ DOMAIN method_revisions' = DOMAIN method_revisions \cup {old, new}
      /\ method_revisions'[new] = body
      /\ old \notin DOMAIN method_revisions
            => method_revisions'[old] = method_methods[m]
      /\ \A k \in DOMAIN method_revisions :
            k # new => method_revisions'[k] = method_revisions[k]
  BY <1>2, <1>3, <1>4
<1> QED
  BY <1>5 DEF old, new, RevisionSaved

LEMMA LedgerTypes ==
    ASSUME M!TypeOK, NEW key, NEW request \in M!Requests, NEW response \in M!Responses,
           M!Remember(key, request, response)
    PROVE  \A k \in DOMAIN method_idempotency' :
              /\ method_idempotency'[k].request \in M!Requests
              /\ method_idempotency'[k].response \in M!Responses
  BY DEF M!Remember, M!TypeOK

LEMMA RevisedType ==
    ASSUME M!Bounds, M!TypeOK, NEW r \in M!Requests, M!ExpectsCurrent(r),
           M!Revised(r).version \in M!Versions
    PROVE  /\ M!Revised(r) \in M!Body
           /\ M!Revised(r).version = method_methods[r.method].version + 1
           /\ M!Revised(r).previous = method_methods[r.method].version
           /\ M!Revised(r).outcome = r.outcome /\ M!Revised(r).corrected = r.corrected
           /\ method_methods[r.method].version \in Nat \ {0}
           /\ M!Revised(r).version # method_methods[r.method].version
<1>1. method_methods[r.method].version \in M!Versions
  BY DEF M!ExpectsCurrent, M!TypeOK, M!Body
<1>2. method_methods[r.method].version \in Nat \ {0}
  BY <1>1, BoundTypes
<1> QED
  BY <1>1, <1>2 DEF M!Revised, M!Body, M!Requests

LEMMA WriteTypes ==
    ASSUME M!Bounds, TypeInv, NEW key \in MethodKeys, NEW r \in M!Requests, M!Write(key, r)
    PROVE  TypeInv'
<1> USE DEF TypeInv, M!TypeOK
<1>1. CASE M!CreateMethod(key, r)
  <2> DEFINE m == M!NewId(method_methods)
             body == [version |-> 1, previous |-> M!None, text |-> r.text,
                      outcome |-> M!None, corrected |-> M!None]
             response == [kind |-> "method", id |-> m, version |-> 1]
  <2>1. body \in M!Body
    BY BoundTypes DEF M!Body, M!Requests
  <2>2. m \in Nat \ {0} /\ \A y : Dense(M!Extend(method_methods, m, y))
    BY DenseNewId
  <2>3. response \in M!Responses
    BY <2>2, BoundTypes DEF M!Responses
  <2>4. method_methods' = M!Extend(method_methods, m, body) /\ m \in M!MethodIds
    BY <1>1 DEF M!CreateMethod
  <2>5. M!Remember(key, r, response)
    BY <1>1 DEF M!CreateMethod
  <2>6. UNCHANGED <<method_revisions, method_outcomes, method_opinions, reads>>
    BY <1>1 DEF M!CreateMethod
  <2> HIDE DEF m, body, response
  <2>7. /\ DOMAIN method_methods' = DOMAIN method_methods \cup {m}
        /\ method_methods'[m] = body
        /\ \A k \in DOMAIN method_methods : k # m => method_methods'[k] = method_methods[k]
    BY <2>4 DEF M!Extend
  <2>8. \A k \in DOMAIN method_idempotency' :
           /\ method_idempotency'[k].request \in M!Requests
           /\ method_idempotency'[k].response \in M!Responses
    BY <2>3, <2>5, LedgerTypes
  <2> QED
    BY <2>1, <2>2, <2>4, <2>6, <2>7, <2>8
<1>2. CASE M!AddOutcome(key, r)
  <2> DEFINE o == M!NewId(method_outcomes)
             row == [method |-> r.method, version |-> r.version]
             response == [kind |-> "outcome", id |-> o, version |-> r.version]
  <2>1. r.method \in M!MethodIds /\ r.version \in M!Versions
    BY <1>2 DEF M!AddOutcome, M!RefersToCurrent, M!Body
  <2>2. o \in Nat \ {0} /\ \A y : Dense(M!Extend(method_outcomes, o, y))
    BY DenseNewId
  <2>3. response \in M!Responses /\ row \in [method : M!MethodIds, version : M!Versions]
    BY <2>1, <2>2 DEF M!Responses
  <2>4. method_outcomes' = M!Extend(method_outcomes, o, row) /\ o \in M!OutcomeIds
    BY <1>2 DEF M!AddOutcome
  <2>5. M!Remember(key, r, response)
    BY <1>2 DEF M!AddOutcome
  <2>6. UNCHANGED <<method_methods, method_revisions, method_opinions, reads>>
    BY <1>2 DEF M!AddOutcome
  <2> HIDE DEF o, row, response
  <2>7. /\ DOMAIN method_outcomes' = DOMAIN method_outcomes \cup {o}
        /\ method_outcomes'[o] = row
        /\ \A k \in DOMAIN method_outcomes : k # o => method_outcomes'[k] = method_outcomes[k]
    BY <2>4 DEF M!Extend
  <2>8. \A k \in DOMAIN method_idempotency' :
           /\ method_idempotency'[k].request \in M!Requests
           /\ method_idempotency'[k].response \in M!Responses
    BY <2>3, <2>5, LedgerTypes
  <2> QED
    BY <2>2, <2>3, <2>4, <2>6, <2>7, <2>8
<1>3. CASE M!AddOpinion(key, r)
  <2> DEFINE o == M!NewId(method_opinions)
             row == [method |-> r.method, version |-> r.version, outcome |-> r.outcome]
             response == [kind |-> "opinion", id |-> o, version |-> r.version]
             Opinion == [method : M!MethodIds, version : M!Versions,
                         outcome : M!OutcomeIds \cup {M!None}]
  <2>1. /\ r.method \in M!MethodIds /\ r.version \in M!Versions
        /\ r.outcome \in M!OutcomeIds \cup {M!None}
    BY <1>3 DEF M!AddOpinion, M!RefersToCurrent, M!Body, M!Requests
  <2>2. o \in Nat \ {0} /\ \A y : Dense(M!Extend(method_opinions, o, y))
    BY DenseNewId
  <2>3. response \in M!Responses /\ row \in Opinion
    BY <2>1, <2>2 DEF M!Responses
  <2>4. method_opinions' = M!Extend(method_opinions, o, row)
    BY <1>3 DEF M!AddOpinion
  <2>5. M!Remember(key, r, response)
    BY <1>3 DEF M!AddOpinion
  <2>6. UNCHANGED <<method_methods, method_revisions, method_outcomes, reads>>
    BY <1>3 DEF M!AddOpinion
  <2>7. \A k \in DOMAIN method_opinions : method_opinions[k] \in Opinion
    OBVIOUS
  <2> HIDE DEF o, row, response, Opinion
  <2>8. /\ DOMAIN method_opinions' = DOMAIN method_opinions \cup {o}
        /\ method_opinions'[o] = row
        /\ \A k \in DOMAIN method_opinions : k # o => method_opinions'[k] = method_opinions[k]
    BY <2>4 DEF M!Extend
  <2>9. \A k \in DOMAIN method_opinions' : method_opinions'[k] \in Opinion
    BY <2>3, <2>7, <2>8
  <2>10. \A k \in DOMAIN method_idempotency' :
           /\ method_idempotency'[k].request \in M!Requests
           /\ method_idempotency'[k].response \in M!Responses
    BY <2>3, <2>5, LedgerTypes
  <2> QED
    BY <2>2, <2>4, <2>6, <2>9, <2>10 DEF Opinion
<1>4. CASE M!Revise(key, r)
  <2> DEFINE body == M!Revised(r)
             response == [kind |-> "revision", id |-> r.method, version |-> body.version]
             old == <<r.method, method_methods[r.method].version>>
             new == <<r.method, body.version>>
  <2>1. M!ExpectsCurrent(r) /\ body.version \in M!Versions /\ r.method \in DOMAIN method_methods
    BY <1>4 DEF M!Revise, M!ExpectsCurrent
  <2>2. body \in M!Body /\ body.version # method_methods[r.method].version
    BY <2>1, RevisedType
  <2>3. response \in M!Responses
    BY <2>1, BoundTypes DEF M!Responses
  <2>4. /\ method_revisions' = M!WithRevision(r.method, body)
        /\ method_methods' = [method_methods EXCEPT ![r.method] = body]
        /\ UNCHANGED <<method_outcomes, method_opinions, reads>>
    BY <1>4 DEF M!Revise
  <2>5. M!Remember(key, r, response)
    BY <1>4 DEF M!Revise
  <2>6. /\ DOMAIN method_revisions' = DOMAIN method_revisions \cup {old, new}
        /\ method_revisions'[new] = body
        /\ old \notin DOMAIN method_revisions
              => method_revisions'[old] = method_methods[r.method]
        /\ \A k \in DOMAIN method_revisions :
              k # new => method_revisions'[k] = method_revisions[k]
    <3>1. method_revisions' = M!WithRevision(r.method, body)
      BY <2>4
    <3>2. r.method \in M!MethodIds
      BY <2>1
    <3>3. RevisionSaved(r.method, body)
      BY <2>2, <3>1, <3>2, WithRevisionFacts
    <3> QED
      BY <3>3 DEF RevisionSaved
  <2>7. \A k \in DOMAIN method_idempotency' :
           /\ method_idempotency'[k].request \in M!Requests
           /\ method_idempotency'[k].response \in M!Responses
    BY <2>3, <2>5, LedgerTypes
  <2> HIDE DEF body, response
  <2>8. /\ DOMAIN method_methods' = DOMAIN method_methods
        /\ method_methods'[r.method] = body
        /\ \A m \in DOMAIN method_methods :
              m # r.method => method_methods'[m] = method_methods[m]
    BY <2>1, <2>4
  <2>9. \A m \in DOMAIN method_methods' : method_methods'[m] \in M!Body
    BY <2>2, <2>8
  <2>10. Dense(method_methods)'
    BY <2>8 DEF Dense
  <2>11. method_methods[r.method] \in M!Body /\ method_methods[r.method].version \in M!Versions
    BY <2>1 DEF M!Body
  <2>12. /\ old \in M!MethodIds \X M!Versions /\ new \in M!MethodIds \X M!Versions
         /\ old[1] = r.method /\ new[1] = r.method
         /\ old[2] = method_methods[r.method].version /\ new[2] = body.version
    BY <2>1, <2>11 DEF body
  <2> HIDE DEF old, new
  <2>13. /\ DOMAIN method_revisions' \subseteq M!MethodIds \X M!Versions
         /\ \A k \in DOMAIN method_revisions' : k[1] \in DOMAIN method_methods
    BY <2>1, <2>6, <2>12
  <2>14. \A k \in DOMAIN method_revisions' :
            method_revisions'[k] \in M!Body /\ method_revisions'[k].version = k[2]
    BY <2>2, <2>6, <2>11, <2>12
  <2> QED
    BY <2>4, <2>7, <2>8, <2>9, <2>10, <2>13, <2>14
<1> QED
  BY <1>1, <1>2, <1>3, <1>4 DEF M!Write

-----------------------------------------------------------------------------
(* What a read's statement does *)

\* The reader's next record q, of its last record p.
Answers(p, q) ==
    \/ q.pc = "idle"
    \/ /\ q.pc = "feedback" /\ q.method \in DOMAIN method_methods
       /\ q.body = method_methods[q.method]
    \/ /\ p.pc = "feedback" /\ q.pc = "count"
       /\ q.method = p.method /\ q.body = p.body
       /\ q.outcomes \subseteq q.listed /\ q.listed = M!OutcomesOf(p.method)
    \/ /\ p.pc = "count" /\ q.pc = "got"
       /\ q.method = p.method /\ q.body = p.body
       /\ q.outcomes = p.outcomes /\ q.listed = p.listed
       /\ q.total = Cardinality(M!OutcomesOf(p.method))
    \/ /\ p.pc = "got" /\ q.pc = "number"
       /\ q.method = p.method /\ q.body = p.body
       /\ q.current = method_methods[p.method]
    \/ /\ p.pc = "number" /\ q.pc = "history"
       /\ q.method = p.method /\ q.body = p.body /\ q.current = p.current
    \/ /\ p.pc = "history" /\ q.pc = "missing"
       /\ q.method = p.method /\ q.body = p.body
       /\ q.versions \subseteq M!SavedVersions(p.method) \cup {p.current}
    \/ /\ p.pc = "missing" /\ q.pc = "drawn"
       /\ q.method = p.method /\ q.body = p.body /\ q.versions = p.versions
       /\ q.outcomes = M!LoadedOutcomes(p) \cup M!MissingOutcomes(p)
    \/ /\ q.pc = "found" /\ q.method \in DOMAIN method_methods
       /\ <<q.method, q.count>> \in DOMAIN method_revisions
       /\ q.body = method_revisions[<<q.method, q.count>>]
    \/ q.pc = "look" /\ q.method \in DOMAIN method_methods
    \/ /\ p.pc = "look" /\ q.pc = "found"
       /\ q.method = p.method /\ q.count = p.count
       /\ method_methods[q.method].version = q.count
       /\ q.body = method_methods[q.method]
    \/ p.pc = "look" /\ q.pc = "absent" /\ q.method = p.method

ReadEffect(r) ==
    /\ UNCHANGED M!tables
    /\ reads' \in [Readers -> Reading]
    /\ \A s \in Readers : s # r => reads'[s] = reads[s]
    /\ Answers(reads[r], reads'[r])

LEMMA TableTypes ==
    ASSUME M!Bounds, TypeInv
    PROVE  /\ \A m : M!OutcomesOf(m) \in SUBSET M!OutcomeIds
           /\ \A m : IsFiniteSet(M!OutcomesOf(m)) /\ Cardinality(M!OutcomesOf(m)) \in Nat
           /\ \A m : M!SavedVersions(m) \in SUBSET M!Body
<1>1. \A m : M!OutcomesOf(m) \in SUBSET M!OutcomeIds
  BY DEF M!OutcomesOf, TypeInv
<1>2. \A m : IsFiniteSet(M!OutcomesOf(m))
  BY <1>1, BoundTypes, FS_Subset
<1>3. \A m : M!SavedVersions(m) \in SUBSET M!Body
  BY DEF M!SavedVersions, TypeInv, M!TypeOK
<1> QED
  BY <1>1, <1>2, <1>3, FS_CardinalityType

LEMMA SavedFinite ==
    ASSUME M!Bounds, TypeInv
    PROVE  \A m : Cardinality(M!SavedVersions(m)) \in Nat
<1> SUFFICES ASSUME NEW m PROVE Cardinality(M!SavedVersions(m)) \in Nat
  OBVIOUS
<1> DEFINE keys == {j \in DOMAIN method_revisions : j[1] = m}
           body == [j \in keys |-> method_revisions[j]]
<1>1. IsFiniteSet(M!MethodIds) /\ IsFiniteSet(M!Versions)
  BY BoundTypes, FS_Interval DEF M!MethodIds, M!Versions
<1>2. IsFiniteSet(M!MethodIds \X M!Versions)
  BY <1>1, FS_Product
<1>3. IsFiniteSet(keys)
  BY <1>2, FS_Subset DEF TypeInv, M!TypeOK
<1>4. body \in Surjection(keys, M!SavedVersions(m))
  BY DEF M!SavedVersions, Surjection
<1>5. IsFiniteSet(M!SavedVersions(m))
  BY <1>3, <1>4, FS_Surjection
<1> QED
  BY <1>5, FS_CardinalityType

LEMMA ReadSteps ==
    ASSUME M!Bounds, TypeInv, NEW r \in Readers, M!Read(r)
    PROVE  ReadEffect(r)
<1> DEFINE p == reads[r]
           q == reads'[r]
<1>1. p \in Reading /\ reads \in [Readers -> Reading]
  BY DEF TypeInv
<1>2. ASSUME q \in Reading, UNCHANGED M!tables, Answers(p, q),
             NEW e, reads' = [reads EXCEPT ![r] = e]
      PROVE  ReadEffect(r)
  BY <1>1, <1>2 DEF ReadEffect
<1>3. \A m \in DOMAIN method_methods : m \in M!MethodIds /\ method_methods[m] \in M!Body
  BY DEF TypeInv, M!TypeOK
<1>4. p.pc # "idle" => p.method \in DOMAIN method_methods
  BY DEF TypeInv
<1>5. ASSUME NEW m \in M!MethodIds, M!GetMethod(r, m)
      PROVE  ReadEffect(r)
  <2> DEFINE e == [M!Idle EXCEPT !.pc = "feedback", !.method = m,
                               !.body = method_methods[m]]
  <2>1. reads' = [reads EXCEPT ![r] = e] /\ UNCHANGED M!tables
        /\ m \in DOMAIN method_methods
    BY <1>5 DEF M!GetMethod
  <2>2. q = e
    BY <1>1, <2>1
  <2>3. /\ e \in Reading /\ e.pc = "feedback" /\ e.method = m
        /\ e.body = method_methods[m]
    BY <1>3, <2>1, IdleType DEF M!Idle, Reading
  <2> HIDE DEF e
  <2> QED
    BY <1>2, <2>1, <2>2, <2>3 DEF Answers
<1>6. CASE M!GetFeedback(r)
  <2> DEFINE all == M!OutcomesOf(p.method)
             e == [p EXCEPT !.pc = "count", !.outcomes = M!FirstOf(all, PAGE),
                            !.listed = all]
  <2>1. reads' = [reads EXCEPT ![r] = e] /\ UNCHANGED M!tables /\ p.pc = "feedback"
    BY <1>6 DEF M!GetFeedback
  <2>2. q = e
    BY <1>1, <2>1
  <2>3. M!FirstOf(all, PAGE) \subseteq all /\ all \in SUBSET M!OutcomeIds
    BY FirstOfSubset, TableTypes
  <2> DEFINE page == M!FirstOf(all, PAGE)
  <2>4. e = [p EXCEPT !.pc = "count", !.outcomes = page, !.listed = all]
    OBVIOUS
  <2> HIDE DEF e, page
  <2>5. /\ page \subseteq all /\ all \in SUBSET M!OutcomeIds
    BY <2>3 DEF page
  <2> HIDE DEF all, p
  <2>6. /\ e \in Reading /\ e.pc = "count" /\ e.method = p.method
        /\ e.body = p.body /\ e.outcomes = page /\ e.listed = all
    BY <1>1, <2>4, <2>5 DEF Reading
  <2> QED
    BY <1>2, <2>1, <2>2, <2>5, <2>6 DEF Answers, all
<1>7. CASE M!CountFeedback(r)
  <2> DEFINE n == Cardinality(M!OutcomesOf(p.method))
             e == [p EXCEPT !.pc = "got", !.total = n]
  <2>1. reads' = [reads EXCEPT ![r] = e] /\ UNCHANGED M!tables /\ p.pc = "count"
    BY <1>7, CountsAlike DEF M!CountFeedback
  <2>2. q = e
    BY <1>1, <2>1
  <2>3. n \in Nat
    BY TableTypes
  <2> HIDE DEF n, p
  <2>4. /\ e \in Reading /\ e.pc = "got" /\ e.method = p.method /\ e.body = p.body
        /\ e.outcomes = p.outcomes /\ e.listed = p.listed /\ e.total = n
    BY <1>1, <2>3 DEF Reading
  <2> HIDE DEF e
  <2> QED
    BY <1>2, <2>1, <2>2, <2>4 DEF Answers, n
<1>8. CASE M!ReadCurrent(r)
  <2> DEFINE b == method_methods[p.method]
             e == [p EXCEPT !.pc = "number", !.current = b]
  <2>1. reads' = [reads EXCEPT ![r] = e] /\ UNCHANGED M!tables /\ p.pc = "got"
    BY <1>8 DEF M!ReadCurrent
  <2>2. q = e
    BY <1>1, <2>1
  <2>3. b \in M!Body
    BY <1>3, <1>4, <2>1
  <2> HIDE DEF b, p
  <2>4. /\ e \in Reading /\ e.pc = "number" /\ e.method = p.method /\ e.body = p.body
        /\ e.current = b
    BY <1>1, <2>3 DEF Reading
  <2> HIDE DEF e
  <2> QED
    BY <1>2, <2>1, <2>2, <2>4 DEF Answers, b
<1>9. CASE M!CountRevisions(r)
  <2> DEFINE n == Cardinality(M!SavedVersions(p.method))
             e == [p EXCEPT !.pc = "history", !.count = n]
  <2>1. reads' = [reads EXCEPT ![r] = e] /\ UNCHANGED M!tables /\ p.pc = "number"
    BY <1>9, CountsAlike DEF M!CountRevisions
  <2>2. q = e
    BY <1>1, <2>1
  <2>3. n \in Nat
    BY SavedFinite
  <2> HIDE DEF n, p
  <2>4. /\ e \in Reading /\ e.pc = "history" /\ e.method = p.method /\ e.body = p.body
        /\ e.current = p.current
    BY <1>1, <2>3 DEF Reading
  <2> HIDE DEF e
  <2> QED
    BY <1>2, <2>1, <2>2, <2>4 DEF Answers
<1>10. CASE M!ReadHistory(r)
  <2> DEFINE page == M!NewestOf(M!SavedVersions(p.method), GRAPH_PAGE)
             V == IF p.count = 0 THEN {p.current} ELSE page
             e == [p EXCEPT !.pc = "missing", !.versions = V]
  <2>1. reads' = [reads EXCEPT ![r] = e] /\ UNCHANGED M!tables /\ p.pc = "history"
    BY <1>10 DEF M!ReadHistory
  <2>2. q = e
    BY <1>1, <2>1
  <2>3. page \subseteq M!SavedVersions(p.method) /\ M!SavedVersions(p.method) \in SUBSET M!Body
    BY FirstOfSubset, TableTypes
  <2>4. p.current \in M!Body
    BY <2>1 DEF TypeInv
  <2>5. V \subseteq M!SavedVersions(p.method) \cup {p.current} /\ V \in SUBSET M!Body
    BY <2>3, <2>4
  <2> HIDE DEF V, p
  <2>6. /\ e \in Reading /\ e.pc = "missing" /\ e.method = p.method /\ e.body = p.body
        /\ e.versions = V
    BY <1>1, <2>5 DEF Reading
  <2> HIDE DEF e
  <2> QED
    BY <1>2, <2>1, <2>2, <2>5, <2>6 DEF Answers
<1>11. CASE M!FetchMissing(r)
  <2> DEFINE O == M!LoadedOutcomes(p) \cup M!MissingOutcomes(p)
             e == [p EXCEPT !.pc = "drawn", !.outcomes = O]
  <2>1. reads' = [reads EXCEPT ![r] = e] /\ UNCHANGED M!tables /\ p.pc = "missing"
    BY <1>11 DEF M!FetchMissing
  <2>2. q = e
    BY <1>1, <2>1
  <2>3. /\ M!LoadedOutcomes(p) \subseteq p.outcomes
        /\ M!MissingOutcomes(p) \subseteq M!OutcomesOf(p.method)
    BY FirstOfSubset DEF M!LoadedOutcomes, M!MissingOutcomes
  <2>4. p.outcomes \in SUBSET M!OutcomeIds /\ M!OutcomesOf(p.method) \in SUBSET M!OutcomeIds
    BY <1>1, TableTypes DEF Reading
  <2>5. O \in SUBSET M!OutcomeIds
    BY <2>3, <2>4
  <2> HIDE DEF O, p
  <2>6. /\ e \in Reading /\ e.pc = "drawn" /\ e.method = p.method /\ e.body = p.body
        /\ e.versions = p.versions /\ e.outcomes = O
    BY <1>1, <2>5 DEF Reading
  <2> HIDE DEF e
  <2> QED
    BY <1>2, <2>1, <2>2, <2>6 DEF Answers, O
<1>12. ASSUME NEW m \in M!MethodIds, NEW v \in M!Versions, M!LookInRevisions(r, m, v)
       PROVE  ReadEffect(r)
  <2> DEFINE found == [M!Idle EXCEPT !.pc = "found", !.method = m, !.count = v,
                                   !.body = method_revisions[<<m, v>>]]
             look == [M!Idle EXCEPT !.pc = "look", !.method = m, !.count = v]
  <2>1. UNCHANGED M!tables /\ m \in DOMAIN method_methods /\ v \in Nat
    BY <1>12, BoundTypes DEF M!LookInRevisions
  <2>2. CASE <<m, v>> \in DOMAIN method_revisions
    <3>1. reads' = [reads EXCEPT ![r] = found]
      BY <1>12, <2>2 DEF M!LookInRevisions
    <3>2. q = found
      BY <1>1, <3>1
    <3>3. method_revisions[<<m, v>>] \in M!Body
      BY <2>2 DEF TypeInv, M!TypeOK
    <3>4. /\ found \in Reading /\ found.pc = "found" /\ found.method = m
          /\ found.count = v /\ found.body = method_revisions[<<m, v>>]
      BY <2>1, <3>3, IdleType DEF M!Idle, Reading
    <3> HIDE DEF found
    <3> QED
      BY <1>2, <2>1, <2>2, <3>1, <3>2, <3>4 DEF Answers
  <2>3. CASE <<m, v>> \notin DOMAIN method_revisions
    <3>1. reads' = [reads EXCEPT ![r] = look]
      BY <1>12, <2>3 DEF M!LookInRevisions
    <3>2. q = look
      BY <1>1, <3>1
    <3>3. look \in Reading /\ look.pc = "look" /\ look.method = m
      BY <2>1, IdleType DEF M!Idle, Reading
    <3> HIDE DEF look
    <3> QED
      BY <1>2, <2>1, <3>1, <3>2, <3>3 DEF Answers
  <2> QED
    BY <2>2, <2>3
<1>13. CASE M!LookAtCurrent(r)
  <2> DEFINE b == method_methods[p.method]
             found == [p EXCEPT !.pc = "found", !.body = b]
             absent == [p EXCEPT !.pc = "absent"]
  <2>1. UNCHANGED M!tables /\ p.pc = "look"
    BY <1>13 DEF M!LookAtCurrent
  <2>2. b \in M!Body
    BY <1>3, <1>4, <2>1
  <2>3. CASE b.version = p.count
    <3>1. reads' = [reads EXCEPT ![r] = found]
      BY <1>13, <2>3 DEF M!LookAtCurrent
    <3>2. q = found
      BY <1>1, <3>1
    <3> HIDE DEF b, p
    <3>3. /\ found \in Reading /\ found.pc = "found" /\ found.method = p.method
          /\ found.count = p.count /\ found.body = b
      BY <1>1, <2>2 DEF Reading
    <3> HIDE DEF found
    <3> QED
      BY <1>2, <2>1, <2>3, <3>1, <3>2, <3>3 DEF Answers, b
  <2>4. CASE b.version # p.count
    <3>1. reads' = [reads EXCEPT ![r] = absent]
      BY <1>13, <2>4 DEF M!LookAtCurrent
    <3>2. q = absent
      BY <1>1, <3>1
    <3> HIDE DEF p
    <3>3. absent \in Reading /\ absent.pc = "absent" /\ absent.method = p.method
      BY <1>1 DEF Reading
    <3> HIDE DEF absent
    <3> QED
      BY <1>2, <2>1, <3>1, <3>2, <3>3 DEF Answers
  <2> QED
    BY <2>3, <2>4
<1>14. CASE M!Respond(r)
  BY <1>1, <1>2, <1>14, IdleType DEF M!Respond, Answers
<1> QED
  BY <1>5, <1>6, <1>7, <1>8, <1>9, <1>10, <1>11, <1>12, <1>13, <1>14 DEF M!Read

LEMMA TypeNext == M!Bounds /\ TypeInv /\ [M!Next]_M!vars => TypeInv'
<1> SUFFICES ASSUME M!Bounds, TypeInv, [M!Next]_M!vars PROVE TypeInv'
  OBVIOUS
<1>1. ASSUME NEW key \in MethodKeys, NEW request \in M!Requests, M!Write(key, request)
      PROVE  TypeInv'
  BY <1>1, WriteTypes
<1>2. ASSUME NEW r \in Readers, M!Read(r)
      PROVE  TypeInv'
  <2>1. ReadEffect(r)
    BY <1>2, ReadSteps
  <2>2. UNCHANGED M!tables /\ reads' \in [Readers -> Reading]
        /\ \A s \in Readers : s # r => reads'[s] = reads[s]
    BY <2>1 DEF ReadEffect
  <2>3. reads'[r].pc # "idle" => reads'[r].method \in DOMAIN method_methods
    BY <2>1 DEF ReadEffect, Answers, TypeInv
  <2>4. reads'[r].pc \in {"number", "history"} => reads'[r].current \in M!Body
    BY <2>1 DEF ReadEffect, Answers, TypeInv, M!TypeOK
  <2>5. \A s \in Readers : reads'[s].body \in M!Body \cup {M!NoBody}
    BY <2>2 DEF Reading
  <2>6. M!TypeOK'
    BY <2>2, <2>5 DEF TypeInv, M!TypeOK, M!tables
  <2> QED
    BY <2>2, <2>3, <2>4, <2>6 DEF TypeInv, M!tables, Dense
<1>3. CASE UNCHANGED M!vars
  BY <1>3 DEF M!vars, M!tables, TypeInv, M!TypeOK, Dense
<1> QED
  BY <1>1, <1>2, <1>3 DEF M!Next

\* Rows keep to their schema, whoever writes and reads at once.
THEOREM ArchiveTyped ==
    ASSUME M!Bounds
    PROVE  M!Spec => []M!TypeOK
<1>1. M!Init => TypeInv
  BY TypeInit
<1>2. TypeInv /\ [M!Next]_M!vars => TypeInv'
  BY TypeNext
<1>3. TypeInv => M!TypeOK
  BY DEF TypeInv
<1> QED
  BY <1>1, <1>2, <1>3, PTL DEF M!Spec

-----------------------------------------------------------------------------
(* What a write does *)

MethodMade ==
    LET m == M!NewId(method_methods)
    IN  /\ m \in M!MethodIds /\ m \notin DOMAIN method_methods
        /\ DOMAIN method_methods' = DOMAIN method_methods \cup {m}
        /\ method_methods'[m].version = 1
        /\ method_methods'[m].previous = M!None
        /\ method_methods'[m].outcome = M!None
        /\ \A n \in DOMAIN method_methods : method_methods'[n] = method_methods[n]
        /\ UNCHANGED <<method_revisions, method_outcomes, method_opinions, reads>>

OutcomeMade(r) ==
    LET o == M!NewId(method_outcomes)
    IN  /\ M!RefersToCurrent(r)
        /\ o \in M!OutcomeIds /\ o \notin DOMAIN method_outcomes
        /\ DOMAIN method_outcomes' = DOMAIN method_outcomes \cup {o}
        /\ method_outcomes'[o].method = r.method
        /\ method_outcomes'[o].version = r.version
        /\ \A n \in DOMAIN method_outcomes : method_outcomes'[n] = method_outcomes[n]
        /\ UNCHANGED <<method_methods, method_revisions, method_opinions, reads>>

OpinionMade(r) ==
    LET o == M!NewId(method_opinions)
    IN  /\ M!RefersToCurrent(r)
        /\ r.outcome # M!None => M!IsOutcomeOf(r.outcome, r.method, r.version)
        /\ o \in Nat \ {0} /\ o \notin DOMAIN method_opinions
        /\ DOMAIN method_opinions' = DOMAIN method_opinions \cup {o}
        /\ method_opinions'[o].method = r.method
        /\ method_opinions'[o].version = r.version
        /\ method_opinions'[o].outcome = r.outcome
        /\ \A n \in DOMAIN method_opinions : method_opinions'[n] = method_opinions[n]
        /\ UNCHANGED <<method_methods, method_revisions, method_outcomes, reads>>

RevisionMade(r) ==
    LET m == r.method
        body == M!Revised(r)
    IN  /\ m \in DOMAIN method_methods
        /\ r.version = method_methods[m].version
        /\ body \in M!Body
        /\ body.version = method_methods[m].version + 1
        /\ body.previous = method_methods[m].version
        /\ body.outcome = r.outcome /\ body.corrected = r.corrected
        /\ M!CorrectionHolds(r)
        /\ RevisionSaved(m, body)
        /\ DOMAIN method_methods' = DOMAIN method_methods
        /\ method_methods'[m] = body
        /\ \A n \in DOMAIN method_methods : n # m => method_methods'[n] = method_methods[n]
        /\ UNCHANGED <<method_outcomes, method_opinions, reads>>

Remembered(key, r, response) ==
    /\ key \notin DOMAIN method_idempotency
    /\ DOMAIN method_idempotency' = DOMAIN method_idempotency \cup {key}
    /\ method_idempotency'[key].request = r
    /\ method_idempotency'[key].response = response
    /\ \A k \in DOMAIN method_idempotency :
          method_idempotency'[k] = method_idempotency[k]

WriteEffect(key, r) ==
    \/ /\ r.kind = "method" /\ MethodMade
       /\ Remembered(key, r, [kind |-> "method", id |-> M!NewId(method_methods),
                              version |-> 1])
    \/ /\ r.kind = "outcome" /\ OutcomeMade(r)
       /\ Remembered(key, r, [kind |-> "outcome", id |-> M!NewId(method_outcomes),
                              version |-> r.version])
    \/ /\ r.kind = "opinion" /\ OpinionMade(r)
       /\ Remembered(key, r, [kind |-> "opinion", id |-> M!NewId(method_opinions),
                              version |-> r.version])
    \/ /\ r.kind = "revision" /\ RevisionMade(r)
       /\ Remembered(key, r, [kind |-> "revision", id |-> r.method,
                              version |-> M!Revised(r).version])

LEMMA RememberedOnce ==
    ASSUME NEW key, NEW request, NEW response, M!Fresh(key),
           M!Remember(key, request, response)
    PROVE  Remembered(key, request, response)
  BY DEF M!Fresh, M!Remember, Remembered

LEMMA WriteSteps ==
    ASSUME M!Bounds, TypeInv, NEW key \in MethodKeys, NEW r \in M!Requests, M!Write(key, r)
    PROVE  WriteEffect(key, r)
<1>1. CASE M!CreateMethod(key, r)
  <2> DEFINE m == M!NewId(method_methods)
             body == [version |-> 1, previous |-> M!None, text |-> r.text,
                      outcome |-> M!None, corrected |-> M!None]
  <2>1. method_methods' = M!Extend(method_methods, m, body) /\ m \in M!MethodIds
    BY <1>1 DEF M!CreateMethod
  <2>2. m \notin DOMAIN method_methods
    BY DenseNewId DEF TypeInv
  <2>3. /\ M!Fresh(key) /\ M!Remember(key, r, [kind |-> "method", id |-> m, version |-> 1])
        /\ r.kind = "method"
        /\ UNCHANGED <<method_revisions, method_outcomes, method_opinions, reads>>
    BY <1>1 DEF M!CreateMethod
  <2>4. Remembered(key, r, [kind |-> "method", id |-> m, version |-> 1])
    BY <2>3, RememberedOnce
  <2>5. body.version = 1 /\ body.previous = M!None /\ body.outcome = M!None
    OBVIOUS
  <2> HIDE DEF body
  <2>6. MethodMade
    BY <2>1, <2>2, <2>3, <2>5 DEF MethodMade, M!Extend
  <2> QED
    BY <2>3, <2>4, <2>6 DEF WriteEffect
<1>2. CASE M!AddOutcome(key, r)
  <2> DEFINE o == M!NewId(method_outcomes)
             row == [method |-> r.method, version |-> r.version]
  <2>1. method_outcomes' = M!Extend(method_outcomes, o, row) /\ o \in M!OutcomeIds
    BY <1>2 DEF M!AddOutcome
  <2>2. o \notin DOMAIN method_outcomes
    BY DenseNewId DEF TypeInv
  <2>3. /\ M!Fresh(key) /\ M!RefersToCurrent(r) /\ r.kind = "outcome"
        /\ M!Remember(key, r, [kind |-> "outcome", id |-> o, version |-> r.version])
        /\ UNCHANGED <<method_methods, method_revisions, method_opinions, reads>>
    BY <1>2 DEF M!AddOutcome
  <2>4. Remembered(key, r, [kind |-> "outcome", id |-> o, version |-> r.version])
    BY <2>3, RememberedOnce
  <2>5. row.method = r.method /\ row.version = r.version
    OBVIOUS
  <2> HIDE DEF row
  <2>6. OutcomeMade(r)
    BY <2>1, <2>2, <2>3, <2>5 DEF OutcomeMade, M!Extend
  <2> QED
    BY <2>3, <2>4, <2>6 DEF WriteEffect
<1>3. CASE M!AddOpinion(key, r)
  <2> DEFINE o == M!NewId(method_opinions)
             row == [method |-> r.method, version |-> r.version, outcome |-> r.outcome]
  <2>1. method_opinions' = M!Extend(method_opinions, o, row)
    BY <1>3 DEF M!AddOpinion
  <2>2. o \notin DOMAIN method_opinions /\ o \in Nat \ {0}
    BY DenseNewId DEF TypeInv
  <2>3. /\ M!Fresh(key) /\ M!RefersToCurrent(r) /\ r.kind = "opinion"
        /\ r.outcome # M!None => M!IsOutcomeOf(r.outcome, r.method, r.version)
        /\ M!Remember(key, r, [kind |-> "opinion", id |-> o, version |-> r.version])
        /\ UNCHANGED <<method_methods, method_revisions, method_outcomes, reads>>
    BY <1>3 DEF M!AddOpinion
  <2>4. Remembered(key, r, [kind |-> "opinion", id |-> o, version |-> r.version])
    BY <2>3, RememberedOnce
  <2>5. row.method = r.method /\ row.version = r.version /\ row.outcome = r.outcome
    OBVIOUS
  <2> HIDE DEF row
  <2>6. OpinionMade(r)
    BY <2>1, <2>2, <2>3, <2>5 DEF OpinionMade, M!Extend
  <2> QED
    BY <2>3, <2>4, <2>6 DEF WriteEffect
<1>4. CASE M!Revise(key, r)
  <2> DEFINE body == M!Revised(r)
  <2>1. /\ M!ExpectsCurrent(r) /\ body.version \in M!Versions /\ M!CorrectionHolds(r)
        /\ M!Fresh(key) /\ r.kind = "revision"
        /\ M!Remember(key, r, [kind |-> "revision", id |-> r.method,
                             version |-> body.version])
        /\ method_revisions' = M!WithRevision(r.method, body)
        /\ method_methods' = [method_methods EXCEPT ![r.method] = body]
        /\ UNCHANGED <<method_outcomes, method_opinions, reads>>
    BY <1>4 DEF M!Revise
  <2>2. /\ body \in M!Body
        /\ body.version = method_methods[r.method].version + 1
        /\ body.previous = method_methods[r.method].version
        /\ body.outcome = r.outcome /\ body.corrected = r.corrected
        /\ body.version # method_methods[r.method].version
    BY <2>1, RevisedType DEF TypeInv
  <2>3. r.method \in DOMAIN method_methods /\ r.version = method_methods[r.method].version
    BY <2>1 DEF M!ExpectsCurrent
  <2>4. r.method \in M!MethodIds
    BY <2>3 DEF TypeInv, M!TypeOK
  <2>5. RevisionSaved(r.method, body)
    BY <2>1, <2>2, <2>4, WithRevisionFacts
  <2>6. Remembered(key, r, [kind |-> "revision", id |-> r.method,
                            version |-> body.version])
    BY <2>1, RememberedOnce
  <2>7. /\ DOMAIN method_methods' = DOMAIN method_methods
        /\ method_methods'[r.method] = body
        /\ \A n \in DOMAIN method_methods :
              n # r.method => method_methods'[n] = method_methods[n]
    BY <2>1, <2>3
  <2>8. RevisionMade(r)
    BY <2>1, <2>2, <2>3, <2>5, <2>7 DEF RevisionMade
  <2> QED
    BY <2>1, <2>6, <2>8 DEF WriteEffect
<1> QED
  BY <1>1, <1>2, <1>3, <1>4 DEF M!Write

-----------------------------------------------------------------------------
(* The rows fit each other *)

\* An outcome that a body names was reported for the method.
Addressed(b, m) == b.outcome # M!None => b.outcome \in M!OutcomesOf(m)

RevisionsExpected ==
    \A k \in DOMAIN method_idempotency :
        LET e == method_idempotency[k]
        IN  e.request.kind = "revision" => e.response.version = e.request.version + 1

SavedUpToCurrent ==
    \A m \in DOMAIN method_methods :
        /\ M!Current(m) > 1 =>
               /\ \A v \in 1..M!Current(m) : <<m, v>> \in DOMAIN method_revisions
               /\ method_revisions[<<m, M!Current(m)>>] = method_methods[m]
        /\ M!Current(m) = 1 => \A v \in M!Versions : <<m, v>> \notin DOMAIN method_revisions
        /\ M!Current(m) = method_methods[m].previous + 1
        /\ \A v \in M!Versions : <<m, v>> \in DOMAIN method_revisions =>
               /\ v <= M!Current(m)
               /\ method_revisions[<<m, v>>].previous = v - 1

SavedAddressed ==
    \A k \in DOMAIN method_revisions : Addressed(method_revisions[k], k[1])

\* HistoryUnbroken is inductive with what a method never revised has, nothing
\* saved, FeedbackExact with what it says of current bodies said of saved ones.
RowsFit == SavedUpToCurrent /\ RevisionsExpected /\ M!FeedbackExact /\ SavedAddressed

\* Nothing that could be read goes or changes.
Grows ==
    /\ DOMAIN method_methods \subseteq DOMAIN method_methods'
    /\ \A m : M!OutcomesOf(m) \subseteq M!OutcomesOf(m)'
    /\ \A m \in M!MethodIds, v \in M!Versions :
          M!Known(m, v) # M!NoBody => M!Known(m, v)' = M!Known(m, v)

LEMMA RowsInit == M!Init => RowsFit
  BY DEF M!Init, RowsFit, SavedUpToCurrent, RevisionsExpected, M!FeedbackExact,
         SavedAddressed

LEMMA RowTypes ==
    ASSUME M!Bounds, TypeInv
    PROVE  /\ \A m \in DOMAIN method_methods :
                 /\ m \in M!MethodIds /\ m \in Nat \ {0}
                 /\ method_methods[m] \in M!Body
                 /\ M!Current(m) \in M!Versions /\ M!Current(m) \in Nat \ {0}
                 /\ method_methods[m].previous \in Nat
           /\ \A k \in DOMAIN method_revisions :
                 /\ method_revisions[k] \in M!Body /\ method_revisions[k].version = k[2]
                 /\ k = <<k[1], k[2]>> /\ k[1] \in M!MethodIds /\ k[2] \in M!Versions
                 /\ k[2] \in Nat \ {0}
           /\ \A v \in M!Versions : v \in Nat \ {0}
           /\ M!None \notin M!OutcomeIds /\ M!None = 0
<1>1. \A m \in DOMAIN method_methods : method_methods[m] \in M!Body /\ m \in M!MethodIds
  BY DEF TypeInv, M!TypeOK
<1>2. \A m \in DOMAIN method_methods :
         /\ M!Current(m) \in M!Versions
         /\ method_methods[m].previous \in M!Versions \cup {M!None}
  BY <1>1 DEF M!Body, M!Current
<1>3. \A k \in DOMAIN method_revisions :
         /\ method_revisions[k] \in M!Body /\ method_revisions[k].version = k[2]
         /\ k = <<k[1], k[2]>> /\ k[1] \in M!MethodIds /\ k[2] \in M!Versions
  BY DEF TypeInv, M!TypeOK
<1> QED
  BY <1>1, <1>2, <1>3, BoundTypes DEF M!None

\* Each write grows the tables.
LEMMA WriteGrows ==
    ASSUME M!Bounds, TypeInv, SavedUpToCurrent, NEW key \in MethodKeys, NEW r \in M!Requests,
           WriteEffect(key, r)
    PROVE  Grows
<1>1. CASE MethodMade
  <2>1. \A m : M!OutcomesOf(m)' = M!OutcomesOf(m)
    BY <1>1 DEF MethodMade, M!OutcomesOf
  <2>2. \A m \in DOMAIN method_methods :
           m \in DOMAIN method_methods' /\ method_methods'[m] = method_methods[m]
    BY <1>1 DEF MethodMade
  <2>3. method_revisions' = method_revisions
    BY <1>1 DEF MethodMade
  <2>4. \A m \in M!MethodIds, v \in M!Versions :
           M!Known(m, v) # M!NoBody => M!Known(m, v)' = M!Known(m, v)
    BY <2>2, <2>3 DEF M!Known, M!Current
  <2> QED
    BY <2>1, <2>2, <2>4 DEF Grows
<1>2. CASE OutcomeMade(r)
  BY <1>2 DEF OutcomeMade, Grows, M!OutcomesOf, M!Known, M!Current
<1>3. CASE OpinionMade(r)
  BY <1>3 DEF OpinionMade, Grows, M!OutcomesOf, M!Known, M!Current
<1>4. CASE RevisionMade(r)
  <2> DEFINE n == r.method
             body == M!Revised(r)
             old == <<n, M!Current(n)>>
             new == <<n, body.version>>
  <2>1. /\ n \in DOMAIN method_methods /\ body.version = M!Current(n) + 1
        /\ DOMAIN method_methods' = DOMAIN method_methods
        /\ method_methods'[n] = body
        /\ \A m \in DOMAIN method_methods :
              m # n => method_methods'[m] = method_methods[m]
        /\ method_outcomes' = method_outcomes
    BY <1>4 DEF RevisionMade, M!Current
  <2>2. /\ DOMAIN method_revisions' = DOMAIN method_revisions \cup {old, new}
        /\ old \notin DOMAIN method_revisions => method_revisions'[old] = method_methods[n]
        /\ \A k \in DOMAIN method_revisions :
              k # new => method_revisions'[k] = method_revisions[k]
    BY <1>4 DEF RevisionMade, RevisionSaved, M!Current
  <2> HIDE DEF body
  <2>3. new \notin DOMAIN method_revisions
    <3>1. ASSUME new \in DOMAIN method_revisions
          PROVE  FALSE
      <4>1. new[2] = body.version /\ new[2] \in M!Versions
        BY <3>1, RowTypes
      <4>2. body.version <= M!Current(n)
        BY <2>1, <3>1, <4>1 DEF SavedUpToCurrent
      <4> QED
        BY <2>1, <4>2, RowTypes
    <3> QED
      BY <3>1
  <2>4. ASSUME NEW m \in M!MethodIds, NEW v \in M!Versions, M!Known(m, v) # M!NoBody
        PROVE  M!Known(m, v)' = M!Known(m, v)
    <3>1. CASE <<m, v>> \in DOMAIN method_revisions
      BY <2>2, <2>3, <3>1 DEF M!Known
    <3>2. CASE <<m, v>> \notin DOMAIN method_revisions
      <4>1. m \in DOMAIN method_methods /\ M!Current(m) = v /\ M!Known(m, v) = method_methods[m]
        BY <2>4, <3>2 DEF M!Known
      <4>2. CASE m = n
        BY <2>2, <3>2, <4>1, <4>2 DEF M!Known
      <4>3. CASE m # n
        <5>1. <<m, v>> \notin DOMAIN method_revisions'
          BY <2>2, <3>2, <4>3
        <5>2. m \in DOMAIN method_methods' /\ method_methods'[m] = method_methods[m]
          BY <2>1, <4>1, <4>3
        <5> QED
          BY <4>1, <5>1, <5>2 DEF M!Known, M!Current
      <4> QED
        BY <4>2, <4>3
    <3> QED
      BY <3>1, <3>2
  <2>5. \A m : M!OutcomesOf(m)' = M!OutcomesOf(m)
    BY <2>1 DEF M!OutcomesOf
  <2> QED
    BY <2>1, <2>4, <2>5 DEF Grows
<1> QED
  BY <1>1, <1>2, <1>3, <1>4 DEF WriteEffect

LEMMA ExpectedNext ==
    ASSUME M!Bounds, TypeInv, RevisionsExpected, NEW key \in MethodKeys, NEW r \in M!Requests,
           WriteEffect(key, r)
    PROVE  RevisionsExpected'
<1>1. ASSUME NEW response, Remembered(key, r, response),
             r.kind = "revision" => response.version = r.version + 1
      PROVE  RevisionsExpected'
  <2> SUFFICES ASSUME NEW k \in DOMAIN method_idempotency',
                      method_idempotency'[k].request.kind = "revision"
               PROVE  method_idempotency'[k].response.version
                         = method_idempotency'[k].request.version + 1
    BY DEF RevisionsExpected
  <2>1. CASE k = key
    BY <1>1, <2>1 DEF Remembered
  <2>2. CASE k # key
    BY <1>1, <2>2 DEF Remembered, RevisionsExpected
  <2> QED
    BY <2>1, <2>2
<1>2. CASE r.kind # "revision"
  <2>1. PICK response : Remembered(key, r, response)
    BY <1>2 DEF WriteEffect
  <2> QED
    BY <1>1, <1>2, <2>1
<1>3. CASE r.kind = "revision"
  <2> DEFINE response == [kind |-> "revision", id |-> r.method,
                          version |-> M!Revised(r).version]
  <2>1. RevisionMade(r) /\ Remembered(key, r, response)
    BY <1>3 DEF WriteEffect
  <2>2. response.version = r.version + 1
    BY <2>1 DEF RevisionMade
  <2> HIDE DEF response
  <2> QED
    BY <1>1, <2>1, <2>2
<1> QED
  BY <1>2, <1>3

LEMMA AddressedGrows ==
    ASSUME Grows, NEW b, NEW m, Addressed(b, m)
    PROVE  Addressed(b, m)'
  BY DEF Grows, Addressed

\* A new method, and one more version.
LEMMA SavedNext ==
    ASSUME M!Bounds, TypeInv, SavedUpToCurrent, NEW key \in MethodKeys, NEW r \in M!Requests,
           WriteEffect(key, r)
    PROVE  SavedUpToCurrent'
<1>1. CASE MethodMade
  <2>1. PICK n :
           /\ n \notin DOMAIN method_methods
           /\ DOMAIN method_methods' = DOMAIN method_methods \cup {n}
           /\ method_methods'[n].version = 1 /\ method_methods'[n].previous = M!None
           /\ \A m \in DOMAIN method_methods : method_methods'[m] = method_methods[m]
           /\ method_revisions' = method_revisions
    BY <1>1 DEF MethodMade
  <2>2. \A v : <<n, v>> \notin DOMAIN method_revisions
    BY <2>1 DEF TypeInv
  <2>3. \A m \in DOMAIN method_methods' \ {n} :
           m \in DOMAIN method_methods /\ M!Current(m)' = M!Current(m)
    BY <2>1 DEF M!Current
  <2>4. M!Current(n)' = 1
    BY <2>1 DEF M!Current
  <2> QED
    BY <2>1, <2>2, <2>3, <2>4 DEF SavedUpToCurrent, M!None
<1>2. CASE OutcomeMade(r) \/ OpinionMade(r)
  BY <1>2 DEF OutcomeMade, OpinionMade, SavedUpToCurrent, M!Current
<1>3. CASE RevisionMade(r)
  <2> DEFINE n == r.method
             body == M!Revised(r)
             old == <<n, M!Current(n)>>
             new == <<n, body.version>>
  <2>1. /\ n \in DOMAIN method_methods /\ body.version = M!Current(n) + 1
        /\ body.previous = M!Current(n)
        /\ DOMAIN method_methods' = DOMAIN method_methods
        /\ method_methods'[n] = body
        /\ \A m \in DOMAIN method_methods :
              m # n => method_methods'[m] = method_methods[m]
    BY <1>3 DEF RevisionMade, M!Current
  <2>2. /\ DOMAIN method_revisions' = DOMAIN method_revisions \cup {old, new}
        /\ method_revisions'[new] = body
        /\ old \notin DOMAIN method_revisions => method_revisions'[old] = method_methods[n]
        /\ \A k \in DOMAIN method_revisions :
              k # new => method_revisions'[k] = method_revisions[k]
    BY <1>3 DEF RevisionMade, RevisionSaved, M!Current
  <2> HIDE DEF body
  <2>3. M!Current(n) \in Nat \ {0} /\ M!Current(n) = method_methods[n].previous + 1
    BY <2>1, RowTypes DEF SavedUpToCurrent
  <2>4. M!Current(n)' = M!Current(n) + 1
    BY <2>1 DEF M!Current
  <2>5. ASSUME NEW m \in DOMAIN method_methods', m # n
        PROVE  /\ m \in DOMAIN method_methods /\ M!Current(m)' = M!Current(m)
               /\ method_methods'[m] = method_methods[m]
               /\ \A v : /\ <<m, v>> \in DOMAIN method_revisions'
                               <=> <<m, v>> \in DOMAIN method_revisions
                         /\ <<m, v>> \in DOMAIN method_revisions =>
                               method_revisions'[<<m, v>>] = method_revisions[<<m, v>>]
    BY <2>1, <2>2, <2>5 DEF M!Current
  <2>6. \A v \in 1..M!Current(n) : v < M!Current(n) => <<n, v>> \in DOMAIN method_revisions
    <3>1. CASE M!Current(n) > 1
      BY <2>1, <3>1 DEF SavedUpToCurrent
    <3>2. CASE M!Current(n) = 1
      BY <3>2
    <3> QED
      BY <2>3, <3>1, <3>2
  <2>7. \A v \in 1..M!Current(n)' : <<n, v>> \in DOMAIN method_revisions'
    BY <2>1, <2>2, <2>3, <2>4, <2>6
  <2>8. ASSUME NEW v \in M!Versions, <<n, v>> \in DOMAIN method_revisions'
        PROVE  v <= M!Current(n)' /\ method_revisions'[<<n, v>>].previous = v - 1
    <3>1. CASE v = body.version
      BY <2>1, <2>2, <2>3, <2>4, <3>1
    <3>2. CASE v # body.version /\ <<n, v>> \in DOMAIN method_revisions
      <4>1. v <= M!Current(n) /\ method_revisions[<<n, v>>].previous = v - 1
        BY <2>1, <3>2 DEF SavedUpToCurrent
      <4>2. method_revisions'[<<n, v>>] = method_revisions[<<n, v>>]
        BY <2>2, <3>2
      <4> QED
        BY <2>3, <2>4, <4>1, <4>2, RowTypes
    <3>3. CASE v # body.version /\ <<n, v>> \notin DOMAIN method_revisions
      <4>1. v = M!Current(n) /\ method_revisions'[<<n, v>>] = method_methods[n]
        BY <2>2, <2>8, <3>3
      <4>2. method_methods[n].previous = v - 1
        BY <2>1, <2>3, <4>1, RowTypes
      <4> QED
        BY <2>3, <2>4, <4>1, <4>2
    <3> QED
      BY <3>1, <3>2, <3>3
  <2>9. /\ method_revisions'[<<n, M!Current(n)'>>] = method_methods'[n]
        /\ M!Current(n)' = method_methods'[n].previous + 1
        /\ M!Current(n)' > 1
    BY <2>1, <2>2, <2>3, <2>4
  <2>10. ASSUME NEW m \in DOMAIN method_methods', m # n
         PROVE  /\ M!Current(m)' > 1 =>
                      /\ \A v \in 1..M!Current(m)' : <<m, v>> \in DOMAIN method_revisions'
                      /\ method_revisions'[<<m, M!Current(m)'>>] = method_methods'[m]
                /\ M!Current(m)' = 1 =>
                      \A v \in M!Versions : <<m, v>> \notin DOMAIN method_revisions'
                /\ M!Current(m)' = method_methods'[m].previous + 1
                /\ \A v \in M!Versions : <<m, v>> \in DOMAIN method_revisions' =>
                      /\ v <= M!Current(m)'
                      /\ method_revisions'[<<m, v>>].previous = v - 1
    <3>1. /\ m \in DOMAIN method_methods /\ M!Current(m)' = M!Current(m)
          /\ method_methods'[m] = method_methods[m]
          /\ \A v : /\ <<m, v>> \in DOMAIN method_revisions'
                          <=> <<m, v>> \in DOMAIN method_revisions
                    /\ <<m, v>> \in DOMAIN method_revisions =>
                          method_revisions'[<<m, v>>] = method_revisions[<<m, v>>]
      BY <2>5, <2>10
    <3>2. M!Current(m) \in Nat \ {0}
      BY <3>1, RowTypes
    <3>3. M!Current(m) > 1 => <<m, M!Current(m)>> \in DOMAIN method_revisions
      BY <3>1, <3>2 DEF SavedUpToCurrent
    <3> QED
      BY <3>1, <3>3 DEF SavedUpToCurrent
  <2> SUFFICES ASSUME NEW m \in DOMAIN method_methods'
               PROVE  /\ M!Current(m)' > 1 =>
                            /\ \A v \in 1..M!Current(m)' :
                                  <<m, v>> \in DOMAIN method_revisions'
                            /\ method_revisions'[<<m, M!Current(m)'>>] = method_methods'[m]
                      /\ M!Current(m)' = 1 =>
                            \A v \in M!Versions : <<m, v>> \notin DOMAIN method_revisions'
                      /\ M!Current(m)' = method_methods'[m].previous + 1
                      /\ \A v \in M!Versions : <<m, v>> \in DOMAIN method_revisions' =>
                            /\ v <= M!Current(m)'
                            /\ method_revisions'[<<m, v>>].previous = v - 1
    BY DEF SavedUpToCurrent
  <2>11. CASE m = n
    BY <2>3, <2>4, <2>7, <2>8, <2>9, <2>11
  <2>12. CASE m # n
    BY <2>10, <2>12
  <2> QED
    BY <2>11, <2>12
<1> QED
  BY <1>1, <1>2, <1>3 DEF WriteEffect

LEMMA AddressedNext ==
    ASSUME M!Bounds, TypeInv, SavedAddressed, M!FeedbackExact, Grows,
           NEW key \in MethodKeys, NEW r \in M!Requests, WriteEffect(key, r)
    PROVE  SavedAddressed'
<1>1. \A k \in DOMAIN method_revisions : Addressed(method_revisions[k], k[1])'
         \/ method_revisions'[k] # method_revisions[k]
  BY AddressedGrows DEF SavedAddressed, Addressed, Grows
<1>2. CASE MethodMade \/ OutcomeMade(r) \/ OpinionMade(r)
  <2>1. method_revisions' = method_revisions
    BY <1>2 DEF MethodMade, OutcomeMade, OpinionMade
  <2> QED
    BY <1>1, <2>1 DEF SavedAddressed
<1>3. CASE RevisionMade(r)
  <2> DEFINE n == r.method
             body == M!Revised(r)
             old == <<n, M!Current(n)>>
             new == <<n, body.version>>
  <2>1. /\ n \in DOMAIN method_methods /\ body.outcome = r.outcome /\ M!CorrectionHolds(r)
        /\ method_outcomes' = method_outcomes
    BY <1>3 DEF RevisionMade
  <2>2. /\ DOMAIN method_revisions' = DOMAIN method_revisions \cup {old, new}
        /\ method_revisions'[new] = body
        /\ old \notin DOMAIN method_revisions => method_revisions'[old] = method_methods[n]
        /\ \A k \in DOMAIN method_revisions :
              k # new => method_revisions'[k] = method_revisions[k]
    BY <1>3 DEF RevisionMade, RevisionSaved, M!Current
  <2> HIDE DEF body
  <2>3. Addressed(body, n)
    BY <2>1 DEF M!CorrectionHolds, M!IsOutcomeOf, Addressed, M!OutcomesOf
  <2>4. Addressed(method_methods[n], n)
    BY <2>1 DEF M!FeedbackExact, M!IsOutcomeOf, Addressed, M!OutcomesOf
  <2>5. \A m : M!OutcomesOf(m)' = M!OutcomesOf(m)
    BY <2>1 DEF M!OutcomesOf
  <2> SUFFICES ASSUME NEW k \in DOMAIN method_revisions',
                      method_revisions'[k].outcome # M!None
               PROVE  method_revisions'[k].outcome \in M!OutcomesOf(k[1])
    BY <2>5 DEF SavedAddressed, Addressed
  <2>6. CASE k = new
    BY <2>2, <2>3, <2>6 DEF Addressed
  <2>7. CASE k # new /\ k \in DOMAIN method_revisions
    BY <2>2, <2>7 DEF SavedAddressed, Addressed
  <2>8. CASE k # new /\ k \notin DOMAIN method_revisions
    BY <2>2, <2>4, <2>8 DEF Addressed
  <2> QED
    BY <2>6, <2>7, <2>8
<1> QED
  BY <1>2, <1>3 DEF WriteEffect

\* An outcome stays one of its method at its version, and methods only advance.
WillBeOutcomeOf(o, m, v) ==
    /\ o \in DOMAIN method_outcomes'
    /\ method_outcomes'[o].method = m
    /\ method_outcomes'[o].version = v

LEMMA FeedbackNext ==
    ASSUME M!Bounds, TypeInv, M!FeedbackExact, NEW key \in MethodKeys, NEW r \in M!Requests,
           WriteEffect(key, r)
    PROVE  M!FeedbackExact'
<1>1. \A m \in DOMAIN method_methods : M!Current(m) \in Nat
  BY RowTypes
<1>2. \A o, m, v : M!IsOutcomeOf(o, m, v) => WillBeOutcomeOf(o, m, v)
  BY DEF WriteEffect, MethodMade, OutcomeMade, OpinionMade, RevisionMade,
         M!IsOutcomeOf, WillBeOutcomeOf
<1>3. \A m \in DOMAIN method_methods :
         /\ m \in DOMAIN method_methods'
         /\ method_methods'[m].version \in Nat
         /\ method_methods'[m].version >= method_methods[m].version
  BY <1>1 DEF WriteEffect, MethodMade, OutcomeMade, OpinionMade, RevisionMade, M!Current
<1>4. \A o \in DOMAIN method_outcomes' :
         /\ method_outcomes'[o].method \in DOMAIN method_methods'
         /\ method_outcomes'[o].version
               <= method_methods'[method_outcomes'[o].method].version
  <2> SUFFICES ASSUME NEW o \in DOMAIN method_outcomes'
               PROVE  /\ method_outcomes'[o].method \in DOMAIN method_methods'
                      /\ method_outcomes'[o].version
                            <= method_methods'[method_outcomes'[o].method].version
    OBVIOUS
  <2>1. CASE o \in DOMAIN method_outcomes /\ method_outcomes'[o] = method_outcomes[o]
    <3>1. /\ method_outcomes[o].method \in DOMAIN method_methods
          /\ method_outcomes[o].version <= M!Current(method_outcomes[o].method)
          /\ method_outcomes[o].version \in Nat
      BY <2>1, BoundTypes DEF M!FeedbackExact, TypeInv, M!TypeOK
    <3> QED
      BY <1>1, <1>3, <2>1, <3>1 DEF M!Current
  <2>2. CASE OutcomeMade(r) /\ o \notin DOMAIN method_outcomes
    <3>1. /\ method_outcomes'[o].method = r.method
          /\ method_outcomes'[o].version = r.version
          /\ r.method \in DOMAIN method_methods
          /\ r.version = method_methods[r.method].version
          /\ method_methods' = method_methods
      BY <2>2 DEF OutcomeMade, M!RefersToCurrent
    <3> QED
      BY <1>1, <3>1 DEF M!Current
  <2> QED
    BY <2>1, <2>2 DEF WriteEffect, MethodMade, OutcomeMade, OpinionMade, RevisionMade
<1>5. \A p \in DOMAIN method_opinions' : method_opinions'[p].outcome # M!None =>
         WillBeOutcomeOf(method_opinions'[p].outcome, method_opinions'[p].method,
                     method_opinions'[p].version)
  <2> SUFFICES ASSUME NEW p \in DOMAIN method_opinions',
                      method_opinions'[p].outcome # M!None
               PROVE  WillBeOutcomeOf(method_opinions'[p].outcome, method_opinions'[p].method,
                                  method_opinions'[p].version)
    OBVIOUS
  <2>1. CASE p \in DOMAIN method_opinions /\ method_opinions'[p] = method_opinions[p]
    <3>1. M!IsOutcomeOf(method_opinions[p].outcome, method_opinions[p].method,
                      method_opinions[p].version)
      BY <2>1 DEF M!FeedbackExact
    <3> QED
      BY <1>2, <2>1, <3>1
  <2>2. CASE OpinionMade(r) /\ p \notin DOMAIN method_opinions
    BY <2>2 DEF OpinionMade, M!IsOutcomeOf, WillBeOutcomeOf
  <2> QED
    BY <2>1, <2>2 DEF WriteEffect, MethodMade, OutcomeMade, OpinionMade, RevisionMade
<1>6. \A m \in DOMAIN method_methods' : method_methods'[m].outcome # M!None =>
         /\ WillBeOutcomeOf(method_methods'[m].outcome, m, method_methods'[m].corrected)
         /\ method_methods'[m].corrected < method_methods'[m].version
  <2> SUFFICES ASSUME NEW m \in DOMAIN method_methods', method_methods'[m].outcome # M!None
               PROVE  /\ WillBeOutcomeOf(method_methods'[m].outcome, m,
                                     method_methods'[m].corrected)
                      /\ method_methods'[m].corrected < method_methods'[m].version
    OBVIOUS
  <2>1. CASE m \in DOMAIN method_methods /\ method_methods'[m] = method_methods[m]
    <3>1. /\ M!IsOutcomeOf(method_methods[m].outcome, m, method_methods[m].corrected)
          /\ method_methods[m].corrected < M!Current(m)
      BY <2>1 DEF M!FeedbackExact
    <3> QED
      BY <1>2, <2>1, <3>1 DEF M!Current
  <2>2. CASE RevisionMade(r) /\ m = r.method
    <3>1. /\ method_methods'[m].outcome = r.outcome
          /\ method_methods'[m].corrected = r.corrected
          /\ method_methods'[m].version = M!Current(m) + 1
          /\ M!IsOutcomeOf(r.outcome, m, r.corrected)
          /\ method_outcomes' = method_outcomes /\ m \in DOMAIN method_methods
      BY <2>2 DEF RevisionMade, M!CorrectionHolds, M!Current
    <3>2. r.corrected <= M!Current(m) /\ r.corrected \in Nat
      BY <3>1, BoundTypes DEF M!FeedbackExact, M!IsOutcomeOf, TypeInv, M!TypeOK
    <3> QED
      BY <1>1, <3>1, <3>2 DEF M!IsOutcomeOf, WillBeOutcomeOf
  <2> QED
    BY <2>1, <2>2 DEF WriteEffect, MethodMade, OutcomeMade, OpinionMade, RevisionMade
<1> QED
  BY <1>4, <1>5, <1>6 DEF M!FeedbackExact, M!Current, M!IsOutcomeOf, WillBeOutcomeOf

LEMMA RowsNext == M!Bounds /\ TypeInv /\ RowsFit /\ [M!Next]_M!vars => RowsFit' /\ Grows
<1> SUFFICES ASSUME M!Bounds, TypeInv, RowsFit, [M!Next]_M!vars PROVE RowsFit' /\ Grows
  OBVIOUS
<1>1. ASSUME NEW key \in MethodKeys, NEW r \in M!Requests, M!Write(key, r)
      PROVE  RowsFit' /\ Grows
  <2>1. WriteEffect(key, r)
    BY <1>1, WriteSteps
  <2>2. Grows
    BY <2>1, WriteGrows DEF RowsFit
  <2> QED
    BY <2>1, <2>2, ExpectedNext, SavedNext, AddressedNext, FeedbackNext DEF RowsFit
<1>2. CASE UNCHANGED M!tables
  BY <1>2 DEF M!tables, RowsFit, SavedUpToCurrent, RevisionsExpected, M!FeedbackExact,
              SavedAddressed, Addressed, M!IsOutcomeOf, M!OutcomesOf, M!Current, Grows, M!Known
<1>3. ASSUME NEW r \in Readers, M!Read(r)
      PROVE  UNCHANGED M!tables
  BY <1>3, ReadSteps DEF ReadEffect
<1> QED
  BY <1>1, <1>2, <1>3 DEF M!Next, M!vars

RowsInv == TypeInv /\ RowsFit

LEMMA RowsInvInit == M!Bounds /\ M!Init => RowsInv
  BY TypeInit, RowsInit DEF RowsInv

LEMMA RowsInvNext == M!Bounds /\ RowsInv /\ [M!Next]_M!vars => RowsInv' /\ Grows
  BY TypeNext, RowsNext DEF RowsInv

LEMMA RowsHold ==
    ASSUME M!Bounds
    PROVE  M!Spec => []RowsInv
<1>1. M!Init => RowsInv
  BY RowsInvInit
<1>2. RowsInv /\ [M!Next]_M!vars => RowsInv'
  BY RowsInvNext
<1> QED
  BY <1>1, <1>2, PTL DEF M!Spec

\* The versions of a method have no gap, each names the one before it, and the
\* author of each had seen that one (research_method_store.py, revise).
THEOREM HistoryHeld ==
    ASSUME M!Bounds
    PROVE  M!Spec => []M!HistoryUnbroken
<1>1. RowsInv => M!HistoryUnbroken
  BY DEF RowsInv, RowsFit, SavedUpToCurrent, RevisionsExpected, M!HistoryUnbroken
<1> QED
  BY <1>1, RowsHold, PTL

\* Feedback and corrections name a version that was and an outcome of it
\* (research_method_store.py, add_outcome, add_opinion and revise).
THEOREM FeedbackHeld ==
    ASSUME M!Bounds
    PROVE  M!Spec => []M!FeedbackExact
<1>1. RowsInv => M!FeedbackExact
  BY DEF RowsInv, RowsFit
<1> QED
  BY <1>1, RowsHold, PTL

\* What a version says never changes once it can be read
\* (research_method_revisions.py:4).
THEOREM VersionsStay ==
    ASSUME M!Bounds
    PROVE  M!Spec => M!VersionsImmutable
<1>1. RowsInv /\ [M!Next]_M!vars
         => [\A m \in M!MethodIds, v \in M!Versions :
                M!Known(m, v) # M!NoBody => M!Known(m, v)' = M!Known(m, v)]_M!vars
  BY RowsInvNext DEF Grows
<1> QED
  BY <1>1, RowsHold, PTL DEF M!Spec, M!VersionsImmutable

-----------------------------------------------------------------------------
(* What readers gather is true when they respond *)

\* Between its statements a reader's page is a part of what there was, and what
\* it has read of the versions names outcomes of the method.
Gathered(r) ==
    LET p == reads[r]
    IN  /\ p.pc \in {"count", "got"} =>
              p.outcomes \subseteq p.listed /\ p.listed \subseteq M!OutcomesOf(p.method)
        /\ p.pc = "got" => Cardinality(p.listed) <= p.total
        /\ p.pc \in {"feedback", "count", "got", "number", "history", "missing"} =>
              Addressed(p.body, p.method)
        /\ p.pc \in {"number", "history"} => Addressed(p.current, p.method)
        /\ p.pc = "missing" => \A b \in p.versions : Addressed(b, p.method)
        /\ p.pc = "drawn" => M!CorrectionOutcomes(p) \subseteq p.outcomes
        /\ p.pc = "found" =>
              /\ p.method \in M!MethodIds /\ p.count \in M!Versions
              /\ p.body \in M!Body /\ p.body = M!Known(p.method, p.count)

ReadInv == RowsInv /\ \A r \in Readers : Gathered(r)

LEMMA BodyKnown == \A b \in M!Body : b # M!NoBody
<1> SUFFICES ASSUME NEW b \in M!Body, b = M!NoBody PROVE FALSE
  OBVIOUS
<1>1. "version" \in DOMAIN b
  BY DEF M!Body
<1>2. DOMAIN M!NoBody = {}
  BY DEF M!NoBody
<1> QED
  BY <1>1, <1>2

\* The tables may grow under a reader.
LEMMA GatheredGrows ==
    ASSUME Grows, NEW r \in Readers, Gathered(r), reads'[r] = reads[r]
    PROVE  Gathered(r)'
<1> DEFINE p == reads[r]
<1>1. \A m : M!OutcomesOf(m) \subseteq M!OutcomesOf(m)'
  BY DEF Grows
<1>2. \A b, m : Addressed(b, m) => Addressed(b, m)'
  BY <1>1 DEF Addressed
<1>3. p.pc = "found" => p.body = M!Known(p.method, p.count)'
  <2> SUFFICES ASSUME p.pc = "found" PROVE p.body = M!Known(p.method, p.count)'
    OBVIOUS
  <2>1. PICK m \in M!MethodIds, v \in M!Versions :
           /\ m = p.method /\ v = p.count
           /\ p.body \in M!Body /\ p.body = M!Known(m, v)
    BY DEF Gathered
  <2>2. M!Known(m, v)' = M!Known(m, v)
    BY <2>1, BodyKnown DEF Grows
  <2> QED
    BY <2>1, <2>2 DEF M!Known, M!Current
<1> QED
  BY <1>1, <1>2, <1>3 DEF Gathered

LEMMA ReadersInit == M!Bounds /\ M!Init => ReadInv
<1> SUFFICES ASSUME M!Bounds, M!Init PROVE \A r \in Readers : Gathered(r)
  BY RowsInvInit DEF ReadInv
<1>1. \A r \in Readers : reads[r].pc = "idle"
  BY IdleType DEF M!Init
<1> QED
  BY <1>1 DEF Gathered

\* The current body is known under its version.
LEMMA CurrentKnown ==
    ASSUME M!Bounds, RowsInv, NEW m \in DOMAIN method_methods
    PROVE  M!Known(m, M!Current(m)) = method_methods[m]
<1>1. M!Current(m) \in M!Versions /\ M!Current(m) \in Nat \ {0}
  BY RowTypes DEF RowsInv
<1> QED
  BY <1>1 DEF RowsInv, RowsFit, SavedUpToCurrent, M!Known

LEMMA SavedNamed ==
    ASSUME RowsInv, NEW m, NEW b \in M!SavedVersions(m)
    PROVE  Addressed(b, m)
  BY DEF M!SavedVersions, RowsInv, RowsFit, SavedAddressed

LEMMA CurrentNamed ==
    ASSUME RowsInv, NEW m \in DOMAIN method_methods
    PROVE  Addressed(method_methods[m], m)
  BY DEF RowsInv, RowsFit, M!FeedbackExact, M!IsOutcomeOf, Addressed, M!OutcomesOf

\* What the page lacks is fetched.
LEMMA CorrectionsLoaded ==
    ASSUME NEW p, Addressed(p.body, p.method),
           \A b \in p.versions : Addressed(b, p.method)
    PROVE  M!CorrectionOutcomes(p) \subseteq M!LoadedOutcomes(p) \cup M!MissingOutcomes(p)
<1>1. \A b \in M!GraphVersions(p) : Addressed(b, p.method)
  BY DEF M!GraphVersions
<1>2. M!CorrectionOutcomes(p) \subseteq M!OutcomesOf(p.method)
  BY <1>1 DEF M!CorrectionOutcomes, Addressed
<1> QED
  BY <1>2 DEF M!MissingOutcomes

\* Each statement of a read keeps what its reader has.
LEMMA GatheredStep ==
    ASSUME M!Bounds, RowsInv, NEW r \in Readers, Gathered(r), ReadEffect(r)
    PROVE  Gathered(r)'
<1> DEFINE p == reads[r]
           q == reads'[r]
<1>1. /\ \A m : M!OutcomesOf(m)' = M!OutcomesOf(m)
      /\ \A b, m : Addressed(b, m)' <=> Addressed(b, m)
      /\ \A m, v : M!Known(m, v)' = M!Known(m, v)
  BY DEF ReadEffect, M!tables, M!OutcomesOf, Addressed, M!Known, M!Current
<1>2. p \in Reading /\ (p.pc # "idle" => p.method \in DOMAIN method_methods)
  BY DEF RowsInv, TypeInv
<1>3. /\ \A m : M!OutcomesOf(m) \in SUBSET M!OutcomeIds /\ IsFiniteSet(M!OutcomesOf(m))
      /\ \A m : Cardinality(M!OutcomesOf(m)) \in Nat
  BY TableTypes DEF RowsInv
<1>4. q.pc \in {"count", "got"} =>
         q.outcomes \subseteq q.listed /\ q.listed \subseteq M!OutcomesOf(q.method)
  BY DEF ReadEffect, Answers, Gathered
<1>5. q.pc = "got" => Cardinality(q.listed) <= q.total
  <2> SUFFICES ASSUME q.pc = "got" PROVE Cardinality(q.listed) <= q.total
    OBVIOUS
  <2>1. /\ p.pc = "count" /\ q.listed = p.listed
        /\ q.total = Cardinality(M!OutcomesOf(p.method))
    BY DEF ReadEffect, Answers
  <2>2. p.listed \subseteq M!OutcomesOf(p.method)
    BY <2>1 DEF Gathered
  <2> QED
    BY <1>3, <2>1, <2>2, FS_Subset
<1>6. q.pc \in {"feedback", "count", "got", "number", "history", "missing"} =>
         Addressed(q.body, q.method)
  BY CurrentNamed DEF ReadEffect, Answers, Gathered
<1>7. q.pc \in {"number", "history"} => Addressed(q.current, q.method)
  BY <1>2, CurrentNamed DEF ReadEffect, Answers, Gathered
<1>8. q.pc = "missing" => \A b \in q.versions : Addressed(b, q.method)
  BY SavedNamed DEF ReadEffect, Answers, Gathered
<1>9. q.pc = "drawn" => M!CorrectionOutcomes(q) \subseteq q.outcomes
  <2> SUFFICES ASSUME q.pc = "drawn" PROVE M!CorrectionOutcomes(q) \subseteq q.outcomes
    OBVIOUS
  <2>1. /\ p.pc = "missing" /\ q.body = p.body /\ q.versions = p.versions
        /\ q.outcomes = M!LoadedOutcomes(p) \cup M!MissingOutcomes(p)
    BY DEF ReadEffect, Answers
  <2>2. M!CorrectionOutcomes(q) = M!CorrectionOutcomes(p)
    BY <2>1 DEF M!CorrectionOutcomes, M!GraphVersions
  <2>3. Addressed(p.body, p.method) /\ \A b \in p.versions : Addressed(b, p.method)
    BY <2>1 DEF Gathered
  <2>4. M!CorrectionOutcomes(p) \subseteq M!LoadedOutcomes(p) \cup M!MissingOutcomes(p)
    BY <2>3, CorrectionsLoaded
  <2> QED
    BY <2>1, <2>2, <2>4
<1>10. q.pc = "found" =>
         /\ q.method \in M!MethodIds /\ q.count \in M!Versions
         /\ q.body \in M!Body /\ q.body = M!Known(q.method, q.count)
  <2> SUFFICES ASSUME q.pc = "found"
               PROVE  /\ q.method \in M!MethodIds /\ q.count \in M!Versions
                      /\ q.body \in M!Body /\ q.body = M!Known(q.method, q.count)
    OBVIOUS
  <2>1. CASE /\ <<q.method, q.count>> \in DOMAIN method_revisions
             /\ q.body = method_revisions[<<q.method, q.count>>]
    BY <2>1, RowTypes DEF RowsInv, M!Known
  <2>2. CASE /\ q.method \in DOMAIN method_methods
             /\ q.count = M!Current(q.method) /\ q.body = method_methods[q.method]
    BY <2>2, RowTypes, CurrentKnown DEF RowsInv
  <2> QED
    BY <1>2, <2>1, <2>2 DEF ReadEffect, Answers, M!Current
<1> QED
  BY <1>1, <1>4, <1>5, <1>6, <1>7, <1>8, <1>9, <1>10 DEF Gathered

LEMMA ReadersNext == M!Bounds /\ ReadInv /\ [M!Next]_M!vars => ReadInv'
<1> SUFFICES ASSUME M!Bounds, ReadInv, [M!Next]_M!vars
             PROVE  \A r \in Readers : Gathered(r)'
  BY RowsInvNext DEF ReadInv
<1> USE DEF ReadInv
<1>1. Grows
  BY RowsInvNext
<1>2. ASSUME NEW key \in MethodKeys, NEW request \in M!Requests, M!Write(key, request)
      PROVE  \A r \in Readers : Gathered(r)'
  <2>1. reads' = reads
    BY <1>2, WriteSteps DEF RowsInv, WriteEffect, MethodMade, OutcomeMade, OpinionMade,
       RevisionMade
  <2> QED
    BY <1>1, <2>1, GatheredGrows
<1>3. ASSUME NEW s \in Readers, M!Read(s)
      PROVE  \A r \in Readers : Gathered(r)'
  <2>1. ReadEffect(s)
    BY <1>3, ReadSteps DEF RowsInv
  <2>2. \A r \in Readers : r # s => reads'[r] = reads[r]
    BY <2>1 DEF ReadEffect
  <2> QED
    BY <1>1, <2>1, <2>2, GatheredGrows, GatheredStep
<1>4. CASE UNCHANGED M!vars
  BY <1>1, <1>4, GatheredGrows DEF M!vars
<1> QED
  BY <1>2, <1>3, <1>4 DEF M!Next

\* A reader whose statements others' writes come between leaves out no row in
\* silence, shows each correction with its outcome, and no version in place of
\* another (research_method_store.py get, research_method_graph.py,
\* research_method_revisions.py).
THEOREM ReadersHonest ==
    ASSUME M!Bounds
    PROVE  M!Spec => []M!ReadsHonest
<1>1. M!Init => ReadInv
  BY ReadersInit
<1>2. ReadInv /\ [M!Next]_M!vars => ReadInv'
  BY ReadersNext
<1>3. ReadInv => M!ReadsHonest
  <2> SUFFICES ASSUME ReadInv PROVE M!ReadsHonest
    OBVIOUS
  <2>1. \A r \in Readers : Gathered(r)
    BY DEF ReadInv
  <2>2. M!NothingHidden
    <3> SUFFICES ASSUME NEW r \in Readers, reads[r].pc = "got", ~M!Truncated(reads[r])
                 PROVE  reads[r].outcomes = reads[r].listed
      BY DEF M!NothingHidden
    <3> DEFINE p == reads[r]
    <3>1. /\ p.outcomes \subseteq p.listed /\ p.listed \subseteq M!OutcomesOf(p.method)
          /\ Cardinality(p.listed) <= p.total
      BY <2>1 DEF Gathered
    <3>2. IsFiniteSet(p.listed)
      BY <3>1, TableTypes, FS_Subset DEF ReadInv, RowsInv
    <3>3. IsFiniteSet(p.outcomes)
      BY <3>1, <3>2, FS_Subset
    <3>4. /\ Cardinality(p.outcomes) \in Nat /\ Cardinality(p.listed) \in Nat
          /\ p.total \in Nat
      BY <3>2, <3>3, FS_CardinalityType DEF ReadInv, RowsInv, TypeInv, Reading
    <3>5. Cardinality(p.listed) <= Cardinality(p.outcomes)
      BY <3>1, <3>4, CountsAlike DEF M!Truncated
    <3> QED
      BY <3>1, <3>2, <3>4, <3>5, FS_Subset
  <2>3. M!CorrectionsAddressed
    BY <2>1 DEF M!CorrectionsAddressed, Gathered
  <2>4. M!VersionRead
    BY <2>1 DEF M!VersionRead, Gathered
  <2> QED
    BY <2>2, <2>3, <2>4 DEF M!ReadsHonest
<1> QED
  BY <1>1, <1>2, <1>3, PTL DEF M!Spec

-----------------------------------------------------------------------------
(* Rows and remembered responses match one to one *)

MethodAt(m) == [kind |-> "method", id |-> m, version |-> 1]
RevisionAt(m, v) == [kind |-> "revision", id |-> m, version |-> v]
OutcomeAt(o, v) == [kind |-> "outcome", id |-> o, version |-> v]
OpinionAt(o, v) == [kind |-> "opinion", id |-> o, version |-> v]

MethodRow(x) == \E m \in DOMAIN method_methods : x = MethodAt(m)
RevisionRow(x) ==
    \E m \in DOMAIN method_methods : \E v \in 2..M!Current(m) : x = RevisionAt(m, v)
OutcomeRow(x) ==
    \E o \in DOMAIN method_outcomes : x = OutcomeAt(o, method_outcomes[o].version)
OpinionRow(x) ==
    \E o \in DOMAIN method_opinions : x = OpinionAt(o, method_opinions[o].version)
Row(x) == MethodRow(x) \/ RevisionRow(x) \/ OutcomeRow(x) \/ OpinionRow(x)

Matched ==
    /\ \A j, k \in DOMAIN method_idempotency :
          j # k => method_idempotency[j].response # method_idempotency[k].response
    /\ \A x : x \in M!Made <=> Row(x)

LEMMA RowsDiffer ==
    /\ \A m, n : MethodAt(m) = MethodAt(n) => m = n
    /\ \A m, n, v, w : RevisionAt(m, v) = RevisionAt(n, w) => m = n /\ v = w
    /\ \A m, n, v, w : OutcomeAt(m, v) = OutcomeAt(n, w) => m = n
    /\ \A m, n, v, w : OpinionAt(m, v) = OpinionAt(n, w) => m = n
    /\ \A m, n, v, w :
          /\ MethodAt(m) # RevisionAt(n, v) /\ MethodAt(m) # OutcomeAt(n, v)
          /\ MethodAt(m) # OpinionAt(n, v) /\ RevisionAt(m, v) # OutcomeAt(n, w)
          /\ RevisionAt(m, v) # OpinionAt(n, w) /\ OutcomeAt(m, v) # OpinionAt(n, w)
<1>1. \A m : MethodAt(m).kind = "method" /\ MethodAt(m).id = m
  BY DEF MethodAt
<1>2. \A m, v : /\ RevisionAt(m, v).kind = "revision" /\ RevisionAt(m, v).id = m
                /\ RevisionAt(m, v).version = v
  BY DEF RevisionAt
<1>3. \A m, v : OutcomeAt(m, v).kind = "outcome" /\ OutcomeAt(m, v).id = m
  BY DEF OutcomeAt
<1>4. \A m, v : OpinionAt(m, v).kind = "opinion" /\ OpinionAt(m, v).id = m
  BY DEF OpinionAt
<1>5. \A m, n : MethodAt(m) = MethodAt(n) => m = n
  BY <1>1
<1>6. \A m, n, v, w : RevisionAt(m, v) = RevisionAt(n, w) => m = n /\ v = w
  BY <1>2
<1>7. \A m, n, v, w : OutcomeAt(m, v) = OutcomeAt(n, w) => m = n
  BY <1>3
<1>8. \A m, n, v, w : OpinionAt(m, v) = OpinionAt(n, w) => m = n
  BY <1>4
<1>9. \A m, n, v, w :
         /\ MethodAt(m) # RevisionAt(n, v) /\ MethodAt(m) # OutcomeAt(n, v)
         /\ MethodAt(m) # OpinionAt(n, v) /\ RevisionAt(m, v) # OutcomeAt(n, w)
         /\ RevisionAt(m, v) # OpinionAt(n, w) /\ OutcomeAt(m, v) # OpinionAt(n, w)
  BY <1>1, <1>2, <1>3, <1>4
<1> QED
  BY <1>5, <1>6, <1>7, <1>8, <1>9

LEMMA MatchedOnce == Matched <=> M!AppliedOnce
<1> DEFINE Rows ==
           {[kind |-> "method", id |-> m, version |-> 1] : m \in DOMAIN method_methods}
           \cup (UNION {{[kind |-> "revision", id |-> m, version |-> v] :
                            v \in 2..M!Current(m)} : m \in DOMAIN method_methods})
           \cup {[kind |-> "outcome", id |-> o, version |-> method_outcomes[o].version] :
                     o \in DOMAIN method_outcomes}
           \cup {[kind |-> "opinion", id |-> o, version |-> method_opinions[o].version] :
                     o \in DOMAIN method_opinions}
<1>1. \A x : x \in Rows <=> Row(x)
  BY DEF Row, MethodRow, RevisionRow, OutcomeRow, OpinionRow, MethodAt, RevisionAt,
         OutcomeAt, OpinionAt
<1>2. M!AppliedOnce <=>
         /\ \A j, k \in DOMAIN method_idempotency :
               j # k => method_idempotency[j].response # method_idempotency[k].response
         /\ M!Made = Rows
  BY DEF M!AppliedOnce
<1> HIDE DEF Rows
<1>3. M!Made = Rows <=> \A x : x \in M!Made <=> Row(x)
  BY <1>1
<1> QED
  BY <1>2, <1>3 DEF Matched

\* A write makes one row, which was not there.
RowMade(response) ==
    /\ ~Row(response)
    /\ \A x : Row(x)' <=> Row(x) \/ x = response

LEMMA RowSteps ==
    ASSUME M!Bounds, TypeInv, NEW key \in MethodKeys, NEW r \in M!Requests, WriteEffect(key, r)
    PROVE  \E response : RowMade(response) /\ Remembered(key, r, response)
<1>1. CASE /\ MethodMade
           /\ Remembered(key, r, [kind |-> "method", id |-> M!NewId(method_methods),
                                  version |-> 1])
  <2>1. PICK n :
           /\ n \notin DOMAIN method_methods
           /\ DOMAIN method_methods' = DOMAIN method_methods \cup {n}
           /\ method_methods'[n].version = 1
           /\ \A m \in DOMAIN method_methods : method_methods'[m] = method_methods[m]
           /\ UNCHANGED <<method_outcomes, method_opinions>>
           /\ Remembered(key, r, MethodAt(n))
    BY <1>1 DEF MethodMade, MethodAt
  <2>2. \A x : MethodRow(x)' <=> MethodRow(x) \/ x = MethodAt(n)
    BY <2>1 DEF MethodRow
  <2>3. \A x : RevisionRow(x)' <=> RevisionRow(x)
    BY <2>1 DEF RevisionRow, M!Current
  <2>4. \A x : (OutcomeRow(x)' <=> OutcomeRow(x)) /\ (OpinionRow(x)' <=> OpinionRow(x))
    BY <2>1 DEF OutcomeRow, OpinionRow
  <2>5. ~Row(MethodAt(n))
    BY <2>1, RowsDiffer DEF Row, MethodRow, RevisionRow, OutcomeRow, OpinionRow
  <2> QED
    BY <2>1, <2>2, <2>3, <2>4, <2>5 DEF RowMade, Row
<1>2. CASE /\ OutcomeMade(r)
           /\ Remembered(key, r, [kind |-> "outcome", id |-> M!NewId(method_outcomes),
                                  version |-> r.version])
  <2>1. PICK n :
           /\ n \notin DOMAIN method_outcomes
           /\ DOMAIN method_outcomes' = DOMAIN method_outcomes \cup {n}
           /\ method_outcomes'[n].version = r.version
           /\ \A o \in DOMAIN method_outcomes : method_outcomes'[o] = method_outcomes[o]
           /\ UNCHANGED <<method_methods, method_opinions>>
           /\ Remembered(key, r, OutcomeAt(n, r.version))
    BY <1>2 DEF OutcomeMade, OutcomeAt
  <2>2. \A x : OutcomeRow(x)' <=> OutcomeRow(x) \/ x = OutcomeAt(n, r.version)
    BY <2>1 DEF OutcomeRow
  <2>3. \A x : (RevisionRow(x)' <=> RevisionRow(x)) /\ (MethodRow(x)' <=> MethodRow(x))
    BY <2>1 DEF RevisionRow, MethodRow, M!Current
  <2>4. \A x : OpinionRow(x)' <=> OpinionRow(x)
    BY <2>1 DEF OpinionRow
  <2>5. ~Row(OutcomeAt(n, r.version))
    BY <2>1, RowsDiffer DEF Row, MethodRow, RevisionRow, OutcomeRow, OpinionRow
  <2> QED
    BY <2>1, <2>2, <2>3, <2>4, <2>5 DEF RowMade, Row
<1>3. CASE /\ OpinionMade(r)
           /\ Remembered(key, r, [kind |-> "opinion", id |-> M!NewId(method_opinions),
                                  version |-> r.version])
  <2>1. PICK n :
           /\ n \notin DOMAIN method_opinions
           /\ DOMAIN method_opinions' = DOMAIN method_opinions \cup {n}
           /\ method_opinions'[n].version = r.version
           /\ \A o \in DOMAIN method_opinions : method_opinions'[o] = method_opinions[o]
           /\ UNCHANGED <<method_methods, method_outcomes>>
           /\ Remembered(key, r, OpinionAt(n, r.version))
    BY <1>3 DEF OpinionMade, OpinionAt
  <2>2. \A x : OpinionRow(x)' <=> OpinionRow(x) \/ x = OpinionAt(n, r.version)
    BY <2>1 DEF OpinionRow
  <2>3. \A x : (RevisionRow(x)' <=> RevisionRow(x)) /\ (MethodRow(x)' <=> MethodRow(x))
    BY <2>1 DEF RevisionRow, MethodRow, M!Current
  <2>4. \A x : OutcomeRow(x)' <=> OutcomeRow(x)
    BY <2>1 DEF OutcomeRow
  <2>5. ~Row(OpinionAt(n, r.version))
    BY <2>1, RowsDiffer DEF Row, MethodRow, RevisionRow, OutcomeRow, OpinionRow
  <2> QED
    BY <2>1, <2>2, <2>3, <2>4, <2>5 DEF RowMade, Row
<1>4. CASE /\ RevisionMade(r)
           /\ Remembered(key, r, [kind |-> "revision", id |-> r.method,
                                  version |-> M!Revised(r).version])
  <2> DEFINE n == r.method
             c == method_methods[n].version
  <2>1. /\ n \in DOMAIN method_methods
        /\ DOMAIN method_methods' = DOMAIN method_methods
        /\ method_methods'[n].version = c + 1
        /\ \A m \in DOMAIN method_methods : m # n => method_methods'[m] = method_methods[m]
        /\ UNCHANGED <<method_outcomes, method_opinions>>
        /\ Remembered(key, r, RevisionAt(n, c + 1))
    BY <1>4 DEF RevisionMade, RevisionAt
  <2>2. c \in Nat \ {0}
    BY <2>1, RowTypes DEF M!Current
  <2>3. \A v : v \in 2..(c + 1) <=> v \in 2..c \/ v = c + 1
    BY <2>2
  <2>4. \A x : RevisionRow(x)' <=> RevisionRow(x) \/ x = RevisionAt(n, c + 1)
    <3>1. M!Current(n)' = c + 1 /\ M!Current(n) = c
      BY <2>1 DEF M!Current
    <3>2. \A m \in DOMAIN method_methods : m # n => M!Current(m)' = M!Current(m)
      BY <2>1 DEF M!Current
    <3> SUFFICES ASSUME NEW x
                 PROVE  RevisionRow(x)' <=> RevisionRow(x) \/ x = RevisionAt(n, c + 1)
      OBVIOUS
    <3>3. RevisionRow(x)' => RevisionRow(x) \/ x = RevisionAt(n, c + 1)
      BY <2>1, <2>3, <3>1, <3>2 DEF RevisionRow
    <3>4. RevisionRow(x) => RevisionRow(x)'
      BY <2>1, <2>3, <3>1, <3>2 DEF RevisionRow
    <3>5. x = RevisionAt(n, c + 1) => RevisionRow(x)'
      BY <2>1, <2>3, <3>1 DEF RevisionRow
    <3> QED
      BY <3>3, <3>4, <3>5
  <2>5. \A x : MethodRow(x)' <=> MethodRow(x)
    BY <2>1 DEF MethodRow
  <2>6. \A x : (OutcomeRow(x)' <=> OutcomeRow(x)) /\ (OpinionRow(x)' <=> OpinionRow(x))
    BY <2>1 DEF OutcomeRow, OpinionRow
  <2>7. ~Row(RevisionAt(n, c + 1))
    <3>1. c + 1 \notin 2..M!Current(n)
      BY <2>2 DEF M!Current
    <3> QED
      BY <3>1, RowsDiffer DEF Row, MethodRow, RevisionRow, OutcomeRow, OpinionRow
  <2> QED
    BY <2>1, <2>4, <2>5, <2>6, <2>7 DEF RowMade, Row
<1> QED
  BY <1>1, <1>2, <1>3, <1>4 DEF WriteEffect

LEMMA MatchedWrite ==
    ASSUME Matched, NEW key, NEW r, NEW response,
           RowMade(response), Remembered(key, r, response)
    PROVE  Matched'
<1>1. /\ key \notin DOMAIN method_idempotency
      /\ DOMAIN method_idempotency' = DOMAIN method_idempotency \cup {key}
      /\ method_idempotency'[key].response = response
      /\ \A k \in DOMAIN method_idempotency :
            method_idempotency'[k] = method_idempotency[k]
  BY DEF Remembered
<1>2. \A x : x \in M!Made' <=> x \in M!Made \/ x = response
  BY <1>1 DEF M!Made
<1>3. \A k \in DOMAIN method_idempotency : method_idempotency[k].response # response
  BY DEF M!Made, Matched, RowMade
<1>4. \A j, k \in DOMAIN method_idempotency' :
         j # k => method_idempotency'[j].response # method_idempotency'[k].response
  BY <1>1, <1>3 DEF Matched
<1>5. \A x : x \in M!Made' <=> Row(x)'
  BY <1>2 DEF Matched, RowMade
<1> QED
  BY <1>4, <1>5 DEF Matched

\* A request that is sent again under its key makes no second row, and every row was
\* asked for (research_method_store.py:66).
THEOREM AppliedExactlyOnce ==
    ASSUME M!Bounds
    PROVE  M!Spec => []M!AppliedOnce
<1>1. M!Init => TypeInv /\ Matched
  <2> SUFFICES ASSUME M!Init PROVE Matched
    BY TypeInit
  <2> QED
    BY DEF M!Init, Matched, M!Made, Row, MethodRow, RevisionRow, OutcomeRow, OpinionRow
<1>2. TypeInv /\ Matched /\ [M!Next]_M!vars => (TypeInv /\ Matched)'
  <2> SUFFICES ASSUME TypeInv, Matched, [M!Next]_M!vars PROVE Matched'
    BY TypeNext
  <2>1. ASSUME NEW key \in MethodKeys, NEW r \in M!Requests, M!Write(key, r)
        PROVE  Matched'
    BY <2>1, WriteSteps, RowSteps, MatchedWrite
  <2>2. CASE UNCHANGED M!tables
    BY <2>2 DEF M!tables, Matched, M!Made, Row, MethodRow, RevisionRow, OutcomeRow,
                OpinionRow, M!Current
  <2>3. ASSUME NEW r \in Readers, M!Read(r)
        PROVE  UNCHANGED M!tables
    BY <2>3, ReadSteps DEF ReadEffect
  <2> QED
    BY <2>1, <2>2, <2>3 DEF M!Next, M!vars
<1>3. Matched => M!AppliedOnce
  BY MatchedOnce
<1> QED
  BY <1>1, <1>2, <1>3, PTL DEF M!Spec

-----------------------------------------------------------------------------
(* Investigations: what they report adds up to what is saved. *)

ChangeKinds == {"initial_observation", "added", "no_longer_observed", "changed"}
ChangeRecord == [scope : Scopes, item : Items, kind : ChangeKinds,
                 old : SUBSET Contents, new : SUBSET Contents]
Observation == [scope : Scopes, item : Items, content : Contents]
Collected == UNION {[D -> I!Snapshots \cup {I!Unavailable}] : D \in SUBSET Scopes}
Investigation == [key : Keys, request : SUBSET Scopes, status : {"failed", "partial", "complete"},
                  changes : SUBSET ChangeRecord]
Collecting == [pc : {"idle", "collect"}, key : Keys \cup {"none"}, request : SUBSET Scopes,
               results : Collected]

TablesTyped ==
    /\ research_latest \in [Scopes -> I!Snapshots \cup {I!NoSnapshot}]
    /\ research_evidence \subseteq Observation
    /\ research_investigations \in Seq(Investigation)
CollectorsTyped ==
    /\ jobs \in [Collectors -> Collecting]
    /\ \A c \in Collectors : /\ DOMAIN jobs[c].results \subseteq jobs[c].request
                             /\ jobs[c].pc = "collect" => jobs[c].key \in Keys

\* What is saved was observed, and it is there for each source that ever had a change.
LatestGrounded ==
    \A s \in Scopes : \A i \in DOMAIN research_latest[s] :
        [scope |-> s, item |-> i, content |-> research_latest[s][i]] \in research_evidence
LatestBegun ==
    \A i \in DOMAIN research_investigations :
        \A ch \in research_investigations[i].changes :
            research_latest[ch.scope] # I!NoSnapshot

\* The replay of the first investigations, for any number of them.
Blank == [p \in Scopes \X Items |-> {}]
IsReplay(g, all) ==
    g = [s \in SUBSET DOMAIN all |->
            IF s = {} THEN Blank ELSE I!Apply(g[s \ {I!Max(s)}], all[I!Max(s)])]
Replay(all) == CHOOSE g : IsReplay(g, all)
Shown(latest) == [p \in Scopes \X Items |-> I!At(latest[p[1]], p[2])]
Replayed == Replay(research_investigations)[DOMAIN research_investigations] = Shown(research_latest)

HistInv ==
    /\ web \in [Scopes -> I!Snapshots]
    /\ TablesTyped /\ CollectorsTyped
    /\ I!SavedOnce /\ I!ChangesGrounded /\ I!InitialOnce
    /\ LatestGrounded /\ LatestBegun /\ Replayed

LEMMA ReplayIsFold == Replayed <=> I!ChangesReplay
  BY Zenon DEF I!ChangesReplay, I!FoldLeft, I!MapThenFoldSet, Replay, IsReplay, Blank, Shown, Replayed

\* What one investigation does to the replayed state.
Views == [Scopes \X Items -> SUBSET Contents]

LEMMA ApplyType ==
    ASSUME NEW state \in Views, NEW investigation \in Investigation
    PROVE  I!Apply(state, investigation) \in Views
<1> SUFFICES ASSUME NEW p \in Scopes \X Items
             PROVE  LET hits == {ch \in investigation.changes : ch.scope = p[1] /\ ch.item = p[2]}
                    IN  (IF hits = {} THEN state[p] ELSE (CHOOSE ch \in hits : TRUE).new)
                            \in SUBSET Contents
  BY DEF I!Apply, Views
<1> DEFINE hits == {ch \in investigation.changes : ch.scope = p[1] /\ ch.item = p[2]}
<1>1. hits \subseteq ChangeRecord
  BY DEF Investigation
<1> HIDE DEF hits
<1>2. hits # {} => (CHOOSE ch \in hits : TRUE) \in ChangeRecord
  BY <1>1
<1>3. hits # {} => (CHOOSE ch \in hits : TRUE).new \in SUBSET Contents
  BY <1>2 DEF ChangeRecord
<1>4. state[p] \in SUBSET Contents
  BY DEF Views
<1> QED
  BY <1>3, <1>4 DEF hits

LEMMA GreatestFacts ==
    ASSUME NEW n \in Nat
    PROVE  /\ \A s \in SUBSET (1..n) : s # {} => I!Max(s) \in s
           /\ \A k \in 1..n : I!Max(1..k) = k /\ (1..k) \ {k} = 1..(k - 1)
<1>1. \A s : I!Max(s) = Greatest(s)
  BY DEF I!Max, Greatest
<1>2. /\ \A s \in SUBSET (1..n) : s # {} => Greatest(s) \in s
      /\ \A k \in 1..n : Greatest(1..k) = k /\ (1..k) \ {k} = 1..(k - 1)
  BY GreatestOfInterval
<1> QED
  BY <1>1, <1>2

LEMMA ReplaySteps ==
    ASSUME NEW all \in Seq(Investigation)
    PROVE  /\ Replay(all)[{}] = Blank
           /\ \A k \in 1..Len(all) :
                  Replay(all)[1..k] = I!Apply(Replay(all)[1..(k - 1)], all[k])
           /\ \A k \in 0..Len(all) : Replay(all)[1..k] \in Views
<1> DEFINE n == Len(all)
           D == 1..n
           p == [s \in SUBSET D |-> I!Max(s)]
           step == [s \in SUBSET D |-> [x \in Views |->
                       IF s = {} THEN Blank ELSE I!Apply(x, all[I!Max(s)])]]
<1>1. /\ n \in Nat /\ DOMAIN all = D /\ \A i \in D : all[i] \in Investigation
      /\ IsFiniteSet(D)
  BY LenProperties, ElementOfSeq, FS_Interval
<1> HIDE DEF n
<1>2. /\ \A s \in SUBSET D : s # {} => I!Max(s) \in s
      /\ \A k \in D : I!Max(1..k) = k /\ (1..k) \ {k} = 1..(k - 1)
  BY <1>1, GreatestFacts
<1>3. Blank \in Views
  BY DEF Blank, Views
<1>4. step \in [SUBSET D -> [Views -> Views]]
  <2> SUFFICES ASSUME NEW s \in SUBSET D, NEW x \in Views, s # {}
               PROVE  I!Apply(x, all[I!Max(s)]) \in Views
    BY <1>3
  <2>1. all[I!Max(s)] \in Investigation
    BY <1>1, <1>2
  <2> QED
    BY <2>1, ApplyType
<1>5. \A s \in SUBSET D : s # {} => p[s] \in s
  BY <1>2
<1>6. \A s \in SUBSET D, x \in Views :
          s # {} => step[s][x] = I!Apply(x, all[I!Max(s)]) /\ p[s] = I!Max(s)
  OBVIOUS
<1> HIDE DEF D, p, step
<1>7. PICK g : Stepwise(g, D, Views, Blank, step, p)
  <2>1. IsFiniteSet(D) /\ p \in [SUBSET D -> {I!Max(s) : s \in SUBSET D}]
    BY <1>1 DEF p
  <2> QED
    BY <1>3, <1>4, <1>5, <2>1, StepsExist
<1>8. ASSUME NEW s \in SUBSET D
      PROVE  g[s] = IF s = {} THEN Blank ELSE I!Apply(g[s \ {I!Max(s)}], all[I!Max(s)])
  <2>1. s # {} => g[s \ {I!Max(s)}] \in Views
    BY <1>7 DEF Stepwise
  <2> QED
    BY <1>6, <1>7, <2>1 DEF Stepwise
<1>9. IsReplay(g, all)
  BY <1>1, <1>7, <1>8 DEF IsReplay, Stepwise
<1>10. IsReplay(Replay(all), all)
  BY <1>9 DEF Replay
<1> DEFINE h == Replay(all)
<1>11. \A s \in SUBSET D :
           h[s] = IF s = {} THEN Blank ELSE I!Apply(h[s \ {I!Max(s)}], all[I!Max(s)])
  <2>1. h = [s \in SUBSET DOMAIN all |->
            IF s = {} THEN Blank ELSE I!Apply(h[s \ {I!Max(s)}], all[I!Max(s)])]
    BY <1>10 DEF IsReplay
  <2> HIDE DEF h
  <2> QED
    BY <1>1, <2>1
<1> HIDE DEF h
<1>12. h[{}] = Blank
  BY <1>11
<1>13. ASSUME NEW k \in 1..n PROVE h[1..k] = I!Apply(h[1..(k - 1)], all[k])
  <2>0. n \in Nat
    BY <1>1
  <2>1. k \in Int /\ 1 <= k /\ k <= n
    BY <2>0, <1>13
  <2>2. 1..k \in SUBSET D /\ 1 \in 1..k /\ k \in D
    BY <2>0, <2>1 DEF D
  <2> QED
    BY <1>2, <1>11, <2>2
<1>14. \A k \in 0..n : h[1..k] \in Views
  <2> DEFINE K == {k \in Nat : k <= n => h[1..k] \in Views}
  <2>1. 0 \in K
    <3>1. 1..0 = {}
      OBVIOUS
    <3> QED
      BY <1>3, <1>12, <3>1
  <2>2. ASSUME NEW k \in K PROVE k + 1 \in K
    <3> SUFFICES ASSUME k + 1 <= n PROVE h[1..(k + 1)] \in Views
      OBVIOUS
    <3>1. k \in Nat /\ k + 1 \in 1..n /\ (k + 1) - 1 = k /\ k <= n
      BY <1>1
    <3>2. h[1..(k + 1)] = I!Apply(h[1..k], all[k + 1])
      BY <1>13, <3>1
    <3>3. h[1..k] \in Views /\ all[k + 1] \in Investigation
      BY <1>1, <3>1 DEF D
    <3> QED
      BY <3>2, <3>3, ApplyType
  <2>3. \A k \in Nat : k \in K
    <3> HIDE DEF K
    <3>1. K \in SUBSET Nat
      BY DEF K
    <3> QED
      BY <2>1, <2>2, <3>1, Induction
  <2> QED
    BY <1>1, <2>3
<1> QED
  BY <1>12, <1>13, <1>14 DEF h, n

LEMMA ReplayAppend ==
    ASSUME NEW all \in Seq(Investigation), NEW x \in Investigation
    PROVE  Replay(Append(all, x))[DOMAIN Append(all, x)] = I!Apply(Replay(all)[DOMAIN all], x)
<1> DEFINE more == Append(all, x)
           n == Len(all)
           g == Replay(all)
           h == Replay(more)
<1>1. /\ more \in Seq(Investigation) /\ n \in Nat /\ Len(more) = n + 1
      /\ DOMAIN all = 1..n /\ DOMAIN more = 1..(n + 1)
      /\ \A k \in 1..n : more[k] = all[k]
      /\ more[n + 1] = x
  BY AppendProperties, LenProperties
<1> HIDE DEF more
<1>2. /\ g[{}] = Blank /\ \A k \in 1..n : g[1..k] = I!Apply(g[1..(k - 1)], all[k])
  BY ReplaySteps
<1>3. /\ h[{}] = Blank /\ \A k \in 1..(n + 1) : h[1..k] = I!Apply(h[1..(k - 1)], more[k])
  BY <1>1, ReplaySteps
<1> HIDE DEF n, g, h
<1>4. \A k \in Nat : k <= n => h[1..k] = g[1..k]
  <2> DEFINE K == {k \in Nat : k <= n => h[1..k] = g[1..k]}
  <2>1. 0 \in K
    <3>1. 1..0 = {}
      OBVIOUS
    <3> QED
      BY <1>2, <1>3, <3>1
  <2>2. ASSUME NEW k \in K PROVE k + 1 \in K
    <3> SUFFICES ASSUME k + 1 <= n PROVE h[1..(k + 1)] = g[1..(k + 1)]
      OBVIOUS
    <3>0. n \in Nat
      BY <1>1
    <3>1. k \in Nat /\ k + 1 \in 1..n /\ k + 1 \in 1..(n + 1) /\ (k + 1) - 1 = k /\ k <= n
      BY <3>0
    <3>2. h[1..k] = g[1..k] /\ more[k + 1] = all[k + 1]
      BY <1>1, <3>1
    <3>3. /\ h[1..(k + 1)] = I!Apply(h[1..((k + 1) - 1)], more[k + 1])
          /\ g[1..(k + 1)] = I!Apply(g[1..((k + 1) - 1)], all[k + 1])
      BY <1>2, <1>3, <3>1
    <3> QED
      BY <3>1, <3>2, <3>3
  <2>3. \A k \in Nat : k \in K
    <3> HIDE DEF K
    <3>1. K \in SUBSET Nat
      BY DEF K
    <3> QED
      BY <2>1, <2>2, <3>1, Induction
  <2> QED
    BY <2>3
<1>5. h[1..n] = g[1..n] /\ n + 1 \in 1..(n + 1) /\ (n + 1) - 1 = n
  BY <1>1, <1>4
<1>6. h[1..(n + 1)] = I!Apply(h[1..((n + 1) - 1)], more[n + 1])
  BY <1>3, <1>5
<1> QED
  BY <1>1, <1>5, <1>6 DEF g, h, more

\* The differences of two snapshots are what is changed, and nothing else.
LEMMA ChangeFacts ==
    ASSUME NEW scope \in Scopes, NEW before \in I!Snapshots \cup {I!NoSnapshot},
           NEW after \in I!Snapshots, NEW changes, changes = I!Changes(scope, before, after)
    PROVE  /\ changes \subseteq ChangeRecord
           /\ \A ch \in changes :
                  /\ ch.scope = scope
                  /\ ch.old = I!At(before, ch.item) /\ ch.new = I!At(after, ch.item)
                  /\ ch.old # ch.new
                  /\ ch.kind = "initial_observation" => before = I!NoSnapshot
           /\ \A i \in Items : I!At(before, i) # I!At(after, i) => \E ch \in changes : ch.item = i
<1> DEFINE record(i) == [scope |-> scope, item |-> i, kind |-> I!ChangeKind(before, i, after),
                         old |-> I!At(before, i), new |-> I!At(after, i)]
           moved == {i \in DOMAIN before \cup DOMAIN after : I!At(before, i) # I!At(after, i)}
<1>1. changes = {record(i) : i \in moved}
  BY DEF I!Changes
<1>2. /\ DOMAIN before \subseteq Items /\ DOMAIN after \subseteq Items
      /\ \A i \in DOMAIN before : before[i] \in Contents
      /\ \A i \in DOMAIN after : after[i] \in Contents
  BY DEF I!Snapshots, I!NoSnapshot
<1>3. \A i : I!At(before, i) \in SUBSET Contents /\ I!At(after, i) \in SUBSET Contents
  BY <1>2 DEF I!At
<1>4. ASSUME NEW i \in moved
      PROVE  /\ I!ChangeKind(before, i, after) \in ChangeKinds
             /\ I!ChangeKind(before, i, after) = "initial_observation" => before = I!NoSnapshot
  BY DEF I!ChangeKind, ChangeKinds
<1>5. \A i \in moved : record(i) \in ChangeRecord
  BY <1>2, <1>3, <1>4 DEF ChangeRecord
<1>6. ASSUME NEW i \in Items, I!At(before, i) # I!At(after, i) PROVE i \in moved
  BY <1>6 DEF I!At
<1>7. \A i \in moved : I!At(before, i) # I!At(after, i)
  OBVIOUS
<1> HIDE DEF moved
<1>8. changes \subseteq ChangeRecord
  BY <1>1, <1>5
<1>9. ASSUME NEW ch \in changes
      PROVE  /\ ch.scope = scope
             /\ ch.old = I!At(before, ch.item) /\ ch.new = I!At(after, ch.item)
             /\ ch.old # ch.new
             /\ ch.kind = "initial_observation" => before = I!NoSnapshot
  <2>1. PICK i \in moved : ch = record(i)
    BY <1>1
  <2> QED
    BY <1>4, <1>7, <2>1
<1>10. ASSUME NEW i \in Items, I!At(before, i) # I!At(after, i)
       PROVE  \E ch \in changes : ch.item = i
  <2>1. record(i) \in changes
    BY <1>1, <1>6, <1>10
  <2> QED
    BY <2>1
<1> QED
  BY <1>8, <1>9, <1>10

\* What a transaction saves, and what it leaves in the tables.
ChangesOf(changes, results, A) ==
    /\ A = I!Answered(results)
    /\ changes = UNION {I!Changes(s, research_latest[s], results[s]) : s \in A}
Reported(changes, results, A) ==
    /\ A \subseteq Scopes /\ A \subseteq DOMAIN results
    /\ \A s \in A : results[s] \in I!Snapshots
    /\ changes \subseteq ChangeRecord
    /\ \A ch \in changes :
           /\ ch.scope \in A
           /\ ch.old = I!At(research_latest[ch.scope], ch.item)
           /\ ch.new = I!At(results[ch.scope], ch.item)
           /\ ch.kind = "initial_observation" => research_latest[ch.scope] = I!NoSnapshot
    /\ \A s \in A, i \in Items :
           I!At(research_latest[s], i) # I!At(results[s], i)
               => \E ch \in changes : ch.scope = s /\ ch.item = i

LEMMA ChangesReported ==
    ASSUME TablesTyped, NEW results \in Collected, NEW A, NEW changes,
           ChangesOf(changes, results, A)
    PROVE  Reported(changes, results, A)
<1>1. A \subseteq Scopes /\ A \subseteq DOMAIN results /\ \A s \in A : results[s] \in I!Snapshots
  BY DEF Collected, I!Answered, ChangesOf
<1>2. ASSUME NEW s \in A
      PROVE  s \in Scopes /\ research_latest[s] \in I!Snapshots \cup {I!NoSnapshot}
  BY <1>1 DEF TablesTyped
<1> DEFINE Of(s) == I!Changes(s, research_latest[s], results[s])
<1>3. ASSUME NEW s \in A
      PROVE  /\ Of(s) \subseteq ChangeRecord
             /\ \A ch \in Of(s) :
                    /\ ch.scope = s
                    /\ ch.old = I!At(research_latest[s], ch.item)
                    /\ ch.new = I!At(results[s], ch.item)
                    /\ ch.kind = "initial_observation" => research_latest[s] = I!NoSnapshot
             /\ \A i \in Items : I!At(research_latest[s], i) # I!At(results[s], i) =>
                    \E ch \in Of(s) : ch.item = i
  BY <1>1, <1>2, ChangeFacts
<1>4. \A ch : ch \in changes <=> \E s \in A : ch \in Of(s)
  BY DEF ChangesOf
<1> HIDE DEF Of
<1>5. ASSUME NEW ch \in changes
      PROVE  /\ ch \in ChangeRecord
             /\ ch.scope \in A
             /\ ch.old = I!At(research_latest[ch.scope], ch.item)
             /\ ch.new = I!At(results[ch.scope], ch.item)
             /\ ch.kind = "initial_observation" =>
                    research_latest[ch.scope] = I!NoSnapshot
  BY <1>3, <1>4
<1>6. ASSUME NEW s \in A, NEW i \in Items, I!At(research_latest[s], i) # I!At(results[s], i)
      PROVE  \E ch \in changes : ch.scope = s /\ ch.item = i
  BY <1>3, <1>4, <1>6
<1> QED
  BY <1>1, <1>5, <1>6 DEF Reported

\* Applied to what was saved before, an investigation gives what it saves.
LEMMA AppliedChanges ==
    ASSUME TablesTyped, NEW results \in Collected, NEW investigation \in Investigation, NEW A,
           ChangesOf(investigation.changes, results, A)
    PROVE  I!Apply(Shown(research_latest), investigation)
               = Shown(I!Merged(research_latest, results))
<1> DEFINE changes == investigation.changes
           latest == I!Merged(research_latest, results)
<1> HIDE DEF changes
<1>1. Reported(changes, results, A) /\ A = I!Answered(results)
  BY ChangesReported DEF changes, ChangesOf
<1>2. \A s \in Scopes : latest[s] = IF s \in A THEN results[s] ELSE research_latest[s]
  BY <1>1 DEF I!Merged
<1> HIDE DEF latest
<1> DEFINE hits(p) == {ch \in changes : ch.scope = p[1] /\ ch.item = p[2]}
<1>3. ASSUME NEW p \in Scopes \X Items
      PROVE  (IF hits(p) = {} THEN Shown(research_latest)[p] ELSE (CHOOSE ch \in hits(p) : TRUE).new)
                 = I!At(latest[p[1]], p[2])
  <2>0. p[1] \in Scopes /\ p[2] \in Items
    OBVIOUS
  <2>1. Shown(research_latest)[p] = I!At(research_latest[p[1]], p[2])
    BY DEF Shown
  <2>2. CASE hits(p) = {}
    <3>1. p[1] \in A => I!At(research_latest[p[1]], p[2]) = I!At(results[p[1]], p[2])
      BY <1>1, <2>0, <2>2 DEF Reported
    <3> QED
      BY <1>2, <2>0, <2>1, <2>2, <3>1
  <2>3. CASE hits(p) # {}
    <3> DEFINE ch == CHOOSE ch \in hits(p) : TRUE
    <3>1. ch \in changes /\ ch.scope = p[1] /\ ch.item = p[2]
      BY <2>3
    <3> HIDE DEF ch
    <3>2. p[1] \in A /\ ch.new = I!At(results[p[1]], p[2])
      BY <1>1, <3>1 DEF Reported
    <3>3. (IF hits(p) = {} THEN Shown(research_latest)[p] ELSE (CHOOSE x \in hits(p) : TRUE).new) = ch.new
      BY <2>3 DEF ch
    <3> QED
      BY <1>2, <2>0, <3>2, <3>3
  <2> QED
    BY <2>2, <2>3
<1>4. I!Apply(Shown(research_latest), investigation) =
          [p \in Scopes \X Items |->
              IF hits(p) = {} THEN Shown(research_latest)[p] ELSE (CHOOSE ch \in hits(p) : TRUE).new]
  BY DEF I!Apply, changes
<1>5. Shown(latest) = [p \in Scopes \X Items |-> I!At(latest[p[1]], p[2])]
  BY DEF Shown
<1> HIDE DEF hits
<1> QED
  BY <1>3, <1>4, <1>5 DEF latest

\* A transaction keeps what is said of the history.
LEMMA SaveKeeps ==
    ASSUME HistInv, NEW c \in Collectors, I!SaveInvestigation(c)
    PROVE  HistInv'
<1> DEFINE job == jobs[c]
           results == job.results
           A == I!Answered(results)
           changes == UNION {I!Changes(s, research_latest[s], results[s]) : s \in A}
           added == [key |-> job.key, request |-> job.request, status |-> I!StatusOf(results),
                     changes |-> changes]
           n == Len(research_investigations)
<1>1. /\ job.pc = "collect" /\ I!KeyFree(job.key)
      /\ research_investigations' = Append(research_investigations, added)
      /\ research_latest' = I!Merged(research_latest, results)
      /\ research_evidence' = research_evidence \cup I!Observations(results)
      /\ jobs' = [jobs EXCEPT ![c] = I!Idle]
      /\ web' = web
  BY DEF I!SaveInvestigation
<1>2. job \in Collecting /\ results \in Collected /\ job.key \in Keys /\ job.request \in SUBSET Scopes
  BY <1>1 DEF HistInv, CollectorsTyped, Collecting
<1>3. TablesTyped
  BY DEF HistInv
<1>4. ChangesOf(changes, results, A)
  BY DEF ChangesOf
<1> HIDE DEF changes, A, results
<1>5. Reported(changes, results, A) /\ A = I!Answered(results)
  BY <1>2, <1>3, <1>4, ChangesReported DEF ChangesOf
<1>6. I!StatusOf(results) \in {"failed", "partial", "complete"}
  BY DEF I!StatusOf
<1>7. added \in Investigation /\ added.changes = changes /\ added.key = job.key
  BY <1>2, <1>5, <1>6 DEF Investigation, Reported
<1> HIDE DEF added, job
<1>8. /\ research_investigations \in Seq(Investigation) /\ n \in Nat
      /\ DOMAIN research_investigations = 1..n
      /\ research_investigations' \in Seq(Investigation)
      /\ DOMAIN research_investigations' = 1..(n + 1)
      /\ \A i \in 1..n : research_investigations'[i] = research_investigations[i]
      /\ research_investigations'[n + 1] = added
  <2>1. research_investigations \in Seq(Investigation)
    BY <1>3 DEF TablesTyped
  <2> QED
    BY <1>1, <1>7, <2>1, AppendProperties, LenProperties
<1> HIDE DEF n
<1>9. \A s \in Scopes : /\ research_latest[s] \in I!Snapshots \cup {I!NoSnapshot}
                        /\ research_latest'[s] = IF s \in A THEN results[s] ELSE research_latest[s]
  BY <1>1, <1>3, <1>5 DEF TablesTyped, I!Merged
<1>10. TablesTyped'
  <2>1. research_latest' \in [Scopes -> I!Snapshots \cup {I!NoSnapshot}]
    <3>1. research_latest' = [s \in Scopes |-> IF s \in A THEN results[s] ELSE research_latest[s]]
      BY <1>1, <1>5 DEF I!Merged
    <3> QED
      BY <1>5, <1>9, <3>1 DEF Reported
  <2>2. I!Observations(results) \subseteq Observation
    <3> SUFFICES ASSUME NEW s \in A, NEW i \in DOMAIN results[s]
                 PROVE  [scope |-> s, item |-> i, content |-> results[s][i]] \in Observation
      BY <1>5 DEF I!Observations
    <3>1. s \in Scopes /\ results[s] \in I!Snapshots
      BY <1>5 DEF Reported
    <3>2. i \in Items /\ results[s][i] \in Contents
      BY <3>1 DEF I!Snapshots
    <3> QED
      BY <3>1, <3>2 DEF Observation
  <2> QED
    BY <1>1, <1>3, <1>8, <2>1, <2>2 DEF TablesTyped
<1>11. CollectorsTyped'
  <2>1. I!Idle \in Collecting /\ DOMAIN I!Idle.results \subseteq I!Idle.request /\ I!Idle.pc = "idle"
    BY DEF I!Idle, Collecting, Collected
  <2> HIDE DEF Collecting
  <2> QED
    BY <1>1, <2>1 DEF HistInv, CollectorsTyped
<1>12. I!SavedOnce'
  BY <1>1, <1>7, <1>8 DEF HistInv, I!SavedOnce, I!KeyFree, I!ByKey
<1>13. research_evidence \subseteq research_evidence'
  BY <1>1
<1>14. \A s \in A : \A i \in DOMAIN results[s] :
          [scope |-> s, item |-> i, content |-> results[s][i]] \in research_evidence'
  BY <1>1, <1>5 DEF I!Observations
<1>15. LatestGrounded'
  BY <1>9, <1>13, <1>14 DEF HistInv, LatestGrounded
<1>16. \A s \in Scopes : research_latest[s] # I!NoSnapshot => research_latest'[s] # I!NoSnapshot
  <2>1. \A s \in A : results[s] # I!NoSnapshot
    BY <1>5 DEF I!Answered, I!NoSnapshot, I!Unavailable
  <2> QED
    BY <1>9, <2>1
<1>17. \A i \in 1..n : \A ch \in research_investigations[i].changes : ch \in ChangeRecord
  <2> TAKE i \in 1..n
  <2>1. research_investigations[i] \in Investigation
    BY <1>8, ElementOfSeq
  <2> QED
    BY <2>1 DEF Investigation
<1>18. LatestBegun'
  <2> SUFFICES ASSUME NEW i \in 1..(n + 1), NEW ch \in research_investigations'[i].changes
               PROVE  research_latest'[ch.scope] # I!NoSnapshot
    BY <1>8 DEF LatestBegun
  <2>1. CASE i \in 1..n
    <3>1. ch \in research_investigations[i].changes /\ ch.scope \in Scopes
      BY <1>8, <1>17, <2>1 DEF ChangeRecord
    <3> QED
      BY <1>8, <1>16, <2>1, <3>1 DEF HistInv, LatestBegun
  <2>2. CASE i = n + 1
    <3>1. ch.scope \in A /\ ch.scope \in Scopes
      BY <1>5, <1>7, <1>8, <2>2 DEF Reported
    <3> QED
      BY <1>5, <1>9, <3>1 DEF I!Answered, I!NoSnapshot, I!Unavailable
  <2> QED
    BY <1>8, <2>1, <2>2
<1>19. I!ChangesGrounded'
  <2> SUFFICES ASSUME NEW i \in 1..(n + 1), NEW ch \in research_investigations'[i].changes,
                      NEW content \in ch.old \cup ch.new
               PROVE  [scope |-> ch.scope, item |-> ch.item, content |-> content]
                          \in research_evidence'
    BY <1>8 DEF I!ChangesGrounded
  <2>1. CASE i \in 1..n
    BY <1>8, <1>13, <2>1 DEF HistInv, I!ChangesGrounded
  <2>2. CASE i = n + 1
    <3>1. /\ ch.scope \in A /\ ch.scope \in Scopes
          /\ ch.old = I!At(research_latest[ch.scope], ch.item)
          /\ ch.new = I!At(results[ch.scope], ch.item)
      BY <1>5, <1>7, <1>8, <2>2 DEF Reported
    <3>2. CASE content \in ch.old
      BY <1>13, <3>1, <3>2 DEF HistInv, LatestGrounded, I!At
    <3>3. CASE content \in ch.new
      BY <1>14, <3>1, <3>3 DEF I!At
    <3> QED
      BY <3>2, <3>3
  <2> QED
    BY <1>8, <2>1, <2>2
<1>20. I!InitialOnce'
  <2> SUFFICES ASSUME NEW i \in 1..(n + 1), NEW j \in 1..(n + 1), i < j,
                      NEW ch \in research_investigations'[i].changes,
                      NEW d \in research_investigations'[j].changes,
                      d.scope = ch.scope, d.kind = "initial_observation"
               PROVE  FALSE
    BY <1>8 DEF I!InitialOnce
  <2>0. i \in 1..n
    BY <1>8
  <2>1. CASE j \in 1..n
    BY <1>8, <2>0, <2>1 DEF HistInv, I!InitialOnce
  <2>2. CASE j = n + 1
    <3>1. research_latest[d.scope] = I!NoSnapshot
      BY <1>5, <1>7, <1>8, <2>2 DEF Reported
    <3> QED
      BY <1>8, <2>0, <3>1 DEF HistInv, LatestBegun
  <2> QED
    BY <1>8, <2>1, <2>2
<1>21. Replayed'
  <2>1. Replay(research_investigations')[DOMAIN research_investigations']
            = I!Apply(Replay(research_investigations)[DOMAIN research_investigations], added)
    BY <1>1, <1>7, <1>8, ReplayAppend
  <2>2. Replay(research_investigations)[DOMAIN research_investigations] = Shown(research_latest)
    BY DEF HistInv, Replayed
  <2>3. I!Apply(Shown(research_latest), added) = Shown(I!Merged(research_latest, results))
    BY <1>2, <1>3, <1>4, <1>7, AppliedChanges DEF results
  <2> QED
    BY <1>1, <2>1, <2>2, <2>3 DEF Replayed
<1> QED
  BY <1>1, <1>10, <1>11, <1>12, <1>15, <1>18, <1>19, <1>20, <1>21 DEF HistInv

\* What a collector does before and without a transaction leaves the tables alone.
LEMMA TablesStay ==
    ASSUME HistInv, UNCHANGED I!tables, CollectorsTyped', web' \in [Scopes -> I!Snapshots]
    PROVE  HistInv'
<1>1. /\ research_latest' = research_latest /\ research_evidence' = research_evidence
      /\ research_investigations' = research_investigations
  BY DEF I!tables
<1>2. TablesTyped' /\ LatestGrounded' /\ LatestBegun' /\ Replayed'
  BY <1>1 DEF HistInv, TablesTyped, LatestGrounded, LatestBegun, Replayed
<1>3. I!SavedOnce' /\ I!ChangesGrounded' /\ I!InitialOnce'
  BY <1>1 DEF HistInv, I!SavedOnce, I!ChangesGrounded, I!InitialOnce
<1> QED
  BY <1>2, <1>3 DEF HistInv

LEMMA CollectorMoves ==
    ASSUME CollectorsTyped, NEW c \in Collectors, NEW job \in Collecting,
           DOMAIN job.results \subseteq job.request, job.pc = "collect" => job.key \in Keys,
           jobs' = [jobs EXCEPT ![c] = job]
    PROVE  CollectorsTyped'
  BY DEF CollectorsTyped

LEMMA NoResults == << >> \in Collected /\ DOMAIN << >> = {}
  BY DEF Collected

LEMMA IdleCollector ==
    I!Idle \in Collecting /\ DOMAIN I!Idle.results = {} /\ I!Idle.pc = "idle"
  BY NoResults DEF I!Idle, Collecting

LEMMA CollectKeeps ==
    ASSUME HistInv, NEW c \in Collectors, NEW scope \in Scopes, I!Collect(c, scope)
    PROVE  CollectorsTyped'
<1> DEFINE job == jobs[c]
<1>1. /\ job.pc = "collect" /\ scope \in job.request \ DOMAIN job.results
      /\ job \in Collecting /\ job.key \in Keys /\ DOMAIN job.results \subseteq job.request
  BY DEF HistInv, CollectorsTyped, I!Collect
<1>2. PICK answer \in {web[scope], I!Unavailable} :
          jobs' = [jobs EXCEPT ![c].results =
               [s \in DOMAIN jobs[c].results \cup {scope} |->
                   IF s = scope THEN answer ELSE jobs[c].results[s]]]
  BY DEF I!Collect
<1> DEFINE results == [s \in DOMAIN job.results \cup {scope} |->
                          IF s = scope THEN answer ELSE job.results[s]]
           after == [job EXCEPT !.results = results]
<1>3. results \in Collected /\ DOMAIN results \subseteq job.request
  <2>1. answer \in I!Snapshots \cup {I!Unavailable}
    BY DEF HistInv
  <2>2. job.results \in Collected
    BY <1>1 DEF Collecting
  <2>3. PICK D \in SUBSET Scopes : job.results \in [D -> I!Snapshots \cup {I!Unavailable}]
    BY <2>2 DEF Collected
  <2>4. results \in [D \cup {scope} -> I!Snapshots \cup {I!Unavailable}]
    BY <2>1, <2>3
  <2>5. D \cup {scope} \in SUBSET Scopes
    BY <1>1
  <2> HIDE DEF results
  <2>6. DOMAIN results = D \cup {scope}
    BY <2>4
  <2> QED
    BY <1>1, <2>3, <2>4, <2>5, <2>6 DEF Collected
<1>4. jobs' = [jobs EXCEPT ![c] = after]
  BY <1>2
<1> HIDE DEF results
<1>5. after \in Collecting /\ after.results = results /\ after.request = job.request
      /\ after.key = job.key
  BY <1>1, <1>3 DEF Collecting
<1> HIDE DEF after, job
<1>6. CollectorsTyped
  BY DEF HistInv
<1> QED
  BY <1>1, <1>3, <1>4, <1>5, <1>6, CollectorMoves

LEMMA HistNextKeeps ==
    ASSUME HistInv, [I!Next]_I!vars
    PROVE  HistInv'
<1>0. CollectorsTyped /\ web \in [Scopes -> I!Snapshots]
  BY DEF HistInv
<1>1. ASSUME NEW c \in Collectors, NEW key \in Keys, NEW request \in I!Requests,
             I!Accept(c, key, request)
      PROVE  HistInv'
  <2> DEFINE job == [pc |-> "collect", key |-> key, request |-> request, results |-> << >>]
  <2>1. jobs' = [jobs EXCEPT ![c] = job] /\ web' = web /\ UNCHANGED I!tables
    BY <1>1 DEF I!Accept
  <2>2. job \in Collecting /\ DOMAIN job.results \subseteq job.request /\ job.key \in Keys
    BY NoResults DEF Collecting, I!Requests
  <2> HIDE DEF job
  <2>3. CollectorsTyped'
    BY <1>0, <2>1, <2>2, CollectorMoves
  <2> QED
    BY <1>0, <2>1, <2>3, TablesStay
<1>2. ASSUME NEW c \in Collectors, NEW scope \in Scopes, I!Collect(c, scope)
      PROVE  HistInv'
  <2>1. web' = web /\ UNCHANGED I!tables
    BY <1>2 DEF I!Collect
  <2> QED
    BY <1>0, <1>2, <2>1, CollectKeeps, TablesStay
<1>3. ASSUME NEW c \in Collectors, I!FindSaved(c)
      PROVE  HistInv'
  <2>1. jobs' = [jobs EXCEPT ![c] = I!Idle] /\ web' = web /\ UNCHANGED I!tables
    BY <1>3 DEF I!FindSaved
  <2>2. CollectorsTyped'
    BY <1>0, <2>1, IdleCollector, CollectorMoves
  <2> QED
    BY <1>0, <2>1, <2>2, TablesStay
<1>4. ASSUME NEW scope \in Scopes, NEW snapshot \in I!Snapshots, I!Publish(scope, snapshot)
      PROVE  HistInv'
  <2>1. web' \in [Scopes -> I!Snapshots] /\ UNCHANGED <<I!tables, jobs>>
    BY <1>0, <1>4 DEF I!Publish
  <2>2. CollectorsTyped'
    BY <1>0, <2>1 DEF CollectorsTyped
  <2> QED
    BY <2>1, <2>2, TablesStay
<1>5. CASE UNCHANGED I!vars
  <2>1. UNCHANGED I!tables /\ web' = web /\ jobs' = jobs
    BY <1>5 DEF I!vars
  <2>2. CollectorsTyped'
    BY <1>0, <2>1 DEF CollectorsTyped
  <2> QED
    BY <1>0, <2>1, <2>2, TablesStay
<1> QED
  BY <1>1, <1>2, <1>3, <1>4, <1>5, SaveKeeps DEF I!Next

LEMMA HistInitHolds == I!Bounds /\ I!Init => HistInv
<1> SUFFICES ASSUME I!Bounds, I!Init PROVE HistInv
  OBVIOUS
<1>1. web \in [Scopes -> I!Snapshots]
  <2> DEFINE c == CHOOSE c \in Contents : TRUE
             first == [i \in Items |-> c]
  <2>1. c \in Contents /\ Items # {}
    BY DEF I!Bounds
  <2> HIDE DEF c
  <2>2. first \in [Items -> Contents] /\ Items \in (SUBSET Items) \ {{}}
    BY <2>1
  <2>3. first \in I!Snapshots
    BY <2>2 DEF I!Snapshots
  <2>4. web = [s \in Scopes |-> first]
    BY DEF I!Init, c
  <2> HIDE DEF first
  <2> QED
    BY <2>3, <2>4
<1>2. TablesTyped
  BY EmptySeq DEF I!Init, TablesTyped
<1>3. CollectorsTyped
  <2> HIDE DEF Collecting
  <2> QED
    BY IdleCollector DEF I!Init, CollectorsTyped
<1>4. research_investigations = << >> /\ DOMAIN research_investigations = {}
  BY DEF I!Init
<1>5. I!SavedOnce /\ I!ChangesGrounded /\ I!InitialOnce /\ LatestBegun
  BY <1>4 DEF I!SavedOnce, I!ChangesGrounded, I!InitialOnce, LatestBegun
<1>6. \A s \in Scopes : research_latest[s] = << >> /\ DOMAIN research_latest[s] = {}
  BY DEF I!Init, I!NoSnapshot
<1>7. LatestGrounded
  BY <1>6 DEF LatestGrounded
<1>8. Replayed
  <2>1. Replay(research_investigations)[DOMAIN research_investigations] = Blank
    BY <1>2, <1>4, ReplaySteps DEF TablesTyped
  <2>2. Shown(research_latest) = Blank
    BY <1>6 DEF Shown, Blank, I!At
  <2> QED
    BY <2>1, <2>2 DEF Replayed
<1> QED
  BY <1>1, <1>2, <1>3, <1>5, <1>7, <1>8 DEF HistInv

LEMMA HistTyped == HistInv => I!TypeOK
<1> SUFFICES ASSUME HistInv PROVE I!TypeOK
  OBVIOUS
<1>1. ASSUME NEW i \in DOMAIN research_investigations
      PROVE  /\ research_investigations[i].key \in Keys
             /\ research_investigations[i].status \in {"failed", "partial", "complete"}
  <2>1. research_investigations[i] \in Investigation
    BY ElementOfSeq, LenProperties DEF HistInv, TablesTyped
  <2> QED
    BY <2>1 DEF Investigation
<1> QED
  BY <1>1 DEF HistInv, TablesTyped, CollectorsTyped, Observation, I!TypeOK

\* A key saves one investigation, and what investigations report adds up to what is saved
\* (research_store.py:save_investigation).
THEOREM InvestigationsTraceable ==
    ASSUME I!Bounds
    PROVE  I!Spec => [](I!TypeOK /\ I!SavedOnce /\ I!HistoryTraceable)
<1>1. I!Init => HistInv
  BY HistInitHolds
<1>2. HistInv /\ [I!Next]_I!vars => HistInv'
  BY HistNextKeeps
<1>3. HistInv => I!TypeOK /\ I!SavedOnce /\ I!HistoryTraceable
  BY HistTyped, ReplayIsFold DEF HistInv, I!HistoryTraceable
<1> QED
  BY <1>1, <1>2, <1>3, PTL DEF I!Spec

-----------------------------------------------------------------------------
(* The synchronisation: notes keep the ids of their records, for any number *)
(* of notes, threads, edits, admin requests and crashes. *)

JobFields == {"pc", "note", "body", "meta", "answer", "force", "waited", "sent",
              "replaces"}

\* Frontmatter that names a record names one there is room for.
Fits(meta) ==
    /\ DOMAIN meta \subseteq S!Fields
    /\ "core_api_id" \in DOMAIN meta => meta["core_api_id"] \in S!Ids
    /\ "failures" \in DOMAIN meta => meta["failures"] \in 0..THRESHOLD
    /\ "last_failure" \in DOMAIN meta => meta["last_failure"] \in 0..BACKOFF

Bodies == 0..MaxEdits

\* A thread that is about to write has an id to write, and only editors replace.
JobHolds(j, job) ==
    /\ DOMAIN job = JobFields
    /\ job.pc \in {"idle", "scan", "send", "store", "write"}
    /\ job.note \in S!Paths /\ job.body \in Bodies
    /\ Fits(job.meta)
    /\ job.answer \in S!Ids \cup {0}
    /\ j \in Threads /\ job.pc = "write" => job.answer # 0
    /\ job.replaces \in BOOLEAN /\ (job.replaces => j = "editor")

NoteHolds(note) == DOMAIN note = {"body", "meta"} /\ note.body \in Bodies /\ Fits(note.meta)

\* An edit under way is one that there is room for.
EditsLeft ==
    /\ DOMAIN spent = {"edits", "admin", "crashes"} /\ spent.edits \in 0..MaxEdits
    /\ syncJobs["editor"].pc = "write" => spent.edits < MaxEdits

IdInv ==
    /\ DOMAIN notes = S!Paths /\ \A n \in S!Paths : NoteHolds(notes[n])
    /\ DOMAIN syncJobs = S!Jobs /\ \A j \in S!Jobs : JobHolds(j, syncJobs[j])
    /\ EditsLeft /\ retry \in BOOLEAN

HasId(note) == S!Get(note.meta, "core_api_id") # 0

\* The editor puts a copy without an id in the place of note n.
Replaced(n) == S!ReplacesId(n) /\ syncJobs'["editor"].pc = "idle"

\* What a step may do to notes and to jobs.
NotesKeep ==
    /\ DOMAIN notes' = S!Paths
    /\ \A n \in S!Paths :
          /\ NoteHolds(notes'[n])
          /\ HasId(notes[n]) => (HasId(notes'[n]) \/ Replaced(n))
JobsKeep == DOMAIN syncJobs' = S!Jobs /\ \A j \in S!Jobs : JobHolds(j, syncJobs'[j])

\* A job with these fields.
Like(job, pc, n, body, meta, answer) ==
    /\ DOMAIN job = JobFields
    /\ job.pc = pc /\ job.note = n /\ job.body = body /\ job.meta = meta /\ job.answer = answer
    /\ job.replaces = FALSE

LEMMA SyncIdleHolds ==
    ASSUME S!Bounds, NEW j
    PROVE  JobHolds(j, S!Idle) /\ Like(S!Idle, "idle", 1, 0, << >>, 0) /\ Fits(<< >>)
<1>1. 1 \in S!Paths /\ 0 \in Bodies
  BY DEF S!Bounds, S!Paths, Bodies
<1>2. Like(S!Idle, "idle", 1, 0, << >>, 0)
  BY DEF S!Idle, JobFields, Like
<1>3. Fits(<< >>)
  BY DEF Fits
<1> QED
  BY <1>1, <1>2, <1>3 DEF JobHolds, Like

LEMMA JobLike ==
    ASSUME NEW j, NEW job, NEW pc \in {"scan", "send", "store", "write"}, NEW n \in S!Paths,
           NEW body \in Bodies, NEW meta, Fits(meta), NEW answer \in S!Ids \cup {0},
           Like(job, pc, n, body, meta, answer), j \in Threads /\ pc = "write" => answer # 0
    PROVE  JobHolds(j, job)
  BY DEF Like, JobHolds

LEMMA HoldingHolds ==
    ASSUME S!Bounds, IdInv, NEW n \in S!Paths, NEW pc \in {"send", "write"}, NEW j,
           pc = "write" => j \notin Threads
    PROVE  /\ JobHolds(j, S!Holding(n, pc))
           /\ Like(S!Holding(n, pc), pc, n, notes[n].body, notes[n].meta, 0)
<1> DEFINE h == S!Holding(n, pc)
<1>1. Like(h, pc, n, notes[n].body, notes[n].meta, 0)
  BY DEF S!Holding, S!Idle, JobFields, Like
<1> HIDE DEF h
<1>2. notes[n].body \in Bodies /\ Fits(notes[n].meta)
  BY DEF IdInv, NoteHolds
<1> QED
  BY <1>1, <1>2, JobLike DEF h

LEMMA MergeFits ==
    ASSUME NEW meta, NEW old, Fits(meta)
    PROVE  /\ Fits(old) => Fits(S!Merge(meta, old))
           /\ S!Get(old, "core_api_id") # 0 => S!Get(S!Merge(meta, old), "core_api_id") # 0
<1> DEFINE m == S!Merge(meta, old)
<1>1. /\ DOMAIN m = DOMAIN meta \cup DOMAIN old
      /\ \A f \in DOMAIN m : m[f] = IF f \in DOMAIN meta THEN meta[f] ELSE old[f]
  BY DEF S!Merge
<1> HIDE DEF m
<1>2. Fits(old) => Fits(m)
  BY <1>1 DEF Fits
<1>3. 0 \notin S!Ids
  BY DEF S!Ids
<1>4. S!Get(old, "core_api_id") # 0 => S!Get(m, "core_api_id") # 0
  BY <1>1, <1>3 DEF Fits, S!Get
<1> QED
  BY <1>2, <1>4 DEF m

LEMMA WithoutFits ==
    ASSUME NEW meta, Fits(meta), NEW fields
    PROVE  Fits(S!Without(meta, fields))
<1> DEFINE m == S!Without(meta, fields)
<1>1. DOMAIN m = DOMAIN meta \ fields /\ \A f \in DOMAIN m : m[f] = meta[f]
  BY DEF S!Without
<1> HIDE DEF m
<1>2. Fits(m)
  BY <1>1 DEF Fits
<1> QED
  BY <1>2 DEF m

LEMMA SucceededFits ==
    ASSUME S!Bounds, NEW meta, Fits(meta), NEW id \in S!Ids
    PROVE  Fits(S!Succeeded(meta, id))
<1> DEFINE new == [core_api_id |-> id, failures |-> 0]
<1>1. /\ DOMAIN new = {"core_api_id", "failures"} /\ new["core_api_id"] = id
      /\ new["failures"] = 0
  OBVIOUS
<1> HIDE DEF new
<1>2. Fits(new)
  BY <1>1 DEF Fits, S!Fields, S!Bounds
<1>3. S!Succeeded(meta, id) = S!Merge(new, S!Without(meta, {"last_failure", "blocked"}))
  BY DEF S!Succeeded, new
<1> QED
  BY <1>2, <1>3, MergeFits, WithoutFits

LEMMA FailedFits ==
    ASSUME S!Bounds, NEW meta, Fits(meta), NEW blocks
    PROVE  Fits(S!FailedMeta(meta, blocks))
<1> DEFINE count == S!Capped(S!Get(meta, "failures") + 1)
           twice == [failures |-> count, last_failure |-> 0]
           thrice == [failures |-> count, last_failure |-> 0, blocked |-> 1]
           new == IF blocks THEN thrice ELSE twice
<1>1. count \in 0..THRESHOLD
  BY DEF S!Capped, S!Get, Fits, S!Bounds
<1> HIDE DEF count
<1>2. /\ DOMAIN twice = {"failures", "last_failure"}
      /\ DOMAIN thrice = {"failures", "last_failure", "blocked"}
      /\ twice["failures"] = count /\ twice["last_failure"] = 0
      /\ thrice["failures"] = count /\ thrice["last_failure"] = 0
  OBVIOUS
<1>3. S!FailedMeta(meta, blocks) = S!Merge(new, meta)
  BY DEF S!FailedMeta, count
<1> HIDE DEF twice, thrice
<1>4. Fits(new)
  BY <1>1, <1>2 DEF Fits, S!Fields, S!Bounds
<1> HIDE DEF new
<1> QED
  BY <1>3, <1>4, MergeFits

\* A write merges what it is given over the frontmatter it finds, unless it is the write
\* of an editor that replaces the frontmatter by its copy.
LEMMA WriteKeeps ==
    ASSUME S!Bounds, IdInv, NEW self \in S!Jobs, NEW rest, JobHolds(self, rest),
           NEW n \in S!Paths, NEW body \in Bodies, NEW meta, Fits(meta), NEW skip,
           S!WriteDocument(self, rest, n, body, meta, skip),
           syncJobs[self].replaces =>
              /\ syncJobs[self].pc = "write" /\ syncJobs[self].note = n
              /\ syncJobs[self].meta = meta /\ rest = S!Idle
    PROVE  NotesKeep /\ JobsKeep
<1> DEFINE merged == S!Written(self, meta, notes[n].meta)
           new == [body |-> body, meta |-> merged]
<1>a. syncJobs[self].replaces \in BOOLEAN /\ (syncJobs[self].replaces => self = "editor")
  BY DEF IdInv, JobHolds
<1>b. syncJobs[self].replaces => merged = meta
  BY DEF S!Written
<1>c. ~syncJobs[self].replaces => merged = S!Merge(meta, notes[n].meta)
  BY DEF S!Written
<1>0. new.body = body /\ new.meta = merged /\ DOMAIN new = {"body", "meta"}
  OBVIOUS
<1>2. notes' = [notes EXCEPT ![n] = new]
  BY DEF S!WriteDocument
<1>4. \/ syncJobs' = [syncJobs EXCEPT ![self] = rest]
      \/ \E t \in Threads :
            syncJobs' = [syncJobs EXCEPT ![self] = rest, ![t] =
                [S!Idle EXCEPT !.pc = "send", !.note = n, !.body = body, !.meta = merged]]
  BY DEF S!WriteDocument
<1> HIDE DEF merged, new
<1>1. Fits(merged)
  BY <1>b, <1>c, MergeFits DEF IdInv, NoteHolds
<1>3. NoteHolds(new)
  BY <1>0, <1>1 DEF NoteHolds
<1>5. ASSUME HasId(notes[n]), ~HasId(new)
      PROVE  Replaced(n)
  <2>1. S!Get(merged, "core_api_id") = 0
    BY <1>0, <1>5 DEF HasId
  <2>2. syncJobs[self].replaces
    BY <1>a, <1>c, <1>5, <2>1, MergeFits DEF HasId
  <2>3. /\ self = "editor" /\ merged = meta /\ rest = S!Idle
        /\ "editor" \in S!Jobs /\ "editor" \notin Threads /\ DOMAIN syncJobs = S!Jobs
    BY <1>a, <1>b, <2>2 DEF S!Jobs, IdInv, S!Bounds
  <2>4. S!ReplacesId(n)
    BY <2>1, <2>2, <2>3 DEF S!ReplacesId
  <2>5. syncJobs'["editor"] = S!Idle
    BY <1>4, <2>3
  <2> QED
    BY <2>4, <2>5 DEF S!Idle, Replaced
<1>8. NotesKeep
  BY <1>2, <1>3, <1>5 DEF NotesKeep, IdInv
<1>6. CASE syncJobs' = [syncJobs EXCEPT ![self] = rest]
  BY <1>6, <1>8 DEF JobsKeep, IdInv
<1>7. ASSUME NEW t \in Threads,
             syncJobs' = [syncJobs EXCEPT ![self] = rest, ![t] =
                [S!Idle EXCEPT !.pc = "send", !.note = n, !.body = body, !.meta = merged]]
      PROVE  JobsKeep
  <2> DEFINE started == [S!Idle EXCEPT !.pc = "send", !.note = n, !.body = body,
                                     !.meta = merged]
  <2>1. Like(started, "send", n, body, merged, 0)
    BY DEF S!Idle, JobFields, Like
  <2>2. t \in S!Jobs
    BY DEF S!Jobs
  <2>3. syncJobs' = [syncJobs EXCEPT ![self] = rest, ![t] = started]
    BY <1>7
  <2> HIDE DEF started
  <2>4. JobHolds(t, started)
    BY <1>1, <2>1, JobLike
  <2> QED
    BY <2>2, <2>3, <2>4 DEF JobsKeep, IdInv
<1> QED
  BY <1>4, <1>6, <1>7, <1>8

\* Of the jobs, only the editor replaces.
LEMMA OthersMerge ==
    ASSUME S!Bounds, IdInv, NEW j \in S!Jobs, j # "editor"
    PROVE  syncJobs[j].replaces = FALSE
  BY DEF IdInv, JobHolds

LEMMA ThreadsAreNoEditors ==
    ASSUME S!Bounds, NEW t \in Threads
    PROVE  t \in S!Jobs /\ t # "editor"
  BY DEF S!Bounds, S!Jobs

\* An answer moves a thread to storing it, and the others to their write.
LEMMA AnsweredKeeps ==
    ASSUME S!Bounds, IdInv, NEW j \in S!Jobs \ {"editor"}, NEW id \in S!Ids \cup {0},
           syncJobs' = S!Answered(j, id),
           notes' = notes
    PROVE  NotesKeep /\ JobsKeep
<1> DEFINE q == syncJobs'[j]
           pc == IF j \in Threads THEN "store" ELSE "write"
<1>0. JobHolds(j, syncJobs[j])
  BY DEF IdInv
<1>a. syncJobs[j].replaces = FALSE
  BY OthersMerge
<1>1. Like(q, pc, syncJobs[j].note, syncJobs[j].body, syncJobs[j].meta, id)
  BY <1>0, <1>a DEF S!Answered, IdInv, JobHolds, JobFields, Like
<1>2. \A k \in S!Jobs : k # j => syncJobs'[k] = syncJobs[k]
  BY DEF S!Answered, IdInv
<1>3. DOMAIN syncJobs' = S!Jobs
  BY DEF S!Answered, IdInv
<1> HIDE DEF q
<1>4. JobHolds(j, q)
  <2>1. /\ pc \in {"store", "write"} /\ (j \in Threads => pc # "write")
        /\ syncJobs[j].note \in S!Paths /\ syncJobs[j].body \in Bodies /\ Fits(syncJobs[j].meta)
    BY <1>0 DEF JobHolds
  <2> HIDE DEF pc
  <2> QED
    BY <1>1, <2>1, JobLike
<1> QED
  BY <1>2, <1>3, <1>4 DEF NotesKeep, JobsKeep, IdInv, q

\* There is an id that nobody knows.
LEMMA NewIdThere ==
    ASSUME S!Bounds, IdInv
    PROVE  S!NewId \in S!Ids
<1> DEFINE N == {S!Get(notes[n].meta, "core_api_id") : n \in S!Paths}
           J == {S!Get(syncJobs[j].meta, "core_api_id") : j \in S!Jobs}
           A == {syncJobs[j].answer : j \in S!Jobs}
           c == Cardinality(S!Jobs)
<1>1. IsFiniteSet(S!Paths) /\ Cardinality(S!Paths) = NOTES /\ NOTES \in Nat
  <2>1. NOTES \in Nat /\ NOTES \in Int /\ 1 \in Int /\ 1 <= NOTES
    BY DEF S!Bounds
  <2>2. IsFiniteSet(1..NOTES)
    BY <2>1, FS_Interval
  <2>3. Cardinality(1..NOTES) = IF 1 > NOTES THEN 0 ELSE NOTES - 1 + 1
    BY <2>1, FS_Interval
  <2> QED
    BY <2>1, <2>2, <2>3 DEF S!Paths
<1>2. IsFiniteSet(S!Jobs) /\ c \in Nat
  <2>1. IsFiniteSet(Threads) /\ IsFiniteSet({"task", "admin", "editor"})
    <3>1. IsFiniteSet(Threads)
      BY DEF S!Bounds, S!IsFiniteSet, IsFiniteSet
    <3>2. {"task", "admin", "editor"} = (({} \cup {"task"}) \cup {"admin"}) \cup {"editor"}
      OBVIOUS
    <3>3. IsFiniteSet({} \cup {"task"})
      BY FS_EmptySet, FS_AddElement
    <3>4. IsFiniteSet(({} \cup {"task"}) \cup {"admin"})
      BY <3>3, FS_AddElement
    <3>5. IsFiniteSet((({} \cup {"task"}) \cup {"admin"}) \cup {"editor"})
      BY <3>4, FS_AddElement
    <3> QED
      BY <3>1, <3>2, <3>5
  <2>2. IsFiniteSet(S!Jobs)
    BY <2>1, FS_Union DEF S!Jobs
  <2> QED
    BY <2>2, FS_CardinalityType
<1>3. IsFiniteSet(N) /\ Cardinality(N) <= NOTES
  <2> DEFINE f == [n \in S!Paths |-> S!Get(notes[n].meta, "core_api_id")]
  <2>1. f \in Surjection(S!Paths, N)
    BY DEF Surjection
  <2> HIDE DEF f, N
  <2> QED
    BY <1>1, <2>1, FS_Surjection
<1>4. IsFiniteSet(J) /\ Cardinality(J) <= c
  <2> DEFINE f == [j \in S!Jobs |-> S!Get(syncJobs[j].meta, "core_api_id")]
  <2>1. f \in Surjection(S!Jobs, J)
    BY DEF Surjection
  <2> HIDE DEF f, J
  <2> QED
    BY <1>2, <2>1, FS_Surjection
<1>5. IsFiniteSet(A) /\ Cardinality(A) <= c
  <2> DEFINE f == [j \in S!Jobs |-> syncJobs[j].answer]
  <2>1. f \in Surjection(S!Jobs, A)
    BY DEF Surjection
  <2> HIDE DEF f, A
  <2> QED
    BY <1>2, <2>1, FS_Surjection
<1>6. S!KnownIds \subseteq (N \cup J) \cup A
  BY DEF S!KnownIds
<1> HIDE DEF N, J, A
<1>7. IsFiniteSet((N \cup J) \cup A) /\ Cardinality((N \cup J) \cup A) <= NOTES + 2 * c
  <2>1. /\ IsFiniteSet(N \cup J)
        /\ Cardinality(N \cup J) = Cardinality(N) + Cardinality(J) - Cardinality(N \cap J)
    BY <1>3, <1>4, FS_Union
  <2>2. /\ IsFiniteSet((N \cup J) \cup A)
        /\ Cardinality((N \cup J) \cup A)
               = Cardinality(N \cup J) + Cardinality(A) - Cardinality((N \cup J) \cap A)
    BY <1>5, <2>1, FS_Union
  <2>3. IsFiniteSet(N \cap J) /\ IsFiniteSet((N \cup J) \cap A)
    BY <1>3, <1>5, FS_Intersection
  <2>4. /\ Cardinality(N) \in Nat /\ Cardinality(J) \in Nat /\ Cardinality(A) \in Nat
        /\ Cardinality(N \cap J) \in Nat /\ Cardinality((N \cup J) \cap A) \in Nat
        /\ Cardinality(N \cup J) \in Nat
    BY <1>3, <1>4, <1>5, <2>1, <2>3, FS_CardinalityType
  <2> HIDE DEF c
  <2> QED
    BY <1>1, <1>2, <1>3, <1>4, <1>5, <2>1, <2>2, <2>4
<1>8. IsFiniteSet(S!KnownIds) /\ Cardinality(S!KnownIds) <= NOTES + 2 * c
  <2>1. IsFiniteSet(S!KnownIds) /\ Cardinality(S!KnownIds) <= Cardinality((N \cup J) \cup A)
    BY <1>6, <1>7, FS_Subset
  <2>2. Cardinality(S!KnownIds) \in Nat /\ Cardinality((N \cup J) \cup A) \in Nat
    BY <1>7, <2>1, FS_CardinalityType
  <2> HIDE DEF c
  <2> QED
    BY <1>1, <1>2, <1>7, <2>1, <2>2
<1>9. Cardinality(S!Ids) = NOTES + 2 * c + 1
  <2>1. S!Cardinality(S!Jobs) = c
    BY DEF S!Cardinality, Cardinality
  <2> HIDE DEF c
  <2>2. S!Ids = 1..(NOTES + 2 * c + 1) /\ NOTES + 2 * c + 1 \in Nat
    BY <1>1, <1>2, <2>1 DEF S!Ids
  <2> DEFINE k == NOTES + 2 * c + 1
  <2> HIDE DEF k
  <2>3. S!Ids = 1..k /\ k \in Nat
    BY <2>2 DEF k
  <2>4. Cardinality(1..k) = k
    BY <1>1, <2>3, FS_Interval
  <2> QED
    BY <2>3, <2>4 DEF k
<1>10. \E i \in S!Ids : i \notin S!KnownIds
  <2> SUFFICES ASSUME S!Ids \subseteq S!KnownIds PROVE FALSE
    OBVIOUS
  <2>1. Cardinality(S!Ids) <= Cardinality(S!KnownIds)
    BY <1>8, FS_Subset
  <2>2. Cardinality(S!KnownIds) \in Nat
    BY <1>8, FS_CardinalityType
  <2> HIDE DEF c
  <2> QED
    BY <1>1, <1>2, <1>8, <1>9, <2>1, <2>2
<1> QED
  BY <1>10 DEF S!NewId

LEMMA SendKeeps ==
    ASSUME S!Bounds, IdInv, NEW j \in S!Jobs \ {"editor"}, S!Send(j)
    PROVE  NotesKeep /\ JobsKeep
<1>1. S!Target(syncJobs[j]) \in S!Ids \cup {0}
  BY DEF S!Target, S!Get, IdInv, JobHolds, Fits
<1>2. notes' = notes /\ \E id \in S!Ids \cup {0} : syncJobs' = S!Answered(j, id)
  BY <1>1, NewIdThere DEF S!Send, S!SendDone, S!SendLost, S!SendFails
<1> QED
  BY <1>2, AnsweredKeeps

LEMMA OneJob ==
    ASSUME S!Bounds, IdInv, NEW j \in S!Jobs, NEW job, JobHolds(j, job),
           syncJobs' = [syncJobs EXCEPT ![j] = job], notes' = notes
    PROVE  NotesKeep /\ JobsKeep
  BY DEF NotesKeep, JobsKeep, IdInv

LEMMA StoreKeeps ==
    ASSUME S!Bounds, IdInv, NEW t \in Threads, S!Store(t)
    PROVE  NotesKeep /\ JobsKeep
<1>1. t \in S!Jobs /\ JobHolds(t, syncJobs[t]) /\ syncJobs[t].replaces = FALSE
  BY ThreadsAreNoEditors, OthersMerge DEF IdInv
<1>2. CASE S!GiveUp(t)
  BY <1>1, <1>2, OneJob, SyncIdleHolds DEF S!GiveUp
<1>3. CASE S!LoadToStore(t)
  <2> DEFINE q == [syncJobs[t] EXCEPT !.pc = "write", !.meta = notes[syncJobs[t].note].meta]
  <2>1. syncJobs' = [syncJobs EXCEPT ![t] = q] /\ notes' = notes /\ syncJobs[t].answer # 0
    BY <1>1, <1>3 DEF S!LoadToStore, IdInv
  <2>2. Like(q, "write", syncJobs[t].note, syncJobs[t].body, notes[syncJobs[t].note].meta,
             syncJobs[t].answer)
    BY <1>1 DEF JobHolds, JobFields, Like
  <2> HIDE DEF q
  <2>3. JobHolds(t, q)
    BY <1>1, <2>1, <2>2, JobLike DEF JobHolds, IdInv, NoteHolds
  <2> QED
    BY <1>1, <2>1, <2>3, OneJob
<1>4. CASE S!StoreId(t)
  <2>1. /\ syncJobs[t].answer \in S!Ids /\ syncJobs[t].note \in S!Paths
        /\ syncJobs[t].body \in Bodies /\ Fits(syncJobs[t].meta)
        /\ S!WriteDocument(t, S!Idle, syncJobs[t].note, syncJobs[t].body,
                         S!Succeeded(syncJobs[t].meta, syncJobs[t].answer), TRUE)
    BY <1>1, <1>4 DEF S!StoreId, JobHolds
  <2> QED
    BY <1>1, <2>1, SucceededFits, SyncIdleHolds, WriteKeeps
<1> QED
  BY <1>2, <1>3, <1>4 DEF S!Store

\* Another note of the same visit, or none.
LEMMA VisitHolds ==
    ASSUME S!Bounds, NEW job, JobHolds("task", job)
    PROVE  JobHolds("task", S!NextVisit(job))
<1>1. CASE job.note = NOTES
  BY <1>1, SyncIdleHolds DEF S!NextVisit
<1>2. CASE job.note # NOTES
  <2> DEFINE q == [S!Idle EXCEPT !.pc = "scan", !.note = job.note + 1, !.sent = job.sent]
  <2>1. S!NextVisit(job) = q
    BY <1>2 DEF S!NextVisit
  <2>2. Like(q, "scan", job.note + 1, 0, << >>, 0)
    BY DEF S!Idle, JobFields, Like
  <2> HIDE DEF q
  <2>3. job.note + 1 \in S!Paths
    BY <1>2 DEF JobHolds, S!Paths, S!Bounds
  <2> QED
    BY <2>1, <2>2, <2>3, SyncIdleHolds, JobLike DEF Bodies, S!Bounds
<1> QED
  BY <1>1, <1>2

LEMMA TaskKeeps ==
    ASSUME S!Bounds, IdInv, S!TaskStep
    PROVE  NotesKeep /\ JobsKeep
<1> DEFINE job == syncJobs["task"]
<1>1. /\ "task" \in S!Jobs /\ JobHolds("task", job) /\ job.note \in S!Paths /\ Fits(job.meta)
      /\ job.body \in Bodies /\ job.answer \in S!Ids \cup {0}
  BY DEF S!Jobs, IdInv, JobHolds
<1>0. syncJobs["task"].replaces = FALSE
  BY <1>1, OthersMerge
<1>2. CASE S!StartTask
  <2> DEFINE q == [S!Idle EXCEPT !.pc = "scan"]
  <2>1. syncJobs' = [syncJobs EXCEPT !["task"] = q] /\ notes' = notes
    BY <1>2 DEF S!StartTask
  <2>2. Like(q, "scan", 1, 0, << >>, 0) /\ 1 \in S!Paths /\ 0 \in Bodies
    BY DEF S!Idle, JobFields, Like, Bodies, S!Paths, S!Bounds
  <2> HIDE DEF q
  <2>3. JobHolds("task", q)
    BY <2>2, SyncIdleHolds, JobLike
  <2> QED
    BY <1>1, <2>1, <2>3, OneJob
<1>3. CASE S!Visit
  <2> DEFINE meta == notes[job.note].meta
             h == S!Holding(job.note, "send")
             q == [h EXCEPT !.sent = job.sent,
                            !.waited = S!Get(meta, "failures") >= THRESHOLD]
  <2>1. JobHolds("task", h)
    BY <1>1, HoldingHolds
  <2>a. h.replaces = FALSE
    BY <1>1, HoldingHolds DEF Like
  <2>2. JobHolds("task", q)
    <3> HIDE DEF h
    <3>1. Like(q, h.pc, h.note, h.body, h.meta, h.answer)
      BY <2>1, <2>a DEF JobFields, JobHolds, Like
    <3> HIDE DEF q
    <3> QED
      BY <2>1, <3>1 DEF JobHolds, Like
  <2>3. /\ notes' = notes
        /\ \E next \in {S!Idle, q, S!NextVisit(job)} : syncJobs' = [syncJobs EXCEPT !["task"] = next]
    BY <1>3 DEF S!Visit
  <2> HIDE DEF q, h, job
  <2> QED
    BY <1>1, <2>2, <2>3, SyncIdleHolds, VisitHolds, OneJob
<1>4. CASE S!Send("task")
  BY <1>1, <1>4, SendKeeps
<1>5. CASE S!WriteResult
  <2> DEFINE new == IF job.answer # 0 THEN S!Succeeded(job.meta, job.answer)
                    ELSE S!FailedMeta(job.meta, job.waited)
  <2>1. S!WriteDocument("task", S!NextVisit(job), job.note, job.body, new, TRUE)
    BY <1>5 DEF S!WriteResult
  <2>2. Fits(new)
    <3>1. job.answer # 0 => job.answer \in S!Ids
      BY <1>1
    <3> QED
      BY <1>1, <3>1, SucceededFits, FailedFits
  <2> HIDE DEF new, job
  <2> QED
    BY <1>0, <1>1, <2>1, <2>2, VisitHolds, WriteKeeps
<1> QED
  BY <1>2, <1>3, <1>4, <1>5 DEF S!TaskStep

LEMMA EditorKeeps ==
    ASSUME S!Bounds, IdInv,
           \/ \E n \in S!Paths, replaces \in BOOLEAN : S!LoadForEdit(n, replaces)
           \/ S!SaveEdit \/ S!SaveReplacing
           \/ \E n \in S!Paths : S!Publish(n)
    PROVE  NotesKeep /\ JobsKeep
<1> DEFINE job == syncJobs["editor"]
<1>1. /\ "editor" \in S!Jobs /\ "editor" \notin Threads
      /\ JobHolds("editor", job) /\ job.note \in S!Paths /\ Fits(job.meta)
      /\ job.body \in Bodies /\ job.answer \in S!Ids \cup {0}
  BY DEF S!Jobs, IdInv, JobHolds, S!Bounds
<1>2. ASSUME NEW n \in S!Paths, NEW replaces \in BOOLEAN, S!LoadForEdit(n, replaces)
      PROVE  NotesKeep /\ JobsKeep
  <2> DEFINE h == S!Holding(n, "write")
             q == [h EXCEPT !.replaces = replaces]
  <2>1. JobHolds("editor", h)
    BY <1>1, HoldingHolds
  <2>2. syncJobs' = [syncJobs EXCEPT !["editor"] = q] /\ notes' = notes
    BY <1>2 DEF S!LoadForEdit
  <2>3. JobHolds("editor", q)
    <3> HIDE DEF h
    <3>1. /\ DOMAIN q = JobFields /\ q.replaces = replaces /\ q.pc = h.pc
          /\ q.note = h.note /\ q.body = h.body /\ q.meta = h.meta /\ q.answer = h.answer
      BY <2>1 DEF JobFields, JobHolds
    <3> HIDE DEF q
    <3> QED
      BY <1>1, <2>1, <3>1 DEF JobHolds
  <2> HIDE DEF q
  <2> QED
    BY <1>1, <2>2, <2>3, OneJob
<1>3. ASSUME NEW n \in S!Paths, S!Publish(n)
      PROVE  NotesKeep /\ JobsKeep
  <2>4. job.replaces = FALSE
    BY <1>3 DEF S!Publish, S!Idle
  <2>1. S!WriteDocument("editor", S!Idle, n, notes[n].body, [published |-> 1], FALSE)
    BY <1>3 DEF S!Publish
  <2> DEFINE published == [published |-> 1]
  <2>2. DOMAIN published = {"published"}
    OBVIOUS
  <2> HIDE DEF published
  <2>3. Fits(published) /\ notes[n].body \in Bodies
    BY <2>2 DEF Fits, S!Fields, IdInv, NoteHolds
  <2> QED
    BY <1>1, <2>1, <2>3, <2>4, SyncIdleHolds, WriteKeeps DEF published
<1>4. CASE S!SaveEdit
  <2> DEFINE title == [title |-> spent.edits + 1]
  <2>1. \/ S!WriteDocument("editor", S!Idle, job.note, spent.edits + 1, job.meta, FALSE)
        \/ S!WriteDocument("editor", S!Idle, job.note, job.body, S!Merge(title, job.meta), FALSE)
    BY <1>4 DEF S!SaveEdit
  <2>0. DOMAIN title = {"title"}
    OBVIOUS
  <2>4. spent.edits + 1 \in Bodies /\ job.replaces = FALSE
    BY <1>1, <1>4 DEF S!SaveEdit, IdInv, JobHolds, EditsLeft, Bodies, S!Bounds
  <2> HIDE DEF title, job
  <2>2. Fits(title)
    BY <2>0 DEF Fits, S!Fields
  <2>3. Fits(S!Merge(title, job.meta))
    BY <1>1, <2>2, MergeFits
  <2> QED
    BY <1>1, <2>1, <2>3, <2>4, SyncIdleHolds, WriteKeeps DEF job
<1>5. CASE S!SaveReplacing
  <2>1. /\ job.pc = "write"
        /\ \E body \in {job.body, spent.edits + 1} :
              S!WriteDocument("editor", S!Idle, job.note, body, job.meta, FALSE)
    BY <1>5 DEF S!SaveReplacing
  <2>4. spent.edits + 1 \in Bodies
    BY <2>1 DEF IdInv, EditsLeft, Bodies, S!Bounds
  <2>2. PICK body \in {job.body, spent.edits + 1} :
           S!WriteDocument("editor", S!Idle, job.note, body, job.meta, FALSE)
    BY <2>1
  <2>5. body \in Bodies
    BY <1>1, <2>4
  <2> HIDE DEF job
  <2>3. syncJobs["editor"].replaces =>
           /\ syncJobs["editor"].pc = "write" /\ syncJobs["editor"].note = job.note
           /\ syncJobs["editor"].meta = job.meta /\ S!Idle = S!Idle
    BY <2>1 DEF job
  <2> QED
    BY <1>1, <2>2, <2>3, <2>5, SyncIdleHolds, WriteKeeps
<1> QED
  BY <1>2, <1>3, <1>4, <1>5

LEMMA AdminKeeps ==
    ASSUME S!Bounds, IdInv,
           \/ \E n \in S!Paths, force \in BOOLEAN : S!AdminLoads(n, force)
           \/ S!Send("admin") \/ S!AdminResyncs \/ S!AdminRetries
    PROVE  NotesKeep /\ JobsKeep
<1> DEFINE job == syncJobs["admin"]
<1>1. /\ "admin" \in S!Jobs /\ "admin" \notin Threads
      /\ JobHolds("admin", job) /\ job.note \in S!Paths /\ Fits(job.meta)
      /\ job.body \in Bodies /\ job.answer \in S!Ids \cup {0}
  BY DEF S!Jobs, IdInv, JobHolds, S!Bounds
<1>0. syncJobs["admin"].replaces = FALSE
  BY <1>1, OthersMerge
<1>2. ASSUME NEW n \in S!Paths, NEW force \in BOOLEAN, S!AdminLoads(n, force)
      PROVE  NotesKeep /\ JobsKeep
  <2> DEFINE h == S!Holding(n, "send")
             q == [h EXCEPT !.force = force]
  <2>1. JobHolds("admin", h)
    BY <1>1, HoldingHolds
  <2>a. h.replaces = FALSE
    BY <1>1, HoldingHolds DEF Like
  <2>2. syncJobs' = [syncJobs EXCEPT !["admin"] = q] /\ notes' = notes
    BY <1>2 DEF S!AdminLoads
  <2>3. JobHolds("admin", q)
    <3> HIDE DEF h
    <3>1. Like(q, h.pc, h.note, h.body, h.meta, h.answer)
      BY <2>1, <2>a DEF JobFields, JobHolds, Like
    <3> HIDE DEF q
    <3> QED
      BY <2>1, <3>1 DEF JobHolds, Like
  <2> QED
    BY <1>1, <2>2, <2>3, OneJob
<1>3. CASE S!Send("admin")
  BY <1>1, <1>3, SendKeeps
<1>4. CASE S!AdminResyncs
  <2>1. CASE job.answer = 0
    BY <1>1, <1>4, <2>1, SyncIdleHolds, OneJob DEF S!AdminResyncs
  <2>2. CASE job.answer # 0
    <3> DEFINE id == [core_api_id |-> job.answer]
    <3>1. S!WriteDocument("admin", S!Idle, job.note, job.body, S!Merge(id, job.meta), FALSE)
      BY <1>4, <2>2 DEF S!AdminResyncs
    <3>0. DOMAIN id = {"core_api_id"} /\ id["core_api_id"] = job.answer
      OBVIOUS
    <3> HIDE DEF id, job
    <3>2. Fits(id)
      BY <1>1, <2>2, <3>0 DEF Fits, S!Fields
    <3>3. Fits(S!Merge(id, job.meta))
      BY <1>1, <3>2, MergeFits
    <3> QED
      BY <1>0, <1>1, <3>1, <3>3, SyncIdleHolds, WriteKeeps
  <2> QED
    BY <2>1, <2>2
<1>5. CASE S!AdminRetries
  <2> DEFINE new == IF job.answer # 0 THEN S!Succeeded(job.meta, job.answer)
                    ELSE S!FailedMeta(job.meta, FALSE)
  <2>1. S!WriteDocument("admin", S!Idle, job.note, job.body, new, TRUE)
    BY <1>5 DEF S!AdminRetries
  <2>2. Fits(new)
    <3>1. job.answer # 0 => job.answer \in S!Ids
      BY <1>1
    <3> QED
      BY <1>1, <3>1, SucceededFits, FailedFits
  <2> HIDE DEF new, job
  <2> QED
    BY <1>0, <1>1, <2>1, <2>2, SyncIdleHolds, WriteKeeps
<1> QED
  BY <1>2, <1>3, <1>4, <1>5

LEMMA TickKeeps ==
    ASSUME S!Bounds, IdInv, S!Tick
    PROVE  NotesKeep /\ JobsKeep
<1>1. ASSUME NEW meta
      PROVE  /\ Fits(meta) => Fits(S!Older(meta))
             /\ S!Get(S!Older(meta), "core_api_id") = S!Get(meta, "core_api_id")
  <2> DEFINE m == S!Older(meta)
  <2>1. /\ DOMAIN m = DOMAIN meta
        /\ \A f \in DOMAIN meta : m[f] = IF f = "last_failure" /\ meta[f] < BACKOFF
                                         THEN meta[f] + 1 ELSE meta[f]
    BY DEF S!Older
  <2> HIDE DEF m
  <2>2. BACKOFF \in Nat
    BY DEF S!Bounds
  <2> QED
    BY <2>1, <2>2 DEF m, Fits, S!Get
<1>2. /\ DOMAIN notes' = S!Paths
      /\ \A n \in S!Paths : /\ DOMAIN notes'[n] = {"body", "meta"}
                          /\ notes'[n].body = notes[n].body
                          /\ notes'[n].meta = S!Older(notes[n].meta)
  BY DEF S!Tick, IdInv, NoteHolds
<1>3. /\ DOMAIN syncJobs' = S!Jobs
      /\ \A j \in S!Jobs : syncJobs'[j] = [syncJobs[j] EXCEPT !.meta = S!Older(@)]
  BY DEF S!Tick
<1>4. ASSUME NEW j \in S!Jobs
      PROVE  JobHolds(j, syncJobs'[j])
  <2> DEFINE q == syncJobs'[j]
  <2>1. JobHolds(j, syncJobs[j])
    BY DEF IdInv
  <2>2. /\ DOMAIN q = JobFields /\ q.pc = syncJobs[j].pc /\ q.note = syncJobs[j].note
        /\ q.body = syncJobs[j].body /\ q.meta = S!Older(syncJobs[j].meta)
        /\ q.answer = syncJobs[j].answer /\ q.replaces = syncJobs[j].replaces
    BY <1>3, <2>1 DEF JobHolds, JobFields
  <2> HIDE DEF q
  <2>3. JobHolds(j, q)
    BY <1>1, <2>1, <2>2 DEF JobHolds
  <2> QED
    BY <2>3 DEF q
<1>5. NotesKeep
  BY <1>1, <1>2 DEF NotesKeep, IdInv, NoteHolds, HasId
<1> QED
  BY <1>3, <1>4, <1>5 DEF JobsKeep

LEMMA StepKeeps ==
    ASSUME S!Bounds, IdInv, [S!Next]_S!vars
    PROVE  NotesKeep /\ JobsKeep
<1>1. CASE S!ScanUnsynced \/ UNCHANGED S!vars
  BY <1>1 DEF S!ScanUnsynced, S!vars, NotesKeep, JobsKeep, IdInv
<1>2. CASE S!Crash
  BY <1>2, SyncIdleHolds DEF S!Crash, NotesKeep, JobsKeep, IdInv
<1>3. ASSUME NEW t \in Threads, S!Send(t) \/ S!Store(t)
      PROVE  NotesKeep /\ JobsKeep
  BY <1>3, ThreadsAreNoEditors, SendKeeps, StoreKeeps
<1> QED
  BY <1>1, <1>2, <1>3, TaskKeeps, EditorKeeps, AdminKeeps, TickKeeps DEF S!Next

\* A write leaves the editor to what it was doing, unless it is the editor's, after which
\* the editor is idle.
LEMMA WriteLeavesEditor ==
    ASSUME S!Bounds, IdInv, NEW self \in S!Jobs, NEW rest, NEW n, NEW body, NEW meta, NEW skip,
           self = "editor" => rest.pc = "idle",
           S!WriteDocument(self, rest, n, body, meta, skip)
    PROVE  syncJobs'["editor"].pc \in {syncJobs["editor"].pc, "idle"}
           /\ (self = "editor" => syncJobs'["editor"].pc = "idle")
<1> DEFINE started == [S!Idle EXCEPT !.pc = "send", !.note = n, !.body = body,
                                     !.meta = S!Written(self, meta, notes[n].meta)]
<1>1. \/ syncJobs' = [syncJobs EXCEPT ![self] = rest]
      \/ \E t \in Threads : syncJobs' = [syncJobs EXCEPT ![self] = rest, ![t] = started]
  BY DEF S!WriteDocument
<1> HIDE DEF started
<1>2. "editor" \in S!Jobs /\ "editor" \notin Threads /\ DOMAIN syncJobs = S!Jobs
  BY DEF S!Jobs, IdInv, S!Bounds
<1> QED
  BY <1>1, <1>2

\* The editor writes only what it loaded while an edit was left.
LEMMA EditsKeep ==
    ASSUME S!Bounds, IdInv, [S!Next]_S!vars
    PROVE  EditsLeft' /\ retry' \in BOOLEAN
<1> DEFINE pc == syncJobs["editor"].pc
<1>1. /\ DOMAIN syncJobs = S!Jobs /\ {"editor", "task", "admin"} \subseteq S!Jobs
      /\ "editor" \notin Threads /\ Threads \subseteq S!Jobs
  BY DEF S!Jobs, IdInv, S!Bounds
<1>2. /\ DOMAIN spent = {"edits", "admin", "crashes"} /\ spent.edits \in 0..MaxEdits
      /\ pc = "write" => spent.edits < MaxEdits
      /\ retry \in BOOLEAN
  BY DEF IdInv, EditsLeft
<1>3. S!Idle.pc = "idle"
  BY DEF S!Idle
<1>4. ASSUME spent' = spent, syncJobs'["editor"].pc \in {pc, "idle"}
      PROVE  EditsLeft'
  BY <1>2, <1>4 DEF EditsLeft
<1>5. ASSUME NEW self \in S!Jobs \ {"editor"}, S!Send(self)
      PROVE  EditsLeft' /\ retry' \in BOOLEAN
  <2>1. /\ spent' = spent /\ retry' = retry
        /\ \E id : syncJobs' = S!Answered(self, id)
    BY <1>5 DEF S!Send, S!SendDone, S!SendLost, S!SendFails
  <2>2. syncJobs'["editor"] = syncJobs["editor"]
    BY <1>1, <2>1 DEF S!Answered
  <2> QED
    BY <1>2, <1>4, <2>1, <2>2
<1>6. ASSUME NEW self \in S!Jobs \ {"editor"}, NEW rest, NEW n, NEW body, NEW meta, NEW skip,
             S!WriteDocument(self, rest, n, body, meta, skip), spent' = spent, retry' = retry
      PROVE  EditsLeft' /\ retry' \in BOOLEAN
  BY <1>2, <1>4, <1>6, WriteLeavesEditor
<1>7. ASSUME NEW self \in S!Jobs \ {"editor"}, NEW job,
             syncJobs' = [syncJobs EXCEPT ![self] = job], spent' = spent
      PROVE  EditsLeft'
  BY <1>1, <1>4, <1>7
<1>8. CASE UNCHANGED S!vars \/ S!ScanUnsynced
  BY <1>2, <1>4, <1>8 DEF S!vars, S!ScanUnsynced
<1>9. ASSUME NEW n \in S!Paths, NEW replaces \in BOOLEAN, S!LoadForEdit(n, replaces)
      PROVE  EditsLeft' /\ retry' \in BOOLEAN
  BY <1>2, <1>9 DEF S!LoadForEdit, EditsLeft
<1>10. ASSUME NEW n \in S!Paths, S!Publish(n)
       PROVE  EditsLeft' /\ retry' \in BOOLEAN
  BY <1>1, <1>2, <1>3, <1>4, <1>10, WriteLeavesEditor DEF S!Publish
<1>11. CASE S!SaveEdit \/ S!SaveReplacing
  <2>1. syncJobs'["editor"].pc = "idle" /\ pc = "write"
    BY <1>1, <1>3, <1>11, WriteLeavesEditor DEF S!SaveEdit, S!SaveReplacing
  <2>2. spent' = [spent EXCEPT !.edits = spent.edits + 1] /\ retry' = retry
    BY <1>11 DEF S!SaveEdit, S!SaveReplacing
  <2> QED
    BY <1>2, <2>1, <2>2 DEF EditsLeft, S!Bounds
<1>12. ASSUME NEW t \in Threads, S!Send(t) \/ S!Store(t)
       PROVE  EditsLeft' /\ retry' \in BOOLEAN
  <2>0. t \in S!Jobs \ {"editor"}
    BY <1>1
  <2>1. CASE S!GiveUp(t)
    BY <1>7, <2>0, <2>1 DEF S!GiveUp
  <2>2. CASE S!LoadToStore(t)
    <3>1. syncJobs'["editor"] = syncJobs["editor"] /\ spent' = spent /\ retry' = retry
      BY <1>1, <2>0, <2>2 DEF S!LoadToStore
    <3> QED
      BY <1>2, <1>4, <3>1
  <2>3. CASE S!StoreId(t)
    BY <1>6, <2>0, <2>3 DEF S!StoreId
  <2> QED
    BY <1>5, <1>12, <2>0, <2>1, <2>2, <2>3 DEF S!Store
<1>13. CASE S!TaskStep
  <2>1. CASE S!StartTask
    BY <1>1, <1>7, <2>1 DEF S!StartTask
  <2>2. CASE S!Visit
    <3>1. \E job : syncJobs' = [syncJobs EXCEPT !["task"] = job]
      BY <2>2 DEF S!Visit
    <3>2. spent' = spent /\ retry' = retry
      BY <2>2 DEF S!Visit
    <3> QED
      BY <1>1, <1>2, <1>7, <3>1, <3>2
  <2>3. CASE S!WriteResult
    BY <1>1, <1>6, <2>3 DEF S!WriteResult
  <2> QED
    BY <1>1, <1>5, <1>13, <2>1, <2>2, <2>3 DEF S!TaskStep
<1>14. ASSUME NEW n \in S!Paths, NEW force \in BOOLEAN, S!AdminLoads(n, force)
       PROVE  EditsLeft' /\ retry' \in BOOLEAN
  <2>1. syncJobs'["editor"] = syncJobs["editor"] /\ retry' = retry
    BY <1>1, <1>14 DEF S!AdminLoads
  <2>2. DOMAIN spent' = DOMAIN spent /\ spent'.edits = spent.edits
    BY <1>2, <1>14 DEF S!AdminLoads
  <2> QED
    BY <1>2, <2>1, <2>2 DEF EditsLeft
<1>15. CASE S!Send("admin")
  BY <1>1, <1>5, <1>15
<1>16. CASE S!AdminResyncs
  <2>1. CASE syncJobs["admin"].answer = 0
    BY <1>1, <1>2, <1>7, <1>16, <2>1 DEF S!AdminResyncs
  <2>2. CASE syncJobs["admin"].answer # 0
    BY <1>1, <1>6, <1>16, <2>2 DEF S!AdminResyncs
  <2> QED
    BY <2>1, <2>2
<1>17. CASE S!AdminRetries
  BY <1>1, <1>6, <1>17 DEF S!AdminRetries
<1>18. CASE S!Tick
  <2>1. syncJobs'["editor"] = [syncJobs["editor"] EXCEPT !.meta = S!Older(@)]
        /\ spent' = spent /\ retry' = retry
    BY <1>1, <1>18 DEF S!Tick
  <2>2. DOMAIN syncJobs["editor"] = JobFields
    BY <1>1 DEF IdInv, JobHolds
  <2> QED
    BY <1>2, <1>4, <2>1, <2>2 DEF JobFields
<1>19. CASE S!Crash
  <2>1. syncJobs'["editor"].pc = "idle" /\ retry' = retry
    BY <1>1, <1>3, <1>19 DEF S!Crash
  <2>2. DOMAIN spent' = DOMAIN spent /\ spent'.edits = spent.edits
    BY <1>2, <1>19 DEF S!Crash
  <2> QED
    BY <1>2, <2>1, <2>2 DEF EditsLeft
<1> QED
  BY <1>8, <1>9, <1>10, <1>11, <1>12, <1>13, <1>14, <1>15, <1>16, <1>17, <1>18, <1>19
  DEF S!Next

LEMMA IdInvStarts ==
    ASSUME S!Bounds, S!Init
    PROVE  IdInv
<1>1. \A n \in S!Paths : /\ DOMAIN notes[n] = {"body", "meta"} /\ notes[n].body = 0
                         /\ notes[n].meta = << >>
  BY DEF S!Init
<1>2. DOMAIN notes = S!Paths /\ 0 \in Bodies
  BY DEF S!Init, Bodies, S!Bounds
<1>3. DOMAIN syncJobs = S!Jobs /\ \A j \in S!Jobs : syncJobs[j] = S!Idle
  BY DEF S!Init
<1>4. S!Idle.pc = "idle" /\ "editor" \in S!Jobs
  BY DEF S!Idle, S!Jobs
<1>5. EditsLeft
  BY <1>3, <1>4 DEF S!Init, EditsLeft, S!Bounds
<1>6. retry \in BOOLEAN
  BY DEF S!Init
<1>7. \A n \in S!Paths : NoteHolds(notes[n])
  BY <1>1, <1>2, SyncIdleHolds DEF NoteHolds
<1>8. \A j \in S!Jobs : JobHolds(j, syncJobs[j])
  BY <1>3, SyncIdleHolds
<1> QED
  BY <1>2, <1>3, <1>5, <1>6, <1>7, <1>8 DEF IdInv

LEMMA IdInvKept ==
    ASSUME S!Bounds, IdInv, [S!Next]_S!vars
    PROVE  /\ IdInv'
           /\ \A n \in S!Paths :
                 HasId(notes[n]) => (HasId(notes'[n]) \/ Replaced(n))
  BY StepKeeps, EditsKeep DEF NotesKeep, JobsKeep, IdInv

\* What is written to a note and what a job holds is of its type, and there is always an
\* id for another record (core_api_bridge.py:sync_published_note, vault.py:write_document).
THEOREM SyncTyped ==
    ASSUME S!Bounds
    PROVE  S!Spec => []S!TypeOK
<1>1. IdInv => S!TypeOK
  <2>1. BACKOFF \in Nat /\ THRESHOLD \in Nat
    BY DEF S!Bounds
  <2>2. ASSUME IdInv, NEW n \in S!Paths
        PROVE  /\ notes[n].body \in 0..MaxEdits
               /\ DOMAIN notes[n].meta \subseteq S!Fields
               /\ S!Get(notes[n].meta, "core_api_id") \in S!Ids \cup {0}
               /\ S!Get(notes[n].meta, "failures") \in 0..THRESHOLD
               /\ S!Get(notes[n].meta, "last_failure") \in 0..BACKOFF
    BY <2>1, <2>2 DEF IdInv, NoteHolds, Fits, Bodies, S!Get
  <2>3. ASSUME IdInv, NEW j \in S!Jobs
        PROVE  /\ syncJobs[j].pc \in {"idle", "scan", "send", "store", "write"}
               /\ syncJobs[j].answer \in S!Ids \cup {0}
               /\ DOMAIN syncJobs[j].meta \subseteq S!Fields
    BY <2>3 DEF IdInv, JobHolds, Fits
  <2>4. IdInv => retry \in BOOLEAN
    BY DEF IdInv
  <2> QED
    BY <2>2, <2>3, <2>4 DEF S!TypeOK
<1> QED
  BY <1>1, IdInvStarts, IdInvKept, PTL DEF S!Spec

\* The id of a note's record is lost to no writer that merges, however old the copy it
\* was made from, but only to one that puts a copy without it in the note's place
\* (vault.py:write_document, with metadata_replace or without).
THEOREM IdsKeptByMerges ==
    ASSUME S!Bounds
    PROVE  S!Spec => S!IdKeptByMerges
<1>1. IdInv /\ [S!Next]_S!vars
         => [\A n \in S!Paths :
                /\ S!Get(notes[n].meta, "core_api_id") # 0
                /\ S!Get(notes'[n].meta, "core_api_id") = 0
                => S!ReplacesId(n) /\ syncJobs'["editor"].pc = "idle"]_S!vars
  BY IdInvKept DEF HasId, Replaced
<1> QED
  BY <1>1, IdInvStarts, IdInvKept, PTL DEF S!Spec, S!IdKeptByMerges

-----------------------------------------------------------------------------
(* The services together *)

\* A behaviour of the services is one of each of them.
LEMMA ServicesAlone == ServicesSpec => Spec /\ M!Spec /\ I!Spec /\ S!Spec
<1>1. ServicesInit => Init /\ M!Init /\ I!Init /\ S!Init
  BY DEF ServicesInit
<1>2. [ServicesNext]_servicesVars
         => [Next]_vars /\ [M!Next]_M!vars /\ [I!Next]_I!vars /\ [S!Next]_S!vars
  BY DEF ServicesNext, servicesVars, methodVars, researchVars, syncVars,
         M!vars, M!tables, I!vars, I!tables, S!vars
<1> QED
  BY <1>1, <1>2, PTL DEF ServicesSpec, Spec, M!Spec, I!Spec, S!Spec

LEMMA EachBounded == M!Bounds /\ I!Bounds /\ S!Bounds
  BY ServicesBounds

\* The method archive stays consistent while requests are retried and readers read
\* between others' writes (research_method_store.py, research_method_revisions.py).
THEOREM ArchiveStaysConsistent == ServicesSpec => []ArchiveConsistent
  BY ServicesAlone, EachBounded, ArchiveTyped, AppliedExactlyOnce, HistoryHeld,
     FeedbackHeld, ReadersHonest, PTL DEF ArchiveConsistent

\* The changes that investigations report, in the order they were saved, add up to what is
\* saved, although each collected its sources before others saved theirs
\* (research_store.py:save_investigation).
THEOREM HistoryStaysTraceable == ServicesSpec => []HistoryTraceable
  BY ServicesAlone, EachBounded, TypeCorrect, InvestigationsTraceable, SyncTyped, PTL
  DEF HistoryTraceable, OthersTyped

\* A body that could be read under a version stays as it is, and a note keeps an id
\* (research_method_revisions.py:revise, core_api_bridge.py:sync_published_note).
THEOREM RecordsStayKept == ServicesSpec => RecordsKept
  BY ServicesAlone, EachBounded, VersionsStay, IdsKeptByMerges, PTL DEF RecordsKept

\* In the services together as well, a capsule cites only claims that hold.
THEOREM CitationsServed == ServicesSpec => []CitedClaimsHold
  BY ServicesAlone, CitationsHold, PTL
=============================================================================
