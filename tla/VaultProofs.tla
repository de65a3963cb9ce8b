----------------------------- MODULE VaultProofs -----------------------------
(***************************************************************************)
(* Theorems about the protocols that MCVault puts together: contributions, *)
(* for every number of claims and capsules, every set of callers and every *)
(* value of the limits; the research log, the capsules of the stages, and  *)
(* the votes of a note, for every set of runs, titles, seeds and voters.   *)
(***************************************************************************)
EXTENDS MCVault, SumTheorems, FiniteSetTheorems, SequenceTheorems, TLAPS

-----------------------------------------------------------------------------
(* Contributions *)

Fields == {"owner", "visibility", "status", "original"}

\* What may be merged into a frontmatter: whoever names Sagwan the owner names the
\* author as well, and nobody names another author.
MetaOK(meta) ==
    /\ DOMAIN meta \subseteq Fields
    /\ "owner" \in DOMAIN meta => meta.owner \in {Author, Sagwan}
    /\ "visibility" \in DOMAIN meta => meta.visibility \in {"private", "public"}
    /\ "original" \in DOMAIN meta => meta.original = Author
    /\ "owner" \in DOMAIN meta /\ meta.owner = Sagwan => "original" \in DOMAIN meta

\* A whole frontmatter, as of a note.
NoteOK(meta) == MetaOK(meta) /\ {"owner", "visibility", "status"} \subseteq DOMAIN meta

\* A write to come, made up from what was loaded at any time before: only a whole
\* frontmatter replaces one, and with its owner.
WriteOK(write) ==
    /\ write.note \in Paths
    /\ MetaOK(write.meta)
    /\ write.replace => write.owns /\ NoteOK(write.meta)

WritesOK(writes) == \E W : writes \in Seq(W) /\ \A write \in W : WriteOK(write)

Statuses == {"none", "reviewing", "published", "rejected"}
Request == [source : Paths, status : Statuses, recent : BOOLEAN]

\* What a job holds: writes that do no harm, a note, and a batch of its own kind.
JobOK(j, job) ==
    /\ DOMAIN job = {"pc", "writes", "batch", "note", "status"}
    /\ WritesOK(job.writes)
    /\ job.status \in Statuses
    /\ j # "guardrail" /\ job.pc \in {"ask", "create", "decide"} => job.note \in Paths
    /\ j = "approval" => job.batch \subseteq DOMAIN requests
    /\ j = "integration" => job.batch \subseteq 1..CLAIMS
    /\ j = "guardrail" /\ job.pc = "ask" => job.batch \subseteq 1..CLAIMS
    /\ j = "guardrail" /\ job.pc = "batch" =>
          \A result \in job.batch : result.note \in 1..CLAIMS

NotesOK == notes = [n \in Paths |-> notes[n]] /\ \A n \in Paths : NoteOK(notes[n])
JobsOK == jobs = [j \in Jobs |-> jobs[j]] /\ \A j \in Jobs : JobOK(j, jobs[j])

IInv ==
    /\ NotesOK
    /\ requests \in Seq(Request)
    /\ JobsOK
    /\ due \in BOOLEAN
    /\ spent \in 0..MaxEdits

-----------------------------------------------------------------------------
(* What the operators on frontmatter keep *)

LEMMA ClaimsArePaths == 1..CLAIMS \subseteq Paths
  BY BoundsAssumption DEF Paths

LEMMA MergeFacts ==
    ASSUME NEW meta, NEW old
    PROVE  /\ DOMAIN Merge(meta, old) = DOMAIN meta \cup DOMAIN old
           /\ \A f \in DOMAIN meta : Merge(meta, old)[f] = meta[f]
           /\ \A f \in DOMAIN old \ DOMAIN meta : Merge(meta, old)[f] = old[f]
  BY DEF Merge

\* A note stays a note, with its author's name, whatever is merged over it.
LEMMA MergeKeepsNote ==
    ASSUME NEW meta, NEW old, MetaOK(meta), NoteOK(old)
    PROVE  NoteOK(Merge(meta, old))
<1> DEFINE new == Merge(meta, old)
<1>1. /\ DOMAIN new = DOMAIN meta \cup DOMAIN old
      /\ \A f \in DOMAIN meta : new[f] = meta[f]
      /\ \A f \in DOMAIN old \ DOMAIN meta : new[f] = old[f]
  BY MergeFacts
<1> HIDE DEF new
<1>2. {"owner", "visibility", "status"} \subseteq DOMAIN new /\ DOMAIN new \subseteq Fields
  BY <1>1 DEF NoteOK, MetaOK
<1>3. new["owner"] \in {Author, Sagwan} /\ new["visibility"] \in {"private", "public"}
  BY <1>1 DEF NoteOK, MetaOK
<1>4. "original" \in DOMAIN new => new["original"] = Author
  BY <1>1 DEF NoteOK, MetaOK
<1>5. new["owner"] = Sagwan => "original" \in DOMAIN new
  BY <1>1 DEF NoteOK, MetaOK
<1>6. NoteOK(new)
  BY <1>2, <1>3, <1>4, <1>5 DEF NoteOK, MetaOK
<1> QED
  BY <1>6 DEF new

LEMMA WriteKeepsNote ==
    ASSUME NEW write, NEW old, WriteOK(write), NoteOK(old)
    PROVE  NoteOK(WriteDocument(write, old))
<1>1. CASE write.replace
  BY <1>1 DEF WriteDocument, WriteOK
<1>2. CASE ~write.replace
  <2> DEFINE new == Merge(write.meta, old)
  <2>1. NoteOK(new) /\ DOMAIN old \subseteq DOMAIN new
    <3>1. MetaOK(write.meta)
      BY DEF WriteOK
    <3> QED
      BY <3>1, MergeKeepsNote, MergeFacts
  <2>2. CASE write.owns
    BY <1>2, <2>1, <2>2 DEF WriteDocument
  <2>3. CASE ~write.owns
    <3> HIDE DEF new
    <3> DEFINE kept == [new EXCEPT !.owner = old.owner]
    <3>1. /\ DOMAIN kept = DOMAIN new /\ kept["owner"] = old.owner
          /\ \A f \in DOMAIN new \ {"owner"} : kept[f] = new[f]
      BY <2>1 DEF NoteOK
    <3>2. WriteDocument(write, old) = kept
      BY <1>2, <2>3 DEF WriteDocument, new
    <3> HIDE DEF kept
    <3>3. NoteOK(kept)
      BY <2>1, <3>1 DEF NoteOK, MetaOK
    <3> QED
      BY <3>2, <3>3
  <2> QED
    BY <2>2, <2>3
<1> QED
  BY <1>1, <1>2

LEMMA WithOriginalFacts ==
    ASSUME NEW meta, NoteOK(meta)
    PROVE  /\ NoteOK(WithOriginal(meta))
           /\ "original" \in DOMAIN WithOriginal(meta)
           /\ WithOriginal(meta).original = Author
<1> DEFINE default == [original |-> meta.owner]
           new == Merge(meta, default)
<1>1. DOMAIN default = {"original"} /\ default["original"] = meta.owner
  OBVIOUS
<1>2. new = WithOriginal(meta)
  BY DEF WithOriginal
<1> HIDE DEF default
<1>3. /\ DOMAIN new = DOMAIN meta \cup {"original"}
      /\ \A f \in DOMAIN meta : new[f] = meta[f]
      /\ "original" \notin DOMAIN meta => new["original"] = meta.owner
  BY <1>1, MergeFacts
<1> HIDE DEF new
<1>4. NoteOK(new) /\ "original" \in DOMAIN new /\ new.original = Author
  BY <1>3 DEF NoteOK, MetaOK, Fields
<1> QED
  BY <1>2, <1>4

LEMMA PublishedKeepsNote ==
    ASSUME NEW meta, NoteOK(meta)
    PROVE  NoteOK(Published(meta))
<1> DEFINE owned == [status |-> "published", visibility |-> "public", owner |-> Sagwan]
           old == WithOriginal(meta)
           new == Merge(owned, old)
<1>1. /\ DOMAIN owned = {"status", "visibility", "owner"}
      /\ owned["visibility"] = "public" /\ owned["owner"] = Sagwan
  OBVIOUS
<1>2. NoteOK(old) /\ "original" \in DOMAIN old /\ old.original = Author
  BY WithOriginalFacts
<1>3. Published(meta) = new
  BY DEF Published
<1> HIDE DEF owned, old
<1>4. /\ DOMAIN new = DOMAIN owned \cup DOMAIN old
      /\ \A f \in DOMAIN owned : new[f] = owned[f]
      /\ \A f \in DOMAIN old \ DOMAIN owned : new[f] = old[f]
  BY MergeFacts
<1> HIDE DEF new
<1>5. NoteOK(new)
  BY <1>1, <1>2, <1>4 DEF NoteOK, MetaOK, Fields
<1> QED
  BY <1>3, <1>5

\* The frontmatter that calls write literally.
LEMMA LiteralsOK ==
    ASSUME NEW status
    PROVE  /\ MetaOK([status |-> status])
           /\ MetaOK([status |-> status, visibility |-> "private"])
           /\ MetaOK([owner |-> Author, visibility |-> "private", status |-> status])
           /\ MetaOK([visibility |-> "public", owner |-> Sagwan, original |-> Author])
<1>1. MetaOK([status |-> status])
  BY DEF MetaOK, Fields
<1>2. MetaOK([status |-> status, visibility |-> "private"])
  BY DEF MetaOK, Fields
<1>3. MetaOK([owner |-> Author, visibility |-> "private", status |-> status])
  BY DEF MetaOK, Fields, Author, Sagwan
<1>4. MetaOK([visibility |-> "public", owner |-> Sagwan, original |-> Author])
  BY DEF MetaOK, Fields, Author, Sagwan
<1> QED
  BY <1>1, <1>2, <1>3, <1>4

-----------------------------------------------------------------------------
(* What the changes of a job keep *)

LEMMA NoWrites == WritesOK(<< >>)
<1> DEFINE W == {}
<1>1. << >> \in Seq(W) /\ \A write \in W : WriteOK(write)
  OBVIOUS
<1> HIDE DEF W
<1> QED
  BY <1>1 DEF WritesOK

LEMMA OneWrite ==
    ASSUME NEW n \in Paths, NEW meta, NEW owns, NEW replace, MetaOK(meta),
           replace => owns /\ NoteOK(meta)
    PROVE  WritesOK(<<Write(n, meta, owns, replace)>>)
<1> DEFINE write == Write(n, meta, owns, replace)
<1>1. WriteOK(write)
  BY DEF WriteOK, Write
<1> HIDE DEF write
<1> DEFINE W == {write}
<1>2. <<write>> \in Seq(W) /\ \A w \in W : WriteOK(w)
  BY <1>1
<1> HIDE DEF W
<1>3. WritesOK(<<write>>)
  BY <1>2 DEF WritesOK
<1> QED
  BY <1>3 DEF write

LEMMA TwoWrites ==
    ASSUME NEW n \in Paths, NEW meta, MetaOK(meta), NEW m \in Paths, NEW other, MetaOK(other)
    PROVE  WritesOK(<<Write(n, meta, TRUE, FALSE), Write(m, other, TRUE, FALSE)>>)
<1> DEFINE first == Write(n, meta, TRUE, FALSE)
           second == Write(m, other, TRUE, FALSE)
<1>1. WriteOK(first) /\ WriteOK(second)
  BY DEF WriteOK, Write
<1> HIDE DEF first, second
<1> DEFINE W == {first, second}
<1>2. <<first, second>> \in Seq(W) /\ \A w \in W : WriteOK(w)
  BY <1>1
<1> HIDE DEF W
<1>3. WritesOK(<<first, second>>)
  BY <1>2 DEF WritesOK
<1> QED
  BY <1>3 DEF first, second

LEMMA WriteTaken ==
    ASSUME NEW writes, WritesOK(writes), writes # << >>
    PROVE  WriteOK(writes[1]) /\ WritesOK(Tail(writes))
<1> PICK W : writes \in Seq(W) /\ \A write \in W : WriteOK(write)
  BY DEF WritesOK
<1>1. writes[1] \in W /\ Tail(writes) \in Seq(W)
  OBVIOUS
<1> QED
  BY <1>1 DEF WritesOK

LEMMA IdleOK ==
    ASSUME NEW j \in Jobs
    PROVE  JobOK(j, Idle)
<1>1. /\ Idle.writes = << >> /\ Idle.batch = {} /\ Idle.pc = "idle"
      /\ Idle.status = "none"
      /\ DOMAIN Idle = {"pc", "writes", "batch", "note", "status"}
  BY DEF Idle
<1>2. WritesOK(Idle.writes) /\ Idle.status \in Statuses
  BY <1>1, NoWrites DEF Statuses
<1> QED
  BY <1>1, <1>2 DEF JobOK

\* One job becomes another, and requests are only added.
LEMMA JobChanges ==
    ASSUME JobsOK, NEW j \in Jobs, NEW job, JobOK(j, job),
           jobs' = [jobs EXCEPT ![j] = job],
           DOMAIN requests \subseteq DOMAIN requests'
    PROVE  JobsOK'
<1>1. jobs = [k \in Jobs |-> jobs[k]] /\ \A k \in Jobs : JobOK(k, jobs[k])
  BY DEF JobsOK
<1>2. jobs' = [k \in Jobs |-> IF k = j THEN job ELSE jobs[k]]
  BY <1>1
<1>3. jobs' = [k \in Jobs |-> jobs'[k]]
  BY <1>2
<1>4. ASSUME NEW k \in Jobs, NEW old, JobOK(k, old)
      PROVE  JobOK(k, old)'
  BY <1>4 DEF JobOK
<1>5. ASSUME NEW k \in Jobs
      PROVE  JobOK(k, jobs[k])'
  <2> PICK old : old = jobs'[k]
    OBVIOUS
  <2>1. JobOK(k, old)
    BY <1>1, <1>2
  <2>2. JobOK(k, old)'
    BY <1>4, <2>1
  <2> QED
    BY <2>2
<1> QED
  BY <1>3, <1>5 DEF JobsOK

LEMMA JobsStay ==
    ASSUME JobsOK, UNCHANGED jobs, DOMAIN requests \subseteq DOMAIN requests'
    PROVE  JobsOK'
<1>1. ASSUME NEW k \in Jobs, NEW old, JobOK(k, old)
      PROVE  JobOK(k, old)'
  BY <1>1 DEF JobOK
<1>2. ASSUME NEW k \in Jobs
      PROVE  JobOK(k, jobs[k])'
  <2> PICK old : old = jobs[k]
    OBVIOUS
  <2>1. JobOK(k, old)'
    BY <1>1 DEF JobsOK
  <2> QED
    BY <2>1
<1> QED
  BY <1>2 DEF JobsOK

\* A change of a job, of requests that are not fewer, of the time and of the calls made.
LEMMA JobStepKeeps ==
    ASSUME IInv, NEW j \in Jobs, NEW job, JobOK(j, job),
           jobs' = [jobs EXCEPT ![j] = job],
           UNCHANGED notes, requests' \in Seq(Request),
           DOMAIN requests \subseteq DOMAIN requests',
           due' \in BOOLEAN, spent' \in 0..MaxEdits
    PROVE  IInv'
<1>1. JobsOK'
  BY JobChanges DEF IInv
<1>2. NotesOK'
  BY DEF IInv, NotesOK
<1> QED
  BY <1>1, <1>2 DEF IInv

\* The same job with other writes.
LEMMA RewrittenJobOK ==
    ASSUME NEW j \in Jobs, NEW job, JobOK(j, job), NEW writes, WritesOK(writes)
    PROVE  JobOK(j, [job EXCEPT !.writes = writes])
<1> DEFINE new == [job EXCEPT !.writes = writes]
<1>1. /\ DOMAIN new = {"pc", "writes", "batch", "note", "status"}
      /\ new.writes = writes /\ new.pc = job.pc /\ new.batch = job.batch
      /\ new.note = job.note /\ new.status = job.status
  BY DEF JobOK
<1> HIDE DEF new
<1>2. JobOK(j, new)
  BY <1>1 DEF JobOK
<1> QED
  BY <1>2 DEF new

LEMMA CallCounted ==
    ASSUME IInv, NEW j, Call(j)
    PROVE  spent' \in 0..MaxEdits
  BY BoundsAssumption DEF IInv, Call

\* A job whose only change is what it is about to write.
LEMMA WritesKeep ==
    ASSUME IInv, NEW j \in Jobs, NEW writes, WritesOK(writes),
           jobs' = [jobs EXCEPT ![j].writes = writes],
           UNCHANGED <<notes, requests, due>>, spent' \in 0..MaxEdits
    PROVE  IInv'
<1> DEFINE job == [jobs[j] EXCEPT !.writes = writes]
<1>1. JobOK(j, jobs[j])
  BY DEF IInv, JobsOK
<1>2. JobOK(j, job)
  BY <1>1, RewrittenJobOK
<1>3. jobs' = [jobs EXCEPT ![j] = job]
  OBVIOUS
<1>4. /\ UNCHANGED <<notes, requests>> /\ due' \in BOOLEAN
      /\ requests' \in Seq(Request) /\ DOMAIN requests \subseteq DOMAIN requests'
  BY DEF IInv
<1> HIDE DEF job
<1> QED
  BY <1>2, <1>3, <1>4, JobStepKeeps

-----------------------------------------------------------------------------
(* Every step keeps the inductive invariant *)

LEMMA InitHolds == Init => IInv
<1> SUFFICES ASSUME Init PROVE IInv
  OBVIOUS
<1>1. NotesOK
  <2> DEFINE new(n) == [owner |-> Author, visibility |-> "private",
                        status |-> IF IsClaim(n) THEN "requested" ELSE "none"]
  <2>1. \A n \in Paths : NoteOK(new(n))
    BY DEF NoteOK, MetaOK, Fields, Author, Sagwan
  <2>2. notes = [n \in Paths |-> new(n)]
    BY DEF Init
  <2> HIDE DEF new
  <2> QED
    BY <2>1, <2>2 DEF NotesOK
<1>2. JobsOK
  <2>1. jobs = [j \in Jobs |-> Idle]
    BY DEF Init
  <2> QED
    BY <2>1, IdleOK DEF JobsOK
<1>3. requests \in Seq(Request) /\ due \in BOOLEAN /\ spent \in 0..MaxEdits
  BY BoundsAssumption DEF Init
<1> QED
  BY <1>1, <1>2, <1>3 DEF IInv

LEMMA WriteNoteKeeps ==
    ASSUME IInv, NEW j \in Jobs, WriteNote(j)
    PROVE  IInv'
<1> DEFINE write == jobs[j].writes[1]
           job == [jobs[j] EXCEPT !.writes = Tail(jobs[j].writes)]
<1>1. JobOK(j, jobs[j]) /\ WritesOK(jobs[j].writes) /\ jobs[j].writes # << >>
  BY DEF IInv, JobsOK, JobOK, WriteNote
<1>2. WriteOK(write) /\ WritesOK(Tail(jobs[j].writes))
  BY <1>1, WriteTaken
<1>3. JobOK(j, job)
  BY <1>1, <1>2, RewrittenJobOK
<1>4. jobs' = [jobs EXCEPT ![j] = job] /\ UNCHANGED <<requests, due, spent>>
  BY DEF WriteNote
<1>5. JobsOK'
  <2> HIDE DEF job
  <2> QED
    BY <1>3, <1>4, JobChanges DEF IInv
<1>6. NotesOK'
  <2>1. notes' = [notes EXCEPT ![write.note] = WriteDocument(write, notes[write.note])]
    BY DEF WriteNote
  <2>2. write.note \in Paths
    BY <1>2 DEF WriteOK
  <2>3. NoteOK(WriteDocument(write, notes[write.note]))
    BY <1>2, <2>2, WriteKeepsNote DEF IInv, NotesOK
  <2> HIDE DEF write
  <2> QED
    BY <2>1, <2>2, <2>3 DEF IInv, NotesOK
<1> QED
  BY <1>4, <1>5, <1>6 DEF IInv

\* Calls of tools.
LEMMA UpsertNoteKeeps ==
    ASSUME IInv, NEW c \in Callers, NEW n \in Paths, NEW status, UpsertNote(c, n, status)
    PROVE  IInv'
<1> DEFINE meta == [owner |-> Author, visibility |-> "private", status |-> status]
           writes == <<Write(n, meta, FALSE, FALSE)>>
           pc == IF status = "requested" /\ ~IsClaim(n) THEN "ask" ELSE "idle"
           job == [Idle EXCEPT !.pc = pc, !.note = n, !.writes = writes]
<1>1. WritesOK(writes)
  BY LiteralsOK, OneWrite
<1>2. jobs' = [jobs EXCEPT ![c] = job] /\ UNCHANGED <<notes, requests, due>>
  BY DEF UpsertNote
<1>3. c \in Jobs /\ c \notin {"admin", "approval", "guardrail", "integration"}
  BY CallersAssumption DEF Jobs
<1>4. JobOK(c, job)
  <2> HIDE DEF writes, pc
  <2>0. job = [Idle EXCEPT !.pc = pc, !.note = n, !.writes = writes]
    OBVIOUS
  <2> HIDE DEF job
  <2>1. /\ DOMAIN job = {"pc", "writes", "batch", "note", "status"}
        /\ job.note = n /\ job.writes = writes /\ job.status \in Statuses
    BY <2>0 DEF Idle, Statuses
  <2> QED
    BY <1>1, <1>3, <2>1 DEF JobOK
<1>5. spent' \in 0..MaxEdits
  BY CallCounted DEF UpsertNote
<1> HIDE DEF job
<1> QED
  BY <1>2, <1>3, <1>4, <1>5, JobStepKeeps DEF IInv

LEMMA RewritesKeep ==
    ASSUME IInv, NEW c \in Callers, NEW n \in Paths, NEW replace \in BOOLEAN,
           RewriteNote(c, n, replace) \/ InspectNote(c, n) \/ AnnotateNote(c, n)
    PROVE  IInv'
<1>1. NoteOK(notes[n]) /\ MetaOK(notes[n]) /\ MetaOK(WithOriginal(notes[n]))
  BY WithOriginalFacts DEF IInv, NotesOK, NoteOK
<1>2. c \in Jobs
  BY DEF Jobs
<1>3. CASE RewriteNote(c, n, replace)
  <2>1. WritesOK(<<Write(n, notes[n], TRUE, replace)>>)
    BY <1>1, OneWrite
  <2>2. spent' \in 0..MaxEdits
    BY <1>3, CallCounted DEF RewriteNote
  <2> QED
    BY <1>2, <1>3, <2>1, <2>2, WritesKeep DEF RewriteNote
<1>4. CASE InspectNote(c, n)
  <2>1. WritesOK(<<Write(n, WithOriginal(notes[n]), TRUE, FALSE)>>)
    BY <1>1, OneWrite
  <2>2. spent' \in 0..MaxEdits
    BY <1>4, CallCounted DEF InspectNote
  <2> QED
    BY <1>2, <1>4, <2>1, <2>2, WritesKeep DEF InspectNote
<1>5. CASE AnnotateNote(c, n)
  <2>1. WritesOK(<<Write(n, notes[n], FALSE, FALSE)>>)
    BY <1>1, OneWrite
  <2>2. spent' \in 0..MaxEdits
    BY <1>5, CallCounted DEF AnnotateNote
  <2> QED
    BY <1>2, <1>5, <2>1, <2>2, WritesKeep DEF AnnotateNote
<1> QED
  BY <1>3, <1>4, <1>5

LEMMA AsksKeeps ==
    ASSUME IInv, NEW c \in Callers, NEW n \in Paths, Asks(c, n),
           UNCHANGED <<notes, requests, due>>, spent' \in 0..MaxEdits
    PROVE  IInv'
<1> DEFINE meta == Merge([status |-> "requested"], notes[n])
           writes == <<Write(n, meta, FALSE, FALSE)>>
           job == [Idle EXCEPT !.pc = "create", !.note = n, !.writes = writes]
<1>1. MetaOK(meta)
  BY LiteralsOK, MergeKeepsNote DEF IInv, NotesOK, NoteOK
<1>2. WritesOK(writes)
  <2> HIDE DEF meta
  <2> QED
    BY <1>1, OneWrite
<1>3. jobs' = [jobs EXCEPT ![c] = job]
  BY DEF Asks
<1>4. c \in Jobs /\ c \notin {"admin", "approval", "guardrail", "integration"}
  BY CallersAssumption DEF Jobs
<1>5. JobOK(c, job)
  <2> HIDE DEF writes
  <2>0. job = [Idle EXCEPT !.pc = "create", !.note = n, !.writes = writes]
    OBVIOUS
  <2> HIDE DEF job
  <2>1. /\ DOMAIN job = {"pc", "writes", "batch", "note", "status"}
        /\ job.note = n /\ job.writes = writes /\ job.status \in Statuses
    BY <2>0 DEF Idle, Statuses
  <2> QED
    BY <1>2, <1>4, <2>1 DEF JobOK
<1> HIDE DEF job
<1> QED
  BY <1>3, <1>4, <1>5, JobStepKeeps DEF IInv

LEMMA CreateRequestKeeps ==
    ASSUME IInv, NEW c \in Callers, CreateRequest(c)
    PROVE  IInv'
<1> DEFINE new == [source |-> jobs[c].note, status |-> "reviewing", recent |-> TRUE]
<1>1. c \in Jobs /\ c \notin {"admin", "approval", "guardrail", "integration"}
  BY CallersAssumption DEF Jobs
<1>2. jobs[c].note \in Paths
  <2>1. JobOK(c, jobs[c]) /\ jobs[c].pc = "create"
    BY <1>1 DEF IInv, JobsOK, CreateRequest, Waits
  <2> QED
    BY <1>1, <2>1 DEF JobOK
<1>3. new \in Request
  BY <1>2 DEF Request, Statuses
<1>4. requests' = Append(requests, new) /\ requests \in Seq(Request)
  BY DEF CreateRequest, IInv
<1>5. requests' \in Seq(Request) /\ DOMAIN requests \subseteq DOMAIN requests'
  <2> HIDE DEF new
  <2> QED
    BY <1>3, <1>4
<1> QED
  BY <1>1, <1>5, IdleOK, JobStepKeeps DEF CreateRequest, IInv

LEMMA CallerKeeps ==
    ASSUME IInv, NEW c \in Callers, CallerStep(c)
    PROVE  IInv'
<1>1. c \in Jobs /\ c \notin {"admin", "approval", "guardrail", "integration"}
  BY CallersAssumption DEF Jobs
<1>2. CASE AskForUpsert(c)
  <2>1. jobs[c].note \in Paths
    <3>1. JobOK(c, jobs[c]) /\ jobs[c].pc = "ask"
      BY <1>1, <1>2 DEF IInv, JobsOK, AskForUpsert, Waits
    <3> QED
      BY <1>1, <3>1 DEF JobOK
  <2>2. UNCHANGED <<notes, requests, due>> /\ spent' \in 0..MaxEdits
    BY <1>2 DEF AskForUpsert, IInv
  <2>3. CASE Asks(c, jobs[c].note)
    BY <2>1, <2>2, <2>3, AsksKeeps
  <2>4. CASE jobs' = [jobs EXCEPT ![c] = Idle]
    BY <1>1, <2>2, <2>4, IdleOK, JobStepKeeps DEF IInv
  <2> QED
    BY <1>2, <2>3, <2>4 DEF AskForUpsert
<1> QED
  BY <1>1, <1>2, WriteNoteKeeps, CreateRequestKeeps DEF CallerStep

\* Decisions of the admin about notes.
LEMMA AdminWritesKeep ==
    ASSUME IInv, NEW n \in Paths, NEW owns \in BOOLEAN, NEW status,
           AdminPublishes(n, owns) \/ DecideNote(n, status)
    PROVE  IInv'
<1>1. NoteOK(notes[n])
  BY DEF IInv, NotesOK
<1>2. "admin" \in Jobs
  BY DEF Jobs
<1>3. spent' \in 0..MaxEdits
  BY CallCounted DEF AdminPublishes, DecideNote
<1>4. CASE AdminPublishes(n, owns)
  <2> DEFINE meta == [visibility |-> "public", owner |-> Sagwan, original |-> Author]
             writes == <<Write(n, meta, owns, FALSE)>>
  <2>1. WritesOK(writes)
    <3>1. MetaOK(meta)
      BY LiteralsOK
    <3> HIDE DEF meta
    <3> QED
      BY <3>1, OneWrite
  <2>2. WithOriginal(notes[n]).original = Author
    BY <1>1, WithOriginalFacts
  <2>3. jobs' = [jobs EXCEPT !["admin"].writes = writes]
    BY <1>4, <2>2 DEF AdminPublishes
  <2>4. UNCHANGED <<notes, requests, due>>
    BY <1>4 DEF AdminPublishes
  <2> HIDE DEF writes
  <2> QED
    BY <1>2, <1>3, <2>1, <2>3, <2>4, WritesKeep
<1>5. CASE DecideNote(n, status)
  <2> DEFINE meta == IF status = "published" THEN Published(notes[n])
                     ELSE Merge([status |-> status], notes[n])
             writes == <<Write(n, meta, TRUE, FALSE)>>
  <2>1. MetaOK(meta)
    BY <1>1, PublishedKeepsNote, LiteralsOK, MergeKeepsNote DEF NoteOK
  <2>2. WritesOK(writes)
    <3> HIDE DEF meta
    <3> QED
      BY <2>1, OneWrite
  <2>3. jobs' = [jobs EXCEPT !["admin"].writes = writes]
    BY <1>5 DEF DecideNote
  <2>4. UNCHANGED <<notes, requests, due>>
    BY <1>5 DEF DecideNote
  <2> HIDE DEF writes
  <2> QED
    BY <1>2, <1>3, <2>2, <2>3, <2>4, WritesKeep
<1> QED
  BY <1>4, <1>5

\* A request that exists gets another status.
LEMMA RequestMarked ==
    ASSUME requests \in Seq(Request), NEW r \in DOMAIN requests, NEW status \in Statuses,
           requests' = [requests EXCEPT ![r].status = status]
    PROVE  requests' \in Seq(Request) /\ DOMAIN requests \subseteq DOMAIN requests'
<1> DEFINE new == [requests[r] EXCEPT !.status = status]
<1>1. requests[r] \in Request
  OBVIOUS
<1>2. new \in Request
  BY <1>1 DEF Request
<1>3. requests' = [requests EXCEPT ![r] = new]
  OBVIOUS
<1> HIDE DEF new
<1>4. DOMAIN requests = 1..Len(requests) /\ Len(requests) \in Nat
  OBVIOUS
<1>5. requests' \in [1..Len(requests) -> Request]
  BY <1>2, <1>3, <1>4
<1> QED
  BY <1>4, <1>5

LEMMA AdminDecidesKeeps ==
    ASSUME IInv, NEW r \in DOMAIN requests, NEW status \in {"published", "rejected"},
           AdminDecides(r, status)
    PROVE  IInv'
<1> DEFINE old == jobs["admin"]
           job == [old EXCEPT !.pc = "decide", !.note = requests[r].source, !.status = status]
<1>1. "admin" \in Jobs /\ JobOK("admin", old)
  BY DEF Jobs, IInv, JobsOK
<1>2. requests[r].source \in Paths
  <2>1. requests[r] \in Request
    BY DEF IInv
  <2> QED
    BY <2>1 DEF Request
<1>3. jobs' = [jobs EXCEPT !["admin"] = job]
  BY <1>1 DEF AdminDecides, DecideRequest, IInv, JobsOK
<1>4. JobOK("admin", job)
  <2> HIDE DEF old
  <2>1. /\ DOMAIN job = {"pc", "writes", "batch", "note", "status"}
        /\ job.note = requests[r].source /\ job.writes = old.writes
        /\ job.status = status
    BY <1>1 DEF JobOK
  <2> HIDE DEF job
  <2> QED
    BY <1>1, <1>2, <2>1 DEF JobOK, Statuses
<1>5. requests' \in Seq(Request) /\ DOMAIN requests \subseteq DOMAIN requests'
  BY RequestMarked DEF AdminDecides, DecideRequest, IInv, Statuses
<1>6. UNCHANGED <<notes, due>> /\ spent' \in 0..MaxEdits
  BY CallCounted DEF AdminDecides
<1> HIDE DEF job
<1> QED
  BY <1>1, <1>3, <1>4, <1>5, <1>6, JobStepKeeps DEF IInv

LEMMA DecideSourceKeeps ==
    ASSUME IInv, NEW j \in {"admin", "approval"}, DecideSource(j)
    PROVE  IInv'
<1> DEFINE old == jobs[j]
           written == notes[old.note]
           pc == IF j = "approval" THEN "batch" ELSE "idle"
           writes == IF old.status = "published"
                     THEN <<Write(old.note, Published(written), TRUE, FALSE)>>
                     ELSE <<Write(old.note, Merge([status |-> old.status,
                                                   visibility |-> "private"], written),
                                  FALSE, FALSE)>>
           job == [old EXCEPT !.pc = pc, !.writes = writes]
<1>1. j \in Jobs /\ j \notin {"guardrail", "integration"} /\ JobOK(j, old)
  BY DEF Jobs, IInv, JobsOK
<1>2. old.note \in Paths
  BY <1>1 DEF DecideSource, Waits, JobOK
<1>3. NoteOK(written)
  BY <1>2 DEF IInv, NotesOK
<1>4. WritesOK(writes)
  <2>1. MetaOK(Published(written))
    BY <1>3, PublishedKeepsNote DEF NoteOK
  <2>2. MetaOK(Merge([status |-> old.status, visibility |-> "private"], written))
    BY <1>3, LiteralsOK, MergeKeepsNote DEF NoteOK
  <2> QED
    BY <1>2, <2>1, <2>2, OneWrite
<1>5. jobs' = [jobs EXCEPT ![j] = job]
  <2> HIDE DEF written
  <2>1. jobs' = [jobs EXCEPT ![j].pc = pc, ![j].writes = writes]
    BY DEF DecideSource, written
  <2> HIDE DEF pc, writes
  <2> QED
    BY <1>1, <2>1 DEF IInv, JobsOK
<1>6. JobOK(j, job)
  <2> HIDE DEF old, writes
  <2>1. /\ DOMAIN job = {"pc", "writes", "batch", "note", "status"}
        /\ job.note = old.note /\ job.writes = writes /\ job.batch = old.batch
        /\ job.status = old.status
    BY <1>1 DEF JobOK
  <2> HIDE DEF job
  <2> QED
    BY <1>1, <1>2, <1>4, <2>1 DEF JobOK
<1>7. UNCHANGED <<notes, requests, due, spent>>
  BY DEF DecideSource
<1> HIDE DEF job
<1> QED
  BY <1>1, <1>5, <1>6, <1>7, JobStepKeeps DEF IInv

\* The approval cycle, which holds requests that exist.
LEMMA ApprovalKeeps ==
    ASSUME IInv, ApprovalStep
    PROVE  IInv'
<1> DEFINE old == jobs["approval"]
<1>1. "approval" \in Jobs /\ JobOK("approval", old)
  BY DEF Jobs, IInv, JobsOK
<1>2. CASE StartApproval
  <2> DEFINE job == [Idle EXCEPT !.pc = "batch", !.batch = NewestFew(PendingRequests)]
  <2>1. NewestFew(PendingRequests) \subseteq DOMAIN requests
    BY DEF NewestFew, PendingRequests
  <2>2. JobOK("approval", job)
    <3> DEFINE batch == NewestFew(PendingRequests)
    <3>0. job = [Idle EXCEPT !.pc = "batch", !.batch = batch]
      OBVIOUS
    <3> HIDE DEF batch, job
    <3>1. /\ DOMAIN job = {"pc", "writes", "batch", "note", "status"}
          /\ job.pc = "batch" /\ job.writes = << >> /\ job.batch = batch
          /\ job.status \in Statuses
      BY <3>0 DEF Idle, Statuses
    <3> QED
      BY <2>1, <3>1, NoWrites DEF JobOK, batch
  <2>3. jobs' = [jobs EXCEPT !["approval"] = job] /\ UNCHANGED <<notes, requests, due, spent>>
    BY <1>2 DEF StartApproval
  <2> HIDE DEF job
  <2> QED
    BY <1>1, <2>2, <2>3, JobStepKeeps DEF IInv
<1>3. CASE ReviewRequest
  <2>1. UNCHANGED <<notes, requests, due, spent>>
    BY <1>3 DEF ReviewRequest
  <2>2. CASE jobs' = [jobs EXCEPT !["approval"] = Idle]
    BY <1>1, <2>1, <2>2, IdleOK, JobStepKeeps DEF IInv
  <2>3. ASSUME NEW r \in old.batch,
               jobs' = [jobs EXCEPT !["approval"] =
                           [old EXCEPT !.pc = "judge", !.status = requests[r].status]]
        PROVE  IInv'
    <3> DEFINE job == [old EXCEPT !.pc = "judge", !.status = requests[r].status]
    <3>1. requests[r].status \in Statuses
      <4>1. r \in DOMAIN requests
        BY <1>1 DEF JobOK
      <4>2. requests[r] \in Request
        BY <4>1 DEF IInv
      <4> QED
        BY <4>2 DEF Request
    <3>2. JobOK("approval", job)
      <4> HIDE DEF old
      <4>1. /\ DOMAIN job = {"pc", "writes", "batch", "note", "status"}
            /\ job.pc = "judge" /\ job.writes = old.writes /\ job.batch = old.batch
            /\ job.status = requests[r].status
        BY <1>1 DEF JobOK
      <4> HIDE DEF job
      <4> QED
        BY <1>1, <3>1, <4>1 DEF JobOK
    <3>3. jobs' = [jobs EXCEPT !["approval"] = job]
      BY <2>3
    <3> HIDE DEF job
    <3> QED
      BY <1>1, <2>1, <3>2, <3>3, JobStepKeeps DEF IInv
  <2> QED
    BY <1>3, <2>2, <2>3 DEF ReviewRequest
<1>4. ASSUME NEW r \in DOMAIN requests, Approve(r)
      PROVE  IInv'
  <2> DEFINE source == requests[r].source
             batch == old.batch \ {r}
             job == [Idle EXCEPT !.pc = "decide", !.note = source,
                                 !.status = "published", !.batch = batch]
  <2>1. source \in Paths
    <3>1. requests[r] \in Request
      BY DEF IInv
    <3> QED
      BY <3>1 DEF Request
  <2>2. batch \subseteq DOMAIN requests
    BY <1>1 DEF JobOK
  <2>3. JobOK("approval", job)
    <3>0. job = [Idle EXCEPT !.pc = "decide", !.note = source,
                             !.status = "published", !.batch = batch]
      OBVIOUS
    <3> HIDE DEF source, batch, job
    <3>1. /\ DOMAIN job = {"pc", "writes", "batch", "note", "status"}
          /\ job.pc = "decide" /\ job.writes = << >> /\ job.batch = batch
          /\ job.note = source /\ job.status \in Statuses
      BY <3>0 DEF Idle, Statuses
    <3> QED
      BY <2>1, <2>2, <3>1, NoWrites DEF JobOK
  <2>4. jobs' = [jobs EXCEPT !["approval"] = job] /\ UNCHANGED <<notes, due, spent>>
    BY <1>4 DEF Approve
  <2>5. requests' \in Seq(Request) /\ DOMAIN requests \subseteq DOMAIN requests'
    BY <1>4, RequestMarked DEF Approve, IInv, Statuses
  <2> HIDE DEF job
  <2> QED
    BY <1>1, <2>3, <2>4, <2>5, JobStepKeeps DEF IInv
<1>5. ASSUME NEW r \in DOMAIN requests, Defer(r)
      PROVE  IInv'
  <2> DEFINE batch == old.batch \ {r}
             job == [Idle EXCEPT !.pc = "batch", !.batch = batch]
  <2>1. batch \subseteq DOMAIN requests
    BY <1>1 DEF JobOK
  <2>2. JobOK("approval", job)
    <3>0. job = [Idle EXCEPT !.pc = "batch", !.batch = batch]
      OBVIOUS
    <3> HIDE DEF batch, job
    <3>1. /\ DOMAIN job = {"pc", "writes", "batch", "note", "status"}
          /\ job.pc = "batch" /\ job.writes = << >> /\ job.batch = batch
          /\ job.status \in Statuses
      BY <3>0 DEF Idle, Statuses
    <3> QED
      BY <2>1, <3>1, NoWrites DEF JobOK
  <2>3. jobs' = [jobs EXCEPT !["approval"] = job] /\ UNCHANGED <<notes, due, spent>>
    BY <1>5 DEF Defer
  <2>4. requests' \in Seq(Request) /\ DOMAIN requests \subseteq DOMAIN requests'
    <3>1. old.status \in Statuses
      BY <1>1 DEF JobOK
    <3> QED
      BY <1>5, <3>1, RequestMarked DEF Defer, IInv
  <2> HIDE DEF job
  <2> QED
    BY <1>1, <2>2, <2>3, <2>4, JobStepKeeps DEF IInv
<1> QED
  BY <1>1, <1>2, <1>3, <1>4, <1>5, WriteNoteKeeps, DecideSourceKeeps DEF ApprovalStep

LEMMA ResultsNotes ==
    ASSUME NEW batch, NEW answer, NEW result \in Results(batch, answer)
    PROVE  \E n \in batch : result.note = n
<1> DEFINE verdict(n) == IF answer[n] = "pass" THEN "guardrail_passed"
                         ELSE "guardrail_rejected"
<1>1. Results(batch, answer) = {[note |-> n, status |-> verdict(n)] : n \in batch}
  BY DEF Results
<1> HIDE DEF verdict
<1> PICK n \in batch : result = [note |-> n, status |-> verdict(n)]
  BY <1>1
<1> QED
  OBVIOUS

\* The guardrail, which holds claims and then what is to become of them.
LEMMA GuardrailKeeps ==
    ASSUME IInv, GuardrailStep \/ GuardrailAnswers \/ GuardrailFails
    PROVE  IInv'
<1> DEFINE old == jobs["guardrail"]
<1>1. "guardrail" \in Jobs /\ JobOK("guardrail", old)
  BY DEF Jobs, IInv, JobsOK
<1>2. CASE StartGuardrail
  <2> DEFINE batch == FirstFew(PendingClaims)
             job == [Idle EXCEPT !.pc = "ask", !.batch = batch]
  <2>1. batch \subseteq 1..CLAIMS
    BY DEF FirstFew, PendingClaims, ClaimsIn
  <2>2. JobOK("guardrail", job)
    <3>0. job = [Idle EXCEPT !.pc = "ask", !.batch = batch]
      OBVIOUS
    <3> HIDE DEF batch, job
    <3>1. /\ DOMAIN job = {"pc", "writes", "batch", "note", "status"}
          /\ job.pc = "ask" /\ job.writes = << >> /\ job.batch = batch
          /\ job.status \in Statuses
      BY <3>0 DEF Idle, Statuses
    <3> QED
      BY <2>1, <3>1, NoWrites DEF JobOK
  <2>3. jobs' = [jobs EXCEPT !["guardrail"] = job] /\ UNCHANGED <<notes, requests, due, spent>>
    BY <1>2 DEF StartGuardrail
  <2> HIDE DEF job
  <2> QED
    BY <1>1, <2>2, <2>3, JobStepKeeps DEF IInv
<1>3. CASE GuardrailAnswers
  <2> PICK answer \in [old.batch -> {"pass", "reject", "left out"}] :
        jobs' = [jobs EXCEPT !["guardrail"] =
                    [Idle EXCEPT !.pc = "batch", !.batch = Results(old.batch, answer)]]
    BY <1>3 DEF GuardrailAnswers
  <2> DEFINE batch == Results(old.batch, answer)
             job == [Idle EXCEPT !.pc = "batch", !.batch = batch]
  <2>1. \A result \in batch : result.note \in 1..CLAIMS
    <3>1. old.batch \subseteq 1..CLAIMS
      BY <1>1, <1>3 DEF GuardrailAnswers, Waits, JobOK
    <3>2. ASSUME NEW result \in batch
          PROVE  \E n \in old.batch : result.note = n
      BY ResultsNotes
    <3> QED
      BY <3>1, <3>2
  <2>2. JobOK("guardrail", job)
    <3>0. job = [Idle EXCEPT !.pc = "batch", !.batch = batch]
      OBVIOUS
    <3> HIDE DEF batch, job
    <3>1. /\ DOMAIN job = {"pc", "writes", "batch", "note", "status"}
          /\ job.pc = "batch" /\ job.writes = << >> /\ job.batch = batch
          /\ job.status \in Statuses
      BY <3>0 DEF Idle, Statuses
    <3> QED
      BY <2>1, <3>1, NoWrites DEF JobOK
  <2>3. jobs' = [jobs EXCEPT !["guardrail"] = job] /\ UNCHANGED <<notes, requests, due, spent>>
    BY <1>3 DEF GuardrailAnswers
  <2> HIDE DEF job
  <2> QED
    BY <1>1, <2>2, <2>3, JobStepKeeps DEF IInv
<1>4. CASE GuardrailFails
  <2>1. due' \in BOOLEAN /\ UNCHANGED <<notes, requests, spent>>
    BY <1>4 DEF GuardrailFails, IInv
  <2>2. jobs' = [jobs EXCEPT !["guardrail"] = Idle]
    BY <1>4 DEF GuardrailFails
  <2> QED
    BY <1>1, <2>1, <2>2, IdleOK, JobStepKeeps DEF IInv
<1>5. CASE ApplyResult
  <2>1. due' \in BOOLEAN /\ UNCHANGED <<notes, requests, spent>>
    BY <1>5 DEF ApplyResult
  <2>2. CASE jobs' = [jobs EXCEPT !["guardrail"] = Idle]
    BY <1>1, <2>1, <2>2, IdleOK, JobStepKeeps DEF IInv
  <2>3. ASSUME NEW result \in old.batch,
               jobs' = [jobs EXCEPT
                   !["guardrail"].batch = old.batch \ {result},
                   !["guardrail"].writes = <<Write(result.note,
                       Merge([status |-> result.status], notes[result.note]), TRUE, FALSE)>>]
        PROVE  IInv'
    <3> DEFINE writes == <<Write(result.note, Merge([status |-> result.status],
                                                    notes[result.note]), TRUE, FALSE)>>
               batch == old.batch \ {result}
               job == [old EXCEPT !.batch = batch, !.writes = writes]
    <3>1. old.pc = "batch" /\ \A other \in old.batch : other.note \in 1..CLAIMS
      BY <1>1, <1>5 DEF ApplyResult, Waits, JobOK
    <3>2. result.note \in Paths
      BY <3>1, ClaimsArePaths
    <3>3. MetaOK(Merge([status |-> result.status], notes[result.note]))
      BY <3>2, LiteralsOK, MergeKeepsNote DEF IInv, NotesOK, NoteOK
    <3>4. WritesOK(writes)
      BY <3>2, <3>3, OneWrite
    <3>5. jobs' = [jobs EXCEPT !["guardrail"] = job]
      <4>1. jobs' = [jobs EXCEPT !["guardrail"].batch = batch, !["guardrail"].writes = writes]
        BY <2>3
      <4> HIDE DEF batch, writes
      <4> QED
        BY <1>1, <4>1 DEF IInv, JobsOK
    <3>6. JobOK("guardrail", job)
      <4>0. \A other \in batch : other.note \in 1..CLAIMS
        BY <3>1
      <4> HIDE DEF old, writes, batch
      <4>1. /\ DOMAIN job = {"pc", "writes", "batch", "note", "status"}
            /\ job.pc = old.pc /\ job.writes = writes /\ job.batch = batch
            /\ job.status = old.status
        BY <1>1 DEF JobOK
      <4> HIDE DEF job
      <4> QED
        BY <1>1, <3>1, <3>4, <4>0, <4>1 DEF JobOK
    <3> HIDE DEF job
    <3> QED
      BY <1>1, <2>1, <3>5, <3>6, JobStepKeeps DEF IInv
  <2> QED
    BY <1>5, <2>2, <2>3 DEF ApplyResult
<1> QED
  BY <1>1, <1>2, <1>3, <1>4, <1>5, WriteNoteKeeps DEF GuardrailStep

\* The integration, which holds claims.
LEMMA IntegrationKeeps ==
    ASSUME IInv, IntegrationStep
    PROVE  IInv'
<1> DEFINE old == jobs["integration"]
<1>1. "integration" \in Jobs /\ JobOK("integration", old)
  BY DEF Jobs, IInv, JobsOK
<1>2. CASE StartIntegration
  <2> DEFINE batch == FirstFew(ClaimsIn({"guardrail_passed", "pending_integration"}))
             job == [Idle EXCEPT !.pc = "batch", !.batch = batch]
  <2>1. batch \subseteq 1..CLAIMS
    BY DEF FirstFew, ClaimsIn
  <2>2. JobOK("integration", job)
    <3>0. job = [Idle EXCEPT !.pc = "batch", !.batch = batch]
      OBVIOUS
    <3> HIDE DEF batch, job
    <3>1. /\ DOMAIN job = {"pc", "writes", "batch", "note", "status"}
          /\ job.pc = "batch" /\ job.writes = << >> /\ job.batch = batch
          /\ job.status \in Statuses
      BY <3>0 DEF Idle, Statuses
    <3> QED
      BY <2>1, <3>1, NoWrites DEF JobOK
  <2>3. jobs' = [jobs EXCEPT !["integration"] = job] /\ UNCHANGED <<notes, requests, due, spent>>
    BY <1>2 DEF StartIntegration
  <2> HIDE DEF job
  <2> QED
    BY <1>1, <2>2, <2>3, JobStepKeeps DEF IInv
<1>3. CASE IntegrateClaim
  <2> PICK claim \in old.batch :
        \E writes \in ClaimWrites(claim) :
            jobs' = [jobs EXCEPT !["integration"].batch = old.batch \ {claim},
                                 !["integration"].writes = writes]
    BY <1>3 DEF IntegrateClaim
  <2> PICK writes \in ClaimWrites(claim) :
        jobs' = [jobs EXCEPT !["integration"].batch = old.batch \ {claim},
                             !["integration"].writes = writes]
    OBVIOUS
  <2> DEFINE batch == old.batch \ {claim}
             job == [old EXCEPT !.batch = batch, !.writes = writes]
  <2>1. claim \in Paths
    BY <1>1, ClaimsArePaths DEF JobOK
  <2>2. WritesOK(writes)
    <3>1. /\ MetaOK(Published(notes[claim]))
          /\ MetaOK(Merge([status |-> "pending_integration"], notes[claim]))
          /\ \A n \in Paths : MetaOK(notes[n])
      BY <2>1, PublishedKeepsNote, LiteralsOK, MergeKeepsNote DEF IInv, NotesOK, NoteOK
    <3>2. CASE writes = <<Write(claim, Merge([status |-> "pending_integration"],
                                             notes[claim]), TRUE, FALSE)>>
      BY <2>1, <3>1, <3>2, OneWrite
    <3>3. CASE writes = <<Write(claim, Published(notes[claim]), TRUE, FALSE)>>
      BY <2>1, <3>1, <3>3, OneWrite
    <3>4. ASSUME NEW n \in Paths,
                 writes = <<Write(n, notes[n], TRUE, FALSE),
                            Write(claim, Published(notes[claim]), TRUE, FALSE)>>
          PROVE  WritesOK(writes)
      BY <2>1, <3>1, <3>4, TwoWrites
    <3> QED
      BY <3>2, <3>3, <3>4 DEF ClaimWrites
  <2>3. jobs' = [jobs EXCEPT !["integration"] = job]
    <3>1. jobs' = [jobs EXCEPT !["integration"].batch = batch,
                               !["integration"].writes = writes]
      OBVIOUS
    <3> HIDE DEF batch
    <3> QED
      BY <1>1, <3>1 DEF IInv, JobsOK
  <2>4. JobOK("integration", job)
    <3>0. batch \subseteq 1..CLAIMS
      BY <1>1 DEF JobOK
    <3> HIDE DEF old, batch
    <3>1. /\ DOMAIN job = {"pc", "writes", "batch", "note", "status"}
          /\ job.pc = old.pc /\ job.writes = writes /\ job.batch = batch
          /\ job.note = old.note /\ job.status = old.status
      BY <1>1 DEF JobOK
    <3> HIDE DEF job
    <3> QED
      BY <1>1, <2>2, <3>0, <3>1 DEF JobOK
  <2>5. UNCHANGED <<notes, requests, due, spent>>
    BY <1>3 DEF IntegrateClaim
  <2> HIDE DEF job
  <2> QED
    BY <1>1, <2>3, <2>4, <2>5, JobStepKeeps DEF IInv
<1>4. CASE EndIntegration
  <2>1. jobs' = [jobs EXCEPT !["integration"] = Idle] /\ UNCHANGED <<notes, requests, due, spent>>
    BY <1>4 DEF EndIntegration
  <2> QED
    BY <1>1, <2>1, IdleOK, JobStepKeeps DEF IInv
<1> QED
  BY <1>1, <1>2, <1>3, <1>4, WriteNoteKeeps DEF IntegrationStep

\* The oldest request that counts becomes one that does not.
LEMMA AgingMarks ==
    ASSUME requests \in Seq(Request), NEW r \in DOMAIN requests,
           requests' = [requests EXCEPT ![r].recent = FALSE]
    PROVE  requests' \in Seq(Request) /\ DOMAIN requests \subseteq DOMAIN requests'
<1> DEFINE new == [requests[r] EXCEPT !.recent = FALSE]
<1>1. requests[r] \in Request
  OBVIOUS
<1>2. new \in Request
  BY <1>1 DEF Request
<1>3. requests' = [requests EXCEPT ![r] = new]
  OBVIOUS
<1> HIDE DEF new
<1>4. DOMAIN requests = 1..Len(requests) /\ Len(requests) \in Nat
  OBVIOUS
<1>5. requests \in [1..Len(requests) -> Request] /\ r \in 1..Len(requests)
  BY <1>4
<1>6. requests' \in [1..Len(requests) -> Request]
  BY <1>2, <1>3, <1>5
<1> QED
  BY <1>4, <1>6

LEMMA NextKeeps == IInv /\ [Next]_vars => IInv'
<1> SUFFICES ASSUME IInv, [Next]_vars PROVE IInv'
  OBVIOUS
<1>1. ASSUME NEW c \in Callers, NEW n \in Paths, NEW status, UpsertNote(c, n, status)
      PROVE  IInv'
  BY <1>1, UpsertNoteKeeps
<1>2. ASSUME NEW c \in Callers, NEW n \in Paths, NEW replace \in BOOLEAN,
             RewriteNote(c, n, replace) \/ InspectNote(c, n) \/ AnnotateNote(c, n)
      PROVE  IInv'
  BY <1>2, RewritesKeep
<1>3. ASSUME NEW c \in Callers, NEW n \in Paths, RequestPublication(c, n)
      PROVE  IInv'
  <2>1. /\ Asks(c, n) /\ UNCHANGED <<notes, requests, due>>
        /\ spent' \in 0..MaxEdits
    BY <1>3, CallCounted DEF RequestPublication
  <2> QED
    BY <2>1, AsksKeeps
<1>4. ASSUME NEW c \in Callers, CallerStep(c)
      PROVE  IInv'
  BY <1>4, CallerKeeps
<1>5. ASSUME NEW n \in Paths, NEW owns \in BOOLEAN, NEW status,
             AdminPublishes(n, owns) \/ DecideNote(n, status)
      PROVE  IInv'
  BY <1>5, AdminWritesKeep
<1>6. ASSUME NEW r \in DOMAIN requests, NEW status \in {"published", "rejected"},
             AdminDecides(r, status)
      PROVE  IInv'
  BY <1>6, AdminDecidesKeeps
<1>7. CASE WriteNote("admin") \/ DecideSource("admin")
  BY <1>7, WriteNoteKeeps, DecideSourceKeeps DEF Jobs
<1>8. CASE ApprovalStep \/ IntegrationStep
  BY <1>8, ApprovalKeeps, IntegrationKeeps
<1>9. CASE GuardrailStep \/ GuardrailAnswers \/ GuardrailFails
  BY <1>9, GuardrailKeeps
<1>10. CASE HourPasses
  <2>1. JobsOK'
    BY <1>10, JobsStay DEF HourPasses, IInv
  <2> QED
    BY <1>10, <2>1 DEF HourPasses, IInv, NotesOK
<1>11. CASE RequestAges
  <2> PICK r \in DOMAIN requests : requests' = [requests EXCEPT ![r].recent = FALSE]
    BY <1>11 DEF RequestAges, Recent
  <2>1. requests' \in Seq(Request) /\ DOMAIN requests \subseteq DOMAIN requests'
    BY AgingMarks DEF IInv
  <2>2. JobsOK'
    BY <1>11, <2>1, JobsStay DEF RequestAges, IInv
  <2> QED
    BY <1>11, <2>1, <2>2 DEF RequestAges, IInv, NotesOK
<1>12. CASE Crash
  <2>1. JobsOK'
    <3>1. jobs' = [j \in Jobs |-> Idle] /\ UNCHANGED requests
      BY <1>12 DEF Crash
    <3>2. \A j \in Jobs : JobOK(j, Idle)'
      BY <3>1, IdleOK DEF JobOK
    <3> QED
      BY <3>1, <3>2 DEF JobsOK
  <2>2. spent' \in 0..MaxEdits
    BY <1>12, BoundsAssumption DEF Crash, IInv
  <2> QED
    BY <1>12, <2>1, <2>2 DEF Crash, IInv, NotesOK
<1>13. CASE UNCHANGED vars
  <2>1. JobsOK'
    BY <1>13, JobsStay DEF vars, IInv
  <2> QED
    BY <1>13, <2>1 DEF vars, IInv, NotesOK
<1> QED
  BY <1>1, <1>2, <1>3, <1>4, <1>5, <1>6, <1>7, <1>8, <1>9, <1>10, <1>11, <1>12, <1>13 DEF Next

LEMMA Inductive == Spec => []IInv
  BY InitHolds, NextKeeps, PTL DEF Spec

-----------------------------------------------------------------------------

\* Notes, requests and jobs keep their shape (vault.py:write_document and its callers).
THEOREM TypeCorrect == Spec => []TypeOK
<1>1. IInv => TypeOK
  <2> SUFFICES ASSUME IInv PROVE TypeOK
    OBVIOUS
  <2>1. \A n \in Paths : Frontmatter(notes[n])
    BY DEF IInv, NotesOK, NoteOK, MetaOK, Frontmatter, Fields
  <2>2. \A r \in DOMAIN requests : requests[r].source \in Paths
    <3> SUFFICES ASSUME NEW r \in DOMAIN requests
                 PROVE  requests[r].source \in Paths
      OBVIOUS
    <3>1. requests[r] \in Request
      BY DEF IInv
    <3> QED
      BY <3>1 DEF Request
  <2>3. ASSUME NEW j \in Jobs, NEW i \in DOMAIN jobs[j].writes
        PROVE  jobs[j].writes[i].note \in Paths
    <3> PICK W : jobs[j].writes \in Seq(W) /\ \A write \in W : WriteOK(write)
      BY DEF IInv, JobsOK, JobOK, WritesOK
    <3>1. jobs[j].writes[i] \in W
      OBVIOUS
    <3> QED
      BY <3>1 DEF WriteOK
  <2> QED
    BY <2>1, <2>2, <2>3 DEF IInv, TypeOK
<1> QED
  BY <1>1, Inductive, PTL

\* Whatever old copies of a note are written over it, by whom and in whatever order,
\* merged or put in its place, a note that Sagwan took over names its author.
THEOREM AuthorsRemembered == Spec => []AuthorRemembered
<1>1. IInv => AuthorRemembered
  BY DEF IInv, NotesOK, NoteOK, MetaOK, AuthorRemembered
<1> QED
  BY <1>1, Inductive, PTL

-----------------------------------------------------------------------------
(* The rate of requests: what counts, and the calls that are about to add one *)

Creating == {c \in Callers : jobs[c].pc = "create"}

\* Each call that counted too few requests may add one, and counts itself first.
AskersCounted ==
    Cardinality(Recent) + Cardinality(Creating) <= HOURLY + Cardinality(Callers) - 1

LEMMA Counted ==
    ASSUME requests \in Seq(Request)
    PROVE  /\ IsFiniteSet(Recent) /\ Cardinality(Recent) \in Nat
           /\ IsFiniteSet(Creating) /\ Cardinality(Creating) \in Nat
           /\ Cardinality(Callers) \in Nat
           /\ Cardinality(Creating) <= Cardinality(Callers)
<1>1. IsFiniteSet(DOMAIN requests)
  <2>1. DOMAIN requests = 1..Len(requests) /\ Len(requests) \in Nat
    OBVIOUS
  <2> QED
    BY <2>1, FS_Interval
<1>2. Recent \subseteq DOMAIN requests /\ Creating \subseteq Callers
  BY DEF Recent, Creating
<1> QED
  BY <1>1, <1>2, FS_Subset, FS_CardinalityType, CallersAssumption

LEMMA NotMoreCounted ==
    ASSUME requests \in Seq(Request), AskersCounted,
           Recent' \subseteq Recent, Creating' \subseteq Creating
    PROVE  AskersCounted'
<1>1. /\ IsFiniteSet(Recent) /\ Cardinality(Recent) \in Nat
      /\ IsFiniteSet(Creating) /\ Cardinality(Creating) \in Nat
      /\ Cardinality(Callers) \in Nat
  BY Counted
<1>2. /\ Cardinality(Recent') <= Cardinality(Recent) /\ IsFiniteSet(Recent')
      /\ Cardinality(Creating') <= Cardinality(Creating) /\ IsFiniteSet(Creating')
  BY <1>1, FS_Subset
<1>3. Cardinality(Recent') \in Nat /\ Cardinality(Creating') \in Nat
  BY <1>2, FS_CardinalityType
<1> QED
  BY <1>1, <1>2, <1>3, BoundsAssumption DEF AskersCounted

\* Only a caller that asks becomes one that creates a request.
LEMMA JobChangeCounted ==
    ASSUME JobsOK, NEW j \in Jobs, NEW job, jobs' = [jobs EXCEPT ![j] = job],
           job.pc = jobs[j].pc \/ job.pc # "create" \/ j \notin Callers
    PROVE  Creating' \subseteq Creating
  BY DEF JobsOK, Creating, Jobs

LEMMA RewriteCounted ==
    ASSUME JobsOK, NEW j \in Jobs, NEW writes, jobs' = [jobs EXCEPT ![j].writes = writes]
    PROVE  Creating' \subseteq Creating
<1> DEFINE job == [jobs[j] EXCEPT !.writes = writes]
<1>1. job.pc = jobs[j].pc
  BY DEF JobsOK, JobOK
<1>2. jobs' = [jobs EXCEPT ![j] = job]
  OBVIOUS
<1> HIDE DEF job
<1> QED
  BY <1>1, <1>2, JobChangeCounted

LEMMA StatusKeepsRecent ==
    ASSUME requests \in Seq(Request), NEW r \in DOMAIN requests, NEW status,
           requests' = [requests EXCEPT ![r].status = status]
    PROVE  Recent' \subseteq Recent
<1> DEFINE new == [requests[r] EXCEPT !.status = status]
<1>1. requests[r] \in Request
  OBVIOUS
<1>2. new.recent = requests[r].recent
  BY <1>1 DEF Request
<1>3. requests' = [requests EXCEPT ![r] = new]
  OBVIOUS
<1> HIDE DEF new
<1> QED
  BY <1>2, <1>3 DEF Recent

\* A caller that asks has counted less than the limit.
LEMMA AskCounted ==
    ASSUME IInv, AskersCounted, NEW c \in Callers, NEW n, Asks(c, n), UNCHANGED requests
    PROVE  AskersCounted'
<1>1. Recent' = Recent
  BY DEF Recent
<1>2. Cardinality(Recent) < HOURLY
  <2>1. ~(Cardinality(Recent) >= HOURLY)
    BY DEF Asks, MayAsk, RateExceeded
  <2> QED
    BY <2>1, Counted, BoundsAssumption DEF IInv
<1>3. Creating' \subseteq Callers
  BY DEF Creating
<1>4. Cardinality(Creating') <= Cardinality(Callers) /\ Cardinality(Creating') \in Nat
  BY <1>3, FS_Subset, FS_CardinalityType, CallersAssumption
<1> QED
  BY <1>1, <1>2, <1>4, Counted, BoundsAssumption DEF AskersCounted, IInv

\* The request that is created takes the place of the call that creates it.
LEMMA CreationCounted ==
    ASSUME IInv, AskersCounted, NEW c \in Callers, CreateRequest(c)
    PROVE  AskersCounted'
<1> DEFINE new == [source |-> jobs[c].note, status |-> "reviewing", recent |-> TRUE]
           last == Len(requests) + 1
<1>1. requests \in Seq(Request) /\ requests' = Append(requests, new)
  BY DEF IInv, CreateRequest
<1>2. /\ DOMAIN requests' = DOMAIN requests \cup {last} /\ last \notin DOMAIN requests
      /\ \A r \in DOMAIN requests : requests'[r] = requests[r]
      /\ requests'[last] = new
  <2> HIDE DEF new
  <2> QED
    BY <1>1
<1>3. Recent' = Recent \cup {last} /\ last \notin Recent
  <2>1. requests'[last].recent
    BY <1>2
  <2> HIDE DEF new, last
  <2> QED
    BY <1>2, <2>1 DEF Recent
<1>4. Cardinality(Recent') = Cardinality(Recent) + 1
  BY <1>1, <1>3, Counted, FS_AddElement
<1>5. c \in Creating
  BY DEF CreateRequest, Waits, Creating
<1>6. Creating' = Creating \ {c}
  <2>1. Idle.pc # "create"
    BY DEF Idle
  <2> QED
    BY <2>1 DEF IInv, JobsOK, Jobs, CreateRequest, Creating
<1>7. Cardinality(Creating') = Cardinality(Creating) - 1
  BY <1>1, <1>5, <1>6, Counted, FS_RemoveElement
<1> QED
  BY <1>1, <1>4, <1>7, Counted, BoundsAssumption DEF AskersCounted

\* The steps of the admin and of the stages: they are no callers.
LEMMA OthersCounted ==
    ASSUME IInv, NEW j \in {"admin", "approval", "guardrail", "integration"},
           \A k \in Jobs \ {j} : jobs'[k] = jobs[k]
    PROVE  Creating' \subseteq Creating
<1>1. j \notin Callers
  BY CallersAssumption
<1> QED
  BY <1>1 DEF Creating, Jobs

LEMMA StagesCounted ==
    ASSUME IInv,
           \/ ApprovalStep \/ GuardrailStep \/ GuardrailAnswers \/ GuardrailFails
           \/ IntegrationStep \/ WriteNote("admin") \/ DecideSource("admin")
    PROVE  Recent' \subseteq Recent /\ Creating' \subseteq Creating
<1> USE DEF IInv, JobsOK
<1>1. Creating' \subseteq Creating
  <2>1. CASE ApprovalStep
    <3>1. \A k \in Jobs \ {"approval"} : jobs'[k] = jobs[k]
      BY <2>1 DEF ApprovalStep, WriteNote, StartApproval, ReviewRequest, DecideSource,
                  Approve, Defer
    <3> QED
      BY <3>1, OthersCounted
  <2>2. CASE GuardrailStep \/ GuardrailAnswers \/ GuardrailFails
    <3>1. \A k \in Jobs \ {"guardrail"} : jobs'[k] = jobs[k]
      BY <2>2 DEF GuardrailStep, WriteNote, StartGuardrail, ApplyResult,
                  GuardrailAnswers, GuardrailFails
    <3> QED
      BY <3>1, OthersCounted
  <2>3. CASE IntegrationStep
    <3>1. \A k \in Jobs \ {"integration"} : jobs'[k] = jobs[k]
      BY <2>3 DEF IntegrationStep, WriteNote, StartIntegration, IntegrateClaim, EndIntegration
    <3> QED
      BY <3>1, OthersCounted
  <2>4. CASE WriteNote("admin") \/ DecideSource("admin")
    <3>1. \A k \in Jobs \ {"admin"} : jobs'[k] = jobs[k]
      BY <2>4 DEF WriteNote, DecideSource
    <3> QED
      BY <3>1, OthersCounted
  <2> QED
    BY <2>1, <2>2, <2>3, <2>4
<1>2. Recent' \subseteq Recent
  <2>1. ASSUME NEW r \in DOMAIN requests, Approve(r) \/ Defer(r)
        PROVE  Recent' \subseteq Recent
    BY <2>1, StatusKeepsRecent DEF Approve, Defer
  <2>2. CASE UNCHANGED requests
    BY <2>2 DEF Recent
  <2> QED
    BY <2>1, <2>2
    DEF ApprovalStep, GuardrailStep, GuardrailAnswers, GuardrailFails, IntegrationStep,
        WriteNote, StartApproval, ReviewRequest, DecideSource, StartGuardrail, ApplyResult,
        StartIntegration, IntegrateClaim, EndIntegration
<1> QED
  BY <1>1, <1>2

LEMMA NextKeepsCounted == IInv /\ AskersCounted /\ [Next]_vars => AskersCounted'
<1> SUFFICES ASSUME IInv, AskersCounted, [Next]_vars PROVE AskersCounted'
  OBVIOUS
<1>0. requests \in Seq(Request) /\ JobsOK
  BY DEF IInv
<1>1. ASSUME NEW c \in Callers, NEW n \in Paths, NEW status, UpsertNote(c, n, status)
      PROVE  AskersCounted'
  <2> DEFINE pc == IF status = "requested" /\ ~IsClaim(n) THEN "ask" ELSE "idle"
             writes == <<Write(n, [owner |-> Author, visibility |-> "private",
                                   status |-> status], FALSE, FALSE)>>
             job == [Idle EXCEPT !.pc = pc, !.note = n, !.writes = writes]
  <2>1. jobs' = [jobs EXCEPT ![c] = job] /\ UNCHANGED requests
    BY <1>1 DEF UpsertNote
  <2>2. job.pc # "create"
    <3> HIDE DEF writes
    <3> QED
      BY DEF Idle
  <2> HIDE DEF job
  <2>3. Creating' \subseteq Creating
    BY <1>0, <2>1, <2>2, JobChangeCounted DEF Jobs
  <2> QED
    BY <1>0, <2>1, <2>3, NotMoreCounted DEF Recent
<1>2. ASSUME NEW c \in Callers, NEW n \in Paths, NEW replace \in BOOLEAN,
             RewriteNote(c, n, replace) \/ InspectNote(c, n) \/ AnnotateNote(c, n)
      PROVE  AskersCounted'
  <2>1. UNCHANGED requests /\ \E writes : jobs' = [jobs EXCEPT ![c].writes = writes]
    BY <1>2 DEF RewriteNote, InspectNote, AnnotateNote
  <2>2. Creating' \subseteq Creating
    BY <1>0, <2>1, RewriteCounted DEF Jobs
  <2> QED
    BY <1>0, <2>1, <2>2, NotMoreCounted DEF Recent
<1>3. ASSUME NEW c \in Callers, NEW n \in Paths, RequestPublication(c, n)
      PROVE  AskersCounted'
  BY <1>3, AskCounted DEF RequestPublication
<1>4. ASSUME NEW c \in Callers, CallerStep(c)
      PROVE  AskersCounted'
  <2>1. CASE WriteNote(c)
    <3>1. UNCHANGED requests /\ jobs' = [jobs EXCEPT ![c].writes = Tail(jobs[c].writes)]
      BY <2>1 DEF WriteNote
    <3>2. Creating' \subseteq Creating
      BY <1>0, <3>1, RewriteCounted DEF Jobs
    <3> QED
      BY <1>0, <3>1, <3>2, NotMoreCounted DEF Recent
  <2>2. CASE AskForUpsert(c)
    <3>1. CASE Asks(c, jobs[c].note)
      BY <2>2, <3>1, AskCounted DEF AskForUpsert
    <3>2. CASE jobs' = [jobs EXCEPT ![c] = Idle]
      <4>1. Idle.pc # "create"
        BY DEF Idle
      <4>2. Creating' \subseteq Creating
        BY <1>0, <3>2, <4>1, JobChangeCounted DEF Jobs
      <4> QED
        BY <1>0, <2>2, <4>2, NotMoreCounted DEF Recent, AskForUpsert
    <3> QED
      BY <2>2, <3>1, <3>2 DEF AskForUpsert
  <2> QED
    BY <1>4, <2>1, <2>2, CreationCounted DEF CallerStep
<1>5. ASSUME NEW n \in Paths, NEW owns \in BOOLEAN, NEW status,
             AdminPublishes(n, owns) \/ DecideNote(n, status)
      PROVE  AskersCounted'
  <2>1. UNCHANGED requests /\ \A k \in Jobs \ {"admin"} : jobs'[k] = jobs[k]
    BY <1>0, <1>5 DEF AdminPublishes, DecideNote, JobsOK
  <2>2. Creating' \subseteq Creating
    BY <2>1, OthersCounted
  <2> QED
    BY <1>0, <2>1, <2>2, NotMoreCounted DEF Recent
<1>6. ASSUME NEW r \in DOMAIN requests, NEW status \in {"published", "rejected"},
             AdminDecides(r, status)
      PROVE  AskersCounted'
  <2>1. Recent' \subseteq Recent
    BY <1>0, <1>6, StatusKeepsRecent DEF AdminDecides, DecideRequest
  <2>2. \A k \in Jobs \ {"admin"} : jobs'[k] = jobs[k]
    BY <1>0, <1>6 DEF AdminDecides, DecideRequest, JobsOK
  <2>3. Creating' \subseteq Creating
    BY <2>2, OthersCounted
  <2> QED
    BY <1>0, <2>1, <2>3, NotMoreCounted
<1>7. CASE \/ ApprovalStep \/ GuardrailStep \/ GuardrailAnswers \/ GuardrailFails
           \/ IntegrationStep \/ WriteNote("admin") \/ DecideSource("admin")
  BY <1>0, <1>7, StagesCounted, NotMoreCounted
<1>8. CASE RequestAges
  <2> PICK r \in Recent : requests' = [requests EXCEPT ![r].recent = FALSE]
    BY <1>8 DEF RequestAges
  <2> DEFINE new == [requests[r] EXCEPT !.recent = FALSE]
  <2>1. r \in DOMAIN requests /\ requests[r] \in Request
    BY <1>0 DEF Recent
  <2>2. new.recent = FALSE
    BY <2>1 DEF Request
  <2>3. requests' = [requests EXCEPT ![r] = new]
    OBVIOUS
  <2>4. Recent' \subseteq Recent
    <3> HIDE DEF new
    <3> QED
      BY <1>0, <2>1, <2>2, <2>3 DEF Recent
  <2> QED
    BY <1>0, <1>8, <2>4, NotMoreCounted DEF RequestAges, Creating
<1>9. CASE Crash
  <2>1. Idle.pc # "create"
    BY DEF Idle
  <2>2. Creating' \subseteq Creating
    BY <1>9, <2>1 DEF Crash, Creating, Jobs
  <2> QED
    BY <1>0, <1>9, <2>2, NotMoreCounted DEF Crash, Recent
<1>10. CASE HourPasses \/ UNCHANGED vars
  BY <1>0, <1>10, NotMoreCounted DEF HourPasses, vars, Recent, Creating
<1> QED
  BY <1>1, <1>2, <1>3, <1>4, <1>5, <1>6, <1>7, <1>8, <1>9, <1>10 DEF Next

\* However many calls count the hour's requests before any of them adds its own, the
\* limit is exceeded by no more than the calls but one.
THEOREM RequestsBounded == Spec => []RequestRateBounded
<1>1. Init => AskersCounted
  <2> SUFFICES ASSUME Init PROVE AskersCounted
    OBVIOUS
  <2>1. Idle.pc # "create"
    BY DEF Idle
  <2>2. Recent = {} /\ Creating = {}
    BY <2>1 DEF Init, Recent, Creating, Jobs
  <2>3. Cardinality(Callers) \in Nat
    BY FS_CardinalityType, CallersAssumption
  <2> QED
    BY <2>2, <2>3, FS_EmptySet, BoundsAssumption DEF AskersCounted
<1>2. IInv /\ AskersCounted => RequestRateBounded
  BY Counted, BoundsAssumption DEF IInv, AskersCounted, RequestRateBounded
<1> QED
  BY InitHolds, NextKeeps, NextKeepsCounted, <1>1, <1>2, PTL DEF Spec

-----------------------------------------------------------------------------
(* Counting *)

\* The instances count like this module.
LEMMA CountsAlike ==
    ASSUME NEW X
    PROVE  /\ G!IsFiniteSet(X) = IsFiniteSet(X)
           /\ G!Cardinality(X) = Cardinality(X)
           /\ C!Cardinality(X) = Cardinality(X)
           /\ R!Cardinality(X) = Cardinality(X)
  BY DEF G!IsFiniteSet, IsFiniteSet, G!Cardinality, C!Cardinality, R!Cardinality, Cardinality

-----------------------------------------------------------------------------
(* The research log *)

\* What a run loaded from the log or holds of it.
LogTicks == 1..MaxTicks
LogEntries == 1..MaxEntries
Copies == [anchor : [G!Stages -> LogTicks \cup {0}], entries : SUBSET LogEntries]
LogRun == [step : {"idle", "selecting", "fetching", "writing", "passed"}, stage : G!Stages,
           copy : Copies, failed : BOOLEAN, title : Titles]

EntriesFit(all) == all \subseteq LogEntries /\ IsFiniteSet(all)
LogTyped ==
    /\ now \in LogTicks
    /\ log \in Copies
    /\ logRuns \in [Runs -> LogRun]
    /\ lessons \subseteq Titles
    /\ EntriesFit(appended)
    /\ finished \in [G!Stages -> SUBSET LogTicks]

\* Anchors that were earned, given the ends there were of each stage, or never written.
Earned(anchor, ends) == \A s \in G!Stages : anchor[s] \in ends[s] \cup {G!Never}

\* The stale copies, too, hold earned anchors only.
CopiesEarned ==
    Earned(log.anchor, finished) /\ \A r \in Runs : Earned(logRuns[r].copy.anchor, finished)

\* Of the lessons on one topic, and the runs that passed the guard with one, there are no
\* more together than runs.
LessonsOn(topic) == {t \in lessons : SameTopic[t] = topic}
PassedWith(topic) == {r \in Runs : logRuns[r].step = "passed" /\ SameTopic[logRuns[r].title] = topic}

LessonsCounted ==
    \A topic \in Topics :
        /\ IsFiniteSet(LessonsOn(topic))
        /\ Cardinality(LessonsOn(topic)) + Cardinality(PassedWith(topic)) <= Cardinality(Runs)

LogInv == LogTyped /\ CopiesEarned /\ LessonsCounted

LEMMA TitlesThere == (CHOOSE t \in Titles : TRUE) \in Titles
<1>1. SEEDS \in Nat \ {0} /\ SameTitle \in [1..SEEDS -> Titles]
  BY VaultBounds DEF C!Bounds
<1>2. 1 \in 1..SEEDS
  BY <1>1
<1> QED
  BY <1>1, <1>2 DEF SameTitle

LEMMA RunsFinite == IsFiniteSet(Runs) /\ Cardinality(Runs) \in Nat
<1>1. IsFiniteSet(Runs)
  BY VaultBounds, CountsAlike DEF G!Bounds
<1> QED
  BY <1>1, FS_CardinalityType

LEMMA LogIdle == G!Idle \in LogRun /\ G!Idle.step = "idle" /\ G!Idle.copy.anchor \in [G!Stages -> {0}]
                 /\ G!Idle.copy \in Copies
  BY TitlesThere DEF G!Idle, LogRun, Copies, G!Never, G!Stages, G!Miners

LEMMA LogInitHolds == G!Init => LogInv
<1> SUFFICES ASSUME G!Init PROVE LogInv
  OBVIOUS
<1>1. LogTyped
  <2>1. 1 \in LogTicks
    BY VaultBounds DEF G!Bounds, LogTicks
  <2> QED
    BY <2>1, LogIdle, FS_EmptySet DEF G!Init, LogTyped, EntriesFit
<1>2. CopiesEarned
  BY LogIdle DEF G!Init, CopiesEarned, Earned, G!Never
<1>3. LessonsCounted
  <2> SUFFICES ASSUME NEW topic \in Topics
               PROVE  /\ IsFiniteSet(LessonsOn(topic))
                      /\ Cardinality(LessonsOn(topic)) + Cardinality(PassedWith(topic))
                            <= Cardinality(Runs)
    BY DEF LessonsCounted
  <2>1. LessonsOn(topic) = {} /\ PassedWith(topic) = {}
    BY LogIdle DEF G!Init, LessonsOn, PassedWith
  <2> QED
    BY <2>1, FS_EmptySet, RunsFinite
<1> QED
  BY <1>1, <1>2, <1>3 DEF LogInv

LEMMA LoggedSteps ==
    ASSUME [VaultNext]_vaultVars
    PROVE  G!Next \/ UNCHANGED logVars
  BY DEF VaultNext, vaultVars, logVars

\* The runs at their steps: only the one that moves has a new record.
OnlyRunMoves(r) ==
    /\ logRuns' \in [Runs -> LogRun]
    /\ \A q \in Runs \ {r} : logRuns'[q] = logRuns[q]

\* A step of one run that writes no lesson and passes no guard keeps the invariant if what
\* it holds, and what it writes into the log, was earned.
LEMMA RunKeeps ==
    ASSUME LogInv, NEW r \in Runs, OnlyRunMoves(r), Earned(logRuns'[r].copy.anchor, finished),
           logRuns'[r].step # "passed",
           now' = now, lessons' = lessons, EntriesFit(appended'), log' \in Copies, Earned(log'.anchor, finished'),
           finished' \in [G!Stages -> SUBSET LogTicks],
           \A s \in G!Stages : finished[s] \subseteq finished'[s]
    PROVE  LogInv'
<1>1. LogTyped'
  BY DEF LogInv, LogTyped, OnlyRunMoves
<1>2. CopiesEarned'
  <2>1. Earned(logRuns'[r].copy.anchor, finished')
    BY DEF Earned
  <2>2. ASSUME NEW q \in Runs \ {r}
        PROVE  Earned(logRuns'[q].copy.anchor, finished')
    <3>1. Earned(logRuns[q].copy.anchor, finished) /\ logRuns'[q] = logRuns[q]
      BY DEF LogInv, CopiesEarned, OnlyRunMoves
    <3> QED
      BY <3>1 DEF Earned
  <2> QED
    BY <2>1, <2>2 DEF CopiesEarned
<1>3. LessonsCounted'
  <2> SUFFICES ASSUME NEW topic \in Topics
               PROVE  /\ IsFiniteSet(LessonsOn(topic))'
                      /\ (Cardinality(LessonsOn(topic)) + Cardinality(PassedWith(topic))
                            <= Cardinality(Runs))'
    BY DEF LessonsCounted
  <2>1. /\ LessonsOn(topic)' = LessonsOn(topic)
        /\ IsFiniteSet(LessonsOn(topic))
        /\ Cardinality(LessonsOn(topic)) + Cardinality(PassedWith(topic)) <= Cardinality(Runs)
    BY DEF LogInv, LessonsCounted, LessonsOn
  <2>2. PassedWith(topic)' \subseteq PassedWith(topic) /\ PassedWith(topic) \subseteq Runs
    BY DEF PassedWith, OnlyRunMoves
  <2>3. Cardinality(PassedWith(topic)') <= Cardinality(PassedWith(topic))
        /\ Cardinality(PassedWith(topic)') \in Nat /\ Cardinality(PassedWith(topic)) \in Nat
    BY <2>2, RunsFinite, Fewer, FS_Subset
  <2>4. Cardinality(LessonsOn(topic)) \in Nat
    BY <2>1, FS_CardinalityType
  <2> QED
    BY <2>1, <2>3, <2>4, RunsFinite
<1> QED
  BY <1>1, <1>2, <1>3 DEF LogInv

\* The runs that only read: they load the log, fetch, or give up.
LEMMA ReadersKeep ==
    ASSUME LogInv, NEW r \in Runs,
           \/ \E s \in G!Stages : G!Load(r, s)
           \/ \E stage \in G!Miners, failed \in BOOLEAN : G!Fetched(r, stage, failed)
           \/ G!GiveUp(r)
    PROVE  LogInv'
<1>1. /\ now' = now /\ log' = log /\ lessons' = lessons /\ finished' = finished
      /\ appended' = appended /\ LogTyped /\ CopiesEarned
  BY DEF G!Load, G!Fetched, G!GiveUp, LogInv
<1>2. /\ Earned(log'.anchor, finished') /\ log' \in Copies /\ EntriesFit(appended')
      /\ finished' \in [G!Stages -> SUBSET LogTicks]
      /\ \A s \in G!Stages : finished[s] \subseteq finished'[s]
  BY <1>1 DEF CopiesEarned, LogTyped
<1>3. Earned(G!Idle.copy.anchor, finished)
  BY LogIdle DEF Earned, G!Never
<1>4. CASE \E s \in G!Stages : G!Load(r, s)
  <2>1. PICK s \in G!Stages : G!Load(r, s)
    BY <1>4
  <2>2. logRuns'[r] = [G!Idle EXCEPT !.stage = s, !.copy = log,
                         !.step = IF s = "github" THEN "selecting" ELSE "fetching"]
    BY <1>1, <2>1 DEF G!Load, LogTyped
  <2>3. logRuns'[r] \in LogRun /\ logRuns'[r].copy = log /\ logRuns'[r].step # "passed"
    BY <1>1, <2>2, LogIdle DEF LogTyped, LogRun
  <2>4. OnlyRunMoves(r)
    BY <1>1, <2>1, <2>3 DEF G!Load, LogTyped, OnlyRunMoves
  <2>5. Earned(logRuns'[r].copy.anchor, finished)
    BY <1>1, <2>3 DEF CopiesEarned
  <2> QED
    BY <1>1, <1>2, <2>3, <2>4, <2>5, RunKeeps
<1>5. CASE \E stage \in G!Miners, failed \in BOOLEAN : G!Fetched(r, stage, failed)
  <2>1. PICK stage \in G!Miners, failed \in BOOLEAN : G!Fetched(r, stage, failed)
    BY <1>5
  <2>2. logRuns'[r] = [logRuns[r] EXCEPT !.step = "writing", !.failed = failed, !.copy = G!Idle.copy]
    BY <1>1, <2>1 DEF G!Fetched, LogTyped
  <2>3. logRuns'[r] \in LogRun /\ logRuns'[r].copy = G!Idle.copy /\ logRuns'[r].step # "passed"
    BY <1>1, <2>2, LogIdle DEF LogTyped, LogRun
  <2>4. OnlyRunMoves(r)
    BY <1>1, <2>1, <2>3 DEF G!Fetched, LogTyped, OnlyRunMoves
  <2> QED
    BY <1>1, <1>2, <1>3, <2>3, <2>4, RunKeeps
<1>6. CASE G!GiveUp(r)
  <2>1. logRuns'[r] = G!Idle /\ OnlyRunMoves(r)
    BY <1>1, <1>6, LogIdle DEF G!GiveUp, LogTyped, OnlyRunMoves
  <2> QED
    BY <1>1, <1>2, <1>3, <2>1, LogIdle, RunKeeps
<1> QED
  BY <1>4, <1>5, <1>6

\* The runs that write the log: a merged copy, an entry, an anchor for a stage that ended.
LEMMA LogWritersKeep ==
    ASSUME LogInv, NEW r \in Runs, G!SelectRepositories(r) \/ G!AppendEntry(r) \/ G!Touch(r)
    PROVE  LogInv'
<1>1. /\ now' = now /\ lessons' = lessons /\ LogTyped /\ CopiesEarned
  BY DEF G!SelectRepositories, G!AppendEntry, G!Touch, LogInv
<1>2. Earned(G!Idle.copy.anchor, finished)
  BY LogIdle DEF Earned, G!Never
<1>3. logRuns[r] \in LogRun /\ logRuns[r].stage \in G!Stages /\ logRuns[r].copy \in Copies
      /\ log.anchor \in [G!Stages -> LogTicks \cup {0}] /\ log.entries \in SUBSET LogEntries
  BY <1>1 DEF LogTyped, LogRun, Copies
<1>4. CASE G!SelectRepositories(r)
  <2>1. logRuns'[r] = [logRuns[r] EXCEPT !.step = "fetching", !.copy = G!Idle.copy]
    BY <1>1, <1>4 DEF G!SelectRepositories, LogTyped
  <2>2. logRuns'[r] \in LogRun /\ logRuns'[r].copy = G!Idle.copy /\ logRuns'[r].step # "passed"
    BY <1>3, <2>1, LogIdle DEF LogRun
  <2>3. OnlyRunMoves(r)
    BY <1>1, <1>4, <2>2 DEF G!SelectRepositories, LogTyped, OnlyRunMoves
  <2>4. Earned(logRuns[r].copy.anchor, finished) /\ Earned(log.anchor, finished)
    BY <1>1 DEF CopiesEarned
  <2>5. finished' = finished /\ appended' = appended /\ log' = G!Merged(logRuns[r].copy)
    BY <1>4 DEF G!SelectRepositories
  <2>6. log' \in Copies /\ Earned(log'.anchor, finished')
    BY <1>3, <2>4, <2>5 DEF G!Merged, Copies, Earned
  <2>7. /\ finished' \in [G!Stages -> SUBSET LogTicks] /\ EntriesFit(appended')
        /\ \A s \in G!Stages : finished[s] \subseteq finished'[s]
    BY <1>1, <2>5 DEF LogTyped
  <2> QED
    BY <1>1, <1>2, <2>2, <2>3, <2>6, <2>7, RunKeeps
<1>5. CASE G!AppendEntry(r)
  <2>1. logRuns'[r] = [logRuns[r] EXCEPT !.step = "writing", !.copy = G!Idle.copy]
    BY <1>1, <1>5 DEF G!AppendEntry, LogTyped
  <2>2. logRuns'[r] \in LogRun /\ logRuns'[r].copy = G!Idle.copy /\ logRuns'[r].step # "passed"
    BY <1>3, <2>1, LogIdle DEF LogRun
  <2>3. OnlyRunMoves(r)
    BY <1>1, <1>5, <2>2 DEF G!AppendEntry, LogTyped, OnlyRunMoves
  <2>4. PICK entry : /\ finished' = finished /\ entry = Cardinality(appended) + 1
                     /\ log' = [log EXCEPT !.entries = @ \cup {entry}]
                     /\ appended' = appended \cup {entry}
    BY <1>5, CountsAlike DEF G!AppendEntry
  <2>5. log' \in Copies /\ Earned(log'.anchor, finished')
    <3>1. entry \in LogEntries
      <4>1. Cardinality(appended) < MaxEntries /\ Cardinality(appended) \in Nat
        BY <1>1, <1>5, CountsAlike, FS_CardinalityType DEF LogTyped, EntriesFit, G!AppendEntry
      <4> QED
        BY <2>4, <4>1, VaultBounds DEF G!Bounds, LogEntries
    <3> QED
      BY <1>1, <1>3, <2>4, <3>1 DEF LogTyped, CopiesEarned, Copies
  <2>6. /\ finished' \in [G!Stages -> SUBSET LogTicks] /\ EntriesFit(appended')
        /\ \A s \in G!Stages : finished[s] \subseteq finished'[s]
    <3>1. entry \in LogEntries
      <4>1. Cardinality(appended) < MaxEntries /\ Cardinality(appended) \in Nat
        BY <1>1, <1>5, CountsAlike, FS_CardinalityType DEF LogTyped, EntriesFit, G!AppendEntry
      <4> QED
        BY <2>4, <4>1, VaultBounds DEF G!Bounds, LogEntries
    <3> QED
      BY <1>1, <2>4, <3>1, FS_AddElement DEF LogTyped, EntriesFit
  <2> QED
    BY <1>1, <1>2, <2>2, <2>3, <2>5, <2>6, RunKeeps
<1>6. CASE G!Touch(r)
  <2>1. logRuns'[r] = G!Idle /\ OnlyRunMoves(r)
    BY <1>1, <1>6, LogIdle DEF G!Touch, LogTyped, OnlyRunMoves
  <2>2. appended' = appended
    BY <1>6 DEF G!Touch
  <2>3. \/ log' = log /\ finished' = finished
        \/ LET s == logRuns[r].stage
           IN  /\ log' = [log EXCEPT !.anchor[s] = now]
               /\ finished' = [finished EXCEPT ![s] = @ \cup {now}]
    BY <1>6 DEF G!Touch, G!Stamp
  <2>4. /\ log' \in Copies /\ finished' \in [G!Stages -> SUBSET LogTicks] /\ EntriesFit(appended')
        /\ \A s \in G!Stages : finished[s] \subseteq finished'[s]
    BY <1>1, <1>3, <2>3, <2>2 DEF LogTyped, Copies
  <2>5. Earned(log'.anchor, finished')
    BY <1>1, <1>3, <2>3 DEF LogTyped, CopiesEarned, Copies, Earned
  <2> QED
    BY <1>1, <1>2, <2>1, <2>4, <2>5, LogIdle, RunKeeps
<1> QED
  BY <1>4, <1>5, <1>6

\* A lesson that passes the guard is counted from then on, and written as what was counted.
LEMMA LessonsKeep ==
    ASSUME LogInv, NEW r \in Runs,
           \/ \E t \in Titles : G!PassGuard(r, t)
           \/ \E stage \in G!Miners : G!Written(r, stage)
    PROVE  LogInv'
<1>1. /\ now' = now /\ log' = log /\ finished' = finished /\ appended' = appended
      /\ LogTyped /\ CopiesEarned /\ LessonsCounted
  BY DEF G!PassGuard, G!Written, LogInv
<1>2. /\ logRuns[r] \in LogRun /\ logRuns[r].title \in Titles
      /\ SameTopic \in [Titles -> Topics]
  BY <1>1, VaultBounds DEF LogTyped, LogRun, G!Bounds
<1>3. ASSUME NEW t \in Titles, G!PassGuard(r, t)
      PROVE  LogInv'
  <2>1. logRuns' = [logRuns EXCEPT ![r] = [logRuns[r] EXCEPT !.step = "passed", !.title = t]]
    BY <1>1, <1>3 DEF G!PassGuard, LogTyped
  <2>2. /\ logRuns' \in [Runs -> LogRun]
        /\ \A q \in Runs : logRuns'[q].copy = logRuns[q].copy
        /\ \A q \in Runs \ {r} : logRuns'[q] = logRuns[q]
        /\ logRuns'[r].step = "passed" /\ logRuns'[r].title = t
    BY <1>1, <1>2, <2>1 DEF LogTyped, LogRun
  <2>3. LogTyped' /\ CopiesEarned'
    <3>1. lessons' \subseteq Titles
      BY <1>1, <1>3 DEF G!PassGuard, LogTyped
    <3> QED
      BY <1>1, <2>2, <3>1 DEF LogTyped, CopiesEarned
  <2>4. ASSUME NEW topic \in Topics
        PROVE  /\ IsFiniteSet(LessonsOn(topic))'
               /\ (Cardinality(LessonsOn(topic)) + Cardinality(PassedWith(topic))
                     <= Cardinality(Runs))'
    <3>1. /\ LessonsOn(topic)' = LessonsOn(topic)
          /\ IsFiniteSet(LessonsOn(topic))
          /\ Cardinality(LessonsOn(topic)) + Cardinality(PassedWith(topic)) <= Cardinality(Runs)
      BY <1>1, <1>3 DEF LessonsCounted, LessonsOn, G!PassGuard
    <3>2. Cardinality(LessonsOn(topic)) \in Nat
      BY <3>1, FS_CardinalityType
    <3>3. CASE SameTopic[t] = topic
      <4>1. LessonsOn(topic) = {}
        BY <1>3, <3>3 DEF G!PassGuard, G!Known, LessonsOn
      <4>2. Cardinality(PassedWith(topic)') <= Cardinality(Runs) /\ Cardinality(PassedWith(topic)') \in Nat
        <5>1. PassedWith(topic)' \subseteq Runs
          BY DEF PassedWith
        <5> QED
          BY <5>1, RunsFinite, Fewer
      <4> QED
        BY <3>1, <4>1, <4>2, FS_EmptySet, RunsFinite
    <3>4. CASE SameTopic[t] # topic
      <4>1. PassedWith(topic)' \subseteq PassedWith(topic) /\ PassedWith(topic) \subseteq Runs
        BY <2>2, <3>4 DEF PassedWith
      <4>2. Cardinality(PassedWith(topic)') <= Cardinality(PassedWith(topic))
            /\ Cardinality(PassedWith(topic)') \in Nat /\ Cardinality(PassedWith(topic)) \in Nat
        BY <4>1, RunsFinite, Fewer, FS_Subset
      <4> QED
        BY <3>1, <3>2, <4>2, RunsFinite
    <3> QED
      BY <3>3, <3>4
  <2> QED
    BY <2>3, <2>4 DEF LogInv, LessonsCounted
<1>4. ASSUME NEW stage \in G!Miners, G!Written(r, stage)
      PROVE  LogInv'
  <2>1. /\ logRuns' = [logRuns EXCEPT ![r] = [logRuns[r] EXCEPT !.step = "writing", !.title = G!Idle.title]]
        /\ lessons' = lessons \cup {logRuns[r].title}
        /\ logRuns[r].step = "passed"
    BY <1>1, <1>4 DEF G!Written, LogTyped
  <2>2. /\ logRuns' \in [Runs -> LogRun]
        /\ \A q \in Runs : logRuns'[q].copy = logRuns[q].copy
        /\ \A q \in Runs \ {r} : logRuns'[q] = logRuns[q]
        /\ logRuns'[r].step = "writing"
    BY <1>1, <1>2, <2>1, LogIdle DEF LogTyped, LogRun
  <2>3. LogTyped' /\ CopiesEarned'
    <3>1. lessons' \subseteq Titles
      BY <1>1, <1>2, <2>1 DEF LogTyped
    <3> QED
      BY <1>1, <2>2, <3>1 DEF LogTyped, CopiesEarned
  <2>4. ASSUME NEW topic \in Topics
        PROVE  /\ IsFiniteSet(LessonsOn(topic))'
               /\ (Cardinality(LessonsOn(topic)) + Cardinality(PassedWith(topic))
                     <= Cardinality(Runs))'
    <3>1. /\ IsFiniteSet(LessonsOn(topic)) /\ IsFiniteSet(PassedWith(topic))
          /\ Cardinality(LessonsOn(topic)) + Cardinality(PassedWith(topic)) <= Cardinality(Runs)
      <4>1. PassedWith(topic) \subseteq Runs
        BY DEF PassedWith
      <4> QED
        BY <1>1, <4>1, RunsFinite, Fewer DEF LessonsCounted
    <3>3. CASE SameTopic[logRuns[r].title] = topic
      <4>1. LessonsOn(topic)' \subseteq LessonsOn(topic) \cup {logRuns[r].title}
        BY <2>1 DEF LessonsOn
      <4>2. r \in PassedWith(topic) /\ PassedWith(topic)' \subseteq PassedWith(topic) \ {r}
        BY <2>1, <2>2, <3>3 DEF PassedWith
      <4>3. /\ IsFiniteSet(LessonsOn(topic)')
            /\ Cardinality(LessonsOn(topic)') \in Nat /\ Cardinality(LessonsOn(topic)) \in Nat
            /\ Cardinality(LessonsOn(topic)') <= Cardinality(LessonsOn(topic)) + 1
        BY <3>1, <4>1, OneMore
      <4>4. /\ Cardinality(PassedWith(topic)') \in Nat /\ Cardinality(PassedWith(topic)) \in Nat
            /\ Cardinality(PassedWith(topic)') + 1 <= Cardinality(PassedWith(topic))
        BY <3>1, <4>2, OneFewer
      <4> QED
        BY <3>1, <4>3, <4>4, RunsFinite
    <3>4. CASE SameTopic[logRuns[r].title] # topic
      <4>1. LessonsOn(topic)' = LessonsOn(topic) /\ PassedWith(topic)' \subseteq PassedWith(topic)
        BY <2>1, <2>2, <3>4 DEF LessonsOn, PassedWith
      <4>2. Cardinality(PassedWith(topic)') <= Cardinality(PassedWith(topic))
            /\ Cardinality(PassedWith(topic)') \in Nat /\ Cardinality(PassedWith(topic)) \in Nat
        BY <3>1, <4>1, Fewer
      <4>3. Cardinality(LessonsOn(topic)) \in Nat
        BY <3>1, FS_CardinalityType
      <4> QED
        BY <3>1, <4>1, <4>2, <4>3, RunsFinite
    <3> QED
      BY <3>3, <3>4
  <2> QED
    BY <2>3, <2>4 DEF LogInv, LessonsCounted
<1> QED
  BY <1>3, <1>4

LEMMA LogStays ==
    ASSUME LogInv, logRuns' = logRuns, log' = log, lessons' = lessons, finished' = finished,
           appended' = appended, now' \in LogTicks
    PROVE  LogInv'
  BY DEF LogInv, LogTyped, CopiesEarned, LessonsCounted, LessonsOn, PassedWith

LEMMA LogNextKeeps == LogInv /\ [VaultNext]_vaultVars => LogInv'
<1> SUFFICES ASSUME LogInv, [VaultNext]_vaultVars PROVE LogInv'
  OBVIOUS
<1>1. now \in LogTicks
  BY DEF LogInv, LogTyped
<1>2. CASE UNCHANGED logVars
  BY <1>1, <1>2, LogStays DEF logVars
<1>3. CASE G!Tick
  <2>1. now' \in LogTicks
    BY <1>1, <1>3, VaultBounds DEF G!Tick, G!Bounds, LogTicks
  <2> QED
    BY <1>3, <2>1, LogStays DEF G!Tick
<1>4. ASSUME NEW r \in Runs,
             \/ \E s \in G!Stages : G!Load(r, s)
             \/ G!SelectRepositories(r) \/ G!GiveUp(r) \/ G!Touch(r) \/ G!AppendEntry(r)
             \/ \E failed \in BOOLEAN :
                    \/ G!FetchCommits(r, failed) \/ G!FetchPullRequests(r, failed)
                    \/ G!FetchAnswers(r, failed)
             \/ G!WriteCommitLesson(r) \/ G!WritePullRequestLesson(r) \/ G!WriteAnswerLesson(r)
             \/ \E t \in Titles : G!PassGuard(r, t)
      PROVE  LogInv'
  BY <1>4, ReadersKeep, LogWritersKeep, LessonsKeep
     DEF G!FetchCommits, G!FetchPullRequests, G!FetchAnswers, G!WriteCommitLesson,
         G!WritePullRequestLesson, G!WriteAnswerLesson, G!Miners
<1> QED
  BY <1>2, <1>3, <1>4, LoggedSteps DEF G!Next

LEMMA LogInvariant == VaultSpec => []LogInv
<1>1. VaultInit => LogInv
  BY LogInitHolds DEF VaultInit
<1> QED
  BY <1>1, LogNextKeeps, PTL DEF VaultSpec

\* No stage is held back by an anchor that it did not earn: whatever stale copies of the
\* log are written, an anchor is a time at which its stage finished with all it wanted to
\* fetch (_touch_git_mining_state and its likes, and the merge of GitHub's stage).
THEOREM AnchorsEarned == VaultSpec => []AnchorEarned
<1>1. LogInv => AnchorEarned
  BY DEF LogInv, CopiesEarned, Earned, AnchorEarned, G!AnchorEarned
<1> QED
  BY <1>1, LogInvariant, PTL

-----------------------------------------------------------------------------
(* The capsules of stages E and K *)

LEMMA CapsuleSteps ==
    ASSUME [VaultNext]_vaultVars
    PROVE  C!Next \/ UNCHANGED capsuleVars
  BY DEF VaultNext, vaultVars, capsuleVars

LEMMA CapsuleAssumptions ==
    /\ SEEDS \in Nat \ {0} /\ 1 \in C!Seeds
    /\ MaxTrouble \in Nat /\ MaxEvents \in Nat
    /\ SameTopic \in [Titles -> Topics] /\ SameTitle \in [C!Seeds -> Titles]
  BY VaultBounds DEF C!Bounds, C!Seeds

LEMMA CapsuleIdle == C!Idle \in C!Run /\ C!Idle.step = "idle"
  BY TitlesThere, CapsuleAssumptions DEF C!Idle, C!Run

\* The runs of a stage at their steps: only the one that moves has a new record.
OnlyStageMoves(r) ==
    /\ stageRuns' \in [Runs -> C!Run]
    /\ \A q \in Runs \ {r} : stageRuns'[q] = stageRuns[q]

LEMMA StageMoves ==
    ASSUME stageRuns \in [Runs -> C!Run], NEW r \in Runs, NEW run \in C!Run,
           stageRuns' = [stageRuns EXCEPT ![r] = run]
    PROVE  OnlyStageMoves(r) /\ stageRuns'[r] = run
  BY DEF OnlyStageMoves

\* What stage E does with the seed of its run.
LEMMA StageEType ==
    ASSUME C!TypeOK, NEW r \in Runs, C!StageE(r)
    PROVE  C!TypeOK' /\ OnlyStageMoves(r)
<1>1. stageRuns[r] \in C!Run /\ stageRuns[r].seed \in C!Seeds
  BY DEF C!TypeOK, C!Run
<1>2. CASE \E s \in C!Seeds : C!Generate(r, s)
  <2>1. PICK s \in C!Seeds : C!Generate(r, s)
    BY <1>2
  <2>2. stageRuns' = [stageRuns EXCEPT ![r] = [stageRuns[r] EXCEPT !.step = "generating", !.seed = s]]
    BY <2>1 DEF C!Generate, C!TypeOK
  <2>3. [stageRuns[r] EXCEPT !.step = "generating", !.seed = s] \in C!Run
    BY <1>1 DEF C!Run
  <2> QED
    BY <2>1, <2>2, <2>3, StageMoves DEF C!TypeOK, C!Generate, C!logVars, OnlyStageMoves
<1>3. CASE C!WriteGenerated(r)
  <2>1. stageRuns' = [stageRuns EXCEPT ![r] = [stageRuns[r] EXCEPT !.step = "marking"]]
    BY <1>3 DEF C!WriteGenerated, C!TypeOK
  <2>2. [stageRuns[r] EXCEPT !.step = "marking"] \in C!Run
    BY <1>1 DEF C!Run
  <2>3. OnlyStageMoves(r)
    BY <2>1, <2>2, StageMoves DEF C!TypeOK
  <2>4. SameTitle[stageRuns[r].seed] \in Titles
    BY <1>1, CapsuleAssumptions
  <2>5. ASSUME NEW t \in Titles
        PROVE  C!Generated(t) \in C!Capsule
    BY DEF C!TypeOK, C!Capsule, C!Generated, C!Exists
  <2>6. capsules' \in [Titles -> C!Capsule] /\ used' \in [C!Seeds -> Nat]
    BY <1>1, <1>3, <2>4, <2>5 DEF C!TypeOK, C!WriteGenerated
  <2> QED
    BY <1>3, <2>3, <2>6 DEF C!TypeOK, C!WriteGenerated, C!logVars, OnlyStageMoves
<1>4. CASE C!GenerateFails(r)
  <2>1. OnlyStageMoves(r)
    BY <1>4, CapsuleIdle, StageMoves DEF C!TypeOK, C!GenerateFails
  <2>2. stageSpent' \in [trouble : 0..MaxTrouble, events : 0..MaxEvents]
    BY <1>4, CapsuleAssumptions DEF C!TypeOK, C!GenerateFails, C!InTrouble
  <2> QED
    BY <1>4, <2>1, <2>2 DEF C!TypeOK, C!GenerateFails, C!logVars, OnlyStageMoves
<1>5. CASE C!MarkSeed(r)
  <2>1. OnlyStageMoves(r)
    BY <1>5, CapsuleIdle, StageMoves DEF C!TypeOK, C!MarkSeed
  <2>2. stageSpent' \in [trouble : 0..MaxTrouble, events : 0..MaxEvents]
    BY <1>5, CapsuleAssumptions DEF C!TypeOK, C!MarkSeed, C!InTrouble
  <2>3. seeds' \in [C!Seeds -> BOOLEAN]
    BY <1>1, <1>5 DEF C!TypeOK, C!MarkSeed
  <2> QED
    BY <1>5, <2>1, <2>2, <2>3 DEF C!TypeOK, C!MarkSeed, C!logVars, OnlyStageMoves
<1> QED
  BY <1>2, <1>3, <1>4, <1>5 DEF C!StageE

LEMMA StageKType ==
    ASSUME C!TypeOK, NEW r \in Runs, C!StageK(r)
    PROVE  C!TypeOK' /\ OnlyStageMoves(r)
<1>1. stageRuns[r] \in C!Run /\ stageRuns[r].title \in Titles /\ \A t \in Titles : SameTopic[t] \in Topics
  BY CapsuleAssumptions DEF C!TypeOK, C!Run
<1>2. ASSUME NEW topic \in Topics, C!LogTopic(topic)
      PROVE  recent' \subseteq Topics /\ cycled' \subseteq Topics /\ cooling' \in BOOLEAN
  BY <1>2 DEF C!TypeOK, C!LogTopic
<1>3. CASE \E force \in BOOLEAN : C!StartResearch(r, force)
  <2>1. stageRuns' = [stageRuns EXCEPT ![r] = [stageRuns[r] EXCEPT
            !.step = "selecting", !.seen = recent, !.before = cycled \ recent]]
    BY <1>3 DEF C!StartResearch, C!TypeOK
  <2>2. [stageRuns[r] EXCEPT !.step = "selecting", !.seen = recent, !.before = cycled \ recent]
            \in C!Run
    BY <1>1 DEF C!Run, C!TypeOK
  <2>3. OnlyStageMoves(r)
    BY <2>1, <2>2, StageMoves DEF C!TypeOK
  <2> QED
    BY <1>3, <2>3 DEF C!TypeOK, C!StartResearch, C!logVars, OnlyStageMoves
<1>4. CASE \E t \in Titles, found \in BOOLEAN : C!Select(r, t, found)
  <2>1. PICK t \in Titles, found \in BOOLEAN : C!Select(r, t, found)
    BY <1>4
  <2>2. \/ stageRuns' = [stageRuns EXCEPT ![r] = C!Idle]
        \/ stageRuns' = [stageRuns EXCEPT ![r] = [stageRuns[r] EXCEPT
              !.step = "comparing", !.title = t, !.seen = {}, !.before = {}]]
    BY <2>1 DEF C!Select, C!TypeOK
  <2>3. [stageRuns[r] EXCEPT !.step = "comparing", !.title = t, !.seen = {}, !.before = {}] \in C!Run
    BY <1>1 DEF C!Run
  <2>4. OnlyStageMoves(r)
    BY <2>2, <2>3, CapsuleIdle, StageMoves DEF C!TypeOK
  <2>5. recent' \subseteq Topics /\ cycled' \subseteq Topics /\ cooling' \in BOOLEAN
    BY <1>1, <1>2, <2>1 DEF C!Select, C!TypeOK, C!logVars
  <2> QED
    BY <2>1, <2>4, <2>5 DEF C!TypeOK, C!Select, OnlyStageMoves
<1>5. CASE C!NoTopic(r) \/ C!ResearchFails(r)
  <2>1. OnlyStageMoves(r)
    BY <1>5, CapsuleIdle, StageMoves DEF C!TypeOK, C!NoTopic, C!ResearchFails
  <2>2. stageSpent' \in [trouble : 0..MaxTrouble, events : 0..MaxEvents]
    BY <1>5, CapsuleAssumptions DEF C!TypeOK, C!NoTopic, C!ResearchFails, C!InTrouble
  <2> QED
    BY <1>5, <2>1, <2>2 DEF C!TypeOK, C!NoTopic, C!ResearchFails, C!logVars, OnlyStageMoves
<1>6. ASSUME NEW answer, NEW t \in Titles, C!Compare(r, answer, t)
      PROVE  C!TypeOK' /\ OnlyStageMoves(r)
  <2>1. PICK title \in {t, stageRuns[r].title} :
           \/ \E topic \in {SameTopic[title], SameTopic[stageRuns[r].title]} :
                 C!LogTopic(topic) /\ stageRuns' = [stageRuns EXCEPT ![r] = C!Idle]
           \/ /\ UNCHANGED C!logVars
              /\ stageRuns' = [stageRuns EXCEPT ![r] = [stageRuns[r] EXCEPT
                    !.step = "researching", !.title = title]]
    BY <1>6 DEF C!Compare, C!TypeOK
  <2>2. title \in Titles /\ SameTopic[title] \in Topics /\ SameTopic[stageRuns[r].title] \in Topics
    BY <1>1, <2>1
  <2>3. [stageRuns[r] EXCEPT !.step = "researching", !.title = title] \in C!Run
    BY <1>1, <2>2 DEF C!Run
  <2>4. OnlyStageMoves(r)
    BY <2>1, <2>3, CapsuleIdle, StageMoves DEF C!TypeOK
  <2>5. recent' \subseteq Topics /\ cycled' \subseteq Topics /\ cooling' \in BOOLEAN
    BY <1>2, <2>1, <2>2 DEF C!TypeOK, C!logVars
  <2> QED
    BY <1>6, <2>4, <2>5 DEF C!TypeOK, C!Compare, OnlyStageMoves
<1>7. ASSUME NEW restricted \in BOOLEAN, C!Research(r, restricted)
      PROVE  C!TypeOK' /\ OnlyStageMoves(r)
  <2>1. stageRuns' = [stageRuns EXCEPT ![r] = [stageRuns[r] EXCEPT
            !.step = "judging", !.restricted = restricted]]
    BY <1>7 DEF C!Research, C!TypeOK
  <2>2. [stageRuns[r] EXCEPT !.step = "judging", !.restricted = restricted] \in C!Run
    BY <1>1 DEF C!Run
  <2>3. OnlyStageMoves(r)
    BY <2>1, <2>2, StageMoves DEF C!TypeOK
  <2> QED
    BY <1>7, <2>3 DEF C!TypeOK, C!Research, C!logVars, OnlyStageMoves
<1>8. ASSUME NEW judged \in BOOLEAN, NEW secret \in BOOLEAN, C!WriteResearched(r, judged, secret)
      PROVE  C!TypeOK' /\ OnlyStageMoves(r)
  <2>1. OnlyStageMoves(r)
    BY <1>8, CapsuleIdle, StageMoves DEF C!TypeOK, C!WriteResearched
  <2>2. C!MayPublish(stageRuns[r], judged, secret) \in BOOLEAN
    BY <1>1 DEF C!MayPublish, C!Run
  <2>3. ASSUME NEW t \in Titles, NEW published \in BOOLEAN
        PROVE  C!Researched(t, published) \in C!Capsule
    BY DEF C!TypeOK, C!Capsule, C!Researched, C!Exists
  <2>4. capsules' \in [Titles -> C!Capsule]
    BY <1>1, <1>8, <2>2, <2>3 DEF C!TypeOK, C!WriteResearched
  <2>5. recent' \subseteq Topics /\ cycled' \subseteq Topics /\ cooling' \in BOOLEAN
    BY <1>1, <1>2, <1>8 DEF C!WriteResearched
  <2> QED
    BY <1>8, <2>1, <2>4, <2>5 DEF C!TypeOK, C!WriteResearched, OnlyStageMoves
<1> QED
  BY <1>3, <1>4, <1>5, <1>6, <1>7, <1>8 DEF C!StageK

LEMMA CapsuleInitType == C!Init => C!TypeOK
<1>1. C!Absent \in C!Capsule
  BY DEF C!Absent, C!Capsule
<1> SUFFICES ASSUME C!Init PROVE C!TypeOK
  OBVIOUS
<1>2. capsules \in [Titles -> C!Capsule] /\ stageRuns \in [Runs -> C!Run]
  BY <1>1, CapsuleIdle DEF C!Init
<1>3. stageSpent \in [trouble : 0..MaxTrouble, events : 0..MaxEvents]
  BY CapsuleAssumptions DEF C!Init
<1> QED
  BY <1>2, <1>3 DEF C!Init, C!TypeOK

LEMMA OthersType ==
    ASSUME C!TypeOK,
           \/ C!Forget \/ C!Crash
           \/ \E t \in Titles : (\E human \in BOOLEAN : C!Approve(t, human)) \/ C!Retire(t)
    PROVE  C!TypeOK'
<1>1. CASE C!Forget
  BY <1>1 DEF C!Forget, C!TypeOK
<1>2. CASE C!Crash
  BY <1>2, CapsuleIdle, CapsuleAssumptions DEF C!Crash, C!InTrouble, C!TypeOK, C!logVars
<1>3. ASSUME NEW t \in Titles, (\E human \in BOOLEAN : C!Approve(t, human)) \/ C!Retire(t)
      PROVE  C!TypeOK'
  <2>1. capsules' \in [Titles -> C!Capsule]
    <3>1. /\ [capsules[t] EXCEPT !.published = TRUE] \in C!Capsule
          /\ [capsules[t] EXCEPT !.live = FALSE] \in C!Capsule
      BY DEF C!TypeOK, C!Capsule
    <3>2. \/ capsules' = [capsules EXCEPT ![t] = [capsules[t] EXCEPT !.published = TRUE]]
          \/ capsules' = [capsules EXCEPT ![t] = [capsules[t] EXCEPT !.live = FALSE]]
      BY <1>3 DEF C!Approve, C!Retire, C!TypeOK
    <3> QED
      BY <3>1, <3>2 DEF C!TypeOK
  <2>2. stageSpent' \in [trouble : 0..MaxTrouble, events : 0..MaxEvents]
    BY <1>3, CapsuleAssumptions DEF C!Approve, C!Retire, C!Outside, C!TypeOK
  <2> QED
    BY <1>3, <2>1, <2>2 DEF C!Approve, C!Retire, C!TypeOK, C!logVars
<1> QED
  BY <1>1, <1>2, <1>3

\* Of the live researched capsules on one topic, and the runs past the hard guard with one,
\* there are no more together than runs.
PastGuard == {"researching", "judging"}
ResearchedOn(topic) ==
    {t \in Titles : SameTopic[t] = topic /\ capsules[t].live /\ capsules[t].maker = "sagwan-research"}
RacingOn(topic) ==
    {r \in Runs : stageRuns[r].step \in PastGuard /\ SameTopic[stageRuns[r].title] = topic}

RacesCounted ==
    \A topic \in Topics :
        /\ IsFiniteSet(ResearchedOn(topic))
        /\ Cardinality(ResearchedOn(topic)) + Cardinality(RacingOn(topic)) <= Cardinality(Runs)

\* A seed without its mark was used by runs that are about to mark it or that had trouble; a
\* marked one is only used by runs that took it before.
GeneratingFrom(s) == {r \in Runs : stageRuns[r].step = "generating" /\ stageRuns[r].seed = s}
Marking(s) == {r \in Runs : stageRuns[r].step = "marking" /\ stageRuns[r].seed = s}
Troubled(trouble) == trouble * Cardinality(Runs)

SeedsCounted ==
    \A s \in C!Seeds :
        /\ ~seeds[s] => used[s] <= Troubled(stageSpent.trouble) + Cardinality(Marking(s))
        /\ seeds[s] => used[s] + Cardinality(GeneratingFrom(s))
                          <= Troubled(stageSpent.trouble) + Cardinality(Runs)

CapsuleInv == C!TypeOK /\ RacesCounted /\ SeedsCounted

LEMMA TroubledFacts ==
    ASSUME NEW trouble \in Nat
    PROVE  /\ Troubled(trouble) \in Nat
           /\ Troubled(trouble + 1) = Troubled(trouble) + Cardinality(Runs)
<1>1. ASSUME NEW n \in Nat PROVE trouble * n \in Nat /\ (trouble + 1) * n = trouble * n + n
  OBVIOUS
<1> QED
  BY <1>1, RunsFinite DEF Troubled

LEMMA RunSets ==
    ASSUME NEW X, X \subseteq Runs
    PROVE  IsFiniteSet(X) /\ Cardinality(X) \in Nat /\ Cardinality(X) <= Cardinality(Runs)
  BY RunsFinite, Fewer

\* Steps after which no more capsules are researched and no more runs are past the guard.
LEMMA RacesStay ==
    ASSUME CapsuleInv,
           \A t \in Titles : capsules'[t].live /\ capsules'[t].maker = "sagwan-research" =>
               capsules[t].live /\ capsules[t].maker = "sagwan-research",
           \A q \in Runs : stageRuns'[q].step \in PastGuard =>
               stageRuns[q].step \in PastGuard /\ stageRuns'[q].title = stageRuns[q].title
    PROVE  RacesCounted'
<1> SUFFICES ASSUME NEW topic \in Topics
             PROVE  /\ IsFiniteSet(ResearchedOn(topic))'
                    /\ (Cardinality(ResearchedOn(topic)) + Cardinality(RacingOn(topic))
                          <= Cardinality(Runs))'
  BY DEF RacesCounted
<1>1. /\ IsFiniteSet(ResearchedOn(topic))
      /\ Cardinality(ResearchedOn(topic)) + Cardinality(RacingOn(topic)) <= Cardinality(Runs)
  BY DEF CapsuleInv, RacesCounted
<1>2. ResearchedOn(topic)' \subseteq ResearchedOn(topic)
  BY DEF ResearchedOn
<1>3. RacingOn(topic)' \subseteq RacingOn(topic) /\ RacingOn(topic) \subseteq Runs
  BY DEF RacingOn
<1>4. /\ IsFiniteSet(ResearchedOn(topic)')
      /\ Cardinality(ResearchedOn(topic)) \in Nat /\ Cardinality(ResearchedOn(topic)') \in Nat
      /\ Cardinality(ResearchedOn(topic)') <= Cardinality(ResearchedOn(topic))
  BY <1>1, <1>2, Fewer
<1>5. /\ Cardinality(RacingOn(topic)) \in Nat /\ Cardinality(RacingOn(topic)') \in Nat
      /\ Cardinality(RacingOn(topic)') <= Cardinality(RacingOn(topic))
  BY <1>3, RunSets, Fewer
<1> QED
  BY <1>1, <1>4, <1>5, RunsFinite

\* Steps that leave marks and uses alone, let no run take a marked seed, and end the
\* marking of none but at the price of trouble.
LEMMA SeedsStay ==
    ASSUME CapsuleInv, seeds' = seeds, used' = used,
           \A q \in Runs : stageRuns'[q].step = "generating" /\ seeds[stageRuns'[q].seed] =>
               stageRuns[q].step = "generating" /\ stageRuns'[q].seed = stageRuns[q].seed,
           \/ stageSpent'.trouble = stageSpent.trouble + 1
           \/ /\ stageSpent'.trouble = stageSpent.trouble
              /\ \A q \in Runs : stageRuns[q].step = "marking" =>
                     stageRuns'[q].step = "marking" /\ stageRuns'[q].seed = stageRuns[q].seed
    PROVE  SeedsCounted'
<1> SUFFICES ASSUME NEW s \in C!Seeds
             PROVE  /\ ~seeds[s] => used[s] <= Troubled(stageSpent'.trouble) + Cardinality(Marking(s)')
                    /\ seeds[s] => used[s] + Cardinality(GeneratingFrom(s)')
                                      <= Troubled(stageSpent'.trouble) + Cardinality(Runs)
  BY DEF SeedsCounted
<1>1. stageSpent.trouble \in Nat /\ used[s] \in Nat
  BY CapsuleAssumptions DEF CapsuleInv, C!TypeOK
<1>2. /\ Troubled(stageSpent.trouble) \in Nat /\ Troubled(stageSpent'.trouble) \in Nat
      /\ \/ Troubled(stageSpent'.trouble) = Troubled(stageSpent.trouble) + Cardinality(Runs)
         \/ stageSpent'.trouble = stageSpent.trouble
  BY <1>1, TroubledFacts
<1>3. /\ Marking(s) \subseteq Runs /\ Marking(s)' \subseteq Runs
      /\ GeneratingFrom(s) \subseteq Runs /\ GeneratingFrom(s)' \subseteq Runs
  BY DEF Marking, GeneratingFrom
<1>4. /\ Cardinality(Marking(s)) \in Nat /\ Cardinality(Marking(s)) <= Cardinality(Runs)
      /\ Cardinality(Marking(s)') \in Nat
      /\ Cardinality(GeneratingFrom(s)) \in Nat /\ Cardinality(GeneratingFrom(s)') \in Nat
  BY <1>3, RunSets
<1>5. CASE ~seeds[s]
  <2>1. used[s] <= Troubled(stageSpent.trouble) + Cardinality(Marking(s))
    BY <1>5 DEF CapsuleInv, SeedsCounted
  <2>2. CASE Troubled(stageSpent'.trouble) = Troubled(stageSpent.trouble) + Cardinality(Runs)
    BY <1>1, <1>2, <1>4, <1>5, <2>1, <2>2, RunsFinite
  <2>3. CASE stageSpent'.trouble = stageSpent.trouble
    <3>1. Marking(s) \subseteq Marking(s)'
      BY <1>1, <2>3 DEF Marking
    <3>2. Cardinality(Marking(s)) <= Cardinality(Marking(s)')
      BY <1>3, <3>1, RunSets, Fewer
    <3> QED
      BY <1>1, <1>2, <1>4, <1>5, <2>1, <2>3, <3>2
  <2> QED
    BY <1>2, <2>2, <2>3
<1>6. CASE seeds[s]
  <2>1. used[s] + Cardinality(GeneratingFrom(s)) <= Troubled(stageSpent.trouble) + Cardinality(Runs)
    BY <1>6 DEF CapsuleInv, SeedsCounted
  <2>2. GeneratingFrom(s)' \subseteq GeneratingFrom(s)
    BY <1>6 DEF GeneratingFrom
  <2>3. Cardinality(GeneratingFrom(s)') <= Cardinality(GeneratingFrom(s))
    BY <1>3, <2>2, RunSets, Fewer
  <2> QED
    BY <1>1, <1>2, <1>4, <1>6, <2>1, <2>3, RunsFinite
<1> QED
  BY <1>5, <1>6

\* Stage E: a capsule that is generated is no researched one, and the uses of the seed move
\* along with the run.
LEMMA StageERaces ==
    ASSUME CapsuleInv, NEW r \in Runs, C!StageE(r)
    PROVE  RacesCounted'
<1>1. C!TypeOK /\ C!TypeOK' /\ OnlyStageMoves(r)
  BY StageEType DEF CapsuleInv
<1>2. stageRuns'[r].step \notin PastGuard
  <2>1. CASE \E s \in C!Seeds : C!Generate(r, s)
    <3>1. stageRuns'[r].step = "generating"
      BY <1>1, <2>1 DEF C!Generate, C!TypeOK, C!Run
    <3> QED
      BY <3>1 DEF PastGuard
  <2>2. CASE C!WriteGenerated(r)
    BY <2>2 DEF C!WriteGenerated, C!TypeOK, PastGuard, C!Run
  <2>3. CASE C!GenerateFails(r) \/ C!MarkSeed(r)
    BY <1>1, <2>3, CapsuleIdle DEF C!GenerateFails, C!MarkSeed, C!TypeOK, PastGuard
  <2> QED
    BY <2>1, <2>2, <2>3 DEF C!StageE
<1>3. ASSUME NEW t \in Titles
      PROVE  capsules'[t].live /\ capsules'[t].maker = "sagwan-research" =>
                 capsules[t].live /\ capsules[t].maker = "sagwan-research"
  <2>1. CASE C!WriteGenerated(r)
    <3>1. C!Generated(t).maker = "sagwan"
      BY <1>1 DEF C!Generated, C!TypeOK, C!Capsule
    <3>2. capsules'[t] = capsules[t] \/ capsules'[t] = C!Generated(t)
      BY <1>1, <2>1 DEF C!WriteGenerated, C!TypeOK
    <3> QED
      BY <3>1, <3>2
  <2>2. CASE ~C!WriteGenerated(r)
    <3>1. capsules' = capsules
      BY <2>2 DEF C!StageE, C!Generate, C!GenerateFails, C!MarkSeed
    <3> QED
      BY <3>1
  <2> QED
    BY <2>1, <2>2
<1>4. ASSUME NEW q \in Runs, stageRuns'[q].step \in PastGuard
      PROVE  stageRuns[q].step \in PastGuard /\ stageRuns'[q].title = stageRuns[q].title
  <2>1. q # r
    BY <1>2, <1>4
  <2>2. stageRuns'[q] = stageRuns[q]
    BY <1>1, <2>1 DEF OnlyStageMoves
  <2> QED
    BY <1>4, <2>2
<1> QED
  BY <1>3, <1>4, RacesStay

\* The uses of the run's seed when the capsule is written.
LEMMA UseCounted ==
    ASSUME CapsuleInv, NEW r \in Runs, C!WriteGenerated(r)
    PROVE  SeedsCounted'
<1>1. C!TypeOK /\ OnlyStageMoves(r) /\ stageRuns[r] \in C!Run
  BY StageEType DEF CapsuleInv, C!StageE, C!TypeOK
<1>2. /\ stageRuns[r].step = "generating" /\ stageRuns'[r].step = "marking"
      /\ stageRuns'[r].seed = stageRuns[r].seed /\ stageRuns[r].seed \in C!Seeds
  BY <1>1 DEF C!WriteGenerated, C!TypeOK, C!Run
<1>3. /\ seeds' = seeds /\ stageSpent' = stageSpent
      /\ used' = [used EXCEPT ![stageRuns[r].seed] = @ + 1]
  BY DEF C!WriteGenerated
<1>4. stageSpent.trouble \in Nat /\ Troubled(stageSpent.trouble) \in Nat
  BY <1>1, CapsuleAssumptions, TroubledFacts DEF C!TypeOK
<1> SUFFICES ASSUME NEW s \in C!Seeds
             PROVE  /\ ~seeds[s] => used'[s] <= Troubled(stageSpent.trouble) + Cardinality(Marking(s)')
                    /\ seeds[s] => used'[s] + Cardinality(GeneratingFrom(s)')
                                      <= Troubled(stageSpent.trouble) + Cardinality(Runs)
  BY <1>3 DEF SeedsCounted
<1>5. /\ ~seeds[s] => used[s] <= Troubled(stageSpent.trouble) + Cardinality(Marking(s))
      /\ seeds[s] => used[s] + Cardinality(GeneratingFrom(s))
                        <= Troubled(stageSpent.trouble) + Cardinality(Runs)
      /\ used[s] \in Nat
  BY <1>1 DEF CapsuleInv, SeedsCounted, C!TypeOK
<1>6. /\ Marking(s) \subseteq Runs /\ Marking(s)' \subseteq Runs
      /\ GeneratingFrom(s) \subseteq Runs /\ GeneratingFrom(s)' \subseteq Runs
  BY DEF Marking, GeneratingFrom
<1>7. /\ Cardinality(Marking(s)) \in Nat /\ Cardinality(Marking(s)') \in Nat
      /\ Cardinality(GeneratingFrom(s)) \in Nat /\ Cardinality(GeneratingFrom(s)') \in Nat
      /\ IsFiniteSet(Marking(s)') /\ IsFiniteSet(GeneratingFrom(s))
  BY <1>6, RunSets
<1>8. CASE s = stageRuns[r].seed
  <2>1. used'[s] = used[s] + 1
    BY <1>1, <1>3, <1>8 DEF C!TypeOK
  <2>2. r \in Marking(s)' /\ Marking(s) \subseteq Marking(s)' \ {r}
    BY <1>1, <1>2, <1>8 DEF Marking, OnlyStageMoves
  <2>3. r \in GeneratingFrom(s) /\ GeneratingFrom(s)' \subseteq GeneratingFrom(s) \ {r}
    BY <1>1, <1>2, <1>8 DEF GeneratingFrom, OnlyStageMoves
  <2>4. Cardinality(Marking(s)) + 1 <= Cardinality(Marking(s)')
    BY <1>7, <2>2, OneFewer
  <2>5. Cardinality(GeneratingFrom(s)') + 1 <= Cardinality(GeneratingFrom(s))
    BY <1>7, <2>3, OneFewer
  <2> QED
    BY <1>4, <1>5, <1>7, <2>1, <2>4, <2>5, RunsFinite
<1>9. CASE s # stageRuns[r].seed
  <2>1. used'[s] = used[s]
    BY <1>1, <1>3, <1>9 DEF C!TypeOK
  <2>2. Marking(s)' = Marking(s) /\ GeneratingFrom(s)' = GeneratingFrom(s)
    BY <1>1, <1>2, <1>9 DEF Marking, GeneratingFrom, OnlyStageMoves
  <2> QED
    BY <1>5, <2>1, <2>2
<1> QED
  BY <1>8, <1>9

\* A mark that is written: of the runs that took the seed, some are marking it, and the
\* others are the last that can use it.
LEMMA MarkCounted ==
    ASSUME CapsuleInv, NEW r \in Runs, C!MarkSeed(r), stageSpent' = stageSpent,
           seeds' = [seeds EXCEPT ![stageRuns[r].seed] = TRUE]
    PROVE  SeedsCounted'
<1>1. C!TypeOK /\ OnlyStageMoves(r) /\ stageRuns[r] \in C!Run
  BY StageEType DEF CapsuleInv, C!StageE, C!TypeOK
<1>2. /\ stageRuns[r].step = "marking" /\ stageRuns'[r] = C!Idle
      /\ stageRuns[r].seed \in C!Seeds /\ used' = used
  BY <1>1 DEF C!MarkSeed, C!TypeOK, C!Run
<1>3. stageSpent.trouble \in Nat /\ Troubled(stageSpent.trouble) \in Nat
  BY <1>1, CapsuleAssumptions, TroubledFacts DEF C!TypeOK
<1> SUFFICES ASSUME NEW s \in C!Seeds
             PROVE  /\ ~seeds'[s] => used[s] <= Troubled(stageSpent.trouble) + Cardinality(Marking(s)')
                    /\ seeds'[s] => used[s] + Cardinality(GeneratingFrom(s)')
                                      <= Troubled(stageSpent.trouble) + Cardinality(Runs)
  BY <1>2 DEF SeedsCounted
<1>4. /\ ~seeds[s] => used[s] <= Troubled(stageSpent.trouble) + Cardinality(Marking(s))
      /\ seeds[s] => used[s] + Cardinality(GeneratingFrom(s))
                        <= Troubled(stageSpent.trouble) + Cardinality(Runs)
      /\ used[s] \in Nat
  BY <1>1 DEF CapsuleInv, SeedsCounted, C!TypeOK
<1>5. GeneratingFrom(s)' = GeneratingFrom(s)
  BY <1>1, <1>2, CapsuleIdle DEF GeneratingFrom, OnlyStageMoves
<1>6. CASE s # stageRuns[r].seed
  <2>1. seeds'[s] = seeds[s] /\ Marking(s)' = Marking(s)
    BY <1>1, <1>2, <1>6, CapsuleIdle DEF C!TypeOK, Marking, OnlyStageMoves
  <2> QED
    BY <1>4, <1>5, <2>1
<1>7. CASE s = stageRuns[r].seed
  <2>1. seeds'[s]
    BY <1>1, <1>7 DEF C!TypeOK
  <2>2. /\ Marking(s) \subseteq Runs /\ GeneratingFrom(s) \subseteq Runs
        /\ Marking(s) \cup GeneratingFrom(s) \subseteq Runs
        /\ Marking(s) \cap GeneratingFrom(s) = {}
    BY DEF Marking, GeneratingFrom
  <2>3. /\ Cardinality(Marking(s)) \in Nat /\ Cardinality(GeneratingFrom(s)) \in Nat
        /\ IsFiniteSet(Marking(s)) /\ IsFiniteSet(GeneratingFrom(s))
        /\ Cardinality(Marking(s) \cup GeneratingFrom(s)) <= Cardinality(Runs)
    BY <2>2, RunSets
  <2>4. Cardinality(Marking(s) \cup GeneratingFrom(s))
           = Cardinality(Marking(s)) + Cardinality(GeneratingFrom(s))
    <3>1. Cardinality(Marking(s) \cap GeneratingFrom(s)) = 0
      BY <2>2, FS_EmptySet
    <3>2. Cardinality(Marking(s) \cup GeneratingFrom(s))
             = Cardinality(Marking(s)) + Cardinality(GeneratingFrom(s))
                 - Cardinality(Marking(s) \cap GeneratingFrom(s))
      BY <2>3, FS_Union
    <3> QED
      BY <2>3, <3>1, <3>2
  <2> QED
    BY <1>3, <1>4, <1>5, <2>1, <2>3, <2>4, RunsFinite
<1> QED
  BY <1>6, <1>7

LEMMA StageESeeds ==
    ASSUME CapsuleInv, NEW r \in Runs, C!StageE(r)
    PROVE  SeedsCounted'
<1>1. C!TypeOK /\ OnlyStageMoves(r)
  BY StageEType DEF CapsuleInv
<1>2. CASE \E s \in C!Seeds : C!Generate(r, s)
  <2>1. PICK s \in C!Seeds : C!Generate(r, s)
    BY <1>2
  <2>2. /\ ~seeds[s] /\ stageRuns'[r].seed = s /\ stageRuns[r] = C!Idle
        /\ seeds' = seeds /\ used' = used /\ stageSpent' = stageSpent
    BY <1>1, <2>1 DEF C!Generate, C!NextSeed, C!TypeOK, C!Run
  <2>3. ASSUME NEW q \in Runs
        PROVE  /\ stageRuns'[q].step = "generating" /\ seeds[stageRuns'[q].seed] =>
                      stageRuns[q].step = "generating" /\ stageRuns'[q].seed = stageRuns[q].seed
               /\ stageRuns[q].step = "marking" =>
                      stageRuns'[q].step = "marking" /\ stageRuns'[q].seed = stageRuns[q].seed
    BY <1>1, <2>2, CapsuleIdle DEF OnlyStageMoves
  <2> QED
    BY <2>2, <2>3, SeedsStay
<1>3. CASE C!WriteGenerated(r)
  BY <1>3, UseCounted
<1>4. CASE C!GenerateFails(r) \/ (C!MarkSeed(r) /\ C!InTrouble /\ UNCHANGED seeds)
  <2>1. /\ stageRuns'[r] = C!Idle /\ seeds' = seeds /\ used' = used
        /\ stageSpent'.trouble = stageSpent.trouble + 1
    BY <1>1, <1>4 DEF C!GenerateFails, C!MarkSeed, C!InTrouble, C!TypeOK
  <2>2. ASSUME NEW q \in Runs, stageRuns'[q].step = "generating"
        PROVE  stageRuns[q].step = "generating" /\ stageRuns'[q].seed = stageRuns[q].seed
    BY <1>1, <2>1, <2>2, CapsuleIdle DEF OnlyStageMoves
  <2> QED
    BY <2>1, <2>2, SeedsStay
<1>5. CASE C!MarkSeed(r) /\ ~(C!InTrouble /\ UNCHANGED seeds)
  BY <1>5, MarkCounted DEF C!MarkSeed
<1> QED
  BY <1>2, <1>3, <1>4, <1>5 DEF C!StageE

\* Stage K uses no seed.
LEMMA StageKSeeds ==
    ASSUME CapsuleInv, NEW r \in Runs, C!StageK(r)
    PROVE  SeedsCounted'
<1>1. C!TypeOK /\ OnlyStageMoves(r) /\ C!TypeOK'
  BY StageKType DEF CapsuleInv
<1>2. /\ seeds' = seeds /\ used' = used
      /\ stageSpent' = stageSpent \/ stageSpent'.trouble = stageSpent.trouble + 1
  BY <1>1 DEF C!StageK, C!StartResearch, C!Select, C!NoTopic, C!Compare, C!Research,
              C!ResearchFails, C!WriteResearched, C!InTrouble, C!TypeOK
<1>3. stageRuns[r].step # "marking"
  BY CapsuleIdle DEF C!StageK, C!StartResearch, C!Select, C!NoTopic, C!Compare, C!Research,
              C!ResearchFails, C!WriteResearched
<1>4. stageRuns'[r].step # "generating"
  <2>1. stageRuns'[r].step \in {"idle", "selecting", "comparing", "researching", "judging"}
    <3>1. CASE \E force \in BOOLEAN : C!StartResearch(r, force)
      BY <1>1, <3>1 DEF C!StartResearch, C!TypeOK, C!Run
    <3>2. CASE \E t \in Titles, found \in BOOLEAN : C!Select(r, t, found)
      BY <1>1, <3>2, CapsuleIdle DEF C!Select, C!TypeOK, C!Run
    <3>3. CASE C!NoTopic(r) \/ C!ResearchFails(r)
      BY <1>1, <3>3, CapsuleIdle DEF C!NoTopic, C!ResearchFails, C!TypeOK
    <3>4. ASSUME NEW answer, NEW t \in Titles, C!Compare(r, answer, t)
          PROVE  stageRuns'[r].step \in {"idle", "researching"}
      BY <1>1, <3>4, CapsuleIdle DEF C!Compare, C!TypeOK, C!Run
    <3>5. CASE \E restricted \in BOOLEAN : C!Research(r, restricted)
      BY <1>1, <3>5 DEF C!Research, C!TypeOK, C!Run
    <3>6. CASE \E judged, secret \in BOOLEAN : C!WriteResearched(r, judged, secret)
      BY <1>1, <3>6, CapsuleIdle DEF C!WriteResearched, C!TypeOK
    <3> QED
      BY <3>1, <3>2, <3>3, <3>4, <3>5, <3>6 DEF C!StageK
  <2> QED
    BY <2>1
<1>5. ASSUME NEW q \in Runs
      PROVE  /\ stageRuns'[q].step = "generating" =>
                    stageRuns[q].step = "generating" /\ stageRuns'[q].seed = stageRuns[q].seed
             /\ stageRuns[q].step = "marking" =>
                    stageRuns'[q].step = "marking" /\ stageRuns'[q].seed = stageRuns[q].seed
  BY <1>1, <1>3, <1>4 DEF OnlyStageMoves
<1> QED
  BY <1>2, <1>5, SeedsStay

\* A run that passes the hard guard found no live capsule on its topic.
LEMMA PassageCounted ==
    ASSUME CapsuleInv, NEW r \in Runs, OnlyStageMoves(r), capsules' = capsules,
           ~C!HardDuplicate(SameTopic[stageRuns'[r].title])
    PROVE  RacesCounted'
<1> SUFFICES ASSUME NEW topic \in Topics
             PROVE  /\ IsFiniteSet(ResearchedOn(topic))
                    /\ Cardinality(ResearchedOn(topic)) + Cardinality(RacingOn(topic)')
                          <= Cardinality(Runs)
  BY DEF RacesCounted, ResearchedOn
<1>1. /\ IsFiniteSet(ResearchedOn(topic)) /\ Cardinality(ResearchedOn(topic)) \in Nat
      /\ Cardinality(ResearchedOn(topic)) + Cardinality(RacingOn(topic)) <= Cardinality(Runs)
  BY FS_CardinalityType DEF CapsuleInv, RacesCounted
<1>2. RacingOn(topic)' \subseteq Runs /\ RacingOn(topic) \subseteq Runs
  BY DEF RacingOn
<1>3. /\ Cardinality(RacingOn(topic)') \in Nat /\ Cardinality(RacingOn(topic)) \in Nat
      /\ Cardinality(RacingOn(topic)') <= Cardinality(Runs)
  BY <1>2, RunSets
<1>4. CASE SameTopic[stageRuns'[r].title] = topic
  <2>1. ResearchedOn(topic) = {}
    BY <1>4 DEF ResearchedOn, C!HardDuplicate, C!Covered, C!Live
  <2> QED
    BY <1>1, <1>3, <2>1, FS_EmptySet, RunsFinite
<1>5. CASE SameTopic[stageRuns'[r].title] # topic
  <2>1. RacingOn(topic)' \subseteq RacingOn(topic)
    BY <1>5 DEF RacingOn, OnlyStageMoves
  <2>2. Cardinality(RacingOn(topic)') <= Cardinality(RacingOn(topic))
    BY <1>2, <2>1, RunSets, Fewer
  <2> QED
    BY <1>1, <1>3, <2>2, RunsFinite
<1> QED
  BY <1>4, <1>5

\* A capsule that is written takes the place of its run.
LEMMA ResearchCounted ==
    ASSUME CapsuleInv, NEW r \in Runs, NEW judged \in BOOLEAN, NEW secret \in BOOLEAN,
           C!WriteResearched(r, judged, secret)
    PROVE  RacesCounted'
<1>1. C!TypeOK /\ OnlyStageMoves(r) /\ stageRuns[r] \in C!Run
  BY StageKType DEF CapsuleInv, C!StageK, C!TypeOK
<1>2. /\ stageRuns[r].step = "judging" /\ stageRuns'[r] = C!Idle
      /\ \A t \in Titles \ {stageRuns[r].title} : capsules'[t] = capsules[t]
  BY <1>1 DEF C!WriteResearched, C!TypeOK
<1> SUFFICES ASSUME NEW topic \in Topics
             PROVE  /\ IsFiniteSet(ResearchedOn(topic))'
                    /\ (Cardinality(ResearchedOn(topic)) + Cardinality(RacingOn(topic))
                          <= Cardinality(Runs))'
  BY DEF RacesCounted
<1>3. /\ IsFiniteSet(ResearchedOn(topic)) /\ Cardinality(ResearchedOn(topic)) \in Nat
      /\ Cardinality(ResearchedOn(topic)) + Cardinality(RacingOn(topic)) <= Cardinality(Runs)
  BY FS_CardinalityType DEF CapsuleInv, RacesCounted
<1>4. RacingOn(topic)' \subseteq Runs /\ RacingOn(topic) \subseteq Runs
  BY DEF RacingOn
<1>5. /\ Cardinality(RacingOn(topic)') \in Nat /\ Cardinality(RacingOn(topic)) \in Nat
      /\ IsFiniteSet(RacingOn(topic))
  BY <1>4, RunSets
<1>6. CASE SameTopic[stageRuns[r].title] = topic
  <2>1. ResearchedOn(topic)' \subseteq ResearchedOn(topic) \cup {stageRuns[r].title}
    BY <1>2 DEF ResearchedOn
  <2>2. r \in RacingOn(topic) /\ RacingOn(topic)' \subseteq RacingOn(topic) \ {r}
    BY <1>1, <1>2, <1>6, CapsuleIdle DEF RacingOn, PastGuard, OnlyStageMoves
  <2>3. /\ IsFiniteSet(ResearchedOn(topic)') /\ Cardinality(ResearchedOn(topic)') \in Nat
        /\ Cardinality(ResearchedOn(topic)') <= Cardinality(ResearchedOn(topic)) + 1
    BY <1>3, <2>1, OneMore
  <2>4. Cardinality(RacingOn(topic)') + 1 <= Cardinality(RacingOn(topic))
    BY <1>5, <2>2, OneFewer
  <2> QED
    BY <1>3, <1>5, <2>3, <2>4, RunsFinite
<1>7. CASE SameTopic[stageRuns[r].title] # topic
  <2>1. ResearchedOn(topic)' = ResearchedOn(topic)
    BY <1>2, <1>7 DEF ResearchedOn
  <2>2. RacingOn(topic)' \subseteq RacingOn(topic)
    BY <1>1, <1>2, CapsuleIdle DEF RacingOn, PastGuard, OnlyStageMoves
  <2>3. Cardinality(RacingOn(topic)') <= Cardinality(RacingOn(topic))
    BY <1>5, <2>2, Fewer
  <2> QED
    BY <1>3, <1>5, <2>1, <2>3, RunsFinite
<1> QED
  BY <1>6, <1>7

LEMMA StageKRaces ==
    ASSUME CapsuleInv, NEW r \in Runs, C!StageK(r)
    PROVE  RacesCounted'
<1>1. C!TypeOK /\ OnlyStageMoves(r) /\ stageRuns[r] \in C!Run
  BY StageKType DEF CapsuleInv, C!TypeOK
<1>2. ASSUME capsules' = capsules,
             stageRuns'[r].step \in PastGuard =>
                 stageRuns[r].step \in PastGuard /\ stageRuns'[r].title = stageRuns[r].title
      PROVE  RacesCounted'
  <2>1. ASSUME NEW q \in Runs, stageRuns'[q].step \in PastGuard
        PROVE  stageRuns[q].step \in PastGuard /\ stageRuns'[q].title = stageRuns[q].title
    BY <1>1, <1>2, <2>1 DEF OnlyStageMoves
  <2> QED
    BY <1>2, <2>1, RacesStay
<1>3. CASE \E force \in BOOLEAN : C!StartResearch(r, force)
  <2>1. capsules' = capsules /\ stageRuns'[r].step = "selecting"
    BY <1>1, <1>3 DEF C!StartResearch, C!TypeOK, C!Run
  <2> QED
    BY <1>2, <2>1 DEF PastGuard
<1>4. CASE \E t \in Titles, found \in BOOLEAN : C!Select(r, t, found)
  <2>1. capsules' = capsules /\ stageRuns'[r].step \in {"idle", "comparing"}
    BY <1>1, <1>4, CapsuleIdle DEF C!Select, C!TypeOK, C!Run
  <2> QED
    BY <1>2, <2>1 DEF PastGuard
<1>5. CASE C!NoTopic(r) \/ C!ResearchFails(r)
  <2>1. capsules' = capsules /\ stageRuns'[r].step = "idle"
    BY <1>1, <1>5, CapsuleIdle DEF C!NoTopic, C!ResearchFails, C!TypeOK
  <2> QED
    BY <1>2, <2>1 DEF PastGuard
<1>6. ASSUME NEW answer, NEW t \in Titles, C!Compare(r, answer, t)
      PROVE  RacesCounted'
  <2>1. capsules' = capsules
    BY <1>6 DEF C!Compare
  <2>2. \/ stageRuns'[r].step = "idle"
        \/ ~C!HardDuplicate(SameTopic[stageRuns'[r].title])
    BY <1>1, <1>6, CapsuleIdle DEF C!Compare, C!TypeOK, C!Run
  <2>3. CASE stageRuns'[r].step = "idle"
    BY <1>2, <2>1, <2>3 DEF PastGuard
  <2>4. CASE ~C!HardDuplicate(SameTopic[stageRuns'[r].title])
    BY <1>1, <2>1, <2>4, PassageCounted
  <2> QED
    BY <2>2, <2>3, <2>4
<1>7. CASE \E restricted \in BOOLEAN : C!Research(r, restricted)
  <2>1. /\ capsules' = capsules
        /\ stageRuns[r].step = "researching" /\ stageRuns'[r].title = stageRuns[r].title
    BY <1>1, <1>7 DEF C!Research, C!TypeOK, C!Run
  <2> QED
    BY <1>2, <2>1 DEF PastGuard
<1>8. CASE \E judged, secret \in BOOLEAN : C!WriteResearched(r, judged, secret)
  BY <1>8, ResearchCounted
<1> QED
  BY <1>3, <1>4, <1>5, <1>6, <1>7, <1>8 DEF C!StageK

\* What happens from outside retires capsules and ends runs, but makes neither.
LEMMA OthersKeep ==
    ASSUME CapsuleInv,
           \/ C!Forget \/ C!Crash \/ UNCHANGED capsuleVars
           \/ \E t \in Titles : (\E human \in BOOLEAN : C!Approve(t, human)) \/ C!Retire(t)
    PROVE  RacesCounted' /\ SeedsCounted'
<1>1. C!TypeOK /\ seeds' = seeds /\ used' = used
  BY DEF CapsuleInv, C!Forget, C!Crash, C!Approve, C!Retire, capsuleVars
<1>2. \A t \in Titles : capsules'[t].live /\ capsules'[t].maker = "sagwan-research" =>
               capsules[t].live /\ capsules[t].maker = "sagwan-research"
  <2>1. CASE capsules' = capsules
    BY <2>1
  <2>2. ASSUME NEW t \in Titles, (\E human \in BOOLEAN : C!Approve(t, human)) \/ C!Retire(t)
        PROVE  \A u \in Titles : /\ capsules'[u].live => capsules[u].live
                                 /\ capsules'[u].maker = capsules[u].maker
    <3>1. \/ capsules' = [capsules EXCEPT ![t] = [capsules[t] EXCEPT !.published = TRUE]]
          \/ capsules' = [capsules EXCEPT ![t] = [capsules[t] EXCEPT !.live = FALSE]]
      BY <1>1, <2>2 DEF C!Approve, C!Retire, C!TypeOK
    <3> QED
      BY <1>1, <3>1 DEF C!TypeOK, C!Capsule
  <2> QED
    BY <2>1, <2>2 DEF C!Forget, C!Crash, capsuleVars
<1>3. CASE C!Crash
  <2>1. /\ \A q \in Runs : stageRuns'[q] = C!Idle
        /\ stageSpent'.trouble = stageSpent.trouble + 1
    BY <1>1, <1>3 DEF C!Crash, C!InTrouble, C!TypeOK
  <2>2. \A q \in Runs : stageRuns'[q].step \notin PastGuard /\ stageRuns'[q].step # "generating"
    BY <2>1, CapsuleIdle DEF PastGuard
  <2> QED
    BY <1>1, <1>2, <2>1, <2>2, RacesStay, SeedsStay
<1>4. CASE ~C!Crash
  <2>1. stageRuns' = stageRuns /\ stageSpent'.trouble = stageSpent.trouble
    BY <1>1, <1>4 DEF C!Forget, C!Approve, C!Retire, C!Outside, C!TypeOK, capsuleVars
  <2> QED
    BY <1>1, <1>2, <2>1, RacesStay, SeedsStay
<1> QED
  BY <1>3, <1>4

LEMMA CapsuleInitHolds == C!Init => CapsuleInv
<1> SUFFICES ASSUME C!Init PROVE CapsuleInv
  OBVIOUS
<1>1. C!TypeOK
  BY CapsuleInitType
<1>2. RacesCounted
  <2> SUFFICES ASSUME NEW topic \in Topics
               PROVE  /\ IsFiniteSet(ResearchedOn(topic))
                      /\ Cardinality(ResearchedOn(topic)) + Cardinality(RacingOn(topic))
                            <= Cardinality(Runs)
    BY DEF RacesCounted
  <2>1. ResearchedOn(topic) = {} /\ RacingOn(topic) = {}
    BY CapsuleIdle DEF C!Init, C!Absent, ResearchedOn, RacingOn, PastGuard
  <2> QED
    BY <2>1, FS_EmptySet, RunsFinite
<1>3. SeedsCounted
  <2> SUFFICES ASSUME NEW s \in C!Seeds
               PROVE  used[s] <= Troubled(stageSpent.trouble) + Cardinality(Marking(s)) /\ ~seeds[s]
    BY DEF SeedsCounted
  <2>1. used[s] = 0 /\ ~seeds[s] /\ stageSpent.trouble = 0
    BY DEF C!Init
  <2>2. Cardinality(Marking(s)) \in Nat /\ Troubled(stageSpent.trouble) \in Nat
    <3>1. Marking(s) \subseteq Runs
      BY DEF Marking
    <3> QED
      BY <2>1, <3>1, RunSets, TroubledFacts
  <2> QED
    BY <2>1, <2>2
<1> QED
  BY <1>1, <1>2, <1>3 DEF CapsuleInv

LEMMA CapsuleNextKeeps == CapsuleInv /\ [VaultNext]_vaultVars => CapsuleInv'
<1> SUFFICES ASSUME CapsuleInv, [VaultNext]_vaultVars PROVE CapsuleInv'
  OBVIOUS
<1>1. C!TypeOK
  BY DEF CapsuleInv
<1>2. ASSUME NEW r \in Runs, C!StageE(r)
      PROVE  CapsuleInv'
  BY <1>1, <1>2, StageEType, StageERaces, StageESeeds DEF CapsuleInv
<1>3. ASSUME NEW r \in Runs, C!StageK(r)
      PROVE  CapsuleInv'
  BY <1>1, <1>3, StageKType, StageKRaces, StageKSeeds DEF CapsuleInv
<1>4. CASE \/ C!Forget \/ C!Crash
           \/ \E t \in Titles : (\E human \in BOOLEAN : C!Approve(t, human)) \/ C!Retire(t)
  BY <1>1, <1>4, OthersType, OthersKeep DEF CapsuleInv
<1>5. CASE UNCHANGED capsuleVars
  <2>1. C!TypeOK'
    BY <1>1, <1>5 DEF C!TypeOK, capsuleVars
  <2> QED
    BY <1>5, <2>1, OthersKeep DEF CapsuleInv
<1> QED
  BY <1>2, <1>3, <1>4, <1>5, CapsuleSteps DEF C!Next

LEMMA CapsuleInvariant == VaultSpec => []CapsuleInv
<1>1. VaultInit => CapsuleInv
  BY CapsuleInitHolds DEF VaultInit
<1> QED
  BY <1>1, CapsuleNextKeeps, PTL DEF VaultSpec

\* The guards against duplicates, which look before an LLM is asked and write after, keep
\* away all but runs side by side: live researched capsules on one topic and lessons on
\* one topic are never more than runs, and a seed is used no more often than there are
\* runs, but for runs that had trouble (sagwan_loop.py, stages E and K and the miners).
THEOREM DuplicatesOnlyRaced == VaultSpec => []DuplicatesOnlyByRace
<1>1. CapsuleInv => C!DuplicatesOnlyByRace
  <2> SUFFICES ASSUME CapsuleInv, NEW topic \in Topics
               PROVE  C!Cardinality({t \in Titles : /\ SameTopic[t] = topic /\ capsules[t].live
                                                    /\ capsules[t].maker = "sagwan-research"})
                         <= C!Cardinality(Runs)
    BY DEF C!DuplicatesOnlyByRace
  <2>1. /\ IsFiniteSet(ResearchedOn(topic)) /\ Cardinality(ResearchedOn(topic)) \in Nat
        /\ Cardinality(ResearchedOn(topic)) + Cardinality(RacingOn(topic)) <= Cardinality(Runs)
    BY FS_CardinalityType DEF CapsuleInv, RacesCounted
  <2>2. Cardinality(RacingOn(topic)) \in Nat
    <3>1. RacingOn(topic) \subseteq Runs
      BY DEF RacingOn
    <3> QED
      BY <3>1, RunSets
  <2>3. Cardinality(ResearchedOn(topic)) <= Cardinality(Runs)
    BY <2>1, <2>2, RunsFinite
  <2> QED
    BY <2>3, CountsAlike DEF ResearchedOn
<1>2. CapsuleInv => C!SeedUsedSparingly
  <2> SUFFICES ASSUME CapsuleInv, NEW s \in C!Seeds
               PROVE  used[s] <= C!Cardinality(Runs) + stageSpent.trouble * C!Cardinality(Runs)
    BY DEF C!SeedUsedSparingly
  <2>1. stageSpent.trouble \in Nat /\ used[s] \in Nat /\ Troubled(stageSpent.trouble) \in Nat
    BY CapsuleAssumptions, TroubledFacts DEF CapsuleInv, C!TypeOK
  <2>2. /\ Cardinality(Marking(s)) \in Nat /\ Cardinality(Marking(s)) <= Cardinality(Runs)
        /\ Cardinality(GeneratingFrom(s)) \in Nat
    <3>1. Marking(s) \subseteq Runs /\ GeneratingFrom(s) \subseteq Runs
      BY DEF Marking, GeneratingFrom
    <3> QED
      BY <3>1, RunSets
  <2>3. used[s] <= Cardinality(Runs) + Troubled(stageSpent.trouble)
    BY <2>1, <2>2, RunsFinite DEF CapsuleInv, SeedsCounted
  <2> QED
    BY <2>3, CountsAlike DEF Troubled
<1>3. LogInv => G!LessonsDistinct
  <2> SUFFICES ASSUME LogInv, NEW topic \in Topics
               PROVE  G!Cardinality({t \in lessons : SameTopic[t] = topic}) <= G!Cardinality(Runs)
    BY DEF G!LessonsDistinct
  <2>1. /\ IsFiniteSet(LessonsOn(topic)) /\ Cardinality(LessonsOn(topic)) \in Nat
        /\ Cardinality(LessonsOn(topic)) + Cardinality(PassedWith(topic)) <= Cardinality(Runs)
    BY FS_CardinalityType DEF LogInv, LessonsCounted
  <2>2. Cardinality(PassedWith(topic)) \in Nat
    <3>1. PassedWith(topic) \subseteq Runs
      BY DEF PassedWith
    <3> QED
      BY <3>1, RunSets
  <2>3. Cardinality(LessonsOn(topic)) <= Cardinality(Runs)
    BY <2>1, <2>2, RunsFinite
  <2> QED
    BY <2>3, CountsAlike DEF LessonsOn
<1>4. CapsuleInv /\ LogInv => DuplicatesOnlyByRace
  BY <1>1, <1>2, <1>3 DEF DuplicatesOnlyByRace
<1> QED
  BY <1>4, CapsuleInvariant, LogInvariant, PTL

-----------------------------------------------------------------------------
(* Votes and reviews *)

Trusts == {"unreviewed", "confirmed", "disputed", "superseded"}
Counts == [R!Stances -> Nat]
Meta == [confirmed : Seq(Voters), disputed : Seq(Voters), trust : Trusts,
         counts : Counts, revision : Nat]
Held == [pc : {"idle", "vote", "recount", "scan", "counts", "check", "mark"}, copy : Meta,
         list : R!Lists, counts : Counts, read : SUBSET Nat]
Review == [by : R!Writers, stance : R!Stances, lifecycle : {"active", "consolidated"}]

\* A list of votes names each of some voters at most once.
OneVoice(votes, voters) == R!IsInjective(votes) /\ R!ToSet(votes) \subseteq voters

\* Counts that as many voices and reviews bear out.
Backed(counts, said, n) ==
    \A l \in R!Lists : counts[R!StanceOf(l)] <= Cardinality(said[l]) + n

\* A copy of the note, with the votes of which one may not be written yet.
Sound(meta, said, n, c, more) ==
    /\ \A l \in R!Lists : OneVoice(meta[l], said[l] \cup more[l])
    /\ Backed(meta.counts, said, n)
    /\ meta.revision <= c

\* The vote that j is about to write.
Own(job, j) == [l \in R!Lists |-> IF job.pc = "vote" /\ l = job.list THEN {j} ELSE {}]
NoMore == [l \in R!Lists |-> {}]

\* What j holds stays sound while others write: its copy, also a revision that is to come,
\* and the counts on the way.
HoldsSound(job, j, said, n, c) ==
    /\ Sound(job.copy, said, n, c, Own(job, j))
    /\ job.pc = "vote" => j \in Voters
    /\ job.pc = "mark" => job.copy.revision < c
    /\ job.pc = "scan" => Backed(job.counts, said, 0)
    /\ job.pc = "counts" => Backed(job.counts, said, n)

VotesTyped ==
    /\ note \in Meta
    /\ reviews \in Seq(Review)
    /\ reviewJobs \in [R!Jobs -> Held]
    /\ voices \in [R!Lists -> SUBSET Voters]
    /\ \A l \in R!Lists : IsFiniteSet(voices[l])
    /\ calls \in 0..MaxCalls

VotesSound ==
    /\ Sound(note, voices, Len(reviews), calls, NoMore)
    /\ \A j \in R!Jobs : HoldsSound(reviewJobs[j], j, voices, Len(reviews), calls)

VotesInv == VotesTyped /\ VotesSound

\* Voices, reviews and calls only become more: what was sound stays sound.
Grown(said, n, c, said2, n2, c2) ==
    /\ \A l \in R!Lists : said[l] \subseteq said2[l] /\ IsFiniteSet(said2[l])
    /\ n \in Nat /\ n2 \in Nat /\ n <= n2
    /\ c \in Nat /\ c2 \in Nat /\ c <= c2

LEMMA ListsAndStances ==
    /\ \A l \in R!Lists : R!StanceOf(l) \in R!Stances
    /\ "confirmed" \in R!Lists /\ "disputed" \in R!Lists
    /\ \A l \in R!Lists : l = "confirmed" \/ l = "disputed"
    /\ \A l \in R!Lists, meta \in Meta : meta[l] \in Seq(Voters)
  BY DEF R!Lists, R!StanceOf, R!Stances, Meta

LEMMA BackedStays ==
    ASSUME NEW said, NEW n, NEW c, NEW said2, NEW n2, NEW c2, Grown(said, n, c, said2, n2, c2),
           NEW counts \in Counts, Backed(counts, said, n)
    PROVE  Backed(counts, said2, n2)
<1> SUFFICES ASSUME NEW l \in R!Lists
             PROVE  counts[R!StanceOf(l)] <= Cardinality(said2[l]) + n2
  BY DEF Backed
<1>1. /\ Cardinality(said2[l]) \in Nat /\ Cardinality(said[l]) \in Nat
      /\ Cardinality(said[l]) <= Cardinality(said2[l])
  BY Fewer DEF Grown
<1>2. counts[R!StanceOf(l)] \in Nat
  BY ListsAndStances DEF Counts
<1>3. counts[R!StanceOf(l)] <= Cardinality(said[l]) + n
  BY DEF Backed
<1> QED
  BY <1>1, <1>2, <1>3 DEF Grown

LEMMA SoundStays ==
    ASSUME NEW said, NEW n, NEW c, NEW said2, NEW n2, NEW c2, Grown(said, n, c, said2, n2, c2),
           NEW meta \in Meta, NEW more, Sound(meta, said, n, c, more)
    PROVE  Sound(meta, said2, n2, c2, more)
<1>1. \A l \in R!Lists : OneVoice(meta[l], said2[l] \cup more[l])
  BY DEF Sound, OneVoice, Grown
<1>2. Backed(meta.counts, said2, n2)
  BY BackedStays DEF Sound, Meta
<1>3. meta.revision <= c2
  BY DEF Sound, Meta, Grown
<1> QED
  BY <1>1, <1>2, <1>3 DEF Sound

LEMMA HoldsStays ==
    ASSUME NEW said, NEW n, NEW c, NEW said2, NEW n2, NEW c2, Grown(said, n, c, said2, n2, c2),
           NEW job \in Held, NEW j, HoldsSound(job, j, said, n, c)
    PROVE  HoldsSound(job, j, said2, n2, c2)
<1>1. job.copy \in Meta /\ job.counts \in Counts
  BY DEF Held
<1>2. Sound(job.copy, said2, n2, c2, Own(job, j))
  BY <1>1, SoundStays DEF HoldsSound
<1>3. job.pc = "mark" => job.copy.revision < c2
  BY <1>1 DEF HoldsSound, Meta, Grown
<1>4. job.pc = "scan" => Backed(job.counts, said2, 0)
  <2>1. Grown(said, 0, c, said2, 0, c2)
    BY DEF Grown
  <2> QED
    BY <1>1, <2>1, BackedStays DEF HoldsSound
<1>5. job.pc = "counts" => Backed(job.counts, said2, n2)
  BY <1>1, BackedStays DEF HoldsSound
<1>6. job.pc = "vote" => j \in Voters
  BY DEF HoldsSound
<1> QED
  BY <1>2, <1>3, <1>4, <1>5, <1>6 DEF HoldsSound

\* A step in which at most j's job changes.
LEMMA OneVoterKeeps ==
    ASSUME VotesInv, NEW j \in R!Jobs, NEW job \in Held,
           reviewJobs' = [reviewJobs EXCEPT ![j] = job],
           note' \in Meta, reviews' \in Seq(Review),
           voices' \in [R!Lists -> SUBSET Voters], calls' \in 0..MaxCalls,
           Grown(voices, Len(reviews), calls, voices', Len(reviews'), calls'),
           Sound(note', voices', Len(reviews'), calls', NoMore),
           HoldsSound(job, j, voices', Len(reviews'), calls')
    PROVE  VotesInv'
<1>1. VotesTyped'
  BY DEF VotesInv, VotesTyped, Grown
<1>2. ASSUME NEW k \in R!Jobs
      PROVE  HoldsSound(reviewJobs'[k], k, voices', Len(reviews'), calls')
  <2>1. CASE k = j
    BY <2>1 DEF VotesInv, VotesTyped
  <2>2. CASE k # j
    <3>1. reviewJobs'[k] = reviewJobs[k] /\ reviewJobs[k] \in Held
      BY <2>2 DEF VotesInv, VotesTyped
    <3>2. HoldsSound(reviewJobs[k], k, voices, Len(reviews), calls)
      BY DEF VotesInv, VotesSound
    <3> QED
      BY <3>1, <3>2, HoldsStays
  <2> QED
    BY <2>1, <2>2
<1> QED
  BY <1>1, <1>2 DEF VotesInv, VotesSound

LEMMA VoteBounds == {MIN, MaxReviews, MaxCalls} \subseteq Nat \ {0}
  BY VaultBounds DEF R!Bounds

LEMMA NothingGrows ==
    ASSUME VotesInv
    PROVE  /\ Grown(voices, Len(reviews), calls, voices, Len(reviews), calls)
           /\ Len(reviews) \in Nat /\ calls \in Nat
           /\ calls < MaxCalls => /\ calls + 1 \in 0..MaxCalls
                                  /\ Grown(voices, Len(reviews), calls, voices, Len(reviews), calls + 1)
  BY VoteBounds DEF VotesInv, VotesTyped, Grown

LEMMA BlankSound ==
    /\ R!Blank \in Meta /\ R!NoCounts \in Counts
    /\ \A l \in R!Lists : R!Blank[l] = << >>
    /\ R!Blank.counts = R!NoCounts /\ R!Blank.revision = 0
    /\ R!Idle \in Held /\ R!Idle.pc = "idle" /\ R!Idle.copy = R!Blank
  BY DEF R!Blank, R!NoCounts, R!Idle, Meta, Counts, Held, Trusts, R!Lists

\* A blank copy is sound whatever was said.
LEMMA BlankStays ==
    ASSUME NEW said, \A l \in R!Lists : IsFiniteSet(said[l]), NEW n \in Nat, NEW c \in Nat, NEW more
    PROVE  Sound(R!Blank, said, n, c, more)
<1>1. \A l \in R!Lists : OneVoice(R!Blank[l], said[l] \cup more[l])
  BY BlankSound DEF OneVoice, R!IsInjective, R!ToSet
<1>2. Backed(R!Blank.counts, said, n)
  <2> SUFFICES ASSUME NEW l \in R!Lists
               PROVE  R!NoCounts[R!StanceOf(l)] <= Cardinality(said[l]) + n
    BY BlankSound DEF Backed
  <2>1. R!NoCounts[R!StanceOf(l)] = 0
    BY ListsAndStances DEF R!NoCounts
  <2> QED
    BY <2>1, FS_CardinalityType
<1>3. R!Blank.revision <= c
  BY BlankSound
<1> QED
  BY <1>1, <1>2, <1>3 DEF Sound

\* So is a job that holds nothing: idle, or about to recount.
LEMMA EmptyHanded ==
    ASSUME NEW said, \A l \in R!Lists : IsFiniteSet(said[l]), NEW n \in Nat, NEW c \in Nat, NEW j,
           NEW pc \in {"idle", "recount"}
    PROVE  /\ [R!Idle EXCEPT !.pc = pc] \in Held
           /\ HoldsSound([R!Idle EXCEPT !.pc = pc], j, said, n, c)
           /\ R!Idle = [R!Idle EXCEPT !.pc = "idle"]
<1> DEFINE job == [R!Idle EXCEPT !.pc = pc]
<1>1. job \in Held /\ job.pc = pc /\ job.copy = R!Blank
  BY BlankSound DEF Held, R!Idle
<1>2. HoldsSound(job, j, said, n, c)
  BY <1>1, BlankStays DEF HoldsSound
<1> QED
  BY <1>1, <1>2 DEF R!Idle

LEMMA IdleHolds ==
    ASSUME NEW said, \A l \in R!Lists : IsFiniteSet(said[l]), NEW n \in Nat, NEW c \in Nat, NEW j
    PROVE  HoldsSound(R!Idle, j, said, n, c)
  BY BlankSound, BlankStays DEF HoldsSound

LEMMA VotesInitHolds == R!Init => VotesInv
<1> SUFFICES ASSUME R!Init PROVE VotesInv
  OBVIOUS
<1>1. /\ note = R!Blank /\ reviews = << >> /\ calls = 0 /\ Len(reviews) = 0
      /\ \A l \in R!Lists : voices[l] = {} /\ IsFiniteSet(voices[l])
      /\ \A j \in R!Jobs : reviewJobs[j] = R!Idle
  BY FS_EmptySet DEF R!Init
<1>2. VotesTyped
  <2>1. reviewJobs \in [R!Jobs -> Held] /\ voices \in [R!Lists -> SUBSET Voters]
    BY BlankSound DEF R!Init
  <2> QED
    BY <1>1, <2>1, BlankSound, VoteBounds DEF VotesTyped
<1>3. VotesSound
  <2>1. \A j \in R!Jobs : HoldsSound(R!Idle, j, voices, Len(reviews), calls)
    BY <1>1, IdleHolds
  <2> QED
    BY <1>1, <2>1, BlankStays DEF VotesSound
<1> QED
  BY <1>2, <1>3 DEF VotesInv

\* What the invariant says, in short.
LEMMA VotesSay ==
    ASSUME VotesInv
    PROVE  /\ note \in Meta /\ reviews \in Seq(Review) /\ reviewJobs \in [R!Jobs -> Held]
           /\ voices \in [R!Lists -> SUBSET Voters] /\ calls \in 0..MaxCalls
           /\ \A l \in R!Lists : IsFiniteSet(voices[l])
           /\ Sound(note, voices, Len(reviews), calls, NoMore)
           /\ \A j \in R!Jobs : HoldsSound(reviewJobs[j], j, voices, Len(reviews), calls)
           /\ "stage" \in R!Jobs /\ "worker" \in R!Jobs /\ Voters \subseteq R!Jobs
  BY DEF VotesInv, VotesTyped, VotesSound, R!Jobs

LEMMA VoteAdded ==
    ASSUME NEW votes \in Seq(Voters), NEW said, OneVoice(votes, said),
           NEW c \in Voters, ~R!Contains(votes, c)
    PROVE  Append(votes, c) \in Seq(Voters) /\ OneVoice(Append(votes, c), said \cup {c})
<1> DEFINE more == Append(votes, c)
<1>1. /\ more \in Seq(Voters) /\ Len(votes) \in Nat /\ DOMAIN votes = 1..Len(votes)
      /\ DOMAIN more = 1..(Len(votes) + 1)
      /\ more[Len(votes) + 1] = c
      /\ \A i \in 1..Len(votes) : more[i] = votes[i] /\ votes[i] # c
  BY DEF R!Contains
<1> HIDE DEF more
<1>2. R!IsInjective(more)
  <2> SUFFICES ASSUME NEW a \in DOMAIN more, NEW b \in DOMAIN more, more[a] = more[b]
               PROVE  a = b
    BY DEF R!IsInjective
  <2> QED
    BY <1>1 DEF OneVoice, R!IsInjective
<1>3. R!ToSet(more) \subseteq said \cup {c}
  BY <1>1 DEF OneVoice, R!ToSet
<1> QED
  BY <1>1, <1>2, <1>3 DEF OneVoice, more

LEMMA VoteKeeps ==
    ASSUME VotesInv, NEW c \in Voters, NEW list \in R!Lists, R!Vote(c, list)
    PROVE  VotesInv'
<1> DEFINE trust == IF list = "disputed" /\ note.trust # "superseded" THEN "disputed" ELSE note.trust
           copy == [note EXCEPT ![list] = Append(note[list], c), !.trust = trust]
           job == [R!Idle EXCEPT !.pc = "vote", !.list = list, !.copy = copy]
<1>1. /\ calls < MaxCalls /\ calls' = calls + 1 /\ ~R!Contains(note[list], c)
      /\ reviewJobs' = [reviewJobs EXCEPT ![c] = job]
      /\ UNCHANGED <<note, reviews, voices>>
  BY ListsAndStances, VotesSay DEF R!Vote, R!Call, R!MayVote, R!Lists, Meta
<1>2. note[list] \in Seq(Voters) /\ OneVoice(note[list], voices[list])
  BY VotesSay, ListsAndStances DEF Sound, NoMore
<1>3. Append(note[list], c) \in Seq(Voters) /\ OneVoice(Append(note[list], c), voices[list] \cup {c})
  BY <1>1, <1>2, VoteAdded
<1>4. /\ copy \in Meta /\ copy[list] = Append(note[list], c)
      /\ \A l \in R!Lists : l # list => copy[l] = note[l]
      /\ copy.counts = note.counts /\ copy.revision = note.revision
  <2>1. trust \in Trusts
    BY VotesSay DEF Meta, Trusts
  <2> DEFINE votes == Append(note[list], c)
  <2>2. votes \in Seq(Voters) /\ note \in Meta
    BY <1>3, VotesSay
  <2>3. CASE list = "confirmed"
    <3>1. copy = [note EXCEPT !.confirmed = votes, !.trust = trust]
      BY <2>3, Zenon DEF votes
    <3> HIDE DEF trust, votes, copy
    <3>2. /\ copy \in Meta /\ copy.confirmed = votes
          /\ \A l \in R!Lists : l # "confirmed" => copy[l] = note[l]
          /\ copy.counts = note.counts /\ copy.revision = note.revision
      BY <2>1, <2>2, <3>1 DEF Meta, R!Lists
    <3> QED
      BY <2>3, <3>2, Zenon DEF votes
  <2>4. CASE list = "disputed"
    <3>1. copy = [note EXCEPT !.disputed = votes, !.trust = trust]
      BY <2>4, Zenon DEF votes
    <3> HIDE DEF trust, votes, copy
    <3>2. /\ copy \in Meta /\ copy.disputed = votes
          /\ \A l \in R!Lists : l # "disputed" => copy[l] = note[l]
          /\ copy.counts = note.counts /\ copy.revision = note.revision
      BY <2>1, <2>2, <3>1 DEF Meta, R!Lists
    <3> QED
      BY <2>4, <3>2, Zenon DEF votes
  <2>5. list = "confirmed" \/ list = "disputed"
    BY ListsAndStances
  <2> QED
    BY <2>3, <2>4, <2>5, Zenon
<1> HIDE DEF copy
<1>5. job \in Held /\ job.pc = "vote" /\ job.list = list /\ job.copy = copy
  BY <1>4, BlankSound DEF Held, R!Idle
<1> HIDE DEF job
<1>6. Sound(copy, voices, Len(reviews), calls, Own(job, c))
  <2>1. ASSUME NEW l \in R!Lists PROVE OneVoice(copy[l], voices[l] \cup Own(job, c)[l])
    <3>1. CASE l = list
      BY <1>3, <1>4, <1>5, <3>1 DEF Own
    <3>2. CASE l # list
      BY <1>4, <1>5, <3>2, VotesSay DEF Own, Sound, NoMore
    <3> QED
      BY <3>1, <3>2
  <2> QED
    BY <1>4, <2>1, VotesSay DEF Sound
<1>7. HoldsSound(job, c, voices, Len(reviews), calls)
  BY <1>5, <1>6 DEF HoldsSound
<1>8. /\ Grown(voices, Len(reviews), calls, voices, Len(reviews), calls + 1)
      /\ calls + 1 \in 0..MaxCalls
  BY <1>1, NothingGrows
<1>9. /\ HoldsSound(job, c, voices, Len(reviews), calls + 1)
      /\ Sound(note, voices, Len(reviews), calls + 1, NoMore)
  BY <1>5, <1>7, <1>8, HoldsStays, SoundStays, VotesSay
<1> QED
  BY <1>1, <1>5, <1>8, <1>9, VotesSay, OneVoterKeeps

LEMMA WriteVoteKeeps ==
    ASSUME VotesInv, NEW c \in Voters, R!WriteVote(c)
    PROVE  VotesInv'
<1> DEFINE held == reviewJobs[c]
           job == [R!Idle EXCEPT !.pc = "recount"]
<1>1. /\ held.pc = "vote" /\ note' = held.copy
      /\ voices' = [voices EXCEPT ![held.list] = @ \cup {c}]
      /\ reviewJobs' = [reviewJobs EXCEPT ![c] = job]
      /\ UNCHANGED <<reviews, calls>>
  BY DEF R!WriteVote
<1>2. /\ held \in Held /\ held.copy \in Meta /\ held.list \in R!Lists
      /\ Sound(held.copy, voices, Len(reviews), calls, Own(held, c))
  BY VotesSay DEF Held, HoldsSound
<1>3. /\ \A l \in R!Lists : voices'[l] = voices[l] \cup Own(held, c)[l]
      /\ \A l \in R!Lists : IsFiniteSet(voices'[l])
      /\ voices' \in [R!Lists -> SUBSET Voters]
  <2>1. IsFiniteSet(voices[held.list] \cup {c})
    BY <1>2, VotesSay, FS_AddElement
  <2> QED
    BY <1>1, <1>2, <2>1, VotesSay DEF Own
<1>4. Grown(voices, Len(reviews), calls, voices', Len(reviews), calls)
  BY <1>3, NothingGrows DEF Grown
<1>5. Sound(held.copy, voices', Len(reviews), calls, NoMore)
  <2>1. Sound(held.copy, voices', Len(reviews), calls, Own(held, c))
    BY <1>2, <1>4, SoundStays
  <2>2. \A l \in R!Lists : OneVoice(held.copy[l], voices'[l] \cup NoMore[l])
    BY <1>2, <1>3 DEF Sound, NoMore
  <2> QED
    BY <2>1, <2>2 DEF Sound
<1>6. job \in Held /\ HoldsSound(job, c, voices', Len(reviews), calls)
  BY <1>3, NothingGrows, EmptyHanded
<1> QED
  BY <1>1, <1>2, <1>3, <1>4, <1>5, <1>6, VotesSay, OneVoterKeeps

\* Nothing but j's job changes.
LEMMA OnlyJobKeeps ==
    ASSUME VotesInv, NEW j \in R!Jobs, NEW job \in Held,
           reviewJobs' = [reviewJobs EXCEPT ![j] = job],
           UNCHANGED <<note, reviews, voices, calls>>,
           HoldsSound(job, j, voices, Len(reviews), calls)
    PROVE  VotesInv'
  BY VotesSay, NothingGrows, OneVoterKeeps

LEMMA RecountKeeps ==
    ASSUME VotesInv, NEW j \in R!Jobs, R!Recount(j)
    PROVE  VotesInv'
<1> DEFINE held == reviewJobs[j]
<1>1. /\ held \in Held /\ held.copy \in Meta /\ held.counts \in Counts
      /\ HoldsSound(held, j, voices, Len(reviews), calls)
  BY VotesSay DEF Held
<1>2. CASE R!LoadParent(j)
  <2> DEFINE counted == [s \in R!Stances |-> IF s = "neutral" THEN 0
                              ELSE IF s = "support" THEN R!Effective(note.confirmed)
                              ELSE R!Effective(note.disputed)]
             job == [held EXCEPT !.pc = "scan", !.counts = counted]
  <2>1. ASSUME NEW l \in R!Lists
        PROVE  R!Effective(note[l]) \in Nat /\ R!Effective(note[l]) <= Cardinality(voices[l])
    <3>1. R!ToSet(note[l]) \subseteq voices[l] /\ IsFiniteSet(voices[l])
      BY VotesSay DEF Sound, OneVoice, NoMore
    <3>2. R!ToSet(note[l]) \ {R!Owner} \subseteq voices[l]
      BY <3>1
    <3> QED
      BY <3>1, <3>2, Fewer, CountsAlike DEF R!Effective
  <2>2. /\ R!Effective(note.confirmed) \in Nat /\ R!Effective(note.disputed) \in Nat
        /\ R!Effective(note.confirmed) <= Cardinality(voices["confirmed"])
        /\ R!Effective(note.disputed) <= Cardinality(voices["disputed"])
    BY <2>1, ListsAndStances
  <2>3. counted \in Counts /\ Backed(counted, voices, 0)
    <3>1. counted \in Counts
      BY <2>2 DEF Counts, R!Stances
    <3>2. ASSUME NEW l \in R!Lists
          PROVE  counted[R!StanceOf(l)] <= Cardinality(voices[l]) + 0
      <4>1. counted[R!StanceOf(l)] = R!Effective(note[l])
        BY DEF R!StanceOf, R!Stances, R!Lists
      <4>2. Cardinality(voices[l]) \in Nat
        BY VotesSay, FS_CardinalityType
      <4> QED
        BY <2>1, <4>1, <4>2
    <3> QED
      BY <3>1, <3>2 DEF Backed
  <2> HIDE DEF counted
  <2>4. reviewJobs' = [reviewJobs EXCEPT ![j] = job] /\ UNCHANGED <<note, reviews, voices, calls>>
    BY <1>2, VotesSay DEF R!LoadParent, counted
  <2>5. /\ job \in Held /\ job.pc = "scan" /\ job.counts = counted /\ job.copy = held.copy
    BY <1>1, <2>3 DEF Held
  <2>6. Own(job, j) = NoMore /\ held.pc = "recount" /\ Own(held, j) = NoMore
    BY <1>2, <2>5 DEF Own, NoMore, R!LoadParent
  <2> HIDE DEF job, held
  <2>7. HoldsSound(job, j, voices, Len(reviews), calls)
    BY <1>1, <2>3, <2>5, <2>6 DEF HoldsSound
  <2> QED
    BY <2>4, <2>5, <2>7, OnlyJobKeeps
<1>3. CASE R!ScanReviews(j)
  <2> DEFINE counted == [s \in R!Stances |-> held.counts[s] + R!Speaking(s)]
             job == [held EXCEPT !.pc = "counts", !.counts = counted]
  <2>1. ASSUME NEW s \in R!Stances
        PROVE  R!Speaking(s) \in Nat /\ R!Speaking(s) <= Len(reviews)
    <3> DEFINE voiced == {r \in R!Active : reviews[r].stance = s /\ reviews[r].by # R!Owner}
    <3>1. DOMAIN reviews = 1..Len(reviews) /\ Len(reviews) \in Nat
      BY VotesSay
    <3>2. voiced \subseteq 1..Len(reviews)
      BY <3>1 DEF R!Active
    <3>3. IsFiniteSet(1..Len(reviews)) /\ Cardinality(1..Len(reviews)) = Len(reviews)
      <4>1. 1 \in Int /\ Len(reviews) \in Int
        BY <3>1
      <4>2. /\ IsFiniteSet(1..Len(reviews))
            /\ Cardinality(1..Len(reviews)) = IF 1 > Len(reviews) THEN 0 ELSE Len(reviews) - 1 + 1
        BY <4>1, FS_Interval, Zenon
      <4> QED
        BY <3>1, <4>2
    <3>4. Cardinality(voiced) \in Nat /\ Cardinality(voiced) <= Len(reviews)
      BY <3>2, <3>3, Fewer
    <3> QED
      BY <3>4, CountsAlike DEF R!Speaking
  <2>2. held.pc = "scan" /\ Backed(held.counts, voices, 0)
    BY <1>1, <1>3 DEF R!ScanReviews, HoldsSound
  <2>3. counted \in Counts /\ Backed(counted, voices, Len(reviews))
    <3>1. counted \in Counts
      BY <1>1, <2>1 DEF Counts
    <3>2. ASSUME NEW l \in R!Lists
          PROVE  counted[R!StanceOf(l)] <= Cardinality(voices[l]) + Len(reviews)
      <4>1. /\ R!StanceOf(l) \in R!Stances /\ held.counts[R!StanceOf(l)] \in Nat
            /\ counted[R!StanceOf(l)] = held.counts[R!StanceOf(l)] + R!Speaking(R!StanceOf(l))
        BY <1>1, ListsAndStances DEF Counts
      <4>2. /\ Cardinality(voices[l]) \in Nat
            /\ held.counts[R!StanceOf(l)] <= Cardinality(voices[l]) + 0
        BY <2>2, VotesSay, FS_CardinalityType DEF Backed
      <4>3. R!Speaking(R!StanceOf(l)) \in Nat /\ R!Speaking(R!StanceOf(l)) <= Len(reviews)
        BY <2>1, <4>1
      <4>4. Len(reviews) \in Nat
        BY NothingGrows
      <4> HIDE DEF counted, held
      <4> QED
        BY <4>1, <4>2, <4>3, <4>4
    <3> QED
      BY <3>1, <3>2 DEF Backed
  <2> HIDE DEF counted
  <2>4. reviewJobs' = [reviewJobs EXCEPT ![j] = job] /\ UNCHANGED <<note, reviews, voices, calls>>
    BY <1>3, VotesSay DEF R!ScanReviews, counted
  <2>5. /\ job \in Held /\ job.pc = "counts" /\ job.counts = counted /\ job.copy = held.copy
    BY <1>1, <2>3 DEF Held
  <2>6. Own(job, j) = NoMore /\ Own(held, j) = NoMore
    BY <2>2, <2>5 DEF Own, NoMore
  <2> HIDE DEF job, held
  <2>7. HoldsSound(job, j, voices, Len(reviews), calls)
    BY <1>1, <2>3, <2>5, <2>6 DEF HoldsSound
  <2> QED
    BY <2>4, <2>5, <2>7, OnlyJobKeeps
<1>4. CASE R!WriteCounts(j)
  <2>1. /\ held.pc = "counts" /\ note' = [note EXCEPT !.counts = held.counts]
        /\ reviewJobs' = [reviewJobs EXCEPT ![j] = R!Idle]
        /\ UNCHANGED <<reviews, voices, calls>>
    BY <1>4 DEF R!WriteCounts
  <2>2. /\ note' \in Meta /\ note'.counts = held.counts /\ note'.revision = note.revision
        /\ \A l \in R!Lists : note'[l] = note[l]
    BY <1>1, <2>1, VotesSay DEF Meta, R!Lists
  <2>3. Sound(note', voices, Len(reviews), calls, NoMore)
    BY <1>1, <2>1, <2>2, VotesSay DEF Sound, HoldsSound
  <2>4. R!Idle \in Held /\ HoldsSound(R!Idle, j, voices, Len(reviews), calls)
    BY BlankSound, IdleHolds, VotesSay, NothingGrows
  <2> QED
    BY <2>1, <2>2, <2>3, <2>4, VotesSay, NothingGrows, OneVoterKeeps
<1> QED
  BY <1>2, <1>3, <1>4 DEF R!Recount

\* A review is written or changed by one who then recounts.
LEMMA ReviewKeeps ==
    ASSUME VotesInv, NEW j \in R!Jobs, R!Call, reviews' \in Seq(Review), Len(reviews) <= Len(reviews'),
           reviewJobs' = [reviewJobs EXCEPT ![j] = [R!Idle EXCEPT !.pc = "recount"]],
           UNCHANGED <<note, voices>>
    PROVE  VotesInv'
<1> DEFINE job == [R!Idle EXCEPT !.pc = "recount"]
<1>1. /\ calls' = calls + 1 /\ calls + 1 \in 0..MaxCalls /\ calls \in Nat /\ calls' \in Nat
      /\ Len(reviews) \in Nat /\ Len(reviews') \in Nat
      /\ \A l \in R!Lists : IsFiniteSet(voices[l]) /\ IsFiniteSet(voices'[l])
  BY VotesSay, NothingGrows DEF R!Call
<1>2. Grown(voices, Len(reviews), calls, voices', Len(reviews'), calls')
  BY <1>1 DEF Grown
<1>3. Sound(note, voices', Len(reviews'), calls', NoMore)
  BY <1>2, VotesSay, SoundStays
<1>4. job \in Held /\ HoldsSound(job, j, voices', Len(reviews'), calls')
  BY <1>1, EmptyHanded
<1> QED
  BY <1>1, <1>2, <1>3, <1>4, VotesSay, OneVoterKeeps

LEMMA ReviewChanged ==
    ASSUME VotesInv, NEW r \in DOMAIN reviews, NEW review \in Review,
           reviews' = [reviews EXCEPT ![r] = review]
    PROVE  reviews' \in Seq(Review) /\ Len(reviews') = Len(reviews)
  BY VotesSay

LEMMA ReviewAdded ==
    ASSUME VotesInv, NEW review \in Review, reviews' = Append(reviews, review)
    PROVE  reviews' \in Seq(Review) /\ Len(reviews) <= Len(reviews')
  BY VotesSay

LEMMA ReviewsKeep ==
    ASSUME VotesInv, \/ \E c \in Voters, s \in R!Stances : R!ReviewNote(c, s)
                     \/ \E c \in Voters, s \in R!Stances, r \in DOMAIN reviews : R!EditReview(c, r, s)
                     \/ R!PostInternalReview
    PROVE  VotesInv'
<1>1. ASSUME NEW c \in Voters, NEW s \in R!Stances, R!ReviewNote(c, s) PROVE VotesInv'
  <2> DEFINE review == [by |-> c, stance |-> s, lifecycle |-> "active"]
  <2>1. review \in Review
    BY DEF Review, R!Writers
  <2>2. reviews' = Append(reviews, review)
    BY <1>1 DEF R!ReviewNote, R!NewReview
  <2> HIDE DEF review
  <2>3. reviews' \in Seq(Review) /\ Len(reviews) <= Len(reviews')
    BY <2>1, <2>2, ReviewAdded
  <2> QED
    BY <1>1, <2>3, ReviewKeeps, VotesSay DEF R!ReviewNote
<1>2. ASSUME NEW c \in Voters, NEW s \in R!Stances, NEW r \in DOMAIN reviews, R!EditReview(c, r, s)
      PROVE  VotesInv'
  <2> DEFINE review == [reviews[r] EXCEPT !.stance = s]
  <2>1. reviews' = [reviews EXCEPT ![r] = review]
    BY <1>2 DEF R!EditReview
  <2>2. review \in Review
    <3>1. reviews[r] \in Review
      BY VotesSay
    <3> QED
      BY <3>1 DEF Review
  <2> HIDE DEF review
  <2>3. reviews' \in Seq(Review) /\ Len(reviews') = Len(reviews)
    BY <2>1, <2>2, ReviewChanged
  <2>4. Len(reviews) <= Len(reviews')
    BY <2>3, NothingGrows
  <2> QED
    BY <1>2, <2>3, <2>4, ReviewKeeps, VotesSay DEF R!EditReview
<1>3. ASSUME R!PostInternalReview PROVE VotesInv'
  <2> DEFINE own == {r \in R!Active : reviews[r].by = R!Sagwan}
  <2>1. /\ R!Call /\ UNCHANGED <<note, voices>>
        /\ reviewJobs' = [reviewJobs EXCEPT !["worker"] = [R!Idle EXCEPT !.pc = "recount"]]
    BY <1>3 DEF R!PostInternalReview
  <2>2. CASE own = {}
    <3> DEFINE review == [by |-> R!Sagwan, stance |-> "dispute", lifecycle |-> "active"]
    <3>1. review \in Review
      BY DEF Review, R!Writers, R!Stances
    <3>2. reviews' = Append(reviews, review)
      BY <1>3, <2>2 DEF R!PostInternalReview, R!NewReview
    <3> HIDE DEF review
    <3>3. reviews' \in Seq(Review) /\ Len(reviews) <= Len(reviews')
      BY <3>1, <3>2, ReviewAdded
    <3> QED
      BY <2>1, <3>3, ReviewKeeps, VotesSay
  <2>3. CASE own # {}
    <3>1. PICK r \in own : reviews' = [reviews EXCEPT ![r].stance = "dispute"]
      BY <1>3, <2>3 DEF R!PostInternalReview
    <3> DEFINE review == [reviews[r] EXCEPT !.stance = "dispute"]
    <3>2. r \in DOMAIN reviews
      BY DEF R!Active
    <3>3. review \in Review
      <4>1. reviews[r] \in Review
        BY <3>2, VotesSay
      <4> QED
        BY <4>1 DEF Review, R!Stances
    <3>4. reviews' = [reviews EXCEPT ![r] = review]
      BY <3>1
    <3> HIDE DEF review
    <3>5. reviews' \in Seq(Review) /\ Len(reviews') = Len(reviews)
      BY <3>2, <3>3, <3>4, ReviewChanged
    <3>6. Len(reviews) <= Len(reviews')
      BY <3>5, NothingGrows
    <3> QED
      BY <2>1, <3>5, <3>6, ReviewKeeps, VotesSay
  <2> QED
    BY <2>2, <2>3
<1> QED
  BY <1>1, <1>2, <1>3

\* Whoever takes the note along holds it as sound as it is.
LEMMA TakenAlong ==
    ASSUME VotesInv, calls < MaxCalls, NEW j, NEW job \in Held, job.copy = note,
           job.pc \in {"check", "mark"}
    PROVE  HoldsSound(job, j, voices, Len(reviews), calls + 1)
<1>1. Own(job, j) = NoMore
  BY DEF Own, NoMore
<1>2. Sound(note, voices, Len(reviews), calls + 1, NoMore)
  BY NothingGrows, VotesSay, SoundStays
<1>3. note.revision < calls + 1
  BY VotesSay DEF Sound, Meta
<1> QED
  BY <1>1, <1>2, <1>3 DEF HoldsSound

LEMMA CopiesKeep ==
    ASSUME VotesInv, R!CheckNote \/ R!RewriteAll \/ R!ReadReviews \/ R!NoVerdict
    PROVE  VotesInv'
<1>1. CASE R!CheckNote
  <2> DEFINE job == [R!Idle EXCEPT !.pc = "check", !.copy = note]
  <2>1. /\ calls < MaxCalls /\ calls' = calls + 1 /\ UNCHANGED <<note, reviews, voices>>
        /\ reviewJobs' = [reviewJobs EXCEPT !["worker"] = job]
    BY <1>1 DEF R!CheckNote, R!Call
  <2>2. job \in Held /\ job.copy = note /\ job.pc = "check"
    BY BlankSound, VotesSay DEF Held, R!Idle
  <2>3. HoldsSound(job, "worker", voices, Len(reviews), calls + 1)
    BY <2>1, <2>2, TakenAlong
  <2>4. Sound(note, voices, Len(reviews), calls + 1, NoMore)
    BY <2>1, NothingGrows, VotesSay, SoundStays
  <2> HIDE DEF job
  <2> QED
    BY <2>1, <2>2, <2>3, <2>4, NothingGrows, VotesSay, OneVoterKeeps
<1>2. CASE R!RewriteAll
  <2> DEFINE held == reviewJobs["worker"]
  <2>1. /\ held.pc = "check" /\ note' = held.copy /\ UNCHANGED <<reviews, voices, calls>>
        /\ reviewJobs' = [reviewJobs EXCEPT !["worker"] = R!Idle]
    BY <1>2 DEF R!RewriteAll
  <2>2. held \in Held /\ held.copy \in Meta /\ Own(held, "worker") = NoMore
    BY <2>1, VotesSay DEF Held, Own, NoMore
  <2>3. Sound(held.copy, voices, Len(reviews), calls, NoMore)
    BY <2>2, VotesSay DEF HoldsSound
  <2>4. R!Idle \in Held /\ HoldsSound(R!Idle, "worker", voices, Len(reviews), calls)
    BY BlankSound, IdleHolds, VotesSay, NothingGrows
  <2> QED
    BY <2>1, <2>2, <2>3, <2>4, NothingGrows, VotesSay, OneVoterKeeps
<1>3. CASE R!ReadReviews
  <2> DEFINE job == [R!Idle EXCEPT !.pc = "mark", !.copy = note, !.read = R!Active]
  <2>1. /\ calls < MaxCalls /\ calls' = calls + 1 /\ UNCHANGED <<note, reviews, voices>>
        /\ reviewJobs' = [reviewJobs EXCEPT !["stage"] = job]
    BY <1>3 DEF R!ReadReviews
  <2>2. job \in Held /\ job.copy = note /\ job.pc = "mark"
    <3>1. R!Active \in SUBSET Nat
      BY VotesSay DEF R!Active
    <3> QED
      BY <3>1, BlankSound, VotesSay DEF Held, R!Idle
  <2>3. HoldsSound(job, "stage", voices, Len(reviews), calls + 1)
    BY <2>1, <2>2, TakenAlong
  <2>4. Sound(note, voices, Len(reviews), calls + 1, NoMore)
    BY <2>1, NothingGrows, VotesSay, SoundStays
  <2> HIDE DEF job
  <2> QED
    BY <2>1, <2>2, <2>3, <2>4, NothingGrows, VotesSay, OneVoterKeeps
<1>4. CASE R!NoVerdict
  <2>1. R!Idle \in Held /\ HoldsSound(R!Idle, "stage", voices, Len(reviews), calls)
    BY BlankSound, IdleHolds, VotesSay, NothingGrows
  <2> QED
    BY <1>4, <2>1, VotesSay, OnlyJobKeeps DEF R!NoVerdict
<1> QED
  BY <1>1, <1>2, <1>3, <1>4

\* Marking reviews, and letting them count again, leaves as many as there are.
LEMMA MarksKeep ==
    ASSUME VotesInv, (\E r \in DOMAIN reviews : R!MarkReview(r)) \/ R!TooWeak
    PROVE  VotesInv'
<1> DEFINE held == reviewJobs["stage"]
<1>1. \A r \in DOMAIN reviews : reviews[r] \in Review
  BY VotesSay
<1>2. ASSUME reviews' \in Seq(Review), Len(reviews') = Len(reviews), NEW job \in Held,
             HoldsSound(job, "stage", voices, Len(reviews), calls),
             reviewJobs' = [reviewJobs EXCEPT !["stage"] = job], UNCHANGED <<note, voices, calls>>
      PROVE  VotesInv'
  BY <1>2, NothingGrows, VotesSay, OneVoterKeeps
<1>3. ASSUME NEW r \in DOMAIN reviews, R!MarkReview(r) PROVE VotesInv'
  <2> DEFINE review == [reviews[r] EXCEPT !.lifecycle = "consolidated"]
  <2>1. review \in Review
    BY <1>1 DEF Review
  <2>2. reviews' = [reviews EXCEPT ![r] = review] /\ UNCHANGED <<note, reviewJobs, voices, calls>>
    BY <1>3 DEF R!MarkReview
  <2> HIDE DEF review
  <2>3. reviews' \in Seq(Review) /\ Len(reviews') = Len(reviews)
    BY <2>1, <2>2, ReviewChanged
  <2>4. reviewJobs' = [reviewJobs EXCEPT !["stage"] = held]
    BY <2>2, VotesSay
  <2>5. held \in Held /\ HoldsSound(held, "stage", voices, Len(reviews), calls)
    BY VotesSay
  <2> HIDE DEF held
  <2> QED
    BY <1>2, <2>2, <2>3, <2>4, <2>5
<1>4. ASSUME R!TooWeak PROVE VotesInv'
  <2> DEFINE again(r) == IF r \in held.read THEN [reviews[r] EXCEPT !.lifecycle = "active"]
                         ELSE reviews[r]
  <2>1. /\ reviews' = [r \in DOMAIN reviews |-> again(r)]
        /\ reviewJobs' = [reviewJobs EXCEPT !["stage"] = R!Idle] /\ UNCHANGED <<note, voices, calls>>
    BY <1>4 DEF R!TooWeak
  <2>2. \A r \in DOMAIN reviews : again(r) \in Review
    BY <1>1 DEF Review
  <2> HIDE DEF again
  <2>3. DOMAIN reviews = 1..Len(reviews) /\ Len(reviews) \in Nat
    BY VotesSay
  <2>4. reviews' \in Seq(Review) /\ Len(reviews') = Len(reviews)
    BY <2>1, <2>2, <2>3
  <2>5. R!Idle \in Held /\ HoldsSound(R!Idle, "stage", voices, Len(reviews), calls)
    BY BlankSound, IdleHolds, VotesSay, NothingGrows
  <2> QED
    BY <1>2, <2>1, <2>4, <2>5
<1> QED
  BY <1>3, <1>4

LEMMA VerdictsKeep ==
    ASSUME VotesInv, R!Decide \/ R!ResolveConflict("confirmed")
    PROVE  VotesInv'
<1>1. CASE R!Decide
  <2> DEFINE held == reviewJobs["stage"]
             old == held.copy
             job == [R!Idle EXCEPT !.pc = "recount"]
  <2>1. /\ held.pc = "mark" /\ UNCHANGED <<reviews, voices, calls>>
        /\ reviewJobs' = [reviewJobs EXCEPT !["stage"] = job]
        /\ \/ note' = note
           \/ note' = [note EXCEPT !.trust = "superseded"]
           \/ note' = [old EXCEPT !.revision = old.revision + 1]
    BY <1>1 DEF R!Decide, R!Marked, R!Upheld, R!Superseded, R!Revised
  <2>2. job \in Held /\ HoldsSound(job, "stage", voices, Len(reviews), calls)
    BY EmptyHanded, VotesSay, NothingGrows
  <2>3. /\ held \in Held /\ old \in Meta /\ old.revision < calls
        /\ Sound(old, voices, Len(reviews), calls, NoMore)
    <3>1. held \in Held /\ Own(held, "stage") = NoMore
      BY <2>1, VotesSay DEF Own, NoMore
    <3> QED
      BY <2>1, <3>1, VotesSay DEF Held, HoldsSound
  <2>4. note' \in Meta /\ Sound(note', voices, Len(reviews), calls, NoMore)
    <3>1. CASE note' = note
      BY <3>1, VotesSay
    <3>2. CASE note' = [note EXCEPT !.trust = "superseded"]
      <4>1. /\ note' \in Meta /\ note'.counts = note.counts /\ note'.revision = note.revision
            /\ \A l \in R!Lists : note'[l] = note[l]
        BY <3>2, VotesSay DEF Meta, Trusts, R!Lists
      <4> QED
        BY <4>1, VotesSay DEF Sound
    <3>3. CASE note' = [old EXCEPT !.revision = old.revision + 1]
      <4> HIDE DEF old
      <4>1. /\ note' \in Meta /\ note'.counts = old.counts /\ note'.revision = old.revision + 1
            /\ \A l \in R!Lists : note'[l] = old[l]
        BY <2>3, <3>3 DEF Meta, R!Lists
      <4>2. note'.revision <= calls
        BY <2>3, <4>1, NothingGrows DEF Meta
      <4> QED
        BY <2>3, <4>1, <4>2 DEF Sound
    <3> QED
      BY <2>1, <3>1, <3>2, <3>3
  <2> HIDE DEF job
  <2> QED
    BY <2>1, <2>2, <2>4, NothingGrows, VotesSay, OneVoterKeeps
<1>2. CASE R!ResolveConflict("confirmed")
  <2> DEFINE held == reviewJobs["stage"]
  <2>1. /\ note' = [note EXCEPT !.trust = "confirmed"]
        /\ UNCHANGED <<reviews, reviewJobs, voices, calls>>
    BY <1>2 DEF R!ResolveConflict
  <2>2. /\ note' \in Meta /\ note'.counts = note.counts /\ note'.revision = note.revision
        /\ \A l \in R!Lists : note'[l] = note[l]
    BY <2>1, VotesSay DEF Meta, Trusts, R!Lists
  <2>3. Sound(note', voices, Len(reviews), calls, NoMore)
    BY <2>2, VotesSay DEF Sound
  <2>4. /\ reviewJobs' = [reviewJobs EXCEPT !["stage"] = held] /\ held \in Held
        /\ HoldsSound(held, "stage", voices, Len(reviews), calls)
    BY <2>1, VotesSay
  <2> HIDE DEF held
  <2> QED
    BY <2>1, <2>2, <2>3, <2>4, NothingGrows, VotesSay, OneVoterKeeps
<1> QED
  BY <1>1, <1>2

LEMMA CrashKeeps ==
    ASSUME VotesInv, R!Crash
    PROVE  VotesInv'
<1>1. /\ calls < MaxCalls /\ calls' = calls + 1 /\ UNCHANGED <<note, reviews, voices>>
      /\ reviewJobs' = [j \in R!Jobs |-> R!Idle]
  BY DEF R!Crash, R!Call
<1>2. calls + 1 \in 0..MaxCalls /\ calls + 1 \in Nat /\ Len(reviews) \in Nat
  BY <1>1, NothingGrows
<1>3. VotesTyped'
  BY <1>1, <1>2, BlankSound, VotesSay DEF VotesTyped
<1>4. Sound(note, voices, Len(reviews), calls + 1, NoMore)
  BY <1>1, NothingGrows, VotesSay, SoundStays
<1>5. \A j \in R!Jobs : HoldsSound(R!Idle, j, voices, Len(reviews), calls + 1)
  BY <1>2, VotesSay, IdleHolds
<1> QED
  BY <1>1, <1>3, <1>4, <1>5 DEF VotesInv, VotesSound

LEMMA VotesStay ==
    ASSUME VotesInv, UNCHANGED reviewVars
    PROVE  VotesInv'
  BY DEF reviewVars, VotesInv, VotesTyped, VotesSound

LEMMA VoteSteps == [VaultNext]_vaultVars => R!Next \/ UNCHANGED reviewVars
  BY DEF VaultNext, vaultVars

LEMMA VotesNextKeeps == VotesInv /\ [VaultNext]_vaultVars => VotesInv'
<1> SUFFICES ASSUME VotesInv, [VaultNext]_vaultVars PROVE VotesInv'
  OBVIOUS
<1>1. ASSUME R!Next PROVE VotesInv'
  <2>1. ASSUME NEW c \in Voters, NEW l \in R!Lists, R!Vote(c, l) PROVE VotesInv'
    BY <2>1, VoteKeeps
  <2>2. ASSUME NEW c \in Voters, R!WriteVote(c) PROVE VotesInv'
    BY <2>2, WriteVoteKeeps
  <2>3. ASSUME NEW j \in R!Jobs, R!Recount(j) PROVE VotesInv'
    BY <2>3, RecountKeeps
  <2> QED
    BY <1>1, <2>1, <2>2, <2>3, ReviewsKeep, CopiesKeep, MarksKeep, VerdictsKeep, CrashKeeps DEF R!Next
<1> QED
  BY <1>1, VotesStay, VoteSteps

LEMMA VotesInvariant == VaultSpec => []VotesInv
<1>1. VaultInit => VotesInv
  BY VotesInitHolds DEF VaultInit
<1> QED
  BY <1>1, VotesNextKeeps, PTL DEF VaultSpec

\* Loads and writes without a lock, whole old copies that are put back, recounts that
\* overlap consolidations, and crashes: nobody's vote is in a list twice, no list names
\* one who did not vote, and no count exceeds what voices and reviews bear out
\* (mcp_server.py:confirm_note, dispute_note, review_note, _recompute_parent_aggregate).
THEOREM VotesStayHonest == VaultSpec => []VotesHonest
<1>1. ASSUME VotesInv PROVE VotesHonest
  <2>1. ASSUME NEW meta \in Meta, NEW more, \A l \in R!Lists : more[l] \subseteq Voters,
               Sound(meta, voices, Len(reviews), calls, more)
        PROVE  R!Fields(meta)
    <3>1. \A l \in R!Lists : R!ToSet(meta[l]) \subseteq Voters
      BY <1>1, <2>1, VotesSay DEF Sound, OneVoice
    <3>2. meta.revision \in 0..MaxCalls
      BY <1>1, <2>1, VotesSay, VoteBounds DEF Sound, Meta
    <3> QED
      BY <3>1, <3>2 DEF R!Fields, Meta, Trusts, Counts
  <2>2. R!Fields(note)
    BY <1>1, <2>1, VotesSay DEF NoMore
  <2>3. ASSUME NEW j \in R!Jobs PROVE R!Fields(reviewJobs[j].copy)
    <3>1. reviewJobs[j] \in Held /\ reviewJobs[j].copy \in Meta
      BY <1>1, VotesSay DEF Held
    <3>2. /\ Sound(reviewJobs[j].copy, voices, Len(reviews), calls, Own(reviewJobs[j], j))
          /\ reviewJobs[j].pc = "vote" => j \in Voters
      BY <1>1, VotesSay DEF HoldsSound
    <3>3. \A l \in R!Lists : Own(reviewJobs[j], j)[l] \subseteq Voters
      BY <3>2 DEF Own
    <3> QED
      BY <2>1, <3>1, <3>2, <3>3
  <2>4. R!TypeOK
    <3>1. \A r \in DOMAIN reviews : reviews[r] \in Review
      BY <1>1, VotesSay
    <3> QED
      BY <1>1, <2>2, <2>3, <3>1, VotesSay, Zenon DEF R!TypeOK, Review
  <2>5. R!OneVoiceEach
    BY <1>1, VotesSay DEF R!OneVoiceEach, Sound, OneVoice, NoMore
  <2>6. R!CountsBacked
    BY <1>1, CountsAlike, VotesSay DEF R!CountsBacked, Sound, Backed
  <2> QED
    BY <2>4, <2>5, <2>6 DEF VotesHonest
<1> QED
  BY <1>1, VotesInvariant, PTL

-----------------------------------------------------------------------------
(* Searches that found too little: no miss is counted twice *)

Analysis == [pc : {"idle", "noting"}, kind : S!Kinds, lines : Seq(S!Queries),
             todo : SUBSET S!Queries, processed : SUBSET S!Queries, created : 0..LIMIT]
GapNote == [status : S!Statuses, count : Nat]
MissBounds == [searches : 0..MaxSearches, trouble : 0..MaxTrouble, crashes : 0..MaxCrashes]

MissTyped ==
    /\ missLog \in [S!Kinds -> Seq(S!Queries)]
    /\ missNotes \in [S!Kinds -> [S!Queries -> GapNote]]
    /\ task \in Analysis
    /\ asked \in [S!Queries -> Nat]
    /\ missSpent \in MissBounds

\* What an analysis of weak results may still create.
AgendaFits == task.kind = "weak" => task.created + Cardinality(task.todo) <= LIMIT

\* While misses are analysed, each waits as a line that was read and not processed; else
\* it waits in the log.
Analysing == task.pc = "noting" /\ task.kind = "gap"
Waiting(q) ==
    IF Analysing THEN IF q \in task.processed THEN 0 ELSE S!CountIn(task.lines, q)
    ELSE S!CountIn(missLog["gap"], q)
NotTwice ==
    missSpent.crashes = 0 =>
        /\ Analysing => task.todo \cap task.processed = {}
        /\ \A q \in S!Queries : missNotes["gap"][q].count + Waiting(q) <= asked[q]

MissInv == MissTyped /\ AgendaFits /\ NotTwice

LEMMA CountedSame == ASSUME NEW X PROVE S!Cardinality(X) = Cardinality(X)
  BY DEF S!Cardinality, Cardinality

LEMMA QueriesFinite == ASSUME NEW X \in SUBSET S!Queries PROVE IsFiniteSet(X) /\ Cardinality(X) \in Nat
<1>1. QUERIES \in Nat
  BY VaultBounds DEF S!Bounds
<1>2. IsFiniteSet(S!Queries)
  BY <1>1, FS_Interval DEF S!Queries
<1> QED
  BY <1>2, Fewer

\* Lines of a query: none in an empty log, one more when it is asked again.
LEMMA LinesCounted ==
    ASSUME NEW lines \in Seq(S!Queries), NEW q
    PROVE  /\ S!CountIn(lines, q) \in Nat
           /\ S!CountIn(<< >>, q) = 0
           /\ \A x \in S!Queries :
                  S!CountIn(Append(lines, x), q) = S!CountIn(lines, q) + (IF x = q THEN 1 ELSE 0)
<1> DEFINE n == Len(lines)
           A == {i \in DOMAIN lines : lines[i] = q}
<1>1. n \in Nat /\ DOMAIN lines = 1..n
  BY LenProperties
<1>2. IsFiniteSet(A) /\ Cardinality(A) \in Nat /\ A \subseteq 1..n
  <2>1. IsFiniteSet(1..n) /\ A \subseteq 1..n
    BY <1>1, FS_Interval
  <2> HIDE DEF A
  <2> QED
    BY <2>1, Fewer
<1>3. S!CountIn(lines, q) = Cardinality(A)
  BY CountedSame DEF S!CountIn
<1>4. S!CountIn(<< >>, q) = 0
  <2>1. {i \in DOMAIN << >> : << >>[i] = q} = {}
    OBVIOUS
  <2> QED
    BY <2>1, CountedSame, FS_EmptySet DEF S!CountIn
<1>5. ASSUME NEW x \in S!Queries
      PROVE  S!CountIn(Append(lines, x), q) = S!CountIn(lines, q) + (IF x = q THEN 1 ELSE 0)
  <2> DEFINE more == Append(lines, x)
             B == {i \in DOMAIN more : more[i] = q}
  <2>1. /\ DOMAIN more = 1..(n + 1) /\ more[n + 1] = x
        /\ \A i \in 1..n : more[i] = lines[i]
    BY <1>1, AppendProperties, LenProperties
  <2>2. S!CountIn(more, q) = Cardinality(B)
    BY CountedSame DEF S!CountIn
  <2> HIDE DEF more
  <2>3. CASE x = q
    <3>1. B = A \cup {n + 1} /\ n + 1 \notin A
      <4> HIDE DEF n
      <4> QED
        BY <1>1, <2>1, <2>3
    <3> HIDE DEF A, B, n
    <3>2. Cardinality(B) = Cardinality(A) + 1
      BY <1>2, <3>1, FS_AddElement
    <3> QED
      BY <1>3, <2>2, <2>3, <3>2 DEF more
  <2>4. CASE x # q
    <3>1. B = A
      <4> HIDE DEF n
      <4> QED
        BY <1>1, <2>1, <2>4
    <3> HIDE DEF A, B
    <3> QED
      BY <1>2, <1>3, <2>2, <2>4, <3>1 DEF more
  <2> QED
    BY <2>3, <2>4
<1> QED
  BY <1>2, <1>3, <1>4, <1>5

\* The lines that stay in the log, for the first lines and so for all of them.
IsSifting(g, lines, gone) ==
    g = [s \in SUBSET DOMAIN lines |->
            IF s = {} THEN << >>
            ELSE IF lines[S!Max(s)] \in gone THEN g[s \ {S!Max(s)}]
                 ELSE Append(g[s \ {S!Max(s)}], lines[S!Max(s)])]
Sifting(lines, gone) == CHOOSE g : IsSifting(g, lines, gone)

LEMMA SiftingIsFold == S!Unprocessed = Sifting(task.lines, task.processed)[DOMAIN task.lines]
  BY Zenon DEF S!Unprocessed, S!FoldLeft, S!MapThenFoldSet, Sifting, IsSifting

LEMMA SiftingSteps ==
    ASSUME NEW lines \in Seq(S!Queries), NEW gone \in SUBSET S!Queries
    PROVE  LET h == Sifting(lines, gone) IN
           /\ h[1..0] = << >>
           /\ \A k \in 1..Len(lines) :
                  h[1..k] = IF lines[k] \in gone THEN h[1..(k - 1)]
                            ELSE Append(h[1..(k - 1)], lines[k])
<1> DEFINE n == Len(lines)
           D == 1..n
           X == Seq(S!Queries)
           step == [i \in D |-> [x \in X |-> IF lines[i] \in gone THEN x ELSE Append(x, lines[i])]]
           h == Sifting(lines, gone)
<1>1. /\ n \in Nat /\ DOMAIN lines = D /\ \A i \in D : lines[i] \in S!Queries
  BY LenProperties, ElementOfSeq
<1>2. step \in [D -> [X -> X]] /\ << >> \in X
  BY <1>1, AppendProperties
<1>3. \A i \in D, x \in X : step[i][x] = IF lines[i] \in gone THEN x ELSE Append(x, lines[i])
  OBVIOUS
<1> HIDE DEF n, X, step
<1>4. PICK g : LeftFold(g, n, X, << >>, step)
  BY <1>1, <1>2, LeftFoldExists
<1>5. \A s \in SUBSET D : s # {} => Greatest(s) \in s
  BY <1>1, GreatestOfInterval
<1>6. \A s : S!Max(s) = Greatest(s)
  BY DEF S!Max, Greatest
<1> HIDE DEF D
<1>7. ASSUME NEW s \in SUBSET D
      PROVE  g[s] = IF s = {} THEN << >>
                    ELSE IF lines[S!Max(s)] \in gone THEN g[s \ {S!Max(s)}]
                         ELSE Append(g[s \ {S!Max(s)}], lines[S!Max(s)])
  <2>1. s # {} => g[s \ {Greatest(s)}] \in X /\ Greatest(s) \in D
    BY <1>4, <1>5 DEF LeftFold, D
  <2>2. g[s] = IF s = {} THEN << >> ELSE step[Greatest(s)][g[s \ {Greatest(s)}]]
    BY <1>4 DEF LeftFold, D
  <2> QED
    BY <1>3, <1>6, <2>1, <2>2
<1>8. IsSifting(g, lines, gone)
  <2>1. g \in [SUBSET D -> X]
    BY <1>4 DEF LeftFold, D
  <2> QED
    BY <1>1, <1>7, <2>1 DEF IsSifting
<1>9. IsSifting(h, lines, gone)
  BY <1>8 DEF Sifting
<1> HIDE DEF h
<1>10. \A s \in SUBSET D :
           h[s] = IF s = {} THEN << >>
                  ELSE IF lines[S!Max(s)] \in gone THEN h[s \ {S!Max(s)}]
                       ELSE Append(h[s \ {S!Max(s)}], lines[S!Max(s)])
  BY <1>1, <1>9 DEF IsSifting
<1>11. h[1..0] = << >>
  <2>1. 1..0 = {}
    OBVIOUS
  <2> QED
    BY <1>10, <2>1
<1>12. ASSUME NEW k \in 1..n
       PROVE  h[1..k] = IF lines[k] \in gone THEN h[1..(k - 1)]
                        ELSE Append(h[1..(k - 1)], lines[k])
  <2>1. 1..k \in SUBSET D /\ 1..k # {}
    BY <1>1 DEF D
  <2>2. S!Max(1..k) = k /\ (1..k) \ {k} = 1..(k - 1)
    BY <1>1, <1>6, GreatestOfInterval
  <2> QED
    BY <1>10, <2>1, <2>2
<1> QED
  BY <1>11, <1>12 DEF h, n

\* What stays is of the log's type; of a processed query no line stays, of another all do.
LEMMA SiftingCounted ==
    ASSUME NEW lines \in Seq(S!Queries), NEW gone \in SUBSET S!Queries, NEW q \in S!Queries
    PROVE  /\ Sifting(lines, gone)[DOMAIN lines] \in Seq(S!Queries)
           /\ S!CountIn(Sifting(lines, gone)[DOMAIN lines], q)
                  = IF q \in gone THEN 0 ELSE S!CountIn(lines, q)
<1> DEFINE n == Len(lines)
           h == Sifting(lines, gone)
           first(k) == {i \in 1..k : lines[i] = q}
           Sifted(k) == /\ h[1..k] \in Seq(S!Queries)
                        /\ S!CountIn(h[1..k], q) = IF q \in gone THEN 0 ELSE Cardinality(first(k))
           K == {k \in Nat : k <= n => Sifted(k)}
<1>1. n \in Nat /\ DOMAIN lines = 1..n /\ \A i \in 1..n : lines[i] \in S!Queries
  BY LenProperties, ElementOfSeq
<1>2. /\ h[1..0] = << >>
      /\ \A k \in 1..n : h[1..k] = IF lines[k] \in gone THEN h[1..(k - 1)]
                                   ELSE Append(h[1..(k - 1)], lines[k])
  BY SiftingSteps
<1> HIDE DEF n, h
<1>3. 0 \in K
  <2>1. << >> \in Seq(S!Queries) /\ S!CountIn(<< >>, q) = 0
    BY LinesCounted
  <2>2. first(0) = {}
    OBVIOUS
  <2> QED
    BY <1>2, <2>1, <2>2, FS_EmptySet
<1>4. ASSUME NEW k \in K PROVE k + 1 \in K
  <2> SUFFICES ASSUME k + 1 <= n PROVE Sifted(k + 1)
    OBVIOUS
  <2>1. k \in Nat /\ k + 1 \in 1..n /\ (k + 1) - 1 = k /\ Sifted(k)
    BY <1>1
  <2> DEFINE x == lines[k + 1]
  <2>2. x \in S!Queries /\ h[1..(k + 1)] = IF x \in gone THEN h[1..k] ELSE Append(h[1..k], x)
    BY <1>1, <1>2, <2>1
  <2>3. IsFiniteSet(first(k)) /\ Cardinality(first(k)) \in Nat
    <3>1. IsFiniteSet(1..k) /\ first(k) \subseteq 1..k
      BY <2>1, FS_Interval
    <3> HIDE DEF first
    <3> QED
      BY <3>1, Fewer
  <2>4. x = q => Cardinality(first(k + 1)) = Cardinality(first(k)) + 1
    <3> SUFFICES ASSUME x = q PROVE Cardinality(first(k + 1)) = Cardinality(first(k)) + 1
      OBVIOUS
    <3>1. first(k + 1) = first(k) \cup {k + 1} /\ k + 1 \notin first(k)
      BY <2>1
    <3> HIDE DEF first
    <3> QED
      BY <2>3, <3>1, FS_AddElement
  <2>5. x # q => first(k + 1) = first(k)
    BY <2>1
  <2>6. /\ h[1..k] \in Seq(S!Queries)
        /\ S!CountIn(h[1..k], q) = IF q \in gone THEN 0 ELSE Cardinality(first(k))
    BY <2>1
  <2> HIDE DEF first, x
  <2>7. CASE x \in gone
    BY <2>2, <2>3, <2>5, <2>6, <2>7
  <2>8. CASE x \notin gone
    <3>1. /\ Append(h[1..k], x) \in Seq(S!Queries)
          /\ S!CountIn(Append(h[1..k], x), q) = S!CountIn(h[1..k], q) + (IF x = q THEN 1 ELSE 0)
      BY <2>2, <2>6, AppendProperties, LinesCounted
    <3> QED
      BY <2>2, <2>3, <2>4, <2>5, <2>6, <2>8, <3>1
  <2> QED
    BY <2>7, <2>8
<1>5. n \in K
  <2> HIDE DEF K
  <2>1. K \in SUBSET Nat
    BY DEF K
  <2>2. \A k \in Nat : k \in K
    BY <1>3, <1>4, <2>1, Induction
  <2> QED
    BY <1>1, <2>2
<1>6. S!CountIn(lines, q) = Cardinality(first(n))
  BY <1>1, CountedSame DEF S!CountIn
<1> QED
  BY <1>1, <1>5, <1>6 DEF h

LEMMA MissFields ==
    ASSUME MissTyped
    PROVE  /\ task.pc \in {"idle", "noting"} /\ task.kind \in S!Kinds
           /\ task.lines \in Seq(S!Queries)
           /\ task.todo \in SUBSET S!Queries /\ task.processed \in SUBSET S!Queries
           /\ task.created \in 0..LIMIT
           /\ missLog["gap"] \in Seq(S!Queries)
           /\ \A k \in S!Kinds : /\ missLog[k] \in Seq(S!Queries)
                                 /\ missNotes[k] \in [S!Queries -> GapNote]
           /\ "gap" \in S!Kinds
  BY DEF MissTyped, Analysis, S!Kinds

LEMMA MissConstants ==
    /\ LIMIT \in Nat \ {0} /\ {QUERIES, RESOLVES} \subseteq Nat \ {0}
    /\ {MaxSearches, MaxTrouble, MaxCrashes} \subseteq Nat
  BY VaultBounds DEF S!Bounds

LEMMA IdleAnalysis ==
    /\ S!Idle \in Analysis /\ S!Idle.pc = "idle" /\ S!Idle.kind = "gap" /\ S!Idle.created = 0
    /\ S!Idle.todo = {}
  BY MissConstants DEF S!Idle, Analysis, S!Kinds

LEMMA MissInitHolds == S!Init => MissInv
<1> SUFFICES ASSUME S!Init PROVE MissInv
  OBVIOUS
<1>1. task = S!Idle /\ missLog["gap"] = << >>
  BY DEF S!Init, S!Kinds
<1>2. MissTyped
  BY <1>1, IdleAnalysis, MissConstants
     DEF S!Init, MissTyped, GapNote, MissBounds, S!Statuses
<1>3. \A q \in S!Queries : missNotes["gap"][q].count = 0 /\ asked[q] = 0 /\ Waiting(q) = 0
  BY <1>1, <1>2, IdleAnalysis, LinesCounted, MissFields DEF S!Init, S!Kinds, Waiting, Analysing
<1> QED
  BY <1>1, <1>2, <1>3, IdleAnalysis DEF MissInv, AgendaFits, NotTwice, Analysing

\* A search adds a line to what waits and, of a miss, one to what was asked.
LEMMA SearchKeeps ==
    ASSUME MissInv, NEW q \in S!Queries, NEW kinds \in SUBSET S!Kinds, S!Search(q, kinds)
    PROVE  MissInv'
<1>1. /\ task' = task /\ missNotes' = missNotes
      /\ \A k \in S!Kinds : missLog'[k] = IF k \in kinds THEN Append(missLog[k], q) ELSE missLog[k]
      /\ missLog' = [k \in S!Kinds |-> IF k \in kinds THEN Append(missLog[k], q) ELSE missLog[k]]
      /\ asked' = IF "gap" \in kinds THEN [asked EXCEPT ![q] = @ + 1] ELSE asked
      /\ missSpent' = [missSpent EXCEPT !.searches = @ + 1] /\ missSpent.searches < MaxSearches
  BY DEF S!Search
<1>2. MissTyped
  BY DEF MissInv
<1>3. MissTyped'
  <2>1. missLog' \in [S!Kinds -> Seq(S!Queries)]
    BY <1>1, <1>2, MissFields, AppendProperties
  <2>2. asked' \in [S!Queries -> Nat]
    BY <1>1, <1>2 DEF MissTyped
  <2>3. missSpent' \in MissBounds
    <3>1. missSpent.searches + 1 \in 0..MaxSearches /\ missSpent \in MissBounds
      BY <1>1, <1>2, MissConstants DEF MissTyped, MissBounds
    <3> QED
      BY <1>1, <3>1 DEF MissBounds
  <2> QED
    BY <1>1, <1>2, <2>1, <2>2, <2>3 DEF MissTyped
<1>4. AgendaFits'
  BY <1>1 DEF MissInv, AgendaFits
<1>5. NotTwice'
  <2> SUFFICES ASSUME missSpent'.crashes = 0
               PROVE  /\ Analysing' => task'.todo \cap task'.processed = {}
                      /\ \A p \in S!Queries : missNotes'["gap"][p].count + Waiting(p)' <= asked'[p]
    BY DEF NotTwice
  <2>1. missSpent.crashes = 0
    BY <1>1, <1>2 DEF MissTyped, MissBounds
  <2>2. /\ Analysing => task.todo \cap task.processed = {}
        /\ \A p \in S!Queries : missNotes["gap"][p].count + Waiting(p) <= asked[p]
    BY <2>1 DEF MissInv, NotTwice
  <2>3. Analysing' = Analysing
    BY <1>1 DEF Analysing
  <2> SUFFICES ASSUME NEW p \in S!Queries
               PROVE  missNotes'["gap"][p].count + Waiting(p)' <= asked'[p]
    BY <1>1, <2>2, <2>3
  <2>4. /\ missNotes["gap"][p].count \in Nat /\ asked[p] \in Nat
        /\ S!CountIn(missLog["gap"], p) \in Nat /\ S!CountIn(task.lines, p) \in Nat
    BY <1>2, MissFields, LinesCounted DEF MissTyped, GapNote
  <2> DEFINE one == IF "gap" \in kinds /\ p = q THEN 1 ELSE 0
  <2>5. asked'[p] = asked[p] + one
    BY <1>1, <1>2, <2>4 DEF MissTyped
  <2>6. S!CountIn(missLog'["gap"], p) = S!CountIn(missLog["gap"], p) + one
    <3>1. S!CountIn(Append(missLog["gap"], q), p)
              = S!CountIn(missLog["gap"], p) + (IF q = p THEN 1 ELSE 0)
      BY <1>2, MissFields, LinesCounted
    <3>2. missLog'["gap"] = IF "gap" \in kinds THEN Append(missLog["gap"], q) ELSE missLog["gap"]
      BY <1>1, <1>2, MissFields
    <3> QED
      BY <2>4, <3>1, <3>2
  <2>7. one \in 0..1
    OBVIOUS
  <2> HIDE DEF one
  <2>8. Waiting(p)' <= Waiting(p) + one /\ Waiting(p) \in Nat /\ Waiting(p)' \in Nat
    BY <1>1, <2>3, <2>4, <2>6, <2>7 DEF Waiting
  <2> QED
    BY <1>1, <2>2, <2>4, <2>5, <2>7, <2>8
<1> QED
  BY <1>3, <1>4, <1>5 DEF MissInv

\* An analysis of misses takes over the lines that wait.
LEMMA ReadKeeps == ASSUME MissInv, NEW k \in S!Kinds, S!Read(k) PROVE MissInv'
<1>1. PICK todo \in SUBSET S!Queries :
          /\ S!Agenda(k, missLog[k], todo)
          /\ task' = [S!Idle EXCEPT !.pc = "noting", !.kind = k, !.lines = missLog[k],
                                    !.todo = todo]
  BY DEF S!Read
<1>2. /\ task = S!Idle /\ missLog' = missLog /\ missNotes' = missNotes
      /\ asked' = asked /\ missSpent' = missSpent
  BY DEF S!Read
<1>3. MissTyped
  BY DEF MissInv
<1>4. /\ task'.pc = "noting" /\ task'.kind = k /\ task'.lines = missLog[k] /\ task'.todo = todo
      /\ task'.processed = {} /\ task'.created = 0
      /\ task' \in Analysis
  BY <1>1, <1>3, IdleAnalysis, MissConstants, MissFields DEF S!Idle, Analysis, S!Kinds
<1>5. MissTyped'
  BY <1>2, <1>3, <1>4 DEF MissTyped
<1>6. AgendaFits'
  <2> SUFFICES ASSUME k = "weak" PROVE 0 + Cardinality(todo) <= LIMIT
    BY <1>4 DEF AgendaFits
  <2>1. S!Cardinality(todo) <= LIMIT
    BY <1>1, MissConstants DEF S!Agenda
  <2> QED
    BY <2>1, CountedSame, QueriesFinite, MissConstants
<1>7. NotTwice'
  <2>1. ~Analysing
    BY <1>2, IdleAnalysis DEF Analysing
  <2>2. \A p \in S!Queries : Waiting(p)' = Waiting(p)
    BY <1>2, <1>4, <2>1 DEF Waiting, Analysing
  <2>3. task'.todo \cap task'.processed = {}
    BY <1>4
  <2> QED
    BY <1>2, <2>2, <2>3 DEF MissInv, NotTwice
<1> QED
  BY <1>5, <1>6, <1>7 DEF MissInv

\* A query leaves the agenda; what is processed does not wait any more.
LEMMA TakenOff ==
    ASSUME MissInv, NEW q \in task.todo, NEW more \in 0..1, NEW done \in SUBSET {q},
           task.pc = "noting", ~S!LimitReached,
           task' = [task EXCEPT !.todo = @ \ {q}, !.processed = @ \cup done,
                                !.created = @ + more]
    PROVE  /\ task' \in Analysis /\ AgendaFits'
           /\ Analysing' = Analysing
           /\ task'.lines = task.lines /\ task'.processed = task.processed \cup done
           /\ task'.todo = task.todo \ {q}
<1>1. MissTyped /\ AgendaFits
  BY DEF MissInv
<1>2. task \in Analysis /\ LIMIT \in Nat
  BY <1>1, MissConstants DEF MissTyped
<1>3. /\ task'.pc = task.pc /\ task'.kind = task.kind /\ task'.lines = task.lines
      /\ task'.todo = task.todo \ {q} /\ task'.processed = task.processed \cup done
      /\ task'.created = task.created + more
  BY <1>2 DEF Analysis
<1>4. /\ IsFiniteSet(task.todo) /\ Cardinality(task.todo) \in Nat
      /\ Cardinality(task.todo \ {q}) = Cardinality(task.todo) - 1
  <2>1. IsFiniteSet(task.todo) /\ Cardinality(task.todo) \in Nat
    BY <1>1, MissFields, QueriesFinite
  <2> QED
    BY <2>1, FS_RemoveElement
<1>5. Cardinality(task.todo) # 0
  BY <1>4, FS_EmptySet
<1>6. task.created + more \in 0..LIMIT
  <2>1. task.created \in 0..LIMIT
    BY <1>2 DEF Analysis
  <2>2. CASE task.kind = "gap"
    BY <1>2, <2>1, <2>2 DEF S!LimitReached
  <2>3. CASE task.kind = "weak"
    BY <1>1, <1>2, <1>4, <1>5, <2>1, <2>3 DEF AgendaFits
  <2> QED
    BY <1>2, <2>2, <2>3 DEF Analysis, S!Kinds
<1>7. task' \in Analysis
  <2>1. q \in S!Queries
    BY <1>2 DEF Analysis
  <2> QED
    BY <1>2, <1>6, <2>1 DEF Analysis
<1>8. AgendaFits'
  <2> SUFFICES ASSUME task.kind = "weak" PROVE task'.created + Cardinality(task'.todo) <= LIMIT
    BY <1>3 DEF AgendaFits
  <2>1. task.created + Cardinality(task.todo) <= LIMIT /\ task.created \in 0..LIMIT
    BY <1>1, <1>2 DEF AgendaFits, Analysis
  <2> QED
    BY <1>2, <1>3, <1>4, <2>1
<1> QED
  BY <1>3, <1>7, <1>8 DEF Analysing

\* Its lines are what the note counts from then on, if it is written.
LEMMA NotedOnce ==
    ASSUME MissInv, NEW q \in task.todo, task.pc = "noting"
    PROVE  /\ missSpent.crashes = 0 /\ Analysing => q \notin task.processed
           /\ \A g \in GapNote, n \in Nat :
                  /\ S!MissNoted(g, n) \in GapNote
                  /\ S!MissNoted(g, n).count <= g.count + n
                  /\ S!WeaknessNoted(n) \in GapNote
<1>1. missSpent.crashes = 0 /\ Analysing => q \notin task.processed
  BY DEF MissInv, NotTwice
<1>2. ASSUME NEW g \in GapNote, NEW n \in Nat
      PROVE  /\ S!MissNoted(g, n) \in GapNote
             /\ S!MissNoted(g, n).count <= g.count + n
             /\ S!WeaknessNoted(n) \in GapNote
  BY DEF S!MissNoted, S!WeaknessNoted, GapNote, S!Statuses
<1> QED
  BY <1>1, <1>2

LEMMA NoteQueryKeeps == ASSUME MissInv, S!NoteQuery PROVE MissInv'
<1>1. PICK q \in task.todo :
          /\ missNotes' = [missNotes EXCEPT ![task.kind][q] =
                               S!Noted(task.kind, @, S!CountIn(task.lines, q))]
          /\ task' = [task EXCEPT !.todo = @ \ {q}, !.processed = @ \cup {q},
                                  !.created = IF missNotes[task.kind][q].status = "none"
                                              THEN @ + 1 ELSE @]
  BY DEF S!NoteQuery
<1>2. /\ task.pc = "noting" /\ ~S!LimitReached
      /\ missLog' = missLog /\ asked' = asked /\ missSpent' = missSpent
  BY DEF S!NoteQuery
<1>3. MissTyped
  BY DEF MissInv
<1> DEFINE more == IF missNotes[task.kind][q].status = "none" THEN 1 ELSE 0
<1>4. /\ more \in 0..1 /\ task.created \in Nat
      /\ task' = [task EXCEPT !.todo = @ \ {q}, !.processed = @ \cup {q}, !.created = @ + more]
  <2>1. task.created \in 0..LIMIT /\ LIMIT \in Nat
    BY <1>3, MissFields, MissConstants
  <2> DEFINE created == IF missNotes[task.kind][q].status = "none"
                        THEN task.created + 1 ELSE task.created
  <2>2. created = task.created + more /\ more \in 0..1
    BY <2>1
  <2>3. task' = [task EXCEPT !.todo = @ \ {q}, !.processed = @ \cup {q}, !.created = created]
    BY <1>1
  <2> HIDE DEF created, more
  <2> QED
    BY <2>1, <2>2, <2>3
<1> HIDE DEF more
<1>5. /\ task' \in Analysis /\ AgendaFits' /\ Analysing' = Analysing
      /\ task'.lines = task.lines /\ task'.processed = task.processed \cup {q}
      /\ task'.todo = task.todo \ {q}
  <2>1. {q} \in SUBSET {q}
    OBVIOUS
  <2> QED
    BY <1>2, <1>4, <2>1, TakenOff
<1> DEFINE k == task.kind
           times == S!CountIn(task.lines, q)
<1>6. k \in S!Kinds /\ q \in S!Queries /\ times \in Nat /\ missNotes[k][q] \in GapNote
  BY <1>3, MissFields, LinesCounted
<1>7. S!Noted(k, missNotes[k][q], times) \in GapNote
  BY <1>2, <1>6, NotedOnce DEF S!Noted
<1>8. missNotes' = [missNotes EXCEPT ![k][q] = S!Noted(k, missNotes[k][q], times)]
  BY <1>1
<1>9. missNotes' \in [S!Kinds -> [S!Queries -> GapNote]]
  <2> HIDE DEF k, times
  <2> QED
    BY <1>3, <1>6, <1>7, <1>8 DEF MissTyped
<1>10. MissTyped'
  BY <1>2, <1>3, <1>5, <1>9 DEF MissTyped
<1>11. NotTwice'
  <2> SUFFICES ASSUME missSpent.crashes = 0
               PROVE  /\ Analysing => task'.todo \cap task'.processed = {}
                      /\ \A p \in S!Queries : missNotes'["gap"][p].count + Waiting(p)' <= asked[p]
    BY <1>2, <1>5 DEF NotTwice
  <2>1. /\ Analysing => task.todo \cap task.processed = {}
        /\ \A p \in S!Queries : missNotes["gap"][p].count + Waiting(p) <= asked[p]
    BY DEF MissInv, NotTwice
  <2>2. Analysing => task'.todo \cap task'.processed = {}
    BY <1>5, <2>1
  <2> SUFFICES ASSUME NEW p \in S!Queries
               PROVE  missNotes'["gap"][p].count + Waiting(p)' <= asked[p]
    BY <2>2
  <2>3. /\ missNotes["gap"][p].count \in Nat /\ asked[p] \in Nat
        /\ S!CountIn(missLog["gap"], p) \in Nat /\ S!CountIn(task.lines, p) \in Nat
    BY <1>3, MissFields, LinesCounted DEF MissTyped, GapNote
  <2>4. CASE k = "gap" /\ p = q
    <3>1. Analysing /\ Analysing'
      BY <1>2, <1>5, <2>4 DEF Analysing
    <3>2. Waiting(p) = times
      BY <1>2, <2>4, <3>1, NotedOnce DEF Waiting
    <3>3. Waiting(p)' = 0
      BY <1>5, <2>4, <3>1 DEF Waiting
    <3>4. missNotes'["gap"][p] = S!MissNoted(missNotes["gap"][p], times)
      <4> HIDE DEF k, times
      <4> QED
        BY <1>3, <1>6, <1>8, <2>4 DEF MissTyped, S!Noted
    <3>5. /\ S!MissNoted(missNotes["gap"][p], times).count <= missNotes["gap"][p].count + times
          /\ S!MissNoted(missNotes["gap"][p], times).count \in Nat
      <4>1. S!MissNoted(missNotes["gap"][p], times) \in GapNote
        BY <1>2, <1>6, <2>4, NotedOnce
      <4> QED
        BY <1>2, <1>6, <2>4, <4>1, NotedOnce DEF GapNote
    <3> HIDE DEF times
    <3> QED
      BY <1>6, <2>1, <2>3, <3>2, <3>3, <3>4, <3>5
  <2>5. CASE ~(k = "gap" /\ p = q)
    <3>1. missNotes'["gap"][p] = missNotes["gap"][p]
      <4> HIDE DEF k, times
      <4> QED
        BY <1>3, <1>6, <1>8, <2>5 DEF MissTyped, S!Kinds
    <3>2. Waiting(p)' <= Waiting(p) /\ Waiting(p) \in Nat /\ Waiting(p)' \in Nat
      <4>1. CASE Analysing
        <5>1. p # q
          BY <2>5, <4>1 DEF Analysing
        <5> QED
          BY <1>5, <2>3, <4>1, <5>1 DEF Waiting
      <4>2. CASE ~Analysing
        BY <1>2, <1>5, <2>3, <4>2 DEF Waiting
      <4> QED
        BY <4>1, <4>2
    <3> QED
      BY <2>1, <2>3, <3>1, <3>2
  <2> QED
    BY <2>4, <2>5
<1> QED
  BY <1>5, <1>10, <1>11 DEF MissInv

\* A note that is not written counts nothing; its lines wait or are lost.
LEMMA NoteFailsKeeps == ASSUME MissInv, S!NoteFails PROVE MissInv'
<1>1. PICK q \in task.todo :
          task' = [task EXCEPT !.todo = @ \ {q},
                               !.processed = IF task.kind = "gap" /\ missNotes["gap"][q].status = "none"
                                             THEN @ ELSE @ \cup {q}]
  BY DEF S!NoteFails
<1>2. /\ task.pc = "noting" /\ ~S!LimitReached
      /\ missLog' = missLog /\ missNotes' = missNotes /\ asked' = asked
      /\ missSpent' = [missSpent EXCEPT !.trouble = @ + 1] /\ missSpent.trouble < MaxTrouble
  BY DEF S!NoteFails
<1>3. MissTyped
  BY DEF MissInv
<1> DEFINE done == IF task.kind = "gap" /\ missNotes["gap"][q].status = "none" THEN {} ELSE {q}
<1>4. /\ done \in SUBSET {q}
      /\ task' = [task EXCEPT !.todo = @ \ {q}, !.processed = @ \cup done, !.created = @ + 0]
  <2>1. task.created \in 0..LIMIT /\ LIMIT \in Nat /\ task.created + 0 = task.created
    BY <1>3, MissFields, MissConstants
  <2> QED
    BY <1>1, <2>1
<1> HIDE DEF done
<1>5. /\ task' \in Analysis /\ AgendaFits' /\ Analysing' = Analysing
      /\ task'.lines = task.lines /\ task'.processed = task.processed \cup done
      /\ task'.todo = task.todo \ {q}
  <2>1. 0 \in 0..1
    OBVIOUS
  <2> QED
    BY <1>2, <1>4, <2>1, TakenOff
<1>6. missSpent' \in MissBounds /\ missSpent'.crashes = missSpent.crashes
  <2>1. /\ missSpent.trouble + 1 \in 0..MaxTrouble /\ missSpent \in MissBounds
    BY <1>2, <1>3, MissConstants DEF MissTyped, MissBounds
  <2> QED
    BY <1>2, <2>1 DEF MissBounds
<1>7. MissTyped'
  BY <1>2, <1>3, <1>5, <1>6 DEF MissTyped
<1>8. NotTwice'
  <2> SUFFICES ASSUME missSpent.crashes = 0
               PROVE  /\ Analysing => task'.todo \cap task'.processed = {}
                      /\ \A p \in S!Queries : missNotes["gap"][p].count + Waiting(p)' <= asked[p]
    BY <1>2, <1>5, <1>6 DEF NotTwice
  <2>1. /\ Analysing => task.todo \cap task.processed = {}
        /\ \A p \in S!Queries : missNotes["gap"][p].count + Waiting(p) <= asked[p]
    BY DEF MissInv, NotTwice
  <2>2. Analysing => task'.todo \cap task'.processed = {}
    BY <1>4, <1>5, <2>1
  <2> SUFFICES ASSUME NEW p \in S!Queries
               PROVE  missNotes["gap"][p].count + Waiting(p)' <= asked[p]
    BY <2>2
  <2>3. /\ missNotes["gap"][p].count \in Nat /\ asked[p] \in Nat
        /\ S!CountIn(missLog["gap"], p) \in Nat /\ S!CountIn(task.lines, p) \in Nat
    BY <1>3, MissFields, LinesCounted DEF MissTyped, GapNote
  <2>4. Waiting(p)' <= Waiting(p) /\ Waiting(p) \in Nat /\ Waiting(p)' \in Nat
    BY <1>2, <1>5, <2>3 DEF Waiting
  <2> QED
    BY <2>1, <2>3, <2>4
<1> QED
  BY <1>5, <1>7, <1>8 DEF MissInv

\* The lines that were not processed wait in the log again.
LEMMA RotateKeeps == ASSUME MissInv, S!Rotate PROVE MissInv'
<1> DEFINE rest == Sifting(task.lines, task.processed)[DOMAIN task.lines]
<1>1. /\ task.pc = "noting" /\ task' = S!Idle
      /\ missLog' = [missLog EXCEPT ![task.kind] = rest]
      /\ missNotes' = missNotes /\ asked' = asked /\ missSpent' = missSpent
  BY SiftingIsFold DEF S!Rotate
<1>2. MissTyped
  BY DEF MissInv
<1>3. /\ task.kind \in S!Kinds /\ task.lines \in Seq(S!Queries)
      /\ task.processed \in SUBSET S!Queries
  BY <1>2, MissFields
<1>4. /\ rest \in Seq(S!Queries)
      /\ \A p \in S!Queries :
             S!CountIn(rest, p) = IF p \in task.processed THEN 0 ELSE S!CountIn(task.lines, p)
  <2>1. ASSUME NEW p \in S!Queries
        PROVE  /\ rest \in Seq(S!Queries)
               /\ S!CountIn(rest, p) = IF p \in task.processed THEN 0 ELSE S!CountIn(task.lines, p)
    BY <1>3, SiftingCounted
  <2>2. 1 \in S!Queries
    BY MissConstants DEF S!Queries
  <2> QED
    BY <2>1, <2>2
<1> HIDE DEF rest
<1>5. MissTyped'
  <2>1. missLog' \in [S!Kinds -> Seq(S!Queries)]
    BY <1>1, <1>2, <1>4 DEF MissTyped
  <2> QED
    BY <1>1, <1>2, <2>1, IdleAnalysis DEF MissTyped
<1>6. AgendaFits' /\ ~Analysing'
  BY <1>1, IdleAnalysis DEF AgendaFits, Analysing
<1>7. \A p \in S!Queries : Waiting(p)' = Waiting(p)
  <2> TAKE p \in S!Queries
  <2>1. CASE Analysing
    <3>1. missLog'["gap"] = rest
      BY <1>1, <1>2, <1>3, <2>1 DEF Analysing, MissTyped
    <3> QED
      BY <1>4, <1>6, <2>1, <3>1 DEF Waiting
  <2>2. CASE ~Analysing
    <3>1. missLog'["gap"] = missLog["gap"]
      BY <1>1, <1>2, <2>2 DEF Analysing, MissTyped, S!Kinds
    <3> QED
      BY <1>6, <2>2, <3>1 DEF Waiting
  <2> QED
    BY <2>1, <2>2
<1>8. NotTwice'
  BY <1>1, <1>6, <1>7 DEF MissInv, NotTwice
<1> QED
  BY <1>5, <1>6, <1>8 DEF MissInv

\* What a new capsule answers keeps its count.
LEMMA ResolveKeeps ==
    ASSUME MissInv, NEW k \in S!Kinds, NEW answered \in SUBSET S!Queries, S!Resolve(k, answered)
    PROVE  MissInv'
<1>1. /\ missLog' = missLog /\ task' = task /\ asked' = asked /\ missSpent' = missSpent
      /\ missNotes' = [missNotes EXCEPT ![k] = [q \in S!Queries |->
                           IF q \in answered THEN [missNotes[k][q] EXCEPT !.status = "resolved"]
                           ELSE missNotes[k][q]]]
  BY DEF S!Resolve
<1>2. MissTyped
  BY DEF MissInv
<1> DEFINE closed(n) == [n EXCEPT !.status = "resolved"]
           new == [q \in S!Queries |-> IF q \in answered THEN closed(missNotes[k][q])
                                       ELSE missNotes[k][q]]
<1>3. \A n \in GapNote : closed(n) \in GapNote /\ closed(n).count = n.count
  BY DEF GapNote, S!Statuses
<1>4. /\ new \in [S!Queries -> GapNote]
      /\ \A q \in S!Queries : new[q].count = missNotes[k][q].count
  <2>1. \A q \in S!Queries : missNotes[k][q] \in GapNote
    BY <1>2, MissFields
  <2> HIDE DEF closed
  <2> QED
    BY <1>3, <2>1
<1>5. missNotes' = [missNotes EXCEPT ![k] = new]
  BY <1>1
<1> HIDE DEF new
<1>6. /\ missNotes' \in [S!Kinds -> [S!Queries -> GapNote]]
      /\ \A q \in S!Queries : missNotes'["gap"][q].count = missNotes["gap"][q].count
  BY <1>2, <1>4, <1>5 DEF MissTyped, S!Kinds
<1>7. MissTyped' /\ AgendaFits'
  BY <1>1, <1>2, <1>6 DEF MissInv, MissTyped, AgendaFits
<1>8. Analysing' = Analysing /\ \A q \in S!Queries : Waiting(q)' = Waiting(q)
  BY <1>1 DEF Analysing, Waiting
<1>9. NotTwice'
  BY <1>1, <1>6, <1>8 DEF MissInv, NotTwice
<1> QED
  BY <1>7, <1>9 DEF MissInv

LEMMA AnalysisCutShort == ASSUME MissInv, S!Crash PROVE MissInv'
<1>1. /\ task' = S!Idle /\ missLog' = missLog /\ missNotes' = missNotes /\ asked' = asked
      /\ missSpent' = [missSpent EXCEPT !.crashes = @ + 1] /\ missSpent.crashes < MaxCrashes
  BY DEF S!Crash
<1>2. MissTyped
  BY DEF MissInv
<1>3. missSpent' \in MissBounds /\ missSpent'.crashes # 0
  <2>1. /\ missSpent.crashes + 1 \in 0..MaxCrashes /\ missSpent.crashes + 1 # 0
        /\ missSpent \in MissBounds
    BY <1>1, <1>2, MissConstants DEF MissTyped, MissBounds
  <2> QED
    BY <1>1, <2>1 DEF MissBounds
<1>4. MissTyped'
  BY <1>1, <1>2, <1>3, IdleAnalysis DEF MissTyped
<1>5. AgendaFits' /\ NotTwice'
  BY <1>1, <1>3, IdleAnalysis DEF AgendaFits, NotTwice
<1> QED
  BY <1>4, <1>5 DEF MissInv

LEMMA MissesStay == ASSUME MissInv, UNCHANGED missVars PROVE MissInv'
<1>1. /\ missLog' = missLog /\ missNotes' = missNotes /\ task' = task
      /\ asked' = asked /\ missSpent' = missSpent
  BY DEF missVars
<1>2. MissTyped' /\ AgendaFits'
  BY <1>1 DEF MissInv, MissTyped, AgendaFits
<1>3. Analysing' = Analysing /\ \A q \in S!Queries : Waiting(q)' = Waiting(q)
  BY <1>1 DEF Analysing, Waiting
<1>4. NotTwice'
  BY <1>1, <1>3 DEF MissInv, NotTwice
<1> QED
  BY <1>2, <1>4 DEF MissInv

LEMMA MissSteps == [VaultNext]_vaultVars => S!Next \/ UNCHANGED missVars
  BY DEF VaultNext, vaultVars

LEMMA MissNextKeeps == MissInv /\ [VaultNext]_vaultVars => MissInv'
<1> SUFFICES ASSUME MissInv, [VaultNext]_vaultVars PROVE MissInv'
  OBVIOUS
<1>1. CASE UNCHANGED missVars
  BY <1>1, MissesStay
<1>2. CASE S!Next
  <2>1. ASSUME NEW q \in S!Queries, NEW kinds \in SUBSET S!Kinds,
               S!SearchNotes(q) \/ S!SearchAkashic(q, kinds)
        PROVE  MissInv'
    <3>1. \E some \in SUBSET S!Kinds : S!Search(q, some)
      BY <2>1 DEF S!SearchNotes, S!SearchAkashic, S!Kinds
    <3> QED
      BY <3>1, SearchKeeps
  <2> QED
    BY <1>2, <2>1, ReadKeeps, NoteQueryKeeps, RotateKeeps, NoteFailsKeeps, ResolveKeeps,
       AnalysisCutShort DEF S!Next, S!Analyse
<1> QED
  BY <1>1, <1>2, MissSteps

LEMMA MissInvariant == VaultSpec => []MissInv
<1>1. VaultInit => MissInv
  BY MissInitHolds DEF VaultInit
<1> QED
  BY <1>1, MissNextKeeps, PTL DEF VaultSpec

LEMMA ComponentsTyped == VaultSpec => []VaultTypeOK
<1>1. VaultInit => Init
  BY DEF VaultInit
<1>2. [VaultNext]_vaultVars => [Next]_vars
  BY DEF VaultNext, vaultVars
<1>3. VaultSpec => Spec
  BY <1>1, <1>2, PTL DEF VaultSpec, Spec
<1>4. VotesHonest => R!TypeOK
  BY DEF VotesHonest
<1>5. CapsuleInv => C!TypeOK
  BY DEF CapsuleInv
<1>6. LogInv => G!TypeOK
  <2> SUFFICES ASSUME LogTyped PROVE G!TypeOK
    BY DEF LogInv
  <2>1. MaxTicks \in Nat /\ LogTicks \cup {0} = 0..MaxTicks
    BY VaultBounds DEF G!Bounds, LogTicks
  <2>2. Copies = [anchor : [G!Stages -> 0..MaxTicks], entries : SUBSET (1..MaxEntries)]
    BY <2>1 DEF Copies, LogEntries
  <2>3. \A r \in Runs : logRuns[r] \in LogRun
    BY DEF LogTyped
  <2> QED
    BY <2>2, <2>3 DEF LogTyped, LogRun, EntriesFit, LogTicks, LogEntries, G!TypeOK
<1>7. MissInv => S!TypeOK
  BY MissFields DEF MissInv, MissTyped, Analysis, MissBounds, GapNote, S!TypeOK
<1> QED
  BY <1>3, <1>4, <1>5, <1>6, <1>7, TypeCorrect, VotesStayHonest, CapsuleInvariant,
     LogInvariant, MissInvariant, PTL DEF VaultTypeOK

\* As long as no analysis is cut short, a miss is counted at most once: what the note of a
\* query counts and what still waits in the log are no more than the misses there were
\* (subordinate.py:_analyze_search_gaps, site.py:_log_gap_query).
THEOREM MissesCountedOnce == VaultSpec => []CountedOnce
<1>1. MissInv => S!CountedOnce
  <2> SUFFICES ASSUME MissInv, missSpent.crashes = 0, task = S!Idle, NEW q \in S!Queries
               PROVE  missNotes["gap"][q].count + S!Lines("gap", q) <= asked[q]
    BY DEF S!CountedOnce
  <2>1. missNotes["gap"][q].count + Waiting(q) <= asked[q]
    BY DEF MissInv, NotTwice
  <2>2. Waiting(q) = S!Lines("gap", q)
    BY IdleAnalysis DEF Waiting, Analysing, S!Lines
  <2> QED
    BY <2>1, <2>2
<1> QED
  BY <1>1, ComponentsTyped, MissInvariant, PTL DEF CountedOnce
==============================================================================
