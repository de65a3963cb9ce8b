---------------------------- MODULE SearchIndexes ----------------------------
(***************************************************************************)
(* What a search over the vault reads instead of the files: the list of    *)
(* notes kept for half a minute, the full-text index, and the vectors of   *)
(* documents kept in memory and saved to disk some seconds after a change. *)
(* Searches run in threads of their own beside the writers.  The pages'    *)
(* search and the agent's search for capsules share the vectors, the first *)
(* under slugs, the second under paths.                                    *)
(***************************************************************************)
EXTENDS Naturals, FiniteSets

CONSTANTS
    Paths,              \* numbered, from 1
    Searchers, Writers,
    MaxWrites,          \* bound: changes of notes
    MaxSearches,        \* bound: searches begun
    MaxTrouble          \* bound: failures of the embedding service, restarts

IndexBounds ==
    {MaxWrites, MaxSearches, MaxTrouble} \subseteq Nat /\ Paths \subseteq Nat \ {0}

VARIABLES
    notes,      \* the file of each path: how often it was written, whether it is there
    returned,   \* writes of each path whose writer is done
    writers,    \* what each writer is doing
    cached,     \* _NOTES_CACHE: the version read of each path, or nothing
    loading,    \* whether _NOTES_CACHE_LOCK is held to load, and what was read so far
    words,      \* the full-text index: the version indexed of each path, 0 for none
    vectors,    \* _mem_cache: versions embedded, of the keys it has
    disk,       \* the same as saved
    dirty, timer,
    saving,     \* whether the timer's thread is saving, and what
    searches,   \* what each searcher is doing
    embedded,   \* what was embedded since the start
    spent       \* how much of each bound is used

vars == <<notes, returned, writers, cached, loading, words, vectors, disk, dirty, timer,
          saving, searches, embedded, spent>>

noteVars == <<notes, returned, writers>>
listVars == <<cached, loading>>
vectorVars == <<vectors, disk, dirty, timer, saving, embedded>>

Free == 0
Empty == [k \in {} |-> 0]
NoList == Empty
Unlocked == [held |-> FALSE, read |-> Empty]
NoSave == [on |-> FALSE, what |-> Empty]

Kinds == {"pages", "capsules"}
\* A note's slug is no path.
Key(kind, p) == <<kind, p>>
Keys == Kinds \X Paths
Live == {p \in Paths : notes[p].there}
Idle == [pc |-> "idle", kind |-> "pages", docs |-> Empty, expect |-> [p \in Paths |-> 0],
         missing |-> {}, hits |-> Empty]

Spend(what, n, bound) ==
    /\ spent[what] + n <= bound
    /\ spent' = [spent EXCEPT ![what] = @ + n]

----------------------------------------------------------------------------
(* Writers: write_document clears the list of notes when it is done, after *)
(* the publication's synchronisation; a deletion leaves the list alone.    *)

Write(w, p) ==
    /\ writers[w] = Free
    /\ Spend("writes", 1, MaxWrites)
    /\ notes' = [notes EXCEPT ![p] = [version |-> @.version + 1, there |-> TRUE]]
    /\ writers' = [writers EXCEPT ![w] = p]
    /\ UNCHANGED <<returned, listVars, words, vectorVars, searches>>

\* Mutant of Invalidate: the lock is not waited for.
InvalidateAnyTime == cached' = NoList

\* invalidate_notes_cache, under the lock the loading thread holds.
Invalidate == loading = Unlocked /\ cached' = NoList

Return(w) ==
    /\ writers[w] # Free
    /\ Invalidate
    /\ returned' = [returned EXCEPT ![writers[w]] = notes[writers[w]].version]
    /\ writers' = [writers EXCEPT ![w] = Free]
    /\ UNCHANGED <<notes, loading, words, vectorVars, searches, spent>>

Delete(p) ==
    /\ p \in Live /\ \A w \in Writers : writers[w] # p
    /\ Spend("writes", 1, MaxWrites)
    /\ notes' = [notes EXCEPT ![p] = [version |-> @.version + 1, there |-> FALSE]]
    /\ UNCHANGED <<returned, writers, listVars, words, vectorVars, searches>>

----------------------------------------------------------------------------
(* _load_notes, and the full-text search with it.                          *)

\* A search begins; whoever finds no list loads it, the others wait for the lock.
Begin(s, kind) ==
    /\ searches[s].pc = "idle"
    /\ Spend("searches", 1, MaxSearches)
    /\ searches' = [searches EXCEPT ![s] =
           [Idle EXCEPT !.pc = IF kind = "pages" THEN "list" ELSE "files",
                        !.kind = kind, !.expect = returned]]
    /\ UNCHANGED <<noteVars, listVars, words, vectorVars>>

StartLoading(s) ==
    /\ searches[s].pc = "list" /\ cached = NoList /\ loading = Unlocked
    /\ loading' = [held |-> TRUE, read |-> Empty]
    /\ UNCHANGED <<noteVars, cached, words, vectorVars, searches, spent>>

\* The files are read one after the other.
ReadNote(p) ==
    /\ loading.held
    /\ p \notin DOMAIN loading.read
    /\ \A q \in Paths : q \in DOMAIN loading.read \/ q >= p
    /\ loading' = [loading EXCEPT !.read = [q \in DOMAIN @ \cup {p} |->
           IF q # p THEN @[q] ELSE IF notes[p].there THEN notes[p].version ELSE 0]]
    /\ UNCHANGED <<noteVars, cached, words, vectorVars, searches, spent>>

EndLoading ==
    /\ loading.held /\ DOMAIN loading.read = Paths
    /\ cached' = loading.read
    /\ loading' = Unlocked
    /\ UNCHANGED <<noteVars, words, vectorVars, searches, spent>>

\* Half a minute passes.
Expire ==
    /\ cached # NoList /\ loading = Unlocked
    /\ cached' = NoList
    /\ UNCHANGED <<noteVars, loading, words, vectorVars, searches, spent>>

\* Mutant of Indexed: rows of notes that are gone stay.
IndexedStill(list, pool) == [p \in Paths |-> IF p \in pool THEN list[p] ELSE words[p]]

\* _sync_index: the index is made equal to the documents of this search.
Indexed(list, pool) == [p \in Paths |-> IF p \in pool THEN list[p] ELSE 0]

\* One transaction under a lock of its own: the index follows this search's documents, then it
\* answers.  Vectors are wanted of the notes the words hit, or of all if they hit none.
Lexical(s, pool, hit) ==
    /\ searches[s].pc = "list" /\ cached # NoList /\ loading = Unlocked
    /\ pool \subseteq {p \in Paths : cached[p] > 0}
    /\ words' = Indexed(cached, pool)
    /\ LET hits == {p \in hit : words'[p] > 0}
           wanted == IF hits \cap pool = {} THEN pool ELSE hits \cap pool
       IN searches' = [searches EXCEPT ![s] =
              [@ EXCEPT !.pc = IF wanted = {} THEN "idle" ELSE "ensure",
                        !.docs = [p \in wanted |-> cached[p]],
                        !.hits = [p \in hits |-> words'[p]]]]
    /\ UNCHANGED <<noteVars, listVars, vectorVars, spent>>

\* The agent reads the files themselves, and no words.
ReadFiles(s) ==
    /\ searches[s].pc = "files"
    /\ searches' = [searches EXCEPT ![s] =
           [@ EXCEPT !.pc = IF Live = {} THEN "idle" ELSE "ensure",
                     !.docs = [p \in Live |-> notes[p].version]]]
    /\ UNCHANGED <<noteVars, listVars, words, vectorVars, spent>>

----------------------------------------------------------------------------
(* semantic_rank, which takes no lock.                                     *)

\* What _ensure_document_vectors keeps: the keys of this search's documents.
Kept(s) == {k \in DOMAIN vectors : \E p \in DOMAIN searches[s].docs : k = Key(searches[s].kind, p)}

\* _schedule_bg_save
Scheduled == dirty' = TRUE /\ timer' = TRUE

Ensure(s) ==
    LET search == searches[s]
        missing == {p \in DOMAIN search.docs :
                       LET k == Key(search.kind, p)
                       IN  k \in DOMAIN vectors => vectors[k] # search.docs[p]}
    IN  /\ search.pc = "ensure"
        /\ vectors' = [k \in Kept(s) |-> vectors[k]]
        /\ searches' = [searches EXCEPT ![s] =
               [@ EXCEPT !.pc = IF missing = {} THEN "score" ELSE "embed",
                         !.missing = missing, !.hits = Empty]]
        \* with documents to embed the save is scheduled when they are
        /\ IF missing = {} /\ vectors' # vectors THEN Scheduled ELSE UNCHANGED <<dirty, timer>>
        /\ UNCHANGED <<noteVars, listVars, words, disk, saving, embedded, spent>>

Embed(s) ==
    LET search == searches[s]
        new == {Key(search.kind, p) : p \in search.missing}
    IN  /\ search.pc = "embed"
        /\ vectors' = [k \in DOMAIN vectors \cup new |->
               IF k \in new THEN search.docs[k[2]] ELSE vectors[k]]
        /\ embedded' = embedded \cup {<<Key(search.kind, p), search.docs[p]>> : p \in search.missing}
        /\ Scheduled
        /\ searches' = [searches EXCEPT ![s] = [@ EXCEPT !.pc = "score", !.missing = {}]]
        /\ UNCHANGED <<noteVars, listVars, words, disk, saving, spent>>

\* The search ends with what has a vector, whoever put it there.
Score(s) ==
    /\ searches[s].pc = "score"
    /\ searches' = [searches EXCEPT ![s] = Idle]
    /\ UNCHANGED <<noteVars, listVars, words, vectorVars, spent>>

\* No answer from the service, for the documents or for the query: nothing is found.
EmbedFails(s) ==
    /\ searches[s].pc \in {"embed", "score"}
    /\ Spend("trouble", 1, MaxTrouble)
    /\ searches' = [searches EXCEPT ![s] = Idle]
    /\ UNCHANGED <<noteVars, listVars, words, vectorVars>>

----------------------------------------------------------------------------
(* Saving, in the thread of the last timer.                                *)

TimerFires ==
    /\ timer /\ ~saving.on
    /\ timer' = FALSE
    /\ saving' = IF dirty THEN [on |-> TRUE, what |-> vectors] ELSE NoSave
    /\ UNCHANGED <<noteVars, listVars, words, vectors, disk, dirty, searches, embedded, spent>>

Save ==
    /\ saving.on
    /\ disk' = saving.what
    /\ dirty' = FALSE
    /\ saving' = NoSave
    /\ UNCHANGED <<noteVars, listVars, words, vectors, timer, searches, embedded, spent>>

\* The vectors changed in size while they were being written out, or the disk is full: the
\* thread ends, and nothing is scheduled.
SaveFails ==
    /\ saving.on
    /\ Spend("trouble", 1, MaxTrouble)
    /\ saving' = NoSave
    /\ UNCHANGED <<noteVars, listVars, words, vectors, disk, dirty, timer, searches, embedded>>

\* A file that was half written is no cache.
Restart ==
    /\ Spend("trouble", 1, MaxTrouble)
    /\ disk' = IF saving.on THEN Empty ELSE disk
    /\ vectors' = disk' /\ embedded' = {<<k, vectors'[k]>> : k \in DOMAIN vectors'}
    /\ dirty' = FALSE /\ timer' = FALSE /\ saving' = NoSave
    /\ cached' = NoList /\ loading' = Unlocked
    /\ writers' = [w \in Writers |-> Free]
    /\ searches' = [s \in Searchers |-> Idle]
    /\ UNCHANGED <<notes, returned, words>>

Init ==
    /\ notes = [p \in Paths |-> [version |-> 1, there |-> TRUE]]
    /\ returned = [p \in Paths |-> 1]
    /\ writers = [w \in Writers |-> Free]
    /\ cached = NoList /\ loading = Unlocked
    /\ words = [p \in Paths |-> 0]
    /\ vectors = Empty /\ disk = Empty /\ embedded = {}
    /\ dirty = FALSE /\ timer = FALSE /\ saving = NoSave
    /\ searches = [s \in Searchers |-> Idle]
    /\ spent = [w \in {"writes", "searches", "trouble"} |-> 0]

Next ==
    \/ \E w \in Writers : Return(w) \/ \E p \in Paths : Write(w, p)
    \/ \E p \in Paths : Delete(p) \/ ReadNote(p)
    \/ EndLoading \/ Expire
    \/ \E s \in Searchers :
           \/ \E kind \in Kinds : Begin(s, kind)
           \/ StartLoading(s)
           \/ \E pool, hit \in SUBSET Paths : Lexical(s, pool, hit)
           \/ ReadFiles(s)
           \/ Ensure(s) \/ Embed(s) \/ Score(s) \/ EmbedFails(s)
    \/ TimerFires \/ Save \/ SaveFails \/ Restart

Spec == Init /\ [][Next]_vars

----------------------------------------------------------------------------
(* Properties.                                                             *)

Versions == 0..(MaxWrites + 1)

TypeOK ==
    /\ notes \in [Paths -> [version : Versions, there : BOOLEAN]]
    /\ returned \in [Paths -> Versions] /\ words \in [Paths -> Versions]
    /\ writers \in [Writers -> Paths \cup {Free}]
    /\ DOMAIN vectors \subseteq Keys /\ DOMAIN disk \subseteq Keys
    /\ dirty \in BOOLEAN /\ timer \in BOOLEAN
    /\ \A s \in Searchers :
           /\ searches[s].pc \in {"idle", "list", "files", "ensure", "embed", "score"}
           /\ searches[s].missing \subseteq DOMAIN searches[s].docs

\* A search that begins after a write has returned reads what was written, or later: no
\* list that was being loaded meanwhile outlives the write (site.py:_load_notes,
\* invalidate_notes_cache; vault.py:write_document).
ReadsOwnWrites ==
    \A s \in Searchers : \A p \in DOMAIN searches[s].docs :
        searches[s].docs[p] >= searches[s].expect[p]

\* The full-text search answers with notes it was given, as they were given to it, though
\* searches over other notes share the index (fts_search.py:lexical_rank).
WordsOfTheseNotes ==
    \A s \in Searchers : \A p \in DOMAIN searches[s].hits :
        searches[s].pc = "ensure" =>
            p \in DOMAIN searches[s].docs /\ searches[s].hits[p] = searches[s].docs[p]

\* Does not hold: another search takes vectors away, or replaces them with those of the
\* version it was given, between the embedding of documents and their scoring.
ScoresOfOwnDocuments ==
    \A s \in Searchers : searches[s].pc = "score" =>
        \A p \in DOMAIN searches[s].docs :
            LET k == Key(searches[s].kind, p)
            IN  k \in DOMAIN vectors /\ vectors[k] = searches[s].docs[p]

\* What the code says of _dirty, "changed since the last save": does not hold, as a save
\* that ends clears what a search has set since it began.
DirtyIfUnsaved ==
    ~saving.on /\ ~dirty => vectors = disk

\* What the code says of the search for capsules, "the capsule pool is already cached":
\* a document that was embedded and has not changed since is not embedded again.
EmbeddedOnce ==
    \A s \in Searchers : searches[s].pc = "embed" =>
        \A p \in searches[s].missing :
            <<Key(searches[s].kind, p), searches[s].docs[p]>> \notin embedded
=============================================================================
