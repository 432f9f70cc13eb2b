------------------------------ MODULE Knowledge ------------------------------
(***************************************************************************)
(* What the rag service keeps of one document: in the vector store the     *)
(* points of its chunks, and in Redis the profile a model extracted of it  *)
(* and the document's entry in the index of profiles.  Uploads, listings   *)
(* and deletions run beside one another.  An upload is a chain of calls    *)
(* (embed batch by batch, upsert, analyse section by section, SET, SADD);  *)
(* each may fail, and the upload answers 200 all the same.                 *)
(***************************************************************************)
EXTENDS Integers, Sequences, FiniteSets, SequencesExt, FiniteSetsExt, Functions

CONSTANTS
    Uploads, Lists, Deletes,   \* the calls of /ingest and /strategies
    Findings,                  \* what a model may extract of a section:
                               \* [confidence, rules, limit], limit NotStated or a rule
    BatchSize,                 \* EMBEDDING_BATCH_SIZE
    Texts                      \* what is uploaded: <<chunks, sections>>, see Chunker

Calls == Uploads \cup Lists \cup Deletes
Nobody == "nobody"
NotStated == 0
Nothing == [by |-> Nobody]     \* no profile
Failed == [confidence |-> 0]   \* a section without an answer, or an empty one

VARIABLES
    pc,          \* of each call
    chunks, sections,   \* how many of them the upload's text has; no section: not analysed
    vectors,     \* embedded so far: the number of the chunk it belongs to, or 0
    found,       \* per section analysed so far, a finding or Failed
    points,      \* the document's points by chunk_index: [by, vector]
    profile, listed,    \* rag:strategy:<source_id>, and its entry in rag:strategy:index
    newest       \* the last upload to begin, while nothing has come between

rest == <<chunks, sections, found, vectors>>
vars == <<pc, chunks, sections, vectors, found, points, profile, listed, newest>>

Init ==
    /\ pc = [c \in Calls |-> "new"]
    /\ chunks = [u \in Uploads |-> 0] /\ sections = chunks
    /\ vectors = [u \in Uploads |-> <<>>] /\ found = vectors
    /\ points = <<>> /\ profile = Nothing /\ listed = FALSE /\ newest = Nobody

Step(c, from, to) == pc[c] = from /\ pc' = [pc EXCEPT ![c] = to]
Running(u) == pc[u] \notin {"new", "done"}
Undisturbed(yes) == newest' = IF yes THEN newest ELSE Nobody

-----------------------------------------------------------------------------
(* POST /ingest and /ingest/pdf.                                           *)

Begin(u) ==
    /\ Step(u, "new", "embed")
    /\ \E text \in Texts : /\ chunks' = [chunks EXCEPT ![u] = text[1]]
                          /\ sections' = [sections EXCEPT ![u] = text[2]]
    /\ newest' = IF \E v \in Uploads : Running(v) THEN Nobody ELSE u
    /\ UNCHANGED <<vectors, found, points, profile, listed>>

\* A variant of InOrder that takes the answer as it comes.
AsAnswered(batch) == batch

\* The answer of the embedding service, put in the order of its input.
InOrder(batch) ==
    [i \in DOMAIN batch |->
        CHOOSE text \in ToSet(batch) : Cardinality({ t \in ToSet(batch) : t <= text }) = i]

\* One batch: the answer may come in any order, and a failed batch gives zeros.
EmbedBatch(u) ==
    /\ pc[u] = "embed" /\ Len(vectors[u]) < chunks[u]
    /\ LET first == Len(vectors[u])
           size == Min({BatchSize, chunks[u] - first})
           texts == { first + i : i \in 1 .. size }
       IN  \E batch \in { InOrder(s) : s \in Bijection(1 .. size, texts) } \cup {[i \in 1 .. size |-> 0]} :
               vectors' = [vectors EXCEPT ![u] = @ \o batch]
    /\ UNCHANGED <<pc, chunks, sections, found, points, profile, listed, newest>>

\* The points of a call, over those the document has; what is beyond stays.
Upserted(u) ==
    [i \in 1 .. Max({chunks[u], Len(points)}) |->
        IF i <= chunks[u] THEN [by |-> u, vector |-> vectors[u][i]] ELSE points[i]]

\* One PUT, which may be refused, or done without an answer.
Upsert(u) ==
    /\ Len(vectors[u]) = chunks[u]
    /\ Step(u, "embed", IF sections[u] = 0 THEN "done" ELSE "analyse")
    /\ \/ points' = Upserted(u) /\ Undisturbed(TRUE)
       \/ UNCHANGED points /\ Undisturbed(FALSE)
    /\ vectors' = [vectors EXCEPT ![u] = <<>>]
    /\ UNCHANGED <<chunks, sections, found, profile, listed>>

\* _extract_section: tool input, or None after a timeout or an error.
AnalyseSection(u) ==
    /\ pc[u] = "analyse" /\ Len(found[u]) < sections[u]
    /\ \E answer \in Findings \cup {Failed} : found' = [found EXCEPT ![u] = Append(@, answer)]
    /\ UNCHANGED <<pc, chunks, sections, vectors, points, profile, listed, newest>>

\* The sections that were answered.
Answered(u) == { i \in DOMAIN found[u] : found[u][i] # Failed }

\* A variant of Leading that takes the first answer.
LeadingFirst(u) == found[u][Min(Answered(u))]

\* _merge_section_results: the leading finding is the first of the surest ones.
Leading(u) ==
    found[u][Min({ i \in Answered(u) : \A j \in Answered(u) : found[u][j].confidence <= found[u][i].confidence })]

FirstStated(u) ==
    LET stated == { i \in Answered(u) : found[u][i].limit # NotStated }
    IN  IF stated = {} THEN NotStated ELSE found[u][Min(stated)].limit

\* What analyse_document makes of it, the profile of an analysis that failed included.
ProfileOf(u) ==
    LET empty == Answered(u) = {}
    IN  [by |-> u,
         confidence |-> IF empty THEN 1 ELSE Leading(u).confidence,
         rules |-> UNION { found[u][i].rules : i \in Answered(u) },
         limit |-> FirstStated(u),
         complete |-> ~empty /\ Cardinality(Answered(u)) = sections[u]]

\* save_profile: SET, then SADD; an exception ends it.
SetProfile(u) ==
    /\ Len(found[u]) = sections[u]
    /\ \/ Step(u, "analyse", "sadd") /\ profile' = ProfileOf(u) /\ Undisturbed(TRUE)
       \/ Step(u, "analyse", "done") /\ profile' \in {ProfileOf(u), profile} /\ Undisturbed(FALSE)
    /\ UNCHANGED <<rest, points, listed>>

\* A list or a deletion that will still take the document from the index.
Removing == \E c \in Lists \cup Deletes : pc[c] = "srem"

AddToIndex(u) ==
    /\ Step(u, "sadd", "done")
    /\ \/ listed' = TRUE /\ Undisturbed(~Removing)
       \/ listed' \in {TRUE, listed} /\ Undisturbed(FALSE)
    /\ UNCHANGED <<rest, points, profile>>

-----------------------------------------------------------------------------
(* GET and DELETE /strategies; Redis; a restart of the service.            *)

\* SMEMBERS.
List(c) ==
    /\ Step(c, "new", IF listed THEN "get" ELSE "done")
    /\ UNCHANGED <<rest, points, profile, listed, newest>>

\* GET: an entry without a profile is taken out of the index.
GetListed(c) ==
    /\ Step(c, "get", IF profile = Nothing THEN "srem" ELSE "done")
    /\ UNCHANGED <<rest, points, profile, listed, newest>>

Delete(c) ==
    /\ Step(c, "new", "srem") /\ profile' = Nothing /\ Undisturbed(FALSE)
    /\ UNCHANGED <<rest, points, listed>>

RemoveFromIndex(c) ==
    /\ Step(c, "srem", "done") /\ listed' = FALSE
    /\ UNCHANGED <<rest, points, profile, newest>>

\* A command of a list or a deletion raises: the call ends.
CallFails(c) ==
    /\ pc[c] \in {"get", "srem"} /\ pc' = [pc EXCEPT ![c] = "done"]
    /\ UNCHANGED <<rest, points, profile, listed, newest>>

\* Redis may evict any key (allkeys-lru).
Evict ==
    /\ \/ profile' = Nothing /\ listed' = listed
       \/ profile' = profile /\ listed' = FALSE
    /\ Undisturbed(FALSE)
    /\ UNCHANGED <<pc, rest, points>>

Restart ==
    /\ pc' = [c \in Calls |-> IF pc[c] = "new" THEN "new" ELSE "done"]
    /\ vectors' = [u \in Uploads |-> <<>>]
    /\ Undisturbed(\A u \in Uploads : ~Running(u))
    /\ UNCHANGED <<chunks, sections, found, points, profile, listed>>

Next ==
    \/ \E u \in Uploads : \/ Begin(u) \/ EmbedBatch(u) \/ Upsert(u)
                          \/ AnalyseSection(u) \/ SetProfile(u) \/ AddToIndex(u)
    \/ \E c \in Lists : List(c) \/ GetListed(c)
    \/ \E c \in Deletes : Delete(c)
    \/ \E c \in Lists \cup Deletes : RemoveFromIndex(c) \/ CallFails(c)
    \/ Evict \/ Restart

Spec == Init /\ [][Next]_vars

-----------------------------------------------------------------------------
(* Whatever failed and whichever calls overlapped: a point's vector is     *)
(* that of its own chunk, or none at all (embed_texts, upsert_chunks).     *)
VectorsTheirOwn == \A i \in DOMAIN points : points[i].vector \in {0, i}

(* A stored profile says what was found in the sections and no more: it is *)
(* complete iff every section was answered, as sure as the surest of them, *)
(* has all their rules and a limit one of them stated (analyse_document).  *)
ProfileHonest ==
    profile # Nothing =>
        LET answers == ToSet(found[profile.by]) \ {Failed}
        IN  /\ profile.complete <=> Failed \notin ToSet(found[profile.by])
            /\ \A a \in answers : a.confidence <= profile.confidence /\ a.rules \subseteq profile.rules
            /\ profile.rules \subseteq UNION { a.rules : a \in answers }
            /\ answers # {} => \E a \in answers : a.confidence = profile.confidence
            /\ profile.limit \in { a.limit : a \in answers } \cup {NotStated}
            /\ profile.limit = NotStated => \A a \in answers : a.limit = NotStated

(* An upload that no failure, no other upload, no deletion and no eviction *)
(* came between is there in all three places: its points, its profile, and *)
(* the index, from which no list cleans it away (ingest_pdf).              *)
UploadStored ==
    newest # Nobody /\ pc[newest] = "done" =>
        /\ \A i \in 1 .. chunks[newest] : i \in DOMAIN points /\ points[i].by = newest
        /\ sections[newest] > 0 => profile.by = newest /\ listed

(* What is kept of a document is what was read in it.                      *)
DocumentKept == VectorsTheirOwn /\ ProfileHonest /\ UploadStored

(* "Re-ingesting the same source_id replaces all its chunks" (ingest.py:6) *)
(* but of a shorter text the older tail stays.                             *)
AllChunksReplaced ==
    newest # Nobody /\ pc[newest] = "done" => \A i \in DOMAIN points : points[i].by = newest
=============================================================================
