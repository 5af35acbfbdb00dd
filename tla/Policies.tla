------------------------------ MODULE Policies ------------------------------
(***************************************************************************)
(* One owner's policy documents: uploads that index a PDF (a draft         *)
(* transaction, chunking and embedding by Gemini in a worker thread with   *)
(* no transaction open, a completing transaction), deletions, questions    *)
(* over the indexed chunks, and the daily maintenance.                     *)
(*                                                                         *)
(* Documents are rows with fresh ids; a file is what its sha256 says.      *)
(* mark_ready writes the chunks and the status in one transaction whose    *)
(* foreign key holds the document row, so it is one step; the two          *)
(* statements of create_or_get_document are two, because READ COMMITTED    *)
(* lets a deletion commit between them.                                    *)
(***************************************************************************)
EXTENDS Integers

CONSTANTS
    Docs,       \* policy_documents ids (UUIDs: never reused)
    Files,      \* contents of PDFs, by their sha256
    Uploads,    \* POST /policies requests
    Questions   \* questions of the assistant and of search_work_policy

ASSUME PoliciesAssumption == Docs # {} /\ Files # {}

VARIABLES
    status,  \* policy_documents: "none" before the row, "deleted" after it
    file,    \* policy_documents: sha256 of the row
    chunks,  \* documents that have their policy_chunks rows
    upload,  \* upload request: where it is, its file, its document
    cited    \* question: documents of the evidence it is answering from

vars == <<status, file, chunks, upload, cited>>

Statuses == {"none", "indexing", "ready", "failed", "deleted"}
Upload == [at: {"idle", "conflict", "indexing", "done"},
           file: Files, doc: Docs,
           answer: {"none", "ready", "failed", "duplicate", "error"}]

TypeOK ==
    /\ status \in [Docs -> Statuses]
    /\ file \in [Docs -> Files]
    /\ chunks \subseteq Docs
    /\ upload \in [Uploads -> Upload]
    /\ cited \in [Questions -> SUBSET Docs]

Init ==
    /\ status = [d \in Docs |-> "none"]
    /\ file = [d \in Docs |-> CHOOSE f \in Files : TRUE]
    /\ chunks = {}
    /\ upload = [u \in Uploads |->
                   [at |-> "idle", file |-> CHOOSE f \in Files : TRUE,
                    doc |-> CHOOSE d \in Docs : TRUE, answer |-> "none"]]
    /\ cited = [q \in Questions |-> {}]

Stored == {d \in Docs : status[d] \notin {"none", "deleted"}}
OfFile(f) == {d \in Stored : file[d] = f}

-----------------------------------------------------------------------------
(* Upload. *)

Advance(u, from, fields) ==
    /\ upload[u].at = from
    /\ upload' = [upload EXCEPT ![u] = fields]

Finish(u, from, answer) ==
    Advance(u, from, [upload[u] EXCEPT !.at = "done", !.answer = answer])

\* create_or_get_document: the INSERT of a file the owner has not stored.
Insert(u, f, d) ==
    /\ status[d] = "none"
    /\ OfFile(f) = {}
    /\ Advance(u, "idle", [at |-> "indexing", file |-> f, doc |-> d, answer |-> "none"])
    /\ status' = [status EXCEPT ![d] = "indexing"]
    /\ file' = [file EXCEPT ![d] = f]
    /\ UNCHANGED <<chunks, cited>>

\* ON CONFLICT (owner_id, sha256) DO NOTHING.
InsertConflict(u, f) ==
    /\ OfFile(f) # {}
    /\ Advance(u, "idle", [upload[u] EXCEPT !.at = "conflict", !.file = f])
    /\ UNCHANGED <<status, file, chunks, cited>>

\* The SELECT by sha256: the document is the answer, whatever its status.
Duplicate(u) ==
    /\ \E d \in OfFile(upload[u].file) :
         Advance(u, "conflict", [upload[u] EXCEPT !.at = "done", !.doc = d,
                                                  !.answer = "duplicate"])
    /\ UNCHANGED <<status, file, chunks, cited>>

\* It has been deleted since: one() finds no row and the request fails.
DuplicateVanished(u) ==
    /\ OfFile(upload[u].file) = {}
    /\ Finish(u, "conflict", "error")
    /\ UNCHANGED <<status, file, chunks, cited>>

\* What if policy_chunks had no foreign key.
MarkReadyUnbound(u) ==
    LET d == upload[u].doc IN
    /\ chunks' = chunks \cup {d}
    /\ status' = [status EXCEPT ![d] = IF @ = "indexing" THEN "ready" ELSE @]
    /\ Finish(u, "indexing", "ready")
    /\ UNCHANGED <<file, cited>>

\* What if the UPDATE did not ask for status = 'indexing'.
MarkReadyLate(u) ==
    LET d == upload[u].doc IN
    /\ d \in Stored
    /\ chunks' = chunks \cup {d}
    /\ status' = [status EXCEPT ![d] = "ready"]
    /\ Finish(u, "indexing", "ready")
    /\ UNCHANGED <<file, cited>>

\* complete_indexing: the chunks replace those there are; the answer is the
\* row as it then is, so a document that the maintenance has given up keeps
\* its status and has chunks.
MarkReady(u) ==
    LET d == upload[u].doc
        next == IF status[d] = "indexing" THEN "ready" ELSE status[d]
    IN  /\ d \in Stored
        /\ chunks' = chunks \cup {d}
        /\ status' = [status EXCEPT ![d] = next]
        /\ Finish(u, "indexing", next)
        /\ UNCHANGED <<file, cited>>

\* The document has been deleted: its chunks violate the foreign key.
MarkReadyRefused(u) ==
    /\ upload[u].doc \notin Stored
    /\ Finish(u, "indexing", "error")
    /\ UNCHANGED <<status, file, chunks, cited>>

\* A GeminiRagError, PolicyTextError or PolicyServiceError of prepare_chunks.
MarkFailed(u) ==
    LET d == upload[u].doc
        next == IF status[d] = "indexing" THEN "failed" ELSE status[d]
    IN  /\ status' = [status EXCEPT ![d] = next]
        /\ Finish(u, "indexing", IF d \in Stored THEN next ELSE "error")
        /\ UNCHANGED <<file, chunks, cited>>

\* A QuotaExceededError of the Gemini cap is none of these, and the process
\* or the request may end: nothing records it.
IndexingEscapes(u) ==
    /\ Finish(u, "indexing", "error")
    /\ UNCHANGED <<status, file, chunks, cited>>

-----------------------------------------------------------------------------
(* The other requests, and the maintenance. *)

\* delete_document, at any point of an upload.
Delete(d) ==
    /\ d \in Stored
    /\ status' = [status EXCEPT ![d] = "deleted"]
    /\ chunks' = chunks \ {d}
    /\ UNCHANGED <<file, upload, cited>>

Searchable == {d \in chunks : status[d] = "ready"}

\* retrieve_evidence: chunks of ready documents above the threshold, if any.
Retrieve(q) ==
    /\ cited[q] = {}
    /\ \E found \in SUBSET Searchable : cited' = [cited EXCEPT ![q] = found]
    /\ UNCHANGED <<status, file, chunks, upload>>

\* The answer of Gemini to the evidence, or its refusal without evidence.
Answer(q) ==
    /\ cited[q] # {}
    /\ cited' = [cited EXCEPT ![q] = {}]
    /\ UNCHANGED <<status, file, chunks, upload>>

\* What if the maintenance looked for the status a row has by default.
StaleUploaded(d) ==
    /\ status[d] = "uploaded"
    /\ status' = [status EXCEPT ![d] = "failed"]
    /\ UNCHANGED <<file, chunks, upload, cited>>

\* An indexing that is a day old is marked failed, STALE_INDEXING.
Stale(d) ==
    /\ status[d] = "indexing"
    /\ status' = [status EXCEPT ![d] = "failed"]
    /\ UNCHANGED <<file, chunks, upload, cited>>

-----------------------------------------------------------------------------

UploadStep(u) ==
    \/ \E f \in Files :
         (\E d \in Docs : Insert(u, f, d)) \/ InsertConflict(u, f)
    \/ Duplicate(u) \/ DuplicateVanished(u)
    \/ MarkReady(u) \/ MarkReadyRefused(u) \/ MarkFailed(u) \/ IndexingEscapes(u)

Next ==
    \/ \E u \in Uploads : UploadStep(u)
    \/ \E d \in Docs : Delete(d) \/ Stale(d)
    \/ \E q \in Questions : Retrieve(q) \/ Answer(q)

\* Cloud Scheduler runs the maintenance every day.
Spec == Init /\ [][Next]_vars /\ \A d \in Docs : WF_vars(Stale(d))

-----------------------------------------------------------------------------
(* Properties. *)

\* What a search may return is whole, and nothing is left to search of a
\* document that was deleted while its upload was still indexing it.
IndexIsWhole ==
    /\ chunks \subseteq Stored
    /\ \A d \in Docs : status[d] = "ready" => d \in chunks

\* No document stays in indexing for ever, whatever became of its upload.
IndexingEnds == \A d \in Docs : status[d] = "indexing" ~> status[d] # "indexing"

\* The promise of Documents, where the documents that can be searched are the
\* ready ones with chunks: whatever the uploads do, each of their steps is a
\* step of it or none.  So a document comes to one end, which a late answer
\* does not undo, and evidence is taken from what was ready.
Library == INSTANCE Documents WITH index <- Searchable
ImplementsDocuments == Library!Safety
=============================================================================
