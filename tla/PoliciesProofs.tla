--------------------------- MODULE PoliciesProofs ---------------------------
(***************************************************************************)
(* For any documents, files, uploads and questions: the invariants of      *)
(* Policies, whose conjunction is inductive, and that every step of the    *)
(* uploads, the maintenance and the questions is a step of the abstract    *)
(* store of Documents, or none that it can see.                            *)
(***************************************************************************)
EXTENDS Policies, Chunking, FiniteSetTheorems, WellFoundedInduction, TLAPS

IInv == TypeOK /\ IndexIsWhole

-----------------------------------------------------------------------------

LEMMA InitIInv == Init => IInv
  <1> SUFFICES ASSUME Init PROVE IInv
    OBVIOUS
  <1>1. (CHOOSE f \in Files : TRUE) \in Files
    BY PoliciesAssumption
  <1>2. (CHOOSE d \in Docs : TRUE) \in Docs
    BY PoliciesAssumption
  <1>3. TypeOK
    BY <1>1, <1>2 DEF Init, TypeOK, Statuses, Upload
  <1>4. IndexIsWhole
    BY DEF Init, IndexIsWhole, Stored
  <1> QED
    BY <1>3, <1>4 DEF IInv

\* The document of an upload and what a step makes of it have their types.
LEMMA NextTypeOK == TypeOK /\ [Next]_vars => TypeOK'
  <1> SUFFICES ASSUME TypeOK, [Next]_vars PROVE TypeOK'
    OBVIOUS
  <1> USE DEF TypeOK, Statuses, Upload
  <1>1. ASSUME NEW u \in Uploads, NEW f \in Files, NEW d \in Docs, Insert(u, f, d)
        PROVE TypeOK'
    BY <1>1 DEF Insert, Advance
  <1>2. ASSUME NEW u \in Uploads, NEW f \in Files, InsertConflict(u, f) PROVE TypeOK'
    BY <1>2 DEF InsertConflict, Advance
  <1>3. ASSUME NEW u \in Uploads, Duplicate(u) PROVE TypeOK'
    <2>1. PICK d \in Docs :
            upload' = [upload EXCEPT ![u] =
                         [upload[u] EXCEPT !.at = "done", !.doc = d, !.answer = "duplicate"]]
      BY <1>3 DEF Duplicate, Advance, OfFile, Stored
    <2>2. [upload[u] EXCEPT !.at = "done", !.doc = d, !.answer = "duplicate"] \in Upload
      <3>1. upload[u] \in Upload
        OBVIOUS
      <3> QED
        BY <3>1
    <2>3. upload' \in [Uploads -> Upload]
      BY <2>1, <2>2
    <2> QED
      BY <1>3, <2>3 DEF Duplicate
  <1>4. ASSUME NEW u \in Uploads,
               DuplicateVanished(u) \/ MarkReadyRefused(u) \/ IndexingEscapes(u)
        PROVE TypeOK'
    BY <1>4 DEF DuplicateVanished, MarkReadyRefused, IndexingEscapes, Finish, Advance
  <1>5. ASSUME NEW u \in Uploads, MarkReady(u) PROVE TypeOK'
    <2>1. status[upload[u].doc] \in {"indexing", "ready", "failed"}
      BY <1>5 DEF MarkReady, Stored
    <2> QED
      BY <1>5, <2>1 DEF MarkReady, Finish, Advance
  <1>6. ASSUME NEW u \in Uploads, MarkFailed(u) PROVE TypeOK'
    <2>1. upload[u].doc \in Docs
      OBVIOUS
    <2>2. status' \in [Docs -> Statuses]
      BY <1>6, <2>1 DEF MarkFailed
    <2>3. upload' \in [Uploads -> Upload]
      <3>1. PICK a \in {"failed", "ready", "error"} :
              upload' = [upload EXCEPT ![u] = [upload[u] EXCEPT !.at = "done", !.answer = a]]
        BY <1>6, <2>1 DEF MarkFailed, Finish, Advance, Stored
      <3>2. upload[u] \in Upload
        OBVIOUS
      <3>3. [upload[u] EXCEPT !.at = "done", !.answer = a] \in Upload
        BY <3>2
      <3> QED
        BY <3>1, <3>3
    <2> QED
      BY <1>6, <2>2, <2>3 DEF MarkFailed
  <1>7. ASSUME NEW d \in Docs, Delete(d) \/ Stale(d) PROVE TypeOK'
    BY <1>7 DEF Delete, Stale
  <1>8. ASSUME NEW q \in Questions, Retrieve(q) \/ Answer(q) PROVE TypeOK'
    BY <1>8 DEF Retrieve, Answer, Searchable
  <1>9. CASE UNCHANGED vars
    BY <1>9 DEF vars
  <1> QED
    BY <1>1, <1>2, <1>3, <1>4, <1>5, <1>6, <1>7, <1>8, <1>9 DEF Next, UploadStep

-----------------------------------------------------------------------------

\* Chunks are written to a stored row with its status, and go with the row.
LEMMA NextWhole == IInv /\ [Next]_vars => IndexIsWhole'
  <1> SUFFICES ASSUME IInv, [Next]_vars PROVE IndexIsWhole'
    OBVIOUS
  <1> USE DEF IInv, TypeOK, Upload, IndexIsWhole, Stored
  <1>1. ASSUME NEW u \in Uploads, NEW f \in Files, NEW d \in Docs, Insert(u, f, d)
        PROVE IndexIsWhole'
    BY <1>1 DEF Insert
  <1>2. ASSUME NEW u \in Uploads, MarkReady(u) PROVE IndexIsWhole'
    BY <1>2 DEF MarkReady
  <1>3. ASSUME NEW u \in Uploads, MarkFailed(u) PROVE IndexIsWhole'
    BY <1>3 DEF MarkFailed
  <1>4. ASSUME NEW d \in Docs, Delete(d) PROVE IndexIsWhole'
    BY <1>4 DEF Delete
  <1>5. ASSUME NEW d \in Docs, Stale(d) PROVE IndexIsWhole'
    BY <1>5 DEF Stale
  <1>6. CASE UNCHANGED <<status, chunks>>
    BY <1>6
  <1> QED
    BY <1>1, <1>2, <1>3, <1>4, <1>5, <1>6
    DEF Next, UploadStep, InsertConflict, Duplicate, DuplicateVanished, MarkReadyRefused,
        IndexingEscapes, Retrieve, Answer, vars

LEMMA NextIInv == IInv /\ [Next]_vars => IInv'
  BY NextTypeOK, NextWhole DEF IInv

LEMMA Inductive == Spec => []IInv
  BY InitIInv, NextIInv, PTL DEF Spec

-----------------------------------------------------------------------------

\* Rows, uploads and evidence keep their types through every request.
THEOREM TypeCorrect == Spec => []TypeOK
  <1>1. IInv => TypeOK
    BY DEF IInv
  <1> QED
    BY <1>1, Inductive, PTL

\* complete_indexing and delete_document, in any order, leave chunks only to
\* stored documents and a ready document never without them.
THEOREM IndexWhole == Spec => []IndexIsWhole
  <1>1. IInv => IndexIsWhole
    BY DEF IInv
  <1> QED
    BY <1>1, Inductive, PTL

-----------------------------------------------------------------------------
(* The refinement. *)

\* The last step of an indexing publishes its document, unless it has been
\* given up: then the chunks it leaves cannot be searched.
LEMMA MarkReadyRefines ==
  ASSUME IInv, NEW u \in Uploads, MarkReady(u)
  PROVE  [Library!Next]_(Library!libraryVars)
  <1> DEFINE d == upload[u].doc
  <1> USE DEF IInv, TypeOK, Upload, MarkReady
  <1>1. d \in Docs /\ UNCHANGED <<file, cited>>
    OBVIOUS
  <1>2. CASE status[d] = "indexing"
    <2>1. status' = [status EXCEPT ![d] = "ready"]
      BY <1>2
    <2>2. Searchable' = Searchable \cup {d}
      BY <1>1, <2>1 DEF Searchable
    <2>3. Library!Publish(d)
      BY <1>1, <1>2, <2>1, <2>2 DEF Library!Publish
    <2> QED
      BY <1>1, <2>3 DEF Library!Next, Library!DocumentStep
  <1>3. CASE status[d] # "indexing"
    <2>1. status' = status
      BY <1>3
    <2>2. status[d] = "ready" => d \in chunks
      BY <1>1 DEF IndexIsWhole
    <2>3. Searchable' = Searchable
      BY <1>1, <2>1, <2>2 DEF Searchable
    <2> QED
      BY <1>1, <2>1, <2>3 DEF Library!libraryVars, Library!docVars
  <1> QED
    BY <1>2, <1>3

\* A document that is still being indexed is given up, any other is left alone.
LEMMA GivingUpRefines ==
  ASSUME IInv, NEW d \in Docs, UNCHANGED <<file, chunks, cited>>,
         status' = [status EXCEPT ![d] = IF status[d] = "indexing" THEN "failed" ELSE status[d]]
  PROVE  [Library!Next]_(Library!libraryVars)
  <1> USE DEF IInv, TypeOK
  <1>1. Searchable' = Searchable
    BY DEF Searchable
  <1>2. CASE status[d] = "indexing"
    <2>1. Library!GiveUp(d)
      BY <1>1, <1>2 DEF Library!GiveUp
    <2> QED
      BY <2>1 DEF Library!Next, Library!DocumentStep
  <1>3. CASE status[d] # "indexing"
    BY <1>1, <1>3 DEF Library!libraryVars, Library!docVars
  <1> QED
    BY <1>2, <1>3

LEMMA StepRefines == IInv /\ [Next]_vars => [Library!Next]_(Library!libraryVars)
  <1> SUFFICES ASSUME IInv, [Next]_vars PROVE [Library!Next]_(Library!libraryVars)
    OBVIOUS
  <1>1. ASSUME NEW u \in Uploads, NEW f \in Files, NEW d \in Docs, Insert(u, f, d)
        PROVE  [Library!Next]_(Library!libraryVars)
    <2>1. \A e \in Library!Held : file[e] # f
      BY <1>1 DEF Insert, OfFile, Stored, Library!Held
    <2>2. Searchable' = Searchable
      BY <1>1 DEF Insert, Searchable, IInv, TypeOK
    <2>3. Library!Store(d, f) /\ UNCHANGED cited
      BY <1>1, <2>1, <2>2 DEF Insert, Library!Store
    <2> QED
      BY <2>3 DEF Library!Next, Library!DocumentStep
  <1>2. ASSUME NEW u \in Uploads, MarkReady(u) PROVE [Library!Next]_(Library!libraryVars)
    BY <1>2, MarkReadyRefines
  <1>3. ASSUME NEW u \in Uploads, MarkFailed(u) PROVE [Library!Next]_(Library!libraryVars)
    <2>1. upload[u].doc \in Docs
      BY DEF IInv, TypeOK, Upload
    <2> QED
      BY <1>3, <2>1, GivingUpRefines DEF MarkFailed
  <1>4. ASSUME NEW d \in Docs, Stale(d) PROVE [Library!Next]_(Library!libraryVars)
    BY <1>4, GivingUpRefines DEF Stale
  <1>5. ASSUME NEW d \in Docs, Delete(d) PROVE [Library!Next]_(Library!libraryVars)
    <2>1. Searchable' = Searchable \ {d}
      BY <1>5 DEF Delete, Searchable, IInv, TypeOK
    <2>2. Library!Remove(d) /\ UNCHANGED cited
      BY <1>5, <2>1 DEF Delete, Stored, Library!Remove, Library!Held
    <2> QED
      BY <2>2 DEF Library!Next, Library!DocumentStep
  <1>6. ASSUME NEW q \in Questions, Retrieve(q) PROVE [Library!Next]_(Library!libraryVars)
    <2>1. Searchable' = Searchable
      BY <1>6 DEF Retrieve, Searchable
    <2>2. Library!Cite(q)
      BY <1>6, <2>1 DEF Retrieve, Library!Cite, Library!docVars
    <2> QED
      BY <2>2 DEF Library!Next
  <1>7. ASSUME NEW q \in Questions, Answer(q) PROVE [Library!Next]_(Library!libraryVars)
    <2>1. Searchable' = Searchable
      BY <1>7 DEF Answer, Searchable
    <2>2. Library!Forget(q)
      BY <1>7, <2>1 DEF Answer, Library!Forget, Library!docVars
    <2> QED
      BY <2>2 DEF Library!Next
  <1>8. CASE UNCHANGED <<status, file, chunks, cited>>
    BY <1>8 DEF Library!libraryVars, Library!docVars, Searchable
  <1> QED
    BY <1>1, <1>2, <1>3, <1>4, <1>5, <1>6, <1>7, <1>8
    DEF Next, UploadStep, InsertConflict, Duplicate, DuplicateVanished, MarkReadyRefused,
        IndexingEscapes, vars

LEMMA InitRefines == Init => Library!Init
  BY InitIInv DEF Init, IInv, TypeOK, Library!Init, Searchable

\* The uploads implement the abstract store: a file is stored once, an
\* indexing is settled once, and a question cites what can be searched.
THEOREM UploadsRefine == Spec => ImplementsDocuments
  <1>1. Init => Library!Init
    BY InitRefines
  <1>2. IInv /\ [Next]_vars => [Library!Next]_(Library!libraryVars)
    BY StepRefines
  <1> QED
    BY <1>1, <1>2, Inductive, PTL DEF Spec, ImplementsDocuments, Library!Safety

-----------------------------------------------------------------------------
(***************************************************************************)
(* For every document and every pair of sizes that the code accepts: the   *)
(* chunks lie within their pages and the size limit, and no text is lost.  *)
(* Every pass comes forward; that the loop ends is left to TLC.            *)
(***************************************************************************)

ChunkingIInv == ChunkingTypeOK /\ IsFiniteSet(cutChunks) /\ NothingLost

Numbered == [max: Nat \ {0}, overlap: Nat]

-----------------------------------------------------------------------------

LEMMA SizesOK == ChunkingTypeOK => size \in Numbered /\ size.overlap < size.max
  BY ChunkingAssumption DEF ChunkingTypeOK, Numbered

LEMMA PagesOK ==
    ASSUME ChunkingTypeOK, NEW p \in 1..Len(pages)
    PROVE  Len0(p) \in Nat
  BY DEF ChunkingTypeOK, Len0

LEMMA InitChunkingIInv == ChunkingInit => ChunkingIInv
  <1> SUFFICES ASSUME ChunkingInit PROVE ChunkingIInv
    OBVIOUS
  <1>1. pages \in Seq(Seq(Kinds)) /\ size \in Sizes
    BY ChunkingAssumption DEF ChunkingInit
  <1>2. page \in 1..(Len(pages) + 1) /\ start \in Nat
    BY <1>1 DEF ChunkingInit
  <1>3. IsFiniteSet(cutChunks)
    BY FS_EmptySet DEF ChunkingInit
  <1>4. NothingLost
    BY <1>1 DEF ChunkingInit, NothingLost, Passed, Offsets, Len0
  <1> QED
    BY <1>1, <1>2, <1>3, <1>4 DEF ChunkingInit, ChunkingIInv, ChunkingTypeOK

\* Wherever it is split, a chunk is not empty and not longer than the limit.
LEMMA EndOfChunk ==
    ASSUME ChunkingTypeOK, page <= Len(pages), start < Len0(page), NEW end \in Int, IsEnd(end)
    PROVE  /\ start < end /\ end <= Len0(page)
           /\ end - start <= size.max
  <1>1. page \in 1..Len(pages)
    BY DEF ChunkingTypeOK
  <1>2. Len0(page) \in Nat /\ start \in Nat
    BY <1>1, PagesOK DEF ChunkingTypeOK
  <1>3. size.max \in Nat \ {0}
    BY SizesOK DEF Numbered
  <1>4. /\ HardEnd \in Nat /\ start < HardEnd /\ HardEnd <= Len0(page)
        /\ HardEnd - start <= size.max
    BY <1>2, <1>3 DEF HardEnd
  <1>5. CASE end = HardEnd
    BY <1>4, <1>5
  <1>6. ASSUME NEW split \in Splits, end = split + 1
        PROVE  start < end /\ end <= Len0(page) /\ end - start <= size.max
    <2>1. split \in Int /\ start <= split /\ split < HardEnd
      BY <1>2 DEF Splits, Separators, Offsets
    <2> QED
      BY <1>2, <1>3, <1>4, <1>6, <2>1
  <1> QED
    BY <1>5, <1>6 DEF IsEnd

\* The next chunk begins behind the start of this one and not behind its end.
LEMMA NextStartOverlaps ==
    ASSUME ChunkingTypeOK, NEW end \in Int, start < end
    PROVE  NextStart(end) \in Nat /\ start < NextStart(end) /\ NextStart(end) <= end
  <1>1. start \in Nat /\ size.overlap \in Nat
    BY SizesOK DEF ChunkingTypeOK, Numbered
  <1> QED
    BY <1>1 DEF NextStart

\* A chunk that is cut is within its page; the other chunks stay as they are.
LEMMA Appended ==
    ASSUME ChunkingIInv, page <= Len(pages), start < Len0(page), NEW end \in Int, IsEnd(end),
           Append0(end)
    PROVE  /\ IsFiniteSet(cutChunks')
           /\ cutChunks \subseteq cutChunks'
           /\ \A c \in cutChunks' :
                \/ c \in cutChunks
                \/ c.page = page /\ c.index \in Nat /\ c.from = start /\ c.to = end
           /\ \A i \in start..(end - 1) : At(page, i) \notin Blanks =>
                \E c \in cutChunks' : c.page = page /\ c.from <= i /\ i < c.to
  <1> DEFINE new == [page |-> page, index |-> Cardinality(cutChunks), from |-> start, to |-> end]
  <1>1. Cardinality(cutChunks) \in Nat /\ IsFiniteSet(cutChunks)
    BY FS_CardinalityType DEF ChunkingIInv
  <1>2. start \in Nat
    BY DEF ChunkingIInv, ChunkingTypeOK
  <1>3. CASE HasText(end)
    <2>1. cutChunks' = cutChunks \cup {new}
      BY <1>3 DEF Append0
    <2>2. IsFiniteSet(cutChunks')
      BY <1>1, <2>1, FS_AddElement
    <2>3. new.page = page /\ new.index \in Nat /\ new.from = start /\ new.to = end
      BY <1>1
    <2>4. \A i \in start..(end - 1) : new.from <= i /\ i < new.to
      BY <1>2, <2>3
    <2> HIDE DEF new
    <2> QED
      BY <2>1, <2>2, <2>3, <2>4
  <1>4. CASE ~HasText(end)
    BY <1>1, <1>4 DEF Append0, HasText
  <1> QED
    BY <1>3, <1>4

LEMMA NextChunkingTypeOK == ChunkingIInv /\ [ChunkingNext]_chunkingVars => ChunkingTypeOK' /\ IsFiniteSet(cutChunks')
  <1> SUFFICES ASSUME ChunkingIInv, [ChunkingNext]_chunkingVars PROVE ChunkingTypeOK' /\ IsFiniteSet(cutChunks')
    OBVIOUS
  <1>1. ASSUME page <= Len(pages), start < Len0(page), NEW end \in Int, IsEnd(end),
               Append0(end), UNCHANGED inputs
        PROVE  /\ IsFiniteSet(cutChunks')
               /\ \A c \in cutChunks' :
                    /\ c.page \in 1..Len(pages')
                    /\ c.index \in Nat
                    /\ 0 <= c.from /\ c.from < c.to /\ c.to <= Len0(c.page)'
                    /\ c.to - c.from <= size'.max
    <2>1. start < end /\ end <= Len0(page) /\ end - start <= size.max
      BY <1>1, EndOfChunk DEF ChunkingIInv
    <2>2. page \in 1..Len(pages) /\ start \in Nat
      BY <1>1 DEF ChunkingIInv, ChunkingTypeOK
    <2>3. pages' = pages /\ size' = size
      BY <1>1 DEF inputs
    <2>4. ASSUME NEW c \in cutChunks'
          PROVE  /\ c.page \in 1..Len(pages)
                 /\ c.index \in Nat
                 /\ 0 <= c.from /\ c.from < c.to /\ c.to <= Len0(c.page)
                 /\ c.to - c.from <= size.max
      <3>1. CASE c \in cutChunks
        BY <3>1 DEF ChunkingIInv, ChunkingTypeOK
      <3>2. CASE c \notin cutChunks
        BY <1>1, <2>1, <2>2, <3>2, Appended
      <3> QED
        BY <3>1, <3>2
    <2>5. IsFiniteSet(cutChunks')
      BY <1>1, Appended
    <2> QED
      BY <2>3, <2>4, <2>5 DEF Len0
  <1>2. CASE CutChunk
    <2>1. PICK end \in 1..Len0(page) : IsEnd(end) /\ Append0(end) /\ start' = NextStart(end)
      BY <1>2 DEF CutChunk
    <2>2. page <= Len(pages) /\ start < Len0(page) /\ UNCHANGED inputs /\ page' = page
      BY <1>2 DEF CutChunk
    <2>3. start < end /\ end \in Int
      BY <2>1, <2>2, EndOfChunk DEF ChunkingIInv
    <2>4. start' \in Nat
      BY <2>1, <2>3, NextStartOverlaps DEF ChunkingIInv
    <2> QED
      BY <1>1, <2>1, <2>2, <2>3, <2>4 DEF ChunkingIInv, ChunkingTypeOK, inputs
  <1>3. CASE CutLast
    <2>1. /\ page <= Len(pages) /\ start < Len0(page) /\ UNCHANGED inputs
          /\ page' = page + 1 /\ start' = 0
          /\ IsEnd(Len0(page)) /\ Append0(Len0(page))
      BY <1>3 DEF CutLast
    <2>2. Len0(page) \in Int
      BY <2>1, PagesOK DEF ChunkingIInv, ChunkingTypeOK
    <2>3. page' \in 1..(Len(pages) + 1)
      BY <2>1 DEF ChunkingIInv, ChunkingTypeOK
    <2> QED
      BY <1>1, <2>1, <2>2, <2>3 DEF ChunkingIInv, ChunkingTypeOK, inputs
  <1>4. CASE SkipPage
    <2>1. page' \in 1..(Len(pages) + 1)
      BY <1>4 DEF SkipPage, ChunkingIInv, ChunkingTypeOK
    <2> QED
      BY <1>4, <2>1 DEF SkipPage, ChunkingIInv, ChunkingTypeOK, inputs, Len0
  <1>5. CASE UNCHANGED chunkingVars
    BY <1>5 DEF chunkingVars, inputs, ChunkingIInv, ChunkingTypeOK, Len0
  <1> QED
    BY <1>2, <1>3, <1>4, <1>5 DEF ChunkingNext

\* What is passed over in a step lies in the chunk that the step has cut.
LEMMA NextNothingLost == ChunkingIInv /\ [ChunkingNext]_chunkingVars => NothingLost'
  <1> SUFFICES ASSUME ChunkingIInv, [ChunkingNext]_chunkingVars PROVE NothingLost'
    OBVIOUS
  <1>1. CASE UNCHANGED chunkingVars
    BY <1>1 DEF chunkingVars, inputs, ChunkingIInv, NothingLost, Passed, Offsets, Len0, At
  <1>2. CASE ChunkingNext
    <2>1. pages' = pages /\ page <= Len(pages) /\ page \in Nat /\ start \in Nat
      BY <1>2 DEF ChunkingNext, CutChunk, CutLast, SkipPage, inputs, ChunkingIInv, ChunkingTypeOK
    <2>2. ASSUME NEW p \in DOMAIN pages, NEW i \in Offsets(p), Passed(p, i)',
                 At(p, i) \notin Blanks
          PROVE  \E c \in cutChunks' : c.page = p /\ c.from <= i /\ i < c.to
      <3>1. i \in Nat /\ i < Len0(p) /\ p \in 1..Len(pages)
        BY <2>2, PagesOK DEF Offsets, ChunkingIInv, ChunkingTypeOK
      <3>2. CASE Passed(p, i)
        <4>1. \E c \in cutChunks : c.page = p /\ c.from <= i /\ i < c.to
          BY <2>2, <3>2 DEF ChunkingIInv, NothingLost
        <4>2. cutChunks \subseteq cutChunks'
          BY <1>2 DEF ChunkingNext, CutChunk, CutLast, SkipPage, Append0
        <4> QED
          BY <4>1, <4>2
      <3>3. CASE ~Passed(p, i)
        <4>1. CASE CutChunk
          <5>1. PICK end \in 1..Len0(page) :
                  IsEnd(end) /\ Append0(end) /\ start' = NextStart(end)
            BY <4>1 DEF CutChunk
          <5>2. page' = page /\ start < Len0(page)
            BY <4>1 DEF CutChunk
          <5>3. start < end /\ NextStart(end) <= end /\ NextStart(end) \in Nat
            BY <2>1, <5>1, <5>2, EndOfChunk, NextStartOverlaps DEF ChunkingIInv
          <5>4. p = page /\ start <= i /\ i < start'
            BY <2>1, <2>2, <3>1, <3>3, <5>2 DEF Passed
          <5>5. i \in start..(end - 1)
            BY <2>1, <3>1, <5>1, <5>3, <5>4
          <5> QED
            BY <2>1, <2>2, <5>1, <5>2, <5>4, <5>5, Appended
        <4>2. CASE CutLast
          <5>1. /\ page' = page + 1 /\ start' = 0 /\ start < Len0(page)
                /\ IsEnd(Len0(page)) /\ Append0(Len0(page))
            BY <4>2 DEF CutLast
          <5>2. p = page /\ start <= i
            BY <2>1, <2>2, <3>1, <3>3, <5>1 DEF Passed
          <5>3. i \in start..(Len0(page) - 1) /\ Len0(page) \in Int
            BY <2>1, <3>1, <5>2, PagesOK DEF ChunkingIInv
          <5> QED
            BY <2>1, <2>2, <5>1, <5>2, <5>3, Appended
        <4>3. CASE SkipPage
          <5>1. page' = page + 1 /\ start' = 0 /\ start >= Len0(page)
            BY <4>3 DEF SkipPage
          <5>2. p = page /\ start <= i
            BY <2>1, <2>2, <3>1, <3>3, <5>1 DEF Passed
          <5> QED
            BY <2>1, <3>1, <5>1, <5>2, PagesOK DEF ChunkingIInv
        <4> QED
          BY <1>2, <4>1, <4>2, <4>3 DEF ChunkingNext
      <3> QED
        BY <3>2, <3>3
    <2> QED
      BY <2>1, <2>2 DEF NothingLost, Offsets, Len0, At
  <1> QED
    BY <1>1, <1>2

THEOREM ChunkingInvariance == ChunkingSpec => []ChunkingIInv
  <1>1. ChunkingIInv /\ [ChunkingNext]_chunkingVars => ChunkingIInv'
    BY NextChunkingTypeOK, NextNothingLost DEF ChunkingIInv
  <1> QED
    BY InitChunkingIInv, <1>1, PTL DEF ChunkingSpec

-----------------------------------------------------------------------------

(* Every chunk has a page of the document, lies within it, is not empty    *)
(* and not longer than max_chars.                                          *)
THEOREM ChunkingTypeCorrect == ChunkingSpec => []ChunkingTypeOK
  BY ChunkingInvariance, PTL DEF ChunkingIInv

(* For pages of any length and any sizes: what the loop has passed over is *)
(* blank or in a chunk.                                                    *)
THEOREM TextIsKept == ChunkingSpec => []NothingLost
  BY ChunkingInvariance, PTL DEF ChunkingIInv

-----------------------------------------------------------------------------
(***************************************************************************)
(* Clauses.  An offset is passed over by a chunk that starts at or before  *)
(* it and ends at least an overlap behind it, for the next chunk starts an *)
(* overlap before the end; a split is far enough behind the start for that *)
(* when the overlap is modest.                                             *)
(***************************************************************************)
\* One of the chunks has the whole clause that begins at i, or it is blank.
Whole(cut, p, i) ==
    \/ \E c \in cut : c.page = p /\ c.from <= i /\ i + size.overlap - 1 < c.to
    \/ \A j \in i..(i + size.overlap - 1) : At(p, j) \in Blanks

ClausesInv ==
    Modest /\ size.overlap > 0 =>
        \A p \in DOMAIN pages : \A i \in Offsets(p) :
            Passed(p, i) /\ i + size.overlap - 1 \in Offsets(p) => Whole(cutChunks, p, i)

LEMMA AppendedWhole ==
    ASSUME ChunkingIInv, NEW end \in Int, Append0(end), NEW i \in Int,
           start <= i, i + size.overlap <= end
    PROVE  Whole(cutChunks', page, i)
  <1>1. start \in Nat /\ size.overlap \in Nat
    BY SizesOK DEF ChunkingIInv, ChunkingTypeOK, Numbered
  <1>2. CASE HasText(end)
    <2> DEFINE new == [page |-> page, index |-> Cardinality(cutChunks), from |-> start, to |-> end]
    <2>1. new \in cutChunks'
      BY <1>2 DEF Append0
    <2>2. new.page = page /\ new.from <= i /\ i + size.overlap - 1 < new.to
      BY <1>1
    <2> HIDE DEF new
    <2> QED
      BY <2>1, <2>2 DEF Whole
  <1>3. CASE ~HasText(end)
    <2>1. \A j \in i..(i + size.overlap - 1) : j \in start..(end - 1)
      BY <1>1
    <2> QED
      BY <1>3, <2>1 DEF HasText, Whole
  <1> QED
    BY <1>2, <1>3

\* Chunks are only added.
LEMMA StillWhole ==
    ASSUME cutChunks \subseteq cutChunks', NEW p, NEW i, Whole(cutChunks, p, i)
    PROVE  Whole(cutChunks', p, i)
  BY DEF Whole

\* A chunk that is not the last of its page is longer than a modest overlap.
LEMMA EndIsFar ==
    ASSUME ChunkingTypeOK, Modest, page <= Len(pages), start < Len0(page),
           NEW end \in Int, IsEnd(end), end < Len0(page)
    PROVE  end >= start + size.overlap
  <1>1. page \in 1..Len(pages)
    BY DEF ChunkingTypeOK
  <1>2. Len0(page) \in Nat /\ start \in Nat
    BY <1>1, PagesOK DEF ChunkingTypeOK
  <1>3. /\ size.max \in Nat \ {0} /\ size.overlap \in Nat /\ size.overlap < size.max
        /\ size.max \div 2 \in Nat /\ size.overlap <= size.max \div 2 + 1
    BY SizesOK DEF Numbered, Modest
  <1>4. CASE end = HardEnd
    BY <1>2, <1>3, <1>4 DEF HardEnd
  <1>5. ASSUME NEW split \in Splits, end = split + 1
        PROVE  end >= start + size.overlap
    <2>1. split \in Int /\ split > start + size.max \div 2
      BY <1>2 DEF Splits, Separators, Offsets
    <2> QED
      BY <1>2, <1>3, <1>5, <2>1
  <1> QED
    BY <1>4, <1>5 DEF IsEnd

\* What the step passes over is the beginning of clauses that its chunk has.
LEMMA NextClauses == ChunkingIInv /\ ClausesInv /\ [ChunkingNext]_chunkingVars => ClausesInv'
  <1> SUFFICES ASSUME ChunkingIInv, ClausesInv, [ChunkingNext]_chunkingVars PROVE ClausesInv'
    OBVIOUS
  <1>1. CASE UNCHANGED chunkingVars
    BY <1>1 DEF chunkingVars, inputs, ClausesInv, Modest, Passed, Offsets, Len0, At, Whole
  <1>2. CASE ChunkingNext
    <2>1. /\ pages' = pages /\ size' = size /\ page <= Len(pages)
          /\ page \in Nat /\ start \in Nat /\ size.overlap \in Nat
      BY <1>2, SizesOK
      DEF ChunkingNext, CutChunk, CutLast, SkipPage, inputs, ChunkingIInv, ChunkingTypeOK, Numbered
    <2>2. cutChunks \subseteq cutChunks'
      BY <1>2 DEF ChunkingNext, CutChunk, CutLast, SkipPage, Append0
    <2>3. ASSUME Modest, size.overlap > 0, NEW p \in DOMAIN pages, NEW i \in Offsets(p),
                 Passed(p, i)', i + size.overlap - 1 \in Offsets(p)
          PROVE  Whole(cutChunks', p, i)
      <3>1. /\ i \in Nat /\ i < Len0(p) /\ p \in 1..Len(pages)
            /\ i + size.overlap - 1 < Len0(p) /\ Len0(p) \in Nat
        BY <2>1, <2>3, PagesOK DEF Offsets, ChunkingIInv, ChunkingTypeOK
      <3>2. CASE Passed(p, i)
        BY <2>2, <2>3, <3>2, StillWhole DEF ClausesInv
      <3>3. CASE ~Passed(p, i)
        <4>1. CASE CutChunk
          <5>1. PICK end \in 1..Len0(page) :
                  IsEnd(end) /\ end < Len0(page) /\ Append0(end) /\ start' = NextStart(end)
            BY <4>1 DEF CutChunk
          <5>2. page' = page /\ start < Len0(page)
            BY <4>1 DEF CutChunk
          <5>3. end \in Int /\ start + size.overlap <= end
            BY <2>1, <2>3, <5>1, <5>2, EndIsFar DEF ChunkingIInv
          <5>4. p = page /\ start <= i /\ i < start'
            BY <2>1, <2>3, <3>1, <3>3, <5>2 DEF Passed
          <5>5. i + size.overlap <= end
            BY <2>1, <3>1, <5>1, <5>3, <5>4 DEF NextStart
          <5> QED
            BY <3>1, <5>1, <5>3, <5>4, <5>5, AppendedWhole
        <4>2. CASE CutLast
          <5>1. /\ page' = page + 1 /\ start' = 0 /\ start < Len0(page)
                /\ Append0(Len0(page))
            BY <4>2 DEF CutLast
          <5>2. p = page /\ start <= i
            BY <2>1, <2>3, <3>1, <3>3, <5>1 DEF Passed
          <5>3. i + size.overlap <= Len0(page) /\ Len0(page) \in Int
            BY <2>1, <3>1, <5>2
          <5> QED
            BY <3>1, <5>1, <5>2, <5>3, AppendedWhole
        <4>3. CASE SkipPage
          <5>1. page' = page + 1 /\ start' = 0 /\ start >= Len0(page)
            BY <4>3 DEF SkipPage
          <5>2. p = page /\ start <= i
            BY <2>1, <2>3, <3>1, <3>3, <5>1 DEF Passed
          <5> QED
            BY <2>1, <3>1, <5>1, <5>2
        <4> QED
          BY <1>2, <4>1, <4>2, <4>3 DEF ChunkingNext
      <3> QED
        BY <3>2, <3>3
    <2> QED
      BY <2>1, <2>3 DEF ClausesInv, Modest, Offsets, Len0, At, Whole
  <1> QED
    BY <1>1, <1>2

(* For any document and any sizes: a clause that is no longer than a       *)
(* modest overlap is in one of the chunks as a whole.                      *)
THEOREM ClausesAreKept == ChunkingSpec => []ClausesStayWhole
  <1>1. ChunkingInit => ClausesInv
    <2> SUFFICES ASSUME ChunkingInit PROVE ClausesInv
      OBVIOUS
    <2>1. \A p \in DOMAIN pages : \A i \in Offsets(p) : ~Passed(p, i)
      BY InitChunkingIInv DEF ChunkingInit, ChunkingIInv, ChunkingTypeOK, Passed, Offsets, Len0
    <2> QED
      BY <2>1 DEF ClausesInv
  <1>2. ChunkingIInv /\ ClausesInv => ClausesStayWhole
    BY DEF ClausesInv, ClausesStayWhole, Passed, Whole
  <1> QED
    BY <1>1, <1>2, NextClauses, ChunkingInvariance, PTL DEF ChunkingSpec

(***************************************************************************)
(* The loop comes forward.  That it ends follows for who can count: pages  *)
(* and offsets are bounded and every pass raises one of them.              *)
(***************************************************************************)
LEMMA LastOfOffsets ==
    ASSUME NEW m \in Nat, NEW S \in SUBSET (0..m), S # {}
    PROVE  \E x \in S : \A y \in S : y <= x
  <1> DEFINE behind == {m - x : x \in S}
  <1>1. behind \in SUBSET Nat /\ behind # {}
    <2>1. \A x \in S : m - x \in Nat
      OBVIOUS
    <2>2. PICK x : x \in S
      OBVIOUS
    <2>3. m - x \in behind
      BY <2>2
    <2> QED
      BY <2>1, <2>3
  <1>2. PICK z \in behind : \A y \in behind : ~(<<y, z>> \in OpToRel(<, Nat))
    BY <1>1, NatLessThanWellFounded, WFMin
  <1>3. \A y \in behind : ~(y < z)
    BY <1>1, <1>2 DEF OpToRel
  <1>4. PICK x \in S : z = m - x
    OBVIOUS
  <1>5. \A y \in S : ~(m - y < m - x)
    BY <1>3, <1>4
  <1> QED
    BY <1>5

\* A pass goes on to the next page, or further in this page and not beyond its end.
EveryPassAdvances ==
    [][\/ page' = page + 1
       \/ page' = page /\ start < start' /\ start' <= Len0(page)]_chunkingVars

\* Whatever rfind finds, there is an end for the next chunk.
AnEndExists ==
    page <= Len(pages) /\ start < Len0(page) => \E end \in 1..Len0(page) : IsEnd(end)

LEMMA EndsExist == ChunkingIInv => AnEndExists
  <1> SUFFICES ASSUME ChunkingIInv, page <= Len(pages), start < Len0(page)
               PROVE  \E end \in 1..Len0(page) : IsEnd(end)
    BY DEF AnEndExists
  <1>1. Len0(page) \in Nat /\ start \in Nat /\ HardEnd \in Nat /\ start < HardEnd
        /\ HardEnd <= Len0(page)
    <2>1. page \in 1..Len(pages) /\ start \in Nat
      BY DEF ChunkingIInv, ChunkingTypeOK
    <2>2. Len0(page) \in Nat
      BY <2>1, PagesOK DEF ChunkingIInv
    <2>3. size.max \in Nat \ {0}
      BY SizesOK DEF ChunkingIInv, ChunkingTypeOK, Numbered
    <2> QED
      BY <2>1, <2>2, <2>3 DEF HardEnd
  <1>2. CASE HardEnd < Len0(page) /\ Splits # {}
    <2>1. Splits \in SUBSET (0..Len0(page)) /\ \A i \in Splits : i < HardEnd
      BY <1>1 DEF Splits, Separators, Offsets
    <2>2. PICK split \in Splits : \A i \in Splits : i <= split
      BY <1>1, <1>2, <2>1, LastOfOffsets
    <2>3. split + 1 \in 1..Len0(page)
      BY <1>1, <2>1
    <2>4. IsEnd(split + 1)
      BY <1>2, <2>2 DEF IsEnd
    <2> QED
      BY <2>3, <2>4
  <1>3. CASE ~(HardEnd < Len0(page) /\ Splits # {})
    BY <1>1, <1>3 DEF IsEnd
  <1> QED
    BY <1>2, <1>3

\* max(end - overlap_chars, start + 1): every pass of chunk_policy_pages finds an end for
\* its chunk and comes forward, for any pages and any sizes with an overlap below the chunk.
THEOREM CuttingAdvances == ChunkingSpec => EveryPassAdvances /\ []AnEndExists
  <1>1. ASSUME ChunkingIInv, [ChunkingNext]_chunkingVars
        PROVE  [\/ page' = page + 1
                \/ page' = page /\ start < start' /\ start' <= Len0(page)]_chunkingVars
    <2>1. CASE CutChunk
      <3>1. PICK end \in 1..Len0(page) : IsEnd(end) /\ start' = NextStart(end)
        BY <2>1 DEF CutChunk
      <3>2. page <= Len(pages) /\ start < Len0(page) /\ page' = page
        BY <2>1 DEF CutChunk
      <3>3. start < end /\ end <= Len0(page)
        BY <1>1, <3>1, <3>2, EndOfChunk DEF ChunkingIInv
      <3>4. NextStart(end) \in Nat /\ start < NextStart(end) /\ NextStart(end) <= end
        BY <1>1, <3>3, NextStartOverlaps DEF ChunkingIInv
      <3>5. Len0(page) \in Nat /\ start \in Nat
        BY <1>1, <3>2, PagesOK DEF ChunkingIInv, ChunkingTypeOK
      <3> QED
        BY <3>1, <3>2, <3>3, <3>4, <3>5
    <2>2. CASE CutLast \/ SkipPage
      BY <2>2 DEF CutLast, SkipPage
    <2> QED
      BY <1>1, <2>1, <2>2 DEF ChunkingNext
  <1> QED
    BY <1>1, EndsExist, ChunkingInvariance, PTL DEF ChunkingSpec, EveryPassAdvances
=============================================================================
