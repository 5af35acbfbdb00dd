------------------------------ MODULE Chunking ------------------------------
(***************************************************************************)
(* chunk_policy_pages: the cleaned pages of a policy document are cut into *)
(* overlapping chunks, at the end of a line or of a sentence where one is  *)
(* near the size limit.  One action per pass of the loop over a page.      *)
(*                                                                         *)
(* A page is the sequence of the kinds of its characters, which is what    *)
(* the split looks at; offsets count from 0, as in the code.  A chunk is   *)
(* the range of offsets it was cut from: stripping it takes blanks away    *)
(* at its ends and leaves the rest of it in place.                         *)
(***************************************************************************)
EXTENDS Integers, Sequences, FiniteSets

CONSTANTS
    Documents,  \* documents: sequences of pages, as extract_policy_pages returns them
    Sizes       \* pairs of max_chars and overlap_chars

Kinds == {"text", "newline", "stop", "dot", "space"}    \* "stop" is the ideographic one
Blanks == {"newline", "space"}

ASSUME ChunkingAssumption ==
    /\ Documents \subseteq Seq(Seq(Kinds))
    /\ Sizes \subseteq [max: Nat \ {0}, overlap: Nat]
    /\ \A size \in Sizes : size.overlap < size.max

VARIABLES
    pages,   \* the document
    size,    \* the sizes asked for
    page,    \* page that the loop is at
    start,   \* offset that the next chunk starts at
    cutChunks  \* chunks cut so far, numbered from 0

chunkingVars == <<pages, size, page, start, cutChunks>>
inputs == <<pages, size>>

Len0(p) == Len(pages[p])
At(p, i) == pages[p][i + 1]
Offsets(p) == 0..(Len0(p) - 1)

\* clean_policy_text: no blank at either end of a line, no empty line, no two
\* blanks in a row.
Cleaned(text) ==
    /\ Len(text) > 0 => text[1] \notin Blanks /\ text[Len(text)] \notin Blanks
    /\ \A i \in 1..(Len(text) - 1) : text[i] \notin Blanks \/ text[i + 1] \notin Blanks

ChunkingTypeOK ==
    /\ pages \in Seq(Seq(Kinds))
    /\ size \in Sizes
    /\ page \in 1..(Len(pages) + 1)
    /\ start \in Nat
    /\ \A c \in cutChunks :
        /\ c.page \in 1..Len(pages)
        /\ c.index \in Nat
        /\ 0 <= c.from /\ c.from < c.to /\ c.to <= Len0(c.page)
        /\ c.to - c.from <= size.max

\* extract_policy_pages refuses a document without any text.
ChunkingInit ==
    /\ pages \in Documents
    /\ \A p \in DOMAIN pages : Cleaned(pages[p])
    /\ \E p \in DOMAIN pages : pages[p] # <<>>
    /\ size \in Sizes
    /\ page = 1
    /\ start = 0
    /\ cutChunks = {}

-----------------------------------------------------------------------------
\* min(start + max_chars, len(page.text))
HardEnd == IF start + size.max < Len0(page) THEN start + size.max ELSE Len0(page)

\* What rfind can find between start and the hard end.
Separators ==
    {i \in Offsets(page) :
        /\ start <= i /\ i < HardEnd
        /\ \/ At(page, i) \in {"newline", "stop"}
           \/ At(page, i) = "dot" /\ i + 1 < HardEnd /\ At(page, i + 1) = "space"}

\* What if the last separator were used wherever it is.
SplitsAnywhere == {i \in Separators : i > start}

\* Those far enough from the start to be used.
Splits == {i \in Separators : i > start + size.max \div 2}

\* The end of the next chunk: behind the last separator, or the hard end.
IsEnd(end) ==
    IF HardEnd < Len0(page) /\ Splits # {}
    THEN \E split \in Splits : (\A i \in Splits : i <= split) /\ end = split + 1
    ELSE end = HardEnd

\* What if a chunk that is all overlap were not kept.
HasTextOfItsOwn(end) == end - start > size.overlap

\* Whether anything is left of page.text[start:end].strip().
HasText(end) == \E i \in start..(end - 1) : At(page, i) \notin Blanks

\* What if it went on behind the split, and behind the separator.
NextStartPastSeparator(end) ==
    IF end - size.overlap > start + 1 THEN end - size.overlap + 1 ELSE start + 1

\* max(end - overlap_chars, start + 1)
NextStart(end) ==
    IF end - size.overlap > start + 1 THEN end - size.overlap ELSE start + 1

Append0(end) ==
    IF HasText(end)
    THEN cutChunks' = cutChunks \cup
             {[page |-> page, index |-> Cardinality(cutChunks), from |-> start, to |-> end]}
    ELSE UNCHANGED cutChunks

\* A chunk that is not the last of its page.
CutChunk ==
    /\ page <= Len(pages)
    /\ start < Len0(page)
    /\ \E end \in 1..Len0(page) :
        /\ IsEnd(end)
        /\ end < Len0(page)
        /\ Append0(end)
        /\ start' = NextStart(end)
    /\ UNCHANGED <<inputs, page>>

\* The last one: the loop is left, and the next page begins.
CutLast ==
    /\ page <= Len(pages)
    /\ start < Len0(page)
    /\ IsEnd(Len0(page))
    /\ Append0(Len0(page))
    /\ page' = page + 1
    /\ start' = 0
    /\ UNCHANGED inputs

\* A page without text.
SkipPage ==
    /\ page <= Len(pages)
    /\ start >= Len0(page)
    /\ page' = page + 1
    /\ start' = 0
    /\ UNCHANGED <<inputs, cutChunks>>

ChunkingNext == CutChunk \/ CutLast \/ SkipPage

ChunkingSpec == ChunkingInit /\ [][ChunkingNext]_chunkingVars /\ WF_chunkingVars(ChunkingNext)

-----------------------------------------------------------------------------
Done == page > Len(pages)

(* No text is lost between two chunks, at the end of a page or between two *)
(* pages: what has been passed over is blank or in a chunk.                *)
Passed(p, i) == p < page \/ (p = page /\ i < start)
NothingLost ==
    \A p \in DOMAIN pages : \A i \in Offsets(p) :
        Passed(p, i) /\ At(p, i) \notin Blanks =>
            \E c \in cutChunks : c.page = p /\ c.from <= i /\ i < c.to

(* A clause that is no longer than the overlap is never cut in two: one of *)
(* the chunks has all of it.  So it is when the overlap is not more than   *)
(* about half a chunk; the code accepts more, and calls it with 180 of     *)
(* 1200.                                                                   *)
Modest == size.overlap <= size.max \div 2 + 1
ClausesStayWhole ==
    Modest =>
        \A p \in DOMAIN pages : \A i \in Offsets(p) :
            LET last == i + size.overlap - 1
            IN  /\ last \in Offsets(p)
                /\ size.overlap > 0
                /\ p < page
                => \/ \E c \in cutChunks : c.page = p /\ c.from <= i /\ last < c.to
                   \/ \A j \in i..last : At(p, j) \in Blanks

(* The loop ends for every page and every split, and then a document that  *)
(* has text has chunks: POLICY_TEXT_NOT_FOUND is not raised here.          *)
CuttingEnds == <>(Done /\ cutChunks # {})
=============================================================================
