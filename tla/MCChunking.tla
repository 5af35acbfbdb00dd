----------------------------- MODULE MCChunking -----------------------------
EXTENDS Chunking

CONSTANTS MaxLength, MaxLengthOfTwo    \* bounds: length of a single page, of one of two

Texts(n) == UNION {[1..k -> Kinds] : k \in 0..n}
CleanTexts(n) == {text \in Texts(n) : Cleaned(text)}
MCDocuments ==
    {<<text>> : text \in CleanTexts(MaxLength)}
        \cup (CleanTexts(MaxLengthOfTwo) \X CleanTexts(MaxLengthOfTwo))
MCSizes ==
    {[max |-> 4, overlap |-> 0], [max |-> 4, overlap |-> 2], [max |-> 4, overlap |-> 3],
     [max |-> 5, overlap |-> 4]}
=============================================================================
