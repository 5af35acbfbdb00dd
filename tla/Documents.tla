----------------------------- MODULE Documents ------------------------------
(***************************************************************************)
(* What the policy documents of one owner promise to those who ask about   *)
(* them: a file is stored at most once, a stored document becomes          *)
(* searchable at once and as a whole or not at all, comes to one end, and  *)
(* an answer rests on what could be searched when it was looked up.        *)
(*                                                                         *)
(* Policies implements this, with its uploads, chunks and duplicates; the  *)
(* assistant is composed with it.                                          *)
(***************************************************************************)

CONSTANTS
    Docs,      \* ids of documents, never reused
    Files,     \* contents of documents
    Questions  \* those who ask

VARIABLES
    status,  \* document: "none", "indexing", "ready", "failed" or "deleted"
    file,    \* document: its content
    index,   \* documents that a search can find
    cited    \* question: documents it answers from

docVars == <<status, file, index>>
libraryVars == <<docVars, cited>>

Init ==
    /\ status = [d \in Docs |-> "none"]
    /\ file \in [Docs -> Files]
    /\ index = {}
    /\ cited = [q \in Questions |-> {}]

Held == {d \in Docs : status[d] \notin {"none", "deleted"}}

\* A file that is not held is stored under a new id.
Store(d, f) ==
    /\ status[d] = "none"
    /\ \A e \in Held : file[e] # f
    /\ status' = [status EXCEPT ![d] = "indexing"]
    /\ file' = [file EXCEPT ![d] = f]
    /\ UNCHANGED index

\* It becomes searchable...
Publish(d) ==
    /\ status[d] = "indexing"
    /\ status' = [status EXCEPT ![d] = "ready"]
    /\ index' = index \cup {d}
    /\ UNCHANGED file

\* ... or is given up.
GiveUp(d) ==
    /\ status[d] = "indexing"
    /\ status' = [status EXCEPT ![d] = "failed"]
    /\ UNCHANGED <<file, index>>

Remove(d) ==
    /\ d \in Held
    /\ status' = [status EXCEPT ![d] = "deleted"]
    /\ index' = index \ {d}
    /\ UNCHANGED file

DocumentStep ==
    \E d \in Docs : (\E f \in Files : Store(d, f)) \/ Publish(d) \/ GiveUp(d) \/ Remove(d)

\* The evidence of a question: some of what can be searched.
Cite(q) ==
    /\ cited[q] = {}
    /\ \E found \in SUBSET index : cited' = [cited EXCEPT ![q] = found]
    /\ UNCHANGED docVars

Forget(q) ==
    /\ cited' = [cited EXCEPT ![q] = {}]
    /\ UNCHANGED docVars

Next ==
    \/ DocumentStep /\ UNCHANGED cited
    \/ \E q \in Questions : Cite(q) \/ Forget(q)

Safety == Init /\ [][Next]_libraryVars
=============================================================================
