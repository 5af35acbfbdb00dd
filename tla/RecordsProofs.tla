--------------------------- MODULE RecordsProofs ----------------------------
(***************************************************************************)
(* Records that several requests write side by side, for any values of the *)
(* constants: the imports of ShiftImport and the pay rates of PayRates,    *)
(* whose requests take the owner's advisory lock.  The two models share no *)
(* variable; each has its inductive invariant.                             *)
(***************************************************************************)
EXTENDS ShiftImport, PayRates, TLAPS

(***************************************************************************)
(* Shift imports: an item becomes at most one shift while its import       *)
(* lives, a linked item was confirmed, and the ends of an import are final.*)
(***************************************************************************)

\* Nothing has been uploaded as long as nothing is stored.
UploadFirst == upload = "idle" => status = "none"

\* A commit request has read an import that had come to its review.
OpenAfterReview ==
    \A c \in Commits :
        commit[c].open => status \in {"review", "committed", "expired", "purged"}

\* A shift is made in the step that commits its import, or after its expiry.
MadeByCommit ==
    \A i \in Items : made[i] > 0 => status \in {"committed", "expired", "purged"}

IInv == /\ TypeOK
        /\ UploadFirst
        /\ OpenAfterReview
        /\ MadeByCommit
        /\ OneShiftPerItem
        /\ TruthWasConfirmed

-----------------------------------------------------------------------------

LEMMA InitIInv == Init => IInv
  <1> SUFFICES ASSUME Init PROVE IInv
    OBVIOUS
  <1>1. NoItem \in ItemRow /\ ~NoItem.linked
    BY DEF NoItem, ItemRow, Validity
  <1>2. patch \in [Patches -> [item: Items, open: BOOLEAN]]
    <2>1. [item: Items, open: {FALSE}] \subseteq [item: Items, open: BOOLEAN]
      OBVIOUS
    <2> QED
      BY <2>1 DEF Init
  <1>3. TypeOK
    BY <1>1, <1>2 DEF Init, TypeOK, Statuses
  <1> QED
    BY <1>1, <1>3 DEF Init, IInv, UploadFirst, OpenAfterReview, MadeByCommit,
                      OneShiftPerItem, TruthWasConfirmed

\* What an extraction stores are rows that are neither confirmed nor linked.
LEMMA SavedItems ==
    ASSUME NEW found \in Extractions, SaveExtraction(found)
    PROVE  /\ item' \in [Items -> ItemRow]
           /\ \A i \in Items : ~item'[i].linked
  <1>1. PICK stored \in SUBSET Items : found \in [stored -> Normalized]
    BY DEF Extractions
  <1>2. \A i \in stored : found[i] \in Validity
    BY <1>1 DEF SaveExtraction, Storable, Normalized, Validity
  <1>3. ASSUME NEW i \in Items
        PROVE  item'[i] \in ItemRow /\ ~item'[i].linked
    <2>1. CASE i \in stored
      <3>1. item'[i] = [NoItem EXCEPT !.present = TRUE, !.validity = found[i]]
        BY <1>1, <2>1 DEF SaveExtraction
      <3> QED
        BY <1>2, <2>1, <3>1 DEF NoItem, ItemRow
    <2>2. CASE i \notin stored
      <3>1. item'[i] = NoItem
        BY <1>1, <2>2 DEF SaveExtraction
      <3> QED
        BY <3>1 DEF NoItem, ItemRow, Validity
    <2> QED
      BY <2>1, <2>2
  <1> QED
    BY <1>3 DEF SaveExtraction

\* What a commit does to an item: it is linked and counted, or left alone.
LEMMA CommittedItems ==
    ASSUME TypeOK, NEW c \in Commits, CommitWrite(c)
    PROVE  /\ item' \in [Items -> ItemRow]
           /\ made' \in [Items -> Nat]
           /\ \A i \in Items :
                \/ i \in ToCreate /\ item'[i] = [item[i] EXCEPT !.linked = TRUE]
                                  /\ made'[i] = made[i] + 1
                \/ i \notin ToCreate /\ item'[i] = item[i] /\ made'[i] = made[i]
  <1>1. \A i \in Items : item[i] \in ItemRow /\ [item[i] EXCEPT !.linked = TRUE] \in ItemRow
    BY DEF TypeOK, ItemRow
  <1>2. item' \in [Items -> ItemRow]
    BY <1>1 DEF CommitWrite
  <1>3. made' \in [Items -> Nat]
    BY DEF CommitWrite, TypeOK
  <1> QED
    BY <1>2, <1>3 DEF CommitWrite

\* So does a patch request that ends.
LEMMA ClosedPatch ==
    ASSUME TypeOK, NEW p \in Patches
    PROVE  [patch EXCEPT ![p].open = FALSE] \in [Patches -> [item: Items, open: BOOLEAN]]
  <1>1. patch[p] \in [item: Items, open: BOOLEAN]
    BY DEF TypeOK
  <1>2. [patch[p] EXCEPT !.open = FALSE] \in [item: Items, open: BOOLEAN]
    BY <1>1
  <1> QED
    BY <1>2 DEF TypeOK

\* A commit request that goes on, or is answered, keeps the type of all.
LEMMA ChangedCommit ==
    ASSUME TypeOK, NEW c \in Commits, NEW open \in BOOLEAN,
           NEW answer \in {"none", "committed", "refused"}
    PROVE  [commit EXCEPT ![c] = [open |-> open, answer |-> answer]]
               \in [Commits -> [open: BOOLEAN, answer: {"none", "committed", "refused"}]]
  <1>1. [open |-> open, answer |-> answer]
            \in [open: BOOLEAN, answer: {"none", "committed", "refused"}]
    OBVIOUS
  <1> QED
    BY <1>1 DEF TypeOK

LEMMA NextTypeOK == IInv /\ [Next]_vars => TypeOK'
  <1> SUFFICES ASSUME IInv, [Next]_vars PROVE TypeOK'
    OBVIOUS
  <1> USE DEF IInv, TypeOK, Statuses
  <1>1. CASE CreateDraft
    BY <1>1 DEF CreateDraft
  <1>2. ASSUME NEW found \in Extractions, SaveExtraction(found) PROVE TypeOK'
    BY <1>2, SavedItems DEF SaveExtraction, EndUpload
  <1>3. ASSUME NEW found \in Extractions, SaveRefused(found) PROVE TypeOK'
    BY <1>3 DEF SaveRefused, EndUpload
  <1>4. CASE SetFailed \/ ExtractionEscapes \/ ProcessEnds
    BY <1>4 DEF SetFailed, ExtractionEscapes, ProcessEnds, EndUpload
  <1>5. ASSUME NEW p \in Patches, NEW i \in Items, PatchRead(p, i) PROVE TypeOK'
    <2>1. [item |-> i, open |-> TRUE] \in [item: Items, open: BOOLEAN]
      OBVIOUS
    <2>2. patch' \in [Patches -> [item: Items, open: BOOLEAN]]
      BY <1>5, <2>1 DEF PatchRead
    <2> QED
      BY <1>5, <2>2 DEF PatchRead
  <1>6. ASSUME NEW p \in Patches, NEW validity \in Validity, NEW confirmed \in BOOLEAN,
               PatchWrite(p, validity, confirmed)
        PROVE TypeOK'
    <2>1. item' \in [Items -> ItemRow]
      BY <1>6 DEF PatchWrite, ItemRow
    <2>2. patch' \in [Patches -> [item: Items, open: BOOLEAN]]
      BY <1>6, ClosedPatch DEF PatchWrite
    <2> QED
      BY <1>6, <2>1, <2>2 DEF PatchWrite
  <1>7. ASSUME NEW p \in Patches, PatchRefused(p) PROVE TypeOK'
    BY <1>7, ClosedPatch DEF PatchRefused
  <1>8. ASSUME NEW c \in Commits, CommitRead(c) PROVE TypeOK'
    <2>1. PICK open \in BOOLEAN, answer \in {"none", "committed", "refused"} :
            commit' = [commit EXCEPT ![c] = [open |-> open, answer |-> answer]]
      BY <1>8, Zenon DEF CommitRead, Answer
    <2>2. commit' \in [Commits -> [open: BOOLEAN, answer: {"none", "committed", "refused"}]]
      BY <2>1, ChangedCommit
    <2> QED
      BY <1>8, <2>2 DEF CommitRead
  <1>9. ASSUME NEW c \in Commits, CommitWrite(c) PROVE TypeOK'
    BY <1>9, CommittedItems, ChangedCommit DEF CommitWrite, Answer
  <1>10. ASSUME NEW c \in Commits, CommitReplay(c) \/ CommitMissing(c) PROVE TypeOK'
    <2>1. PICK answer \in {"none", "committed", "refused"} :
            commit' = [commit EXCEPT ![c] = [open |-> FALSE, answer |-> answer]]
      BY <1>10, Zenon DEF CommitReplay, CommitMissing, Answer
    <2>2. commit' \in [Commits -> [open: BOOLEAN, answer: {"none", "committed", "refused"}]]
      BY <2>1, ChangedCommit
    <2> QED
      BY <1>10, <2>2 DEF CommitReplay, CommitMissing
  <1>11. CASE Expire
    BY <1>11 DEF Expire
  <1>12. CASE Purge
    BY <1>12 DEF Purge, NoItem, ItemRow, Validity
  <1>13. ASSUME NEW i \in Items, DeleteShift(i) PROVE TypeOK'
    BY <1>13 DEF DeleteShift, ItemRow
  <1>14. CASE UNCHANGED vars
    BY <1>14 DEF vars
  <1> QED
    BY <1>1, <1>2, <1>3, <1>4, <1>5, <1>6, <1>7, <1>8, <1>9, <1>10, <1>11, <1>12,
       <1>13, <1>14 DEF Next, UploadStep, PatchStep, CommitStep

\* The order of an import's life: upload, review, commit, expiry, purge.
LEMMA NextOrdered ==
    IInv /\ [Next]_vars => UploadFirst' /\ OpenAfterReview' /\ MadeByCommit' /\ OneShiftPerItem'
  <1> SUFFICES ASSUME IInv, [Next]_vars
               PROVE  UploadFirst' /\ OpenAfterReview' /\ MadeByCommit' /\ OneShiftPerItem'
    OBVIOUS
  <1> DEFINE Ordered == UploadFirst /\ OpenAfterReview /\ MadeByCommit /\ OneShiftPerItem
  <1> USE DEF IInv, TypeOK, Statuses, UploadFirst, OpenAfterReview, MadeByCommit, OneShiftPerItem
  <1>1. CASE CreateDraft
    <2>1. \A i \in Items : ~(made[i] > 0)
      BY <1>1 DEF CreateDraft
    <2>2. \A c \in Commits : ~commit[c].open
      BY <1>1 DEF CreateDraft
    <2>3. \A i \in Items : ~(made[i] > 1)
      BY <2>1
    <2> QED
      BY <1>1, <2>1, <2>2, <2>3 DEF CreateDraft
  <1>2. ASSUME NEW found \in Extractions, SaveExtraction(found) PROVE Ordered'
    BY <1>2 DEF SaveExtraction, EndUpload
  <1>3. ASSUME NEW found \in Extractions, SaveRefused(found) PROVE Ordered'
    BY <1>3 DEF SaveRefused, EndUpload
  <1>4. CASE SetFailed \/ ExtractionEscapes \/ ProcessEnds
    BY <1>4 DEF SetFailed, ExtractionEscapes, ProcessEnds, EndUpload
  <1>5. ASSUME NEW p \in Patches,
               \/ \E i \in Items : PatchRead(p, i)
               \/ PatchStep(p)
        PROVE Ordered'
    BY <1>5 DEF PatchStep, PatchRead, PatchWrite, PatchRefused
  <1>6. ASSUME NEW c \in Commits, CommitRead(c) PROVE Ordered'
    BY <1>6 DEF CommitRead, Answer
  <1>7. ASSUME NEW c \in Commits, CommitWrite(c) PROVE Ordered'
    <2>1. status \in {"review", "expired"} /\ status' \in {"committed", "expired"}
      BY <1>7 DEF CommitWrite
    <2>2. OpenAfterReview' /\ MadeByCommit' /\ UploadFirst'
      BY <1>7, <2>1 DEF CommitWrite, Answer
    <2>3. ASSUME NEW i \in Items, status' = "committed" PROVE ~(made'[i] > 1)
      <3>1. status = "review"
        BY <2>1, <2>3, <1>7 DEF CommitWrite
      <3>2. made[i] = 0
        BY <3>1
      <3> QED
        <4>1. made'[i] = made[i] + 1 \/ made'[i] = made[i]
          BY <1>7, CommittedItems
        <4> QED
          BY <3>2, <4>1
    <2>4. OneShiftPerItem'
      BY <2>1, <2>3
    <2> QED
      BY <2>2, <2>4
  <1>8. ASSUME NEW c \in Commits, CommitReplay(c) \/ CommitMissing(c) PROVE Ordered'
    BY <1>8 DEF CommitReplay, CommitMissing, Answer
  <1>9. CASE Expire \/ Purge
    BY <1>9 DEF Expire, Purge
  <1>10. ASSUME NEW i \in Items, DeleteShift(i) PROVE Ordered'
    BY <1>10 DEF DeleteShift
  <1>11. CASE UNCHANGED vars
    BY <1>11 DEF vars
  <1> QED
    BY <1>1, <1>2, <1>3, <1>4, <1>5, <1>6, <1>7, <1>8, <1>9, <1>10, <1>11
    DEF Next, UploadStep, CommitStep

\* Only a commit links, and it links what stands confirmed; nothing edits a
\* linked item.
LEMMA NextConfirmed == IInv /\ [Next]_vars => TruthWasConfirmed'
  <1> SUFFICES ASSUME IInv, [Next]_vars PROVE TruthWasConfirmed'
    OBVIOUS
  <1> USE DEF IInv, TypeOK, TruthWasConfirmed, Ready
  <1>1. CASE UNCHANGED <<item, made>>
    BY <1>1
  <1>2. ASSUME NEW found \in Extractions, SaveExtraction(found) PROVE TruthWasConfirmed'
    BY <1>2, SavedItems
  <1>3. ASSUME NEW p \in Patches, NEW validity \in Validity, NEW confirmed \in BOOLEAN,
               PatchWrite(p, validity, confirmed)
        PROVE TruthWasConfirmed'
    <2>1. \A i \in Items : item'[i].linked => item'[i] = item[i]
      BY <1>3 DEF PatchWrite, ItemRow
    <2> QED
      BY <1>3, <2>1 DEF PatchWrite
  <1>4. ASSUME NEW c \in Commits, CommitWrite(c) PROVE TruthWasConfirmed'
    <2>1. ASSUME NEW i \in Items, item'[i].linked PROVE Ready(i)' /\ made'[i] > 0
      <3>1. CASE i \in ToCreate
        <4>1. item'[i] = [item[i] EXCEPT !.linked = TRUE] /\ made'[i] = made[i] + 1
          BY <1>4, <3>1, CommittedItems
        <4>2. item[i] \in ItemRow /\ made[i] \in Nat
          OBVIOUS
        <4>3. item'[i].present = item[i].present /\ item'[i].confirmed = item[i].confirmed
                /\ item'[i].validity = item[i].validity
          BY <4>1, <4>2 DEF ItemRow
        <4> QED
          BY <3>1, <4>1, <4>2, <4>3 DEF ToCreate
      <3>2. CASE i \notin ToCreate
        BY <1>4, <2>1, <3>2, CommittedItems
      <3> QED
        BY <3>1, <3>2
    <2> QED
      BY <2>1
  <1>5. CASE Purge
    BY <1>5 DEF Purge, NoItem
  <1>6. ASSUME NEW i \in Items, DeleteShift(i) PROVE TruthWasConfirmed'
    <2>1. \A j \in Items : item'[j].linked => item'[j] = item[j]
      BY <1>6 DEF DeleteShift, ItemRow
    <2> QED
      BY <1>6, <2>1 DEF DeleteShift
  <1> QED
    BY <1>1, <1>2, <1>3, <1>4, <1>5, <1>6
    DEF Next, UploadStep, PatchStep, CommitStep, CreateDraft, SaveRefused, SetFailed,
        ExtractionEscapes, ProcessEnds, PatchRead, PatchRefused, CommitRead, CommitReplay,
        CommitMissing, Expire, vars

THEOREM Invariance == Spec => []IInv
  <1>1. IInv /\ [Next]_vars => IInv'
    BY NextTypeOK, NextOrdered, NextConfirmed DEF IInv
  <1> QED
    BY InitIInv, <1>1, PTL DEF Spec

-----------------------------------------------------------------------------

(* The rows and the requests keep their types, for any number of items,    *)
(* tabs and commits.                                                       *)
THEOREM TypeCorrect == Spec => []TypeOK
  BY Invariance, PTL DEF IInv

(* However many tabs commit, edit and delete: as long as the import has    *)
(* not expired, an item has been made into one shift at most.              *)
THEOREM ItemsMadeOnce == Spec => []OneShiftPerItem
  BY Invariance, PTL DEF IInv

(* An item that is linked to a shift is a confirmed and valid one.         *)
THEOREM LinkedWasConfirmed == Spec => []TruthWasConfirmed
  BY Invariance, PTL DEF IInv

(* No step leads back from an end, makes a shift of a committed import, or *)
(* edits an item that has its shift.                                       *)
THEOREM EndsStay == Spec => EndsAreFinal
  <1> DEFINE Final ==
        /\ status \in {"committed", "failed", "expired", "purged"} =>
                status' \notin {"extracting", "review"}
        /\ status = "committed" => status' = "committed" /\ made' = made
        /\ \A i \in Items : item[i].linked /\ item'[i].linked => item'[i] = item[i]
  <1>1. IInv /\ [Next]_vars => [Final]_vars
    <2> SUFFICES ASSUME IInv, Next PROVE Final
      OBVIOUS
    <2> USE DEF IInv, TypeOK
    <2>1. CASE CreateDraft
      BY <2>1 DEF CreateDraft, UploadFirst
    <2>2. ASSUME NEW found \in Extractions, SaveExtraction(found) PROVE Final
      BY <2>2, SavedItems DEF SaveExtraction
    <2>3. ASSUME NEW p \in Patches, NEW validity \in Validity, NEW confirmed \in BOOLEAN,
                 PatchWrite(p, validity, confirmed)
          PROVE Final
      BY <2>3 DEF PatchWrite
    <2>4. ASSUME NEW c \in Commits, CommitWrite(c) PROVE Final
      <3>1. \A i \in Items : item[i].linked => item'[i] = item[i]
        BY <2>4, CommittedItems DEF ToCreate
      <3> QED
        BY <2>4, <3>1 DEF CommitWrite
    <2>5. CASE Purge
      BY <2>5 DEF Purge, NoItem
    <2>6. ASSUME NEW i \in Items, DeleteShift(i) PROVE Final
      BY <2>6 DEF DeleteShift, ItemRow
    <2>7. CASE SetFailed \/ Expire
      BY <2>7 DEF SetFailed, Expire
    <2>8. CASE UNCHANGED <<status, item, made>>
      BY <2>8
    <2> QED
      BY <2>1, <2>2, <2>3, <2>4, <2>5, <2>6, <2>7, <2>8
      DEF Next, UploadStep, PatchStep, CommitStep, SaveRefused, ExtractionEscapes,
          ProcessEnds, PatchRead, PatchRefused, CommitRead, CommitReplay, CommitMissing
  <1>2. EndsAreFinal <=> [][Final]_vars
    BY DEF EndsAreFinal
  <1> QED
    BY Invariance, <1>1, <1>2, PTL DEF Spec

-----------------------------------------------------------------------------
(***************************************************************************)
(* For any number of rates, shifts, requests and days: the types, and the  *)
(* absence of overlapping rates.  The inductive invariant says who holds   *)
(* the advisory lock and what the holder may still rely on from its        *)
(* has_overlap query; without it the final write could not be justified.   *)
(***************************************************************************)

\* A request past the wait is the one that holds the lock.
LockInv ==
    /\ \A q \in Requests : phase[q] \in {"locked", "disjoint", "checked"} => q \in lock
    /\ \A q, r \in lock : q = r

\* A create or update that passed its query still overlaps no other row.
ClearInv ==
    \A q \in Requests :
        /\ phase[q] \in {"disjoint", "checked"}
        /\ command[q].kind # "delete"
        => ~HasOverlap(command[q].period, {command[q].id})

\* The rows are periods that do not overlap, and what is about to be written
\* by a create is a period.
ApartInv ==
    \A i, j \in Rates :
        i # j /\ rate[i] # NoPeriod /\ rate[j] # NoPeriod => ~Overlaps(rate[i], rate[j])

PayRatesIInv == PayRatesTypeOK /\ LockInv /\ ClearInv /\ ApartInv

-----------------------------------------------------------------------------

\* Two periods that share a date overlap by the SQL of has_overlap.
LEMMA SharedDateOverlaps ==
    ASSUME NEW p \in Periods, NEW n \in Periods, NEW d \in Dates,
           Covers(p, d), Covers(n, d)
    PROVE  Overlaps(p, n)
  BY PayRatesAssumption DEF Covers, Overlaps, Periods, Dates, Null

\* has_overlap is symmetric in the row and the new period.
LEMMA OverlapSymmetric ==
    ASSUME NEW p \in Periods, NEW n \in Periods, Overlaps(p, n)
    PROVE  Overlaps(n, p)
  BY PayRatesAssumption DEF Overlaps, Periods, Dates, Null

LEMMA InitPayRatesTypeOK == PayRatesInit => PayRatesTypeOK
  BY PayRatesAssumption DEF PayRatesInit, PayRatesTypeOK, Phases, Command, NoCommand, Periods, Dates, NoPeriod, Null

LEMMA NextPayRatesTypeOK == PayRatesTypeOK /\ [PayRatesNext]_payRateVars => PayRatesTypeOK'
  <1> SUFFICES ASSUME PayRatesTypeOK, [PayRatesNext]_payRateVars PROVE PayRatesTypeOK'
    OBVIOUS
  <1> USE DEF PayRatesTypeOK, Phases, Command, NoCommand
  <1>1. ASSUME NEW q \in Requests, NEW c \in Command, Ask(q, c) PROVE PayRatesTypeOK'
    BY <1>1 DEF Ask, shiftVars
  <1>2. ASSUME NEW q \in Requests, Lock(q) PROVE PayRatesTypeOK'
    BY <1>2 DEF Lock, shiftVars
  <1>3. ASSUME NEW q \in Requests, RejectUnsound(q) \/ RejectOverlap(q) \/ RejectInUse(q)
        PROVE PayRatesTypeOK'
    BY <1>3 DEF RejectUnsound, RejectOverlap, RejectInUse, Reject, Finish
  <1>4. ASSUME NEW q \in Requests, CheckOverlap(q) PROVE PayRatesTypeOK'
    BY <1>4 DEF CheckOverlap, Advance
  <1>5. ASSUME NEW q \in Requests, CheckShifts(q) PROVE PayRatesTypeOK'
    BY <1>5 DEF CheckShifts, Advance
  <1>6. ASSUME NEW q \in Requests, WriteRate(q) PROVE PayRatesTypeOK'
    <2>1. /\ command[q].id \in Rates
          /\ command[q].kind # "delete" => command[q].period \in Periods
      BY <1>6 DEF WriteRate
    <2> QED
      BY <1>6, <2>1 DEF WriteRate, Finish
  <1>7. ASSUME NEW s \in Shifts, NEW d \in Dates \cup {Null}, SetWorkDate(s, d)
        PROVE PayRatesTypeOK'
    BY <1>7 DEF SetWorkDate, requestVars
  <1>8. CASE UNCHANGED payRateVars
    BY <1>8 DEF payRateVars
  <1> QED
    BY <1>1, <1>2, <1>3, <1>4, <1>5, <1>6, <1>7, <1>8 DEF PayRatesNext, RequestStep

\* The state always has its declared type.
THEOREM PayRatesTypeCorrect == PayRatesSpec => []PayRatesTypeOK
  BY InitPayRatesTypeOK, NextPayRatesTypeOK, PTL DEF PayRatesSpec

-----------------------------------------------------------------------------

\* A step that leaves the table and the commands alone and moves no request
\* into the phases after the query keeps what the query established.
LEMMA RatesKept ==
    ASSUME PayRatesIInv, UNCHANGED rate,
           \A q \in Requests :
               phase'[q] \in {"disjoint", "checked"} =>
                   phase[q] \in {"disjoint", "checked"} /\ command'[q] = command[q]
    PROVE  ClearInv' /\ ApartInv'
  BY DEF PayRatesIInv, ClearInv, ApartInv, HasOverlap

LEMMA FinishLock ==
    ASSUME PayRatesIInv, NEW q \in Requests, q \in lock, Finish(q)
    PROVE  LockInv'
  BY DEF PayRatesIInv, LockInv, PayRatesTypeOK, Finish

LEMMA FinishKeeps ==
    ASSUME PayRatesIInv, NEW q \in Requests, Reject(q)
    PROVE  ClearInv' /\ ApartInv'
  <1>1. \A r \in Requests : phase'[r] \in {"disjoint", "checked"} =>
            phase[r] \in {"disjoint", "checked"} /\ command'[r] = command[r]
    BY DEF Reject, Finish, PayRatesIInv, PayRatesTypeOK
  <1> QED
    BY <1>1, RatesKept DEF Reject

LEMMA WriteKeeps ==
    ASSUME PayRatesIInv, NEW q \in Requests, WriteRate(q)
    PROVE  ClearInv' /\ ApartInv'
  <1> DEFINE i == command[q].id
             new == IF command[q].kind = "delete" THEN NoPeriod ELSE command[q].period
  <1>1. /\ i \in Rates
        /\ rate' = [rate EXCEPT ![i] = new]
        /\ phase[q] = "checked"
        /\ q \in lock
    BY DEF WriteRate, PayRatesIInv, PayRatesTypeOK, Command, LockInv
  <1>2. \A r \in Requests : phase'[r] \notin {"disjoint", "checked"}
    <2>1. \A r \in Requests \ {q} : phase[r] \notin {"disjoint", "checked"}
      BY <1>1 DEF PayRatesIInv, LockInv
    <2> QED
      BY <2>1 DEF WriteRate, Finish, PayRatesIInv, PayRatesTypeOK
  <1>3. ClearInv'
    BY <1>2 DEF ClearInv
  <1>4. ASSUME NEW j \in Rates, j # i, rate[j] # NoPeriod, new # NoPeriod
        PROVE ~Overlaps(rate[j], new) /\ ~Overlaps(new, rate[j])
    <2>1. command[q].kind # "delete" /\ new = command[q].period /\ new \in Periods
      BY <1>1, <1>4 DEF PayRatesIInv, PayRatesTypeOK, Command, NoCommand
    <2>2. ~HasOverlap(new, {i})
      BY <1>1, <2>1 DEF PayRatesIInv, ClearInv
    <2>3. ~Overlaps(rate[j], new)
      BY <2>2, <1>4 DEF HasOverlap
    <2>4. rate[j] \in Periods
      BY <1>4 DEF PayRatesIInv, PayRatesTypeOK
    <2> QED
      BY <2>1, <2>3, <2>4, OverlapSymmetric
  <1>5. ApartInv'
    <2> SUFFICES ASSUME NEW j \in Rates, NEW k \in Rates, j # k,
                        rate'[j] # NoPeriod, rate'[k] # NoPeriod
                 PROVE  ~Overlaps(rate'[j], rate'[k])
      BY DEF ApartInv
    <2>1. \A l \in Rates : rate'[l] = IF l = i THEN new ELSE rate[l]
      BY <1>1 DEF PayRatesIInv, PayRatesTypeOK
    <2>2. CASE j # i /\ k # i
      BY <2>1, <2>2 DEF PayRatesIInv, ApartInv
    <2>3. CASE j = i
      BY <2>1, <2>3, <1>4
    <2>4. CASE k = i
      BY <2>1, <2>4, <1>4
    <2> QED
      BY <2>2, <2>3, <2>4
  <1> QED
    BY <1>3, <1>5

LEMMA NextIInv == PayRatesIInv /\ [PayRatesNext]_payRateVars => PayRatesIInv'
  <1> SUFFICES ASSUME PayRatesIInv, [PayRatesNext]_payRateVars PROVE LockInv' /\ ClearInv' /\ ApartInv'
    BY NextPayRatesTypeOK DEF PayRatesIInv
  <1>1. ASSUME NEW q \in Requests, NEW c \in Command, Ask(q, c)
        PROVE LockInv' /\ ClearInv' /\ ApartInv'
    <2>1. LockInv'
      BY <1>1 DEF Ask, PayRatesIInv, LockInv, PayRatesTypeOK
    <2>2. \A r \in Requests : phase'[r] \in {"disjoint", "checked"} =>
              phase[r] \in {"disjoint", "checked"} /\ command'[r] = command[r]
      BY <1>1 DEF Ask, PayRatesIInv, PayRatesTypeOK
    <2> QED
      BY <1>1, <2>1, <2>2, RatesKept DEF Ask
  <1>2. ASSUME NEW q \in Requests, Lock(q)
        PROVE LockInv' /\ ClearInv' /\ ApartInv'
    <2>1. LockInv'
      BY <1>2 DEF Lock, PayRatesIInv, LockInv, PayRatesTypeOK
    <2>2. \A r \in Requests : phase'[r] \in {"disjoint", "checked"} =>
              phase[r] \in {"disjoint", "checked"} /\ command'[r] = command[r]
      BY <1>2 DEF Lock, PayRatesIInv, PayRatesTypeOK
    <2> QED
      BY <1>2, <2>1, <2>2, RatesKept DEF Lock
  <1>3. ASSUME NEW q \in Requests, RejectUnsound(q) \/ RejectOverlap(q) \/ RejectInUse(q)
        PROVE LockInv' /\ ClearInv' /\ ApartInv'
    <2>1. Reject(q) /\ q \in lock
      BY <1>3 DEF RejectUnsound, RejectOverlap, RejectInUse, PayRatesIInv, LockInv
    <2> QED
      BY <2>1, FinishLock, FinishKeeps DEF Reject
  <1>4. ASSUME NEW q \in Requests, CheckOverlap(q)
        PROVE LockInv' /\ ClearInv' /\ ApartInv'
    <2>1. LockInv' /\ ApartInv'
      BY <1>4 DEF CheckOverlap, Advance, PayRatesIInv, LockInv, ApartInv, PayRatesTypeOK
    <2>2. command[q].kind # "delete" => ~HasOverlap(command[q].period, {command[q].id})
      BY <1>4 DEF CheckOverlap, HasOverlap, Excluded
    <2>3. ClearInv'
      BY <1>4, <2>2 DEF CheckOverlap, Advance, PayRatesIInv, ClearInv, HasOverlap, PayRatesTypeOK
    <2> QED
      BY <2>1, <2>3
  <1>5. ASSUME NEW q \in Requests, CheckShifts(q)
        PROVE LockInv' /\ ClearInv' /\ ApartInv'
    <2>1. LockInv'
      BY <1>5 DEF CheckShifts, Advance, PayRatesIInv, LockInv, PayRatesTypeOK
    <2>2. \A r \in Requests : phase'[r] \in {"disjoint", "checked"} =>
              phase[r] \in {"disjoint", "checked"} /\ command'[r] = command[r]
      BY <1>5 DEF CheckShifts, Advance, PayRatesIInv, PayRatesTypeOK
    <2> QED
      BY <1>5, <2>1, <2>2, RatesKept DEF CheckShifts, Advance
  <1>6. ASSUME NEW q \in Requests, WriteRate(q)
        PROVE LockInv' /\ ClearInv' /\ ApartInv'
    <2>1. q \in lock /\ Finish(q)
      BY <1>6 DEF WriteRate, PayRatesIInv, LockInv
    <2> QED
      BY <1>6, <2>1, FinishLock, WriteKeeps
  <1>7. ASSUME NEW s \in Shifts, NEW d \in Dates \cup {Null}, SetWorkDate(s, d)
        PROVE LockInv' /\ ClearInv' /\ ApartInv'
    BY <1>7 DEF SetWorkDate, requestVars, PayRatesIInv, LockInv, ClearInv, ApartInv, HasOverlap
  <1>8. CASE UNCHANGED payRateVars
    BY <1>8 DEF payRateVars, PayRatesIInv, LockInv, ClearInv, ApartInv, HasOverlap
  <1> QED
    BY <1>1, <1>2, <1>3, <1>4, <1>5, <1>6, <1>7, <1>8 DEF PayRatesNext, RequestStep

LEMMA InitPayRatesIInv == PayRatesInit => PayRatesIInv
  BY InitPayRatesTypeOK DEF PayRatesInit, PayRatesIInv, LockInv, ClearInv, ApartInv

LEMMA IInvNeverAmbiguous == PayRatesIInv => NeverAmbiguous
  <1> SUFFICES ASSUME PayRatesIInv, NEW i \in Rates, NEW j \in Rates, NEW d \in Dates,
                      Covers(rate[i], d), Covers(rate[j], d), i # j
               PROVE  FALSE
    BY DEF NeverAmbiguous
  <1>1. rate[i] \in Periods /\ rate[j] \in Periods
    BY DEF PayRatesIInv, PayRatesTypeOK, Covers, NoPeriod, Null
  <1>2. Overlaps(rate[i], rate[j])
    BY <1>1, SharedDateOverlaps
  <1>3. rate[i] # NoPeriod /\ rate[j] # NoPeriod
    BY DEF Covers, NoPeriod, Null
  <1> QED
    BY <1>2, <1>3 DEF PayRatesIInv, ApartInv

\* Whatever the requests do, no date is ever covered by two committed rates:
\* the advisory lock makes the has_overlap query sufficient.
THEOREM RatesNeverAmbiguous == PayRatesSpec => []NeverAmbiguous
  BY InitPayRatesIInv, NextIInv, IInvNeverAmbiguous, PTL DEF PayRatesSpec

-----------------------------------------------------------------------------
(***************************************************************************)
(* The in-use query.  Between it and the commit the row stays as it was    *)
(* read, for the lock keeps other requests away from it; and the shifts it *)
(* looked at stay priced, unless somebody writes them, for which no lock   *)
(* is taken.                                                               *)
(***************************************************************************)
\* What was read under the lock is still there, and is a row unless one is created.
ReadInv ==
    \A q \in Requests :
        /\ phase[q] \in {"locked", "disjoint", "checked"} => current[q] = rate[command[q].id]
        /\ phase[q] \in {"disjoint", "checked"} =>
            command[q].kind = "create" \/ current[q] # NoPeriod

Creating(q) == phase[q] # "idle" /\ command[q].kind = "create"

\* The id of a create is nobody's yet, and no other create has it.
CreatesInv ==
    \A q \in Requests : Creating(q) =>
        /\ rate[command[q].id] = NoPeriod
        /\ \A r \in Requests : Creating(r) /\ command[r].id = command[q].id => r = q

\* The shifts that the query saw do not need the dates that are taken away.
SparedInv ==
    \A q \in Requests : phase[q] = "checked" /\ command[q].kind # "create" =>
        \A s \in Shifts \ touched[q] : workDate[s] # Null => ~Loses(q, workDate[s])

PriceInv == ReadInv /\ CreatesInv /\ SparedInv

\* A step that writes no rate and ends or leaves alone every request keeps it, if
\* what is touched only grows.
LEMMA QuietKeeps ==
    ASSUME PayRatesTypeOK, PriceInv, UNCHANGED rate,
           \A q \in Requests :
               \/ phase'[q] = "idle"
               \/ /\ phase'[q] = phase[q] /\ command'[q] = command[q] /\ current'[q] = current[q]
                  /\ touched[q] \subseteq touched'[q],
           \A q \in Requests, s \in Shifts :
               phase'[q] # "idle" => workDate'[s] = workDate[s] \/ s \in touched'[q]
    PROVE  PriceInv'
  <1>1. ReadInv'
    BY DEF PriceInv, ReadInv
  <1>2. CreatesInv'
    <2>1. \A q \in Requests : Creating(q)' => Creating(q) /\ command'[q] = command[q]
      BY DEF Creating
    <2> QED
      BY <2>1 DEF PriceInv, CreatesInv
  <1>3. SparedInv'
    BY DEF PriceInv, SparedInv, Loses
  <1> QED
    BY <1>1, <1>2, <1>3 DEF PriceInv

LEMMA AskPrices ==
    ASSUME PayRatesTypeOK, PriceInv, NEW q \in Requests, NEW c \in Command, Ask(q, c)
    PROVE  PriceInv'
  <1> USE DEF Ask, shiftVars, PayRatesTypeOK
  <1>1. /\ phase[q] = "idle" /\ phase'[q] = "waiting" /\ command'[q] = c
        /\ \A r \in Requests \ {q} : phase'[r] = phase[r] /\ command'[r] = command[r]
        /\ UNCHANGED <<rate, workDate, touched, current>>
    OBVIOUS
  <1>2. ReadInv'
    BY <1>1 DEF PriceInv, ReadInv
  <1>3. CreatesInv'
    <2>1. c.kind = "create" =>
            rate[c.id] = NoPeriod /\ \A r \in Requests : phase[r] # "idle" => command[r].id # c.id
      OBVIOUS
    <2> QED
      BY <1>1, <2>1 DEF PriceInv, CreatesInv, Creating
  <1>4. SparedInv'
    BY <1>1 DEF PriceInv, SparedInv, Loses
  <1> QED
    BY <1>2, <1>3, <1>4 DEF PriceInv

LEMMA LockPrices ==
    ASSUME PayRatesTypeOK, PriceInv, NEW q \in Requests, Lock(q)
    PROVE  PriceInv'
  <1> USE DEF Lock, shiftVars, PayRatesTypeOK
  <1>1. /\ phase[q] = "waiting" /\ phase'[q] = "locked" /\ current'[q] = rate[command[q].id]
        /\ \A r \in Requests \ {q} : phase'[r] = phase[r] /\ current'[r] = current[r]
        /\ UNCHANGED <<rate, workDate, touched, command>>
    OBVIOUS
  <1>2. ReadInv'
    BY <1>1 DEF PriceInv, ReadInv
  <1>3. CreatesInv'
    BY <1>1 DEF PriceInv, CreatesInv, Creating
  <1>4. SparedInv'
    BY <1>1 DEF PriceInv, SparedInv, Loses
  <1> QED
    BY <1>2, <1>3, <1>4 DEF PriceInv

LEMMA ChecksPrice ==
    ASSUME PayRatesTypeOK, PriceInv, NEW q \in Requests, CheckOverlap(q) \/ CheckShifts(q)
    PROVE  PriceInv'
  <1> USE DEF CheckOverlap, CheckShifts, Advance, PayRatesTypeOK
  <1>1. /\ phase[q] \in {"locked", "disjoint"} /\ phase'[q] \in {"disjoint", "checked"}
        /\ \A r \in Requests \ {q} : phase'[r] = phase[r] /\ touched'[r] = touched[r]
        /\ UNCHANGED <<rate, workDate, command, current>>
    OBVIOUS
  <1>2. ReadInv'
    <2>1. phase[q] = "locked" => command[q].kind = "create" \/ current[q] # NoPeriod
      BY DEF Sound
    <2> QED
      BY <1>1, <2>1 DEF PriceInv, ReadInv
  <1>3. CreatesInv'
    BY <1>1 DEF PriceInv, CreatesInv, Creating
  <1>4. SparedInv'
    <2>1. phase'[q] = "checked" /\ command[q].kind # "create" => ~TakesFromShift(q)
      OBVIOUS
    <2>2. \A r \in Requests : \A d : Loses(r, d)' <=> Loses(r, d)
      BY <1>1 DEF Loses
    <2> QED
      BY <1>1, <2>1, <2>2 DEF PriceInv, SparedInv, TakesFromShift, Loses
  <1> QED
    BY <1>2, <1>3, <1>4 DEF PriceInv

\* A write ends the only request that holds the lock, and touches no row of a create.
LEMMA WritePrices ==
    ASSUME PayRatesTypeOK, LockInv, PriceInv, NEW q \in Requests, WriteRate(q)
    PROVE  PriceInv'
  <1> USE DEF WriteRate, Finish, PayRatesTypeOK
  <1>1. /\ phase[q] = "checked" /\ phase'[q] = "idle"
        /\ \A r \in Requests \ {q} : /\ phase'[r] = phase[r] /\ command'[r] = command[r]
                                     /\ current'[r] = current[r] /\ touched'[r] = touched[r]
    OBVIOUS
  <1>2. \A r \in Requests : phase'[r] \in {"idle", "waiting"}
    BY <1>1 DEF LockInv, Phases
  <1>3. \A i \in Rates \ {command[q].id} : rate'[i] = rate[i]
    OBVIOUS
  <1>4. ReadInv' /\ SparedInv'
    BY <1>2 DEF ReadInv, SparedInv
  <1>5. \A r \in Requests \ {q} : Creating(r) => command[r].id \in Rates \ {command[q].id}
    <2> SUFFICES ASSUME NEW r \in Requests \ {q}, Creating(r) PROVE command[r].id # command[q].id
      BY DEF Creating, Command, NoCommand
    <2>1. rate[command[r].id] = NoPeriod
      BY DEF PriceInv, CreatesInv
    <2>2. CASE command[q].kind = "create"
      BY <1>1, <2>2 DEF PriceInv, CreatesInv, Creating
    <2>3. CASE command[q].kind # "create"
      BY <1>1, <2>1, <2>3 DEF PriceInv, ReadInv
    <2> QED
      BY <2>2, <2>3
  <1>6. CreatesInv'
    <2>1. \A r \in Requests : Creating(r)' => r # q /\ Creating(r)
      BY <1>1 DEF Creating
    <2> QED
      BY <1>1, <1>3, <1>5, <2>1 DEF PriceInv, CreatesInv
  <1> QED
    BY <1>4, <1>6 DEF PriceInv

LEMMA NextPriceInv ==
    ASSUME PayRatesIInv, PriceInv, [PayRatesNext]_payRateVars
    PROVE  PriceInv'
  <1> USE DEF PayRatesIInv
  <1>1. ASSUME NEW q \in Requests, NEW c \in Command, Ask(q, c) PROVE PriceInv'
    BY <1>1, AskPrices
  <1>2. ASSUME NEW q \in Requests, Lock(q) PROVE PriceInv'
    BY <1>2, LockPrices
  <1>3. ASSUME NEW q \in Requests, RejectUnsound(q) \/ RejectOverlap(q) \/ RejectInUse(q)
        PROVE PriceInv'
    <2>1. Reject(q)
      BY <1>3 DEF RejectUnsound, RejectOverlap, RejectInUse
    <2>2. phase'[q] = "idle" /\ UNCHANGED <<rate, workDate>>
      BY <2>1 DEF Reject, Finish, PayRatesTypeOK
    <2>3. \A r \in Requests \ {q} : /\ phase'[r] = phase[r] /\ command'[r] = command[r]
                                    /\ current'[r] = current[r] /\ touched'[r] = touched[r]
      BY <2>1 DEF Reject, Finish, PayRatesTypeOK
    <2> QED
      BY <2>2, <2>3, QuietKeeps
  <1>4. ASSUME NEW q \in Requests, CheckOverlap(q) \/ CheckShifts(q) PROVE PriceInv'
    BY <1>4, ChecksPrice
  <1>5. ASSUME NEW q \in Requests, WriteRate(q) PROVE PriceInv'
    BY <1>5, WritePrices
  <1>6. ASSUME NEW s \in Shifts, NEW d \in Dates \cup {Null}, SetWorkDate(s, d)
        PROVE PriceInv'
    <2>1. UNCHANGED <<rate, phase, command, current>>
      BY <1>6 DEF SetWorkDate, requestVars
    <2>2. \A q \in Requests : touched'[q] = touched[q] \cup {s}
      BY <1>6 DEF SetWorkDate
    <2>3. \A t \in Shifts : workDate'[t] = workDate[t] \/ t = s
      BY <1>6 DEF SetWorkDate, PayRatesTypeOK
    <2> QED
      BY <2>1, <2>2, <2>3, QuietKeeps
  <1>7. CASE UNCHANGED payRateVars
    <2>1. UNCHANGED <<rate, phase, command, current, touched, workDate>>
      BY <1>7 DEF payRateVars
    <2> QED
      BY <2>1, QuietKeeps
  <1> QED
    BY <1>1, <1>2, <1>3, <1>4, <1>5, <1>6, <1>7 DEF PayRatesNext, RequestStep

LEMMA PriceInvariance == PayRatesSpec => [](PayRatesIInv /\ PriceInv)
  <1>1. PayRatesInit => PriceInv
    BY DEF PayRatesInit, PriceInv, ReadInv, CreatesInv, Creating, SparedInv
  <1> QED
    BY <1>1, InitPayRatesIInv, NextIInv, NextPriceInv, PTL DEF PayRatesSpec

\* Only the commit of a request takes it from the in-use query to its end.
LEMMA OnlyWritesCommit ==
    ASSUME PayRatesTypeOK, [PayRatesNext]_payRateVars, NEW q \in Requests,
           phase[q] = "checked", phase'[q] = "idle"
    PROVE  WriteRate(q)
  <1>1. ASSUME NEW r \in Requests, NEW c \in Command, Ask(r, c) PROVE FALSE
    BY <1>1 DEF Ask, PayRatesTypeOK
  <1>2. ASSUME NEW r \in Requests, Lock(r) PROVE FALSE
    BY <1>2 DEF Lock, PayRatesTypeOK
  <1>3. ASSUME NEW r \in Requests, RejectUnsound(r) \/ RejectOverlap(r) \/ RejectInUse(r)
        PROVE FALSE
    BY <1>3 DEF RejectUnsound, RejectOverlap, RejectInUse, Reject, Finish, PayRatesTypeOK
  <1>4. ASSUME NEW r \in Requests, CheckOverlap(r) \/ CheckShifts(r) PROVE FALSE
    BY <1>4 DEF CheckOverlap, CheckShifts, Advance, PayRatesTypeOK
  <1>5. ASSUME NEW r \in Requests, WriteRate(r) PROVE WriteRate(q)
    BY <1>5 DEF WriteRate, Finish, PayRatesTypeOK
  <1>6. ASSUME NEW s \in Shifts, NEW d \in Dates \cup {Null}, SetWorkDate(s, d) PROVE FALSE
    BY <1>6 DEF SetWorkDate, requestVars
  <1>7. CASE UNCHANGED payRateVars
    BY <1>7 DEF payRateVars
  <1> QED
    BY <1>1, <1>2, <1>3, <1>4, <1>5, <1>6, <1>7 DEF PayRatesNext, RequestStep

\* A commit leaves a rate for every date of a shift that its in-use query could see:
\* has_shifts and has_shifts_outside_period ask for all the dates that are lost.
THEOREM SettledShiftsKeepTheirRate == PayRatesSpec => SettledShiftsStayPriced
  <1> DEFINE Settles ==
        \A q \in Requests : phase[q] = "checked" /\ phase'[q] = "idle" =>
            \A s \in Shifts \ touched[q] :
                workDate[s] # Null /\ Priced(workDate[s]) => Priced(workDate[s])'
  <1>1. ASSUME PayRatesIInv, PriceInv, [PayRatesNext]_payRateVars PROVE Settles
    <2> SUFFICES ASSUME NEW q \in Requests, phase[q] = "checked", phase'[q] = "idle",
                        NEW s \in Shifts \ touched[q], workDate[s] # Null, NEW i \in Rates,
                        Covers(rate[i], workDate[s])
                 PROVE  \E j \in Rates : Covers(rate'[j], workDate[s])
      <3>1. PayRatesTypeOK
        BY <1>1 DEF PayRatesIInv
      <3>2. \A r \in Requests : WriteRate(r) => UNCHANGED workDate
        BY DEF WriteRate
      <3> QED
        BY <1>1, <3>1, <3>2, OnlyWritesCommit DEF Priced
    <2>1. PayRatesTypeOK /\ WriteRate(q)
      BY <1>1, OnlyWritesCommit DEF PayRatesIInv
    <2>2. CASE i # command[q].id
      BY <2>1, <2>2 DEF WriteRate, PayRatesTypeOK
    <2>3. CASE i = command[q].id
      <3>1. current[q] = rate[i] /\ rate[i] # NoPeriod
        BY <1>1, <2>3 DEF PriceInv, ReadInv, Covers, NoPeriod, Null
      <3>2. command[q].kind # "create"
        BY <1>1, <2>3, <3>1 DEF PriceInv, CreatesInv, Creating
      <3>3. ~Loses(q, workDate[s])
        BY <1>1, <3>2 DEF PriceInv, SparedInv
      <3>4. command[q].kind = "update" /\ Covers(command[q].period, workDate[s])
        BY <3>1, <3>3 DEF Loses
      <3> QED
        BY <2>1, <2>3, <3>4 DEF WriteRate, PayRatesTypeOK
    <2> QED
      BY <2>2, <2>3
  <1> QED
    BY <1>1, PriceInvariance, PTL DEF PayRatesSpec, SettledShiftsStayPriced
=============================================================================
