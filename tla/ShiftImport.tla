---------------------------- MODULE ShiftImport -----------------------------
(***************************************************************************)
(* One schedule import, from the upload of the image to the shifts made of *)
(* its items: the upload request (a draft transaction, an extraction by    *)
(* Gemini outside of any transaction, a completing transaction), review    *)
(* and commit requests of several tabs, the daily maintenance that expires *)
(* and purges imports, and the deletion of a shift.                        *)
(*                                                                         *)
(* A review or commit request reads in one statement and writes in a later *)
(* one; READ COMMITTED lets others commit in between.  From its first      *)
(* write to its commit a transaction holds the rows it writes, so that     *)
(* part is one step.  Of an item the model keeps whether its fields make a *)
(* shift, and of the maintenance clock that any import may be old enough.  *)
(***************************************************************************)
EXTENDS Integers

CONSTANTS
    Items,    \* item indexes the extraction may return
    Patches,  \* PATCH /imports/{id}/items/{id} requests in progress
    Commits   \* POST /imports/{id}/commit requests in progress

VARIABLES
    status,  \* shift_imports.status; "none" before, "purged" after the row
    upload,  \* the upload request: "idle", "extracting" or "ended"
    item,    \* shift_import_items rows
    made,    \* auxiliary: number of shifts ever created from an item
    patch,   \* patch request: the item it has read and checked
    commit   \* commit request: where it is and what it answered

vars == <<status, upload, item, made, patch, commit>>

Statuses == {"none", "extracting", "review", "committed", "failed", "expired", "purged"}
Validity == {"valid", "invalid"}

\* present: there is a row; linked: committed_shift_id is not null.
ItemRow == [present: BOOLEAN, validity: Validity, confirmed: BOOLEAN, linked: BOOLEAN]
NoItem == [present |-> FALSE, validity |-> "invalid", confirmed |-> FALSE, linked |-> FALSE]

TypeOK ==
    /\ status \in Statuses
    /\ upload \in {"idle", "extracting", "ended"}
    /\ item \in [Items -> ItemRow]
    /\ made \in [Items -> Nat]
    /\ patch \in [Patches -> [item: Items, open: BOOLEAN]]
    /\ commit \in [Commits -> [open: BOOLEAN, answer: {"none", "committed", "refused"}]]

Init ==
    /\ status = "none"
    /\ upload = "idle"
    /\ item = [i \in Items |-> NoItem]
    /\ made = [i \in Items |-> 0]
    /\ patch \in [Patches -> [item: Items, open: {FALSE}]]
    /\ commit = [c \in Commits |-> [open |-> FALSE, answer |-> "none"]]

-----------------------------------------------------------------------------
(* Upload. *)

\* create_import and set_extracting in one transaction.
CreateDraft ==
    /\ upload = "idle"
    /\ upload' = "extracting"
    /\ status' = "extracting"
    /\ UNCHANGED <<item, made, patch, commit>>

\* What _normalize_extracted makes of an item.  "inverted" is an item marked
\* invalid whose end is not after its start: both are stored all the same.
Normalized == Validity \cup {"inverted"}

EndUpload == upload = "extracting" /\ upload' = "ended"

\* save_extraction: the items replace those there are, and only an import
\* that is still extracting goes to review.  ck_time_range refuses inverted
\* items and the foreign key a purged import.
Storable(found) ==
    /\ \A i \in DOMAIN found : found[i] # "inverted"
    /\ status = "purged" => DOMAIN found = {}

\* What if save_extraction set the status whatever it had become.
SaveExtractionLate(found) ==
    /\ EndUpload
    /\ Storable(found)
    /\ item' = [i \in Items |->
                  IF i \in DOMAIN found
                  THEN [NoItem EXCEPT !.present = TRUE, !.validity = found[i]]
                  ELSE NoItem]
    /\ status' = "review"
    /\ UNCHANGED <<made, patch, commit>>

SaveExtraction(found) ==
    /\ EndUpload
    /\ Storable(found)
    /\ item' = [i \in Items |->
                  IF i \in DOMAIN found
                  THEN [NoItem EXCEPT !.present = TRUE, !.validity = found[i]]
                  ELSE NoItem]
    /\ status' = IF status = "extracting" THEN "review" ELSE status
    /\ UNCHANGED <<made, patch, commit>>

\* GeminiExtractionError: set_failed.
SetFailed ==
    /\ EndUpload
    /\ status' = IF status = "extracting" THEN "failed" ELSE status
    /\ UNCHANGED <<item, made, patch, commit>>

\* The constraint's exception rolls the completing transaction back.
SaveRefused(found) ==
    /\ EndUpload
    /\ ~Storable(found)
    /\ UNCHANGED <<status, item, made, patch, commit>>

\* extract lets an exception through: QuotaExceededError, httpx.ConnectError.
ExtractionEscapes ==
    /\ EndUpload
    /\ UNCHANGED <<status, item, made, patch, commit>>

\* The draft is committed, the rest never runs.
ProcessEnds ==
    /\ EndUpload
    /\ UNCHANGED <<status, item, made, patch, commit>>

-----------------------------------------------------------------------------
(* Review. *)

PatchRead(p, i) ==
    /\ ~patch[p].open
    /\ status = "review"
    /\ item[i].present
    /\ patch' = [patch EXCEPT ![p] = [item |-> i, open |-> TRUE]]
    /\ UNCHANGED <<status, upload, item, made, commit>>

\* What if update_item did not look at committed_shift_id.
PatchWriteLinked(p, validity, confirmed) ==
    LET i == patch[p].item
    IN  /\ patch[p].open
        /\ confirmed => validity = "valid"
        /\ item[i].present
        /\ item' = [item EXCEPT ![i].validity = validity, ![i].confirmed = confirmed]
        /\ patch' = [patch EXCEPT ![p].open = FALSE]
        /\ UNCHANGED <<status, upload, made, commit>>

\* The fields are the patch's, or those of the row as read where the patch has
\* none.  The UPDATE has no condition on the import's status.
PatchWrite(p, validity, confirmed) ==
    LET i == patch[p].item
    IN  /\ patch[p].open
        /\ confirmed => validity = "valid"
        /\ item[i].present
        /\ ~item[i].linked
        /\ item' = [item EXCEPT ![i].validity = validity, ![i].confirmed = confirmed]
        /\ patch' = [patch EXCEPT ![p].open = FALSE]
        /\ UNCHANGED <<status, upload, made, commit>>

\* A conflict, a row that is gone or linked, or a refused time range.
PatchRefused(p) ==
    /\ patch[p].open
    /\ patch' = [patch EXCEPT ![p].open = FALSE]
    /\ UNCHANGED <<status, upload, item, made, commit>>

-----------------------------------------------------------------------------
(* Commit. *)

Ready(i) == item[i].present /\ item[i].confirmed /\ item[i].validity = "valid"

Answer(c, answer) == commit' = [commit EXCEPT ![c] = [open |-> FALSE, answer |-> answer]]

\* The service's read of the import and of its items.
CommitRead(c) ==
    /\ ~commit[c].open
    /\ status # "none"
    /\ \/ /\ status = "committed"
          /\ Answer(c, "committed")
       \/ /\ status = "review"
          /\ \E i \in Items : Ready(i)
          /\ commit' = [commit EXCEPT ![c] = [open |-> TRUE, answer |-> "none"]]
       \/ /\ status # "committed"
          /\ status = "review" => \A i \in Items : ~Ready(i)
          /\ Answer(c, "refused")
    /\ UNCHANGED <<status, upload, item, made, patch>>

\* The repository's commit, from its row lock on the import to the end of the
\* transaction: only "committed" is looked for in the status it then reads.
ToCreate == {i \in Items : Ready(i) /\ ~item[i].linked}

\* What if the status were not read again under the row lock.
CommitWriteUnchecked(c) ==
    /\ commit[c].open
    /\ status # "purged"
    /\ item' = [i \in Items |->
                  IF i \in ToCreate THEN [item[i] EXCEPT !.linked = TRUE] ELSE item[i]]
    /\ made' = [i \in Items |-> IF i \in ToCreate THEN made[i] + 1 ELSE made[i]]
    /\ status' = IF status = "review" THEN "committed" ELSE status
    /\ Answer(c, "committed")
    /\ UNCHANGED <<upload, patch>>

CommitWrite(c) ==
    /\ commit[c].open
    /\ status \notin {"purged", "committed"}
    /\ item' = [i \in Items |->
                  IF i \in ToCreate THEN [item[i] EXCEPT !.linked = TRUE] ELSE item[i]]
    /\ made' = [i \in Items |-> IF i \in ToCreate THEN made[i] + 1 ELSE made[i]]
    /\ status' = IF status = "review" THEN "committed" ELSE status
    /\ Answer(c, "committed")
    /\ UNCHANGED <<upload, patch>>

\* Another request has committed the import: the shifts that still exist.
CommitReplay(c) ==
    /\ commit[c].open
    /\ status = "committed"
    /\ Answer(c, "committed")
    /\ UNCHANGED <<status, upload, item, made, patch>>

CommitMissing(c) ==
    /\ commit[c].open
    /\ status = "purged"
    /\ Answer(c, "refused")
    /\ UNCHANGED <<status, upload, item, made, patch>>

-----------------------------------------------------------------------------
(* Maintenance, and DELETE /shifts. *)

\* What if only imports under review were expired.
ExpireReviewed ==
    /\ status \in {"review", "failed"}
    /\ status' = "expired"
    /\ UNCHANGED <<upload, item, made, patch, commit>>

\* An import past its time to live, whatever its requests are doing.
Expire ==
    /\ status \in {"extracting", "review", "failed"}
    /\ status' = "expired"
    /\ UNCHANGED <<upload, item, made, patch, commit>>

\* Past the retention: the items go with the import, the shifts stay.
Purge ==
    /\ status = "expired"
    /\ status' = "purged"
    /\ item' = [i \in Items |-> NoItem]
    /\ UNCHANGED <<upload, made, patch, commit>>

\* ON DELETE SET NULL on committed_shift_id.
DeleteShift(i) ==
    /\ item[i].linked
    /\ item' = [item EXCEPT ![i].linked = FALSE]
    /\ UNCHANGED <<status, upload, made, patch, commit>>

-----------------------------------------------------------------------------

\* What the extraction may return: some of the items, each normalized.
Extractions == UNION {[found -> Normalized] : found \in SUBSET Items}

UploadStep ==
    \/ \E found \in Extractions : SaveExtraction(found) \/ SaveRefused(found)
    \/ SetFailed
    \/ ExtractionEscapes
    \/ ProcessEnds

PatchStep(p) ==
    \/ \E validity \in Validity, confirmed \in BOOLEAN : PatchWrite(p, validity, confirmed)
    \/ PatchRefused(p)

CommitStep(c) == CommitWrite(c) \/ CommitReplay(c) \/ CommitMissing(c)

Next ==
    \/ CreateDraft \/ UploadStep
    \/ \E p \in Patches : (\E i \in Items : PatchRead(p, i)) \/ PatchStep(p)
    \/ \E c \in Commits : CommitRead(c) \/ CommitStep(c)
    \/ Expire \/ Purge
    \/ \E i \in Items : DeleteShift(i)

\* Cloud Scheduler runs the maintenance every day, and age only grows.
Spec == Init /\ [][Next]_vars /\ WF_vars(Expire)

-----------------------------------------------------------------------------
(* Properties. *)

\* An item becomes at most one shift, however often and from however many
\* tabs its import is committed, edited again, or its shift deleted; only the
\* expiry of the import while two commits are open takes this away.
OneShiftPerItem ==
    \A i \in Items : made[i] > 1 => status \in {"expired", "purged"}

\* README: AI output is never schedule truth without confirmation.  A shift
\* comes of an item that stands confirmed and valid, whatever edit, with
\* whatever stale read, was interleaved; and what still makes no shift is not
\* linked to one.
TruthWasConfirmed ==
    \A i \in Items : item[i].linked => Ready(i) /\ made[i] > 0

\* A late extraction, edit or commit never brings an import back from the end
\* it has come to; a committed import creates no further shift, and an edit
\* that was read before the commit does not change the item that its shift
\* was made of.
EndsAreFinal ==
    [][/\ status \in {"committed", "failed", "expired", "purged"} =>
            status' \notin {"extracting", "review"}
       /\ status = "committed" => status' = "committed" /\ made' = made
       /\ \A i \in Items : item[i].linked /\ item'[i].linked => item'[i] = item[i]]_vars

\* No import stays in extraction for ever, even if its upload was cut off.
ExtractionEnds == status = "extracting" ~> status # "extracting"
=============================================================================
