---------------------------- MODULE CalendarSync ----------------------------
(***************************************************************************)
(* One owner's Google Calendar mirror: POST /calendar/sync against shift   *)
(* create, edit and delete, the OAuth callback, and Google itself.         *)
(*                                                                         *)
(* A sync is one READ COMMITTED transaction that is open from the row lock *)
(* on calendar_connections to the end of the request; whatever it wrote    *)
(* (wrote, draft) is invisible to others until SyncCommit and is discarded *)
(* when the handler raises, because user_connection wraps the request in   *)
(* engine.begin().  A row written by an open transaction is locked.  Every *)
(* statement is scoped to one owner by row level security, so one owner    *)
(* is modelled.  The external event id of a record, once set, is always    *)
(* stable_event_id of its shift: a boolean says whether it is stored, and  *)
(* events and records are indexed by the shift the id was derived from.    *)
(***************************************************************************)
EXTENDS Integers

CONSTANTS
    Shifts,      \* shift ids (UUIDs: never reused)
    Syncs,       \* sync requests that may be in progress
    MaxVersion,  \* bound: number of contents a shift goes through
    Faults       \* which failures happen, a subset of FaultKinds

\* An answer lost after Google applied the call, a 401/403 for the access
\* token, and the end of the process or of the request's time.
FaultKinds == {"lost", "revoked", "crash"}

ASSUME CalendarAssumption ==
    /\ MaxVersion \in Nat \ {0}
    /\ Faults \subseteq FaultKinds

VARIABLES
    version,   \* shifts: content of the row, 0 before it is created
    gone,      \* shifts: rows deleted
    deleting,  \* delete transactions between their UPDATE and their DELETE
    marked,    \* those whose UPDATE found a sync record (and locks it)
    conn,      \* calendar_connections.status, "none" without a row
    grant,     \* Google: the stored refresh token is valid
    events,    \* Google: content of the event with s's stable id, 0 if none
    rec,       \* calendar_sync_records, committed
    phase,     \* sync request: where its handler is
    todo,      \* sync request: rows of list_sync_records still to process
    listed,    \* auxiliary: all of the rows it listed
    reply,     \* sync request: the item Google has answered for, not yet marked
    wrote,     \* sync request: records it has written, not yet committed
    draft,     \* sync request: its version of the records in wrote
    outcome    \* sync request: how the last one ended

shiftVars == <<version, gone, deleting, marked>>
googleVars == <<grant, events>>
syncVars == <<phase, todo, listed, reply, wrote, draft, outcome>>
vars == <<shiftVars, conn, googleVars, rec, syncVars>>

Statuses == {"none", "pending", "synced", "failed", "pending_delete", "deleted"}
Record == [status: Statuses, linked: BOOLEAN, event: BOOLEAN]
NoRecord == [status |-> "none", linked |-> FALSE, event |-> FALSE]
Item == [shift: Shifts, op: {"upsert", "delete"}, event: BOOLEAN,
         version: 0..MaxVersion]
Reply == [item: Item, ok: BOOLEAN]
Outcomes == {"none", "ok", "refused", "auth_revoked", "error", "crashed"}

TypeOK ==
    /\ version \in [Shifts -> 0..MaxVersion]
    /\ gone \subseteq Shifts
    /\ deleting \subseteq Shifts
    /\ marked \subseteq deleting
    /\ conn \in {"none", "active", "revoked"}
    /\ grant \in BOOLEAN
    /\ events \in [Shifts -> 0..MaxVersion]
    /\ rec \in [Shifts -> Record]
    /\ phase \in [Syncs -> {"idle", "refresh", "push"}]
    /\ todo \in [Syncs -> SUBSET Item]
    /\ listed \in [Syncs -> SUBSET Item]
    /\ reply \in [Syncs -> SUBSET Reply]
    /\ wrote \in [Syncs -> SUBSET Shifts]
    /\ draft \in [Syncs -> [Shifts -> Record]]
    /\ outcome \in [Syncs -> Outcomes]

Init ==
    /\ version = [s \in Shifts |-> 0]
    /\ gone = {}
    /\ deleting = {}
    /\ marked = {}
    /\ conn = "none"
    /\ grant = FALSE
    /\ events = [s \in Shifts |-> 0]
    /\ rec = [s \in Shifts |-> NoRecord]
    /\ phase = [r \in Syncs |-> "idle"]
    /\ todo = [r \in Syncs |-> {}]
    /\ listed = [r \in Syncs |-> {}]
    /\ reply = [r \in Syncs |-> {}]
    /\ wrote = [r \in Syncs |-> {}]
    /\ draft = [r \in Syncs |-> [s \in Shifts |-> NoRecord]]
    /\ outcome = [r \in Syncs |-> "none"]

Live == {s \in Shifts : version[s] > 0} \ gone
Open == {r \in Syncs : phase[r] # "idle"}

-----------------------------------------------------------------------------
(* Shifts: each of these is a request of its own. *)

CreateShift(s) ==
    /\ version[s] = 0
    /\ version' = [version EXCEPT ![s] = 1]
    /\ UNCHANGED <<gone, deleting, marked, conn, googleVars, rec, syncVars>>

\* Only the shifts row: the sync record is not touched.
UpdateShift(s) ==
    /\ s \in Live
    /\ version[s] < MaxVersion
    /\ version' = [version EXCEPT ![s] = @ + 1]
    /\ UNCHANGED <<gone, deleting, marked, conn, googleVars, rec, syncVars>>

\* No open sync has written, so has locked, the record of s.
RecordFree(s) == \A r \in Syncs : s \notin wrote[r]

\* First statement of delete_shift.  It sees committed records only: one that
\* an open sync has just inserted is neither updated nor waited for.
DeleteMark(s) ==
    /\ s \in Live \ deleting
    /\ rec[s].status # "none" => RecordFree(s)
    /\ deleting' = deleting \cup {s}
    /\ marked' = IF rec[s].status \in {"none", "deleted"}
                 THEN marked ELSE marked \cup {s}
    /\ UNCHANGED <<version, gone, conn, googleVars, rec, syncVars>>

\* The record of s with the UPDATE of delete_shift and ON DELETE SET NULL.
Tombstone(s) ==
    [status |-> IF s \in marked THEN "pending_delete" ELSE rec[s].status,
     linked |-> FALSE,
     event |-> rec[s].event]

\* What if the tombstone never got past the transaction that marked it.
DeleteCommitStale(s) ==
    /\ s \in deleting
    /\ RecordFree(s)
    /\ gone' = gone \cup {s}
    /\ deleting' = deleting \ {s}
    /\ rec' = [rec EXCEPT ![s].linked = FALSE]
    /\ UNCHANGED <<version, marked, conn, googleVars, syncVars>>

\* Second statement and commit.  The DELETE waits for the key share lock of a
\* sync that inserted a record for s.
DeleteCommit(s) ==
    /\ s \in deleting
    /\ RecordFree(s)
    /\ gone' = gone \cup {s}
    /\ deleting' = deleting \ {s}
    /\ marked' = marked \ {s}
    /\ rec' = [rec EXCEPT ![s] = Tombstone(s)]
    /\ UNCHANGED <<version, conn, googleVars, syncVars>>

-----------------------------------------------------------------------------
(* The connection. *)

\* calendar_callback after a successful code exchange: Google may or may not
\* return a refresh token; save_connection waits for the row lock of a sync.
Connect(refreshToken) ==
    /\ Open = {}
    /\ refreshToken \/ conn # "none"
    /\ conn' = "active"
    /\ grant' = (grant \/ refreshToken)
    /\ UNCHANGED <<shiftVars, events, rec, syncVars>>

\* The owner withdraws the access at Google.
GrantRevoked ==
    /\ grant
    /\ grant' = FALSE
    /\ UNCHANGED <<shiftVars, conn, events, rec, syncVars>>

-----------------------------------------------------------------------------
(* Sync. *)

\* What if the SELECT had no FOR UPDATE.
SyncBeginUnlocked(r) ==
    /\ phase[r] = "idle"
    /\ conn = "active"
    /\ phase' = [phase EXCEPT ![r] = "refresh"]
    /\ outcome' = [outcome EXCEPT ![r] = "none"]
    /\ UNCHANGED <<shiftVars, conn, googleVars, rec, todo, listed, reply, wrote, draft>>

\* get_connection(for_update=True): one transaction holds the row.
SyncBegin(r) ==
    /\ phase[r] = "idle"
    /\ Open = {}
    /\ conn = "active"
    /\ phase' = [phase EXCEPT ![r] = "refresh"]
    /\ outcome' = [outcome EXCEPT ![r] = "none"]
    /\ UNCHANGED <<shiftVars, conn, googleVars, rec, todo, listed, reply, wrote, draft>>

SyncRefused(r) ==
    /\ phase[r] = "idle"
    /\ Open = {}
    /\ conn # "active"
    /\ outcome' = [outcome EXCEPT ![r] = "refused"]
    /\ UNCHANGED <<shiftVars, conn, googleVars, rec, phase, todo, listed, reply, wrote, draft>>

\* An exception leaves the handler: engine.begin() rolls everything back.
Rollback(r, why) ==
    /\ phase' = [phase EXCEPT ![r] = "idle"]
    /\ todo' = [todo EXCEPT ![r] = {}]
    /\ listed' = [listed EXCEPT ![r] = {}]
    /\ reply' = [reply EXCEPT ![r] = {}]
    /\ wrote' = [wrote EXCEPT ![r] = {}]
    /\ draft' = [draft EXCEPT ![r] = [s \in Shifts |-> NoRecord]]
    /\ outcome' = [outcome EXCEPT ![r] = why]
    /\ UNCHANGED <<conn, rec>>

\* mark_connection_revoked, then the raise that undoes it.
RaiseRevoked(r) == Rollback(r, "auth_revoked")

\* ensure_sync_records over the shifts of the date range.
Missing(range) == {s \in range \cap Live : rec[s].status = "none"}

\* A row as r's own statements see it.
Seen(r, s) == IF s \in wrote[r] THEN draft[r][s] ELSE rec[s]

\* list_sync_records, given the records just inserted.
ItemOf(s, row) ==
    [shift |-> s,
     op |-> IF ~row.linked \/ row.status = "pending_delete" THEN "delete" ELSE "upsert",
     event |-> row.event,
     version |-> version[s]]

Listed(range, rows) ==
    {ItemOf(s, rows[s]) : s \in {t \in Shifts :
        /\ rows[t].status \notin {"none", "deleted"}
        /\ t \in range \/ ~rows[t].linked}}

\* The refreshed token, then both statements.  A shift deleted between them
\* is listed as if it had been deleted before both.  An INSERT that meets a
\* concurrent delete of the shift fails its foreign key: RefreshFail.
RefreshOk(r, range) ==
    /\ phase[r] = "refresh"
    /\ grant
    /\ \A s \in Missing(range) : RecordFree(s)
    /\ LET inserted == [status |-> "pending", linked |-> TRUE, event |-> FALSE]
           rows == [s \in Shifts |->
                      IF s \in Missing(range) THEN inserted ELSE rec[s]]
       IN  /\ wrote' = [wrote EXCEPT ![r] = Missing(range)]
           /\ draft' = [draft EXCEPT ![r] =
                [s \in Shifts |-> IF s \in Missing(range) THEN inserted ELSE NoRecord]]
           /\ todo' = [todo EXCEPT ![r] = Listed(range, rows)]
           /\ listed' = [listed EXCEPT ![r] = Listed(range, rows)]
    /\ phase' = [phase EXCEPT ![r] = "push"]
    /\ UNCHANGED <<shiftVars, conn, googleVars, rec, reply, outcome>>

\* invalid_grant.
RefreshRevoked(r) ==
    /\ phase[r] = "refresh"
    /\ ~grant
    /\ RaiseRevoked(r)
    /\ UNCHANGED <<shiftVars, googleVars>>

\* Any other token error, an undecryptable token, or a failed INSERT.
RefreshFail(r) ==
    /\ phase[r] = "refresh"
    /\ Rollback(r, "error")
    /\ UNCHANGED <<shiftVars, googleVars>>

\* What the call for it does at Google once it is applied.
Applied(it) ==
    IF it.op = "delete"
    THEN IF it.event THEN [events EXCEPT ![it.shift] = 0] ELSE events
    ELSE [events EXCEPT ![it.shift] = it.version]

Calls(it) == it.op = "upsert" \/ it.event

\* What if the first failure ended the loop.
AnsweredGivingUp(r, it, ok) ==
    /\ phase[r] = "push"
    /\ reply[r] = {}
    /\ todo' = [todo EXCEPT ![r] = IF ok THEN @ \ {it} ELSE {}]
    /\ reply' = [reply EXCEPT ![r] = {[item |-> it, ok |-> ok]}]
    /\ UNCHANGED <<shiftVars, conn, grant, rec, phase, listed, wrote, draft, outcome>>

\* The provider call of one iteration of the loop over the records has been
\* answered; other requests run before the loop resumes the handler.
Answered(r, it, ok) ==
    /\ phase[r] = "push"
    /\ reply[r] = {}
    /\ todo' = [todo EXCEPT ![r] = @ \ {it}]
    /\ reply' = [reply EXCEPT ![r] = {[item |-> it, ok |-> ok]}]
    /\ UNCHANGED <<shiftVars, conn, grant, rec, phase, listed, wrote, draft, outcome>>

\* A tombstone without an event id is marked deleted without any call.
PushOk(r, it) ==
    /\ Answered(r, it, TRUE)
    /\ events' = Applied(it)

PushRejected(r, it) ==
    /\ Calls(it)
    /\ Answered(r, it, FALSE)
    /\ UNCHANGED events

\* Google applied the call; the client saw a timeout, a 429 or a 5xx.  That
\* Google does not apply a call later than the client's timeout is assumed.
PushLost(r, it) ==
    /\ "lost" \in Faults
    /\ Calls(it)
    /\ Answered(r, it, FALSE)
    /\ events' = Applied(it)

\* 401 or 403 in the middle of the loop.
PushRevoked(r, it) ==
    /\ "revoked" \in Faults
    /\ phase[r] = "push"
    /\ reply[r] = {}
    /\ Calls(it)
    /\ RaiseRevoked(r)
    /\ UNCHANGED <<shiftVars, googleVars>>

\* UPDATE calendar_sync_records ... WHERE id = record.id: waits for the lock
\* of a delete or of another sync; shift_id is not among the columns.
Mark(r, s, status, event) ==
    /\ s \notin marked
    /\ \A q \in Syncs \ {r} : s \notin wrote[q]
    /\ wrote' = [wrote EXCEPT ![r] = @ \cup {s}]
    /\ draft' = [draft EXCEPT ![r][s] =
                   [Seen(r, s) EXCEPT !.status = status, !.event = event]]

\* What if a deleted tombstone dropped its event id.
MarkSuccessForgetting(r, it) ==
    IF it.op = "delete" THEN Mark(r, it.shift, "deleted", FALSE)
                        ELSE Mark(r, it.shift, "synced", TRUE)

\* mark_sync_success with the event id the upsert returned, or the record's.
MarkSuccess(r, it) ==
    IF it.op = "delete" THEN Mark(r, it.shift, "deleted", it.event)
                        ELSE Mark(r, it.shift, "synced", TRUE)

\* What if a failure were marked like a success.
MarkFailureAsSuccess(r, it) ==
    Mark(r, it.shift, IF it.op = "delete" THEN "deleted" ELSE "synced", it.event)

MarkFailure(r, it) ==
    Mark(r, it.shift, "failed", Seen(r, it.shift).event)

MarkReply(r) ==
    /\ \E a \in reply[r] :
         IF a.ok THEN MarkSuccess(r, a.item) ELSE MarkFailure(r, a.item)
    /\ reply' = [reply EXCEPT ![r] = {}]
    /\ UNCHANGED <<shiftVars, conn, googleVars, rec, phase, todo, listed, outcome>>

SyncCommit(r) ==
    /\ phase[r] = "push"
    /\ todo[r] = {}
    /\ reply[r] = {}
    /\ rec' = [s \in Shifts |-> Seen(r, s)]
    /\ phase' = [phase EXCEPT ![r] = "idle"]
    /\ listed' = [listed EXCEPT ![r] = {}]
    /\ wrote' = [wrote EXCEPT ![r] = {}]
    /\ draft' = [draft EXCEPT ![r] = [s \in Shifts |-> NoRecord]]
    /\ outcome' = [outcome EXCEPT ![r] = "ok"]
    /\ UNCHANGED <<shiftVars, conn, googleVars, todo, reply>>

\* The instance is stopped or the request is cut off: the database rolls back
\* and what was done at Google stays.
SyncCrash(r) ==
    /\ "crash" \in Faults
    /\ phase[r] # "idle"
    /\ Rollback(r, "crashed")
    /\ UNCHANGED <<shiftVars, googleVars>>

-----------------------------------------------------------------------------

ShiftStep(s) == CreateShift(s) \/ UpdateShift(s) \/ DeleteMark(s) \/ DeleteCommit(s)

Push(r) == \E it \in todo[r] :
    PushOk(r, it) \/ PushRejected(r, it) \/ PushLost(r, it) \/ PushRevoked(r, it)

Refresh(r) ==
    \/ \E range \in SUBSET Shifts : RefreshOk(r, range)
    \/ RefreshRevoked(r)
    \/ RefreshFail(r)

SyncStep(r) == Refresh(r) \/ Push(r) \/ MarkReply(r) \/ SyncCommit(r)

Next ==
    \/ \E s \in Shifts : ShiftStep(s)
    \/ \E refreshToken \in BOOLEAN : Connect(refreshToken)
    \/ GrantRevoked
    \/ \E r \in Syncs : SyncBegin(r) \/ SyncRefused(r) \/ SyncStep(r) \/ SyncCrash(r)

Spec == Init /\ [][Next]_vars

-----------------------------------------------------------------------------
(* Properties. *)

\* A record that is committed as deleted and that knows its event id has no
\* event left at Google: the row stops being listed only when the event is
\* gone, whatever crashes, lost answers and deletes were interleaved.
DeletedMeansGone ==
    \A s \in Shifts :
        rec[s].status = "deleted" /\ rec[s].event => events[s] = 0

\* A live shift whose record says synced has its event at Google: success is
\* recorded only for a call that Google confirmed, never for one rolled back.
SyncedIsReal ==
    \A s \in Live : rec[s].status = "synced" => events[s] > 0

\* What a sync is about to commit is what Google holds, for every record it
\* has finished: no other sync may move the event under it.
DraftMatchesGoogle ==
    \A r \in Syncs : \A s \in wrote[r] :
        /\ draft[r][s].status = "synced" => events[s] > 0
        /\ draft[r][s].status = "deleted" /\ draft[r][s].event => events[s] = 0

\* A live record, a committed one that is deleted and an uncommitted one each
\* say what Google holds.
MirrorAgrees == DeletedMeansGone /\ SyncedIsReal /\ DraftMatchesGoogle

\* The committed event id of a record is never forgotten, not by a failed
\* push, not by the deletion of the shift, not by a sync with stale rows.
EventIdKept ==
    [][\A s \in Shifts : rec[s].event => rec'[s].event]_vars

\* The content of an event only moves forward, until the event is deleted: a
\* sync that listed a shift before an edit never overwrites what a sync that
\* listed it after the edit has pushed, and never revives a deleted event.
EventNeverRegresses ==
    [][\A s \in Shifts :
         /\ events'[s] = 0 \/ events'[s] >= events[s]
         /\ events[s] > 0 /\ events'[s] = 0 => s \in gone
         /\ events[s] = 0 /\ events'[s] > 0 => rec[s].status # "deleted"]_vars

\* Neither the ids nor the contents are ever taken back.
MirrorMovesForward == EventIdKept /\ EventNeverRegresses

\* What the sync made of a row it had listed: it failed, or Google holds the
\* content it had when it was listed, or nothing after a deletion.
Settled(it, row) ==
    \/ row.status = "failed"
    \/ /\ it.op = "upsert" /\ row.status = "synced" /\ row.event
       /\ events[it.shift] = it.version
    \/ /\ it.op = "delete" /\ row.status = "deleted"
       /\ it.event => events[it.shift] = 0

\* A sync that is answered "ok" has settled every record it listed, whatever
\* failed among them and whichever shifts were edited or deleted under it,
\* and has left the others as they are.
SyncsSettle ==
    [][\A r \in Syncs :
         phase[r] = "push" /\ phase'[r] = "idle" /\ outcome'[r] = "ok" =>
            /\ \A it \in listed[r] : Settled(it, rec'[it.shift])
            /\ \A s \in Shifts : (\A it \in listed[r] : it.shift # s) => rec'[s] = rec[s]]_vars
=============================================================================
