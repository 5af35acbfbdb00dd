------------------------- MODULE CalendarSyncProofs -------------------------
(***************************************************************************)
(* For any number of shifts and sync requests, any contents and any set of *)
(* faults: the types, and that records, drafts and Google agree.           *)
(*                                                                         *)
(* None of the properties is inductive.  What is missing is what a sync    *)
(* knows of the rows it listed and has not finished: that they are still   *)
(* as it listed them, because the row lock keeps other syncs out and a     *)
(* deletion only ever turns a record into a tombstone.                     *)
(***************************************************************************)
EXTENDS CalendarSync, TLAPS

\* The lock of the connection row: one sync is under way.
Alone == \A r, q \in Syncs : phase[r] # "idle" /\ phase[q] # "idle" => r = q

\* Only a sync that has its token has work and writes.
Quiet == \A r \in Syncs :
    phase[r] # "push" => todo[r] = {} /\ reply[r] = {} /\ wrote[r] = {}

\* A committed record, its shift and its event.
RecordOf(s) ==
    /\ rec[s].status = "none" => ~rec[s].event
    /\ rec[s].status # "none" => version[s] > 0
    /\ rec[s].status # "none" /\ (~rec[s].linked \/ rec[s].status = "pending_delete")
         => s \in gone
    /\ rec[s].status = "deleted" /\ rec[s].event => events[s] = 0
    /\ rec[s].status = "synced" /\ s \notin gone => events[s] > 0
    /\ events[s] <= version[s]
    /\ s \in deleting => version[s] > 0

RecordInv == \A s \in Shifts : RecordOf(s)

\* A record that a sync has written and not committed.
DraftOf(r, s) ==
    /\ version[s] > 0
    /\ draft[r][s].status # "none"
    /\ ~draft[r][s].linked \/ draft[r][s].status = "pending_delete" => s \in gone
    /\ draft[r][s].status = "deleted" /\ draft[r][s].event => events[s] = 0
    /\ draft[r][s].status = "synced" => events[s] > 0
    /\ rec[s].event => draft[r][s].event

DraftInv == \A r \in Syncs : \A s \in wrote[r] : DraftOf(r, s)

\* An item that a sync has listed and not marked yet.
ItemOk(r, it) ==
    /\ it.version > 0
    /\ it.version <= version[it.shift]
    /\ it.op = "delete" => it.shift \in gone
    /\ rec[it.shift].event => it.event
    /\ it.shift \in wrote[r] => draft[r][it.shift].status = "pending"
                                /\ rec[it.shift].status = "none"
    /\ it.shift \notin wrote[r] => rec[it.shift].status \notin {"none", "deleted"}

TodoInv == \A r \in Syncs : \A it \in todo[r] :
    /\ ItemOk(r, it)
    /\ events[it.shift] <= it.version
    /\ \A other \in todo[r] : other.shift = it.shift => other = it
    /\ \A a \in reply[r] : a.item.shift # it.shift

ReplyInv == \A r \in Syncs : \A a \in reply[r] :
    /\ ItemOk(r, a.item)
    /\ a.ok /\ a.item.op = "delete" /\ a.item.event => events[a.item.shift] = 0
    /\ a.ok /\ a.item.op = "upsert" => events[a.item.shift] > 0
    /\ \A b \in reply[r] : b = a

\* Of the rows a sync has listed, what it has done and what is left of it.
ListedOf(r) ==
    /\ phase[r] # "push" => listed[r] = {}
    /\ \A it, other \in listed[r] : it.shift = other.shift => it = other
    /\ todo[r] \subseteq listed[r]
    /\ \A a \in reply[r] :
        /\ a.item \in listed[r]
        /\ a.ok /\ a.item.op = "upsert" => events[a.item.shift] = a.item.version
    /\ \A s \in wrote[r] : \E it \in listed[r] : it.shift = s
    /\ \A it \in listed[r] :
        \/ it \in todo[r]
        \/ \E a \in reply[r] : a.item = it
        \/ it.shift \in wrote[r] /\ Settled(it, draft[r][it.shift])

ListedInv == \A r \in Syncs : ListedOf(r)

Agreement == Alone /\ Quiet /\ RecordInv /\ DraftInv /\ TodoInv /\ ReplyInv
IInv == TypeOK /\ Agreement

-----------------------------------------------------------------------------
(* Types. *)

LEMMA InitTypeOK == Init => TypeOK
  <1> SUFFICES ASSUME Init PROVE TypeOK
    OBVIOUS
  <1>1. NoRecord \in Record
    BY DEF Record, NoRecord, Statuses
  <1>2. 0 \in 0..MaxVersion
    BY CalendarAssumption
  <1>3. [s \in Shifts |-> NoRecord] \in [Shifts -> Record]
    BY <1>1
  <1>4. rec \in [Shifts -> Record] /\ draft \in [Syncs -> [Shifts -> Record]]
    BY <1>3 DEF Init
  <1>5. /\ todo \in [Syncs -> SUBSET Item]
        /\ listed \in [Syncs -> SUBSET Item]
        /\ reply \in [Syncs -> SUBSET Reply]
        /\ wrote \in [Syncs -> SUBSET Shifts]
    BY DEF Init
  <1> QED
    BY <1>2, <1>4, <1>5 DEF Init, TypeOK, Outcomes

LEMMA RollbackTypes ==
    ASSUME TypeOK, NEW r \in Syncs, NEW why \in Outcomes, Rollback(r, why),
           UNCHANGED <<shiftVars, googleVars>>
    PROVE  TypeOK'
  <1>1. [s \in Shifts |-> NoRecord] \in [Shifts -> Record]
    BY DEF Record, NoRecord, Statuses
  <1> QED
    BY <1>1 DEF Rollback, TypeOK, shiftVars, googleVars

LEMMA AnsweredTypes ==
    ASSUME TypeOK, NEW r \in Syncs, NEW it \in todo[r], NEW ok \in BOOLEAN,
           Answered(r, it, ok), events' \in {events, Applied(it)}
    PROVE  TypeOK'
  <1>1. it \in Item /\ [item |-> it, ok |-> ok] \in Reply
    BY DEF TypeOK, Reply
  <1>2. it.shift \in Shifts /\ it.version \in 0..MaxVersion
    BY <1>1 DEF Item
  <1>3. events' \in [Shifts -> 0..MaxVersion]
    BY <1>2, CalendarAssumption DEF TypeOK, Applied
  <1>4. todo' \in [Syncs -> SUBSET Item] /\ reply' \in [Syncs -> SUBSET Reply]
    BY <1>1 DEF TypeOK, Answered
  <1> QED
    BY <1>3, <1>4 DEF TypeOK, Answered, shiftVars

LEMMA MarkTypes ==
    ASSUME TypeOK, NEW r \in Syncs, NEW s \in Shifts, NEW status \in Statuses,
           NEW event \in BOOLEAN, Mark(r, s, status, event)
    PROVE  wrote' \in [Syncs -> SUBSET Shifts] /\ draft' \in [Syncs -> [Shifts -> Record]]
  <1>1. Seen(r, s) \in Record
    BY DEF TypeOK, Seen
  <1>2. [Seen(r, s) EXCEPT !.status = status, !.event = event] \in Record
    BY <1>1 DEF Record
  <1> QED
    BY <1>2 DEF TypeOK, Mark

LEMMA NextTypeOK == TypeOK /\ [Next]_vars => TypeOK'
  <1> SUFFICES ASSUME TypeOK, [Next]_vars PROVE TypeOK'
    OBVIOUS
  <1>1. ASSUME NEW s \in Shifts, CreateShift(s) \/ UpdateShift(s) PROVE TypeOK'
    <2>1. /\ 1 \in 0..MaxVersion
          /\ UpdateShift(s) => version[s] + 1 \in 0..MaxVersion
      BY CalendarAssumption DEF TypeOK, UpdateShift
    <2> QED
      BY <1>1, <2>1 DEF TypeOK, CreateShift, UpdateShift, googleVars, syncVars
  <1>2. ASSUME NEW s \in Shifts, DeleteMark(s) PROVE TypeOK'
    BY <1>2 DEF TypeOK, DeleteMark, Live, googleVars, syncVars
  <1>3. ASSUME NEW s \in Shifts, DeleteCommit(s) PROVE TypeOK'
    <2>1. Tombstone(s) \in Record
      BY DEF TypeOK, Record, Statuses, Tombstone
    <2> QED
      BY <1>3, <2>1 DEF TypeOK, DeleteCommit, googleVars, syncVars
  <1>4. ASSUME NEW t \in BOOLEAN, Connect(t) PROVE TypeOK'
    BY <1>4 DEF TypeOK, Connect, shiftVars, syncVars
  <1>5. CASE GrantRevoked
    BY <1>5 DEF TypeOK, GrantRevoked, shiftVars, syncVars
  <1>6. ASSUME NEW r \in Syncs, SyncBegin(r) \/ SyncRefused(r) PROVE TypeOK'
    BY <1>6 DEF TypeOK, SyncBegin, SyncRefused, shiftVars, googleVars, Outcomes
  <1>7. ASSUME NEW r \in Syncs, NEW range \in SUBSET Shifts, RefreshOk(r, range)
        PROVE TypeOK'
    <2> DEFINE inserted == [status |-> "pending", linked |-> TRUE, event |-> FALSE]
               rows == [s \in Shifts |-> IF s \in Missing(range) THEN inserted ELSE rec[s]]
    <2>1. inserted \in Record /\ NoRecord \in Record
      BY DEF Record, Statuses, NoRecord
    <2>2. rows \in [Shifts -> Record]
      BY <2>1 DEF TypeOK
    <2>3. Listed(range, rows) \subseteq Item
      <3>1. \A s \in Shifts : rows[s].event \in BOOLEAN /\ version[s] \in 0..MaxVersion
        BY <2>2 DEF TypeOK, Record
      <3>2. \A s \in Shifts : ItemOf(s, rows[s]) \in Item
        BY <3>1 DEF ItemOf, Item
      <3> QED
        BY <3>2 DEF Listed
    <2>4. Missing(range) \subseteq Shifts
      BY DEF Missing
    <2>5. [s \in Shifts |-> IF s \in Missing(range) THEN inserted ELSE NoRecord]
             \in [Shifts -> Record]
      BY <2>1
    <2> HIDE DEF inserted, rows
    <2>6. /\ wrote' = [wrote EXCEPT ![r] = Missing(range)]
          /\ draft' = [draft EXCEPT ![r] =
               [s \in Shifts |-> IF s \in Missing(range) THEN inserted ELSE NoRecord]]
          /\ todo' = [todo EXCEPT ![r] = Listed(range, rows)]
          /\ listed' = [listed EXCEPT ![r] = Listed(range, rows)]
          /\ phase' = [phase EXCEPT ![r] = "push"]
          /\ UNCHANGED <<shiftVars, conn, googleVars, rec, reply, outcome>>
      BY <1>7 DEF RefreshOk, inserted, rows
    <2> QED
      BY <2>3, <2>4, <2>5, <2>6 DEF TypeOK, shiftVars, googleVars
  <1>8. ASSUME NEW r \in Syncs, RefreshRevoked(r) \/ RefreshFail(r) \/ SyncCrash(r)
        PROVE TypeOK'
    <2>1. PICK why \in Outcomes : Rollback(r, why)
      BY <1>8 DEF RefreshRevoked, RefreshFail, SyncCrash, RaiseRevoked, Outcomes
    <2> QED
      BY <1>8, <2>1, RollbackTypes DEF RefreshRevoked, RefreshFail, SyncCrash
  <1>9. ASSUME NEW r \in Syncs, NEW it \in todo[r],
               PushOk(r, it) \/ PushRejected(r, it) \/ PushLost(r, it)
        PROVE TypeOK'
    <2>1. PICK ok \in BOOLEAN : Answered(r, it, ok)
      BY <1>9 DEF PushOk, PushRejected, PushLost
    <2> QED
      BY <1>9, <2>1, AnsweredTypes DEF PushOk, PushRejected, PushLost
  <1>10. ASSUME NEW r \in Syncs, NEW it \in todo[r], PushRevoked(r, it) PROVE TypeOK'
    BY <1>10, RollbackTypes DEF PushRevoked, RaiseRevoked, Outcomes
  <1>11. ASSUME NEW r \in Syncs, MarkReply(r) PROVE TypeOK'
    <2>1. PICK a \in reply[r] :
            IF a.ok THEN MarkSuccess(r, a.item) ELSE MarkFailure(r, a.item)
      BY <1>11 DEF MarkReply
    <2>2. a.item.shift \in Shifts /\ a.item.event \in BOOLEAN
      BY DEF TypeOK, Reply, Item
    <2>3. Seen(r, a.item.shift).event \in BOOLEAN
      BY <2>2 DEF TypeOK, Seen, Record
    <2>4. PICK status \in Statuses, event \in BOOLEAN :
            Mark(r, a.item.shift, status, event)
      BY <2>1, <2>2, <2>3 DEF MarkSuccess, MarkFailure, Statuses
    <2>5. wrote' \in [Syncs -> SUBSET Shifts] /\ draft' \in [Syncs -> [Shifts -> Record]]
      BY <2>2, <2>4, MarkTypes
    <2> QED
      BY <1>11, <2>5 DEF TypeOK, MarkReply, shiftVars, googleVars
  <1>12. ASSUME NEW r \in Syncs, SyncCommit(r) PROVE TypeOK'
    <2>1. \A s \in Shifts : Seen(r, s) \in Record
      BY DEF TypeOK, Seen
    <2>2. [s \in Shifts |-> NoRecord] \in [Shifts -> Record]
      BY DEF Record, NoRecord, Statuses
    <2> QED
      BY <1>12, <2>1, <2>2 DEF TypeOK, SyncCommit, shiftVars, googleVars, Outcomes
  <1>13. CASE UNCHANGED vars
    BY <1>13 DEF TypeOK, vars, shiftVars, googleVars, syncVars
  <1> QED
    BY <1>1, <1>2, <1>3, <1>4, <1>5, <1>6, <1>7, <1>8, <1>9, <1>10, <1>11, <1>12, <1>13
    DEF Next, ShiftStep, SyncStep, Refresh, Push

\* The state always has its declared type.
THEOREM TypeCorrect == Spec => []TypeOK
  BY InitTypeOK, NextTypeOK, PTL DEF Spec

-----------------------------------------------------------------------------
(* Agreement, action by action. *)

\* Steps of shifts and of the connection that only let contents grow.
LEMMA ContentsGrow ==
    ASSUME IInv, TypeOK',
           \A s \in Shifts : version'[s] >= version[s],
           \A s \in deleting' : s \in deleting \/ version[s] > 0,
           UNCHANGED <<gone, events, rec, phase, todo, reply, wrote, draft>>
    PROVE  Agreement'
  <1> USE DEF IInv, TypeOK, Item, Reply
  <1>1. Alone' /\ Quiet'
    BY DEF Agreement, Alone, Quiet
  <1>2. RecordInv'
    BY DEF Agreement, RecordInv, RecordOf
  <1>3. DraftInv'
    BY DEF Agreement, DraftInv, DraftOf
  <1>4. ASSUME NEW r \in Syncs, NEW it \in Item, ItemOk(r, it) PROVE ItemOk(r, it)'
    BY <1>4 DEF ItemOk
  <1>5. TodoInv'
    BY <1>4 DEF Agreement, TodoInv
  <1>6. ReplyInv'
    BY <1>4 DEF Agreement, ReplyInv
  <1> QED
    BY <1>1, <1>2, <1>3, <1>5, <1>6 DEF Agreement

LEMMA DeleteCommitKeeps ==
    ASSUME IInv, NEW s \in Shifts, DeleteCommit(s)
    PROVE  Agreement'
  <1> USE DEF IInv, TypeOK, Item, Reply
  <1>1. /\ gone' = gone \cup {s}
        /\ \A t \in Shifts : rec'[t] = IF t = s THEN Tombstone(s) ELSE rec[t]
        /\ \A r \in Syncs : s \notin wrote[r]
        /\ deleting' = deleting \ {s}
        /\ s \in deleting
        /\ UNCHANGED <<version, events, phase, todo, reply, wrote, draft>>
    BY DEF DeleteCommit, RecordFree, googleVars, syncVars
  <1>2. /\ Tombstone(s).event = rec[s].event
        /\ Tombstone(s).status \in {rec[s].status, "pending_delete"}
        /\ s \notin marked => Tombstone(s).status = rec[s].status
    BY DEF Tombstone
  <1>3. Alone' /\ Quiet'
    BY <1>1 DEF Agreement, Alone, Quiet
  <1>4. RecordInv'
    BY <1>1, <1>2 DEF Agreement, RecordInv, RecordOf
  <1>5. DraftInv'
    BY <1>1 DEF Agreement, DraftInv, DraftOf
  <1>6. ASSUME NEW r \in Syncs, NEW it \in Item, ItemOk(r, it) PROVE ItemOk(r, it)'
    BY <1>1, <1>2, <1>6 DEF ItemOk
  <1>7. TodoInv'
    BY <1>1, <1>6 DEF Agreement, TodoInv
  <1>8. ReplyInv'
    BY <1>1, <1>6 DEF Agreement, ReplyInv
  <1> QED
    BY <1>3, <1>4, <1>5, <1>7, <1>8 DEF Agreement

LEMMA SyncBeginKeeps ==
    ASSUME IInv, NEW r \in Syncs, SyncBegin(r)
    PROVE  Agreement'
  <1> USE DEF IInv, TypeOK, Item, Reply
  <1>1. /\ \A q \in Syncs : phase[q] = "idle"
        /\ \A q \in Syncs : phase'[q] = IF q = r THEN "refresh" ELSE "idle"
        /\ UNCHANGED <<version, gone, deleting, events, rec, todo, reply, wrote, draft>>
    BY DEF SyncBegin, Open, shiftVars, googleVars
  <1>2. Alone' /\ Quiet'
    BY <1>1 DEF Agreement, Alone, Quiet
  <1>3. RecordInv' /\ DraftInv'
    BY <1>1 DEF Agreement, RecordInv, RecordOf, DraftInv, DraftOf
  <1>4. TodoInv' /\ ReplyInv'
    BY <1>1 DEF Agreement, TodoInv, ReplyInv, ItemOk
  <1> QED
    BY <1>2, <1>3, <1>4 DEF Agreement

\* What is discarded takes its obligations with it; the lock is released.
LEMMA RollbackKeeps ==
    ASSUME IInv, NEW r \in Syncs, NEW why, Rollback(r, why),
           UNCHANGED <<shiftVars, googleVars>>
    PROVE  Agreement'
  <1> USE DEF IInv, TypeOK, Item, Reply
  <1>1. /\ \A q \in Syncs : phase'[q] = IF q = r THEN "idle" ELSE phase[q]
        /\ \A q \in Syncs : todo'[q] = IF q = r THEN {} ELSE todo[q]
        /\ \A q \in Syncs : reply'[q] = IF q = r THEN {} ELSE reply[q]
        /\ \A q \in Syncs : wrote'[q] = IF q = r THEN {} ELSE wrote[q]
        /\ \A q \in Syncs \ {r} : draft'[q] = draft[q]
        /\ UNCHANGED <<version, gone, deleting, events, rec>>
    BY DEF Rollback, shiftVars, googleVars
  <1>2. Alone' /\ Quiet'
    BY <1>1 DEF Agreement, Alone, Quiet
  <1>3. RecordInv' /\ DraftInv'
    <2>1. RecordInv'
      BY <1>1 DEF Agreement, RecordInv, RecordOf
    <2>2. ASSUME NEW q \in Syncs, NEW s \in wrote'[q] PROVE DraftOf(q, s)'
      <3>1. q # r /\ s \in wrote[q] /\ s \in Shifts
        BY <1>1, <2>2
      <3>2. DraftOf(q, s)
        BY <3>1 DEF Agreement, DraftInv
      <3> QED
        BY <1>1, <3>1, <3>2 DEF DraftOf
    <2> QED
      BY <2>1, <2>2 DEF DraftInv
  <1>4. ASSUME NEW q \in Syncs, q # r, NEW it \in Item, ItemOk(q, it) PROVE ItemOk(q, it)'
    BY <1>1, <1>4 DEF ItemOk
  <1>5. TodoInv'
    BY <1>1, <1>4 DEF Agreement, TodoInv
  <1>6. ReplyInv'
    BY <1>1, <1>4 DEF Agreement, ReplyInv
  <1> QED
    BY <1>2, <1>3, <1>5, <1>6 DEF Agreement

\* While r is under way, no other sync has work or writes.
LEMMA OthersQuiet ==
    ASSUME IInv, NEW r \in Syncs, phase[r] # "idle"
    PROVE  \A q \in Syncs \ {r} :
             phase[q] = "idle" /\ todo[q] = {} /\ reply[q] = {} /\ wrote[q] = {}
  BY DEF IInv, Agreement, Alone, Quiet

\* What list_sync_records returns is what TodoInv asks for.
LEMMA RefreshOkKeeps ==
    ASSUME IInv, TypeOK', NEW r \in Syncs, NEW range \in SUBSET Shifts,
           RefreshOk(r, range)
    PROVE  Agreement'
  <1> USE DEF IInv
  <1> DEFINE new == Missing(range)
             inserted == [status |-> "pending", linked |-> TRUE, event |-> FALSE]
             rows == [s \in Shifts |-> IF s \in new THEN inserted ELSE rec[s]]
  <1>1. /\ phase[r] = "refresh"
        /\ \A q \in Syncs : phase'[q] = IF q = r THEN "push" ELSE phase[q]
        /\ \A q \in Syncs : wrote'[q] = IF q = r THEN new ELSE wrote[q]
        /\ \A q \in Syncs : todo'[q] = IF q = r THEN Listed(range, rows) ELSE todo[q]
        /\ \A s \in new : draft'[r][s] = inserted
        /\ UNCHANGED <<version, gone, deleting, events, rec, reply>>
    <2>1. new \subseteq Shifts
      BY DEF Missing
    <2> QED
      BY <2>1 DEF RefreshOk, TypeOK, shiftVars, googleVars
  <1>2. \A q \in Syncs \ {r} :
          phase[q] = "idle" /\ todo[q] = {} /\ reply[q] = {} /\ wrote[q] = {}
    BY <1>1, OthersQuiet
  <1>3. reply[r] = {}
    BY <1>1 DEF Agreement, Quiet
  <1>4. \A s \in new : /\ s \in Shifts
                      /\ rec[s].status = "none"
                      /\ ~rec[s].event
                      /\ version[s] > 0
    BY DEF Missing, Live, Agreement, RecordInv, RecordOf
  <1>5. Alone' /\ Quiet'
    BY <1>1, <1>2 DEF Alone, Quiet
  <1>6. RecordInv'
    BY <1>1 DEF Agreement, RecordInv, RecordOf
  <1>7. DraftInv'
    <2> SUFFICES ASSUME NEW q \in Syncs, NEW s \in wrote'[q] PROVE DraftOf(q, s)'
      BY DEF DraftInv
    <2>1. q = r /\ s \in new
      BY <1>1, <1>2
    <2> QED
      BY <1>1, <1>4, <2>1 DEF DraftOf
  <1>8. ASSUME NEW it \in Listed(range, rows)
        PROVE /\ it.shift \in Shifts
              /\ it = ItemOf(it.shift, rows[it.shift])
              /\ it.version = version[it.shift]
              /\ it.event = rows[it.shift].event
              /\ rows[it.shift].status \notin {"none", "deleted"}
              /\ it.op = "delete" =>
                    ~rows[it.shift].linked \/ rows[it.shift].status = "pending_delete"
    <2> HIDE DEF rows
    <2>1. PICK s \in Shifts : /\ it = ItemOf(s, rows[s])
                              /\ rows[s].status \notin {"none", "deleted"}
      BY DEF Listed
    <2>2. /\ it.shift = s
          /\ it.version = version[s]
          /\ it.event = rows[s].event
          /\ it.op = IF ~rows[s].linked \/ rows[s].status = "pending_delete"
                     THEN "delete" ELSE "upsert"
      BY <2>1 DEF ItemOf
    <2> QED
      BY <2>1, <2>2
  <1>9. ASSUME NEW it \in Listed(range, rows)
        PROVE ItemOk(r, it)' /\ events'[it.shift] <= it.version
    <2> DEFINE s == it.shift
    <2>0. /\ s \in Shifts
          /\ it.version = version[s]
          /\ it.event = rows[s].event
          /\ rows[s].status \notin {"none", "deleted"}
          /\ it.op = "delete" => ~rows[s].linked \/ rows[s].status = "pending_delete"
      BY <1>8
    <2> HIDE DEF s
    <2>1. RecordOf(s) /\ version[s] \in Nat
      BY <2>0, CalendarAssumption DEF Agreement, RecordInv, TypeOK
    <2>2. wrote'[r] = new
      BY <1>1
    <2>3. CASE s \in new
      <3>1. rows[s] = inserted
        BY <2>0, <2>3
      <3>2. it.op # "delete"
        BY <2>0, <3>1
      <3>3. draft'[r][s].status = "pending" /\ rec[s].status = "none"
            /\ ~rec[s].event /\ version[s] > 0
        BY <1>1, <1>4, <2>3
      <3> QED
        BY <1>1, <2>0, <2>1, <2>2, <2>3, <3>2, <3>3 DEF ItemOk, RecordOf, s
    <2>4. CASE s \notin new
      <3>1. rows[s] = rec[s]
        BY <2>0, <2>4
      <3>2. /\ it.version = version[s]
            /\ it.event = rec[s].event
            /\ rec[s].status \notin {"none", "deleted"}
            /\ it.op = "delete" => ~rec[s].linked \/ rec[s].status = "pending_delete"
        BY <2>0, <3>1
      <3> QED
        BY <1>1, <2>0, <2>1, <2>2, <2>4, <3>2 DEF ItemOk, RecordOf, s
    <2> QED
      BY <2>3, <2>4
  <1>10. TodoInv'
    <2>1. \A it, other \in Listed(range, rows) : it.shift = other.shift => it = other
      BY <1>8
    <2> HIDE DEF rows
    <2> QED
      BY <1>1, <1>2, <1>3, <1>9, <2>1 DEF TodoInv
  <1>11. ReplyInv'
    BY <1>1, <1>2, <1>3 DEF ReplyInv
  <1> QED
    BY <1>5, <1>6, <1>7, <1>10, <1>11 DEF Agreement

\* A call that Google applied, or one that it did not: the row of the item is
\* as it was listed, so moving the event contradicts no record.
LEMMA AnsweredKeeps ==
    ASSUME IInv, TypeOK', NEW r \in Syncs, NEW it \in todo[r], NEW ok \in BOOLEAN,
           Answered(r, it, ok),
           events' = Applied(it) \/ (events' = events /\ ~ok)
    PROVE  Agreement'
  <1> USE DEF IInv
  <1>0. it \in Item /\ it.shift \in Shifts /\ it.version \in Nat /\ it.op \in {"upsert", "delete"}
    BY CalendarAssumption DEF TypeOK, Item
  <1>1. /\ phase[r] = "push"
        /\ reply[r] = {}
        /\ \A q \in Syncs : todo'[q] = IF q = r THEN todo[r] \ {it} ELSE todo[q]
        /\ \A q \in Syncs : reply'[q] = IF q = r THEN {[item |-> it, ok |-> ok]} ELSE reply[q]
        /\ UNCHANGED <<version, gone, deleting, rec, phase, wrote, draft>>
    BY DEF Answered, TypeOK, shiftVars
  <1>2. \A q \in Syncs \ {r} :
          phase[q] = "idle" /\ todo[q] = {} /\ reply[q] = {} /\ wrote[q] = {}
    BY <1>1, OthersQuiet
  <1>3. /\ ItemOk(r, it)
        /\ events[it.shift] <= it.version
        /\ \A other \in todo[r] : other.shift = it.shift => other = it
    BY DEF Agreement, TodoInv
  <1>4. /\ \A s \in Shifts \ {it.shift} : events'[s] = events[s]
        /\ events'[it.shift] \in {0, it.version, events[it.shift]}
        /\ ok /\ it.op = "upsert" => events'[it.shift] = it.version
        /\ ok /\ it.op = "delete" /\ it.event => events'[it.shift] = 0
        /\ it.op = "delete" => events'[it.shift] \in {0, events[it.shift]}
        /\ it.op = "upsert" => events'[it.shift] \in {it.version, events[it.shift]}
    BY <1>0 DEF Applied, TypeOK
  <1>5. Alone' /\ Quiet'
    BY <1>1, <1>2 DEF Agreement, Alone, Quiet
  <1>6. RecordInv'
    <2> SUFFICES ASSUME NEW s \in Shifts PROVE RecordOf(s)'
      BY DEF RecordInv
    <2>1. CASE s # it.shift
      BY <1>1, <1>4, <2>1 DEF Agreement, RecordInv, RecordOf
    <2>2. CASE s = it.shift
      BY <1>0, <1>1, <1>3, <1>4, <2>2 DEF Agreement, RecordInv, RecordOf, ItemOk, TypeOK
    <2> QED
      BY <2>1, <2>2
  <1>7. DraftInv'
    <2> SUFFICES ASSUME NEW s \in wrote[r] PROVE DraftOf(r, s)'
      BY <1>1, <1>2 DEF DraftInv
    <2>1. s \in Shifts /\ DraftOf(r, s)
      BY DEF Agreement, DraftInv, TypeOK
    <2>2. CASE s # it.shift
      BY <1>1, <1>4, <2>1, <2>2 DEF DraftOf
    <2>3. CASE s = it.shift
      BY <1>1, <1>3, <2>1, <2>3 DEF DraftOf, ItemOk
    <2> QED
      BY <2>2, <2>3
  <1>8. \A other \in Item : ItemOk(r, other) => ItemOk(r, other)'
    BY <1>1 DEF ItemOk
  <1>9. TodoInv'
    <2> SUFFICES ASSUME NEW other \in todo[r] \ {it}
                 PROVE  /\ ItemOk(r, other)'
                        /\ events'[other.shift] <= other.version
                        /\ \A jt \in todo[r] \ {it} : jt.shift = other.shift => jt = other
                        /\ it.shift # other.shift
      BY <1>1, <1>2 DEF TodoInv
    <2>1. other \in Item /\ other.shift \in Shifts
      BY DEF TypeOK, Item
    <2>2. /\ ItemOk(r, other)
          /\ events[other.shift] <= other.version
          /\ \A jt \in todo[r] : jt.shift = other.shift => jt = other
      BY DEF Agreement, TodoInv
    <2>3. it.shift # other.shift
      BY <1>3
    <2> QED
      BY <1>4, <1>8, <2>1, <2>2, <2>3
  <1>10. ReplyInv'
    <2> DEFINE a == [item |-> it, ok |-> ok]
    <2>1. a.item = it /\ a.ok = ok
      OBVIOUS
    <2>2. /\ ItemOk(r, it)'
          /\ ok /\ it.op = "delete" /\ it.event => events'[it.shift] = 0
          /\ ok /\ it.op = "upsert" => events'[it.shift] > 0
      BY <1>0, <1>3, <1>4, <1>8 DEF ItemOk
    <2>3. \A q \in Syncs : \A b \in reply'[q] : q = r /\ b = a
      BY <1>1, <1>2
    <2> HIDE DEF a
    <2> QED
      BY <2>1, <2>2, <2>3 DEF ReplyInv
  <1> QED
    BY <1>5, <1>6, <1>7, <1>9, <1>10 DEF Agreement

\* The row of the answered item is marked as its answer says.
LEMMA MarkReplyKeeps ==
    ASSUME IInv, TypeOK', NEW r \in Syncs, MarkReply(r)
    PROVE  Agreement'
  <1> USE DEF IInv
  <1>1. PICK a \in reply[r] : IF a.ok THEN MarkSuccess(r, a.item) ELSE MarkFailure(r, a.item)
    BY DEF MarkReply
  <1> DEFINE it == a.item
             s == it.shift
  <1>2. /\ it \in Item /\ s \in Shifts /\ it.event \in BOOLEAN
        /\ it.op \in {"upsert", "delete"} /\ a.ok \in BOOLEAN
    BY DEF TypeOK, Reply, Item
  <1>3. /\ ItemOk(r, it)
        /\ a.ok /\ it.op = "delete" /\ it.event => events[s] = 0
        /\ a.ok /\ it.op = "upsert" => events[s] > 0
        /\ \A jt \in todo[r] : jt.shift # s
    BY DEF Agreement, ReplyInv, TodoInv
  <1>4. phase[r] # "idle" /\ phase[r] = "push"
    BY DEF Agreement, Quiet, TypeOK
  <1>5. \A q \in Syncs \ {r} :
          phase[q] = "idle" /\ todo[q] = {} /\ reply[q] = {} /\ wrote[q] = {}
    BY <1>4, OthersQuiet
  <1>6. Seen(r, s) \in Record
    BY <1>2 DEF TypeOK, Seen
  <1>7. PICK status \in Statuses, event \in BOOLEAN :
          /\ Mark(r, s, status, event)
          /\ status \in {"synced", "deleted", "failed"}
          /\ status = "deleted" => event = it.event /\ a.ok /\ it.op = "delete"
          /\ status = "synced" => event /\ a.ok /\ it.op = "upsert"
          /\ status = "failed" => event = Seen(r, s).event
    <2>1. Seen(r, s).event \in BOOLEAN
      BY <1>6 DEF Record
    <2>2. CASE ~a.ok
      <3>1. Mark(r, s, "failed", Seen(r, s).event)
        BY <1>1, <2>2 DEF MarkFailure
      <3> QED
        BY <2>1, <3>1 DEF Statuses
    <2>3. CASE a.ok /\ it.op = "delete"
      <3>1. Mark(r, s, "deleted", it.event)
        BY <1>1, <2>3 DEF MarkSuccess
      <3> QED
        BY <1>2, <2>3, <3>1 DEF Statuses
    <2>4. CASE a.ok /\ it.op = "upsert"
      <3>1. Mark(r, s, "synced", TRUE)
        BY <1>1, <2>4 DEF MarkSuccess
      <3> QED
        BY <1>2, <2>4, <3>1 DEF Statuses
    <2> QED
      BY <1>2, <2>2, <2>3, <2>4
  <1>8. /\ \A q \in Syncs : wrote'[q] = IF q = r THEN wrote[r] \cup {s} ELSE wrote[q]
        /\ draft'[r][s].status = status
        /\ draft'[r][s].event = event
        /\ draft'[r][s].linked = Seen(r, s).linked
        /\ \A t \in Shifts \ {s} : draft'[r][t] = draft[r][t]
        /\ \A q \in Syncs : reply'[q] = IF q = r THEN {} ELSE reply[q]
        /\ UNCHANGED <<version, gone, deleting, events, rec, phase, todo>>
    <2>1. /\ wrote' = [wrote EXCEPT ![r] = @ \cup {s}]
          /\ \A q \in Syncs, t \in Shifts :
               draft'[q][t] = IF q = r /\ t = s
                              THEN [Seen(r, s) EXCEPT !.status = status, !.event = event]
                              ELSE draft[q][t]
      <3>1. TypeOK /\ s \in Shifts /\ Mark(r, s, status, event)
        BY <1>2, <1>7
      <3>2. [Seen(r, s) EXCEPT !.status = status, !.event = event] \in Record
        BY <1>6 DEF Record
      <3> HIDE DEF s, it
      <3> QED
        BY <3>1, <3>2 DEF TypeOK, Mark
    <2>2. /\ draft'[r][s] = [Seen(r, s) EXCEPT !.status = status, !.event = event]
          /\ \A t \in Shifts \ {s} : draft'[r][t] = draft[r][t]
      BY <1>2, <2>1
    <2>3. /\ draft'[r][s].status = status
          /\ draft'[r][s].event = event
          /\ draft'[r][s].linked = Seen(r, s).linked
      <3> HIDE DEF s, it
      <3> QED
        BY <1>6, <2>2 DEF Record
    <2>4. /\ \A q \in Syncs : wrote'[q] = IF q = r THEN wrote[r] \cup {s} ELSE wrote[q]
          /\ \A q \in Syncs : reply'[q] = IF q = r THEN {} ELSE reply[q]
          /\ UNCHANGED <<version, gone, deleting, events, rec, phase, todo>>
      BY <2>1 DEF MarkReply, TypeOK, shiftVars, googleVars
    <2> QED
      BY <2>2, <2>3, <2>4
  <1>9. Alone' /\ Quiet'
    BY <1>4, <1>5, <1>8 DEF Agreement, Alone, Quiet
  <1>10. RecordInv'
    BY <1>8 DEF Agreement, RecordInv, RecordOf
  <1>11. DraftInv'
    <2> SUFFICES ASSUME NEW t \in wrote'[r] PROVE DraftOf(r, t)'
      BY <1>5, <1>8 DEF DraftInv
    <2>1. CASE t # s
      <3>1. t \in wrote[r] /\ t \in Shifts
        BY <1>8, <2>1 DEF TypeOK
      <3> QED
        BY <1>8, <2>1, <3>1 DEF Agreement, DraftInv, DraftOf
    <2>2. CASE t = s
      <3>1. version[s] > 0
        BY <1>3, <1>2, CalendarAssumption DEF ItemOk, TypeOK, Item
      <3>2. /\ ~Seen(r, s).linked => s \in gone
            /\ rec[s].event => Seen(r, s).event
        <4>1. CASE s \in wrote[r]
          BY <4>1 DEF Seen, Agreement, DraftInv, DraftOf
        <4>2. CASE s \notin wrote[r]
          BY <1>2, <1>3, <4>2 DEF Seen, ItemOk, Agreement, RecordInv, RecordOf
        <4> QED
          BY <4>1, <4>2
      <3>3. rec[s].event => event
        BY <1>3, <1>7, <3>2 DEF ItemOk
      <3> QED
        BY <1>3, <1>7, <1>8, <2>2, <3>1, <3>2, <3>3 DEF DraftOf
    <2> QED
      BY <2>1, <2>2
  <1>12. TodoInv'
    <2> SUFFICES ASSUME NEW jt \in todo[r]
                 PROVE  /\ ItemOk(r, jt)'
                        /\ events[jt.shift] <= jt.version
                        /\ \A other \in todo[r] : other.shift = jt.shift => other = jt
      BY <1>5, <1>8 DEF TodoInv
    <2>1. jt.shift \in Shifts \ {s}
      BY <1>3 DEF TypeOK, Item
    <2>2. ItemOk(r, jt)
      BY DEF Agreement, TodoInv
    <2>3. ItemOk(r, jt)'
      BY <1>8, <2>1, <2>2 DEF ItemOk
    <2> QED
      BY <2>3 DEF Agreement, TodoInv
  <1>13. ReplyInv'
    BY <1>5, <1>8 DEF ReplyInv
  <1> QED
    BY <1>9, <1>10, <1>11, <1>12, <1>13 DEF Agreement

\* The drafts become the records.
LEMMA SyncCommitKeeps ==
    ASSUME IInv, NEW r \in Syncs, SyncCommit(r)
    PROVE  /\ Agreement'
           /\ \A s \in Shifts : rec[s].event => rec'[s].event
  <1> USE DEF IInv
  <1>1. /\ phase[r] = "push"
        /\ todo[r] = {} /\ reply[r] = {}
        /\ \A s \in Shifts : rec'[s] = Seen(r, s)
        /\ \A q \in Syncs : phase'[q] = IF q = r THEN "idle" ELSE phase[q]
        /\ \A q \in Syncs : wrote'[q] = IF q = r THEN {} ELSE wrote[q]
        /\ UNCHANGED <<version, gone, deleting, events, todo, reply>>
    BY DEF SyncCommit, TypeOK, shiftVars, googleVars
  <1>2. \A q \in Syncs \ {r} :
          phase[q] = "idle" /\ todo[q] = {} /\ reply[q] = {} /\ wrote[q] = {}
    BY <1>1, OthersQuiet
  <1>3. Alone' /\ Quiet'
    BY <1>1, <1>2 DEF Alone, Quiet
  <1>4. ASSUME NEW s \in Shifts
        PROVE RecordOf(s)' /\ (rec[s].event => rec'[s].event)
    <2>1. CASE s \in wrote[r]
      BY <1>1, <2>1 DEF Seen, Agreement, RecordInv, RecordOf, DraftInv, DraftOf
    <2>2. CASE s \notin wrote[r]
      BY <1>1, <2>2 DEF Seen, Agreement, RecordInv, RecordOf
    <2> QED
      BY <2>1, <2>2
  <1>5. DraftInv' /\ TodoInv' /\ ReplyInv'
    BY <1>1, <1>2 DEF DraftInv, TodoInv, ReplyInv
  <1> QED
    BY <1>3, <1>4, <1>5 DEF Agreement, RecordInv

-----------------------------------------------------------------------------
(* Every step, and what follows. *)

\* One case per action; an action that moves neither a record nor an event
\* leaves both as they are.
LEMMA NextKeeps ==
    ASSUME IInv, [Next]_vars
    PROVE  /\ IInv'
           /\ \A s \in Shifts : rec[s].event => rec'[s].event
           /\ \/ events' = events
              \/ \E r \in Syncs : \E it \in todo[r] : ItemOk(r, it) /\ events' = Applied(it)
                                                   /\ events[it.shift] <= it.version
  <1> DEFINE Kept == \A s \in Shifts : rec[s].event => rec'[s].event
             Moved == \/ events' = events
                      \/ \E r \in Syncs : \E it \in todo[r] :
                           ItemOk(r, it) /\ events' = Applied(it) /\ events[it.shift] <= it.version
  <1>0. TypeOK /\ TypeOK'
    BY NextTypeOK DEF IInv
  <1>1. ASSUME NEW s \in Shifts, CreateShift(s) \/ UpdateShift(s) \/ DeleteMark(s)
        PROVE Agreement' /\ Kept /\ Moved
    <2>1. \A t \in Shifts : version'[t] >= version[t]
      <3>1. \A t \in Shifts : version[t] \in Int
        BY <1>0, CalendarAssumption DEF TypeOK
      <3>2. \/ version' = version
            \/ version' = [version EXCEPT ![s] = 1] /\ version[s] = 0
            \/ version' = [version EXCEPT ![s] = version[s] + 1]
        BY <1>1 DEF CreateShift, UpdateShift, DeleteMark
      <3>3. version'[s] >= version[s]
        BY <1>0, <3>1, <3>2 DEF TypeOK
      <3>4. \A t \in Shifts \ {s} : version'[t] = version[t]
        BY <1>0, <3>2 DEF TypeOK
      <3> QED
        BY <3>1, <3>3, <3>4
    <2>2. \A t \in deleting' : t \in deleting \/ version[t] > 0
      BY <1>1 DEF CreateShift, UpdateShift, DeleteMark, Live
    <2> QED
      BY <1>0, <1>1, <2>1, <2>2, ContentsGrow
      DEF CreateShift, UpdateShift, DeleteMark, googleVars, syncVars
  <1>2. ASSUME NEW s \in Shifts, DeleteCommit(s) PROVE Agreement' /\ Kept /\ Moved
    <2>1. Kept
      BY <1>0, <1>2 DEF DeleteCommit, Tombstone, TypeOK
    <2> QED
      BY <1>2, <2>1, DeleteCommitKeeps DEF DeleteCommit, googleVars
  <1>3. ASSUME \/ \E t \in BOOLEAN : Connect(t)
               \/ GrantRevoked
               \/ \E r \in Syncs : SyncRefused(r)
        PROVE Agreement' /\ Kept /\ Moved
    <2>1. UNCHANGED <<version, gone, deleting, events, rec, phase, todo, reply, wrote, draft>>
      BY <1>3 DEF Connect, GrantRevoked, SyncRefused, shiftVars, googleVars, syncVars
    <2>2. \A t \in Shifts : version'[t] >= version[t]
      BY <1>0, <2>1, CalendarAssumption DEF TypeOK
    <2> QED
      BY <1>0, <2>1, <2>2, ContentsGrow
  <1>4. ASSUME NEW r \in Syncs, SyncBegin(r) PROVE Agreement' /\ Kept /\ Moved
    BY <1>4, SyncBeginKeeps DEF SyncBegin, googleVars
  <1>5. ASSUME NEW r \in Syncs, NEW range \in SUBSET Shifts, RefreshOk(r, range)
        PROVE Agreement' /\ Kept /\ Moved
    BY <1>0, <1>5, RefreshOkKeeps DEF RefreshOk, googleVars
  <1>6. ASSUME NEW r \in Syncs, NEW why, Rollback(r, why), UNCHANGED <<shiftVars, googleVars>>
        PROVE Agreement' /\ Kept /\ Moved
    BY <1>6, RollbackKeeps DEF Rollback, googleVars
  <1>7. ASSUME NEW r \in Syncs, NEW it \in todo[r],
               PushOk(r, it) \/ PushRejected(r, it) \/ PushLost(r, it)
        PROVE Agreement' /\ Kept /\ Moved
    <2>1. PICK ok \in BOOLEAN :
            /\ Answered(r, it, ok)
            /\ events' = Applied(it) \/ (events' = events /\ ~ok)
      BY <1>7 DEF PushOk, PushRejected, PushLost
    <2>2. ItemOk(r, it) /\ events[it.shift] <= it.version
      BY DEF IInv, Agreement, TodoInv
    <2>3. Kept /\ Moved
      BY <2>1, <2>2 DEF Answered
    <2> QED
      BY <1>0, <2>1, <2>3, AnsweredKeeps
  <1>8. ASSUME NEW r \in Syncs, MarkReply(r) PROVE Agreement' /\ Kept /\ Moved
    BY <1>0, <1>8, MarkReplyKeeps DEF MarkReply, googleVars
  <1>9. ASSUME NEW r \in Syncs, SyncCommit(r) PROVE Agreement' /\ Kept /\ Moved
    BY <1>9, SyncCommitKeeps DEF SyncCommit, googleVars
  <1>10. ASSUME NEW r \in Syncs,
                \/ RefreshRevoked(r) \/ RefreshFail(r) \/ SyncCrash(r)
                \/ \E it \in todo[r] : PushRevoked(r, it)
         PROVE Agreement' /\ Kept /\ Moved
    <2>1. PICK why \in Outcomes : Rollback(r, why) /\ UNCHANGED <<shiftVars, googleVars>>
      BY <1>10 DEF RefreshRevoked, RefreshFail, SyncCrash, PushRevoked, RaiseRevoked, Outcomes
    <2> QED
      BY <1>6, <2>1
  <1>11. CASE UNCHANGED vars
    <2>1. UNCHANGED <<version, gone, deleting, events, rec, phase, todo, reply, wrote, draft>>
      BY <1>11 DEF vars, shiftVars, googleVars, syncVars
    <2>2. \A t \in Shifts : version'[t] >= version[t]
      BY <1>0, <2>1, CalendarAssumption DEF TypeOK
    <2> QED
      BY <1>0, <2>1, <2>2, ContentsGrow DEF IInv
  <1> HIDE DEF Kept, Moved
  <1>12. ASSUME NEW s \in Shifts, ShiftStep(s) PROVE Agreement' /\ Kept /\ Moved
    BY <1>1, <1>2, <1>12 DEF ShiftStep
  <1>13. ASSUME NEW r \in Syncs, SyncStep(r) PROVE Agreement' /\ Kept /\ Moved
    <2>1. CASE Refresh(r)
      BY <1>5, <1>10, <2>1 DEF Refresh
    <2>2. CASE Push(r)
      BY <1>7, <1>10, <2>2 DEF Push
    <2> QED
      BY <1>8, <1>9, <1>13, <2>1, <2>2 DEF SyncStep
  <1>14. ASSUME Next PROVE Agreement' /\ Kept /\ Moved
    BY <1>3, <1>4, <1>10, <1>12, <1>13, <1>14 DEF Next
  <1>15. CASE Next
    BY <1>0, <1>14, <1>15 DEF IInv, Kept, Moved
  <1> QED
    BY <1>11, <1>15

LEMMA InitIInv == Init => IInv
  <1> SUFFICES ASSUME Init PROVE Agreement
    BY InitTypeOK DEF IInv
  <1>1. Alone /\ Quiet
    BY DEF Init, Alone, Quiet
  <1>2. RecordInv
    <2>1. ASSUME NEW s \in Shifts PROVE RecordOf(s)
      <3>1. rec[s] = NoRecord /\ version[s] = 0 /\ events[s] = 0 /\ deleting = {}
        BY DEF Init
      <3>2. NoRecord.status = "none" /\ ~NoRecord.event
        BY DEF NoRecord
      <3> QED
        BY <3>1, <3>2 DEF RecordOf
    <2> QED
      BY <2>1 DEF RecordInv
  <1>3. DraftInv /\ TodoInv /\ ReplyInv
    BY DEF Init, DraftInv, TodoInv, ReplyInv
  <1> QED
    BY <1>1, <1>2, <1>3 DEF Agreement

LEMMA Invariance == Spec => []IInv
  <1>1. IInv /\ [Next]_vars => IInv'
    BY NextKeeps
  <1> QED
    BY <1>1, InitIInv, PTL DEF Spec

\* A record committed as deleted that knows its event has none left at Google.
THEOREM DeletedIsGone == Spec => []DeletedMeansGone
  <1>1. IInv => DeletedMeansGone
    BY DEF IInv, Agreement, RecordInv, RecordOf, DeletedMeansGone
  <1> QED
    BY <1>1, Invariance, PTL

\* A live shift whose record says synced has its event.
THEOREM SyncedIsThere == Spec => []SyncedIsReal
  <1>1. IInv => SyncedIsReal
    BY DEF IInv, Agreement, RecordInv, RecordOf, SyncedIsReal, Live
  <1> QED
    BY <1>1, Invariance, PTL

\* What a sync is about to commit is what Google holds.
THEOREM DraftsAgree == Spec => []DraftMatchesGoogle
  <1>1. IInv => DraftMatchesGoogle
    BY DEF IInv, Agreement, DraftInv, DraftOf, DraftMatchesGoogle
  <1> QED
    BY <1>1, Invariance, PTL

\* Records, drafts and Google agree: the three facts together.
THEOREM MirrorIsTrue == Spec => []MirrorAgrees
  BY DeletedIsGone, SyncedIsThere, DraftsAgree, PTL DEF MirrorAgrees

\* No step forgets the event id of a committed record.
THEOREM IdsKept == Spec => EventIdKept
  <1>1. IInv /\ [Next]_vars =>
          [\A s \in Shifts : rec[s].event => rec'[s].event]_vars
    BY NextKeeps
  <1> QED
    BY <1>1, Invariance, PTL DEF Spec, EventIdKept

\* No step takes an event back to an older content, removes that of a shift
\* which is still there, or revives one whose record is deleted.
THEOREM EventsMoveForward == Spec => EventNeverRegresses
  <1> DEFINE Forward == \A s \in Shifts :
               /\ events'[s] = 0 \/ events'[s] >= events[s]
               /\ events[s] > 0 /\ events'[s] = 0 => s \in gone
               /\ events[s] = 0 /\ events'[s] > 0 => rec[s].status # "deleted"
  <1>1. ASSUME IInv, [Next]_vars PROVE Forward
    <2>1. events \in [Shifts -> 0..MaxVersion]
      BY <1>1 DEF IInv, TypeOK
    <2>3. ASSUME NEW r \in Syncs, NEW it \in todo[r], ItemOk(r, it),
                 events' = Applied(it), events[it.shift] <= it.version
          PROVE Forward
      <3>0. it \in Item
        BY <1>1 DEF IInv, TypeOK
      <3>1. it.shift \in Shifts /\ it.op \in {"upsert", "delete"} /\ it.version \in 0..MaxVersion
        BY <3>0 DEF Item
      <3>2. rec[it.shift].status # "deleted" /\ (it.op = "delete" => it.shift \in gone)
        BY <2>3 DEF ItemOk
      <3>3. /\ \A s \in Shifts : events[s] \in Int /\ events[s] >= 0
            /\ it.version \in Int /\ it.version > 0
        BY <2>1, <2>3, <3>1, CalendarAssumption DEF ItemOk
      <3>4. \/ events' = events
            \/ it.op = "delete" /\ events' = [events EXCEPT ![it.shift] = 0]
            \/ events' = [events EXCEPT ![it.shift] = it.version]
        BY <2>3 DEF Applied
      <3>5. ASSUME NEW s \in Shifts, s # it.shift PROVE events'[s] = events[s]
        BY <2>1, <3>4, <3>5
      <3>6. \/ events'[it.shift] = events[it.shift]
            \/ it.op = "delete" /\ events'[it.shift] = 0
            \/ events'[it.shift] = it.version
        BY <2>1, <3>1, <3>4
      <3> QED
        BY <2>3, <3>1, <3>2, <3>3, <3>5, <3>6
    <2>4. \A s \in Shifts : events[s] \in Int
      BY <2>1, CalendarAssumption
    <2>5. CASE events' = events
      BY <2>4, <2>5
    <2> HIDE DEF Forward
    <2> QED
      BY <1>1, <2>3, <2>5, NextKeeps
  <1>2. IInv /\ [Next]_vars => [Forward]_vars
    BY <1>1
  <1> QED
    BY <1>2, Invariance, PTL DEF Spec, EventNeverRegresses

\* Neither the ids nor the contents are ever taken back.
THEOREM MirrorIsMonotone == Spec => MirrorMovesForward
  BY IdsKept, EventsMoveForward, PTL DEF MirrorMovesForward

-----------------------------------------------------------------------------
(* What becomes of the rows that a sync has listed. *)

LEMMA RefreshOkLists ==
    ASSUME IInv, ListedInv, NEW r \in Syncs, NEW range \in SUBSET Shifts, RefreshOk(r, range)
    PROVE  ListedInv'
  <1> DEFINE new == Missing(range)
             inserted == [status |-> "pending", linked |-> TRUE, event |-> FALSE]
             rows == [s \in Shifts |-> IF s \in new THEN inserted ELSE rec[s]]
  <1>1. /\ phase[r] = "refresh"
        /\ phase'[r] = "push"
        /\ todo'[r] = Listed(range, rows)
        /\ listed'[r] = Listed(range, rows)
        /\ wrote'[r] = new
        /\ UNCHANGED <<reply, events>>
        /\ \A q \in Syncs \ {r} : /\ phase'[q] = phase[q] /\ todo'[q] = todo[q]
                                  /\ listed'[q] = listed[q] /\ wrote'[q] = wrote[q]
                                  /\ draft'[q] = draft[q]
    BY DEF RefreshOk, IInv, TypeOK, googleVars
  <1>2. reply[r] = {}
    BY <1>1 DEF IInv, Agreement, Quiet
  <1>3. \A it, other \in Listed(range, rows) : it.shift = other.shift => it = other
    <2>1. ASSUME NEW it \in Listed(range, rows) PROVE it = ItemOf(it.shift, rows[it.shift])
      <3> HIDE DEF rows
      <3>1. PICK s \in Shifts : it = ItemOf(s, rows[s])
        BY DEF Listed
      <3>2. it.shift = s
        BY <3>1 DEF ItemOf
      <3> QED
        BY <3>1, <3>2
    <2> HIDE DEF rows
    <2> QED
      BY <2>1
  <1>4. ASSUME NEW s \in new PROVE \E it \in Listed(range, rows) : it.shift = s
    <2>1. s \in Shifts /\ s \in range
      BY DEF Missing, Live
    <2>2. rows[s] = inserted
      BY <2>1
    <2>3. ItemOf(s, rows[s]) \in Listed(range, rows)
      BY <2>1, <2>2 DEF Listed
    <2>4. ItemOf(s, rows[s]).shift = s
      BY DEF ItemOf
    <2> QED
      BY <2>3, <2>4
  <1>5. ListedOf(r)'
    <2> HIDE DEF new, rows
    <2> QED
      BY <1>1, <1>2, <1>3, <1>4 DEF ListedOf
  <1>6. ASSUME NEW q \in Syncs \ {r} PROVE ListedOf(q)'
    BY <1>1 DEF ListedInv, ListedOf, Settled
  <1> QED
    BY <1>5, <1>6 DEF ListedInv

LEMMA AnsweredLists ==
    ASSUME IInv, ListedInv, NEW r \in Syncs, NEW it \in todo[r], NEW ok \in BOOLEAN,
           Answered(r, it, ok),
           events' = Applied(it) \/ (events' = events /\ ~ok)
    PROVE  ListedInv'
  <1>0. it \in Item /\ it.shift \in Shifts /\ it.op \in {"upsert", "delete"}
    BY DEF IInv, TypeOK, Item
  <1> DEFINE answer == [item |-> it, ok |-> ok]
  <1>1. /\ phase[r] = "push"
        /\ reply[r] = {}
        /\ \A q \in Syncs : todo'[q] = IF q = r THEN todo[r] \ {it} ELSE todo[q]
        /\ \A q \in Syncs : reply'[q] = IF q = r THEN {answer} ELSE reply[q]
        /\ UNCHANGED <<phase, listed, wrote, draft>>
    BY DEF Answered, IInv, TypeOK
  <1>2. \A q \in Syncs \ {r} : phase[q] = "idle"
    BY <1>1, OthersQuiet
  <1>3. /\ \A s \in Shifts \ {it.shift} : events'[s] = events[s]
        /\ ok /\ it.op = "upsert" => events'[it.shift] = it.version
    BY <1>0 DEF Applied, IInv, TypeOK
  <1>4. answer.item = it /\ answer.ok = ok
    OBVIOUS
  <1> HIDE DEF answer
  <1>5. ASSUME NEW jt \in listed[r], jt \notin todo[r]
        PROVE  jt.shift \in wrote[r] /\ Settled(jt, draft[r][jt.shift])'
    <2>1. jt.shift \in wrote[r] /\ Settled(jt, draft[r][jt.shift])
      BY <1>1, <1>5 DEF ListedInv, ListedOf
    <2>2. jt.shift # it.shift /\ jt.shift \in Shifts
      BY <1>5, <2>1 DEF ListedInv, ListedOf, IInv, TypeOK
    <2> QED
      BY <1>1, <1>3, <2>1, <2>2 DEF Settled
  <1>6. ListedOf(r)'
    BY <1>1, <1>3, <1>4, <1>5 DEF ListedInv, ListedOf
  <1>7. ASSUME NEW q \in Syncs \ {r} PROVE ListedOf(q)'
    <2>1. phase[q] = "idle" /\ listed[q] = {} /\ todo[q] = {} /\ reply[q] = {} /\ wrote[q] = {}
      BY <1>2 DEF ListedInv, ListedOf, IInv, Agreement, Quiet
    <2> QED
      BY <1>1, <2>1 DEF ListedOf
  <1> QED
    BY <1>6, <1>7 DEF ListedInv

\* The item that was answered joins those that are settled.
LEMMA MarkReplyLists ==
    ASSUME IInv, ListedInv, NEW r \in Syncs, MarkReply(r)
    PROVE  ListedInv'
  <1>1. PICK a \in reply[r] : IF a.ok THEN MarkSuccess(r, a.item) ELSE MarkFailure(r, a.item)
    BY DEF MarkReply
  <1> DEFINE it == a.item
             s == it.shift
  <1>2. /\ it \in Item /\ s \in Shifts /\ it.event \in BOOLEAN
        /\ it.op \in {"upsert", "delete"} /\ a.ok \in BOOLEAN
    BY DEF IInv, TypeOK, Reply, Item
  <1>3. /\ a.ok /\ it.op = "delete" /\ it.event => events[s] = 0
        /\ a.ok /\ it.op = "upsert" => events[s] = it.version
        /\ \A b \in reply[r] : b = a
        /\ it \in listed[r]
        /\ \A jt \in listed[r] : jt.shift = s => jt = it
    BY DEF IInv, Agreement, ReplyInv, ListedInv, ListedOf
  <1>4. Seen(r, s) \in Record
    BY <1>2 DEF IInv, TypeOK, Seen
  <1>5. PICK status \in Statuses, event \in BOOLEAN :
          /\ Mark(r, s, status, event)
          /\ \/ status = "failed"
             \/ status = "synced" /\ event /\ a.ok /\ it.op = "upsert"
             \/ status = "deleted" /\ a.ok /\ it.op = "delete"
    <2>1. Seen(r, s).event \in BOOLEAN
      BY <1>4 DEF Record
    <2> QED
      BY <1>1, <1>2, <2>1 DEF MarkSuccess, MarkFailure, Statuses
  <1>6. /\ \A q \in Syncs : wrote'[q] = IF q = r THEN wrote[r] \cup {s} ELSE wrote[q]
        /\ draft'[r][s].status = status
        /\ draft'[r][s].event = event
        /\ \A t \in Shifts \ {s} : draft'[r][t] = draft[r][t]
        /\ \A q \in Syncs \ {r} : draft'[q] = draft[q]
        /\ \A q \in Syncs : reply'[q] = IF q = r THEN {} ELSE reply[q]
        /\ UNCHANGED <<events, phase, todo, listed>>
    <2>1. [Seen(r, s) EXCEPT !.status = status, !.event = event] \in Record
      BY <1>4 DEF Record
    <2>2. draft'[r][s] = [Seen(r, s) EXCEPT !.status = status, !.event = event]
      BY <1>2, <1>5 DEF IInv, TypeOK, Mark
    <2>3. /\ wrote' = [wrote EXCEPT ![r] = @ \cup {s}]
          /\ draft' = [draft EXCEPT ![r][s] =
                         [Seen(r, s) EXCEPT !.status = status, !.event = event]]
      BY <1>5 DEF Mark
    <2> HIDE DEF s, it
    <2>4. draft'[r][s].status = status /\ draft'[r][s].event = event
      BY <1>4, <2>2 DEF Record
    <2> QED
      BY <1>2, <2>3, <2>4 DEF MarkReply, IInv, TypeOK, googleVars
  <1>7. Settled(it, draft'[r][s])
    BY <1>3, <1>5, <1>6 DEF Settled
  <1>8. ASSUME NEW jt \in listed[r], jt \notin todo[r]
        PROVE  jt.shift \in wrote'[r] /\ Settled(jt, draft[r][jt.shift])'
    <2>1. CASE jt = it
      BY <1>6, <1>7, <2>1 DEF Settled
    <2>2. CASE jt # it
      <3>1. jt.shift # s /\ jt.shift \in wrote[r] /\ Settled(jt, draft[r][jt.shift])
        BY <1>3, <1>8, <2>2 DEF ListedInv, ListedOf
      <3>2. jt.shift \in Shifts
        BY <3>1 DEF IInv, TypeOK
      <3> QED
        BY <1>6, <3>1, <3>2 DEF Settled
    <2> QED
      BY <2>1, <2>2
  <1>9. ListedOf(r)'
    <2> HIDE DEF s
    <2>1. \A t \in wrote'[r] : \E jt \in listed[r] : jt.shift = t
      BY <1>3, <1>6 DEF ListedInv, ListedOf, s
    <2> QED
      BY <1>6, <1>8, <2>1 DEF ListedInv, ListedOf
  <1>10. ASSUME NEW q \in Syncs \ {r} PROVE ListedOf(q)'
    BY <1>6 DEF ListedInv, ListedOf, Settled
  <1> QED
    BY <1>9, <1>10 DEF ListedInv

\* Steps that move nothing of what a sync has listed, or let go of all of it.
LEMMA ListedRests ==
    ASSUME ListedInv, UNCHANGED <<events, phase, listed, todo, reply, wrote, draft>>
    PROVE  ListedInv'
  BY DEF ListedInv, ListedOf, Settled

LEMMA ListedDropped ==
    ASSUME ListedInv, NEW r \in Syncs,
           listed'[r] = {}, todo'[r] = {}, reply'[r] = {}, wrote'[r] = {},
           events' = events,
           \A q \in Syncs \ {r} :
               /\ phase'[q] = phase[q] /\ listed'[q] = listed[q] /\ todo'[q] = todo[q]
               /\ reply'[q] = reply[q] /\ wrote'[q] = wrote[q] /\ draft'[q] = draft[q]
    PROVE  ListedInv'
  <1>1. ListedOf(r)'
    BY DEF ListedOf
  <1>2. ASSUME NEW q \in Syncs \ {r} PROVE ListedOf(q)'
    BY DEF ListedInv, ListedOf, Settled
  <1> QED
    BY <1>1, <1>2 DEF ListedInv

\* What a sync commits when it has nothing left to do.
LEMMA CommitSettles ==
    ASSUME IInv, ListedInv, NEW r \in Syncs, SyncCommit(r)
    PROVE  /\ \A it \in listed[r] : Settled(it, rec'[it.shift])
           /\ \A s \in Shifts : (\A it \in listed[r] : it.shift # s) => rec'[s] = rec[s]
  <1>1. /\ todo[r] = {} /\ reply[r] = {}
        /\ \A s \in Shifts : rec'[s] = Seen(r, s)
    BY DEF SyncCommit
  <1>2. \A it \in listed[r] :
          /\ it.shift \in wrote[r] /\ it.shift \in Shifts
          /\ Settled(it, draft[r][it.shift])
    BY <1>1 DEF ListedInv, ListedOf, IInv, TypeOK
  <1>3. \A it \in listed[r] : Settled(it, rec'[it.shift])
    BY <1>1, <1>2 DEF Seen
  <1>4. \A s \in Shifts : (\A it \in listed[r] : it.shift # s) => rec'[s] = rec[s]
    BY <1>1 DEF Seen, ListedInv, ListedOf
  <1> QED
    BY <1>3, <1>4

SettlesAll ==
    \A r \in Syncs :
        phase[r] = "push" /\ phase'[r] = "idle" /\ outcome'[r] = "ok" =>
            /\ \A it \in listed[r] : Settled(it, rec'[it.shift])
            /\ \A s \in Shifts : (\A it \in listed[r] : it.shift # s) => rec'[s] = rec[s]

\* A step by which no sync comes from its loop to an "ok".
Going(r) ==
    \/ phase'[r] = phase[r]
    \/ phase[r] # "push"
    \/ outcome'[r] # "ok"

LEMMA NextListed ==
    ASSUME IInv, ListedInv, [Next]_vars
    PROVE  ListedInv' /\ SettlesAll
  <1> DEFINE AllGo == \A r \in Syncs : Going(r)
  <1>0. AllGo => SettlesAll
    BY DEF Going, SettlesAll
  <1> HIDE DEF AllGo
  <1>1. ASSUME NEW s \in Shifts, ShiftStep(s) PROVE ListedInv' /\ AllGo
    BY <1>1, ListedRests
    DEF ShiftStep, CreateShift, UpdateShift, DeleteMark, DeleteCommit, googleVars, syncVars,
        AllGo, Going
  <1>2. ASSUME \/ \E t \in BOOLEAN : Connect(t)
               \/ GrantRevoked
               \/ \E r \in Syncs : SyncRefused(r)
               \/ UNCHANGED vars
        PROVE ListedInv' /\ AllGo
    BY <1>2, ListedRests
    DEF Connect, GrantRevoked, SyncRefused, googleVars, syncVars, vars, AllGo, Going
  <1>3. ASSUME NEW r \in Syncs, SyncBegin(r) PROVE ListedInv' /\ AllGo
    <2>1. /\ phase[r] = "idle"
          /\ UNCHANGED <<events, listed, todo, reply, wrote, draft>>
          /\ \A q \in Syncs \ {r} : phase'[q] = phase[q]
      BY <1>3 DEF SyncBegin, googleVars, IInv, TypeOK
    <2>2. listed[r] = {} /\ todo[r] = {} /\ reply[r] = {} /\ wrote[r] = {}
      BY <2>1 DEF ListedInv, ListedOf, IInv, Agreement, Quiet
    <2> QED
      BY <2>1, <2>2, ListedDropped DEF AllGo, Going
  <1>4. ASSUME NEW r \in Syncs, NEW range \in SUBSET Shifts, RefreshOk(r, range)
        PROVE ListedInv' /\ AllGo
    <2>1. phase[r] # "push" /\ \A q \in Syncs \ {r} : phase'[q] = phase[q]
      BY <1>4 DEF RefreshOk, IInv, TypeOK
    <2> QED
      BY <1>4, <2>1, RefreshOkLists DEF AllGo, Going
  <1>5. ASSUME NEW r \in Syncs, NEW why \in Outcomes \ {"ok"}, Rollback(r, why), events' = events
        PROVE ListedInv' /\ AllGo
    <2>1. /\ listed'[r] = {} /\ todo'[r] = {} /\ reply'[r] = {} /\ wrote'[r] = {}
          /\ outcome'[r] = why
          /\ \A q \in Syncs \ {r} :
               /\ phase'[q] = phase[q] /\ listed'[q] = listed[q] /\ todo'[q] = todo[q]
               /\ reply'[q] = reply[q] /\ wrote'[q] = wrote[q] /\ draft'[q] = draft[q]
      BY <1>5 DEF Rollback, IInv, TypeOK
    <2> QED
      BY <1>5, <2>1, ListedDropped DEF AllGo, Going
  <1>6. ASSUME NEW r \in Syncs, NEW it \in todo[r],
               PushOk(r, it) \/ PushRejected(r, it) \/ PushLost(r, it)
        PROVE ListedInv' /\ AllGo
    <2>1. PICK ok \in BOOLEAN :
            /\ Answered(r, it, ok)
            /\ events' = Applied(it) \/ (events' = events /\ ~ok)
      BY <1>6 DEF PushOk, PushRejected, PushLost
    <2> QED
      BY <2>1, AnsweredLists DEF Answered, AllGo, Going
  <1>7. ASSUME NEW r \in Syncs, MarkReply(r) PROVE ListedInv' /\ AllGo
    BY <1>7, MarkReplyLists DEF MarkReply, AllGo, Going
  <1>8. ASSUME NEW r \in Syncs, SyncCommit(r) PROVE ListedInv' /\ SettlesAll
    <2>1. /\ listed'[r] = {} /\ todo'[r] = {} /\ reply'[r] = {} /\ wrote'[r] = {}
          /\ events' = events
          /\ \A q \in Syncs \ {r} :
               /\ phase'[q] = phase[q] /\ listed'[q] = listed[q] /\ todo'[q] = todo[q]
               /\ reply'[q] = reply[q] /\ wrote'[q] = wrote[q] /\ draft'[q] = draft[q]
      BY <1>8 DEF SyncCommit, IInv, TypeOK, googleVars
    <2> QED
      BY <1>8, <2>1, ListedDropped, CommitSettles DEF SettlesAll, IInv, TypeOK
  <1>9. ASSUME NEW r \in Syncs,
               \/ RefreshRevoked(r) \/ RefreshFail(r) \/ SyncCrash(r)
               \/ \E it \in todo[r] : PushRevoked(r, it)
        PROVE ListedInv' /\ AllGo
    <2>1. PICK why \in Outcomes \ {"ok"} : Rollback(r, why) /\ events' = events
      BY <1>9
      DEF RefreshRevoked, RefreshFail, SyncCrash, PushRevoked, RaiseRevoked, Outcomes, googleVars
    <2> QED
      BY <1>5, <2>1
  <1>10. ASSUME NEW r \in Syncs, SyncStep(r) PROVE ListedInv' /\ SettlesAll
    <2>1. CASE Refresh(r)
      BY <1>0, <1>4, <1>9, <2>1 DEF Refresh
    <2>2. CASE Push(r)
      BY <1>0, <1>6, <1>9, <2>2 DEF Push
    <2> QED
      BY <1>0, <1>7, <1>8, <1>10, <2>1, <2>2 DEF SyncStep
  <1> QED
    BY <1>0, <1>1, <1>2, <1>3, <1>9, <1>10 DEF Next

\* A sync that is answered "ok" has settled what it listed and nothing else.
THEOREM SyncsSettleAll == Spec => SyncsSettle
  <1>1. Init => IInv /\ ListedInv
    BY InitIInv DEF Init, ListedInv, ListedOf
  <1>2. IInv /\ ListedInv /\ [Next]_vars => IInv' /\ ListedInv'
    BY NextKeeps, NextListed
  <1>3. IInv /\ ListedInv /\ [Next]_vars => [SettlesAll]_vars
    BY NextListed
  <1> QED
    BY <1>1, <1>2, <1>3, PTL DEF Spec, SyncsSettle, SettlesAll
=============================================================================
