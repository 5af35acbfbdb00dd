------------------------------- MODULE Shifts -------------------------------
(***************************************************************************)
(* The shifts of one owner: POST, PATCH and DELETE /shifts and the summary *)
(* GET /analytics/summary, each a READ COMMITTED transaction, side by      *)
(* side.  A PATCH reads the row without a lock, merges the fields that     *)
(* were not sent with what it read, and writes them all; a summary reads   *)
(* shifts and rates in two statements, between which others commit.        *)
(*                                                                         *)
(* The transaction of a request is what it has written and not committed;  *)
(* its row is locked meanwhile.  The calendar record that a deletion marks *)
(* is part of CalendarSync, the lock behind the rates of PayRates.         *)
(***************************************************************************)
EXTENDS Schedule

CONSTANTS
    Ids,       \* ids of shifts rows (UUIDs: never reused)
    Notes,     \* texts of notes
    Keep,      \* a field that is not in the body
    Writers,   \* POST, PATCH and DELETE requests in progress
    Readers,   \* summary requests in progress
    Creates,   \* bodies of POST requests
    Patches,   \* bodies of PATCH requests
    RateRows,  \* rows that pay_rates may hold
    Ranges     \* date ranges that summaries are asked for

VARIABLES
    shifts,   \* committed rows, by id
    rates,    \* committed pay_rates rows
    request,  \* writer: where its handler is, and its transaction
    reader    \* summary request: where it is, what it has read, its answer

vars == <<shifts, rates, request, reader>>

NoRow == [at |-> "none"]    \* not yet created
Gone == [at |-> "gone"]     \* deleted

Row == [start: Instants, end: Instants, brk: Breaks, type: Types, notes: Notes, date: Nat]
Body == [start: Instants, end: Instants, brk: Breaks, type: Types, notes: Notes]
Patch == [start: Instants \cup {Keep}, end: Instants \cup {Keep}, brk: Breaks \cup {Keep},
          type: Types \cup {Keep}, notes: Notes \cup {Keep}]

ASSUME ShiftsAssumption ==
    /\ IsFiniteSet(Ids)
    /\ Keep \notin Instants /\ Keep \notin Breaks /\ Keep \notin Types /\ Keep \notin Notes
    /\ Creates \subseteq Body
    /\ Patches \subseteq Patch
    /\ RateRows \subseteq RateType
    /\ Ranges \subseteq [from: Nat, to: Nat]

Exists(i) == shifts[i] \notin {NoRow, Gone}

Idle == [at |-> "idle"]
Merging == [at: {"read"}, id: Ids, body: Patches, read: Row, alone: BOOLEAN]
Writing == [at: {"insert", "delete"}, id: Ids, row: Row \cup {Gone}]
               \cup [at: {"update"}, id: Ids, row: Row, body: Patches, read: Row, alone: BOOLEAN]

Answers == {"none", "facts", "uncovered", "overlapping", "misdated"}

TypeOK ==
    /\ shifts \in [Ids -> Row \cup {NoRow, Gone}]
    /\ rates \subseteq RateRows
    /\ request \in [Writers -> {Idle} \cup Merging \cup Writing]
    /\ DOMAIN reader = Readers
    /\ \A s \in Readers : /\ reader[s].at \in {"idle", "shifts", "done"}
                          /\ reader[s].at = "done" => reader[s].answer \in Answers

Init ==
    /\ shifts = [i \in Ids |-> NoRow]
    /\ rates = {}
    /\ request = [w \in Writers |-> Idle]
    /\ reader = [s \in Readers |-> Idle]

\* The row lock: a row that a transaction has written is written by no other.
Unlocked(i) == \A w \in Writers : request[w].at \in {"insert", "update", "delete"} => request[w].id # i

-----------------------------------------------------------------------------
(* Requests that write. *)

Step(w, next) == request' = [request EXCEPT ![w] = next]

\* The columns of NewShift: the body, and the date it starts on.
Stored(body) ==
    [start |-> body.start, end |-> body.end, brk |-> body.brk, type |-> body.type,
     notes |-> body.notes, date |-> WorkDate(body)]

CreateShift(w, i) ==
    /\ request[w] = Idle
    /\ shifts[i] = NoRow
    /\ Unlocked(i)
    /\ \E body \in Creates :
        /\ ValidTimes(body)
        /\ Step(w, [at |-> "insert", id |-> i, row |-> Stored(body)])
    /\ UNCHANGED <<shifts, rates, reader>>

\* update_shift reads the row; "alone": nobody has changed it since.
ReadShift(w, i) ==
    /\ request[w] = Idle
    /\ Exists(i)
    /\ \E body \in Patches :
        Step(w, [at |-> "read", id |-> i, body |-> body, read |-> shifts[i], alone |-> TRUE])
    /\ UNCHANGED <<shifts, rates, reader>>

Sent(value, default) == IF value = Keep THEN default ELSE value

\* What if a break of 0 minutes counted as not sent.
MergedTruthy(body, row) ==
    Stored([start |-> Sent(body.start, row.start), end |-> Sent(body.end, row.end),
            brk |-> IF body.brk = 0 THEN row.brk ELSE Sent(body.brk, row.brk),
            type |-> Sent(body.type, row.type), notes |-> Sent(body.notes, row.notes)])

Merged(body, row) ==
    Stored([start |-> Sent(body.start, row.start), end |-> Sent(body.end, row.end),
            brk |-> Sent(body.brk, row.brk), type |-> Sent(body.type, row.type),
            notes |-> Sent(body.notes, row.notes)])

\* The UPDATE, of all columns, once the row is unlocked; it must still be there.
Write(w, row) ==
    Step(w, [at |-> "update", id |-> request[w].id, row |-> row, body |-> request[w].body,
             read |-> request[w].read, alone |-> request[w].alone])

\* What if it set the columns that were sent, and those only.
UpdateSent(w) ==
    /\ request[w].at = "read"
    /\ Unlocked(request[w].id)
    /\ Exists(request[w].id)
    /\ ValidTimes(Merged(request[w].body, request[w].read))
    /\ Write(w, Merged(request[w].body, shifts[request[w].id]))
    /\ UNCHANGED <<shifts, rates, reader>>

UpdateShift(w) ==
    /\ request[w].at = "read"
    /\ Unlocked(request[w].id)
    /\ Exists(request[w].id)
    /\ ValidTimes(Merged(request[w].body, request[w].read))
    /\ Write(w, Merged(request[w].body, request[w].read))
    /\ UNCHANGED <<shifts, rates, reader>>

DeleteShift(w, i) ==
    /\ request[w] = Idle
    /\ Exists(i)
    /\ Unlocked(i)
    /\ Step(w, [at |-> "delete", id |-> i, row |-> Gone])
    /\ UNCHANGED <<shifts, rates, reader>>

\* Others that have read the row are no longer alone.
Commit(w) ==
    /\ request[w].at \in {"insert", "update", "delete"}
    /\ shifts' = [shifts EXCEPT ![request[w].id] = request[w].row]
    /\ request' = [v \in Writers |->
           IF v = w THEN Idle
           ELSE IF request[v].at = "read" /\ request[v].id = request[w].id
           THEN [request[v] EXCEPT !.alone = FALSE] ELSE request[v]]
    /\ UNCHANGED <<rates, reader>>

\* 404, 422, a lost connection, a failed COMMIT: nothing is stored.
Rollback(w) ==
    /\ request[w] # Idle
    /\ Step(w, Idle)
    /\ UNCHANGED <<shifts, rates, reader>>

-----------------------------------------------------------------------------
(* Summaries, and the rates they use. *)

Overlap(a, b) == \E d \in {a.from, b.from} : AppliesOn(a, d) /\ AppliesOn(b, d)

\* Requests of PayRates, which keep the periods apart.
ChangeRates ==
    /\ \E rows \in SUBSET RateRows :
        /\ \A a, b \in rows : a # b => ~Overlap(a, b)
        /\ rates' = rows
    /\ UNCHANGED <<shifts, request, reader>>

InRange(range) == {i \in Ids : Exists(i) /\ range.from <= shifts[i].date /\ shifts[i].date <= range.to}

\* get_summary, the shifts of the range...
ReadShifts(s) ==
    /\ reader[s].at = "idle"
    /\ \E range \in Ranges :
        /\ range.from <= range.to
        /\ reader' = [reader EXCEPT ![s] =
               [at |-> "shifts", range |-> range, ids |-> InRange(range),
                rows |-> [i \in InRange(range) |-> shifts[i]]]]
    /\ UNCHANGED <<shifts, rates, request>>

\* list_shifts: ORDER BY start_at, id.
InOrder(row, ids) ==
    LET order == Sorted(ids, [i \in ids |-> row[i].start])
    IN  [n \in DOMAIN order |-> row[order[n]]]

Answer(rows, ids) ==
    LET date(i) == WorkDate(rows[i])
    IN  CASE \E i \in ids : rows[i].date # date(i) -> "misdated"
          [] \E i \in ids : Applying(rates, date(i)) = {} -> "uncovered"
          [] \E i \in ids : Cardinality(Applying(rates, date(i))) > 1 -> "overlapping"
          [] OTHER -> "facts"

\* ... then the rates, and what follows from both.
Summarise(s) ==
    /\ reader[s].at = "shifts"
    /\ LET rows == reader[s].rows
           ids == reader[s].ids
           answer == Answer(rows, ids)
       IN  reader' = [reader EXCEPT ![s] =
               [at |-> "done", range |-> reader[s].range, rows |-> rows, answer |-> answer,
                rates |-> rates,
                facts |-> IF answer = "facts" THEN FactsOf(InOrder(rows, ids), rates) ELSE NoFacts]]
    /\ UNCHANGED <<shifts, rates, request>>

Forget(s) ==
    /\ reader[s].at = "done"
    /\ reader' = [reader EXCEPT ![s] = Idle]
    /\ UNCHANGED <<shifts, rates, request>>

-----------------------------------------------------------------------------
Next ==
    \/ \E w \in Writers :
        \/ \E i \in Ids : CreateShift(w, i) \/ ReadShift(w, i) \/ DeleteShift(w, i)
        \/ UpdateShift(w) \/ Commit(w) \/ Rollback(w)
    \/ ChangeRates
    \/ \E s \in Readers : ReadShifts(s) \/ Summarise(s) \/ Forget(s)

Spec == Init /\ [][Next]_vars

-----------------------------------------------------------------------------
(* Every row is a shift the rules allow, filed under the date it starts    *)
(* on: two PATCHes, each valid against the row it read, never make an      *)
(* invalid one together, though no constraint compares break and length.   *)
RowsAreShifts ==
    \A i \in Ids : Exists(i) => ValidTimes(shifts[i]) /\ shifts[i].date = WorkDate(shifts[i])

(* A PATCH whose row nobody changed in the meantime changes what it sent   *)
(* and nothing else, a break of 0 minutes and an emptied note among them.  *)
KeptFields(old, new, body) ==
    \A f \in {"start", "end", "brk", "type", "notes"} :
        new[f] = (IF body[f] = Keep THEN old[f] ELSE body[f])
PatchChangesWhatItSent ==
    [][\A w \in Writers :
        request[w].at = "update" /\ request'[w] = Idle /\ request[w].alone /\ shifts' # shifts
            => KeptFields(shifts[request[w].id], shifts'[request[w].id], request[w].body)]_vars

(* A summary is answered or refused with every shift in its range; it is   *)
(* refused only because a shift has no rate, never for a misfiled shift or *)
(* two rates.                                                              *)
SummariesAreDecided ==
    \A s \in Readers : reader[s].at = "done" =>
        LET ids == DOMAIN reader[s].rows
            date(i) == WorkDate(reader[s].rows[i])
        IN  /\ \A i \in ids : date(i) \in reader[s].range.from..reader[s].range.to
            /\ reader[s].answer =
                   IF \A i \in ids : Applying(reader[s].rates, date(i)) # {}
                   THEN "facts" ELSE "uncovered"

(* ... and one that is answered states the facts of the shifts it read, at *)
(* the rates it read.                                                      *)
SummariesAreTrue ==
    /\ SummariesAreDecided
    /\ \A s \in Readers : reader[s].at = "done" /\ reader[s].answer = "facts" =>
        reader[s].facts = Reference(reader[s].rows, DOMAIN reader[s].rows, reader[s].rates)
=============================================================================
