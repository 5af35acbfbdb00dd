------------------------------ MODULE PayRates ------------------------------
(***************************************************************************)
(* The pay rates of one owner and the shifts they price: POST, PATCH and   *)
(* DELETE /pay-rates, each a READ COMMITTED transaction that takes the     *)
(* owner's advisory lock, checks, writes and commits, while shifts are     *)
(* created, moved and deleted by transactions that take no such lock.      *)
(*                                                                         *)
(* No constraint of the database keeps the periods apart: the lock and the *)
(* has_overlap query do.  Dates are integers; NULL, as an effective_to     *)
(* that is open or as a row that is absent, is 0.  The hourly rate itself  *)
(* is left out: nothing here depends on it.                                *)
(***************************************************************************)
EXTENDS Integers

CONSTANTS
    Rates,     \* ids of pay_rates rows
    Shifts,    \* ids of shifts rows
    Requests,  \* pay-rate requests that may be in progress
    MaxDay     \* bound: dates are 1..MaxDay

ASSUME PayRatesAssumption == MaxDay \in Nat \ {0}

Dates == 1..MaxDay
Null == 0
Periods == [from: Dates, to: Dates \cup {Null}]
NoPeriod == [from |-> Null, to |-> Null]

VARIABLES
    rate,      \* pay_rates, committed: period of each row, or NoPeriod
    workDate,  \* shifts, committed: work_date of each row, or Null
    lock,      \* requests that hold the owner's advisory lock
    phase,     \* request: where its handler is
    command,   \* request: what was asked
    current,   \* request: the row read under the lock, or NoPeriod
    touched    \* auxiliary: shifts written since the request's in-use query

shiftVars == <<workDate, touched>>
requestVars == <<phase, command, current>>
payRateVars == <<rate, workDate, lock, phase, command, current, touched>>

Phases == {"idle", "waiting", "locked", "disjoint", "checked"}
Command == [kind: {"create", "update"}, id: Rates, period: Periods]
               \cup [kind: {"delete"}, id: Rates]
NoCommand == [kind |-> "none"]

PayRatesTypeOK ==
    /\ rate \in [Rates -> Periods \cup {NoPeriod}]
    /\ workDate \in [Shifts -> Dates \cup {Null}]
    /\ lock \subseteq Requests
    /\ phase \in [Requests -> Phases]
    /\ command \in [Requests -> Command \cup {NoCommand}]
    /\ \A q \in Requests : phase[q] # "idle" => command[q] # NoCommand
    /\ current \in [Requests -> Periods \cup {NoPeriod}]
    /\ touched \in [Requests -> SUBSET Shifts]

PayRatesInit ==
    /\ rate = [i \in Rates |-> NoPeriod]
    /\ workDate = [s \in Shifts |-> Null]
    /\ lock = {}
    /\ phase = [q \in Requests |-> "idle"]
    /\ command = [q \in Requests |-> NoCommand]
    /\ current = [q \in Requests |-> NoPeriod]
    /\ touched = [q \in Requests |-> {}]

-----------------------------------------------------------------------------

\* PayRate.applies_on.
Covers(p, d) ==
    /\ p.from # Null
    /\ p.from <= d
    /\ p.to = Null \/ d <= p.to

\* What if the period were taken as half open: one that starts on the day the
\* other ends would not be found.
OverlapsHalfOpen(p, n) ==
    /\ p.from # Null
    /\ n.to = Null \/ p.from < n.to
    /\ p.to = Null \/ p.to > n.from

\* The WHERE clause of has_overlap for an existing row p and a new period n.
Overlaps(p, n) ==
    /\ p.from # Null
    /\ n.to = Null \/ p.from <= n.to
    /\ p.to = Null \/ p.to >= n.from

HasOverlap(n, exclude) == \E i \in Rates \ exclude : Overlaps(rate[i], n)

\* PayRate.__post_init__.  An update's period is its patch merged with the row
\* read under the lock: any period may result, and is validated there.
Valid(p) == p.to = Null \/ p.from <= p.to

\* The dates a change takes away from the row.
Loses(q, d) ==
    /\ Covers(current[q], d)
    /\ command[q].kind = "update" => ~Covers(command[q].period, d)

\* has_shifts and has_shifts_outside_period.
TakesFromShift(q) == \E s \in Shifts : workDate[s] # Null /\ Loses(q, workDate[s])

-----------------------------------------------------------------------------
(* A request. *)

\* A create is validated before the lock; its id is a new one.
Ask(q, c) ==
    /\ phase[q] = "idle"
    /\ c.kind = "create" =>
         /\ Valid(c.period)
         /\ rate[c.id] = NoPeriod
         /\ \A r \in Requests : phase[r] # "idle" => command[r].id # c.id
    /\ phase' = [phase EXCEPT ![q] = "waiting"]
    /\ command' = [command EXCEPT ![q] = c]
    /\ UNCHANGED <<rate, shiftVars, lock, current>>

\* pg_advisory_xact_lock, then get_pay_rate in a statement of its own.
Lock(q) ==
    /\ phase[q] = "waiting"
    /\ lock = {}
    /\ lock' = {q}
    /\ phase' = [phase EXCEPT ![q] = "locked"]
    /\ current' = [current EXCEPT ![q] = rate[command[q].id]]
    /\ UNCHANGED <<rate, shiftVars, command>>

\* What if the lock were one of the session, kept by the pooled connection.
FinishLocked(q) ==
    /\ phase' = [phase EXCEPT ![q] = "idle"]
    /\ current' = [current EXCEPT ![q] = NoPeriod]
    /\ touched' = [touched EXCEPT ![q] = {}]
    /\ command' = [command EXCEPT ![q] = NoCommand]
    /\ UNCHANGED lock

\* The end of the transaction releases the lock, committed or not.
Finish(q) ==
    /\ phase' = [phase EXCEPT ![q] = "idle"]
    /\ lock' = lock \ {q}
    /\ current' = [current EXCEPT ![q] = NoPeriod]
    /\ touched' = [touched EXCEPT ![q] = {}]
    /\ command' = [command EXCEPT ![q] = NoCommand]

Reject(q) == Finish(q) /\ UNCHANGED <<rate, workDate>>

Advance(q, next) ==
    /\ phase' = [phase EXCEPT ![q] = next]
    /\ UNCHANGED <<rate, workDate, lock, command, current>>

\* The row exists and the merged period is a period.
Sound(q) ==
    /\ command[q].kind = "create" \/ current[q] # NoPeriod
    /\ command[q].kind = "update" => Valid(command[q].period)

\* PayRateRecordNotFoundError, or a ScheduleValidationError of the merge.
RejectUnsound(q) ==
    /\ phase[q] = "locked"
    /\ ~Sound(q)
    /\ Reject(q)

\* The rows has_overlap leaves out: an update's own.
Excluded(q) == IF command[q].kind = "update" THEN {command[q].id} ELSE {}

CheckOverlap(q) ==
    /\ phase[q] = "locked"
    /\ Sound(q)
    /\ command[q].kind # "delete" => ~HasOverlap(command[q].period, Excluded(q))
    /\ Advance(q, "disjoint")
    /\ UNCHANGED touched

RejectOverlap(q) ==
    /\ phase[q] = "locked"
    /\ Sound(q)
    /\ command[q].kind # "delete"
    /\ HasOverlap(command[q].period, Excluded(q))
    /\ Reject(q)

\* What if only a delete were checked, and an update could shorten a period.
CheckShiftsOfDelete(q) ==
    /\ phase[q] = "disjoint"
    /\ command[q].kind = "delete" => ~TakesFromShift(q)
    /\ Advance(q, "checked")
    /\ touched' = [touched EXCEPT ![q] = {}]

CheckShifts(q) ==
    /\ phase[q] = "disjoint"
    /\ command[q].kind # "create" => ~TakesFromShift(q)
    /\ Advance(q, "checked")
    /\ touched' = [touched EXCEPT ![q] = {}]

RejectInUse(q) ==
    /\ phase[q] = "disjoint"
    /\ command[q].kind # "create"
    /\ TakesFromShift(q)
    /\ Reject(q)

\* The INSERT, UPDATE or DELETE and the commit.
WriteRate(q) ==
    /\ phase[q] = "checked"
    /\ rate' = [rate EXCEPT ![command[q].id] =
                  IF command[q].kind = "delete" THEN NoPeriod ELSE command[q].period]
    /\ Finish(q)
    /\ UNCHANGED workDate

-----------------------------------------------------------------------------
(* Shifts: create, update, delete and import commit; no lock is taken. *)

SetWorkDate(s, d) ==
    /\ workDate[s] # d
    /\ workDate' = [workDate EXCEPT ![s] = d]
    /\ touched' = [q \in Requests |-> touched[q] \cup {s}]
    /\ UNCHANGED <<rate, lock, requestVars>>

-----------------------------------------------------------------------------

RequestStep(q) ==
    \/ RejectUnsound(q)
    \/ CheckOverlap(q) \/ RejectOverlap(q)
    \/ CheckShifts(q) \/ RejectInUse(q)
    \/ WriteRate(q)

PayRatesNext ==
    \/ \E q \in Requests :
         (\E c \in Command : Ask(q, c)) \/ Lock(q) \/ RequestStep(q)
    \/ \E s \in Shifts, d \in Dates \cup {Null} : SetWorkDate(s, d)

\* Handlers run on; PostgreSQL queues the waiters of an advisory lock.
PayRatesSpec ==
    /\ PayRatesInit /\ [][PayRatesNext]_payRateVars
    /\ \A q \in Requests : WF_payRateVars(RequestStep(q)) /\ SF_payRateVars(Lock(q))

-----------------------------------------------------------------------------
(* Properties. *)

\* At most one committed rate applies on a date: calculate_shift never meets
\* OverlappingPayRatesError, however requests interleave.
NeverAmbiguous ==
    \A i, j \in Rates, d \in Dates :
        Covers(rate[i], d) /\ Covers(rate[j], d) => i = j

Priced(d) == \E i \in Rates : Covers(rate[i], d)

\* A shift that was not written since the request's in-use query keeps being
\* priced when the request commits.
SettledShiftsStayPriced ==
    [][\A q \in Requests : phase[q] = "checked" /\ phase'[q] = "idle" =>
         \A s \in Shifts \ touched[q] :
             workDate[s] # Null /\ Priced(workDate[s]) => Priced(workDate[s])']_payRateVars

\* Every request that waits for the lock gets its answer.
RequestsEnd == \A q \in Requests : phase[q] = "waiting" ~> phase[q] = "idle"
=============================================================================
