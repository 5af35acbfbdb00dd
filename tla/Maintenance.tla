---------------------------- MODULE Maintenance -----------------------------
(***************************************************************************)
(* The daily-maintenance job, claimed once per logical date in             *)
(* scheduled_job_runs, and the daily quota counters that it cleans up      *)
(* while requests consume them.                                            *)
(*                                                                         *)
(* An invocation uses three transactions: the claim, the work together     *)
(* with the status succeeded, and, after an exception, the status failed.  *)
(* Cloud Scheduler and an operator may invoke the job again at any time.   *)
(* A logical date is the one of Taipei when the job was scheduled, which   *)
(* is the database's CURRENT_DATE or the day after it.  What the work does *)
(* to imports and documents is in ShiftImport and Policies.                *)
(***************************************************************************)
EXTENDS Integers, FiniteSets

CONSTANTS
    Invocations,  \* POST /internal/daily-maintenance requests
    Spenders,     \* requests that consume a quota
    Counters,     \* quota rows of a day: one per owner, one of the app
    Limit,        \* daily limit of a counter (the same of all here)
    MaxDay,       \* bound: days that pass
    LogicalDates  \* bound: the dates the job is invoked for

Days == 0..MaxDay

ASSUME MaintenanceAssumption ==
    /\ Limit \in Nat \ {0}
    /\ MaxDay \in Nat
    /\ LogicalDates \subseteq 0..MaxDay + 1
    /\ LogicalDates # {} /\ Counters # {}

VARIABLES
    today,    \* CURRENT_DATE
    job,      \* scheduled_job_runs: status of a logical date
    old,      \* logical dates whose started_at is more than an hour ago
    run,      \* invocation: where it is and the date it works for
    done,     \* auxiliary: how often the work of a date was committed, 2 for more
    stalled,  \* auxiliary: dates that had a run at work for over an hour
    cut,      \* auxiliary: dates that had a run cut off by a crash
    used,     \* used_units of a counter and day, 0 without a row
    granted,  \* auxiliary: consumptions of a counter and day allowed
    spend     \* consuming request: its counter and the day its transaction began

jobVars == <<job, old, run, done, stalled, cut>>
quotaVars == <<used, granted, spend>>
vars == <<today, jobVars, quotaVars>>

TypeOK ==
    /\ today \in Days
    /\ job \in [LogicalDates -> {"none", "running", "succeeded", "failed"}]
    /\ old \subseteq LogicalDates
    /\ run \in [Invocations -> [at: {"idle", "working", "failing"}, date: LogicalDates]]
    /\ done \in [LogicalDates -> 0..2]
    /\ stalled \subseteq LogicalDates
    /\ cut \subseteq LogicalDates
    /\ used \in [Counters -> [Days -> 0..Limit]]
    /\ granted \in [Counters -> [Days -> Nat]]
    /\ spend \in [Spenders -> [begun: BOOLEAN, counter: Counters, day: Days]]

Init ==
    /\ today = 0
    /\ job = [l \in LogicalDates |-> "none"]
    /\ old = {}
    /\ run = [i \in Invocations |->
                [at |-> "idle", date |-> CHOOSE l \in LogicalDates : TRUE]]
    /\ done = [l \in LogicalDates |-> 0]
    /\ stalled = {}
    /\ cut = {}
    /\ used = [c \in Counters |-> [d \in Days |-> 0]]
    /\ granted = used
    /\ spend = [q \in Spenders |->
                  [begun |-> FALSE, counter |-> CHOOSE c \in Counters : TRUE, day |-> 0]]

-----------------------------------------------------------------------------
(* Time. *)

\* A quota statement does not last over two midnights.
Midnight ==
    /\ today < MaxDay
    /\ \A q \in Spenders : spend[q].begun => spend[q].day = today
    /\ today' = today + 1
    /\ UNCHANGED <<jobVars, quotaVars>>

AtWork(l) == {i \in Invocations : run[i].at # "idle" /\ run[i].date = l}

HourPasses(l) ==
    /\ job[l] = "running"
    /\ l \notin old
    /\ old' = old \cup {l}
    /\ stalled' = IF AtWork(l) # {} THEN stalled \cup {l} ELSE stalled
    /\ UNCHANGED <<today, job, run, done, cut, quotaVars>>

-----------------------------------------------------------------------------
(* The job. *)

Enter(i, l) ==
    /\ job' = [job EXCEPT ![l] = "running"]
    /\ old' = old \ {l}
    /\ run' = [run EXCEPT ![i] = [at |-> "working", date |-> l]]
    /\ UNCHANGED <<today, done, stalled, cut, quotaVars>>

\* What if a running claim could be taken over at any age.
ClaimRunning(i, l) ==
    /\ run[i].at = "idle"
    /\ l \in {today, today + 1}
    /\ job[l] \in {"none", "failed", "running"}
    /\ Enter(i, l)

\* INSERT ... ON CONFLICT DO UPDATE ... WHERE failed, or running for an hour.
Claim(i, l) ==
    /\ run[i].at = "idle"
    /\ l \in {today, today + 1}
    /\ job[l] \in {"none", "failed"} \/ (job[l] = "running" /\ l \in old)
    /\ Enter(i, l)

\* What if the clean-up kept one day less.
DropQuotasTooSoon(l) ==
    used' = [c \in Counters |-> [d \in Days |-> IF d < l - 1 THEN 0 ELSE used[c][d]]]

\* DELETE ... WHERE usage_date < :logical_run_date - 2
DropQuotas(l) ==
    used' = [c \in Counters |-> [d \in Days |-> IF d < l - 2 THEN 0 ELSE used[c][d]]]

\* The work and the status are one transaction; the row is addressed by id,
\* so the status is written whoever holds the claim by then.
Perform(i) ==
    LET l == run[i].date IN
    /\ run[i].at = "working"
    /\ DropQuotas(l)
    /\ job' = [job EXCEPT ![l] = "succeeded"]
    /\ done' = [done EXCEPT ![l] = IF @ < 2 THEN @ + 1 ELSE @]
    /\ run' = [run EXCEPT ![i].at = "idle"]
    /\ UNCHANGED <<today, old, stalled, cut, granted, spend>>

\* What if nothing caught the exception.
PerformRaisesUncaught(i) ==
    /\ run[i].at = "working"
    /\ run' = [run EXCEPT ![i].at = "idle"]
    /\ UNCHANGED <<today, job, old, done, stalled, cut, quotaVars>>

\* An exception: the work is rolled back.
PerformRaises(i) ==
    /\ run[i].at = "working"
    /\ run' = [run EXCEPT ![i].at = "failing"]
    /\ UNCHANGED <<today, job, old, done, stalled, cut, quotaVars>>

RecordFailure(i) ==
    /\ run[i].at = "failing"
    /\ job' = [job EXCEPT ![run[i].date] = "failed"]
    /\ run' = [run EXCEPT ![i].at = "idle"]
    /\ UNCHANGED <<today, old, done, stalled, cut, quotaVars>>

\* The process ends, or the database cannot be reached to record the failure.
CutOff(i) ==
    /\ run[i].at # "idle"
    /\ cut' = cut \cup {run[i].date}
    /\ run' = [run EXCEPT ![i].at = "idle"]
    /\ UNCHANGED <<today, job, old, done, stalled, quotaVars>>

-----------------------------------------------------------------------------
(* Quotas. *)

\* A transaction of its own: CURRENT_DATE is the day it began.
Begin(q, c) ==
    /\ ~spend[q].begun
    /\ spend' = [spend EXCEPT ![q] = [begun |-> TRUE, counter |-> c, day |-> today]]
    /\ UNCHANGED <<today, jobVars, used, granted>>

\* INSERT ... ON CONFLICT DO UPDATE ... WHERE used_units < requested_limit,
\* under the row's lock; the call that was to be counted follows the commit.
Consume(q) ==
    LET c == spend[q].counter
        d == spend[q].day
    IN  /\ spend[q].begun
        /\ IF used[c][d] < Limit
           THEN /\ used' = [used EXCEPT ![c][d] = @ + 1]
                /\ granted' = [granted EXCEPT ![c][d] = @ + 1]
           ELSE UNCHANGED <<used, granted>>
        /\ spend' = [spend EXCEPT ![q].begun = FALSE]
        /\ UNCHANGED <<today, jobVars>>

-----------------------------------------------------------------------------

JobStep(i) ==
    \/ \E l \in LogicalDates : Claim(i, l)
    \/ Perform(i) \/ PerformRaises(i) \/ RecordFailure(i) \/ CutOff(i)

Next ==
    \/ Midnight
    \/ \E l \in LogicalDates : HourPasses(l)
    \/ \E i \in Invocations : JobStep(i)
    \/ \E q \in Spenders : (\E c \in Counters : Begin(q, c)) \/ Consume(q)

Spec == Init /\ [][Next]_vars

-----------------------------------------------------------------------------
(* Properties. *)

\* zero-cost-operations.md: the claim makes retries no-ops.  As long as no run
\* is at work for over an hour, the work of a date is in one hand at a time
\* and is committed once, whatever fails, crashes and is invoked again.
OneWorker ==
    \A l \in LogicalDates \ stalled : Cardinality(AtWork(l)) <= 1 /\ done[l] <= 1

\* The status of a date is true: succeeded has been worked for, and a claim
\* that no run is working for was left by a crash; every other failure gives
\* the date back to the next invocation at once.
StatusIsTrue ==
    \A l \in LogicalDates :
        /\ job[l] = "succeeded" => done[l] > 0
        /\ job[l] = "running" /\ l \notin cut => AtWork(l) # {}

\* No day is granted more than its limit: no consumption is forgotten by the
\* clean-up of a run with another date, nor by one that began before midnight.
CapHolds == \A c \in Counters, d \in Days : granted[c][d] <= Limit
=============================================================================
