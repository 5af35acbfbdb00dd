------------------------------ MODULE Schedule ------------------------------
(***************************************************************************)
(* The deterministic schedule rules: which shifts are valid, on which      *)
(* local date a shift counts, which pay rate prices it, and the facts of a *)
(* range of shifts, computed the way the code does, one shift after the    *)
(* other; after them, the same facts as one would define them.             *)
(*                                                                         *)
(* Time is counted in slots, of which an hour has SlotsPerHour; breaks     *)
(* are counted in slots too and the rates are in cents an hour.  The       *)
(* time zone of the owner is the function DateOf.                          *)
(***************************************************************************)
EXTENDS Integers, FiniteSets, SequencesExt

CONSTANTS
    Instants,      \* instants a shift may start or end at
    Breaks,        \* lengths of breaks
    Types,         \* shift types
    DateOf,        \* instant: its date in the owner's time zone
    SlotsPerHour,
    MaxBreak,      \* 1440 minutes
    DaysPerWeek    \* 7

ASSUME ScheduleAssumption ==
    /\ Instants \subseteq Int
    /\ Breaks \subseteq Int
    /\ DateOf \in [Instants -> Nat]
    /\ SlotsPerHour \in Nat \ {0}
    /\ MaxBreak \in Nat
    /\ DaysPerWeek \in Nat \ {0}

Times == [start: Instants, end: Instants, brk: Breaks]

\* Shift.__post_init__: the only place where a break is compared to its shift.
ValidTimes(t) ==
    /\ t.brk \in 0..MaxBreak
    /\ t.start < t.end
    /\ t.brk <= t.end - t.start

WorkDate(t) == DateOf[t.start]
PaidSlots(t) == t.end - t.start - t.brk

NoEnd == -1
RateType == [from: Nat, to: Nat \cup {NoEnd}, cents: Nat]
AppliesOn(rate, date) == rate.from <= date /\ (rate.to = NoEnd \/ date <= rate.to)
Applying(rates, date) == {rate \in rates : AppliesOn(rate, date)}

\* calculate_shift: hours times the rate, to the cent, half up.
PayOf(t, rate) == (2 * PaidSlots(t) * rate.cents + SlotsPerHour) \div (2 * SlotsPerHour)

\* Weeks are named by the date they start on; date 0 starts one.
WeekOf(date) == date - (date % DaysPerWeek)

-----------------------------------------------------------------------------
(* The facts as calculate_schedule_summary accumulates them. *)

\* sorted, and ORDER BY: the elements of S in the order of their keys.
Sorted(S, key) ==
    CHOOSE seq \in SetToSeqs(S) : \A i, j \in DOMAIN seq : i < j => key[seq[i]] <= key[seq[j]]

NoFacts == [count |-> 0, paid |-> 0, pay |-> 0, types |-> <<>>, weeks |-> <<>>, dates |-> {}]

\* counts[key] = counts.get(key, 0) + amount
Plus(counts, key, amount) ==
    [k \in DOMAIN counts \cup {key} |->
        (IF k \in DOMAIN counts THEN counts[k] ELSE 0) + (IF k = key THEN amount ELSE 0)]

AddShift(facts, row, rates) ==
    LET date == WorkDate(row)
        rate == CHOOSE r \in Applying(rates, date) : TRUE
    IN  [count |-> facts.count + 1,
         paid  |-> facts.paid + PaidSlots(row),
         pay   |-> facts.pay + PayOf(row, rate),
         types |-> Plus(facts.types, row.type, 1),
         weeks |-> Plus(facts.weeks, WeekOf(date), PaidSlots(row)),
         dates |-> facts.dates \cup {date}]

\* What if the count were not started again after a day off.
NextDateAfterGap(run, date) ==
    LET current == run.current + 1
    IN  [longest |-> IF current > run.longest THEN current ELSE run.longest,
         current |-> current, previous |-> date]

\* _longest_consecutive_run, over the dates in order.
NextDate(run, date) ==
    LET current == IF run.longest > 0 /\ date - run.previous = 1 THEN run.current + 1 ELSE 1
    IN  [longest |-> IF current > run.longest THEN current ELSE run.longest,
         current |-> current, previous |-> date]

LongestRun(dates) ==
    FoldLeft(NextDate, [longest |-> 0, current |-> 0, previous |-> 0],
             Sorted(dates, [date \in dates |-> date])).longest

FactsOf(rows, rates) ==
    LET sum == FoldLeft(LAMBDA facts, row : AddShift(facts, row, rates), NoFacts, rows)
    IN  [count |-> sum.count, paid |-> sum.paid, pay |-> sum.pay, types |-> sum.types,
         weeks |-> sum.weeks, longest |-> LongestRun(sum.dates)]

-----------------------------------------------------------------------------
(* The facts as one would define them, of a function "row" over "ids".  A  *)
(* total is a number of things: of slots, or of cents.                     *)

Total(ids, amount(_)) == Cardinality(UNION {{i} \X (1..amount(i)) : i \in ids})

\* The cents nearest to the exact amount, and the higher of two.
Nearest(slots, cents) ==
    CHOOSE pay \in 0..(slots * cents + 1) :
        /\ 2 * SlotsPerHour * pay - SlotsPerHour <= 2 * slots * cents
        /\ 2 * slots * cents < 2 * SlotsPerHour * pay + SlotsPerHour

RoundedPay(row, rates) ==
    CHOOSE pay \in {Nearest(PaidSlots(row), r.cents) : r \in Applying(rates, WorkDate(row))} : TRUE

Reference(row, ids, rates) ==
    LET dates == {WorkDate(row[i]) : i \in ids}
        paid(i) == PaidSlots(row[i])
        pay(i) == RoundedPay(row[i], rates)
        inWeek(w) == {i \in ids : WorkDate(row[i]) \in w..(w + DaysPerWeek - 1)}
        runs == {n \in 1..Cardinality(dates) : \E d \in dates : d..(d + n - 1) \subseteq dates}
    IN  [count |-> Cardinality(ids), paid |-> Total(ids, paid), pay |-> Total(ids, pay),
         types |-> [t \in {row[i].type : i \in ids} |-> Cardinality({i \in ids : row[i].type = t})],
         weeks |-> [w \in {WeekOf(d) : d \in dates} |-> Total(inWeek(w), paid)],
         longest |-> IF ids = {} THEN 0 ELSE Max(runs)]
=============================================================================
