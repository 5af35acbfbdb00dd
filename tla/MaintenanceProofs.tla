-------------------------- MODULE MaintenanceProofs --------------------------
(***************************************************************************)
(* For any invocations, consuming requests, counters, limits and days: the *)
(* work of a logical date is in one hand, its status is true, and no quota *)
(* is exceeded by way of the clean-up.                                     *)
(***************************************************************************)
EXTENDS Maintenance, FiniteSetTheorems, TLAPS

\* A date that no run has been at work for over an hour has one run at most,
\* which still has its claim; a claim that may be taken over has none.
WorksFor(i, l) == run[i].at # "idle" /\ run[i].date = l
Alone ==
    \A l \in LogicalDates \ stalled : \A i, j \in Invocations :
        WorksFor(i, l) /\ WorksFor(j, l) => i = j
Claimed ==
    \A l \in LogicalDates \ stalled : \A i \in Invocations :
        WorksFor(i, l) => job[l] = "running" /\ l \notin old
DoneOnce ==
    \A l \in LogicalDates \ stalled : done[l] = IF job[l] = "succeeded" THEN 1 ELSE 0

OneClaim == Alone /\ Claimed /\ DoneOnce

\* Why the clean-up of a run forgets no day that can still be consumed on.
RunsAreRecent == \A i \in Invocations : run[i].at # "idle" => run[i].date <= today + 1
SpendersAreRecent ==
    \A q \in Spenders : spend[q].begun => today - 1 <= spend[q].day
CountsAreKept ==
    \A c \in Counters, d \in Days : today - 1 <= d => used[c][d] = granted[c][d]

QuotaInv == RunsAreRecent /\ SpendersAreRecent /\ CountsAreKept /\ CapHolds

IInv == TypeOK /\ OneClaim /\ StatusIsTrue /\ QuotaInv

-----------------------------------------------------------------------------

LEMMA InitIInv == Init => IInv
  <1> SUFFICES ASSUME Init PROVE IInv
    OBVIOUS
  <1> USE MaintenanceAssumption DEF Days
  <1>1. (CHOOSE l \in LogicalDates : TRUE) \in LogicalDates
    OBVIOUS
  <1>2. (CHOOSE c \in Counters : TRUE) \in Counters
    OBVIOUS
  <1>3. TypeOK
    BY <1>1, <1>2 DEF Init, TypeOK
  <1>4. OneClaim
    BY <1>1 DEF Init, OneClaim, Alone, Claimed, DoneOnce, WorksFor
  <1>5. StatusIsTrue
    BY DEF Init, StatusIsTrue
  <1>6. QuotaInv
    BY DEF Init, QuotaInv, RunsAreRecent, SpendersAreRecent, CountsAreKept, CapHolds
  <1> QED
    BY <1>3, <1>4, <1>5, <1>6 DEF IInv

LEMMA NextTypeOK == TypeOK /\ [Next]_vars => TypeOK'
  <1> SUFFICES ASSUME TypeOK, [Next]_vars PROVE TypeOK'
    OBVIOUS
  <1> USE MaintenanceAssumption DEF TypeOK, Days, jobVars, quotaVars
  <1>1. CASE Midnight
    BY <1>1 DEF Midnight
  <1>2. ASSUME NEW l \in LogicalDates, HourPasses(l) PROVE TypeOK'
    BY <1>2 DEF HourPasses
  <1>3. ASSUME NEW i \in Invocations, NEW l \in LogicalDates, Claim(i, l) PROVE TypeOK'
    BY <1>3 DEF Claim, Enter
  <1>4. ASSUME NEW i \in Invocations, Perform(i) PROVE TypeOK'
    <2>1. used' \in [Counters -> [Days -> 0..Limit]]
      BY <1>4 DEF Perform, DropQuotas
    <2>2. done' \in [LogicalDates -> 0..2]
      BY <1>4 DEF Perform
    <2>3. job' \in [LogicalDates -> {"none", "running", "succeeded", "failed"}]
      BY <1>4 DEF Perform
    <2>4. run' \in [Invocations -> [at: {"idle", "working", "failing"}, date: LogicalDates]]
      BY <1>4 DEF Perform
    <2> QED
      BY <1>4, <2>1, <2>2, <2>3, <2>4 DEF Perform
  <1>5. ASSUME NEW i \in Invocations, PerformRaises(i) \/ RecordFailure(i) \/ CutOff(i)
        PROVE TypeOK'
    <2>1. CASE PerformRaises(i)
      BY <2>1 DEF PerformRaises
    <2>2. CASE RecordFailure(i)
      <3>1. run[i].date \in LogicalDates
        OBVIOUS
      <3>2. job' \in [LogicalDates -> {"none", "running", "succeeded", "failed"}]
        BY <2>2, <3>1 DEF RecordFailure
      <3> DEFINE Run == [at: {"idle", "working", "failing"}, date: LogicalDates]
      <3>3. run \in [Invocations -> Run] /\ run' = [run EXCEPT ![i].at = "idle"]
        BY <2>2 DEF RecordFailure
      <3>4. run' \in [Invocations -> Run]
        <4> HIDE MaintenanceAssumption DEF TypeOK, Days, jobVars, quotaVars
        <4> QED
          BY <3>3
      <3> QED
        BY <2>2, <3>2, <3>4 DEF RecordFailure
    <2>3. CASE CutOff(i)
      BY <2>3 DEF CutOff
    <2> QED
      BY <1>5, <2>1, <2>2, <2>3
  <1>6. ASSUME NEW q \in Spenders, NEW c \in Counters, Begin(q, c) PROVE TypeOK'
    BY <1>6 DEF Begin
  <1>7. ASSUME NEW q \in Spenders, Consume(q) PROVE TypeOK'
    <2> DEFINE c == spend[q].counter
               d == spend[q].day
    <2>1. c \in Counters /\ d \in Days
      OBVIOUS
    <2>2. used' \in [Counters -> [Days -> 0..Limit]]
      <3>1. CASE used[c][d] < Limit
        <4>0. used[c] \in [Days -> 0..Limit] /\ used[c][d] + 1 \in 0..Limit
          <5>1. used[c] \in [Days -> 0..Limit]
            BY <2>1
          <5>2. used[c][d] \in 0..Limit
            BY <2>1, <5>1
          <5>3. Limit \in Nat
            OBVIOUS
          <5> HIDE MaintenanceAssumption DEF c, d, TypeOK
          <5>4. used[c][d] + 1 \in 0..Limit
            BY <3>1, <5>2, <5>3
          <5> QED
            BY <5>1, <5>4
        <4>1. [used[c] EXCEPT ![d] = @ + 1] \in [Days -> 0..Limit]
          BY <2>1, <4>0
        <4>2. used' = [used EXCEPT ![c] = [used[c] EXCEPT ![d] = @ + 1]]
          BY <1>7, <2>1, <3>1 DEF Consume
        <4> HIDE DEF c, d
        <4> QED
          BY <2>1, <4>1, <4>2
      <3> QED
        BY <1>7, <3>1 DEF Consume
    <2>3. granted' \in [Counters -> [Days -> Nat]]
      <3>1. CASE used[c][d] < Limit
        <4>0. granted[c] \in [Days -> Nat]
          BY <2>1
        <4>1. [granted[c] EXCEPT ![d] = @ + 1] \in [Days -> Nat]
          BY <2>1, <4>0
        <4>2. granted' = [granted EXCEPT ![c] = [granted[c] EXCEPT ![d] = @ + 1]]
          BY <1>7, <2>1, <3>1 DEF Consume
        <4> HIDE DEF c, d
        <4> QED
          BY <2>1, <4>1, <4>2
      <3> QED
        BY <1>7, <3>1 DEF Consume
    <2>4. spend' \in [Spenders -> [begun: BOOLEAN, counter: Counters, day: Days]]
      BY <1>7 DEF Consume
    <2> QED
      BY <1>7, <2>2, <2>3, <2>4 DEF Consume
  <1>8. CASE UNCHANGED vars
    BY <1>8 DEF vars
  <1> QED
    BY <1>1, <1>2, <1>3, <1>4, <1>5, <1>6, <1>7, <1>8 DEF Next, JobStep

-----------------------------------------------------------------------------

\* What a step of an invocation does to the runs.
LEMMA Entered ==
    ASSUME TypeOK, NEW i \in Invocations, NEW l \in LogicalDates, Claim(i, l)
    PROVE  /\ run[i].at = "idle"
           /\ run'[i].at = "working" /\ run'[i].date = l
           /\ \A j \in Invocations \ {i} : run'[j] = run[j]
  BY DEF TypeOK, Claim, Enter

LEMMA Left ==
    ASSUME TypeOK, NEW i \in Invocations, Perform(i) \/ RecordFailure(i) \/ CutOff(i)
    PROVE  /\ run[i].at # "idle"
           /\ run'[i].at = "idle"
           /\ \A j \in Invocations \ {i} : run'[j] = run[j]
  <1>1. run' = [run EXCEPT ![i].at = "idle"] /\ run[i].at # "idle"
    BY DEF Perform, RecordFailure, CutOff
  <1> QED
    BY <1>1 DEF TypeOK

LEMMA Stayed ==
    ASSUME TypeOK, NEW i \in Invocations, PerformRaises(i)
    PROVE  /\ run[i].at # "idle"
           /\ run'[i].at # "idle" /\ run'[i].date = run[i].date
           /\ \A j \in Invocations \ {i} : run'[j] = run[j]
  <1>1. run' = [run EXCEPT ![i].at = "failing"] /\ run[i].at = "working"
    BY DEF PerformRaises
  <1> QED
    BY <1>1 DEF TypeOK

\* A date is claimed when nobody works for it, unless a run is at work for it
\* for over an hour; whoever works for it alone decides its status.
LEMMA NextOneClaim == IInv /\ [Next]_vars => OneClaim'
  <1> SUFFICES ASSUME IInv, [Next]_vars PROVE OneClaim'
    OBVIOUS
  <1> USE DEF IInv, TypeOK, OneClaim, Alone, Claimed, DoneOnce, WorksFor
  <1>1. CASE UNCHANGED <<run, job, old, done, stalled>>
    BY <1>1 DEF WorksFor
  <1>2. ASSUME NEW l \in LogicalDates, HourPasses(l) PROVE OneClaim'
    <2>1. stalled \subseteq stalled' /\ run' = run /\ job' = job /\ done' = done
      BY <1>2 DEF HourPasses
    <2>2. l \notin stalled' => \A i \in Invocations : ~WorksFor(i, l)
      BY <1>2 DEF HourPasses, AtWork, WorksFor
    <2> QED
      BY <1>2, <2>1, <2>2 DEF HourPasses, WorksFor
  <1>3. ASSUME NEW i \in Invocations, NEW l \in LogicalDates, Claim(i, l) PROVE OneClaim'
    <2>0. /\ run[i].at = "idle"
          /\ run'[i].at = "working" /\ run'[i].date = l
          /\ \A j \in Invocations \ {i} : run'[j] = run[j]
      BY <1>3, Entered
    <2>1. stalled' = stalled /\ done' = done /\ old' = old \ {l}
      BY <1>3 DEF Claim, Enter
    <2>2. job'[l] = "running" /\ \A m \in LogicalDates \ {l} : job'[m] = job[m]
      BY <1>3 DEF Claim, Enter
    <2>3. job[l] # "succeeded"
      BY <1>3 DEF Claim
    <2>4. l \notin stalled => \A j \in Invocations : ~WorksFor(j, l)
      BY <1>3 DEF Claim
    <2> HIDE DEF TypeOK
    <2>5. Alone'
      BY <2>0, <2>1, <2>4
    <2>6. Claimed'
      BY <2>0, <2>1, <2>2
    <2>7. DoneOnce'
      BY <2>1, <2>2, <2>3
    <2> QED
      BY <2>5, <2>6, <2>7
  <1>4. ASSUME NEW i \in Invocations, Perform(i) \/ RecordFailure(i) \/ CutOff(i)
        PROVE OneClaim'
    <2> DEFINE l == run[i].date
    <2>0. /\ run[i].at # "idle"
          /\ run'[i].at = "idle"
          /\ \A j \in Invocations \ {i} : run'[j] = run[j]
      BY <1>4, Left
    <2>1. l \in LogicalDates /\ WorksFor(i, l)
      BY <2>0
    <2>2. stalled' = stalled /\ old' = old /\ \A m \in LogicalDates \ {l} : job'[m] = job[m] /\ done'[m] = done[m]
      BY <1>4, <2>1 DEF Perform, RecordFailure, CutOff
    <2>3. l \notin stalled => \A j \in Invocations \ {i} : ~WorksFor(j, l)
      BY <2>0, <2>1
    <2>4. l \notin stalled => done'[l] = IF job'[l] = "succeeded" THEN 1 ELSE 0
      <3>1. ASSUME l \notin stalled PROVE job[l] = "running" /\ done[l] = 0
        BY <2>1, <3>1
      <3> QED
        BY <1>4, <2>1, <3>1 DEF Perform, RecordFailure, CutOff
    <2> HIDE DEF l, TypeOK
    <2>5. Alone'
      BY <2>0, <2>2
    <2>6. Claimed'
      BY <2>0, <2>2, <2>3
    <2>7. DoneOnce'
      BY <2>2, <2>4
    <2> QED
      BY <2>5, <2>6, <2>7
  <1>5. ASSUME NEW i \in Invocations, PerformRaises(i) PROVE OneClaim'
    BY <1>5, Stayed DEF PerformRaises
  <1> QED
    BY <1>1, <1>2, <1>3, <1>4, <1>5
    DEF Next, JobStep, Midnight, Begin, Consume, jobVars, vars

\* Work and status are written together, and a run that ends ends its claim.
LEMMA NextStatus == IInv /\ [Next]_vars => StatusIsTrue'
  <1> DEFINE Status ==
        \A l \in LogicalDates :
            /\ job[l] = "succeeded" => done[l] > 0
            /\ job[l] = "running" /\ l \notin cut => \E i \in Invocations : WorksFor(i, l)
  <1>a. StatusIsTrue <=> Status
    BY DEF StatusIsTrue, AtWork, WorksFor
  <1>b. StatusIsTrue' <=> Status'
    BY DEF StatusIsTrue, AtWork, WorksFor
  <1> SUFFICES ASSUME IInv, Status, [Next]_vars PROVE Status'
    BY <1>a, <1>b DEF IInv
  <1> USE DEF IInv, TypeOK, WorksFor
  <1>1. CASE UNCHANGED <<run, job, done, cut>>
    BY <1>1 DEF WorksFor
  <1>2. ASSUME NEW i \in Invocations, NEW l \in LogicalDates, Claim(i, l) PROVE Status'
    <2>1. job'[l] = "running" /\ done' = done /\ cut' = cut
            /\ \A m \in LogicalDates \ {l} : job'[m] = job[m]
      BY <1>2 DEF Claim, Enter
    <2>2. /\ run'[i].at = "working" /\ run'[i].date = l
          /\ run[i].at = "idle"
          /\ \A j \in Invocations \ {i} : run'[j] = run[j]
      BY <1>2, Entered
    <2> HIDE DEF TypeOK
    <2> QED
      BY <2>1, <2>2
  <1>3. ASSUME NEW i \in Invocations, Perform(i) \/ RecordFailure(i) \/ CutOff(i) PROVE Status'
    <2> DEFINE l == run[i].date
    <2>1. l \in LogicalDates
      OBVIOUS
    <2>2. \A m \in LogicalDates \ {l} : job'[m] = job[m] /\ done'[m] = done[m]
      BY <1>3, <2>1 DEF Perform, RecordFailure, CutOff
    <2>3. job'[l] = "succeeded" => done'[l] > 0
      BY <1>3, <2>1 DEF Perform, RecordFailure, CutOff
    <2>4. job'[l] = "running" => l \in cut'
      BY <1>3, <2>1 DEF Perform, RecordFailure, CutOff
    <2>0. /\ run[i].at # "idle"
          /\ run'[i].at = "idle"
          /\ \A j \in Invocations \ {i} : run'[j] = run[j]
      BY <1>3, Left
    <2>5. cut \subseteq cut'
      BY <1>3 DEF Perform, RecordFailure, CutOff
    <2>6. \A m \in LogicalDates \ {l} : ~WorksFor(i, m)
      BY DEF WorksFor
    <2> HIDE DEF l, TypeOK
    <2> QED
      BY <2>0, <2>2, <2>3, <2>4, <2>5, <2>6
  <1>4. ASSUME NEW i \in Invocations, PerformRaises(i) PROVE Status'
    BY <1>4, Stayed DEF PerformRaises
  <1> QED
    BY <1>1, <1>2, <1>3, <1>4
    DEF Next, JobStep, Midnight, HourPasses, Begin, Consume, jobVars, vars

\* Dates, days and limits are numbers.
LEMMA Numbers ==
    ASSUME TypeOK
    PROVE  /\ today \in Nat /\ Limit \in Nat
           /\ \A i \in Invocations : run[i].date \in Nat
           /\ \A q \in Spenders : spend[q].day \in Nat
           /\ \A d \in Days : d \in Nat
           /\ \A c \in Counters, d \in Days : used[c][d] \in Nat /\ granted[c][d] \in Nat
  <1>1. \A l \in LogicalDates : l \in Nat
    BY MaintenanceAssumption
  <1>2. \A d \in Days : d \in Nat
    BY MaintenanceAssumption DEF Days
  <1> QED
    <2>1. today \in Nat /\ Limit \in Nat /\ \A i \in Invocations : run[i].date \in Nat
      BY <1>1, <1>2, MaintenanceAssumption DEF TypeOK
    <2>2. \A q \in Spenders : spend[q].day \in Nat
      BY <1>2 DEF TypeOK
    <2>3. \A c \in Counters, d \in Days : used[c][d] \in Nat /\ granted[c][d] \in Nat
      BY MaintenanceAssumption DEF TypeOK
    <2> QED
      BY <1>2, <2>1, <2>2, <2>3

\* A granted consumption counts one in its counter and day, and nowhere else.
LEMMA Counted ==
    ASSUME NEW f \in [Counters -> [Days -> Nat]], NEW c \in Counters, NEW d \in Days,
           NEW g, g = [f EXCEPT ![c][d] = @ + 1]
    PROVE  /\ g[c][d] = f[c][d] + 1
           /\ \A e \in Counters, t \in Days : e # c \/ t # d => g[e][t] = f[e][t]
  <1>1. g = [f EXCEPT ![c] = [f[c] EXCEPT ![d] = @ + 1]]
    OBVIOUS
  <1>2. g[c] = [f[c] EXCEPT ![d] = @ + 1] /\ \A e \in Counters \ {c} : g[e] = f[e]
    BY <1>1
  <1>3. f[c] \in [Days -> Nat]
    OBVIOUS
  <1>4. g[c][d] = f[c][d] + 1 /\ \A t \in Days \ {d} : g[c][t] = f[c][t]
    BY <1>2, <1>3
  <1> QED
    BY <1>2, <1>4

\* The clean-up of a run reaches back behind yesterday, a consumption does not.
LEMMA NextQuota == IInv /\ [Next]_vars => QuotaInv'
  <1> SUFFICES ASSUME IInv, [Next]_vars PROVE QuotaInv'
    OBVIOUS
  <1> USE DEF IInv, QuotaInv, RunsAreRecent, SpendersAreRecent, CountsAreKept, CapHolds
  <1>1. CASE Midnight
    <2>1. today \in Nat /\ today' = today + 1 /\ UNCHANGED <<run, used, granted, spend>>
      BY <1>1, Numbers DEF Midnight, jobVars, quotaVars
    <2>2. RunsAreRecent'
      BY <2>1, Numbers
    <2>3. SpendersAreRecent'
      BY <1>1, <2>1 DEF Midnight
    <2>4. CountsAreKept' /\ CapHolds'
      BY <2>1, Numbers
    <2> QED
      BY <2>2, <2>3, <2>4
  <1>2. ASSUME NEW l \in LogicalDates, HourPasses(l) PROVE QuotaInv'
    BY <1>2 DEF HourPasses, quotaVars
  <1>3. ASSUME NEW i \in Invocations, NEW l \in LogicalDates, Claim(i, l) PROVE QuotaInv'
    <2>1. RunsAreRecent'
      BY <1>3, Entered, Numbers DEF Claim, Enter
    <2> QED
      BY <1>3, <2>1 DEF Claim, Enter, quotaVars
  <1>4. ASSUME NEW i \in Invocations, Perform(i) PROVE QuotaInv'
    <2>1. run[i].date <= today + 1 /\ run[i].date \in Nat /\ today \in Nat
      BY <1>4, Numbers DEF Perform
    <2>2. RunsAreRecent'
      BY <1>4, Left DEF Perform
    <2>3. \A c \in Counters, d \in Days : today - 1 <= d => used'[c][d] = used[c][d]
      BY <1>4, <2>1, Numbers DEF Perform, DropQuotas
    <2>4. CountsAreKept'
      <3>1. today' = today /\ granted' = granted
        BY <1>4 DEF Perform
      <3> QED
        BY <2>1, <2>3, <3>1
    <2> QED
      BY <1>4, <2>2, <2>4 DEF Perform
  <1>5. ASSUME NEW i \in Invocations, PerformRaises(i) \/ RecordFailure(i) \/ CutOff(i)
        PROVE QuotaInv'
    <2>1. RunsAreRecent'
      BY <1>5, Left, Stayed DEF PerformRaises, RecordFailure, CutOff
    <2> QED
      BY <1>5, <2>1 DEF PerformRaises, RecordFailure, CutOff, quotaVars
  <1>6. ASSUME NEW q \in Spenders, NEW c \in Counters, Begin(q, c) PROVE QuotaInv'
    <2>1. today \in Nat /\ today' = today
      BY <1>6, Numbers DEF Begin
    <2>2. spend'[q].day = today /\ \A p \in Spenders \ {q} : spend'[p] = spend[p]
      BY <1>6 DEF Begin, TypeOK
    <2>3. SpendersAreRecent'
      BY <2>1, <2>2
    <2> QED
      BY <1>6, <2>3 DEF Begin, jobVars
  <1>7. ASSUME NEW q \in Spenders, Consume(q) PROVE QuotaInv'
    <2> DEFINE c == spend[q].counter
               d == spend[q].day
    <2>1. c \in Counters /\ d \in Days /\ today - 1 <= d
      BY <1>7 DEF Consume, TypeOK
    <2>2. RunsAreRecent' /\ SpendersAreRecent'
      BY <1>7 DEF Consume, jobVars, TypeOK
    <2>3. CASE used[c][d] < Limit
      <3>0. used' = [used EXCEPT ![c][d] = @ + 1] /\ granted' = [granted EXCEPT ![c][d] = @ + 1]
        BY <1>7, <2>3 DEF Consume
      <3>u. used \in [Counters -> [Days -> Nat]] /\ granted \in [Counters -> [Days -> Nat]]
        BY MaintenanceAssumption DEF TypeOK
      <3>1. \A e \in Counters, f \in Days :
              e # c \/ f # d => used'[e][f] = used[e][f] /\ granted'[e][f] = granted[e][f]
        BY <2>1, <3>0, <3>u, Counted
      <3>2. used'[c][d] = used[c][d] + 1 /\ granted'[c][d] = granted[c][d] + 1
        BY <2>1, <3>0, <3>u, Counted
      <3>3. granted[c][d] = used[c][d] /\ used[c][d] \in Nat /\ Limit \in Nat
        BY <2>1, Numbers
      <3>4. today' = today
        BY <1>7 DEF Consume
      <3> HIDE DEF c, d
      <3>5. CountsAreKept'
        <4>1. SUFFICES ASSUME NEW e \in Counters, NEW f \in Days, today - 1 <= f
                       PROVE  used'[e][f] = granted'[e][f]
          BY <3>4
        <4> QED
          BY <3>1, <3>2, <3>3, <4>1
      <3>6. CapHolds'
        <4>1. SUFFICES ASSUME NEW e \in Counters, NEW f \in Days
                       PROVE  granted'[e][f] <= Limit
          OBVIOUS
        <4> QED
          BY <2>3, <3>1, <3>2, <3>3, <4>1
      <3> QED
        BY <2>2, <3>5, <3>6
    <2>4. CASE ~(used[c][d] < Limit)
      BY <1>7, <2>2, <2>4 DEF Consume
    <2> QED
      BY <2>3, <2>4
  <1>8. CASE UNCHANGED vars
    BY <1>8 DEF vars, jobVars, quotaVars
  <1> QED
    BY <1>1, <1>2, <1>3, <1>4, <1>5, <1>6, <1>7, <1>8 DEF Next, JobStep

THEOREM Invariance == Spec => []IInv
  <1>1. IInv /\ [Next]_vars => IInv'
    BY NextTypeOK, NextOneClaim, NextStatus, NextQuota DEF IInv
  <1> QED
    BY InitIInv, <1>1, PTL DEF Spec

-----------------------------------------------------------------------------

(* Rows, runs and counters keep their types: used_units stays within the   *)
(* limit, as its CHECK constraint demands of any code.                     *)
THEOREM TypeCorrect == Spec => []TypeOK
  BY Invariance, PTL DEF IInv

(* For any number of invocations: the work of a date is in one hand and    *)
(* done once, as long as no run is at work for over an hour.               *)
THEOREM OneHand == Spec => []OneWorker
  <1>1. IInv => OneWorker
    <2> SUFFICES ASSUME IInv, NEW l \in LogicalDates \ stalled
                 PROVE  Cardinality(AtWork(l)) <= 1 /\ done[l] <= 1
      BY DEF OneWorker
    <2>1. done[l] <= 1
      BY DEF IInv, OneClaim, DoneOnce
    <2>2. CASE AtWork(l) = {}
      BY <2>1, <2>2, FS_EmptySet
    <2>3. ASSUME NEW i \in AtWork(l) PROVE Cardinality(AtWork(l)) <= 1
      <3>1. AtWork(l) = {i} /\ Cardinality({i}) = 1
        <4>1. AtWork(l) = {i}
          BY <2>3 DEF IInv, OneClaim, Alone, WorksFor, AtWork
        <4> QED
          BY <4>1, FS_Singleton
      <3> QED
        BY <3>1
    <2> QED
      BY <2>1, <2>2, <2>3
  <1> QED
    BY Invariance, <1>1, PTL

(* For any interleaving of claims, work, failures and crashes: a date that *)
(* succeeded was worked for, and one that runs has its run, or had a crash.*)
THEOREM StatusHolds == Spec => []StatusIsTrue
  BY Invariance, PTL DEF IInv

(* For any number of consuming requests and days, and a clean-up at any    *)
(* moment: no counter grants more than its limit on a day.                 *)
THEOREM CapStands == Spec => []CapHolds
  BY Invariance, PTL DEF IInv, QuotaInv
=============================================================================
