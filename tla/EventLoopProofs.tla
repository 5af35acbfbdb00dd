--------------------------- MODULE EventLoopProofs ---------------------------
(***************************************************************************)
(* For any requests, owners and size of the pool: the pool is not exceeded *)
(* and every request gives back what it held, and the connection row keeps *)
(* the syncs of an owner apart.  That requests end is left to TLC.         *)
(***************************************************************************)
EXTENDS EventLoop, FiniteSetTheorems, TLAPS

PoolFits == IsFiniteSet(pool) /\ Cardinality(pool) <= PoolSize

\* Where a request is that holds a pooled connection.
PoolHeld ==
    \A r \in pool :
        \/ at[r] \in {"entered", "handler", "row_wait", "rec_wait", "returned", "leave"}
        \/ at[r] = "provider" /\ Kind(r) = "sync"

\* Where a request is that holds a row lock, and that it holds it of its owner.
Holding == {"provider", "rec_wait", "returned", "leave"}
RowHeld ==
    \A o \in Owners : \A r \in rowLock[o] :
        Owner(r) = o /\ Kind(r) = "sync" /\ at[r] \in Holding
RecordHeld ==
    \A o \in Owners : \A r \in recLock[o] : Owner(r) = o /\ at[r] \in {"returned", "leave"}

\* The row is held by one at most, and by every sync that is at work.
RowExclusive == \A o \in Owners : \A r, q \in rowLock[o] : r = q
SyncsHold == \A r \in Requests : AtWork(r) => r \in rowLock[Owner(r)]
DeletesHandled == \A r \in Requests : at[r] = "handler" => Kind(r) = "delete"

Locks == RowHeld /\ RecordHeld /\ RowExclusive /\ SyncsHold /\ DeletesHandled

IInv == TypeOK /\ PoolFits /\ PoolHeld /\ Locks

-----------------------------------------------------------------------------

LEMMA InitIInv == Init => IInv
  <1> SUFFICES ASSUME Init PROVE IInv
    OBVIOUS
  <1>1. TypeOK
    BY DEF Init, TypeOK, Points
  <1>2. PoolFits
    BY FS_EmptySet, EventLoopAssumption DEF Init, PoolFits
  <1>3. PoolHeld /\ Locks
    BY DEF Init, PoolHeld, Locks, RowHeld, RecordHeld, RowExclusive, SyncsHold,
           DeletesHandled, Holding, AtWork
  <1> QED
    BY <1>1, <1>2, <1>3 DEF IInv

\* Taking and dropping a lock concern the lock of the request's owner only.
LEMMA TakeRow ==
    ASSUME TypeOK, NEW r \in Requests
    PROVE  /\ Take(rowLock, r) \in [Owners -> SUBSET Requests]
           /\ Take(rowLock, r)[Owner(r)] = {r}
           /\ \A o \in Owners : o # Owner(r) => Take(rowLock, r)[o] = rowLock[o]
  <1>1. Owner(r) \in Owners
    BY DEF TypeOK, Owner
  <1> QED
    BY <1>1 DEF Take, TypeOK

LEMMA TakeRecord ==
    ASSUME TypeOK, NEW r \in Requests
    PROVE  /\ Take(recLock, r) \in [Owners -> SUBSET Requests]
           /\ Take(recLock, r)[Owner(r)] = {r}
           /\ \A o \in Owners : o # Owner(r) => Take(recLock, r)[o] = recLock[o]
  <1>1. Owner(r) \in Owners
    BY DEF TypeOK, Owner
  <1> QED
    BY <1>1 DEF Take, TypeOK

LEMMA DropRow ==
    ASSUME TypeOK, NEW r \in Requests
    PROVE  /\ Drop(rowLock, r) \in [Owners -> SUBSET Requests]
           /\ Drop(rowLock, r)[Owner(r)] = rowLock[Owner(r)] \ {r}
           /\ \A o \in Owners : o # Owner(r) => Drop(rowLock, r)[o] = rowLock[o]
  <1>1. Owner(r) \in Owners
    BY DEF TypeOK, Owner
  <1> QED
    BY <1>1 DEF Drop, TypeOK

LEMMA DropRecord ==
    ASSUME TypeOK, NEW r \in Requests
    PROVE  /\ Drop(recLock, r) \in [Owners -> SUBSET Requests]
           /\ Drop(recLock, r)[Owner(r)] = recLock[Owner(r)] \ {r}
           /\ \A o \in Owners : o # Owner(r) => Drop(recLock, r)[o] = recLock[o]
  <1>1. Owner(r) \in Owners
    BY DEF TypeOK, Owner
  <1> QED
    BY <1>1 DEF Drop, TypeOK

LEMMA NextTypeOK == TypeOK /\ [Next]_vars => TypeOK'
  <1> SUFFICES ASSUME TypeOK, [Next]_vars PROVE TypeOK'
    OBVIOUS
  <1> USE DEF TypeOK, Points, Move
  <1>1. ASSUME NEW r \in Requests, Step(r) PROVE TypeOK'
    <2>1. request' = request
      BY <1>1 DEF Step
    <2>2. CASE \/ Dispatch(r) \/ Refused(r) \/ Enter(r) \/ EnterTimeout(r)
               \/ StartHandler(r) \/ DeleteRaises(r) \/ SyncRefused(r) \/ ProviderRaises(r)
      BY <2>1, <2>2
      DEF Dispatch, Refused, Enter, EnterTimeout, StartHandler, DeleteRaises, SyncRefused,
          ProviderRaises
    <2>3. CASE DeleteShift(r)
      BY <2>1, <2>3, TakeRecord DEF DeleteShift
    <2>4. CASE MarkRecord(r)
      <3>1. recLock' \in [Owners -> SUBSET Requests]
        BY <2>4, TakeRecord DEF MarkRecord
      <3> QED
        BY <2>1, <2>4, <3>1 DEF MarkRecord
    <2>5. CASE RecordGranted(r)
      BY <2>1, <2>5, TakeRecord DEF RecordGranted
    <2>6. CASE LockRow(r)
      <3>1. rowLock' \in [Owners -> SUBSET Requests]
        BY <2>6, TakeRow DEF LockRow
      <3> QED
        BY <2>1, <2>6, <3>1 DEF LockRow, Locked
    <2>7. CASE RowGranted(r)
      BY <2>1, <2>7, TakeRow DEF RowGranted, Locked
    <2>8. CASE SaveConnection(r) \/ PoolGranted(r) \/ PoolTimeout(r)
      BY <2>1, <2>8 DEF SaveConnection, PoolGranted, PoolTimeout
    <2>9. CASE Return(r)
      BY <2>1, <2>9 DEF Return
    <2>10. CASE Leave(r)
      BY <2>1, <2>10, DropRow, DropRecord DEF Leave
    <2> QED
      BY <1>1, <2>2, <2>3, <2>4, <2>5, <2>6, <2>7, <2>8, <2>9, <2>10 DEF Step
  <1>2. CASE UNCHANGED vars
    BY <1>2 DEF vars
  <1> QED
    BY <1>1, <1>2 DEF Next

\* A connection is taken only when one is free.
LEMMA NextPoolFits == IInv /\ [Next]_vars => PoolFits'
  <1> SUFFICES ASSUME IInv, [Next]_vars PROVE PoolFits'
    OBVIOUS
  <1> USE DEF IInv, TypeOK, PoolFits
  <1>1. CASE pool' = pool
    BY <1>1
  <1>2. ASSUME NEW r \in Requests, pool' = pool \cup {r}, Cardinality(pool) < PoolSize
        PROVE  PoolFits'
    <2>1. IsFiniteSet(pool \cup {r})
      BY FS_AddElement
    <2>2. Cardinality(pool \cup {r}) = Cardinality(pool)
            \/ Cardinality(pool \cup {r}) = Cardinality(pool) + 1
      BY FS_AddElement
    <2>3. Cardinality(pool) \in Nat
      BY FS_CardinalityType
    <2> QED
      BY <1>2, <2>1, <2>2, <2>3, EventLoopAssumption
  <1>3. ASSUME NEW r \in Requests, pool' = pool \ {r} PROVE PoolFits'
    <2>1. IsFiniteSet(pool') /\ Cardinality(pool') <= Cardinality(pool)
      BY <1>3, FS_Subset
    <2>2. Cardinality(pool) \in Nat /\ Cardinality(pool') \in Nat
      BY <2>1, FS_CardinalityType
    <2> QED
      BY <2>1, <2>2, EventLoopAssumption
  <1> QED
    BY <1>1, <1>2, <1>3
    DEF Next, Step, Dispatch, Refused, Enter, EnterTimeout, StartHandler, DeleteShift,
        DeleteRaises, SyncRefused, LockRow, RowGranted, ProviderRaises, MarkRecord,
        RecordGranted, SaveConnection, PoolGranted, PoolTimeout, Return, Leave, vars

\* A request that leaves the points where it may hold a connection drops it.
LEMMA NextPoolHeld == IInv /\ [Next]_vars => PoolHeld'
  <1> SUFFICES ASSUME IInv, [Next]_vars PROVE PoolHeld'
    OBVIOUS
  <1> USE DEF IInv, TypeOK, PoolHeld, Move, Kind, Owner
  <1>1. ASSUME NEW r \in Requests, Step(r) PROVE PoolHeld'
    <2>1. request' = request
      BY <1>1 DEF Step
    <2>2. CASE \/ Dispatch(r) \/ Refused(r) \/ Enter(r) \/ EnterTimeout(r)
               \/ StartHandler(r) \/ DeleteRaises(r) \/ SyncRefused(r) \/ ProviderRaises(r)
      BY <2>1, <2>2
      DEF Dispatch, Refused, Enter, EnterTimeout, StartHandler, DeleteRaises, SyncRefused,
          ProviderRaises
    <2>3. CASE DeleteShift(r) \/ MarkRecord(r) \/ RecordGranted(r)
      BY <2>1, <2>3 DEF DeleteShift, MarkRecord, RecordGranted
    <2>4. CASE LockRow(r) \/ RowGranted(r)
      BY <2>1, <2>4 DEF LockRow, RowGranted, Locked
    <2>5. CASE SaveConnection(r) \/ PoolGranted(r) \/ PoolTimeout(r)
      BY <2>1, <2>5 DEF SaveConnection, PoolGranted, PoolTimeout
    <2>6. CASE Return(r) \/ Leave(r)
      BY <2>1, <2>6 DEF Return, Leave
    <2> QED
      BY <1>1, <2>2, <2>3, <2>4, <2>5, <2>6 DEF Step
  <1>2. CASE UNCHANGED vars
    BY <1>2 DEF vars
  <1> QED
    BY <1>1, <1>2 DEF Next

\* A sync that takes the row, or a request that goes on without it.
LEMMA RowTaken ==
    ASSUME TypeOK, RowHeld, RowExclusive, SyncsHold, NEW r \in Requests,
           \A q \in Requests : Owner(q) \in Owners /\ Owner(q)' = Owner(q) /\ Kind(q)' = Kind(q),
           at[r] \in {"entered", "row_wait"},
           \A q \in Requests \ {r} : at'[q] = at[q],
           recLock' = recLock, \A o \in Owners : r \notin recLock[o],
           \/ at'[r] \in {"provider", "returned"} /\ rowLock[Owner(r)] \subseteq {r}
                                 /\ rowLock' = Take(rowLock, r) /\ Kind(r) = "sync"
           \/ at'[r] \in {"row_wait", "done"} /\ rowLock' = rowLock
    PROVE  RowHeld' /\ RowExclusive' /\ SyncsHold'
  <1> USE DEF TypeOK, RowHeld, RowExclusive, SyncsHold, Holding, AtWork
  <1>1. CASE at'[r] \in {"provider", "returned"} /\ rowLock[Owner(r)] \subseteq {r}
                                 /\ rowLock' = Take(rowLock, r) /\ Kind(r) = "sync"
    <2>1. rowLock'[Owner(r)] = {r}
      BY <1>1, TakeRow
    <2>2. \A o \in Owners \ {Owner(r)} : rowLock'[o] = rowLock[o]
      BY <1>1, TakeRow
    <2>3. \A o \in Owners : r \notin rowLock[o]
      OBVIOUS
    <2>4. RowHeld' /\ RowExclusive'
      BY <1>1, <2>1, <2>2, <2>3
    <2>5. SyncsHold'
      BY <1>1, <2>1, <2>2, <2>3
    <2> QED
      BY <2>4, <2>5
  <1>2. CASE at'[r] \in {"row_wait", "done"} /\ rowLock' = rowLock
    BY <1>2
  <1> QED
    BY <1>1, <1>2

\* A request that goes on without taking or dropping a lock.
LEMMA LocksRest ==
    ASSUME TypeOK, Locks, NEW r \in Requests,
           UNCHANGED <<request, rowLock, recLock>>,
           \A q \in Requests \ {r} : at'[q] = at[q],
           at[r] \in Holding /\ Kind(r) = "sync" => at'[r] \in Holding,
           at[r] \in {"returned", "leave"} => at'[r] \in {"returned", "leave"},
           Kind(r) = "sync" => at'[r] \notin {"provider", "rec_wait"},
           at'[r] = "handler" => Kind(r) = "delete"
    PROVE  Locks'
  <1>1. \A q \in Requests : Owner(q) \in Owners /\ Owner(q)' = Owner(q) /\ Kind(q)' = Kind(q)
    BY DEF Owner, Kind, TypeOK
  <1>2. RowHeld' /\ RowExclusive'
    BY <1>1 DEF Locks, RowHeld, RowExclusive, TypeOK
  <1>3. RecordHeld'
    BY <1>1 DEF Locks, RecordHeld, TypeOK
  <1>4. SyncsHold'
    <2> SUFFICES ASSUME NEW q \in Requests, AtWork(q)' PROVE q \in rowLock[Owner(q)]
      BY <1>1 DEF SyncsHold
    <2>1. AtWork(q)
      BY <1>1 DEF AtWork
    <2> QED
      BY <2>1 DEF Locks, SyncsHold
  <1>5. DeletesHandled'
    BY <1>1 DEF Locks, DeletesHandled
  <1> QED
    BY <1>2, <1>3, <1>4, <1>5 DEF Locks

\* A lock is taken only when nobody else has it, and dropped with the commit.
LEMMA NextLocks == IInv /\ [Next]_vars => Locks'
  <1> SUFFICES ASSUME IInv, [Next]_vars PROVE Locks'
    OBVIOUS
  <1> USE DEF IInv, TypeOK, Locks, RowHeld, RecordHeld, RowExclusive, SyncsHold,
              DeletesHandled, Holding, Move
  <1>1. ASSUME NEW r \in Requests, Step(r) PROVE Locks'
    <2>1. request' = request
      BY <1>1 DEF Step
    <2>4. \A q \in Requests : Owner(q) \in Owners /\ Owner(q)' = Owner(q) /\ Kind(q)' = Kind(q)
      BY <2>1 DEF Owner, Kind
    <2>5. CASE \/ Dispatch(r) \/ Refused(r) \/ Enter(r) \/ EnterTimeout(r)
               \/ StartHandler(r) \/ DeleteRaises(r) \/ SyncRefused(r) \/ ProviderRaises(r)
               \/ SaveConnection(r) \/ PoolGranted(r) \/ PoolTimeout(r) \/ Return(r)
      <3>1. /\ UNCHANGED <<request, rowLock, recLock>>
            /\ \A q \in Requests \ {r} : at'[q] = at[q]
            /\ \/ at[r] = "new" /\ at'[r] \in {"enter", "done"}
               \/ at[r] = "new" /\ at'[r] = "provider" /\ Kind(r) = "callback"
               \/ at[r] = "enter" /\ at'[r] \in {"entered", "done"}
               \/ at[r] = "entered" /\ at'[r] = "handler" /\ Kind(r) = "delete"
               \/ at[r] \in {"handler", "entered", "provider"} /\ at'[r] = "returned"
               \/ at[r] = "provider" /\ Kind(r) # "sync"
                     /\ at'[r] \in {"done", "pool_wait", "row_wait"}
               \/ at[r] = "pool_wait" /\ at'[r] \in {"done", "row_wait"}
               \/ at[r] = "returned" /\ at'[r] = "leave"
        BY <2>1, <2>5
        DEF Dispatch, Refused, Enter, EnterTimeout, StartHandler, DeleteRaises, SyncRefused,
            ProviderRaises, SaveConnection, PoolGranted, PoolTimeout, Return
      <3> HIDE DEF Locks, RowHeld, RecordHeld, RowExclusive, SyncsHold, DeletesHandled
      <3> QED
        BY <3>1, LocksRest
    <2>10. CASE DeleteShift(r)
      <3>1. /\ at[r] = "handler" /\ at'[r] = "returned" /\ Kind(r) = "delete"
            /\ \A q \in Requests \ {r} : at'[q] = at[q]
            /\ rowLock' = rowLock
            /\ recLock'[Owner(r)] = {r}
            /\ \A o \in Owners \ {Owner(r)} : recLock'[o] = recLock[o]
        BY <2>10, TakeRecord DEF DeleteShift
      <3>2. RowHeld' /\ RowExclusive' /\ DeletesHandled'
        BY <2>4, <3>1
      <3>3. RecordHeld'
        BY <2>4, <3>1
      <3>4. SyncsHold'
        BY <2>4, <3>1 DEF AtWork
      <3> QED
        BY <3>2, <3>3, <3>4
    <2>11. CASE MarkRecord(r)
      <3>1. /\ at[r] = "provider" /\ at'[r] \in {"returned", "rec_wait"}
            /\ \A q \in Requests \ {r} : at'[q] = at[q]
            /\ rowLock' = rowLock /\ Kind(r) = "sync"
        BY <2>11 DEF MarkRecord
      <3>2. \A o \in Owners : \A q \in recLock'[o] :
                q \in recLock[o] \/ (q = r /\ o = Owner(r) /\ at'[r] = "returned")
        BY <2>11, TakeRecord DEF MarkRecord
      <3>3. \A o \in Owners : r \notin recLock[o]
        BY <3>1
      <3>4. RowHeld' /\ RowExclusive'
        BY <2>4, <3>1
      <3>5. RecordHeld'
        BY <2>4, <3>1, <3>2, <3>3
      <3>6. SyncsHold'
        <4>1. r \in rowLock[Owner(r)]
          BY <3>1 DEF AtWork
        <4>2. ASSUME NEW q \in Requests \ {r}, AtWork(q)' PROVE AtWork(q)
          BY <2>4, <3>1, <3>2, <4>2 DEF AtWork
        <4> QED
          BY <2>4, <3>1, <4>1, <4>2
      <3>7. DeletesHandled'
        BY <2>4, <3>1
      <3> QED
        BY <3>4, <3>5, <3>6, <3>7
    <2>12. CASE RecordGranted(r)
      <3>1. /\ at[r] = "rec_wait" /\ at'[r] = "returned"
            /\ \A q \in Requests \ {r} : at'[q] = at[q]
            /\ rowLock' = rowLock
            /\ recLock'[Owner(r)] = {r}
            /\ \A o \in Owners \ {Owner(r)} : recLock'[o] = recLock[o]
        BY <2>12, TakeRecord DEF RecordGranted
      <3>5. \A o \in Owners : r \notin recLock[o]
        BY <3>1 DEF RecordHeld
      <3>6. \A o \in Owners : \A q \in recLock'[o] :
                q \in recLock[o] \/ (q = r /\ o = Owner(r))
        BY <2>4, <3>1
      <3>2. RowHeld'
        <4> SUFFICES ASSUME NEW o \in Owners, NEW q \in rowLock[o]
                     PROVE  Owner(q) = o /\ Kind(q) = "sync" /\ at'[q] \in Holding
          BY <2>4, <3>1
        <4>1. q \in Requests
          OBVIOUS
        <4> QED
          BY <3>1, <4>1
      <3>8. RowExclusive'
        BY <3>1
      <3>7. DeletesHandled'
        BY <2>4, <3>1
      <3>3. RecordHeld'
        BY <2>4, <3>1, <3>5, <3>6
      <3>4. SyncsHold'
        <4>1. Kind(r) = "sync" => r \in rowLock[Owner(r)]
          BY <3>1 DEF AtWork
        <4>2. ASSUME NEW q \in Requests \ {r}, AtWork(q)' PROVE AtWork(q)
          BY <2>4, <3>1, <4>2 DEF AtWork
        <4>3. AtWork(r)' => Kind(r) = "sync"
          BY <2>4 DEF AtWork
        <4> QED
          BY <2>4, <3>1, <4>1, <4>2, <4>3
      <3> QED
        BY <3>2, <3>3, <3>4, <3>7, <3>8
    <2>13. CASE LockRow(r)
      <3>1. /\ at[r] = "entered" /\ at'[r] \in {"provider", "returned", "row_wait"}
            /\ \A q \in Requests \ {r} : at'[q] = at[q]
            /\ recLock' = recLock /\ Kind(r) = "sync"
        BY <2>13 DEF LockRow, Locked
      <3>5. \A o \in Owners : r \notin recLock[o]
        BY <3>1
      <3>2. \/ at'[r] \in {"provider", "returned"} /\ rowLock[Owner(r)] \subseteq {r}
                                  /\ rowLock' = Take(rowLock, r)
            \/ at'[r] = "row_wait" /\ rowLock' = rowLock
        BY <2>13 DEF LockRow, Locked, Free
      <3> HIDE DEF Locks, RowHeld, RowExclusive, SyncsHold, DeletesHandled, RecordHeld
      <3>3. RowHeld' /\ RowExclusive' /\ SyncsHold'
        BY <3>1, <3>2, <3>5, <2>4, RowTaken DEF Locks
      <3>4. RecordHeld' /\ DeletesHandled'
        BY <2>4, <3>1 DEF Locks, RecordHeld, DeletesHandled
      <3> QED
        BY <3>3, <3>4 DEF Locks
    <2>14. CASE RowGranted(r)
      <3>1. /\ at[r] = "row_wait" /\ at'[r] \in {"provider", "returned", "done"}
            /\ \A q \in Requests \ {r} : at'[q] = at[q]
            /\ recLock' = recLock
        BY <2>14 DEF RowGranted, Locked
      <3>5. \A o \in Owners : r \notin recLock[o]
        BY <3>1
      <3>2. \/ at'[r] \in {"provider", "returned"} /\ rowLock[Owner(r)] \subseteq {r}
                                  /\ rowLock' = Take(rowLock, r) /\ Kind(r) = "sync"
            \/ at'[r] = "done" /\ rowLock' = rowLock
        BY <2>14 DEF RowGranted, Locked, Free
      <3> HIDE DEF Locks, RowHeld, RowExclusive, SyncsHold, DeletesHandled, RecordHeld
      <3>3. RowHeld' /\ RowExclusive' /\ SyncsHold'
        BY <3>1, <3>2, <3>5, <2>4, RowTaken DEF Locks
      <3>4. RecordHeld' /\ DeletesHandled'
        BY <2>4, <3>1 DEF Locks, RecordHeld, DeletesHandled
      <3> QED
        BY <3>3, <3>4 DEF Locks
    <2>18. CASE Leave(r)
      <3>1. /\ at[r] = "leave" /\ at'[r] = "done"
            /\ \A q \in Requests \ {r} : at'[q] = at[q]
        BY <2>18 DEF Leave
      <3>2. \A o \in Owners : rowLock'[o] = rowLock[o] \ {r}
        BY <2>18, DropRow DEF Leave
      <3>3. \A o \in Owners : recLock'[o] = recLock[o] \ {r}
        BY <2>18, DropRecord DEF Leave
      <3>4. RowHeld' /\ RowExclusive'
        BY <2>4, <3>1, <3>2
      <3>5. RecordHeld'
        BY <2>4, <3>1, <3>3
      <3>6. SyncsHold'
        <4>1. ~AtWork(r)'
          BY <2>4, <3>1, <3>3 DEF AtWork
        <4>2. ASSUME NEW q \in Requests \ {r}, AtWork(q)' PROVE AtWork(q)
          BY <2>4, <3>1, <3>3, <4>2 DEF AtWork
        <4> QED
          BY <2>4, <3>2, <4>1, <4>2
      <3>7. DeletesHandled'
        BY <2>4, <3>1
      <3> QED
        BY <3>4, <3>5, <3>6, <3>7
    <2> QED
      BY <1>1, <2>5, <2>10, <2>11, <2>12, <2>13, <2>14, <2>18 DEF Step
  <1>2. CASE UNCHANGED vars
    BY <1>2 DEF vars, Kind, Owner, AtWork
  <1> QED
    BY <1>1, <1>2 DEF Next

THEOREM Invariance == Spec => []IInv
  <1>1. IInv /\ [Next]_vars => IInv'
    BY NextTypeOK, NextPoolFits, NextPoolHeld, NextLocks DEF IInv
  <1> QED
    BY InitIInv, <1>1, PTL DEF Spec

-----------------------------------------------------------------------------

(* The points, the locks and the pool keep their types.                    *)
THEOREM TypeCorrect == Spec => []TypeOK
  BY Invariance, PTL DEF IInv

(* For any number of requests and any pool: the pool is never exceeded,    *)
(* and a request that is done holds no connection and no lock.             *)
THEOREM AllGivenBack == Spec => []NothingLeaks
  <1>1. IInv => NothingLeaks
    BY DEF IInv, TypeOK, PoolFits, PoolHeld, Locks, RowHeld, RecordHeld, Holding, NothingLeaks
  <1> QED
    BY Invariance, <1>1, PTL

(* Two syncs of one owner are never both at work behind the lock of the    *)
(* connection row: ADR 0004, for any number of requests.                   *)
THEOREM SyncsAreSerialized == Spec => []SyncsSerialized
  <1>1. IInv => SyncsSerialized
    BY DEF IInv, TypeOK, Locks, RowExclusive, SyncsHold, AtWork, Kind, Owner, SyncsSerialized
  <1> QED
    BY Invariance, <1>1, PTL
=============================================================================
