----------------------------- MODULE EventLoop ------------------------------
(***************************************************************************)
(* The threads of the one backend process: requests that take a database   *)
(* connection, hold row locks and need the event loop to go on.            *)
(*                                                                         *)
(* user_connection is entered and left in a worker thread, but it is the   *)
(* loop that hands each stage to a thread.  The handler of a `def` route   *)
(* runs in a worker thread; that of an `async def` route runs on the loop  *)
(* itself, and its psycopg calls are synchronous: while one waits for a    *)
(* row lock or for a pooled connection the loop runs nothing else.         *)
(***************************************************************************)
EXTENDS Integers, FiniteSets

CONSTANTS
    Requests,  \* request ids, each used once
    Owners,    \* users
    PoolSize   \* database_pool_size; max_overflow is 0

ASSUME EventLoopAssumption == PoolSize \in Nat \ {0}

Kinds == {"sync", "delete", "callback"}

VARIABLES
    request,  \* request: what it asks and the user it acts for, never changed
    at,       \* request: the point its handling has reached
    loop,     \* requests whose database call blocks the loop
    pool,     \* requests that hold a pooled connection
    rowLock,  \* owner: requests that hold the calendar_connections row
    recLock   \* owner: requests that hold the sync record of a shift

vars == <<request, at, loop, pool, rowLock, recLock>>

Points == {"new", "enter", "entered", "handler", "provider", "row_wait",
           "rec_wait", "pool_wait", "returned", "leave", "done"}

Kind(r) == request[r].kind
Owner(r) == request[r].owner

TypeOK ==
    /\ request \in [Requests -> [kind: Kinds, owner: Owners]]
    /\ at \in [Requests -> Points]
    /\ loop \subseteq Requests
    /\ pool \subseteq Requests
    /\ rowLock \in [Owners -> SUBSET Requests]
    /\ recLock \in [Owners -> SUBSET Requests]

Init ==
    /\ request \in [Requests -> [kind: Kinds, owner: Owners]]
    /\ at = [r \in Requests |-> "new"]
    /\ loop = {}
    /\ pool = {}
    /\ rowLock = [o \in Owners |-> {}]
    /\ recLock = [o \in Owners |-> {}]

-----------------------------------------------------------------------------

LoopFree == loop = {}
Move(r, from, to) == at[r] = from /\ at' = [at EXCEPT ![r] = to]
Free(lock, r) == lock[Owner(r)] \subseteq {r}
Take(lock, r) == [lock EXCEPT ![Owner(r)] = {r}]
Drop(lock, r) == [lock EXCEPT ![Owner(r)] = @ \ {r}]

\* The loop starts a request: the dependency goes to a thread, the callback
\* runs on the loop up to the token exchange.
Dispatch(r) ==
    /\ LoopFree
    /\ Move(r, "new", IF Kind(r) = "callback" THEN "provider" ELSE "enter")
    /\ UNCHANGED <<loop, pool, rowLock, recLock>>

\* Refused before it has a connection: the limiter, the token, the settings,
\* the cookie or the state of a callback.
Refused(r) ==
    /\ LoopFree
    /\ Move(r, "new", "done")
    /\ UNCHANGED <<loop, pool, rowLock, recLock>>

\* engine.begin() in a worker thread, which may wait for the pool; if the
\* connection or its role cannot be had it is given back at once...
Enter(r) ==
    /\ Cardinality(pool) < PoolSize
    /\ \/ Move(r, "enter", "entered") /\ pool' = pool \cup {r}
       \/ Move(r, "enter", "done") /\ UNCHANGED pool
    /\ UNCHANGED <<loop, rowLock, recLock>>

\* ... for a time: then QueuePool raises and the request is answered 500.
EnterTimeout(r) ==
    /\ Move(r, "enter", "done")
    /\ Cardinality(pool) >= PoolSize
    /\ UNCHANGED <<loop, pool, rowLock, recLock>>

\* delete_shift is a `def`: its UPDATE waits for the record in its thread.
StartHandler(r) ==
    /\ Kind(r) = "delete"
    /\ LoopFree
    /\ Move(r, "entered", "handler")
    /\ UNCHANGED <<loop, pool, rowLock, recLock>>

DeleteShift(r) ==
    /\ Move(r, "handler", "returned")
    /\ Free(recLock, r)
    /\ recLock' = Take(recLock, r)
    /\ UNCHANGED <<loop, pool, rowLock>>

\* 404, or a database that refuses: the exception leaves through the dependency.
DeleteRaises(r) ==
    /\ Move(r, "handler", "returned")
    /\ UNCHANGED <<loop, pool, rowLock, recLock>>

\* A configuration or a range that is refused, or no row to lock.
SyncRefused(r) ==
    /\ Kind(r) = "sync"
    /\ LoopFree
    /\ Move(r, "entered", "returned")
    /\ UNCHANGED <<loop, pool, rowLock, recLock>>

\* With the row a sync goes on to Google, unless its status is not active.
Locked(r, from) == Move(r, from, "provider") \/ Move(r, from, "returned")

\* sync_calendar, on the loop: SELECT ... FOR UPDATE of the connection row.
LockRow(r) ==
    /\ Kind(r) = "sync"
    /\ LoopFree
    /\ \/ /\ Free(rowLock, r)
          /\ rowLock' = Take(rowLock, r)
          /\ Locked(r, "entered")
          /\ loop' = loop
       \/ /\ ~Free(rowLock, r)
          /\ Move(r, "entered", "row_wait")
          /\ loop' = {r}
          /\ UNCHANGED rowLock
    /\ UNCHANGED <<pool, recLock>>

\* What if the callback, having waited for the row, kept its connection.
RowGrantedKeeping(r) ==
    /\ Free(rowLock, r)
    /\ loop' = loop \ {r}
    /\ IF Kind(r) = "sync"
       THEN /\ Locked(r, "row_wait")
            /\ rowLock' = Take(rowLock, r)
       ELSE /\ Move(r, "row_wait", "done")
            /\ UNCHANGED rowLock
    /\ UNCHANGED <<pool, recLock>>

\* The lock is granted: a sync goes on to Google, a callback saves and is done.
RowGranted(r) ==
    /\ Free(rowLock, r)
    /\ loop' = loop \ {r}
    /\ IF Kind(r) = "sync"
       THEN /\ Locked(r, "row_wait")
            /\ rowLock' = Take(rowLock, r)
            /\ UNCHANGED pool
       ELSE /\ Move(r, "row_wait", "done")
            /\ pool' = pool \ {r}
            /\ UNCHANGED rowLock
    /\ UNCHANGED recLock

\* A refresh or a push that is refused, or the exchange of a code: a sync
\* raises CalendarServiceError (or had nothing listed), a callback, which
\* holds nothing, redirects.
ProviderRaises(r) ==
    /\ LoopFree
    /\ Move(r, "provider", IF Kind(r) = "sync" THEN "returned" ELSE "done")
    /\ UNCHANGED <<loop, pool, rowLock, recLock>>

\* Google has answered, and the loop resumes the sync: mark_sync_* writes the
\* record (one record stands for those of the list).
MarkRecord(r) ==
    /\ Kind(r) = "sync"
    /\ LoopFree
    /\ \/ /\ Free(recLock, r)
          /\ recLock' = Take(recLock, r)
          /\ Move(r, "provider", "returned")
          /\ loop' = loop
       \/ /\ ~Free(recLock, r)
          /\ Move(r, "provider", "rec_wait")
          /\ loop' = {r}
          /\ UNCHANGED recLock
    /\ UNCHANGED <<pool, rowLock>>

RecordGranted(r) ==
    /\ Free(recLock, r)
    /\ Move(r, "rec_wait", "returned")
    /\ recLock' = Take(recLock, r)
    /\ loop' = loop \ {r}
    /\ UNCHANGED <<pool, rowLock>>

\* The token has been exchanged: authenticated_connection on the loop, then
\* save_connection and the commit in one go if the row is free; so is the
\* raise of a first connection without a refresh token, which has no row yet.
SaveConnection(r) ==
    /\ Kind(r) = "callback"
    /\ LoopFree
    /\ \/ /\ Cardinality(pool) >= PoolSize
          /\ Move(r, "provider", "pool_wait")
          /\ loop' = {r}
          /\ UNCHANGED pool
       \/ /\ Cardinality(pool) < PoolSize
          /\ Free(rowLock, r)
          /\ Move(r, "provider", "done")
          /\ UNCHANGED <<loop, pool>>
       \/ /\ Cardinality(pool) < PoolSize
          /\ ~Free(rowLock, r)
          /\ Move(r, "provider", "row_wait")
          /\ loop' = {r}
          /\ pool' = pool \cup {r}
    /\ UNCHANGED <<rowLock, recLock>>

\* A connection came back while the loop was waiting for it, or none did.
PoolGranted(r) ==
    /\ Cardinality(pool) < PoolSize
    /\ \/ /\ Free(rowLock, r)
          /\ Move(r, "pool_wait", "done")
          /\ loop' = loop \ {r}
          /\ UNCHANGED pool
       \/ /\ ~Free(rowLock, r)
          /\ Move(r, "pool_wait", "row_wait")
          /\ pool' = pool \cup {r}
          /\ UNCHANGED loop
    /\ UNCHANGED <<rowLock, recLock>>

\* What if the pool were waited for without a limit.
PoolTimeoutNever(r) == FALSE

PoolTimeout(r) ==
    /\ Move(r, "pool_wait", "done")
    /\ Cardinality(pool) >= PoolSize
    /\ loop' = loop \ {r}
    /\ UNCHANGED <<pool, rowLock, recLock>>

\* The handler has returned: the loop sends the dependency's exit to a thread,
\* which commits, frees the locks and gives the connection back.
Return(r) ==
    /\ LoopFree
    /\ Move(r, "returned", "leave")
    /\ UNCHANGED <<loop, pool, rowLock, recLock>>

Leave(r) ==
    /\ Move(r, "leave", "done")
    /\ pool' = pool \ {r}
    /\ rowLock' = Drop(rowLock, r)
    /\ recLock' = Drop(recLock, r)
    /\ UNCHANGED loop

-----------------------------------------------------------------------------

Step(r) ==
    /\ \/ Dispatch(r) \/ Refused(r) \/ Enter(r) \/ EnterTimeout(r)
       \/ StartHandler(r) \/ DeleteShift(r) \/ DeleteRaises(r)
       \/ SyncRefused(r) \/ LockRow(r) \/ RowGranted(r) \/ ProviderRaises(r)
       \/ MarkRecord(r) \/ RecordGranted(r)
       \/ SaveConnection(r) \/ PoolGranted(r) \/ PoolTimeout(r)
       \/ Return(r) \/ Leave(r)
    /\ UNCHANGED request

\* The requests given are all there are: the model stops when they are done.
Next == \E r \in Requests : Step(r)

\* Every step that stays possible is taken in the end; a step that waits for
\* the loop or for a lock has its turn (asyncio and PostgreSQL queue).
Spec == Init /\ [][Next]_vars /\ \A r \in Requests : SF_vars(Step(r))

-----------------------------------------------------------------------------
(* Properties. *)

\* The pool is never exceeded, and what a request holds it gives back: nothing
\* is held before it has entered nor once it is done, by whichever of the
\* waits, grants, timeouts, refusals and exceptions it came to its end.
NothingLeaks ==
    /\ Cardinality(pool) <= PoolSize
    /\ \A r \in Requests : at[r] \in {"new", "enter", "pool_wait", "done"} =>
        /\ r \notin pool
        /\ \A o \in Owners : r \notin rowLock[o] \cup recLock[o]

\* ADR 0004: the syncs of an owner are serialized by the connection row.  One
\* at a time has Google to call, or records written and not yet committed.
AtWork(r) ==
    Kind(r) = "sync" /\ (at[r] \in {"provider", "rec_wait"} \/ r \in recLock[Owner(r)])
SyncsSerialized ==
    \A r, q \in Requests : AtWork(r) /\ AtWork(q) /\ Owner(r) = Owner(q) => r = q

\* A request that no other can make wait for a row lock: at most one of each
\* owner's requests is there.
Apart == \A r, q \in Requests : Owner(r) = Owner(q) => r = q

\* Requests of different owners are all answered, although they share the loop
\* and the pool, and a callback may wait for a connection on the loop.
ApartRequestsEnd == Apart => \A r \in Requests : <>(at[r] = "done")

\* Every request is answered, those of one owner too.
EveryRequestEnds == \A r \in Requests : <>(at[r] = "done")
=============================================================================
