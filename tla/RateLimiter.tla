----------------------------- MODULE RateLimiter ----------------------------
(***************************************************************************)
(* FixedWindowRateLimiter: a dictionary that holds, for every peer, the    *)
(* times of the requests it was allowed lately.  allow is called on the    *)
(* event loop only, so that its calls and the times it reads are in order. *)
(* Time is counted in ticks, of which a second has several.                *)
(***************************************************************************)
EXTENDS Clock, Sequences, FiniteSets, FiniteSetsExt

CONSTANTS
    Peers,
    Limit,           \* requests a peer is allowed in a window
    Window,          \* length of the window, in ticks
    TicksPerSecond,
    MaxKeys          \* keys above which the dictionary is rebuilt; 4096 in the code

ASSUME RateLimiterAssumption ==
    /\ Limit \in Nat \ {0}
    /\ Window \in Nat \ {0}
    /\ TicksPerSecond \in Nat \ {0}
    /\ MaxKeys \in Nat

VARIABLES
    events,    \* the dictionary: a sequence of times for every key
    accepted,  \* auxiliary: what each peer was allowed within the last window
    refusal    \* auxiliary: peer: time and Retry-After of its last refusal, if it
               \* has been allowed nothing since

limiterVars == <<events, accepted, refusal>>

NoRefusal == [at |-> -1, wait |-> 0]

LimiterTypeOK ==
    /\ now \in Times
    /\ DOMAIN events \subseteq Peers
    /\ \A p \in DOMAIN events : events[p] \in Seq(Times) /\ Len(events[p]) <= Limit
    /\ accepted \in [Peers -> Seq(Times)]
    /\ refusal \in [Peers -> [at: Times, wait: Nat \ {0}] \cup {NoRefusal}]

LimiterInit ==
    /\ now = 0
    /\ events = <<>>
    /\ accepted = [p \in Peers |-> <<>>]
    /\ refusal = [p \in Peers |-> NoRefusal]

\* popleft until the first is after the cutoff, or none is left.
After(times, cutoff) ==
    LET later == {i \in DOMAIN times : times[i] > cutoff}
    IN  IF later = {} THEN <<>> ELSE SubSeq(times, Min(later), Len(times))

Within(times) == After(times, now - Window)

\* The events of the peer without those at or before the cutoff.
Live(peer) == IF peer \in DOMAIN events THEN Within(events[peer]) ELSE <<>>

With(peer, times) ==
    [p \in DOMAIN events \cup {peer} |-> IF p = peer THEN times ELSE events[p]]

\* What if the dictionary were emptied when it is full.
RebuiltEmpty(dictionary) ==
    IF Cardinality(DOMAIN dictionary) > MaxKeys THEN <<>> ELSE dictionary

\* The dictionary without its empty queues, when it has too many keys.
Rebuilt(dictionary) ==
    IF Cardinality(DOMAIN dictionary) > MaxKeys
    THEN [p \in {q \in DOMAIN dictionary : dictionary[q] # <<>>} |-> dictionary[p]]
    ELSE dictionary

Allow(peer) ==
    /\ Len(Live(peer)) < Limit
    /\ events' = Rebuilt(With(peer, Append(Live(peer), now)))
    /\ accepted' = [accepted EXCEPT ![peer] = Append(@, now)]
    /\ refusal' = [refusal EXCEPT ![peer] = NoRefusal]

\* What if it said how long ago the first event was.
RetryAfterElapsed(first) ==
    LET elapsed == (now - first) \div TicksPerSecond
    IN  IF elapsed > 1 THEN elapsed ELSE 1

\* max(1, int(events[0] + window - timestamp)), in whole seconds
RetryAfter(first) ==
    LET left == (first + Window - now) \div TicksPerSecond
    IN  IF left > 1 THEN left ELSE 1

\* What if refused requests counted too.
RefuseCounting(peer) ==
    /\ Len(Live(peer)) >= Limit
    /\ events' = With(peer, Append(Live(peer), now))
    /\ refusal' = [refusal EXCEPT ![peer] = [at |-> now, wait |-> RetryAfter(Head(Live(peer)))]]
    /\ UNCHANGED accepted

Refuse(peer) ==
    /\ Len(Live(peer)) >= Limit
    /\ events' = With(peer, Live(peer))
    /\ refusal' = [refusal EXCEPT ![peer] = [at |-> now, wait |-> RetryAfter(Head(Live(peer)))]]
    /\ UNCHANGED accepted

\* "accepted" forgets what has left the window.
Tick ==
    /\ now < MaxTime
    /\ now' = now + 1
    /\ accepted' = [p \in Peers |-> After(accepted[p], now + 1 - Window)]
    /\ UNCHANGED <<events, refusal>>

-----------------------------------------------------------------------------
(* In no window, wherever it begins, is a peer allowed more than the limit:*)
(* a window that slides, unlike the name says, and across any rebuilding.  *)
WindowHolds == \A p \in Peers : Len(accepted[p]) <= Limit

(* Retry-After is rounded down, but who waits a second longer than it says *)
(* is allowed, whatever else it was refused in the meantime.               *)
RetrySuffices ==
    \A p \in Peers :
        refusal[p] # NoRefusal /\ now >= refusal[p].at + (refusal[p].wait + 1) * TicksPerSecond
            => Len(Live(p)) < Limit
=============================================================================
