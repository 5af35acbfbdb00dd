----------------------------- MODULE EdgeProofs -----------------------------
(***************************************************************************)
(* The two edges of the system, for any values of the constants: HttpEdge, *)
(* which is the rate limiter and the calendar flows behind it on one       *)
(* clock, and the page of Frontend.  The models share no variable.         *)
(***************************************************************************)
EXTENDS HttpEdge, Frontend, FiniteSetTheorems, SequenceTheorems, WellFoundedInduction, TLAPS

(***************************************************************************)
(* OAuth.  What a callback knows of its flow when it comes back from       *)
(* Google, and that the flow of the cookie has begun.                      *)
(***************************************************************************)
InTime(f, came) == came \in f.issued..(f.issued + StateTTL)

FlowsBegan ==
    /\ \A f \in Flows : flow[f].at # "new" => flow[f].issued \in 0..now
    /\ cookie \in Flows => flow[cookie].at # "new"
    /\ \A f \in answered : flow[f].at # "new"

CallbacksInTime ==
    \A c \in Callbacks : callback[c] # Idle =>
        /\ flow[callback[c].flow].at \in {"consented", "exchanged"}
        /\ InTime(flow[callback[c].flow], callback[c].came)
        /\ callback[c].at = "saving" => flow[callback[c].flow].at = "exchanged"

RowsConsented ==
    \A o \in Owners : connection[o] # NotConnected =>
        /\ connection[o].refresh \in Flows /\ connection[o].access \in Flows
        /\ \A f \in {connection[o].refresh, connection[o].access} :
            flow[f].owner = o /\ flow[f].at = "exchanged" /\ InTime(flow[f], begun[f])

OAuthInv ==
    /\ now \in Times /\ OAuthTypeOK
    /\ FlowsBegan /\ CallbacksInTime /\ RowsConsented /\ AnsweredFlowsAreOver

-----------------------------------------------------------------------------

LEMMA InitOAuthInv == EdgeInit => OAuthInv
  <1> SUFFICES ASSUME EdgeInit PROVE OAuthInv
    OBVIOUS
  <1> USE DEF EdgeInit, LimiterInit, OAuthInit
  <1>1. (CHOOSE o \in Owners : TRUE) \in Owners
    BY OAuthAssumption
  <1>2. now \in Times
    BY ClockAssumption DEF Times
  <1>3. OAuthTypeOK
    BY <1>1 DEF OAuthTypeOK, FlowType, NotConnected
  <1>4. FlowsBegan /\ CallbacksInTime /\ RowsConsented /\ AnsweredFlowsAreOver
    BY OAuthAssumption DEF FlowsBegan, CallbacksInTime, RowsConsented, AnsweredFlowsAreOver
  <1> QED
    BY <1>2, <1>3, <1>4 DEF OAuthInv

\* A callback in progress is one of a flow.
LEMMA CallbackOfFlow ==
    ASSUME OAuthTypeOK, NEW c \in Callbacks, callback[c] # Idle
    PROVE  /\ callback[c] \in [at: {"exchanging", "saving", "answering"}, flow: Flows,
                               fresh: BOOLEAN, came: Times]
           /\ callback[c].flow \in Flows
  BY DEF OAuthTypeOK

LEMMA IdleIsIdle ==
    ASSUME NEW c \in Callbacks, callback[c].at # "idle"
    PROVE  callback[c] # Idle
  BY DEF Idle

LEMMA ConnectKeeps ==
    ASSUME OAuthInv, UNCHANGED now, NEW f \in Flows, NEW o \in Owners, Connect(f, o)
    PROVE  OAuthInv'
  <1> USE DEF OAuthInv, Connect
  <1>1. now \in Nat
    BY DEF Times
  <1>2. OAuthTypeOK'
    BY <1>1 DEF OAuthTypeOK, FlowType
  <1>3. \A g \in Flows : g # f => flow'[g] = flow[g]
    BY DEF OAuthTypeOK
  <1>4. flow'[f] = [at |-> "issued", owner |-> o, issued |-> now]
    BY DEF OAuthTypeOK
  <1>5. FlowsBegan'
    BY <1>1, <1>3, <1>4 DEF FlowsBegan, OAuthTypeOK
  <1>6. CallbacksInTime'
    <2> SUFFICES ASSUME NEW c \in Callbacks, callback[c] # Idle
                 PROVE  /\ flow'[callback[c].flow].at \in {"consented", "exchanged"}
                        /\ InTime(flow'[callback[c].flow], callback[c].came)
                        /\ callback[c].at = "saving" => flow'[callback[c].flow].at = "exchanged"
      BY DEF CallbacksInTime
    <2>1. callback[c].flow \in Flows /\ callback[c].flow # f
      BY CallbackOfFlow DEF CallbacksInTime
    <2> QED
      BY <2>1, <1>3 DEF CallbacksInTime, InTime
  <1>7. RowsConsented'
    <2> SUFFICES ASSUME NEW p \in Owners, connection[p] # NotConnected,
                        NEW g \in {connection[p].refresh, connection[p].access}
                 PROVE  g \in Flows /\ flow'[g].owner = p /\ flow'[g].at = "exchanged" /\ InTime(flow'[g], begun[g])
      BY DEF RowsConsented
    <2>1. g \in Flows /\ g # f
      BY DEF RowsConsented
    <2> QED
      BY <2>1, <1>3 DEF RowsConsented, InTime
  <1>8. AnsweredFlowsAreOver'
    BY DEF AnsweredFlowsAreOver, FlowsBegan
  <1> QED
    BY <1>2, <1>5, <1>6, <1>7, <1>8

\* A flow that goes on keeps its owner and the time it was issued at, and
\* does not leave its end: what callbacks and rows know of it stays true.
FlowsGoOn ==
    \A f \in Flows :
        /\ flow'[f].owner = flow[f].owner /\ flow'[f].issued = flow[f].issued
        /\ flow[f].at # "new" => flow'[f].at # "new"
        /\ flow[f].at = "new" => flow'[f].at = "new"
        /\ flow[f].at \in {"consented", "exchanged"} => flow'[f].at \in {"consented", "exchanged"}
        /\ flow[f].at = "exchanged" => flow'[f].at = "exchanged"

LEMMA GoingOnKeeps ==
    ASSUME OAuthInv, UNCHANGED <<now, cookie, connection, begun, answered>>, FlowsGoOn
    PROVE  FlowsBegan' /\ RowsConsented' /\ AnsweredFlowsAreOver'
  <1> USE DEF OAuthInv
  <1>1. FlowsBegan'
    BY DEF FlowsBegan, FlowsGoOn, OAuthTypeOK
  <1>2. RowsConsented'
    <2> SUFFICES ASSUME NEW p \in Owners, connection[p] # NotConnected,
                        NEW g \in {connection[p].refresh, connection[p].access}
                 PROVE  g \in Flows /\ flow'[g].owner = p /\ flow'[g].at = "exchanged" /\ InTime(flow'[g], begun[g])
      BY DEF RowsConsented
    <2> QED
      BY DEF RowsConsented, InTime, FlowsGoOn
  <1>3. AnsweredFlowsAreOver'
    BY DEF AnsweredFlowsAreOver
  <1> QED
    BY <1>1, <1>2, <1>3

LEMMA ConsentKeeps ==
    ASSUME OAuthInv, UNCHANGED now, NEW f \in Flows, Consent(f)
    PROVE  OAuthInv'
  <1> USE DEF OAuthInv, Consent
  <1>1. OAuthTypeOK'
    BY DEF OAuthTypeOK, FlowType
  <1>2. FlowsGoOn
    BY DEF OAuthTypeOK, FlowType, FlowsGoOn
  <1>3. CallbacksInTime'
    BY <1>2, CallbackOfFlow DEF CallbacksInTime, InTime, FlowsGoOn
  <1> QED
    BY <1>1, <1>2, <1>3, GoingOnKeeps

LEMMA CallbackBeginsKeeps ==
    ASSUME OAuthInv, UNCHANGED now, NEW c \in Callbacks, NEW f \in Flows, CallbackBegins(c, f)
    PROVE  OAuthInv'
  <1> USE DEF OAuthInv, CallbackBegins
  <1>1. OAuthTypeOK'
    BY DEF OAuthTypeOK
  <1>2. FlowsGoOn
    BY DEF FlowsGoOn
  <1>3. InTime(flow[f], now)
    BY OAuthAssumption DEF InTime, Verified, FlowsBegan, Times
  <1>4. callback'[c] = [at |-> "exchanging", flow |-> f, fresh |-> FALSE, came |-> now]
    BY DEF OAuthTypeOK
  <1>5. \A d \in Callbacks : d # c => callback'[d] = callback[d]
    BY DEF OAuthTypeOK
  <1>6. CallbacksInTime'
    BY <1>3, <1>4, <1>5 DEF CallbacksInTime, InTime
  <1> QED
    BY <1>1, <1>2, <1>6, GoingOnKeeps

LEMMA ExchangeKeeps ==
    ASSUME OAuthInv, UNCHANGED now, NEW c \in Callbacks, Exchange(c)
    PROVE  OAuthInv'
  <1> DEFINE f == callback[c].flow
  <1>1. callback[c] # Idle /\ f \in Flows /\ OAuthTypeOK
    BY IdleIsIdle, CallbackOfFlow DEF OAuthInv, Exchange
  <1>2. PICK fresh \in BOOLEAN :
          callback' = [callback EXCEPT ![c].at = "saving", ![c].fresh = fresh]
    BY DEF Exchange
  <1>3. /\ flow' = [flow EXCEPT ![f].at = "exchanged"]
        /\ UNCHANGED <<now, cookie, connection, begun, answered>>
    BY DEF Exchange
  <1> HIDE DEF f
  <1>4. \A g \in Flows :
          /\ flow'[g].owner = flow[g].owner /\ flow'[g].issued = flow[g].issued
          /\ flow'[g].at = IF g = f THEN "exchanged" ELSE flow[g].at
    BY <1>1, <1>3 DEF OAuthTypeOK, FlowType
  <1>5. FlowsGoOn
    BY <1>1, <1>4 DEF FlowsGoOn, Exchange, f
  <1>6. OAuthTypeOK'
    <2>1. flow' \in [Flows -> FlowType]
      BY <1>1, <1>3 DEF OAuthTypeOK, FlowType
    <2>2. callback[c] \in [at: {"exchanging", "saving", "answering"}, flow: Flows,
                           fresh: BOOLEAN, came: Times]
      BY <1>1, CallbackOfFlow
    <2>3. [callback[c] EXCEPT !.at = "saving", !.fresh = fresh]
            \in [at: {"exchanging", "saving", "answering"}, flow: Flows, fresh: BOOLEAN, came: Times]
      BY <2>2
    <2>4. callback' = [callback EXCEPT ![c] = [callback[c] EXCEPT !.at = "saving", !.fresh = fresh]]
      BY <1>1, <1>2 DEF OAuthTypeOK
    <2> QED
      BY <1>1, <1>3, <2>1, <2>3, <2>4 DEF OAuthTypeOK
  <1>7. \A d \in Callbacks :
          /\ callback'[d] # Idle => callback[d] # Idle
          /\ callback'[d] # Idle => callback'[d].flow = callback[d].flow /\ callback'[d].came = callback[d].came
          /\ d # c => callback'[d] = callback[d]
    BY <1>1, <1>2 DEF OAuthTypeOK
  <1>8. CallbacksInTime'
    <2> SUFFICES ASSUME NEW d \in Callbacks, callback'[d] # Idle
                 PROVE  /\ flow'[callback'[d].flow].at \in {"consented", "exchanged"}
                        /\ InTime(flow'[callback'[d].flow], callback'[d].came)
                        /\ callback'[d].at = "saving" => flow'[callback'[d].flow].at = "exchanged"
      BY DEF CallbacksInTime, InTime
    <2>1. /\ callback[d] # Idle /\ callback[d].flow \in Flows
          /\ callback'[d].flow = callback[d].flow /\ callback'[d].came = callback[d].came
      BY <1>1, <1>7, CallbackOfFlow
    <2>2. /\ flow'[callback[d].flow].at \in {"consented", "exchanged"}
          /\ InTime(flow'[callback[d].flow], callback[d].came)
      BY <2>1, <1>5 DEF CallbacksInTime, InTime, FlowsGoOn, OAuthInv
    <2>3. callback'[d].at = "saving" => flow'[callback[d].flow].at = "exchanged"
      BY <2>1, <1>4, <1>7 DEF CallbacksInTime, OAuthInv, f
    <2> QED
      BY <2>1, <2>2, <2>3
  <1> QED
    BY <1>3, <1>5, <1>6, <1>8, GoingOnKeeps DEF OAuthInv

\* The answers that end a callback, or leave it to its redirect.
LEMMA ExchangeFailsKeeps ==
    ASSUME OAuthInv, UNCHANGED now, NEW c \in Callbacks, ExchangeFails(c)
    PROVE  OAuthInv'
  <1> USE DEF OAuthInv, ExchangeFails
  <1>1. callback[c] # Idle /\ callback[c].flow \in Flows
    BY IdleIsIdle, CallbackOfFlow
  <1>2. flow[callback[c].flow].at \in {"consented", "exchanged"}
    BY <1>1 DEF CallbacksInTime
  <1>3. OAuthTypeOK'
    BY <1>1 DEF OAuthTypeOK, FlowType
  <1>4. FlowsGoOn
    BY <1>1, <1>2 DEF OAuthTypeOK, FlowType, FlowsGoOn
  <1>5. \A d \in Callbacks :
          /\ callback'[d] # Idle => callback[d] # Idle
          /\ callback'[d] # Idle => callback'[d].flow = callback[d].flow /\ callback'[d].came = callback[d].came
          /\ callback'[d].at = "saving" => callback[d].at = "saving"
    BY <1>1 DEF OAuthTypeOK
  <1>6. CallbacksInTime'
    BY <1>4, <1>5, CallbackOfFlow DEF CallbacksInTime, InTime, FlowsGoOn
  <1> QED
    BY <1>3, <1>4, <1>6, GoingOnKeeps

LEMMA SaveKeeps ==
    ASSUME OAuthInv, UNCHANGED now, NEW c \in Callbacks, Save(c)
    PROVE  OAuthInv'
  <1> DEFINE f == callback[c].flow
             owner == flow[f].owner
             fresh == callback[c].fresh
  <1>1. OAuthTypeOK /\ callback[c] # Idle /\ f \in Flows
    BY IdleIsIdle, CallbackOfFlow DEF OAuthInv, Save
  <1>2. /\ owner \in Owners /\ fresh \in BOOLEAN /\ callback[c].came \in Times
        /\ flow[f].at = "exchanged" /\ InTime(flow[f], callback[c].came)
    BY <1>1, CallbackOfFlow DEF OAuthTypeOK, FlowType, CallbacksInTime, OAuthInv, Save
  <1>3. /\ fresh \/ connection[owner] # NotConnected
        /\ connection' = [connection EXCEPT ![owner] = StoredRow(f, fresh, @)]
        /\ callback' = [callback EXCEPT ![c].at = "answering"]
        /\ begun' = [begun EXCEPT ![f] = callback[c].came]
        /\ UNCHANGED <<now, flow, cookie, answered>>
    BY DEF Save
  <1> HIDE DEF f, owner, fresh
  <1>4. /\ connection'[owner] = StoredRow(f, fresh, connection[owner])
        /\ \A p \in Owners : p # owner => connection'[p] = connection[p]
    BY <1>1, <1>2, <1>3 DEF OAuthTypeOK
  <1>5. begun'[f] = callback[c].came /\ \A g \in Flows : g # f => begun'[g] = begun[g]
    BY <1>1, <1>3 DEF OAuthTypeOK
  <1>6. OAuthTypeOK'
    BY <1>1, <1>2, <1>3 DEF OAuthTypeOK, StoredRow, Times
  <1>7. FlowsBegan' /\ AnsweredFlowsAreOver'
    BY <1>3 DEF FlowsBegan, AnsweredFlowsAreOver, OAuthInv
  <1>8. CallbacksInTime'
    BY <1>1, <1>3, CallbackOfFlow DEF CallbacksInTime, InTime, OAuthTypeOK, OAuthInv
  <1>9. RowsConsented'
    <2> SUFFICES ASSUME NEW p \in Owners, connection'[p] # NotConnected
                 PROVE  /\ connection'[p].refresh \in Flows /\ connection'[p].access \in Flows
                        /\ \A g \in {connection'[p].refresh, connection'[p].access} :
                             flow'[g].owner = p /\ flow'[g].at = "exchanged" /\ InTime(flow'[g], begun'[g])
      BY DEF RowsConsented, InTime
    <2>1. ASSUME NEW g \in Flows, InTime(flow[g], begun[g]) PROVE InTime(flow'[g], begun'[g])
      BY <2>1, <1>2, <1>3, <1>5
    <2>2. flow'[f].owner = owner /\ flow'[f].at = "exchanged" /\ InTime(flow'[f], begun'[f])
      BY <1>2, <1>3, <1>5 DEF owner
    <2>3. ASSUME connection[p] # NotConnected, NEW g \in {connection[p].refresh, connection[p].access}
          PROVE  g \in Flows /\ flow'[g].owner = p /\ flow'[g].at = "exchanged" /\ InTime(flow'[g], begun'[g])
      BY <2>1, <2>3, <1>3 DEF RowsConsented, OAuthInv
    <2>4. CASE p # owner
      BY <2>3, <2>4, <1>4
    <2>5. CASE p = owner
      BY <2>2, <2>3, <2>5, <1>1, <1>2, <1>3, <1>4 DEF StoredRow
    <2> QED
      BY <2>4, <2>5
  <1> QED
    BY <1>3, <1>6, <1>7, <1>8, <1>9 DEF OAuthInv

\* What changes neither the flows nor the rows.
LEMMA EndsKeep ==
    ASSUME OAuthInv, UNCHANGED now, NEW c \in Callbacks,
           SaveRefused(c) \/ Redirect(c) \/ CallbackLost(c)
    PROVE  OAuthInv'
  <1> USE DEF OAuthInv, SaveRefused, Redirect, CallbackLost
  <1>1. callback[c] # Idle /\ callback[c].flow \in Flows
    BY IdleIsIdle, CallbackOfFlow
  <1>2. flow[callback[c].flow].at # "new"
    BY <1>1 DEF CallbacksInTime
  <1>3. OAuthTypeOK'
    BY <1>1 DEF OAuthTypeOK
  <1>4. FlowsBegan' /\ AnsweredFlowsAreOver'
    BY <1>1, <1>2, OAuthAssumption DEF FlowsBegan, AnsweredFlowsAreOver, OAuthTypeOK
  <1>5. \A d \in Callbacks :
          callback'[d] # Idle =>
            /\ callback[d] # Idle /\ callback'[d].at = "saving" => callback[d].at = "saving"
            /\ callback[d] # Idle /\ callback'[d].flow = callback[d].flow /\ callback'[d].came = callback[d].came
    BY <1>1 DEF OAuthTypeOK
  <1>6. CallbacksInTime'
    BY <1>5 DEF CallbacksInTime, InTime
  <1>7. RowsConsented'
    BY DEF RowsConsented, InTime
  <1> QED
    BY <1>3, <1>4, <1>6, <1>7

\* Time, other requests, and a cookie that is dropped.
LEMMA WaitingKeeps ==
    ASSUME OAuthInv, now' \in Times, now <= now',
           UNCHANGED <<flow, callback, connection, begun, answered>>,
           cookie' \in {cookie, NoFlow}
    PROVE  OAuthInv'
  <1> USE DEF OAuthInv
  <1>1. OAuthTypeOK'
    BY DEF OAuthTypeOK
  <1>2. FlowsBegan' /\ AnsweredFlowsAreOver'
    BY OAuthAssumption DEF FlowsBegan, AnsweredFlowsAreOver, OAuthTypeOK, Times
  <1>3. CallbacksInTime' /\ RowsConsented'
    BY DEF CallbacksInTime, RowsConsented, InTime
  <1> QED
    BY <1>1, <1>2, <1>3

LEMMA NextOAuthInv == OAuthInv /\ [EdgeNext]_edgeVars => OAuthInv'
  <1> SUFFICES ASSUME OAuthInv, [EdgeNext]_edgeVars PROVE OAuthInv'
    OBVIOUS
  <1>0. now \in Times /\ now \in Int
    BY DEF OAuthInv, Times
  <1>1. CASE Guarded(Browser, Routes)
    <2>1. ASSUME NEW f \in Flows, CallbackRefused(f) PROVE OAuthInv'
      BY <1>0, <1>1, <2>1, WaitingKeeps DEF CallbackRefused, oauthVars, Guarded
    <2> QED
      BY <1>1, <2>1, ConnectKeeps, CallbackBeginsKeeps DEF Guarded, Routes
  <1>2. CASE \E p \in Peers : OtherRequest(p) \/ TooMany(p)
    BY <1>0, <1>2, WaitingKeeps DEF OtherRequest, TooMany, Guarded, oauthVars
  <1>3. CASE Elsewhere
    <2>1. CASE CookieExpires
      BY <1>0, <1>3, <2>1, WaitingKeeps DEF CookieExpires, Elsewhere
    <2> QED
      BY <1>3, <2>1, ConsentKeeps, ExchangeKeeps, ExchangeFailsKeeps, SaveKeeps, EndsKeep DEF Elsewhere
  <1>4. CASE Tick /\ UNCHANGED oauthVars
    <2>1. now' \in Times /\ now <= now'
      BY <1>0, <1>4, ClockAssumption DEF Tick, Times
    <2> QED
      BY <1>4, <2>1, WaitingKeeps DEF oauthVars
  <1>5. CASE UNCHANGED edgeVars
    BY <1>0, <1>5, WaitingKeeps DEF edgeVars, oauthVars
  <1> QED
    BY <1>1, <1>2, <1>3, <1>4, <1>5 DEF EdgeNext

LEMMA OAuthInvariance == EdgeSpec => []OAuthInv
  BY InitOAuthInv, NextOAuthInv, PTL DEF EdgeSpec

\* Every token stored is of a flow of its owner, whose callback came within
\* the state's time, and who is connected has a refresh token, for any
\* owners, flows, callbacks and lifetime of a state.
THEOREM TokensOfConsent == EdgeSpec => []ConnectionsAreConsented
  <1>1. OAuthInv => ConnectionsAreConsented
    BY OAuthAssumption DEF OAuthInv, RowsConsented, ConnectionsAreConsented, InTime
  <1> QED
    BY <1>1, OAuthInvariance, PTL

\* No cookie verifies a flow that a redirect has ended, however flows,
\* callbacks and expiries overlap.
THEOREM FlowsEndOnce == EdgeSpec => []AnsweredFlowsAreOver
  <1>1. OAuthInv => AnsweredFlowsAreOver
    BY DEF OAuthInv
  <1> QED
    BY <1>1, OAuthInvariance, PTL

-----------------------------------------------------------------------------
(***************************************************************************)
(* The rate limiter.  A queue without the times at or before a cutoff, as  *)
(* popleft leaves it, is what begins at the first time after the cutoff;   *)
(* that there is a first one is the least element of a set of naturals.    *)
(***************************************************************************)
LEMMA LeastNatural ==
    ASSUME NEW S \in SUBSET Nat, S # {}
    PROVE  \E x \in S : \A y \in S : x <= y
  <1>1. IsWellFoundedOn(OpToRel(<, Nat), Nat)
    BY NatLessThanWellFounded
  <1>2. PICK x \in S : \A y \in S : ~(<<y, x>> \in OpToRel(<, Nat))
    BY <1>1, WFMin
  <1>3. \A y \in S : ~(y < x)
    BY <1>2 DEF OpToRel
  <1> QED
    BY <1>3

\* Where the queue begins after popleft: behind what is not after the cutoff.
Begins(times, cutoff, k) ==
    /\ k \in 1..(Len(times) + 1)
    /\ \A i \in 1..(k - 1) : times[i] <= cutoff
    /\ k <= Len(times) => times[k] > cutoff

LEMMA AfterBegins ==
    ASSUME NEW times \in Seq(Int), NEW cutoff \in Int
    PROVE  \E k \in Nat : Begins(times, cutoff, k) /\ After(times, cutoff) = SubSeq(times, k, Len(times))
  <1> DEFINE later == {i \in DOMAIN times : times[i] > cutoff}
  <1>1. later \in SUBSET Nat /\ Len(times) \in Nat
    OBVIOUS
  <1>2. CASE later = {}
    <2>1. After(times, cutoff) = <<>>
      BY <1>2 DEF After
    <2>2. SubSeq(times, Len(times) + 1, Len(times)) = <<>>
      BY <1>1, SubSeqEmpty
    <2>3. Begins(times, cutoff, Len(times) + 1)
      BY <1>2 DEF Begins
    <2> QED
      BY <1>1, <2>1, <2>2, <2>3
  <1>3. CASE later # {}
    <2>1. \E x \in later : \A y \in later : x <= y
      BY <1>1, <1>3, LeastNatural
    <2>2. Min(later) \in later /\ \A y \in later : Min(later) <= y
      BY <2>1 DEF Min
    <2>3. After(times, cutoff) = SubSeq(times, Min(later), Len(times))
      BY <1>3 DEF After
    <2>4. PICK k \in Nat : k = Min(later)
      BY <1>1, <2>2
    <2>5. k \in 1..Len(times) /\ times[k] > cutoff /\ \A i \in later : k <= i
      BY <1>1, <2>2, <2>4
    <2>6. ASSUME NEW i \in 1..(k - 1) PROVE times[i] <= cutoff
      <3>1. i \in DOMAIN times /\ i \notin later /\ times[i] \in Int
        BY <1>1, <2>5
      <3> QED
        BY <3>1
    <2>7. Begins(times, cutoff, k)
      BY <1>1, <2>5, <2>6 DEF Begins
    <2> QED
      BY <2>3, <2>4, <2>7
  <1> QED
    BY <1>2, <1>3

LEMMA AfterIs ==
    ASSUME NEW times \in Seq(Int), NEW cutoff \in Int, NEW k \in Nat, Begins(times, cutoff, k)
    PROVE  After(times, cutoff) = SubSeq(times, k, Len(times))
  <1>1. PICK j \in Nat :
          Begins(times, cutoff, j) /\ After(times, cutoff) = SubSeq(times, j, Len(times))
    BY AfterBegins
  <1>2. j = k
    BY <1>1 DEF Begins
  <1> QED
    BY <1>1, <1>2

\* What is left has the times from the first one on, and begins after the cutoff.
LEMMA AfterIsSeq ==
    ASSUME NEW times \in Seq(Times), NEW cutoff \in Int
    PROVE  /\ After(times, cutoff) \in Seq(Times)
           /\ Len(After(times, cutoff)) <= Len(times)
           /\ Len(After(times, cutoff)) = Len(times) => After(times, cutoff) = times
           /\ After(times, cutoff) # <<>> => After(times, cutoff)[1] > cutoff
  <1>0. times \in Seq(Int)
    BY SeqMonotonic, ClockAssumption DEF Times
  <1>1. PICK k \in Nat :
          Begins(times, cutoff, k) /\ After(times, cutoff) = SubSeq(times, k, Len(times))
    BY <1>0, AfterBegins
  <1>2. k \in 1..(Len(times) + 1) /\ Len(times) \in Nat
    BY <1>1 DEF Begins
  <1>3. \A i \in k..Len(times) : times[i] \in Times
    BY <1>2
  <1>4. /\ SubSeq(times, k, Len(times)) \in Seq(Times)
        /\ Len(SubSeq(times, k, Len(times))) = IF k <= Len(times) THEN Len(times) - k + 1 ELSE 0
        /\ \A i \in 1..(Len(times) - k + 1) : SubSeq(times, k, Len(times))[i] = times[k + i - 1]
    BY <1>2, <1>3, SubSeqProperties
  <1>5. After(times, cutoff) # <<>> => After(times, cutoff)[1] > cutoff
    BY <1>1, <1>2, <1>4 DEF Begins
  <1>6. CASE Len(After(times, cutoff)) = Len(times)
    <2>1. k = 1 \/ Len(times) = 0
      BY <1>1, <1>2, <1>4, <1>6
    <2>2. k = 1 => After(times, cutoff) = times
      BY <1>1, SubSeqFull
    <2>3. Len(times) = 0 => After(times, cutoff) = <<>> /\ times = <<>>
      BY <1>1, <1>2, <1>4, <1>6
    <2> QED
      BY <1>1, <1>2, <1>4, <1>5, <2>1, <2>2, <2>3
  <1> QED
    BY <1>1, <1>2, <1>4, <1>5, <1>6

LEMMA AfterSelf ==
    ASSUME NEW times \in Seq(Times), NEW cutoff \in Int, times # <<>> => times[1] > cutoff
    PROVE  After(times, cutoff) = times
  <1>0. times \in Seq(Int) /\ Len(times) \in Nat
    BY SeqMonotonic, ClockAssumption DEF Times
  <1>1. Begins(times, cutoff, 1)
    BY <1>0 DEF Begins
  <1>2. After(times, cutoff) = SubSeq(times, 1, Len(times))
    BY <1>0, <1>1, AfterIs
  <1> QED
    BY <1>2, SubSeqFull

LEMMA AfterNone == \A cutoff \in Int : After(<<>>, cutoff) = <<>>
  <1>1. <<>> \in Seq(Times)
    OBVIOUS
  <1> QED
    BY <1>1, AfterSelf

\* A later cutoff may be applied to what an earlier one has left.
LEMMA AfterAfter ==
    ASSUME NEW times \in Seq(Times), NEW c \in Int, NEW d \in Int, c <= d
    PROVE  After(After(times, c), d) = After(times, d)
  <1> DEFINE t == After(times, c)
             n == Len(times)
  <1>0. times \in Seq(Int) /\ n \in Nat
    BY SeqMonotonic, ClockAssumption DEF Times
  <1>1. PICK k \in Nat : Begins(times, c, k) /\ t = SubSeq(times, k, n)
    BY <1>0, AfterBegins
  <1>2. PICK m \in Nat : Begins(times, d, m) /\ After(times, d) = SubSeq(times, m, n)
    BY <1>0, AfterBegins
  <1>3. k \in 1..(n + 1) /\ m \in 1..(n + 1) /\ k <= m
    BY <1>0, <1>1, <1>2 DEF Begins
  <1>4. \A i \in 1..n : times[i] \in Int
    BY <1>0
  <1>5. /\ t \in Seq(Int)
        /\ Len(t) = n - k + 1
        /\ \A i \in 1..Len(t) : t[i] = times[k + i - 1]
    BY <1>0, <1>1, <1>3, <1>4, SubSeqProperties
  <1>6. Begins(t, d, m - k + 1)
    <2>1. m - k + 1 \in 1..(Len(t) + 1)
      BY <1>0, <1>3, <1>5
    <2>2. ASSUME NEW i \in 1..(m - k) PROVE t[i] <= d
      <3>1. i \in 1..Len(t) /\ k + i - 1 \in 1..(m - 1)
        BY <1>0, <1>3, <1>5
      <3>2. t[i] = times[k + i - 1]
        BY <3>1, <1>5
      <3> QED
        BY <3>1, <3>2, <1>2 DEF Begins
    <2>3. ASSUME m - k + 1 <= Len(t) PROVE t[m - k + 1] > d
      <3>1. m - k + 1 \in 1..Len(t) /\ k + (m - k + 1) - 1 = m /\ m <= n
        BY <2>3, <1>0, <1>3, <1>5
      <3>2. t[m - k + 1] = times[m]
        BY <3>1, <1>5
      <3> QED
        BY <3>1, <3>2, <1>2 DEF Begins
    <2> QED
      BY <1>3, <2>1, <2>2, <2>3 DEF Begins
  <1>7. After(t, d) = SubSeq(t, m - k + 1, Len(t))
    BY <1>3, <1>5, <1>6, AfterIs
  <1>8. SubSeq(t, m - k + 1, Len(t)) = SubSeq(times, m, n)
    <2>1. /\ SubSeq(t, m - k + 1, Len(t)) \in Seq(Int)
          /\ Len(SubSeq(t, m - k + 1, Len(t))) = n - m + 1
          /\ \A i \in 1..(n - m + 1) : SubSeq(t, m - k + 1, Len(t))[i] = times[m + i - 1]
      BY <1>0, <1>3, <1>5, SubSeqProperties
    <2>2. /\ SubSeq(times, m, n) \in Seq(Int)
          /\ Len(SubSeq(times, m, n)) = n - m + 1
          /\ \A i \in 1..(n - m + 1) : SubSeq(times, m, n)[i] = times[m + i - 1]
      BY <1>0, <1>3, <1>4, SubSeqProperties
    <2> QED
      BY <2>1, <2>2, SeqEqual
  <1> QED
    BY <1>2, <1>7, <1>8

\* The whole seconds of a time that is left, one more added, are longer.
LEMMA RoundedDown ==
    ASSUME NEW left \in Int, NEW ticks \in Nat \ {0}
    PROVE  (left \div ticks) \in Int /\ left < ((left \div ticks) + 1) * ticks
  OBVIOUS

-----------------------------------------------------------------------------
\* What a peer was allowed in the window is what popleft would leave it.
LiveIn(dictionary, p, time) ==
    IF p \in DOMAIN dictionary THEN After(dictionary[p], time - Window) ELSE <<>>
AllowedIsLive == \A p \in Peers : accepted[p] = LiveIn(events, p, now)

\* As long as a refused peer is at its limit, the first of its times leaves
\* the window before Retry-After and a second are over.
RefusedUntilFirstLeaves ==
    \A p \in Peers :
        refusal[p] # NoRefusal /\ Len(LiveIn(events, p, now)) = Limit =>
            LiveIn(events, p, now)[1] + Window
                < refusal[p].at + (refusal[p].wait + 1) * TicksPerSecond

LimiterInv == LimiterTypeOK /\ AllowedIsLive /\ RefusedUntilFirstLeaves

-----------------------------------------------------------------------------

LEMMA LiveIsLiveIn == \A p \in Peers : Live(p) = LiveIn(events, p, now)
  BY DEF Live, LiveIn, Within

LEMMA LiveProperties ==
    ASSUME LimiterTypeOK, NEW p \in Peers
    PROVE  /\ LiveIn(events, p, now) \in Seq(Times)
           /\ Len(LiveIn(events, p, now)) <= Limit
           /\ LiveIn(events, p, now) # <<>> => LiveIn(events, p, now)[1] > now - Window
           /\ After(LiveIn(events, p, now), now - Window) = LiveIn(events, p, now)
  <1>1. now - Window \in Int /\ Limit \in Nat
    BY RateLimiterAssumption, ClockAssumption DEF LimiterTypeOK, Times
  <1>2. CASE p \in DOMAIN events
    <2>1. events[p] \in Seq(Times) /\ Len(events[p]) <= Limit
      BY <1>2 DEF LimiterTypeOK
    <2>2. /\ After(events[p], now - Window) \in Seq(Times)
          /\ Len(After(events[p], now - Window)) <= Len(events[p])
          /\ After(events[p], now - Window) # <<>> => After(events[p], now - Window)[1] > now - Window
      BY <1>1, <2>1, AfterIsSeq
    <2>3. After(After(events[p], now - Window), now - Window) = After(events[p], now - Window)
      BY <1>1, <2>2, AfterSelf
    <2>4. Len(After(events[p], now - Window)) \in Nat /\ Len(events[p]) \in Nat
      BY <2>1, <2>2
    <2> QED
      BY <1>1, <1>2, <2>1, <2>2, <2>3, <2>4 DEF LiveIn
  <1>3. CASE p \notin DOMAIN events
    <2>1. <<>> \in Seq(Times) /\ Len(<<>>) = 0
      OBVIOUS
    <2>2. After(<<>>, now - Window) = <<>>
      BY <1>1, <2>1, AfterSelf
    <2> QED
      BY <1>1, <1>3, <2>1, <2>2 DEF LiveIn
  <1> QED
    BY <1>2, <1>3

LEMMA InitLimiterInv == EdgeInit => LimiterInv
  <1> SUFFICES ASSUME EdgeInit PROVE LimiterInv
    OBVIOUS
  <1> USE DEF EdgeInit, LimiterInit
  <1>1. DOMAIN events = {}
    OBVIOUS
  <1>2. LimiterTypeOK
    BY <1>1, ClockAssumption DEF LimiterTypeOK, Times
  <1> QED
    BY <1>1, <1>2 DEF LimiterInv, AllowedIsLive, RefusedUntilFirstLeaves, LiveIn

\* A rebuilding takes away only who has no time in the dictionary.
LEMMA RebuiltKeeps ==
    ASSUME NEW D, D = [p \in DOMAIN D |-> D[p]], NEW p, NEW time \in Int
    PROVE  /\ DOMAIN Rebuilt(D) \subseteq DOMAIN D
           /\ p \in DOMAIN Rebuilt(D) => Rebuilt(D)[p] = D[p]
           /\ LiveIn(Rebuilt(D), p, time) = LiveIn(D, p, time)
  <1>1. /\ DOMAIN Rebuilt(D) \subseteq DOMAIN D
        /\ p \in DOMAIN Rebuilt(D) => Rebuilt(D)[p] = D[p]
        /\ p \in DOMAIN D /\ p \notin DOMAIN Rebuilt(D) => D[p] = <<>>
    BY DEF Rebuilt
  <1>2. time - Window \in Int
    BY RateLimiterAssumption
  <1>3. After(<<>>, time - Window) = <<>>
    BY <1>2, AfterNone
  <1> QED
    BY <1>1, <1>3 DEF LiveIn

LEMMA AllowKeeps ==
    ASSUME LimiterInv, NEW peer \in Peers, Allow(peer), UNCHANGED now
    PROVE  LimiterInv'
  <1> DEFINE times == Append(LiveIn(events, peer, now), now)
             D == With(peer, times)
  <1>1. LimiterTypeOK /\ now \in Times /\ now \in Int /\ now - Window \in Int /\ Limit \in Nat
    BY RateLimiterAssumption, ClockAssumption DEF LimiterInv, LimiterTypeOK, Times
  <1>2. /\ Len(LiveIn(events, peer, now)) < Limit
        /\ events' = Rebuilt(D)
        /\ accepted' = [accepted EXCEPT ![peer] = Append(@, now)]
        /\ refusal' = [refusal EXCEPT ![peer] = NoRefusal]
    BY LiveIsLiveIn DEF Allow
  <1>3. times \in Seq(Times) /\ Len(times) <= Limit /\ times # <<>> /\ times[1] > now - Window
    BY <1>1, <1>2, LiveProperties, RateLimiterAssumption
  <1>4. After(times, now - Window) = times
    BY <1>1, <1>3, AfterSelf
  <1> HIDE DEF times
  <1>5. /\ D = [p \in DOMAIN D |-> D[p]] /\ DOMAIN D = DOMAIN events \cup {peer}
        /\ D[peer] = times /\ \A p \in DOMAIN events : p # peer => D[p] = events[p]
    BY DEF With
  <1> HIDE DEF D
  <1>6. \A p : /\ DOMAIN events' \subseteq DOMAIN D
               /\ p \in DOMAIN events' => events'[p] = D[p]
               /\ LiveIn(events', p, now) = LiveIn(D, p, now)
    BY <1>1, <1>2, <1>5, RebuiltKeeps
  <1>7. LimiterTypeOK'
    <2>1. DOMAIN events' \subseteq Peers
      BY <1>1, <1>5, <1>6 DEF LimiterTypeOK
    <2>2. ASSUME NEW p \in DOMAIN events' PROVE events'[p] \in Seq(Times) /\ Len(events'[p]) <= Limit
      <3>1. p \in DOMAIN D /\ events'[p] = D[p]
        BY <1>6, <2>2
      <3> QED
        BY <3>1, <1>1, <1>3, <1>5 DEF LimiterTypeOK
    <2>3. accepted' \in [Peers -> Seq(Times)]
      BY <1>1, <1>2 DEF LimiterTypeOK
    <2>4. refusal' \in [Peers -> [at: Times, wait: Nat \ {0}] \cup {NoRefusal}]
      BY <1>1, <1>2 DEF LimiterTypeOK
    <2> QED
      BY <1>1, <2>1, <2>2, <2>3, <2>4 DEF LimiterTypeOK
  <1>8. \A p \in Peers : p # peer => LiveIn(events', p, now) = LiveIn(events, p, now)
    BY <1>5, <1>6 DEF LiveIn
  <1>9. LiveIn(events', peer, now) = times
    BY <1>4, <1>5, <1>6 DEF LiveIn
  <1>10. AllowedIsLive'
    <2>1. accepted[peer] = LiveIn(events, peer, now)
      BY DEF LimiterInv, AllowedIsLive
    <2> QED
      BY <1>1, <1>2, <1>8, <1>9, <2>1 DEF AllowedIsLive, LimiterInv, LimiterTypeOK, times
  <1>11. RefusedUntilFirstLeaves'
    BY <1>1, <1>2, <1>8 DEF RefusedUntilFirstLeaves, LimiterInv, LimiterTypeOK
  <1> QED
    BY <1>7, <1>10, <1>11 DEF LimiterInv

LEMMA RefuseKeeps ==
    ASSUME LimiterInv, NEW peer \in Peers, Refuse(peer), UNCHANGED now
    PROVE  LimiterInv'
  <1> DEFINE times == LiveIn(events, peer, now)
             left == times[1] + Window - now
             wait == RetryAfter(times[1])
  <1>1. /\ LimiterTypeOK /\ now \in Times /\ now \in Int /\ now - Window \in Int /\ Limit \in Nat \ {0}
        /\ Window \in Nat /\ TicksPerSecond \in Nat \ {0}
    BY RateLimiterAssumption, ClockAssumption DEF LimiterInv, LimiterTypeOK, Times
  <1>2. /\ Len(times) >= Limit
        /\ events' = With(peer, times)
        /\ refusal' = [refusal EXCEPT ![peer] = [at |-> now, wait |-> RetryAfter(Head(times))]]
        /\ UNCHANGED accepted
    BY LiveIsLiveIn DEF Refuse
  <1>3. /\ times \in Seq(Times) /\ Len(times) <= Limit /\ Len(times) \in Nat
        /\ After(times, now - Window) = times
    BY <1>1, LiveProperties
  <1> HIDE DEF times
  <1>4. Head(times) = times[1] /\ times[1] \in Times /\ times[1] \in Int
    BY <1>1, <1>2, <1>3, ClockAssumption DEF Times
  <1>5. wait \in Nat \ {0} /\ left < (wait + 1) * TicksPerSecond
    <2>1. left \in Int
      BY <1>1, <1>4
    <2>2. /\ (left \div TicksPerSecond) \in Int
          /\ left < ((left \div TicksPerSecond) + 1) * TicksPerSecond
      BY <1>1, <2>1, RoundedDown
    <2>3. wait = IF (left \div TicksPerSecond) > 1 THEN left \div TicksPerSecond ELSE 1
      BY DEF RetryAfter
    <2>4. CASE (left \div TicksPerSecond) > 1
      BY <2>2, <2>3, <2>4
    <2>5. CASE ~((left \div TicksPerSecond) > 1)
      <3>1. (left \div TicksPerSecond) + 1 <= 2 /\ wait = 1
        BY <2>2, <2>3, <2>5
      <3>2. ((left \div TicksPerSecond) + 1) * TicksPerSecond <= 2 * TicksPerSecond
        BY <3>1, <2>2, <1>1
      <3> QED
        BY <1>1, <2>1, <2>2, <3>1, <3>2
    <2> QED
      BY <2>4, <2>5
  <1> HIDE DEF wait
  <1>6. /\ DOMAIN events' = DOMAIN events \cup {peer}
        /\ events'[peer] = times /\ \A p \in DOMAIN events : p # peer => events'[p] = events[p]
    BY <1>2 DEF With
  <1>7. \A p \in Peers : LiveIn(events', p, now) = LiveIn(events, p, now)
    BY <1>3, <1>6 DEF LiveIn, times
  <1>8. refusal'[peer] = [at |-> now, wait |-> wait] /\ \A p \in Peers : p # peer => refusal'[p] = refusal[p]
    BY <1>1, <1>2, <1>4 DEF LimiterTypeOK, wait
  <1>9. LimiterTypeOK'
    BY <1>1, <1>2, <1>3, <1>4, <1>5, <1>6, <1>8 DEF LimiterTypeOK, wait
  <1>10. AllowedIsLive'
    BY <1>2, <1>7 DEF AllowedIsLive, LimiterInv
  <1>11. RefusedUntilFirstLeaves'
    <2> SUFFICES ASSUME NEW p \in Peers, refusal'[p] # NoRefusal, Len(LiveIn(events', p, now')) = Limit
                 PROVE  LiveIn(events', p, now')[1] + Window
                           < refusal'[p].at + (refusal'[p].wait + 1) * TicksPerSecond
      BY DEF RefusedUntilFirstLeaves
    <2>1. CASE p = peer
      <3>1. LiveIn(events', p, now') = times
        BY <1>7, <2>1 DEF times
      <3> QED
        BY <1>1, <1>4, <1>5, <1>8, <2>1, <3>1
    <2>2. CASE p # peer
      BY <1>7, <1>8, <2>2 DEF RefusedUntilFirstLeaves, LimiterInv
    <2> QED
      BY <2>1, <2>2
  <1> QED
    BY <1>9, <1>10, <1>11 DEF LimiterInv

LEMMA TickKeeps ==
    ASSUME LimiterInv, Tick
    PROVE  LimiterInv'
  <1>1. /\ LimiterTypeOK /\ now \in Times /\ now \in Int /\ now - Window \in Int /\ Limit \in Nat
        /\ Window \in Nat
    BY RateLimiterAssumption, ClockAssumption DEF LimiterInv, LimiterTypeOK, Times
  <1>2. /\ now' = now + 1 /\ now' \in Times
        /\ accepted' = [p \in Peers |-> After(accepted[p], now + 1 - Window)]
        /\ UNCHANGED <<events, refusal>>
    BY <1>1, ClockAssumption DEF Tick, Times
  <1>3. ASSUME NEW p \in Peers
        PROVE  LiveIn(events, p, now') = After(LiveIn(events, p, now), now' - Window)
    <2>1. CASE p \in DOMAIN events
      <3>1. events[p] \in Seq(Times)
        BY <1>1, <2>1 DEF LimiterTypeOK
      <3>2. After(After(events[p], now - Window), now' - Window) = After(events[p], now' - Window)
        BY <1>1, <1>2, <3>1, AfterAfter
      <3> QED
        BY <2>1, <3>2 DEF LiveIn
    <2>2. CASE p \notin DOMAIN events
      <3>1. After(<<>>, now' - Window) = <<>>
        BY <1>1, <1>2, AfterNone
      <3> QED
        BY <2>2, <3>1 DEF LiveIn
    <2> QED
      BY <2>1, <2>2
  <1>4. AllowedIsLive'
    BY <1>1, <1>2, <1>3 DEF AllowedIsLive, LimiterInv
  <1>5. ASSUME NEW p \in Peers
        PROVE  /\ LiveIn(events, p, now') \in Seq(Times)
               /\ Len(LiveIn(events, p, now')) = Limit => LiveIn(events, p, now') = LiveIn(events, p, now)
    <2>1. /\ LiveIn(events, p, now) \in Seq(Times)
          /\ Len(LiveIn(events, p, now)) <= Limit
      BY <1>1, LiveProperties
    <2>2. now' - Window \in Int
      BY <1>1, <1>2
    <2>3. /\ LiveIn(events, p, now') \in Seq(Times)
          /\ Len(LiveIn(events, p, now')) <= Len(LiveIn(events, p, now))
          /\ Len(LiveIn(events, p, now')) = Len(LiveIn(events, p, now)) =>
                LiveIn(events, p, now') = LiveIn(events, p, now)
      BY <2>1, <2>2, <1>3, AfterIsSeq
    <2>4. Len(LiveIn(events, p, now)) \in Nat /\ Len(LiveIn(events, p, now')) \in Nat
      BY <2>1, <2>3
    <2> QED
      BY <1>1, <2>1, <2>3, <2>4
  <1>6. LimiterTypeOK'
    <2>1. ASSUME NEW p \in Peers PROVE accepted'[p] \in Seq(Times)
      BY <1>2, <1>4, <1>5 DEF AllowedIsLive
    <2> QED
      BY <1>1, <1>2, <2>1 DEF LimiterTypeOK
  <1>7. RefusedUntilFirstLeaves'
    BY <1>2, <1>5 DEF RefusedUntilFirstLeaves, LimiterInv
  <1> QED
    BY <1>4, <1>6, <1>7 DEF LimiterInv

LEMMA NextLimiterInv == LimiterInv /\ [EdgeNext]_edgeVars => LimiterInv'
  <1> SUFFICES ASSUME LimiterInv, [EdgeNext]_edgeVars PROVE LimiterInv'
    OBVIOUS
  <1>1. CASE Guarded(Browser, Routes)
    BY <1>1, AllowKeeps, HttpEdgeAssumption DEF Guarded
  <1>2. CASE \E p \in Peers : OtherRequest(p) \/ TooMany(p)
    BY <1>2, AllowKeeps, RefuseKeeps DEF OtherRequest, Guarded, TooMany
  <1>3. CASE Elsewhere \/ UNCHANGED edgeVars
    BY <1>3 DEF Elsewhere, edgeVars, limiterVars, LimiterInv, LimiterTypeOK, AllowedIsLive,
        RefusedUntilFirstLeaves
  <1>4. CASE Tick /\ UNCHANGED oauthVars
    BY <1>4, TickKeeps
  <1> QED
    BY <1>1, <1>2, <1>3, <1>4 DEF EdgeNext

LEMMA LimiterInvariance == EdgeSpec => []LimiterInv
  BY InitLimiterInv, NextLimiterInv, PTL DEF EdgeSpec

\* The types of the limiter and of the calendar flows hold in every reachable
\* state, for any peers, limits, windows, owners and flows.
THEOREM EdgeTypeCorrect == EdgeSpec => []EdgeTypeOK
  <1>1. LimiterInv /\ OAuthInv => EdgeTypeOK
    BY DEF LimiterInv, OAuthInv, EdgeTypeOK
  <1> QED
    BY <1>1, LimiterInvariance, OAuthInvariance, PTL

\* No peer is allowed more than the limit in any window, across any
\* rebuilding of the dictionary.
THEOREM LimitHolds == EdgeSpec => []WindowHolds
  <1>1. LimiterInv => WindowHolds
    BY LiveProperties DEF LimiterInv, AllowedIsLive, WindowHolds
  <1> QED
    BY <1>1, LimiterInvariance, PTL

\* Who waits for Retry-After and one more second is allowed, for any window,
\* limit and resolution of the clock.
THEOREM WaitingSuffices == EdgeSpec => []RetrySuffices
  <1>1. LimiterInv => RetrySuffices
    <2> SUFFICES ASSUME LimiterInv, NEW p \in Peers, refusal[p] # NoRefusal,
                        now >= refusal[p].at + (refusal[p].wait + 1) * TicksPerSecond
                 PROVE  Len(Live(p)) < Limit
      BY DEF RetrySuffices
    <2> DEFINE times == LiveIn(events, p, now)
    <2>1. LimiterTypeOK /\ now \in Int /\ Window \in Nat /\ Limit \in Nat \ {0} /\ TicksPerSecond \in Nat
      BY RateLimiterAssumption, ClockAssumption DEF LimiterInv, LimiterTypeOK, Times
    <2>2. /\ times \in Seq(Times) /\ Len(times) \in Nat /\ Len(times) <= Limit
          /\ times # <<>> => times[1] > now - Window
      BY <2>1, LiveProperties
    <2>3. Live(p) = times
      BY LiveIsLiveIn
    <2>4. refusal[p].at \in Int /\ (refusal[p].wait + 1) * TicksPerSecond \in Int
      BY <2>1, ClockAssumption DEF LimiterTypeOK, Times
    <2>5. Len(times) = Limit =>
            times[1] + Window < refusal[p].at + (refusal[p].wait + 1) * TicksPerSecond
      BY DEF LimiterInv, RefusedUntilFirstLeaves
    <2> HIDE DEF times
    <2>6. Len(times) = Limit => times[1] \in Int /\ times # <<>>
      BY <2>1, <2>2, ClockAssumption DEF Times
    <2>7. Len(times) # Limit
      BY <2>1, <2>2, <2>4, <2>5, <2>6
    <2> QED
      BY <2>1, <2>2, <2>3, <2>7
  <1> QED
    BY <1>1, LimiterInvariance, PTL

-----------------------------------------------------------------------------
(***************************************************************************)
(* Frontend.  What the messages on their way say of Supabase's session:    *)
(* the last of them names it, an answer comes behind its event, and before *)
(* the first event nothing has changed.                                    *)
(***************************************************************************)
\* Behind the i-th message there are only failures.
LastWord(i) == \A j \in DOMAIN channel : j > i => channel[j].kind = "failure"

LastIsTrue ==
    \A i \in DOMAIN channel :
        channel[i].kind # "failure" /\ LastWord(i) => channel[i].session = gateway

ThenAllIsHeard == heard /\ LastWord(0) => session = gateway

AnswersFollowEvents ==
    \A i \in DOMAIN channel : channel[i].kind = "answer" =>
        heard \/ \E j \in DOMAIN channel : j < i /\ channel[j].kind = "event"

NothingHasChanged ==
    ~heard /\ (\A i \in DOMAIN channel : channel[i].kind # "event") =>
        /\ initial \in Sessions => initial = gateway
        /\ initial = "done" => session \in {gateway, SignedOut}

SessionInv == LastIsTrue /\ ThenAllIsHeard /\ AnswersFollowEvents /\ NothingHasChanged

\* The page waits for one load at most, which is for what it shows now, and has
\* read nothing before it was asked for.
LoadsAwaited ==
    /\ loads = {} \/ \E l \in Load : loads = {l}
    /\ \A l \in loads :
        /\ workspace # NoWorkspace
        /\ l.range = workspace.range /\ l.token = session
        /\ l.shifts # NotRead => l.shifts >= asked
        /\ l.summary # NotRead => l.summary >= asked

\* The load after a change that the page was told of began with the change made.
ChangesTold ==
    /\ change.here => workspace # NoWorkspace
    /\ early => own <= asked /\ change.at # "answered"

PageTypeOK ==
    /\ gateway \in Sessions
    /\ channel \in Seq(Message) /\ Len(channel) <= MaxChannel
    /\ initial \in Sessions \cup {"asked", "failed", "done"}
    /\ heard \in BOOLEAN /\ submitting \in {"no", "in", "out"} /\ early \in BOOLEAN
    /\ session \in Sessions \cup {Loading}

ViewTypeOK ==
    /\ workspace \in IF session \in Tokens THEN Workspaces ELSE {NoWorkspace}
    /\ loads \subseteq Load
    /\ change \in [at: {"none", "sent", "committed", "answered"}, here: BOOLEAN]
    /\ db \in Versions /\ asked \in 0..db /\ own \in 0..(MaxChanges + 1)

ViewInv == ViewTypeOK /\ LoadsAwaited /\ ChangesTold /\ ViewIsCurrent

PageInv == PageTypeOK /\ SessionInv /\ ViewInv

LEMMA DifferentRecords == NoData \notin Data /\ NoWorkspace \notin Workspaces
  <1>1. \A d \in Data : d # NoData
    <2> SUFFICES ASSUME NEW d \in Data, d = NoData PROVE FALSE
      OBVIOUS
    <2>1. DOMAIN d = {"user", "range", "shifts", "summary"}
      BY DEF Data
    <2>2. DOMAIN d = {"user"}
      BY DEF NoData
    <2> QED
      BY <2>1, <2>2
  <1>2. \A w \in Workspaces : w # NoWorkspace
    <2> SUFFICES ASSUME NEW w \in Workspaces, w = NoWorkspace PROVE FALSE
      OBVIOUS
    <2>1. DOMAIN w = {"range", "shown", "error"}
      BY DEF Workspaces
    <2>2. DOMAIN w = {"range"}
      BY DEF NoWorkspace
    <2> QED
      BY <2>1, <2>2
  <1> QED
    BY <1>1, <1>2

LEMMA InitPageInv == Init => PageInv
  <1> SUFFICES ASSUME Init PROVE PageInv
    OBVIOUS
  <1> USE DEF Init
  <1>1. channel \in Seq(Message) /\ Len(channel) <= MaxChannel
    BY FrontendAssumption
  <1>2. PageTypeOK
    BY <1>1 DEF PageTypeOK
  <1>3. ViewTypeOK
    BY FrontendAssumption DEF ViewTypeOK, Sessions, NoChange, Versions, Loading
  <1>4. SessionInv
    BY FrontendAssumption
    DEF SessionInv, LastIsTrue, ThenAllIsHeard, AnswersFollowEvents, NothingHasChanged,
        Sessions, SignedOut
  <1>5. LoadsAwaited /\ ChangesTold /\ ViewIsCurrent
    BY DEF LoadsAwaited, ChangesTold, ViewIsCurrent, Shows, NoChange
  <1> QED
    BY <1>2, <1>3, <1>4, <1>5 DEF PageInv, ViewInv

-----------------------------------------------------------------------------
(* What is shown. *)

\* Whoever is signed in has a Workspace, and nobody else has.
LEMMA MountedIsSignedIn ==
    ASSUME ViewTypeOK
    PROVE  (workspace # NoWorkspace <=> session \in Tokens)
           /\ (session \in Tokens => workspace \in Workspaces)
  BY DifferentRecords DEF ViewTypeOK

\* The effect begins its load, for the range that is selected.
LEMMA StartLoadKeeps ==
    ASSUME ViewInv, NEW token \in Tokens, NEW range \in Ranges, NEW others, others = {},
           StartLoad(token, range, others), session' = token,
           workspace' \in Workspaces, workspace'.range = range
    PROVE  /\ loads' \subseteq Load /\ loads' # {} /\ LoadsAwaited'
           /\ asked' = db /\ asked' \in 0..db
  <1> DEFINE l == [token |-> token, range |-> range, shifts |-> NotRead, summary |-> NotRead]
  <1>1. l \in Load /\ loads' = {l} /\ asked' = db
    BY DEF StartLoad, Load
  <1>2. asked' \in 0..db
    BY <1>1, FrontendAssumption DEF ViewInv, ViewTypeOK, Versions
  <1>3. workspace' # NoWorkspace
    BY DifferentRecords
  <1>4. \A k \in loads' : k.range = range /\ k.token = token
                          /\ k.shifts = NotRead /\ k.summary = NotRead
    <2> SUFFICES ASSUME NEW k \in loads' PROVE k = l
      OBVIOUS
    <2> QED
      BY <1>1
  <1>5. LoadsAwaited'
    BY <1>1, <1>3, <1>4 DEF LoadsAwaited
  <1> QED
    BY <1>1, <1>2, <1>5

\* RangeData is mounted: it shows nothing and loads.
LEMMA MountKeeps ==
    ASSUME ViewInv, NEW token \in Tokens, NEW range \in Ranges, NEW others, others = {},
           StartLoad(token, range, others), session' = token, workspace' = Mounted(range)
    PROVE  /\ workspace' \in Workspaces
           /\ loads' \subseteq Load /\ LoadsAwaited' /\ ViewIsCurrent'
           /\ asked' = db /\ asked' \in 0..db
  <1>1. workspace' \in Workspaces /\ workspace'.range = range /\ workspace'.shown = NoData
    BY DEF Mounted, Workspaces
  <1>2. /\ loads' \subseteq Load /\ loads' # {} /\ LoadsAwaited'
        /\ asked' = db /\ asked' \in 0..db
    BY <1>1, StartLoadKeeps
  <1>3. ViewIsCurrent'
    BY <1>1, <1>2 DEF ViewIsCurrent, Shows
  <1> QED
    BY <1>1, <1>2, <1>3

\* ... or loads again and goes on showing what it shows.
LEMMA RerunKeeps ==
    ASSUME ViewInv, NEW token \in Tokens, session \in Tokens, Rerun(token), session' = token
    PROVE  /\ workspace' = workspace /\ workspace' \in Workspaces
           /\ loads' \subseteq Load /\ LoadsAwaited' /\ ViewIsCurrent'
           /\ asked' = db /\ asked' \in 0..db
  <1>1. workspace' = workspace /\ workspace' \in Workspaces
    BY MountedIsSignedIn DEF Rerun, ViewInv
  <1>2. workspace.range \in Ranges
    BY <1>1 DEF Workspaces
  <1>3. /\ loads' \subseteq Load /\ loads' # {} /\ LoadsAwaited'
        /\ asked' = db /\ asked' \in 0..db
    BY <1>1, <1>2, StartLoadKeeps DEF Rerun, Aborted
  <1>4. ViewIsCurrent'
    BY <1>1, <1>3 DEF ViewIsCurrent, Shows, ViewInv
  <1> QED
    BY <1>1, <1>3, <1>4

LEMMA ChangeLeftKeeps ==
    ASSUME ViewInv, NEW next, ChangeLeft(next)
    PROVE  /\ change' \in [at: {"none", "sent", "committed", "answered"}, here: BOOLEAN]
           /\ change'.at = change.at
           /\ next \in Tokens => change' = change
           /\ next \notin Tokens => ~change'.here
  BY DEF ChangeLeft, ViewInv, ViewTypeOK

\* The page hears of a session.
LEMMA BecomeKeeps ==
    ASSUME ViewInv, NEW next \in Sessions, Become(next), UNCHANGED <<db, early>>
    PROVE  ViewInv' /\ session' = next
  <1>1. session' = next
    BY DEF Become
  <1>2. /\ change' \in [at: {"none", "sent", "committed", "answered"}, here: BOOLEAN]
        /\ change'.at = change.at
        /\ next \in Tokens => change' = change
        /\ next \notin Tokens => ~change'.here
    BY ChangeLeftKeeps DEF Become
  <1>3. workspace # NoWorkspace <=> session \in Tokens
    BY MountedIsSignedIn DEF ViewInv
  <1>4. CASE next \notin Tokens
    <2>1. workspace' = NoWorkspace /\ loads' = {} /\ UNCHANGED <<asked, own>>
      BY <1>4 DEF Become, Leave
    <2>2. ViewTypeOK'
      BY <1>1, <1>2, <1>4, <2>1 DEF ViewInv, ViewTypeOK
    <2>3. LoadsAwaited' /\ ChangesTold' /\ ViewIsCurrent'
      BY <1>2, <1>4, <2>1
      DEF ViewInv, LoadsAwaited, ChangesTold, ViewIsCurrent, Shows
    <2> QED
      BY <1>1, <2>2, <2>3 DEF ViewInv
  <1>5. CASE next \in Tokens /\ workspace = NoWorkspace
    <2>1. workspace' = Mounted(Today) /\ StartLoad(next, Today, loads) /\ own' = 0
      BY <1>5 DEF Become
    <2>2. loads = {}
      BY <1>5 DEF ViewInv, LoadsAwaited
    <2>3. /\ workspace' \in Workspaces
          /\ loads' \subseteq Load /\ LoadsAwaited' /\ ViewIsCurrent'
          /\ asked' = db /\ asked' \in 0..db
      BY <1>1, <1>5, <2>1, <2>2, MountKeeps, FrontendAssumption
    <2>4. ViewTypeOK'
      BY <1>1, <1>2, <1>5, <2>1, <2>3, FrontendAssumption DEF ViewInv, ViewTypeOK, Versions
    <2>5. ChangesTold'
      BY <1>2, <1>5, <2>1, <2>3 DEF ViewInv, ChangesTold
    <2> QED
      BY <1>1, <2>3, <2>4, <2>5 DEF ViewInv
  <1>6. CASE next \in Tokens /\ workspace # NoWorkspace /\ next # session
    <2>1. Rerun(next) /\ UNCHANGED own
      BY <1>6 DEF Become
    <2>2. /\ workspace' = workspace /\ workspace' \in Workspaces
          /\ loads' \subseteq Load /\ LoadsAwaited' /\ ViewIsCurrent'
          /\ asked' = db /\ asked' \in 0..db
      BY <1>1, <1>3, <1>6, <2>1, RerunKeeps
    <2>3. ViewTypeOK'
      BY <1>1, <1>2, <1>6, <2>1, <2>2 DEF ViewInv, ViewTypeOK
    <2>4. ChangesTold'
      BY <1>2, <1>6, <2>1, <2>2 DEF ViewInv, ViewTypeOK, ChangesTold, Versions
    <2> QED
      BY <1>1, <2>2, <2>3, <2>4 DEF ViewInv
  <1>7. CASE next \in Tokens /\ workspace # NoWorkspace /\ next = session
    <2>1. UNCHANGED <<workspace, loads, asked, own, session, change>>
      BY <1>1, <1>2, <1>7 DEF Become
    <2> QED
      BY <1>1, <2>1 DEF ViewInv, ViewTypeOK, LoadsAwaited, ChangesTold, ViewIsCurrent, Shows
  <1> QED
    BY <1>4, <1>5, <1>6, <1>7

\* Nothing that the view depends on has changed.
LEMMA ViewStays ==
    ASSUME ViewInv, UNCHANGED <<pageVars, serverVars>>
    PROVE  ViewInv'
  BY DEF pageVars, serverVars, ViewInv, ViewTypeOK, LoadsAwaited, ChangesTold,
         ViewIsCurrent, Shows

\* The load that arrives, fails or is read is the one that is awaited.
LEMMA OneLoad ==
    ASSUME ViewInv, NEW l \in loads
    PROVE  /\ l \in Load /\ loads = {l} /\ session \in Tokens
           /\ workspace \in Workspaces /\ workspace # NoWorkspace
           /\ l.range = workspace.range /\ l.token = session
           /\ l.shifts # NotRead => l.shifts >= asked
           /\ l.summary # NotRead => l.summary >= asked
  BY MountedIsSignedIn DEF ViewInv, ViewTypeOK, LoadsAwaited

LEMMA ServerReadsKeeps ==
    ASSUME ViewInv, NEW l \in loads, ServerReads(l)
    PROVE  ViewInv'
  <1> USE DEF ServerReads, authVars, serverVars
  <1>1. PICK m \in {[l EXCEPT !.shifts = db], [l EXCEPT !.summary = db]} :
            loads' = (loads \ {l}) \cup {m}
    OBVIOUS
  <1>2. loads' = {m}
    BY <1>1, OneLoad
  <1>3. /\ db \in Versions /\ db \in Int /\ asked \in Int /\ asked <= db
        /\ \A k \in Load : k.shifts \in Int /\ k.summary \in Int
    BY FrontendAssumption DEF ViewInv, ViewTypeOK, Versions, Load, NotRead
  <1>4. m \in Load /\ m.range = l.range /\ m.token = l.token
    BY <1>1, <1>3, OneLoad DEF Load
  <1>5. /\ m.shifts # NotRead => m.shifts >= asked
        /\ m.summary # NotRead => m.summary >= asked
    BY <1>1, <1>3, OneLoad DEF Load
  <1>6. UNCHANGED <<session, workspace, asked, own, change, db, early>>
    OBVIOUS
  <1>7. LoadsAwaited'
    BY <1>2, <1>4, <1>5, <1>6, OneLoad DEF LoadsAwaited
  <1> QED
    BY <1>2, <1>4, <1>6, <1>7
    DEF ViewInv, ViewTypeOK, ChangesTold, ViewIsCurrent, Shows

LEMMA LoadArrivesKeeps ==
    ASSUME ViewInv, NEW l \in loads, LoadArrives(l)
    PROVE  ViewInv'
  <1> USE DEF LoadArrives, authVars, serverVars
  <1> DEFINE d == [user |-> UserOf[l.token], range |-> l.range,
                   shifts |-> l.shifts, summary |-> l.summary]
  <1>1. loads' = {} /\ workspace' = [workspace EXCEPT !.shown = d]
    BY OneLoad
  <1>2. UNCHANGED <<session, asked, own, change, db, early>>
    OBVIOUS
  <1>3. d \in Data
    BY OneLoad DEF Load, Data
  <1>4. /\ workspace' \in Workspaces /\ workspace'.range = workspace.range
        /\ workspace'.shown = d
    BY <1>1, <1>3, OneLoad DEF Workspaces
  <1>5. ViewIsCurrent'
    <2>1. d # NoData
      BY <1>3, DifferentRecords
    <2>2. d.user = UserOf[session] /\ d.range = workspace.range
          /\ d.shifts >= asked /\ d.summary >= asked
      BY OneLoad
    <2> HIDE DEF d
    <2> QED
      BY <1>1, <1>2, <1>4, <2>1, <2>2 DEF ViewIsCurrent, Shows
  <1>6. workspace' # NoWorkspace
    BY <1>4, DifferentRecords
  <1> QED
    BY <1>1, <1>2, <1>4, <1>5, <1>6, OneLoad DEF ViewInv, ViewTypeOK, LoadsAwaited, ChangesTold

LEMMA LoadFailsKeeps ==
    ASSUME ViewInv, NEW l \in loads, LoadFails(l)
    PROVE  ViewInv'
  <1> USE DEF LoadFails, authVars, serverVars
  <1>1. loads' = {} /\ workspace' = [workspace EXCEPT !.error = TRUE]
    BY OneLoad
  <1>2. UNCHANGED <<session, asked, own, change, db, early>>
    OBVIOUS
  <1>3. workspace' \in Workspaces /\ workspace'.error
    BY <1>1, OneLoad DEF Workspaces
  <1>4. workspace' # NoWorkspace
    BY <1>3, DifferentRecords
  <1> QED
    BY <1>1, <1>2, <1>3, <1>4, OneLoad
    DEF ViewInv, ViewTypeOK, LoadsAwaited, ChangesTold, ViewIsCurrent, Shows

LEMMA MoveKeeps ==
    ASSUME ViewInv, NEW range \in Ranges, Move(range)
    PROVE  ViewInv'
  <1> USE DEF Move, authVars, serverVars
  <1>1. workspace # NoWorkspace /\ session \in Tokens
    BY MountedIsSignedIn DEF ViewInv
  <1>2. UNCHANGED <<session, own, change, db, early>>
    OBVIOUS
  <1>3. /\ workspace' \in Workspaces
        /\ loads' \subseteq Load /\ LoadsAwaited' /\ ViewIsCurrent'
        /\ asked' = db /\ asked' \in 0..db
    <2>1. CASE range = workspace.range
      BY <1>1, <1>2, <2>1, RerunKeeps
    <2>2. CASE range # workspace.range
      <3>1. workspace' = Mounted(range) /\ StartLoad(session, range, {})
        BY <2>2 DEF Remount
      <3> QED
        BY <1>1, <1>2, <3>1, MountKeeps
    <2> QED
      BY <2>1, <2>2
  <1>4. workspace' # NoWorkspace
    BY <1>3, DifferentRecords
  <1>5. ViewTypeOK'
    BY <1>1, <1>2, <1>3 DEF ViewInv, ViewTypeOK
  <1>6. ChangesTold'
    BY <1>2, <1>3, <1>4, FrontendAssumption DEF ViewInv, ViewTypeOK, ChangesTold, Versions
  <1> QED
    BY <1>3, <1>5, <1>6 DEF ViewInv

LEMMA SendChangeKeeps ==
    ASSUME ViewInv, SendChange
    PROVE  ViewInv'
  BY DEF SendChange, authVars, pageVars, ViewInv, ViewTypeOK, LoadsAwaited, ChangesTold,
         ViewIsCurrent, Shows

LEMMA CommitChangeKeeps ==
    ASSUME ViewInv, CommitChange
    PROVE  ViewInv'
  <1> USE DEF CommitChange, authVars, pageVars
  <1>1. UNCHANGED <<session, workspace, loads, asked, own, early>>
    OBVIOUS
  <1>2. /\ change' \in [at: {"none", "sent", "committed", "answered"}, here: BOOLEAN]
        /\ change'.here => change.here
        /\ change'.at \in {"committed", "none"}
    BY DEF ViewInv, ViewTypeOK, NoChange
  <1>3. db' \in Versions /\ asked \in 0..db'
    BY FrontendAssumption DEF ViewInv, ViewTypeOK, Versions
  <1> QED
    BY <1>1, <1>2, <1>3
    DEF ViewInv, ViewTypeOK, LoadsAwaited, ChangesTold, ViewIsCurrent, Shows

LEMMA AnswerChangeKeeps ==
    ASSUME ViewInv, AnswerChange
    PROVE  ViewInv'
  <1> USE DEF AnswerChange, authVars
  <1>1. UNCHANGED <<session, db, early>>
    OBVIOUS
  <1>2. /\ change' \in [at: {"none", "sent", "committed", "answered"}, here: BOOLEAN]
        /\ change'.here => change.here
        /\ early => change'.at = "none" /\ Told = db
    BY DEF ViewInv, ViewTypeOK, NoChange, Told
  <1>3. CASE ~change.here
    BY <1>1, <1>2, <1>3
    DEF ViewInv, ViewTypeOK, LoadsAwaited, ChangesTold, ViewIsCurrent, Shows
  <1>4. CASE change.here
    <2>1. workspace \in Workspaces /\ session \in Tokens
      BY <1>4, MountedIsSignedIn DEF ViewInv, ChangesTold
    <2>2. workspace.range \in Ranges
      BY <2>1 DEF Workspaces
    <2>3. /\ own' = Told /\ workspace' = Mounted(workspace.range)
          /\ StartLoad(session, workspace.range, {})
      BY <1>4 DEF Remount
    <2>4. /\ workspace' \in Workspaces
          /\ loads' \subseteq Load /\ LoadsAwaited' /\ ViewIsCurrent'
          /\ asked' = db /\ asked' \in 0..db
      BY <1>1, <2>1, <2>2, <2>3, MountKeeps
    <2>5. workspace' # NoWorkspace
      BY <2>4, DifferentRecords
    <2>6. Told \in 0..(MaxChanges + 1)
      BY FrontendAssumption DEF Told, ViewInv, ViewTypeOK, Versions
    <2>7. ViewTypeOK'
      BY <1>1, <1>2, <2>1, <2>3, <2>4, <2>6 DEF ViewInv, ViewTypeOK
    <2>8. ChangesTold'
      BY <1>1, <1>2, <2>3, <2>4, <2>5, FrontendAssumption
      DEF ViewInv, ViewTypeOK, ChangesTold, Versions
    <2> QED
      BY <2>4, <2>7, <2>8 DEF ViewInv
  <1> QED
    BY <1>3, <1>4

LEMMA ChangeEndsKeeps ==
    ASSUME ViewInv, ChangeFails \/ ChangeElsewhere
    PROVE  ViewInv'
  <1> USE DEF ChangeFails, ChangeElsewhere, authVars, pageVars
  <1>1. UNCHANGED <<session, workspace, loads, asked, own, early>>
    OBVIOUS
  <1>2. /\ change' \in [at: {"none", "sent", "committed", "answered"}, here: BOOLEAN]
        /\ change'.here => change.here
        /\ change'.at \in {change.at, "none"}
    <2>1. CASE change' = change
      BY <2>1 DEF ViewInv, ViewTypeOK
    <2>2. CASE change' = NoChange
      BY <2>2 DEF NoChange
    <2> QED
      BY <2>1, <2>2
  <1>3. db' \in Versions /\ asked \in 0..db'
    BY FrontendAssumption DEF ViewInv, ViewTypeOK, Versions
  <1> QED
    BY <1>1, <1>2, <1>3
    DEF ViewInv, ViewTypeOK, LoadsAwaited, ChangesTold, ViewIsCurrent, Shows

-----------------------------------------------------------------------------
(* The session. *)

\* Messages that are sent behind those on their way.
LEMMA SendAppends ==
    ASSUME PageTypeOK, NEW messages \in Seq(Message), Send(messages)
    PROVE  /\ channel' \in Seq(Message) /\ Len(channel') <= MaxChannel
           /\ Len(channel') = Len(channel) + Len(messages)
           /\ \A i \in 1..Len(channel) : channel'[i] = channel[i]
           /\ \A i \in 1..Len(messages) : channel'[Len(channel) + i] = messages[i]
  BY DEF PageTypeOK, Send

LEMMA MessageTypes ==
    /\ \A m \in Message : m.kind \in {"event", "answer", "failure"}
    /\ \A m \in Message : m.kind # "failure" => m.session \in Sessions
    /\ \A s \in Sessions :
        /\ Event(s) \in Message /\ Event(s).kind = "event" /\ Event(s).session = s
        /\ [kind |-> "answer", session |-> s] \in Message
    /\ [kind |-> "failure"] \in Message
  BY DEF Message, Event

LEMMA GatewayChangesKeeps ==
    ASSUME PageInv, GatewayChanges
    PROVE  PageTypeOK' /\ SessionInv'
  <1> USE DEF GatewayChanges, pageVars, serverVars
  <1>1. PICK s \in Sessions : gateway' = s /\ Send(<<Event(s)>>)
    OBVIOUS
  <1>2. Event(s) \in Message /\ Event(s).kind = "event" /\ Event(s).session = s
    BY MessageTypes
  <1>3. channel \in Seq(Message) /\ Len(channel) \in Nat
    BY DEF PageInv, PageTypeOK
  <1>4. /\ channel' \in Seq(Message) /\ Len(channel') <= MaxChannel
        /\ Len(channel') = Len(channel) + 1
        /\ \A i \in 1..Len(channel) : channel'[i] = channel[i]
        /\ channel'[Len(channel) + 1] = Event(s)
    <2> DEFINE sent == <<Event(s)>>
    <2>1. sent \in Seq(Message) /\ Len(sent) = 1 /\ sent[1] = Event(s)
      BY <1>2
    <2>2. Send(sent)
      BY <1>1
    <2> HIDE DEF sent
    <2>3. /\ channel' \in Seq(Message) /\ Len(channel') <= MaxChannel
          /\ Len(channel') = Len(channel) + Len(sent)
          /\ \A i \in 1..Len(channel) : channel'[i] = channel[i]
          /\ \A i \in 1..Len(sent) : channel'[Len(channel) + i] = sent[i]
      BY <2>1, <2>2, SendAppends DEF PageInv
    <2>4. 1 \in 1..Len(sent)
      BY <2>1
    <2> QED
      BY <2>1, <2>3, <2>4
  <1>5. PageTypeOK'
    BY <1>1, <1>4 DEF PageInv, PageTypeOK
  <1>6. DOMAIN channel = 1..Len(channel) /\ DOMAIN channel' = 1..Len(channel')
    BY <1>3, <1>4
  <1>7. SessionInv'
    BY <1>1, <1>2, <1>3, <1>4, <1>6
      DEF PageInv, SessionInv, LastIsTrue, ThenAllIsHeard, AnswersFollowEvents,
          NothingHasChanged, LastWord
  <1> QED
    BY <1>5, <1>7

LEMMA GatewayAnswersKeeps ==
    ASSUME PageInv, GatewayAnswers
    PROVE  PageTypeOK' /\ SessionInv'
  <1> USE DEF GatewayAnswers, pageVars, serverVars
  <1>1. channel \in Seq(Message) /\ Len(channel) \in Nat /\ DOMAIN channel = 1..Len(channel)
    BY DEF PageInv, PageTypeOK
  <1>2. UNCHANGED <<initial, heard, submitting, session, early>>
    OBVIOUS
  <1>3. ASSUME NEW s \in Sessions, gateway' = s,
               Send(<<Event(s), [kind |-> "answer", session |-> s]>>)
        PROVE  PageTypeOK' /\ SessionInv'
    <2> DEFINE answer == [kind |-> "answer", session |-> s]
               sent == <<Event(s), answer>>
    <2>1. /\ Event(s) \in Message /\ Event(s).kind = "event" /\ Event(s).session = s
          /\ answer \in Message /\ answer.kind = "answer" /\ answer.session = s
      BY MessageTypes
    <2>2. Send(sent)
      BY <1>3
    <2> HIDE DEF answer
    <2>3. sent \in Seq(Message) /\ Len(sent) = 2 /\ sent[1] = Event(s) /\ sent[2] = answer
      BY <2>1
    <2> HIDE DEF sent
    <2>4. /\ channel' \in Seq(Message) /\ Len(channel') <= MaxChannel
          /\ Len(channel') = Len(channel) + Len(sent)
          /\ \A i \in 1..Len(channel) : channel'[i] = channel[i]
          /\ \A i \in 1..Len(sent) : channel'[Len(channel) + i] = sent[i]
      BY <2>2, <2>3, SendAppends DEF PageInv
    <2>5. 1 \in 1..Len(sent) /\ 2 \in 1..Len(sent)
      BY <2>3
    <2>6. /\ Len(channel') = Len(channel) + 2
          /\ channel'[Len(channel) + 1] = Event(s) /\ channel'[Len(channel) + 2] = answer
          /\ DOMAIN channel' = 1..Len(channel')
      BY <2>3, <2>4, <2>5
    <2>7. PageTypeOK'
      BY <1>2, <1>3, <2>4 DEF PageInv, PageTypeOK
    <2>8. SessionInv'
      <3>1. LastIsTrue'
        <4> SUFFICES ASSUME NEW i \in DOMAIN channel', LastWord(i)'
                     PROVE  channel'[i].session = gateway'
          BY DEF LastIsTrue
        <4>1. Len(channel) + 2 \in DOMAIN channel' /\ i \in 1..(Len(channel) + 2)
          BY <1>1, <2>6
        <4>2. ~(Len(channel) + 2 > i)
          BY <2>1, <2>6, <4>1 DEF LastWord
        <4>3. i = Len(channel) + 2
          BY <1>1, <4>1, <4>2
        <4> QED
          BY <1>3, <2>1, <2>6, <4>3
      <3>2. ThenAllIsHeard'
        <4>1. Len(channel) + 2 \in DOMAIN channel' /\ Len(channel) + 2 > 0
          BY <1>1, <2>6
        <4>2. channel'[Len(channel) + 2].kind # "failure"
          BY <2>1, <2>6
        <4>3. ~LastWord(0)'
          BY <4>1, <4>2 DEF LastWord
        <4> QED
          BY <4>3 DEF ThenAllIsHeard
      <3>3. AnswersFollowEvents'
        BY <1>1, <1>2, <1>3, <2>1, <2>4, <2>6 DEF PageInv, SessionInv, AnswersFollowEvents
      <3>4. NothingHasChanged'
        BY <1>1, <1>2, <1>3, <2>1, <2>4, <2>6 DEF PageInv, SessionInv, NothingHasChanged
      <3> QED
        BY <3>1, <3>2, <3>3, <3>4 DEF SessionInv
    <2> QED
      BY <2>7, <2>8
  <1>4. ASSUME Send(<<[kind |-> "failure"]>>), UNCHANGED gateway
        PROVE  PageTypeOK' /\ SessionInv'
    <2> DEFINE failure == [kind |-> "failure"]
               sent == <<failure>>
    <2>1. failure \in Message /\ failure.kind = "failure"
      BY MessageTypes
    <2>2. Send(sent)
      BY <1>4
    <2> HIDE DEF failure
    <2>3. sent \in Seq(Message) /\ Len(sent) = 1 /\ sent[1] = failure
      BY <2>1
    <2> HIDE DEF sent
    <2>4. /\ channel' \in Seq(Message) /\ Len(channel') <= MaxChannel
          /\ Len(channel') = Len(channel) + Len(sent)
          /\ \A i \in 1..Len(channel) : channel'[i] = channel[i]
          /\ \A i \in 1..Len(sent) : channel'[Len(channel) + i] = sent[i]
      BY <2>2, <2>3, SendAppends DEF PageInv
    <2>5. 1 \in 1..Len(sent)
      BY <2>3
    <2>6. /\ Len(channel') = Len(channel) + 1 /\ channel'[Len(channel) + 1] = failure
          /\ DOMAIN channel' = 1..Len(channel')
      BY <2>3, <2>4, <2>5
    <2>7. PageTypeOK'
      BY <1>2, <1>4, <2>4 DEF PageInv, PageTypeOK
    <2>8. SessionInv'
      <3>1. LastIsTrue'
        <4> SUFFICES ASSUME NEW i \in DOMAIN channel', channel'[i].kind # "failure", LastWord(i)'
                     PROVE  channel'[i].session = gateway'
          BY DEF LastIsTrue
        <4>1. i \in DOMAIN channel /\ channel'[i] = channel[i]
          BY <1>1, <2>1, <2>4, <2>6
        <4>2. \A j \in DOMAIN channel : j \in DOMAIN channel' /\ channel'[j] = channel[j]
          BY <1>1, <2>4, <2>6
        <4>3. LastWord(i)
          BY <4>2 DEF LastWord
        <4> QED
          BY <1>4, <4>1, <4>3 DEF PageInv, SessionInv, LastIsTrue
      <3>2. ThenAllIsHeard'
        BY <1>1, <1>2, <1>4, <2>1, <2>4, <2>6 DEF PageInv, SessionInv, ThenAllIsHeard, LastIsTrue, LastWord
      <3>3. AnswersFollowEvents'
        BY <1>1, <1>2, <1>4, <2>1, <2>4, <2>6 DEF PageInv, SessionInv, AnswersFollowEvents
      <3>4. NothingHasChanged'
        BY <1>1, <1>2, <1>4, <2>1, <2>4, <2>6 DEF PageInv, SessionInv, NothingHasChanged
      <3> QED
        BY <3>1, <3>2, <3>3, <3>4 DEF SessionInv
    <2> QED
      BY <2>7, <2>8
  <1> QED
    BY <1>3, <1>4

\* The page hears of the answer to getSession, or it presses a button.
LEMMA GetSessionKeeps ==
    ASSUME PageInv, GetSession \/ Press
    PROVE  PageTypeOK' /\ SessionInv'
  <1> USE DEF GetSession, Press, pageVars, serverVars
  <1>1. UNCHANGED <<gateway, channel, heard, session, early>>
    OBVIOUS
  <1>2. PageTypeOK'
    BY DEF PageInv, PageTypeOK
  <1>3. CASE GetSession
    BY <1>1, <1>3, FrontendAssumption 
    DEF PageInv, PageTypeOK, SessionInv, LastIsTrue, ThenAllIsHeard, AnswersFollowEvents,
        NothingHasChanged, LastWord, Sessions, SignedOut
  <1>4. CASE Press
    <2>1. UNCHANGED <<gateway, channel, initial, heard, session>>
      BY <1>4
    <2> QED
      BY <2>1
      DEF PageInv, PageTypeOK, SessionInv, LastIsTrue, ThenAllIsHeard, AnswersFollowEvents,
          NothingHasChanged, LastWord
  <1> QED
    BY <1>2, <1>3, <1>4

LEMMA InitialAnswerKeeps ==
    ASSUME PageInv, InitialAnswer
    PROVE  PageInv'
  <1> USE DEF InitialAnswer
  <1> DEFINE first == IF initial = "failed" THEN SignedOut ELSE initial
  <1>1. UNCHANGED <<gateway, channel, heard, submitting, db, early>> /\ initial' = "done"
    OBVIOUS
  <1>2. first \in Sessions
    BY DEF PageInv, PageTypeOK, Sessions
  <1>3. "done" \notin Sessions /\ "failed" \notin Sessions
    BY FrontendAssumption DEF Sessions, SignedOut
  <1>4. CASE heard
    <2>1. UNCHANGED <<session, workspace, loads, asked, own, change>>
      BY <1>4 DEF pageVars
    <2>2. ViewInv'
      BY <1>1, <2>1, ViewStays DEF PageInv, pageVars, serverVars
    <2>3. PageTypeOK'
      BY <1>1, <2>1 DEF PageInv, PageTypeOK
    <2>4. SessionInv'
      BY <1>1, <1>4, <2>1
      DEF PageInv, SessionInv, LastIsTrue, ThenAllIsHeard, AnswersFollowEvents,
          NothingHasChanged, LastWord
    <2> QED
      BY <2>2, <2>3, <2>4 DEF PageInv
  <1>5. CASE ~heard
    <2>1. Become(first)
      BY <1>5
    <2> HIDE DEF first
    <2>2. ViewInv' /\ session' = first
      BY <1>1, <1>2, <2>1, BecomeKeeps DEF PageInv
    <2>3. PageTypeOK'
      BY <1>1, <1>2, <2>2 DEF PageInv, PageTypeOK
    <2>4. (\A i \in DOMAIN channel : channel[i].kind # "event") => first \in {gateway, SignedOut}
      <3>1. initial \in Sessions \/ first = SignedOut
        BY <1>2 DEF first
      <3>2. initial \in Sessions => first = initial
        BY <1>3 DEF first
      <3> QED
        BY <1>5, <3>1, <3>2 DEF PageInv, SessionInv, NothingHasChanged
    <2>5. SessionInv'
      BY <1>1, <1>3, <1>5, <2>2, <2>4
      DEF PageInv, SessionInv, LastIsTrue, ThenAllIsHeard, AnswersFollowEvents,
          NothingHasChanged, LastWord
    <2> QED
      BY <2>2, <2>3, <2>5 DEF PageInv
  <1> QED
    BY <1>4, <1>5

LEMMA DeliverKeeps ==
    ASSUME PageInv, Deliver
    PROVE  PageInv'
  <1> USE DEF Deliver
  <1> DEFINE message == Head(channel)
  <1>1. /\ UNCHANGED <<gateway, initial, db, early>>
        /\ heard' = (heard \/ message.kind = "event")
        /\ submitting' = IF message.kind = "event" THEN submitting ELSE "no"
    OBVIOUS
  <1>2. /\ channel \in Seq(Message) /\ Len(channel) \in Nat \ {0}
        /\ message = channel[1] /\ message \in Message
        /\ channel' \in Seq(Message) /\ Len(channel') = Len(channel) - 1
        /\ \A i \in 1..(Len(channel) - 1) : channel'[i] = channel[i + 1]
        /\ DOMAIN channel = 1..Len(channel) /\ DOMAIN channel' = 1..(Len(channel) - 1)
    BY DEF PageInv, PageTypeOK
  <1>3. \A i \in 2..Len(channel) : i - 1 \in DOMAIN channel' /\ channel'[i - 1] = channel[i]
    BY <1>2
  <1>4. /\ message.kind \in {"event", "answer", "failure"}
        /\ message.kind # "failure" => message.session \in Sessions
    BY <1>2, MessageTypes
  <1>5. message.kind = "answer" => heard
    BY <1>2 DEF PageInv, SessionInv, AnswersFollowEvents
  <1>8. \A i \in DOMAIN channel' :
            i \in Int /\ i + 1 \in DOMAIN channel /\ channel'[i] = channel[i + 1]
    BY <1>2
  <1>9. \A i \in 0..(Len(channel) - 1) : LastWord(i)' => LastWord(i + 1)
    <2> SUFFICES ASSUME NEW i \in 0..(Len(channel) - 1), LastWord(i)',
                        NEW j \in DOMAIN channel, j > i + 1
                 PROVE  channel[j].kind = "failure"
      BY DEF LastWord
    <2>1. j \in 2..Len(channel) /\ j - 1 > i
      BY <1>2
    <2> QED
      BY <1>3, <2>1 DEF LastWord
  <1>6. CASE message.kind = "failure"
    <2>1. UNCHANGED <<session, workspace, loads, asked, own, change>> /\ heard' = heard
      BY <1>6 DEF pageVars, PageInv, PageTypeOK
    <2>2. ViewInv'
      BY <1>1, <2>1, ViewStays DEF PageInv, pageVars, serverVars
    <2>3. PageTypeOK'
      BY <1>1, <1>2, <2>1, FrontendAssumption DEF PageInv, PageTypeOK
    <2>4. SessionInv'
      <3>1. LastIsTrue'
        BY <1>1, <1>2, <1>8, <1>9 DEF PageInv, SessionInv, LastIsTrue
      <3>2. ThenAllIsHeard'
        <4>1. LastWord(0)' => LastWord(1)
          BY <1>2, <1>9
        <4>2. LastWord(1) => LastWord(0)
          BY <1>2, <1>6 DEF LastWord
        <4> QED
          BY <1>1, <2>1, <4>1, <4>2 DEF PageInv, SessionInv, ThenAllIsHeard
      <3>3. AnswersFollowEvents'
        <4> SUFFICES ASSUME NEW i \in DOMAIN channel', channel'[i].kind = "answer", ~heard
                     PROVE  \E j \in DOMAIN channel' : j < i /\ channel'[j].kind = "event"
          BY <2>1 DEF AnswersFollowEvents
        <4>1. PICK j \in DOMAIN channel : j < i + 1 /\ channel[j].kind = "event"
          BY <1>8 DEF PageInv, SessionInv, AnswersFollowEvents
        <4>2. j \in 2..Len(channel)
          BY <1>2, <1>6, <4>1
        <4>3. j - 1 \in DOMAIN channel' /\ channel'[j - 1].kind = "event" /\ j - 1 < i
          BY <1>3, <1>8, <4>1, <4>2
        <4> QED
          BY <4>3
      <3>4. NothingHasChanged'
        <4>1. ASSUME \A i \in DOMAIN channel' : channel'[i].kind # "event",
                     NEW i \in DOMAIN channel
              PROVE  channel[i].kind # "event"
          <5>1. i = 1 \/ i \in 2..Len(channel)
            BY <1>2
          <5> QED
            BY <1>2, <1>3, <1>6, <4>1, <5>1
        <4> QED
          BY <1>1, <2>1, <4>1 DEF PageInv, SessionInv, NothingHasChanged
      <3> QED
        BY <3>1, <3>2, <3>3, <3>4 DEF SessionInv
    <2> QED
      BY <2>2, <2>3, <2>4 DEF PageInv
  <1>7. CASE message.kind # "failure"
    <2>1. Become(message.session)
      BY <1>7
    <2>2. ViewInv' /\ session' = message.session
      BY <1>1, <1>4, <1>7, <2>1, BecomeKeeps DEF PageInv
    <2>3. heard' = TRUE
      BY <1>1, <1>4, <1>5, <1>7
    <2>4. PageTypeOK'
      BY <1>1, <1>2, <1>4, <1>7, <2>2, <2>3, FrontendAssumption DEF PageInv, PageTypeOK
    <2>5. SessionInv'
      <3>1. LastIsTrue'
        BY <1>1, <1>2, <1>8, <1>9 DEF PageInv, SessionInv, LastIsTrue
      <3>2. ThenAllIsHeard'
        <4>1. LastWord(0)' => LastWord(1)
          BY <1>2, <1>9
        <4> QED
          BY <1>1, <1>2, <1>7, <2>2, <4>1 DEF PageInv, SessionInv, ThenAllIsHeard, LastIsTrue
      <3>3. AnswersFollowEvents'
        BY <1>1, <1>2, <1>3, <1>7, <2>2, <2>3 DEF PageInv, SessionInv, AnswersFollowEvents
      <3>4. NothingHasChanged'
        BY <1>1, <1>2, <1>3, <1>7, <2>2, <2>3 DEF PageInv, SessionInv, NothingHasChanged
      <3> QED
        BY <3>1, <3>2, <3>3, <3>4 DEF SessionInv
    <2> QED
      BY <2>2, <2>4, <2>5 DEF PageInv
  <1> QED
    BY <1>6, <1>7

\* What happens to loads and changes is no message about the session.
LEMMA SessionStays ==
    ASSUME PageInv, UNCHANGED <<authVars, session, early>>
    PROVE  PageTypeOK' /\ SessionInv'
  BY DEF authVars, PageInv, PageTypeOK, SessionInv, LastIsTrue,
         ThenAllIsHeard, AnswersFollowEvents, NothingHasChanged, LastWord

LEMMA NextPageInv == PageInv /\ [Next]_vars => PageInv'
  <1> SUFFICES ASSUME PageInv, [Next]_vars PROVE PageInv'
    OBVIOUS
  <1>1. CASE GatewayChanges \/ GatewayAnswers \/ GetSession \/ Press
    <2>1. UNCHANGED <<pageVars, serverVars>>
      BY <1>1 DEF GatewayChanges, GatewayAnswers, GetSession, Press
    <2>2. ViewInv'
      BY <2>1, ViewStays DEF PageInv
    <2>3. PageTypeOK' /\ SessionInv'
      BY <1>1, GatewayChangesKeeps, GatewayAnswersKeeps, GetSessionKeeps
    <2> QED
      BY <2>2, <2>3 DEF PageInv
  <1>2. CASE InitialAnswer \/ Deliver
    BY <1>2, InitialAnswerKeeps, DeliverKeeps
  <1>3. ASSUME NEW l \in loads, ServerReads(l) \/ LoadArrives(l) \/ LoadFails(l)
        PROVE  PageInv'
    <2>1. UNCHANGED <<authVars, session, early>>
      BY <1>3 DEF ServerReads, LoadArrives, LoadFails, serverVars
    <2>2. ViewInv'
      BY <1>3, ServerReadsKeeps, LoadArrivesKeeps, LoadFailsKeeps DEF PageInv
    <2> QED
      BY <2>1, <2>2, SessionStays DEF PageInv
  <1>4. ASSUME NEW range \in Ranges, Move(range)
        PROVE  PageInv'
    <2>1. UNCHANGED <<authVars, session, early>>
      BY <1>4 DEF Move, serverVars
    <2> QED
      BY <1>4, <2>1, MoveKeeps, SessionStays DEF PageInv
  <1>5. CASE SendChange \/ CommitChange \/ AnswerChange \/ ChangeFails \/ ChangeElsewhere
    <2>1. UNCHANGED <<authVars, session, early>>
      BY <1>5 DEF SendChange, CommitChange, AnswerChange, ChangeFails, ChangeElsewhere, pageVars
    <2>2. ViewInv'
      BY <1>5, SendChangeKeeps, CommitChangeKeeps, AnswerChangeKeeps, ChangeEndsKeeps DEF PageInv
    <2> QED
      BY <2>1, <2>2, SessionStays DEF PageInv
  <1>6. CASE UNCHANGED vars
    BY <1>6, ViewStays, SessionStays DEF vars, PageInv, pageVars, serverVars
  <1> QED
    BY <1>1, <1>2, <1>3, <1>4, <1>5, <1>6 DEF Next

LEMMA PageInvariance == Spec => []PageInv
  BY InitPageInv, NextPageInv, PTL DEF Spec

\* The values of the page have their types: at most one load is not aborted, and
\* only who is signed in has a Workspace.
THEOREM PageTypeCorrect == Spec => []TypeOK
  <1>1. ASSUME PageInv PROVE TypeOK
    <2>1. Cardinality(loads) <= 1
      <3>1. loads = {} \/ \E l \in Load : loads = {l}
        BY <1>1 DEF PageInv, ViewInv, LoadsAwaited
      <3>2. loads = {} => Cardinality(loads) = 0
        BY FS_EmptySet
      <3>3. \A l : Cardinality({l}) = 1
        BY FS_Singleton
      <3> QED
        BY <3>1, <3>2, <3>3
    <2> QED
      BY <1>1, <2>1 DEF PageInv, PageTypeOK, ViewInv, ViewTypeOK, TypeOK
  <1> QED
    BY <1>1, PageInvariance, PTL

\* useAuthSession ends up with the session that Supabase has, however the answer to
\* getSession, events and answers to the buttons come, and however many they are.
THEOREM SessionFollows == Spec => []SessionSettles
  <1>1. ASSUME PageInv PROVE SessionSettles
    <2> SUFFICES ASSUME channel = <<>>, initial = "done"
                 PROVE  session = gateway \/ (~heard /\ session = SignedOut)
      BY DEF SessionSettles
    <2>1. DOMAIN channel = {}
      OBVIOUS
    <2> QED
      BY <1>1, <2>1
      DEF PageInv, SessionInv, LastIsTrue, ThenAllIsHeard, AnswersFollowEvents,
          NothingHasChanged, LastWord
  <1> QED
    BY <1>1, PageInvariance, PTL

\* RangeData never shows what it no longer asks for.
THEOREM ViewStaysCurrent == Spec => []ViewIsCurrent
  <1>1. PageInv => ViewIsCurrent
    BY DEF PageInv, ViewInv
  <1> QED
    BY <1>1, PageInvariance, PTL

\* A change made here is in what the managers show of it, when it is committed
\* before it is answered.
THEOREM ChangesShow == Spec => []OwnChangeShown
  <1>1. ASSUME PageInv PROVE OwnChangeShown
    <2> SUFFICES ASSUME early, Shows, loads = {}
                 PROVE  workspace.shown.shifts >= own /\ workspace.shown.summary >= own
      BY DEF OwnChangeShown
    <2>1. workspace \in Workspaces /\ workspace.shown \in Data
      BY <1>1, MountedIsSignedIn DEF PageInv, ViewInv, Shows, Workspaces
    <2>2. workspace.shown.shifts >= asked /\ workspace.shown.summary >= asked
      BY <1>1 DEF PageInv, ViewInv, ViewIsCurrent, Shows
    <2>3. own <= asked /\ own \in Int /\ asked \in Int
      BY <1>1 DEF PageInv, ViewInv, ViewTypeOK, ChangesTold
    <2>4. workspace.shown.shifts \in Int /\ workspace.shown.summary \in Int
      BY <2>1 DEF Data, Versions
    <2> QED
      BY <2>2, <2>3, <2>4
  <1> QED
    BY <1>1, PageInvariance, PTL
=============================================================================
