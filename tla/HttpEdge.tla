------------------------------ MODULE HttpEdge ------------------------------
(***************************************************************************)
(* The HTTP guard in front of the API, on one clock with what is behind    *)
(* it: every request to /api/v1 or /mcp is first allowed or refused by the *)
(* rate limiter, the two requests of a calendar flow among them; a refused *)
(* one does not get further.                                               *)
(***************************************************************************)
EXTENDS RateLimiter, OAuth

CONSTANT Browser    \* the peer whose browser connects a calendar

ASSUME HttpEdgeAssumption == Browser \in Peers

edgeVars == <<now, limiterVars, oauthVars>>

EdgeTypeOK == LimiterTypeOK /\ OAuthTypeOK

EdgeInit == LimiterInit /\ OAuthInit

\* guard: call_next, unless the answer is 429.
Guarded(peer, handler) == Allow(peer) /\ handler /\ UNCHANGED now

Routes ==
    \/ \E f \in Flows, o \in Owners : Connect(f, o)
    \/ \E f \in Flows : CallbackRefused(f) \/ \E c \in Callbacks : CallbackBegins(c, f)

OtherRequest(peer) == Guarded(peer, UNCHANGED oauthVars)

TooMany(peer) == Refuse(peer) /\ UNCHANGED <<now, oauthVars>>

Elsewhere ==
    /\ \/ \E f \in Flows : Consent(f)
       \/ \E c \in Callbacks : Exchange(c) \/ ExchangeFails(c) \/ Save(c) \/ SaveRefused(c)
                                  \/ Redirect(c) \/ CallbackLost(c)
       \/ CookieExpires
    /\ UNCHANGED <<now, limiterVars>>

EdgeNext ==
    \/ Guarded(Browser, Routes)
    \/ \E p \in Peers : OtherRequest(p) \/ TooMany(p)
    \/ Elsewhere
    \/ Tick /\ UNCHANGED oauthVars

EdgeSpec == EdgeInit /\ [][EdgeNext]_edgeVars
=============================================================================
