------------------------------- MODULE OAuth --------------------------------
(***************************************************************************)
(* Connecting a Google calendar: GET /calendar/connect issues a state and  *)
(* sets it, encrypted, as the one cookie of the browser; Google sends the  *)
(* browser back with a code; GET /calendar/callback compares the two,      *)
(* exchanges the code and stores the tokens for the owner in the cookie.   *)
(* Tabs may run several flows at once, a callback may be opened again, and *)
(* while it waits for Google anything else may happen.                     *)
(*                                                                         *)
(* Encryption and the PKCE verifier are as good as their names: a cookie   *)
(* is what was issued, a code fits the verifier of its own flow only.      *)
(* Responses reach the browser at once.                                    *)
(***************************************************************************)
EXTENDS Clock

CONSTANTS
    Owners,
    Flows,      \* states, each drawn at random by one connect
    Callbacks,  \* callback requests in progress
    StateTTL    \* STATE_TTL and max_age of the cookie, in ticks

VARIABLES
    flow,        \* flow: where it is, its owner, when it was issued
    cookie,      \* browser: the flow in its cookie, or NoFlow
    callback,    \* callback request: where it is, the flow of its code
    connection,  \* calendar_connections: the row of each owner, or NotConnected
    begun,       \* auxiliary: flow: when the callback that connected it came
    answered     \* auxiliary: flows that a redirect has ended

oauthVars == <<flow, cookie, callback, connection, begun, answered>>

NoFlow == [none |-> TRUE]
NotConnected == [refresh |-> NoFlow, access |-> NoFlow]
Idle == [at |-> "idle", flow |-> NoFlow]

ASSUME OAuthAssumption == NoFlow \notin Flows /\ StateTTL \in Nat /\ Owners # {}

FlowType == [at: {"new", "issued", "consented", "exchanged"}, owner: Owners, issued: Int]

OAuthTypeOK ==
    /\ flow \in [Flows -> FlowType]
    /\ cookie \in Flows \cup {NoFlow}
    /\ callback \in [Callbacks -> [at: {"exchanging", "saving", "answering"}, flow: Flows,
                                   fresh: BOOLEAN, came: Times] \cup {Idle}]
    /\ connection \in [Owners -> [refresh: Flows \cup {NoFlow}, access: Flows \cup {NoFlow}]]
    /\ begun \in [Flows -> Int]
    /\ answered \subseteq Flows

OAuthInit ==
    /\ flow = [f \in Flows |-> [at |-> "new", owner |-> CHOOSE o \in Owners : TRUE, issued |-> -1]]
    /\ cookie = NoFlow
    /\ callback = [c \in Callbacks |-> Idle]
    /\ connection = [o \in Owners |-> NotConnected]
    /\ begun = [f \in Flows |-> -1]
    /\ answered = {}

-----------------------------------------------------------------------------
\* connect_calendar: whoever is signed in; the cookie replaces another one.
Connect(f, owner) ==
    /\ flow[f].at = "new"
    /\ flow' = [flow EXCEPT ![f] = [at |-> "issued", owner |-> owner, issued |-> now]]
    /\ cookie' = f
    /\ UNCHANGED <<callback, connection, begun, answered>>

\* The owner agrees on Google's page.
Consent(f) ==
    /\ flow[f].at = "issued"
    /\ flow' = [flow EXCEPT ![f].at = "consented"]
    /\ UNCHANGED <<cookie, callback, connection, begun, answered>>

\* What if only the cookie had a limit, which a browser may ignore.
VerifiedAtAnyAge(f) == cookie = f

\* OAuthStateManager.verify
Verified(f) == cookie = f /\ now - flow[f].issued <= StateTTL

\* 400: no cookie, or one that is expired or of another flow; it stays.
CallbackRefused(f) ==
    /\ flow[f].at \in {"consented", "exchanged"}
    /\ ~Verified(f)
    /\ UNCHANGED oauthVars

CallbackBegins(c, f) ==
    /\ callback[c] = Idle
    /\ flow[f].at \in {"consented", "exchanged"}
    /\ Verified(f)
    /\ callback' = [callback EXCEPT ![c] = [at |-> "exchanging", flow |-> f, fresh |-> FALSE, came |-> now]]
    /\ UNCHANGED <<flow, cookie, connection, begun, answered>>

\* exchange_code: Google takes a code once; the answer may lack a refresh token.
Exchange(c) ==
    /\ callback[c].at = "exchanging"
    /\ flow[callback[c].flow].at = "consented"
    /\ flow' = [flow EXCEPT ![callback[c].flow].at = "exchanged"]
    /\ \E fresh \in BOOLEAN :
        callback' = [callback EXCEPT ![c].at = "saving", ![c].fresh = fresh]
    /\ UNCHANGED <<cookie, connection, begun, answered>>

\* Google refuses, or cannot be reached before or after it has taken the code;
\* or the scope that is needed was not granted: a redirect to the error page.
ExchangeFails(c) ==
    /\ callback[c].at = "exchanging"
    /\ \E taken \in BOOLEAN :
        flow' = IF taken THEN [flow EXCEPT ![callback[c].flow].at = "exchanged"] ELSE flow
    /\ callback' = [callback EXCEPT ![c].at = "answering"]
    /\ UNCHANGED <<cookie, connection, begun, answered>>

\* save_connection: without a new refresh token the old one is kept.
StoredRow(f, fresh, row) == [refresh |-> IF fresh THEN f ELSE row.refresh, access |-> f]

Save(c) ==
    LET f == callback[c].flow
        owner == flow[f].owner
    IN  /\ callback[c].at = "saving"
        /\ callback[c].fresh \/ connection[owner] # NotConnected
        /\ connection' = [connection EXCEPT ![owner] = StoredRow(f, callback[c].fresh, @)]
        /\ callback' = [callback EXCEPT ![c].at = "answering"]
        /\ begun' = [begun EXCEPT ![f] = callback[c].came]
        /\ UNCHANGED <<flow, cookie, answered>>

\* CALENDAR_REFRESH_TOKEN_MISSING
SaveRefused(c) ==
    LET owner == flow[callback[c].flow].owner
    IN  /\ callback[c].at = "saving"
        /\ ~callback[c].fresh /\ connection[owner] = NotConnected
        /\ callback' = [callback EXCEPT ![c].at = "answering"]
        /\ UNCHANGED <<flow, cookie, connection, begun, answered>>

\* What if it did not name the path that the cookie was set with.
RedirectElsewhere(c) ==
    /\ callback[c].at = "answering"
    /\ callback' = [callback EXCEPT ![c] = Idle]
    /\ answered' = answered \cup {callback[c].flow}
    /\ UNCHANGED <<flow, cookie, connection, begun>>

\* The redirect deletes the cookie of that name, whichever flow is in it.
Redirect(c) ==
    /\ callback[c].at = "answering"
    /\ callback' = [callback EXCEPT ![c] = Idle]
    /\ cookie' = NoFlow
    /\ answered' = answered \cup {callback[c].flow}
    /\ UNCHANGED <<flow, connection, begun>>

\* The server stops, or the database fails: 500, and the cookie stays.
CallbackLost(c) ==
    /\ callback[c] # Idle
    /\ callback' = [callback EXCEPT ![c] = Idle]
    /\ UNCHANGED <<flow, cookie, connection, begun, answered>>

\* A browser drops the cookie after max_age, or keeps it (a restored session).
CookieExpires ==
    /\ cookie # NoFlow
    /\ now - flow[cookie].issued >= StateTTL
    /\ cookie' = NoFlow
    /\ UNCHANGED <<flow, callback, connection, begun, answered>>

-----------------------------------------------------------------------------
(* Tokens are stored for the owner who began the flow they come from, and  *)
(* whose browser came back in time, however flows overlap; and who is      *)
(* connected has a refresh token: consenting again without getting one     *)
(* does not lose the one that was there.                                   *)
ConnectionsAreConsented ==
    \A o \in Owners : connection[o] # NotConnected =>
        /\ connection[o].refresh # NoFlow
        /\ \A f \in {connection[o].refresh, connection[o].access} :
            /\ flow[f].owner = o
            /\ flow[f].at = "exchanged"
            /\ begun[f] \in flow[f].issued..(flow[f].issued + StateTTL)

(* A flow that came to an end, connected or not, is over: opening its      *)
(* callback again does not verify, so that it cannot be exchanged or       *)
(* stored over what came later.                                            *)
AnsweredFlowsAreOver == cookie \notin answered
=============================================================================
