------------------------------ MODULE Frontend ------------------------------
(***************************************************************************)
(* The browser side: useAuthSession follows the Supabase session, App      *)
(* mounts the Workspace of whoever is signed in, and RangeData shows the   *)
(* shifts and the summary of a range, loads them again after a change and  *)
(* ignores the answers it no longer waits for.                             *)
(*                                                                         *)
(* The session itself is Supabase's; its events and the answers to sign-in *)
(* and sign-out reach the page in the order they happen (BroadcastChannel  *)
(* and promises of one client), the answer to getSession at any time.      *)
(* Data on the server is the number of changes made to it.  React renders  *)
(* after every event: a component that is left is unmounted, and what      *)
(* still arrives for it changes nothing.                                   *)
(***************************************************************************)
EXTENDS Integers, Sequences, FiniteSets

CONSTANTS
    Tokens,      \* access tokens
    UserOf,      \* token: its user
    Ranges,      \* months and weeks that can be shown
    Today,       \* the range a Workspace starts with
    MaxChannel,  \* bound: messages on their way to the page
    MaxChanges   \* bound: changes on the server

SignedOut == "signed-out"
Loading == "loading"
Sessions == Tokens \cup {SignedOut}

ASSUME FrontendAssumption ==
    /\ {SignedOut, Loading, "asked", "failed", "done"} \cap Tokens = {}
    /\ DOMAIN UserOf = Tokens
    /\ Today \in Ranges
    /\ MaxChannel \in Nat /\ MaxChanges \in Nat

VARIABLES
    gateway,     \* Supabase: the session
    channel,     \* messages to the page: auth events, answers to sign-in and sign-out
    initial,     \* getSession: "asked", its answer, or "done"
    heard,       \* useAuthSession: revision # initialRevision
    session,     \* useAuthSession: state
    submitting,  \* useAuthSession: the button whose answer is awaited, or "no"
    workspace,   \* Workspace and its RangeData, or NoWorkspace
    loads,       \* loads of RangeData in progress that are not aborted
    change,      \* the request of a manager in progress
    db,          \* server: changes committed
    early,       \* server: whether FastAPI commits before it answers
    asked,       \* auxiliary: db when the last load began
    own          \* auxiliary: db with the last change this Workspace was told of

authVars == <<gateway, channel, initial, heard, submitting>>
pageVars == <<session, workspace, loads, asked, own>>
serverVars == <<change, db, early>>
vars == <<authVars, pageVars, serverVars>>

NotRead == -1
Versions == 0..MaxChanges
NoData == [user |-> "none"]
NoWorkspace == [range |-> "none"]
NoChange == [at |-> "none", here |-> FALSE]
Message == [kind: {"event", "answer"}, session: Sessions] \cup [kind: {"failure"}]

Load == [token: Tokens, range: Ranges, shifts: Versions \cup {NotRead},
         summary: Versions \cup {NotRead}]
Data == [user: {UserOf[t] : t \in Tokens}, range: Ranges, shifts: Versions, summary: Versions]
Workspaces == [range: Ranges, shown: Data \cup {NoData}, error: BOOLEAN]

TypeOK ==
    /\ gateway \in Sessions
    /\ channel \in Seq(Message) /\ Len(channel) <= MaxChannel
    /\ initial \in Sessions \cup {"asked", "failed", "done"}
    /\ heard \in BOOLEAN /\ submitting \in {"no", "in", "out"} /\ early \in BOOLEAN
    /\ session \in Sessions \cup {Loading}
    /\ workspace \in IF session \in Tokens THEN Workspaces ELSE {NoWorkspace}
    /\ loads \subseteq Load /\ Cardinality(loads) <= 1
    /\ change \in [at: {"none", "sent", "committed", "answered"}, here: BOOLEAN]
    /\ db \in Versions /\ asked \in 0..db /\ own \in 0..(MaxChanges + 1)

Init ==
    /\ gateway \in Sessions
    /\ channel = <<>>
    /\ initial = "asked"
    /\ heard = FALSE
    /\ session = Loading
    /\ submitting = "no"
    /\ workspace = NoWorkspace
    /\ loads = {}
    /\ change = NoChange
    /\ db = 0
    /\ early \in BOOLEAN
    /\ asked = 0
    /\ own = 0

-----------------------------------------------------------------------------
(* RangeData. *)

\* What if the effect had no clean-up.
AbortedNot(all) == all

\* What is left of the loads when the effect runs again: controller.abort().
Aborted(all) == {l \in all : FALSE}

\* The effect: listShifts and getAnalyticsSummary, with the token of the client.
StartLoad(token, range, others) ==
    /\ loads' = others \cup {[token |-> token, range |-> range, shifts |-> NotRead, summary |-> NotRead]}
    /\ asked' = db

Mounted(range) == [range |-> range, shown |-> NoData, error |-> FALSE]

\* A new key: another RangeData, which starts empty.
Remount(range) ==
    /\ workspace' = Mounted(range)
    /\ StartLoad(session, range, {})

\* Another client or range object for the same key.
Rerun(token) ==
    /\ StartLoad(token, workspace.range, Aborted(loads))
    /\ UNCHANGED workspace

Leave ==
    /\ workspace' = NoWorkspace
    /\ loads' = {}
    /\ UNCHANGED <<asked, own>>

\* A manager that goes with its Workspace tells nobody of its change.
ChangeLeft(next) ==
    IF next \in Tokens THEN UNCHANGED change ELSE change' = [change EXCEPT !.here = FALSE]

\* App: the Workspace of who is signed in, with a client per access token.
Become(next) ==
    /\ session' = next
    /\ ChangeLeft(next)
    /\ CASE next \notin Tokens -> Leave
         [] next \in Tokens /\ workspace = NoWorkspace ->
                /\ workspace' = Mounted(Today)
                /\ StartLoad(next, Today, loads)
                /\ own' = 0
         [] next \in Tokens /\ workspace # NoWorkspace /\ next # session ->
                Rerun(next) /\ UNCHANGED own
         [] OTHER -> UNCHANGED <<workspace, loads, asked, own>>

-----------------------------------------------------------------------------
(* useAuthSession, and Supabase. *)

Send(messages) ==
    /\ Len(channel \o messages) <= MaxChannel
    /\ channel' = channel \o messages

Event(s) == [kind |-> "event", session |-> s]

\* The session is refreshed, or begins, ends or is replaced in another tab.
GatewayChanges ==
    \E s \in Sessions :
        /\ s # gateway
        /\ gateway' = s
        /\ Send(<<Event(s)>>)
        /\ UNCHANGED <<initial, heard, submitting, pageVars, serverVars>>

GetSession ==
    /\ initial = "asked"
    /\ initial' \in {gateway, "failed"}
    /\ UNCHANGED <<gateway, channel, heard, submitting, pageVars, serverVars>>

\* What if a late answer counted.
InitialAnswerLate ==
    /\ initial \notin {"asked", "done"}
    /\ initial' = "done"
    /\ Become(IF initial = "failed" THEN SignedOut ELSE initial)
    /\ UNCHANGED <<gateway, channel, heard, submitting, db, early>>

\* An answer counts unless an event has been heard.
InitialAnswer ==
    /\ initial \notin {"asked", "done"}
    /\ initial' = "done"
    /\ IF heard THEN UNCHANGED <<pageVars, change>>
       ELSE Become(IF initial = "failed" THEN SignedOut ELSE initial)
    /\ UNCHANGED <<gateway, channel, heard, submitting, db, early>>

\* signIn when the page is signed out, signOut when it is signed in.
Press ==
    /\ session # Loading
    /\ submitting = "no"
    /\ submitting' = IF session = SignedOut THEN "in" ELSE "out"
    /\ UNCHANGED <<gateway, channel, initial, heard, pageVars, serverVars>>

\* The answer is to what was pressed, whoever is signed in by then.
GatewayAnswers ==
    /\ submitting # "no"
    /\ ~\E i \in DOMAIN channel : channel[i].kind # "event"
    /\ \/ \E s \in Sessions :
            /\ (s \in Tokens) = (submitting = "in")
            /\ gateway' = s
            /\ Send(<<Event(s), [kind |-> "answer", session |-> s]>>)
       \/ Send(<<[kind |-> "failure"]>>) /\ UNCHANGED gateway
    /\ UNCHANGED <<initial, heard, submitting, pageVars, serverVars>>

\* The listener, or what follows the await.
Deliver ==
    /\ channel # <<>>
    /\ channel' = Tail(channel)
    /\ LET message == Head(channel)
       IN  /\ heard' = (heard \/ message.kind = "event")
           /\ submitting' = IF message.kind = "event" THEN submitting ELSE "no"
           /\ IF message.kind = "failure" THEN UNCHANGED <<pageVars, change>>
              ELSE Become(message.session)
    /\ UNCHANGED <<gateway, initial, db, early>>

-----------------------------------------------------------------------------
(* Loads and changes. *)

\* Two requests, each read by the server at its own time.
ServerReads(l) ==
    /\ \/ l.shifts = NotRead /\ loads' = (loads \ {l}) \cup {[l EXCEPT !.shifts = db]}
       \/ l.summary = NotRead /\ loads' = (loads \ {l}) \cup {[l EXCEPT !.summary = db]}
    /\ UNCHANGED <<authVars, session, workspace, asked, own, serverVars>>

LoadArrives(l) ==
    /\ l.shifts # NotRead /\ l.summary # NotRead
    /\ loads' = loads \ {l}
    /\ workspace' = [workspace EXCEPT !.shown =
           [user |-> UserOf[l.token], range |-> l.range, shifts |-> l.shifts, summary |-> l.summary]]
    /\ UNCHANGED <<authVars, session, asked, own, serverVars>>

\* No network, an expired token, a shift without a rate: the error stays.
LoadFails(l) ==
    /\ loads' = loads \ {l}
    /\ workspace' = [workspace EXCEPT !.error = TRUE]
    /\ UNCHANGED <<authVars, session, asked, own, serverVars>>

\* Another month or week, or another day of the one that is shown.
Move(range) ==
    /\ workspace # NoWorkspace
    /\ IF range = workspace.range THEN Rerun(session) ELSE Remount(range)
    /\ UNCHANGED <<authVars, session, own, serverVars>>

Shows == workspace # NoWorkspace /\ workspace.shown # NoData /\ ~workspace.error

\* The managers are there when there is data; "bound": one request at a time.
SendChange ==
    /\ Shows
    /\ change = NoChange
    /\ change' = [at |-> "sent", here |-> TRUE]
    /\ UNCHANGED <<authVars, pageVars, db, early>>

CommitChange ==
    /\ change.at \in {"sent", "answered"}
    /\ db < MaxChanges
    /\ db' = db + 1
    /\ change' = IF change.at = "sent" THEN [change EXCEPT !.at = "committed"] ELSE NoChange
    /\ UNCHANGED <<authVars, pageVars, early>>

\* The server with the change that is answered, which may still be uncommitted.
Told == IF change.at = "sent" THEN db + 1 ELSE db

\* What if onChanged were forgotten.
AnswerChangeSilently ==
    /\ change.at = "committed" \/ (change.at = "sent" /\ ~early)
    /\ change' = IF change.at = "sent" THEN [change EXCEPT !.at = "answered"] ELSE NoChange
    /\ own' = IF change.here THEN Told ELSE own
    /\ UNCHANGED <<authVars, session, workspace, loads, asked, db, early>>

\* onChanged: reloadVersion + 1, so that RangeData has another key.
AnswerChange ==
    /\ change.at = "committed" \/ (change.at = "sent" /\ ~early)
    /\ change' = IF change.at = "sent" THEN [change EXCEPT !.at = "answered"] ELSE NoChange
    /\ IF change.here
       THEN own' = Told /\ Remount(workspace.range)
       ELSE UNCHANGED <<own, workspace, loads, asked>>
    /\ UNCHANGED <<authVars, session, db, early>>

\* Refused, rolled back after its answer, or answered to nobody.
ChangeFails ==
    /\ change # NoChange
    /\ change' = NoChange
    /\ UNCHANGED <<authVars, pageVars, db, early>>

ChangeElsewhere ==
    /\ db < MaxChanges
    /\ db' = db + 1
    /\ UNCHANGED <<authVars, pageVars, change, early>>

-----------------------------------------------------------------------------
Next ==
    \/ GatewayChanges \/ GetSession \/ InitialAnswer
    \/ Press \/ GatewayAnswers \/ Deliver
    \/ \E l \in loads : ServerReads(l) \/ LoadArrives(l) \/ LoadFails(l)
    \/ \E range \in Ranges : Move(range)
    \/ SendChange \/ CommitChange \/ AnswerChange \/ ChangeFails \/ ChangeElsewhere

Spec == Init /\ [][Next]_vars

-----------------------------------------------------------------------------
(* When nothing is on its way the page is signed in as Supabase says, in   *)
(* whatever order the first answer, the events of other tabs and the       *)
(* answers to the buttons came.                                            *)
SessionSettles ==
    channel = <<>> /\ initial = "done" => session = gateway \/ (~heard /\ session = SignedOut)

(* What is shown was loaded for the range that is selected.  When no load  *)
(* is in progress and none has failed, data is shown, it is that of the    *)
(* user who is signed in, and it is not older than the moment the page     *)
(* last asked for it: the answer of an older load never replaces that of a *)
(* newer one.                                                              *)
ViewIsCurrent ==
    /\ Shows => workspace.shown.range = workspace.range
    /\ workspace # NoWorkspace /\ loads = {} /\ ~workspace.error =>
        /\ workspace.shown # NoData
        /\ workspace.shown.user = UserOf[session]
        /\ workspace.shown.shifts >= asked
        /\ workspace.shown.summary >= asked

(* A change that the page was told of is in what it shows, when the server *)
(* commits before it answers, unless the load after it is still to come.   *)
OwnChangeShown ==
    early /\ Shows /\ loads = {} =>
        workspace.shown.shifts >= own /\ workspace.shown.summary >= own
=============================================================================
