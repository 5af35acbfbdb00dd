---------------------------- MODULE MCEventLoop -----------------------------
(* EventLoop for two syncs of one owner, and for any mix of requests. *)
EXTENDS EventLoop, TLC

\* The requests that the second run starts from.
TwoSyncsInit ==
    /\ Init
    /\ \A r \in Requests : Kind(r) = "sync"
    /\ \A r, q \in Requests : Owner(r) = Owner(q)

TwoSyncsSpec ==
    TwoSyncsInit /\ [][Next]_vars /\ \A r \in Requests : SF_vars(Step(r))
=============================================================================
