----------------------------- MODULE MCControl -----------------------------
(***************************************************************************)
(* Instances of the four modules of WorkspaceControl, small enough for one *)
(* run.                                                                    *)
(***************************************************************************)
EXTENDS WorkspaceControl

\* Two ideas with an id each, two orders; an order may be deferred, refused or
\* unreadable.
Order(kind) == [kind |-> kind, arg |-> 1]
MCSpecOf == [i \in {1, 2} |-> i]
MCOrders == {Order("add_idea"), Order("add_spec"), Order("cancel_work_item"), Order("unreadable")}

\* A rule for each kind of window; the session's is the loosest.
Rule(id, window, threshold) == [id |-> id, window |-> window, threshold |-> threshold]
MCRules == {Rule("five", "rolling_5h", 2), Rule("sess", "daemon_session", 4),
            Rule("week", "calendar_week", 3)}

\* The first asset is changed and changed back, the second changed and dropped,
\* the third added and changed.
MCShipped == << <<"v1", "v1", "none">>, <<"v2", "v2", "v1">>, <<"v1", "none", "v2">> >>

MCInit == ControlInit /\ (enabled \/ part = "budget")

MCSpec == MCInit /\ [][ControlNext]_controlVars
=============================================================================
