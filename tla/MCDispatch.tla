----------------------------- MODULE MCDispatch -----------------------------
(***************************************************************************)
(* Instances of the four modules of RunDispatch, small enough for one run. *)
(***************************************************************************)
EXTENDS RunDispatch, MCPlanStore

\* Two stages ask for the same approval, one of them with a second grant.
ApprovedNet ==
    [id |-> "net", required |-> TRUE, decision |-> "approval_required", own |-> FALSE,
     enforcement |-> "runtime_enforced", requires |-> {}, evidenced |-> TRUE]
GrantedFiles ==
    [ApprovedNet EXCEPT !.id = "fs", !.decision = "granted", !.requires = {"runner_completion"}]

MCGrantsOf == [build |-> {ApprovedNet}, review |-> {ApprovedNet, GrantedFiles}]
MCRunnerOf == [build |-> "codex", review |-> "pi_rpc"]

\* Task 3 depends on the other two, and task 2 belongs to no root.
MCDependsOn == [t \in {1, 2, 3} |-> IF t = 3 THEN {1, 2} ELSE {}]
MCRootOf == [t \in {1, 2, 3} |-> IF t = 2 THEN 0 ELSE 1]

\* The documents vary only where the plan store is what a behaviour exercises.
MCInit ==
    /\ DispatchInit
    /\ part # "plans" => configFile = "usual" /\ primFile = "base" /\ graphFiles["named"] = "good"

MCSpec == MCInit /\ [][DispatchNext]_dispatchVars
=============================================================================
