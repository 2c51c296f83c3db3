---------------------------- MODULE MCPlanStore ----------------------------
(***************************************************************************)
(* Documents for PlanStore: two modes, four configs, and execution graphs *)
(* and primitives that some check of the compile refuses.                  *)
(***************************************************************************)
EXTENDS PlanStore

None == [x \in {} |-> ""]
Always(c) == [o \in DOMAIN c |-> {c[o]}]

Kind(plane, classes, success, failure, requests) ==
    [plane |-> plane, entry |-> "entry.md", legal |-> DOMAIN classes, success |-> success,
     failure |-> failure, classes |-> classes, overridable |-> {"skills", "timeout"},
     requests |-> requests, policies |-> <<>>, closure |-> plane = "planning"]

Shell == Request("shell.run", "execute", "workspace", FALSE, FALSE, "stage_kind")

MCStageKinds ==
    [builder |-> Kind("execution", [DONE |-> {"success"}, BLOCKED |-> {"blocked", "recoverable_failure"}],
                      {"DONE"}, {"BLOCKED"}, <<Shell>>),
     checker |-> Kind("execution", [PASS |-> {"success"}, FIX |-> {"failure"}], {"PASS"}, {"FIX"}, <<>>),
     planner |-> Kind("planning", [PLANNED |-> {"success"}], {"PLANNED"}, {}, <<>>),
     arbiter |-> Kind("planning", [COMPLETE |-> {"success"}, GAP |-> {"success"}],
                      {"COMPLETE", "GAP"}, {}, <<>>)]

Node(id, kind) ==
    [id |-> id, kind |-> kind, entry |-> "", skills |-> {"shared"}, runner |-> "", model |-> "",
     thinking |-> "", timeout |-> 0, requests |-> <<>>, policies |-> <<>>, overrides |-> <<>>]

Edge(id, from, on, to, term) ==
    [id |-> id, from |-> from, to |-> to, term |-> term, on |-> {on},
     kind |-> IF term = "" THEN "normal" ELSE "terminal", attempts |-> 0]

Execution(check, lasting) ==
    [loop |-> "execution.standard", plane |-> "execution",
     nodes |-> <<Node("builder", "builder"), Node("checker", "checker")>>,
     edges |-> <<Edge("built", "builder", "DONE", check, ""), Edge("passed", "checker", "PASS", "", "done"),
                 Edge("fix", "checker", "FIX", "builder", "")>>,
     entries |-> <<[key |-> "task", node |-> "builder"]>>,
     terms |-> <<[id |-> "done", class |-> "success"], [id |-> "blocked", class |-> "blocked"]>>,
     resumes |-> <<>>,
     thresholds |-> <<[id |-> "fixes", from |-> {"checker"}, on |-> lasting, counter |-> "fix_cycle",
                       threshold |-> 2, to |-> "", term |-> "blocked"]>>,
     completion |-> {}]

\* "dangling" leads to a node that is not there, "illegal" counts an outcome
\* that its stage kind does not have.
MCGraphDoc == [name \in GraphNames |->
    CASE name = "good" -> Execution("checker", "FIX")
      [] name = "dangling" -> Execution("tester", "FIX")
      [] name = "illegal" -> Execution("checker", "BLOCKED")]

Planning ==
    [loop |-> "planning.standard", plane |-> "planning",
     nodes |-> <<Node("planner", "planner"), Node("arbiter", "arbiter")>>,
     edges |-> <<Edge("planned", "planner", "PLANNED", "", "done"),
                 Edge("complete", "arbiter", "COMPLETE", "", "closed"),
                 Edge("gap", "arbiter", "GAP", "", "gap")>>,
     entries |-> <<[key |-> "spec", node |-> "planner"]>>,
     terms |-> <<[id |-> "done", class |-> "success"], [id |-> "closed", class |-> "success"],
                 [id |-> "gap", class |-> "followup"]>>,
     resumes |-> <<>>, thresholds |-> <<>>,
     completion |-> {[node |-> "arbiter", pass |-> "closed", gap |-> "gap"]}]

MCOtherGraphs == {Planning}

\* "shell" lets every node run a shell.
MCModeDoc == [name \in Modes |->
    [id |-> name, loops |-> [execution |-> "execution.standard", planning |-> "planning.standard"],
     entries |-> None, skills |-> None, runner |-> None, model |-> None, thinking |-> None,
     requests |-> IF name = "shell" THEN <<Shell>> ELSE <<>>,
     policies |-> IF name = "shell"
                  THEN <<[cap |-> "shell.run", scope |-> "", decision |-> "allow"]>> ELSE <<>>,
     stageRequests |-> None, stagePolicies |-> None,
     concurrency |-> [exclusive |-> {{"execution", "planning"}}, concurrent |-> {}],
     triggers |-> <<>>]]

\* "denying" denies the shell, "strict" refuses what nothing enforces, "zero"
\* sets a timeout of no seconds.
MCConfigDoc == [name \in ConfigNames |->
    [runner |-> None, model |-> None, thinking |-> None, effort |-> None,
     timeouts |-> [builder |-> IF name = "zero" THEN 0 ELSE 60], recovery |-> [fix_cycle |-> 2],
     caps |-> [enabled |-> TRUE, unknown |-> "deny", allowAdvisory |-> TRUE,
               failAdvisory |-> name = "strict",
               defaults |-> IF name = "denying" THEN [c \in {"shell.run"} |-> "deny"] ELSE None]]]

Rule(id, on) ==
    [id |-> id, node |-> "planner", on |-> {on}, handler |-> "planner_disposition",
     destination |-> "task", plan |-> "finish"]

\* "doubled" has two rules for one outcome, "unbound" a rule with no handler.
MCPrimDoc == [name \in PrimNames |->
    [families |-> {[id |-> "task", adapter |-> "file"], [id |-> "spec", adapter |-> "file"]},
     adapters |-> {[id |-> "file", families |-> {"task", "spec"}]},
     claims |-> {[plane |-> "execution", order |-> <<"task">>, empty |-> "idle"],
                 [plane |-> "planning", order |-> <<"spec">>, empty |-> "check_completion"]},
     actions |-> <<[id |-> "close", plan |-> "finish", class |-> "success", mutates |-> TRUE, rules |-> {}],
                   [id |-> "quarantine", plan |-> "block", class |-> "blocked", mutates |-> TRUE, rules |-> {}],
                   [id |-> "follow", plan |-> "none", class |-> "followup", mutates |-> FALSE, rules |-> {}]>>,
     plans |-> {"finish", "block"},
     handlers |-> IF name = "unbound" THEN {}
                  ELSE {[id |-> "planner_disposition", families |-> {"spec"}]},
     rules |-> {Rule("planned", "PLANNED")}
                 \cup {r \in {Rule("again", "PLANNED")} : name = "doubled"},
     profiles |-> {"builder", "learning"}, recovery |-> {}, epoch |-> "v0.20"]]
=============================================================================
