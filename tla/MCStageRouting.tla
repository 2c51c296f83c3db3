--------------------------- MODULE MCStageRouting ---------------------------
(* The baseline graphs of assets/baseline/graphs, each outcome named for its
   part in the routing; of the learning graph the first stage only. *)
EXTENDS StageRouting, TLC

CONSTANTS task, plan, probe, lesson

Edge(from, on, to) == [from |-> from, on |-> on, to |-> to]

ExecutionEdges ==
  {Edge(n, "blocked", "troubleshooter") :
     n \in {"builder", "checker", "fixer", "doublechecker", "updater", "troubleshooter"}} \cup
  {Edge("builder", "done", "checker"), Edge("checker", "done", "updater"),
   Edge("checker", "fix", "fixer"), Edge("fixer", "done", "doublechecker"),
   Edge("doublechecker", "done", "updater"), Edge("doublechecker", "fix", "fixer"),
   Edge("updater", "done", "complete"), Edge("troubleshooter", "done", "builder"),
   Edge("consultant", "done", "troubleshooter"), Edge("consultant", "escalate", "handoff"),
   Edge("consultant", "blocked", "blocked")}

PlanningEdges ==
  {Edge(n, "blocked", "mechanic") : n \in {"planner", "manager", "mechanic"}} \cup
  {Edge("planner", "done", "manager"), Edge("manager", "done", "complete"),
   Edge("mechanic", "done", "planner"), Edge("recon", "done", "complete"),
   Edge("recon", "escalate", "promote"), Edge("recon", "blocked", "blocked")}

LearningEdges == {Edge("analyst", "done", "complete"), Edge("analyst", "blocked", "blocked")}

MCEdges == ExecutionEdges \cup PlanningEdges \cup LearningEdges

ExecutionNodes == {e.from : e \in ExecutionEdges}
PlanningNodes == {e.from : e \in PlanningEdges}

MCResume ==
  [n \in {"troubleshooter", "consultant", "mechanic"} |->
     IF n = "mechanic" THEN PlanningNodes \ {"mechanic"} ELSE ExecutionNodes \ {"consultant"}]
MCFixPolicy == {"checker", "doublechecker"}
MCBlockPolicy == (ExecutionNodes \ {"consultant"}) \cup {"planner", "manager", "mechanic"}

MCPlaneOf ==
  [i \in Items |-> CASE i = task -> "execution"
                    [] i \in {plan, probe} -> "planning"
                    [] i = lesson -> "learning"]
MCEntry ==
  [i \in Items |-> CASE i = task -> "builder"
                    [] i = plan -> "planner"
                    [] i = probe -> "recon"
                    [] i = lesson -> "analyst"]
MCTakes ==
  [n \in Nodes |-> Items \cap CASE n \in ExecutionNodes -> {task}
                                [] n = "recon" -> {probe}
                                [] n \in PlanningNodes \ {"recon"} -> {plan}
                                [] n = "analyst" -> {lesson}]
MCConcurrent == {{"learning", "execution"}, {"learning", "planning"}}
=============================================================================
