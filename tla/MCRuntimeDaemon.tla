-------------------------- MODULE MCRuntimeDaemon --------------------------
(* One work item per plane and a probe, the policy of the learning modes
   (learning may run beside either foreground plane), the commands of a run. *)
EXTENDS RuntimeDaemon, TLC

CONSTANTS task, plan, probe, lesson, o1

MCPlaneOf ==
  [i \in Items |-> CASE i = task -> "execution"
                    [] i \in {plan, probe} -> "planning"
                    [] i = lesson -> "learning"]
MCConcurrent == {{"learning", "execution"}, {"learning", "planning"}}
EveryCommand == [kind : Kinds, scope : {"any"}]
StopCommands == [kind : {"clear_stale_state", "stop"}, scope : {"any"}]

(* Stop at the first lost update or half-done move: behind it only the
   properties that do not depend on `clean` say anything, and those are
   proved. *)
StillClean == clean
=============================================================================
