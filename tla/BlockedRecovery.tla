-------------------------- MODULE BlockedRecovery --------------------------
(***************************************************************************)
(* Blocked tasks and how they return to the queue                          *)
(* (src/runtime/blocked_recovery.rs, src/workspace/queue_store.rs,         *)
(* src/cli/mod.rs): the idle daemon requeues a task that strands queued    *)
(* dependents when its failure was transient and its budget allows, an     *)
(* operator requeues any.                                                  *)
(*                                                                         *)
(* A block and a requeue are each a rename followed by a second file: the  *)
(* metadata that says why, the log the budget is counted from.  The daemon *)
(* may die in between.  The operator's command looks at the ownership lock *)
(* once, and at its end rewrites the snapshot it had read.                 *)
(***************************************************************************)
EXTENDS Integers, FiniteSets, FiniteSetsExt

CONSTANTS
  Tasks,         \* task ids: positive integers, in the order of their names
  DependsOn,     \* task |-> tasks it depends on
  RootOf,        \* task |-> root spec id, 0 when it has none
  MaxAuto,       \* max_auto_requeues_per_work_item
  MaxBlocks, MaxCrashes, MaxRetries

VARIABLES
  dir,           \* task |-> the directory it is in
  blockedAs,     \* task |-> blocked metadata on disk: "none", "transient", "fatal"
  lines,         \* task |-> automatic requeues in its log
  up,            \* the daemon holds the ownership lock
  running,       \* task of the active run in the session's snapshot, or 0
  saved,         \* the same in the snapshot on disk
  pc, cur,       \* step of the daemon and the task it is about
  cli,           \* the operator's retry
  failure,       \* history: task |-> what its last block was
  autos,         \* history: task |-> automatic requeues
  unwritten,     \* history: tasks whose last block left no metadata
  uncounted,     \* history: task |-> automatic requeues that left no line
  overlapped,    \* history: a retry outlived the start of a daemon
  blocks, crashes, retries

files == <<dir, blockedAs, lines>>
history == <<failure, autos, unwritten, uncounted>>
bounds == <<blocks, crashes, retries>>
vars == <<files, up, running, saved, pc, cur, cli, history, overlapped, bounds>>

NoRetry == [step |-> "off", task |-> 0, force |-> FALSE, snapshot |-> 0]

Init ==
  /\ dir = [t \in Tasks |-> "queue"] /\ blockedAs = [t \in Tasks |-> "none"]
  /\ lines = [t \in Tasks |-> 0]
  /\ up = FALSE /\ running = 0 /\ saved = 0 /\ pc = "idle" /\ cur = 0 /\ cli = NoRetry
  /\ failure = [t \in Tasks |-> "none"] /\ autos = lines /\ uncounted = lines
  /\ unwritten = {} /\ overlapped = FALSE
  /\ blocks = 0 /\ crashes = 0 /\ retries = 0

InDir(d) == {t \in Tasks : dir[t] = d}
Ready(t) == dir[t] = "queue" /\ DependsOn[t] \subseteq InDir("done")

-----------------------------------------------------------------------------
(* Which task strands others *)

(* A queued task of another root spec does not count.  A task without one does. *)
SameRoot(q, b) == RootOf[q] = 0 \/ RootOf[b] = 0 \/ RootOf[q] = RootOf[b]

Stranding(q) == {b \in DependsOn[q] : dir[b] = "blocked"}
Compatible == UNION {{b \in Stranding(q) : SameRoot(q, b)} : q \in InDir("queue")}

(* The first one of the right root, whatever then becomes of it: one that may not
   be requeued hides those after it. *)
Candidates == IF Compatible = {} THEN {} ELSE {Min(Compatible)}

AllowsAuto(t) == blockedAs[t] = "transient"

BudgetLeft(t) == lines[t] < MaxAuto

(* metadata_bool and failure_class_allows_auto_requeue: both must agree. *)
Verdict(transientClass, flagged) == IF transientClass /\ flagged THEN "transient" ELSE "fatal"

-----------------------------------------------------------------------------
(* The daemon *)

Idle == up /\ pc = "idle"

Claim(t) ==
  /\ Idle /\ running = 0 /\ Ready(t)
  /\ dir' = [dir EXCEPT ![t] = "active"] /\ running' = t /\ saved' = t
  /\ UNCHANGED <<blockedAs, lines, up, pc, cur, cli, history, overlapped, bounds>>

Complete ==
  /\ Idle /\ running # 0
  /\ dir' = [dir EXCEPT ![running] = "done"] /\ running' = 0 /\ saved' = 0
  /\ UNCHANGED <<blockedAs, lines, up, pc, cur, cli, history, overlapped, bounds>>

(* apply_blocked_decision: the task is moved first. *)
Block(verdict) ==
  /\ Idle /\ running # 0 /\ blocks < MaxBlocks
  /\ dir' = [dir EXCEPT ![running] = "blocked"] /\ blocks' = blocks + 1
  /\ failure' = [failure EXCEPT ![running] = verdict]
  /\ unwritten' = unwritten \cup {running}
  /\ pc' = "blocked" /\ cur' = running
  /\ UNCHANGED <<blockedAs, lines, up, running, saved, cli, autos, uncounted, overlapped,
                 crashes, retries>>

(* Defect: metadata that is there is kept. *)
DescribeOnce ==
  /\ up /\ pc = "blocked" /\ pc' = "idle" /\ cur' = 0
  /\ blockedAs' = [blockedAs EXCEPT ![cur] = IF @ = "none" THEN failure[cur] ELSE @]
  /\ unwritten' = unwritten \ {cur}
  /\ running' = 0 /\ saved' = 0
  /\ UNCHANGED <<dir, lines, up, cli, failure, autos, uncounted, overlapped, bounds>>

(* persist_blocked_item_metadata, then the snapshot. *)
Describe ==
  /\ up /\ pc = "blocked" /\ pc' = "idle" /\ cur' = 0
  /\ blockedAs' = [blockedAs EXCEPT ![cur] = failure[cur]]
  /\ unwritten' = unwritten \ {cur}
  /\ running' = 0 /\ saved' = 0
  /\ UNCHANGED <<dir, lines, up, cli, failure, autos, uncounted, overlapped, bounds>>

(* attempt_stranded_dependency_auto_recovery, in a cycle that found nothing to do.
   Whether the cooldown has passed is left open. *)
AutoRequeue ==
  /\ Idle /\ running = 0 /\ ~\E t \in Tasks : Ready(t)
  /\ \E t \in Candidates :
       /\ AllowsAuto(t) /\ BudgetLeft(t)
       /\ dir' = [dir EXCEPT ![t] = "queue"] /\ autos' = [autos EXCEPT ![t] = @ + 1]
       /\ uncounted' = [uncounted EXCEPT ![t] = @ + 1]
       /\ cur' = t
  /\ pc' = "requeued"
  /\ UNCHANGED <<blockedAs, lines, up, running, saved, cli, failure, unwritten, overlapped, bounds>>

(* append_blocked_requeue_audit, and the depths in the snapshot. *)
Audit ==
  /\ up /\ pc = "requeued" /\ pc' = "idle" /\ cur' = 0
  /\ lines' = [lines EXCEPT ![cur] = @ + 1]
  /\ uncounted' = [uncounted EXCEPT ![cur] = @ - 1]
  /\ saved' = running
  /\ UNCHANGED <<dir, blockedAs, up, running, cli, failure, autos, unwritten, overlapped, bounds>>

(* The cycle that finds nothing saves its snapshot too. *)
IdleCycle ==
  /\ Idle /\ saved' = running
  /\ UNCHANGED <<files, up, running, pc, cur, cli, history, overlapped, bounds>>

Crash ==
  /\ up /\ crashes < MaxCrashes /\ crashes' = crashes + 1
  /\ up' = FALSE /\ running' = 0 /\ pc' = "idle" /\ cur' = 0
  /\ UNCHANGED <<files, saved, cli, history, overlapped, blocks, retries>>

(* A start keeps the run its snapshot names, if the task is still active, and
   requeues the other active tasks (its steps are those of RuntimeDaemon). *)
Start ==
  /\ ~up /\ up' = TRUE
  /\ LET kept == InDir("active") \cap {saved}
     IN /\ running' = IF kept = {} THEN 0 ELSE saved
        /\ saved' = running'
        /\ dir' = [t \in Tasks |-> IF dir[t] = "active" /\ t \notin kept THEN "queue" ELSE dir[t]]
  /\ overlapped' = (cli.step # "off")
  /\ UNCHANGED <<blockedAs, lines, pc, cur, cli, history, bounds>>

-----------------------------------------------------------------------------
(* millrace queue retry-blocked *)

CliOnly == UNCHANGED <<up, running, pc, cur, history, overlapped, blocks, crashes>>

(* Defect: the ownership lock is not looked at. *)
AdmitAlways(t, force) ==
  /\ cli.step = "off" /\ retries < MaxRetries /\ retries' = retries + 1
  /\ cli' = [NoRetry EXCEPT !.step = "check", !.task = t, !.force = force]
  /\ UNCHANGED <<files, saved>> /\ CliOnly

Admit(t, force) ==
  /\ cli.step = "off" /\ retries < MaxRetries /\ ~up /\ retries' = retries + 1
  /\ cli' = [NoRetry EXCEPT !.step = "check", !.task = t, !.force = force]
  /\ UNCHANGED <<files, saved>> /\ CliOnly

(* retry_blocked_task up to its last check: without --force the metadata and the
   budget are asked. *)
Check ==
  /\ cli.step = "check"
  /\ LET t == cli.task
     IN cli' = IF dir[t] = "blocked" /\ (cli.force \/ (AllowsAuto(t) /\ BudgetLeft(t)))
               THEN [cli EXCEPT !.step = "move"] ELSE NoRetry
  /\ UNCHANGED <<files, saved, retries>> /\ CliOnly

(* requeue_blocked_task: its line is not an automatic one. *)
Move ==
  /\ cli.step = "move"
  /\ IF dir[cli.task] = "blocked"
     THEN dir' = [dir EXCEPT ![cli.task] = "queue"] /\ cli' = [cli EXCEPT !.step = "load"]
     ELSE cli' = NoRetry /\ UNCHANGED dir
  /\ UNCHANGED <<blockedAs, lines, saved, retries>> /\ CliOnly

(* refresh_snapshot_queue_depths: the whole snapshot is read, and written back. *)
LoadSnapshot ==
  /\ cli.step = "load" /\ cli' = [cli EXCEPT !.step = "save", !.snapshot = saved]
  /\ UNCHANGED <<files, saved, retries>> /\ CliOnly

SaveSnapshot ==
  /\ cli.step = "save" /\ saved' = cli.snapshot /\ cli' = NoRetry
  /\ UNCHANGED <<files, retries>> /\ CliOnly

Next ==
  \/ \E t \in Tasks : Claim(t)
  \/ \E transientClass, flagged \in BOOLEAN : Block(Verdict(transientClass, flagged))
  \/ Complete \/ Describe \/ AutoRequeue \/ Audit \/ IdleCycle \/ Crash \/ Start
  \/ \E t \in Tasks, force \in BOOLEAN : Admit(t, force)
  \/ Check \/ Move \/ LoadSnapshot \/ SaveSnapshot

Spec == Init /\ [][Next]_vars

-----------------------------------------------------------------------------
(* Types: every task has one directory, every block one verdict. *)
TypeOK ==
  /\ \A t \in Tasks : dir[t] \in {"queue", "active", "blocked", "done"}
  /\ \A t \in Tasks : blockedAs[t] \in {"none", "transient", "fatal"}
  /\ running \in Tasks \cup {0} /\ saved \in Tasks \cup {0}
  /\ pc # "idle" => up /\ cur \in Tasks
  /\ cli.step # "off" => cli.task \in Tasks

(* A task is requeued automatically no more often than its budget says, except
   once for each time the daemon died after the move and before the log: what an
   operator forces in between does not count. *)
AutoBudget ==
  \A t \in Tasks : autos[t] <= MaxAuto + uncounted[t] /\ uncounted[t] <= 1 + crashes

(* The last failure of a task that is requeued automatically was transient, however
   often it was blocked before, unless a crash kept its metadata from being written. *)
TransientOnly ==
  [][\A t \in Tasks : autos'[t] # autos[t] => failure[t] = "transient" \/ t \in unwritten]_vars

(* Between two steps of the daemon the snapshot on disk names its run, unless an
   operator's retry was on its way when the daemon started. *)
SnapshotIsTheDaemons == Idle /\ ~overlapped => saved = running
=============================================================================
