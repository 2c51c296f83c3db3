---------------------------- MODULE StageRouting ----------------------------
(***************************************************************************)
(* What follows the result of a stage (src/runtime/tick.rs): the router,   *)
(* the recovery counters it reads, the snapshot it changes, the incident   *)
(* or work item a handoff files, and what a crash or a failing step in     *)
(* the middle of it leaves for the next daemon (src/runtime/startup.rs).   *)
(*                                                                         *)
(* A result is applied in steps: the decision is saved with its failure    *)
(* class, then the counters are saved, then the run at its next stage.     *)
(* The snapshot has one failure class and one fix count for all planes.    *)
(* Module RuntimeDaemon has the loop around this and the move of an item   *)
(* apart from the clearing of its run; here a run owns an active item and  *)
(* the two go together.                                                    *)
(***************************************************************************)
EXTENDS FiniteSets, Integers

CONSTANTS
  Items,       \* work items, filed at the start
  PlaneOf,     \* the plane of an item
  Entry,       \* the node an item enters its graph at
  Concurrent,  \* pairs of planes the policy lets run together
  Edges,       \* compiled transitions: [from, on, to]
  Resume,      \* node -> nodes its success may resume at (resume policies)
  FixPolicy,   \* nodes whose FIX_NEEDED has a threshold
  BlockPolicy, \* nodes whose BLOCKED has a threshold
  Takes,       \* node -> items whose kind its stage allows
  Reported,    \* failure classes a failed stage may report
  MaxFix,      \* thresholds of the compiled policies
  MaxRepair,
  MaxHelp,     \* bound on results other than BLOCKED
  MaxFaults,   \* bound on stops, crashes and failing steps
  MaxRequeues, \* bound on operator commands that requeue runs
  None

Planes == {"planning", "execution", "learning"}
Nodes == {e.from : e \in Edges}
Ends == {"complete", "blocked", "handoff", "promote"}
Outcomes == {"done", "fix", "escalate", "blocked"}

(* runtime_error_code_and_repair_stage *)
Repairer == [planning |-> "mechanic", execution |-> "troubleshooter", learning |-> None]

RecoveryStages == {"mechanic", "troubleshooter", "consultant"}

(* Where the exhaustion of repairs leads: to a node or to a blocked end. *)
LastResort == [planning |-> "blocked", execution |-> "consultant", learning |-> None]

(* A node's name stands for the class "<stage>_blocked". *)
Classes == Nodes \cup Reported \cup
  {"stale_active_ownership", "fix_cycle_exhausted", "recoverable_failure",
   "post_stage_apply_failed", "stage_work_item_ownership_invalid", "recon_handoff_invalid",
   "planner_disposition_invalid"}

ASSUME ConstantsAssumption ==
  /\ PlaneOf \in [Items -> Planes] /\ Entry \in [Items -> Nodes]
  /\ Concurrent \subseteq SUBSET Planes
  /\ Edges \subseteq [from : Nodes, on : Outcomes, to : Nodes \cup Ends]
  /\ Nodes \cap Ends = {} /\ None \notin Nodes \cup Ends \cup Items \cup Classes
  /\ Resume \in [DOMAIN Resume -> SUBSET Nodes] /\ DOMAIN Resume \subseteq Nodes
  /\ FixPolicy \subseteq Nodes /\ BlockPolicy \subseteq Nodes
  /\ Takes \in [Nodes -> SUBSET Items]
  /\ MaxFix \in Nat /\ MaxRepair \in Nat
  /\ MaxHelp \in Nat /\ MaxFaults \in Nat /\ MaxRequeues \in Nat

(* The stages of recovery are in the graph, and only stages of other planes
   than execution promote: recon takes probes. *)
ASSUME GraphAssumption ==
  /\ RecoveryStages \subseteq Nodes
  /\ \A e \in Edges : e.to = "promote" =>
       \A i \in Takes[e.from] : PlaneOf[i] # "execution"

(* What keeps recovery in bounds: one foreground plane at a time, the policies
   of the baseline, and recovery stages that are no fixers themselves. *)
ASSUME RecoveryAssumption ==
  /\ {"planning", "execution"} \notin Concurrent
  /\ FixPolicy \cap RecoveryStages = {}
  /\ \A n \in Nodes : \A i \in Takes[n] :
       /\ n \in FixPolicy => PlaneOf[i] = "execution"
       /\ n \in {"recon", "planner"} => PlaneOf[i] = "planning"
  /\ \A e \in Edges :
       /\ e.on = "fix" => e.from \in FixPolicy /\ e.to \notin RecoveryStages
       /\ e.on = "blocked" => e.to \notin FixPolicy
       /\ e.on = "blocked" /\ e.to \in {"mechanic", "troubleshooter"} => e.from \in BlockPolicy
       /\ e.to = "handoff" => \A i \in Takes[e.from] : PlaneOf[i] = "execution"

VARIABLES
  place,     \* "queue", "active", "done" or "blocked"
  saved,     \* runtime_snapshot.json
  mem,       \* session.snapshot
  counters,  \* recovery_counters.json
  pc,        \* next step of the daemon
  todo,      \* the decision being applied
  children,  \* documents filed on behalf of an item by a handoff
  taken,     \* items whose present run already has its incident
  help, faults, requeues,
  runs,      \* history: run ids an item has had
  fixes,     \* history: fixer stages entered since the last claim of a task
  wipes,     \* history: resets of the fix count by another plane since then
  carried    \* history: the fix count was left behind by a run that was retried

vars == <<place, saved, mem, counters, pc, todo, children, taken,
          help, faults, requeues, runs, fixes, wipes, carried>>
bounds == <<help, faults, requeues>>
history == <<runs, fixes, wipes, carried>>

Fresh == [running |-> FALSE, item |-> [p \in Planes |-> None],
          node |-> [p \in Planes |-> None], class |-> None, fix |-> 0]
Snapshots == [running : BOOLEAN, item : [Planes -> Items \cup {None}],
              node : [Planes -> Nodes \cup {None}], class : Classes \cup {None}, fix : Nat]
Idle == [plane |-> "planning", on |-> "done", to |-> None, class |-> None]
Decisions == [plane : Planes, on : Outcomes, to : Nodes \cup Ends \cup {None},
              class : Classes \cup {None}]
NoEntry == [repair |-> [c \in Classes |-> 0], fix |-> 0]

Active(s) == {p \in Planes : s.item[p] # None}

(* project_foreground_active_run: whose item the counters are read for *)
Foreground(s) ==
  IF "planning" \in Active(s) THEN "planning"
  ELSE IF "execution" \in Active(s) THEN "execution" ELSE "learning"

(* counter_attempts: troubleshoot or mechanic attempts, whichever the plane
   has; a foreground item of another plane has none of them *)
Attempts(s, p, c) ==
  IF Foreground(s) = p /\ p \in Active(s) THEN counters[s.item[p]].repair[c] ELSE 0

-----------------------------------------------------------------------------
(* The router *)

(* resolve_failure_class *)
FailureClass(s, reported, default) ==
  IF reported # None THEN reported ELSE IF s.class # None THEN s.class ELSE default

(* Defect: one more attempt than the policy allows. *)
ExhaustedLate(s, p, on, class) ==
  \/ on = "fix" /\ s.node[p] \in FixPolicy /\ s.fix > MaxFix
  \/ on = "blocked" /\ s.node[p] \in BlockPolicy /\ Attempts(s, p, class) > MaxRepair

Exhausted(s, p, on, class) ==
  \/ on = "fix" /\ s.node[p] \in FixPolicy /\ s.fix >= MaxFix
  \/ on = "blocked" /\ s.node[p] \in BlockPolicy /\ Attempts(s, p, class) >= MaxRepair

(* route_stage_result_from_graph: the decisions a result may lead to *)
Routes(s, p, on, reported) ==
  LET n == s.node[p]
      class == FailureClass(s, reported, IF on = "fix" THEN "fix_cycle_exhausted" ELSE n)
      Decide(to, c) == [plane |-> p, on |-> on, to |-> to, class |-> c]
  IN IF Exhausted(s, p, on, class)
     THEN {Decide(IF on = "fix" THEN Repairer[p] ELSE LastResort[p], class)}
     ELSE IF on = "done" /\ n \in DOMAIN Resume
     THEN {Decide(m, None) : m \in Resume[n]}
     ELSE {Decide(e.to, IF on = "blocked" /\ p # "learning" THEN class ELSE None) :
             e \in {f \in Edges : f.from = n /\ f.on = on}}

(* planner_disposition, the effect of the planner's results: the document it
   wrote keeps the graph's route, whatever the router made of the result, or
   ends the run for child specs it emitted; without a valid one the run is
   blocked. *)
Disposed(d, n) ==
  LET next == {e.to : e \in {f \in Edges : f.from = n /\ f.on = d.on /\ f.to \in Nodes}} IN
  IF n # "planner" \/ d.on \notin {"done", "blocked"} THEN {d}
  ELSE (IF next = {} THEN {d} ELSE {[d EXCEPT !.to = m] : m \in next})
    \cup {[d EXCEPT !.to = "blocked", !.class = "planner_disposition_invalid"]}
    \cup (IF d.on = "done" THEN {[d EXCEPT !.to = "complete", !.class = None]} ELSE {})

(* Defect: nothing is counted. *)
CountedNever(d, i) == counters

(* increment_route_counters; consultant invocations are counted, never read *)
Counted(d, i) ==
  IF d.to \in {"troubleshooter", "mechanic"}
  THEN [counters EXCEPT ![i].repair[IF d.class = None THEN "recoverable_failure" ELSE d.class] = @ + 1]
  ELSE IF d.on = "fix" /\ d.to # "consultant" THEN [counters EXCEPT ![i].fix = @ + 1]
  ELSE counters

-----------------------------------------------------------------------------
Init ==
  /\ place = [i \in Items |-> "queue"]
  /\ saved = Fresh /\ mem = Fresh
  /\ counters = [i \in Items |-> NoEntry]
  /\ pc = "off" /\ todo = Idle
  /\ children = [i \in Items |-> 0] /\ taken = {}
  /\ help = 0 /\ faults = 0 /\ requeues = 0
  /\ runs = [i \in Items |-> 0] /\ fixes = 0 /\ wipes = 0 /\ carried = FALSE

(* A snapshot of a daemon that closed with runs sends the foreground run to a
   stage of recovery, under a new run id. *)
StaleLimit == 2
StaleStage(p) ==
  IF p = "execution" /\ Attempts(saved, p, "stale_active_ownership") >= StaleLimit
  THEN "consultant" ELSE Repairer[p]

Start ==
  LET p == Foreground(saved) IN
  /\ pc = "off" /\ pc' = "started"
  /\ IF ~saved.running /\ Active(saved) # {} /\ p # "learning"
     THEN /\ mem' = [saved EXCEPT !.running = TRUE, !.node[p] = StaleStage(p),
                                  !.class = "stale_active_ownership"]
          /\ todo' = [plane |-> p, on |-> "blocked", to |-> StaleStage(p),
                      class |-> "stale_active_ownership"]
          /\ counters' = Counted(todo', saved.item[p])
     ELSE /\ mem' = [saved EXCEPT !.running = TRUE]
          /\ UNCHANGED <<todo, counters>>
  /\ UNCHANGED <<place, saved, children, taken, bounds, history>>

StartSave ==
  /\ pc = "started" /\ pc' = "idle"
  /\ saved' = mem /\ todo' = Idle
  /\ IF todo.to # None
     THEN /\ taken' = taken \ {mem.item[todo.plane]}
          /\ runs' = [runs EXCEPT ![mem.item[todo.plane]] = @ + 1]
     ELSE UNCHANGED <<taken, runs>>
  /\ UNCHANGED <<place, mem, counters, children, bounds, fixes, wipes, carried>>

(* claim and activate_claim *)
Claim(i) ==
  LET p == PlaneOf[i] IN
  /\ pc = "idle" /\ place[i] = "queue"
  /\ p \notin Active(mem) /\ \A q \in Active(mem) : {p, q} \in Concurrent
  /\ place' = [place EXCEPT ![i] = "active"]
  /\ mem' = [mem EXCEPT !.item[p] = i, !.node[p] = Entry[i], !.class = None]
  /\ saved' = mem'
  /\ taken' = taken \ {i} /\ runs' = [runs EXCEPT ![i] = @ + 1]
  /\ IF p = "execution" THEN fixes' = 0 /\ wipes' = 0 ELSE UNCHANGED <<fixes, wipes>>
  /\ UNCHANGED <<counters, pc, todo, children, bounds, carried>>

(* A stage runs, its result is routed and its effect may change the decision,
   whose class is saved first (persist_dispatch_snapshot_updates). *)
Stage(p) ==
  /\ pc = "idle" /\ p \in Active(mem)
  /\ mem.node[p] # None /\ mem.item[p] \in Takes[mem.node[p]]
  /\ \E on \in Outcomes, reported \in Reported \cup {None} :
       /\ on # "blocked" => reported = None /\ help < MaxHelp
       /\ help' = IF on = "blocked" THEN help ELSE help + 1
       /\ \E d \in Routes(mem, p, on, reported) : todo' \in Disposed(d, mem.node[p])
  /\ mem' = [mem EXCEPT !.class = todo'.class]
  /\ saved' = mem' /\ pc' = "apply"
  /\ UNCHANGED <<place, counters, children, taken, faults, requeues, history>>

-----------------------------------------------------------------------------
(* Application of a decision *)

item == mem.item[todo.plane]

(* apply_run_stage_decision: counters first ... *)
CountRoute ==
  /\ pc = "apply" /\ todo.to \in Nodes
  /\ counters' = Counted(todo, item)
  /\ mem' = [mem EXCEPT !.node[todo.plane] = todo.to,
                        !.fix = IF counters'[item].fix # counters[item].fix
                                THEN counters'[item].fix ELSE @]
  /\ pc' = "counted"
  /\ UNCHANGED <<place, saved, todo, children, taken, bounds, history>>

(* ... then the snapshot *)
SaveRoute ==
  /\ pc = "counted" /\ pc' = "idle"
  /\ saved' = mem /\ todo' = Idle
  /\ fixes' = IF todo.on = "fix" /\ todo.to # Repairer[todo.plane] THEN fixes + 1 ELSE fixes
  /\ UNCHANGED <<place, mem, counters, children, taken, bounds, runs, wipes, carried>>

(* clear_active_plane with reset_snapshot_route_counters *)
Cleared(s, p, class) ==
  [s EXCEPT !.item[p] = None, !.node[p] = None, !.class = class, !.fix = 0]

(* An item leaves its active directory and its counters go with it. *)
Leave(p, to, class) ==
  /\ place' = [place EXCEPT ![mem.item[p]] = to]
  /\ mem' = Cleared(mem, p, class) /\ saved' = mem'
  /\ counters' = [counters EXCEPT ![mem.item[p]] = NoEntry]
  /\ wipes' = IF mem.fix > 0 /\ p # "execution" /\ "execution" \in Active(mem)
              THEN wipes + 1 ELSE wipes
  /\ carried' = FALSE
  /\ pc' = "idle" /\ todo' = Idle

(* schedule_post_stage_exception_recovery; its class stands for the error
   codes of either plane *)
Recover ==
  /\ mem' = [mem EXCEPT !.node[todo.plane] = Repairer[todo.plane],
                        !.class = "post_stage_apply_failed"]
  /\ saved' = mem' /\ todo' = Idle /\ pc' = "idle"
  /\ UNCHANGED <<place, counters, wipes, carried>>

(* source_lifecycle_intent_for_stage_result: an item is filed by the terminal
   action of its node for the result, that of an effect or of a transition to
   an end; a policy's exhaustion has none. *)
Mapped ==
  \/ mem.node[todo.plane] = "planner"
  \/ [from |-> mem.node[todo.plane], on |-> todo.on, to |-> todo.to] \in Edges

(* A result without a terminal action cannot be applied: the repairs of a
   planning run that are exhausted lead to the mechanic again. *)
Finish ==
  /\ \/ pc = "apply" /\ todo.to \in {"complete", "blocked"}
     \/ pc = "filed"
  /\ IF Mapped
     THEN Leave(todo.plane, IF todo.to \in {"complete", "promote"} THEN "done" ELSE "blocked", todo.class)
     ELSE Recover
  /\ UNCHANGED <<children, taken, bounds, runs, fixes>>

(* Defect: an incident is filed under a new id every time. *)
HandoffAgain ==
  /\ pc = "apply" /\ todo.to = "handoff"
  /\ children' = [children EXCEPT ![item] = @ + 1] /\ taken' = taken \cup {item}
  /\ pc' = "filed"
  /\ UNCHANGED <<place, saved, mem, counters, todo, wipes, carried, bounds, runs, fixes>>

(* apply_handoff_decision: the id of the incident is a function of the run id,
   so the incident of an earlier, interrupted application is in the way. *)
Handoff ==
  /\ pc = "apply" /\ todo.to = "handoff"
  /\ IF item \in taken
     THEN Recover /\ UNCHANGED <<children, taken>>
     ELSE /\ children' = [children EXCEPT ![item] = @ + 1] /\ taken' = taken \cup {item}
          /\ pc' = "filed"
          /\ UNCHANGED <<place, saved, mem, counters, todo, wipes, carried>>
  /\ UNCHANGED <<bounds, runs, fixes>>

(* apply_recon_router_decision: the packet and the item it generates are
   filed before the probe is done. *)
Promote ==
  /\ pc = "apply" /\ todo.to = "promote"
  /\ children' = [children EXCEPT ![item] = @ + 1] /\ pc' = "filed"
  /\ UNCHANGED <<place, saved, mem, counters, todo, taken, bounds, history>>

(* block_invalid_recon_handoff: whatever recon decided, the packet it wrote
   may be invalid, or its id or the id of the generated item may be taken,
   for one by an application that was interrupted. *)
RejectPacket ==
  /\ pc = "apply" /\ mem.node[todo.plane] = "recon"
  /\ Leave(todo.plane, "blocked", "recon_handoff_invalid")
  /\ UNCHANGED <<children, taken, bounds, runs, fixes>>

-----------------------------------------------------------------------------
(* What goes wrong *)

Off == pc' = "off" /\ mem' = Fresh /\ todo' = Idle

(* A step of the application fails: recon blocks its probe, the foreground
   planes schedule a repair, an error of the learning plane ends the loop. *)
ApplyFails ==
  /\ pc \in {"apply", "counted", "filed"} /\ faults < MaxFaults
  /\ faults' = faults + 1
  /\ IF mem.node[todo.plane] = "recon"
     THEN Leave(todo.plane, "blocked", "recon_handoff_invalid")
     ELSE IF todo.plane = "learning"
     THEN saved' = [mem EXCEPT !.running = FALSE] /\ Off /\ UNCHANGED <<place, counters, wipes, carried>>
     ELSE Recover
  /\ UNCHANGED <<children, taken, help, requeues, runs, fixes>>

Crash ==
  /\ pc # "off" /\ faults < MaxFaults
  /\ faults' = faults + 1
  /\ Off
  /\ UNCHANGED <<place, saved, counters, children, taken, help, requeues, history>>

(* A stop between two cycles keeps the runs. *)
Stop ==
  /\ pc = "idle" /\ faults < MaxFaults
  /\ faults' = faults + 1
  /\ saved' = [mem EXCEPT !.running = FALSE] /\ Off
  /\ UNCHANGED <<place, counters, children, taken, help, requeues, history>>

Requeue(items) ==
  place' = [i \in Items |-> IF i \in items /\ place[i] = "active" THEN "queue" ELSE place[i]]

(* Defect: the route counters of the snapshot stay, whatever is left. *)
RetryKeepingFix(p) ==
  /\ pc = "idle" /\ p \in Active(mem) /\ requeues < MaxRequeues
  /\ requeues' = requeues + 1
  /\ Requeue({mem.item[p]})
  /\ counters' = [counters EXCEPT ![mem.item[p]] = NoEntry]
  /\ mem' = [Cleared(mem, p, None) EXCEPT !.fix = mem.fix]
  /\ saved' = mem'
  /\ UNCHANGED <<pc, todo, children, taken, help, faults, history>>

(* retry_active_from_mailbox: only the last run takes the route counters of
   the snapshot with it (clear_retry_active_plane) *)
Retry(p) ==
  /\ pc = "idle" /\ p \in Active(mem) /\ requeues < MaxRequeues
  /\ requeues' = requeues + 1
  /\ Requeue({mem.item[p]})
  /\ counters' = [counters EXCEPT ![mem.item[p]] = NoEntry]
  /\ mem' = IF Active(mem) = {p} THEN [Fresh EXCEPT !.running = TRUE]
            ELSE [Cleared(mem, p, None) EXCEPT !.fix = mem.fix]
  /\ saved' = mem'
  /\ carried' = (mem'.fix > 0 /\ (carried \/ p = "execution"))
  /\ UNCHANGED <<pc, todo, children, taken, help, faults, runs, fixes, wipes>>

(* clear_stale_from_mailbox *)
ClearStale ==
  /\ pc = "idle" /\ requeues < MaxRequeues
  /\ requeues' = requeues + 1
  /\ Requeue(Items)
  /\ counters' = [i \in Items |-> NoEntry]
  /\ mem' = [Fresh EXCEPT !.running = TRUE] /\ saved' = mem'
  /\ carried' = FALSE
  /\ UNCHANGED <<pc, todo, children, taken, help, faults, runs, fixes, wipes>>

(* record_stage_work_item_ownership_invalid: a stage that does not take the
   item of its run gives back the items of all runs *)
Disown(p) ==
  /\ pc = "idle" /\ p \in Active(mem) /\ mem.item[p] \notin Takes[mem.node[p]]
  /\ Requeue(Items)
  /\ counters' = [counters EXCEPT ![mem.item[p]] = NoEntry]
  /\ mem' = [Fresh EXCEPT !.running = TRUE, !.class = "stage_work_item_ownership_invalid"]
  /\ saved' = mem' /\ carried' = FALSE
  /\ UNCHANGED <<pc, todo, children, taken, bounds, runs, fixes, wipes>>

-----------------------------------------------------------------------------
DaemonStep ==
  \/ StartSave \/ CountRoute \/ SaveRoute \/ Finish \/ Handoff \/ Promote \/ RejectPacket
  \/ \E i \in Items : Claim(i)
  \/ \E p \in Planes : Stage(p) \/ Disown(p)

Next ==
  \/ Start \/ DaemonStep \/ ApplyFails \/ Crash \/ Stop
  \/ \E p \in Planes : Retry(p)
  \/ ClearStale

(* A daemon that runs keeps running, and the stages of every plane return,
   each on a thread of its own; nobody is obliged to start it. *)
Spec ==
  /\ Init /\ [][Next]_vars /\ WF_vars(DaemonStep)
  /\ SF_vars(Stage("planning")) /\ SF_vars(Stage("execution")) /\ SF_vars(Stage("learning"))

-----------------------------------------------------------------------------
(* Properties *)

TypeOK ==
  /\ place \in [Items -> {"queue", "active", "done", "blocked"}]
  /\ saved \in Snapshots /\ mem \in Snapshots
  /\ counters \in [Items -> [repair : [Classes -> Nat], fix : Nat]]
  /\ pc \in {"off", "started", "idle", "apply", "counted", "filed"}
  /\ todo \in Decisions
  /\ children \in [Items -> Nat] /\ taken \subseteq Items
  /\ help \in 0..MaxHelp /\ faults \in 0..MaxFaults /\ requeues \in 0..MaxRequeues
  /\ runs \in [Items -> Nat] /\ fixes \in Nat /\ wipes \in Nat /\ carried \in BOOLEAN

(* The repairs of one failure of a task are bounded.  A crash can grant one
   more: it may leave the class of the interrupted decision in the snapshot,
   and a fix cycle that ends exhausted then counts its repair under that class
   without a look at the counters.  Not bounded are the two classes made for
   repairs the router grants without a look.  Nor are the repairs of the
   planning plane: the planner's document keeps the route to the mechanic when
   they are exhausted, and so does the mechanic of a run that was stopped. *)
Unchecked == {"fix_cycle_exhausted", "recoverable_failure"}
Limit(c) ==
  IF c = "stale_active_ownership" /\ MaxRepair < StaleLimit THEN StaleLimit ELSE MaxRepair
RepairBudget ==
  \A i \in Items : PlaneOf[i] # "planning" =>
    \A c \in Classes \ Unchecked : counters[i].repair[c] <= Limit(c) + faults

(* The fixer runs at most MaxFix times for a claimed task, over restarts and
   detours to the troubleshooter, and once more for every time another plane
   resets the count. *)
FixBudget == fixes <= MaxFix + wipes

(* A fix cycle is declared exhausted only for a task that has been in it: the
   one exception is a count left by a run that was retried beside a run of
   another plane. *)
ExhaustionEarned ==
  pc = "apply" /\ todo.on = "fix" /\ todo.to = Repairer[todo.plane] =>
    carried \/ counters[item].fix >= MaxFix

(* A run of a task files one incident at most, whatever crash or failure
   comes between the filing and the end of the run. *)
IncidentOncePerRun == \A i \in Items : PlaneOf[i] = "execution" => children[i] <= runs[i]

(* Failure ends: when stages only ever block, every run comes to an end whose
   item the mechanic does not take. *)
RunsEnd ==
  \A i \in Items \ Takes["mechanic"] : place[i] = "active" ~> place[i] # "active" \/ pc = "off"

=============================================================================
