--------------------------- MODULE RuntimeDaemon ---------------------------
(***************************************************************************)
(* The daemon of src/runtime/supervisor.rs (with startup.rs and            *)
(* tick.rs), the operators of src/workspace/runtime_control.rs, and        *)
(* the four things they share: the directories of the queue, the snapshot  *)
(* runtime_snapshot.json, the ownership lock and the mailbox.              *)
(*                                                                         *)
(* The daemon loads the snapshot once, at startup, and from then on writes *)
(* its own copy `mem` over whatever is saved.  An operator loads the       *)
(* snapshot, looks at the lock, and either leaves a command in the mailbox *)
(* or changes the directories and saves a snapshot itself.  Each action    *)
(* is what happens between two points where another process can run or a   *)
(* crash can hit.  The lock is taken and cleared in one step here: module  *)
(* RuntimeLock has its inside.                                             *)
(***************************************************************************)
EXTENDS FiniteSets, Integers, Sequences

CONSTANTS
  Items,        \* work items, all filed in the queue at the start
  PlaneOf,      \* the plane that works on an item
  Probes,       \* planning items of kind Probe
  Concurrent,   \* pairs of planes the compiled policy lets run together
  Governance,   \* TRUE when usage governance is enabled in the configuration
  AutoResume,   \* TRUE when it may take its own pause back
  Operators,    \* processes that issue control commands
  Commands,     \* the commands the operators issue
  MaxCommands,  \* bound on commands put in the mailbox
  MaxFaults,    \* bound on crashes, failing steps and failing commands
  None

Planes == {"planning", "execution", "learning"}
Kinds == {"clear_stale_state", "pause", "resume", "retry_active", "stop"}
Ids == 1..MaxCommands

ASSUME ConstantsAssumption ==
  /\ PlaneOf \in [Items -> Planes]
  /\ Probes \subseteq Items
  /\ Concurrent \subseteq SUBSET Planes
  /\ Commands \subseteq [kind : Kinds, scope : Planes \cup {"any"}]
  /\ Governance \in BOOLEAN /\ AutoResume \in BOOLEAN
  /\ MaxCommands \in Nat /\ MaxFaults \in Nat
  /\ None \notin Items

VARIABLES
  place,    \* where an item is: "queue", "active", or "out" (done or blocked)
  saved,    \* runtime_snapshot.json
  mem,      \* session.snapshot of the running daemon
  lock,     \* runtime_daemon.lock.json: "absent", "held", or "stale" once its owner is dead
  pc,       \* next step of the daemon
  exit,     \* why the loop ended
  recon,    \* session.reconciliation: planes found stale at startup
  listed,   \* mailbox files listed by this drain and not yet archived
  cmd,      \* the command being applied, 0 for none
  lane,     \* the plane being claimed for or settled
  item,     \* the item just claimed
  worker,   \* planes whose outcome waits in completed_workers
  issued,   \* every command ever put in the mailbox, in the order of its time stamp
  pending,  \* those whose file is still in mailbox/incoming
  rejected, \* those with a file in mailbox/failed
  op,       \* operators: next step, command, the snapshot they loaded, plane of a retry
  governed, \* usage_governance_state.json has an active blocker
  faults,   \* faults so far
  applied,  \* history: commands applied at least once
  requeued, \* history: how many runs each retry command has requeued
  held,     \* history: the latest acknowledged pause or resume was a pause
  clean     \* history: no lost update and no half-done move so far

vars == <<place, saved, mem, lock, pc, exit, recon, listed, cmd, lane, item, worker,
          issued, pending, rejected, op, governed, faults, applied, requeued, held, clean>>
mail == <<listed, cmd, issued, pending, rejected>>
cycle == <<exit, recon, lane, item, worker>>
history == <<applied, requeued, held, clean>>
others == <<op, faults, governed>>

AllCommands == [kind : Kinds, scope : Planes \cup {"any"}]
NoRuns == [p \in Planes |-> None]

(* Of the stage of a run only this is kept: `misfit` says that the planning
   run is a probe put at the repair stage, which does not take probes. *)
Fresh == [running |-> FALSE, pause |-> {}, stop |-> FALSE, run |-> NoRuns, misfit |-> FALSE]
Snapshots == [running : BOOLEAN, pause : SUBSET {"Operator", "UsageGovernance"},
              stop : BOOLEAN, run : [Planes -> Items \cup {None}], misfit : BOOLEAN]
OperatorRecords ==
  [pc : {"idle", "loaded", "enqueue", "direct", "retry", "unlock", "reset"},
   command : AllCommands, snap : Snapshots, plane : Planes]
Idle == [pc |-> "idle", command |-> [kind |-> "pause", scope |-> "any"],
         snap |-> Fresh, plane |-> "planning"]

ActivePlanes(s) == {p \in Planes : s.run[p] # None}
ActiveItems(p) == {i \in Items : PlaneOf[i] = p /\ place[i] = "active"}

(* reset_runtime_to_idle: no runs; stop and pauses cleared only if asked *)
Reset(s, running, clears) ==
  [running |-> running,
   pause |-> IF clears THEN {} ELSE s.pause,
   stop |-> s.stop /\ ~clears,
   run |-> NoRuns,
   misfit |-> FALSE]

ClearRun(s, p) == [s EXCEPT !.run[p] = None, !.misfit = @ /\ p # "planning"]

(* The run of plane p goes to the repair stage of the plane. *)
ToRepair(s, p) == [s EXCEPT !.misfit = @ \/ (p = "planning" /\ s.run[p] \in Probes)]

(* A retry takes out the run of plane p; with no run left the snapshot is
   reset to idle, with `running` as its process_running. *)
WithoutRun(s, p, running) ==
  IF ActivePlanes(ClearRun(s, p)) = {} THEN Reset(s, running, FALSE) ELSE ClearRun(s, p)

(* The run a retry is about: the one of its scope, or the only one. *)
RetryPlanes(s, scope) ==
  IF scope # "any" THEN ActivePlanes(s) \cap {scope}
  ELSE IF Cardinality(ActivePlanes(s)) = 1 THEN ActivePlanes(s) ELSE {}

(* Defect: the claim looks at its own plane only. *)
CanDispatchFree(p, s) == p \notin ActivePlanes(s)

(* can_dispatch_plane *)
CanDispatch(p, s) ==
  /\ p \notin ActivePlanes(s)
  /\ \A q \in ActivePlanes(s) : {p, q} \in Concurrent

(* A plane is stale when its active directory is not what the snapshot says;
   the run of a probe is filtered out first, so a probe always looks stale. *)
Recorded(s, p) == {s.run[p]} \ (Probes \cup {None})
Stale(s, p) == ActiveItems(p) # Recorded(s, p)

(* An evaluation of the usage rules: what was used since the last one decides
   whether there is a blocker, and with it the pause source of governance. *)
EvaluateUsage ==
  /\ governed' \in (IF Governance THEN BOOLEAN ELSE {FALSE})
  /\ mem' = [mem EXCEPT !.pause =
       IF governed' THEN @ \cup {"UsageGovernance"}
       ELSE IF Governance /\ ~AutoResume THEN @
       ELSE @ \ {"UsageGovernance"}]

(* Planes are launched and drained in this order. *)
Before(p, q) == <<p, q>> \in {<<"planning", "execution">>, <<"planning", "learning">>,
                              <<"execution", "learning">>}
First(planes) == {p \in planes : \A q \in planes \ {p} : Before(p, q)}

(* Defect: commands sorted by urgency, a stop first. *)
RankStopFirst ==
  [stop |-> 1, clear_stale_state |-> 2, pause |-> 3, resume |-> 4, retry_active |-> 5]

(* Mailbox files are applied in the order of their names, which begin with
   the name of the command; the time stamp only orders commands of a kind. *)
Rank == [clear_stale_state |-> 1, pause |-> 2, resume |-> 3, retry_active |-> 4, stop |-> 5]
Precedes(c, d) == \/ Rank[issued[c].kind] < Rank[issued[d].kind]
                  \/ issued[c].kind = issued[d].kind /\ c < d

(* An operator that has started to change directories and not yet saved. *)
Midway == {o \in Operators : op[o].pc \in {"retry", "unlock", "reset"}}

Init ==
  /\ place = [i \in Items |-> "queue"]
  /\ saved = Fresh /\ mem = Fresh
  /\ lock = "absent" /\ pc = "off" /\ exit = "none"
  /\ recon = {} /\ listed = {} /\ cmd = 0 /\ lane = "planning" /\ item = None
  /\ worker = {} /\ issued = <<>> /\ pending = {} /\ rejected = {}
  /\ op = [o \in Operators |-> Idle]
  /\ governed = FALSE /\ faults = 0
  /\ applied = {} /\ requeued = [c \in Ids |-> 0]
  /\ held = FALSE /\ clean = TRUE

-----------------------------------------------------------------------------
(* Startup *)

Acquire ==
  /\ pc = "off" /\ lock = "absent"
  /\ lock' = "held" /\ pc' = "load"
  /\ clean' = (clean /\ Midway = {})
  /\ UNCHANGED <<place, saved, mem, mail, cycle, others, applied, requeued, held>>

(* Defect: a start begins with a clean slate. *)
LoadReset ==
  /\ pc = "load"
  /\ mem' = Reset(saved, FALSE, TRUE) /\ pc' = "detect"
  /\ UNCHANGED <<place, saved, lock, mail, cycle, others, history>>

Load ==
  /\ pc = "load"
  /\ mem' = saved /\ pc' = "detect"
  /\ UNCHANGED <<place, saved, lock, mail, cycle, others, history>>

(* A snapshot saved by a daemon that closed and kept runs (process_running is
   FALSE) sends the first of them to its repair stage. *)
Resumed ==
  IF ~mem.running /\ mem.run["planning"] # None THEN ToRepair(mem, "planning") ELSE mem

Detect ==
  /\ pc = "detect"
  /\ recon' = {p \in Planes : Stale(mem, p)}
  /\ mem' = [Resumed EXCEPT !.running = TRUE]
  /\ pc' = "save"
  /\ UNCHANGED <<place, saved, lock, exit, lane, item, worker, mail, others, history>>

SaveStartup ==
  /\ pc = "save"
  /\ saved' = mem /\ pc' = "intake"
  /\ UNCHANGED <<place, mem, lock, mail, cycle, others, history>>

(* What a process that ends leaves behind of its memory: nothing. *)
EndSession ==
  /\ pc' = "off" /\ exit' = "none" /\ mem' = Fresh /\ recon' = {}
  /\ listed' = {} /\ cmd' = 0 /\ lane' = "planning" /\ item' = None /\ worker' = {}
  /\ UNCHANGED <<issued, pending, rejected, op, governed>>

StartupFails ==
  /\ pc \in {"load", "detect", "save"} /\ faults < MaxFaults
  /\ faults' = faults + 1
  /\ lock' = "absent" /\ EndSession
  /\ UNCHANGED <<place, saved, history>>

-----------------------------------------------------------------------------
(* The cycle: drain the mailbox *)

Intake ==
  /\ pc = "intake"
  /\ listed' = pending /\ pc' = "drain"
  /\ UNCHANGED <<place, saved, mem, lock, cmd, issued, pending, rejected, cycle, others, history>>

(* retry_active_from_mailbox for the run of plane p *)
ApplyRetry(p) ==
  IF place[mem.run[p]] = "active"
  THEN /\ place' = [place EXCEPT ![mem.run[p]] = "queue"]
       /\ mem' = WithoutRun(mem, p, TRUE) /\ saved' = mem'
       /\ requeued' = [requeued EXCEPT ![cmd'] = @ + 1]
  ELSE UNCHANGED <<place, mem, saved, requeued>>

ApplyCommand(c) ==
  LET kind == issued[c].kind
      planes == RetryPlanes(mem, issued[c].scope)
  IN \/ /\ kind = "pause" /\ mem' = [mem EXCEPT !.pause = @ \cup {"Operator"}]
        /\ held' = TRUE /\ UNCHANGED <<place, saved, requeued>>
     \/ /\ kind = "resume" /\ mem' = [mem EXCEPT !.pause = @ \ {"Operator"}]
        /\ held' = FALSE /\ UNCHANGED <<place, saved, requeued>>
     \/ /\ kind = "stop" /\ mem' = [mem EXCEPT !.stop = TRUE]
        /\ UNCHANGED <<place, saved, requeued, held>>
     \/ /\ kind = "retry_active" /\ planes = {}
        /\ UNCHANGED <<place, mem, saved, requeued, held>>
     \/ /\ kind = "retry_active" /\ \E p \in planes : ApplyRetry(p)
        /\ UNCHANGED held
     \/ /\ kind = "clear_stale_state"
        /\ place' = [i \in Items |-> IF place[i] = "active" THEN "queue" ELSE place[i]]
        /\ mem' = Reset(mem, TRUE, TRUE) /\ saved' = mem'
        /\ held' = FALSE /\ UNCHANGED requeued

Apply ==
  /\ pc = "drain" /\ pc' = "archive"
  /\ \E c \in listed : /\ \A d \in listed \ {c} : Precedes(c, d)
                       /\ cmd' = c /\ applied' = applied \cup {c} /\ ApplyCommand(c)
  /\ UNCHANGED <<lock, listed, issued, pending, rejected, cycle, others, clean>>

(* What a retry or a clear-stale that fails half-way leaves: moves without the
   snapshot they belong to, in the session or on the disk. *)
HalfApplied(c) ==
  \/ /\ issued[c].kind = "retry_active"
     /\ \E p \in RetryPlanes(mem, issued[c].scope) :
          /\ place[mem.run[p]] = "active"
          /\ place' = [place EXCEPT ![mem.run[p]] = "queue"]
          /\ mem' \in {mem, WithoutRun(mem, p, TRUE)}
     /\ requeued' = [requeued EXCEPT ![c] = @ + 1]
     /\ UNCHANGED held
  \/ /\ issued[c].kind = "clear_stale_state"
     /\ \E moved \in SUBSET {i \in Items : place[i] = "active"} :
          /\ place' = [i \in Items |-> IF i \in moved THEN "queue" ELSE place[i]]
          /\ \/ UNCHANGED <<mem, held>>
             \/ /\ \A i \in Items : place'[i] # "active"
                /\ mem' = Reset(mem, TRUE, TRUE) /\ held' = FALSE
     /\ UNCHANGED requeued

(* The Err arms: the envelope cannot be read or its application fails, before
   it did anything, half-way, or where it reports what it did. *)
ApplyFails ==
  /\ pc = "drain" /\ pc' = "reject"
  /\ faults < MaxFaults /\ faults' = faults + 1
  /\ \E c \in listed :
       /\ \A d \in listed \ {c} : Precedes(c, d)
       /\ cmd' = c
       /\ \/ UNCHANGED <<place, mem, saved, requeued, held, clean>>
          \/ ApplyCommand(c) /\ UNCHANGED clean
          \/ HalfApplied(c) /\ clean' = FALSE /\ UNCHANGED saved
  /\ UNCHANGED <<lock, listed, issued, pending, rejected, cycle, op, governed, applied>>

(* Such a command is archived as failed, and the drain goes on. *)
Reject ==
  /\ pc = "reject"
  /\ rejected' = rejected \cup {cmd}
  /\ pending' = pending \ {cmd} /\ listed' = listed \ {cmd} /\ cmd' = 0
  /\ pc' = "drain"
  /\ UNCHANGED <<place, saved, mem, lock, issued, cycle, others, history>>

(* Defect: the incoming directory is emptied, with what came after the listing. *)
ArchiveAll ==
  /\ pc = "archive"
  /\ pending' = {} /\ listed' = listed \ {cmd} /\ cmd' = 0
  /\ pc' = "drain"
  /\ UNCHANGED <<place, saved, mem, lock, issued, rejected, cycle, others, history>>

(* Defect: the archive is written and the source not removed. *)
ArchiveKeeping ==
  /\ pc = "archive"
  /\ listed' = listed \ {cmd} /\ cmd' = 0
  /\ pc' = "drain"
  /\ UNCHANGED <<place, saved, mem, lock, issued, pending, rejected, cycle, others, history>>

Archive ==
  /\ pc = "archive"
  /\ pending' = pending \ {cmd} /\ listed' = listed \ {cmd} /\ cmd' = 0
  /\ pc' = "drain"
  /\ UNCHANGED <<place, saved, mem, lock, issued, rejected, cycle, others, history>>

EndDrain ==
  /\ pc = "drain" /\ listed = {}
  /\ saved' = mem
  /\ pc' = IF mem.stop THEN "loop" ELSE "govern"
  /\ UNCHANGED <<place, mem, lock, mail, cycle, others, history>>

-----------------------------------------------------------------------------
(* The cycle: decide, launch, claim *)

Govern ==
  /\ pc = "govern"
  /\ EvaluateUsage
  /\ \/ mem'.pause # {} /\ pc' = "loop" /\ saved' = mem' /\ UNCHANGED exit
     \/ /\ mem'.pause = {} /\ recon # {} /\ ActivePlanes(mem) = {}
        /\ pc' = "close" /\ saved' = mem' /\ exit' = "blocked"
     \/ /\ mem'.pause = {} /\ ~(recon # {} /\ ActivePlanes(mem) = {})
        /\ pc' = "dispatch" /\ saved' = (IF mem' # mem THEN mem' ELSE saved) /\ UNCHANGED exit
  /\ UNCHANGED <<place, lock, recon, lane, item, worker, mail, op, faults, history>>

(* stage_work_item_ownership_violation *)
Misfit(p) == p = "planning" /\ mem.misfit

LaunchActive ==
  /\ pc = "dispatch"
  /\ \E p \in First(ActivePlanes(mem) \ worker) : ~Misfit(p) /\ worker' = worker \cup {p}
  /\ saved' = mem
  /\ UNCHANGED <<place, mem, lock, pc, exit, recon, lane, item, mail, others, history>>

(* A run whose stage does not take its item: the items of all planes are
   requeued and all runs dropped, where the launch of the next one fails. *)
Disown ==
  /\ pc = "dispatch"
  /\ \E p \in First(ActivePlanes(mem) \ worker) : Misfit(p)
  /\ place' = [i \in Items |-> IF place[i] = "active" THEN "queue" ELSE place[i]]
  /\ mem' = Reset(mem, TRUE, FALSE) /\ saved' = mem'
  /\ \/ ActivePlanes(mem) # {"planning"} /\ pc' = "close" /\ exit' = "error"
     \/ ActivePlanes(mem) = {"planning"} /\ recon # {} /\ pc' = "loop" /\ UNCHANGED exit
     \/ ActivePlanes(mem) = {"planning"} /\ recon = {} /\ pc' = "claim" /\ UNCHANGED exit
  /\ lane' = "planning"
  /\ UNCHANGED <<lock, recon, item, worker, mail, others, history>>

StartClaims ==
  /\ pc = "dispatch" /\ ActivePlanes(mem) \subseteq worker
  /\ pc' = "claim" /\ lane' = "planning"
  /\ UNCHANGED <<place, saved, mem, lock, exit, recon, item, worker, mail, others, history>>

Claimable(p) == {i \in Items : /\ PlaneOf[i] = p /\ place[i] = "queue"
                               /\ ActiveItems(p) = {} /\ CanDispatch(p, mem)}

ClaimMove ==
  /\ pc = "claim"
  /\ \E i \in Claimable(lane) : item' = i /\ place' = [place EXCEPT ![i] = "active"]
  /\ pc' = "activate"
  /\ UNCHANGED <<saved, mem, lock, exit, recon, lane, worker, mail, others, history>>

(* After the last lane a cycle that started and ran nothing is saved as idle. *)
NoClaim ==
  /\ pc = "claim" /\ Claimable(lane) = {}
  /\ IF lane = "learning"
     THEN /\ pc' = "collect" /\ lane' = "planning"
          /\ saved' = IF worker = {} THEN mem ELSE saved
     ELSE /\ lane' = IF lane = "planning" THEN "execution" ELSE "learning"
          /\ UNCHANGED <<pc, saved>>
  /\ UNCHANGED <<place, mem, lock, exit, recon, item, worker, mail, others, history>>

Activate ==
  /\ pc = "activate"
  /\ mem' = [mem EXCEPT !.run[lane] = item] /\ saved' = mem'
  /\ item' = None /\ pc' = "launch"
  /\ UNCHANGED <<place, lock, exit, recon, lane, worker, mail, others, history>>

(* Only one foreground plane is dispatched in a cycle. *)
Launch ==
  /\ pc = "launch"
  /\ worker' = worker \cup {lane} /\ saved' = mem
  /\ IF lane = "learning" THEN pc' = "collect" /\ lane' = "planning"
                          ELSE pc' = "claim" /\ lane' = "learning"
  /\ UNCHANGED <<place, mem, lock, exit, recon, item, mail, others, history>>

-----------------------------------------------------------------------------
(* Outcomes of the workers *)

(* The router runs another stage for the run; every outcome of recon, the one
   stage of a probe, ends it. *)
RunStage ==
  /\ pc = "collect"
  /\ \E p \in First(worker) : mem.run[p] \notin Probes /\ worker' = worker \ {p}
  /\ EvaluateUsage /\ saved' = mem'
  /\ UNCHANGED <<place, lock, pc, exit, recon, lane, item, mail, op, faults, history>>

(* The work item is moved out of its active directory... *)
SettleMove ==
  /\ pc = "collect" /\ pc' = "settle"
  /\ \E p \in First(worker) :
       /\ lane' = p
       /\ place[mem.run[p]] = "active"
       /\ place' = [place EXCEPT ![mem.run[p]] = "out"]
  /\ EvaluateUsage /\ saved' = mem'
  /\ UNCHANGED <<lock, exit, recon, item, worker, mail, op, faults, history>>

(* ... and then the run is cleared. *)
SettleSave ==
  /\ pc = "settle"
  /\ mem' = ClearRun(mem, lane) /\ saved' = mem'
  /\ worker' = worker \ {lane} /\ pc' = "collect" /\ lane' = "planning"
  /\ UNCHANGED <<place, lock, exit, recon, item, mail, others, history>>

(* schedule_post_stage_exception_recovery keeps the run for a repair stage;
   the learning plane has none and the error ends the loop. *)
RecoverRun(p) ==
  /\ lane' = "planning" /\ mem' = ToRepair(mem, p) /\ saved' = mem'
  /\ IF p = "learning" THEN pc' = "close" /\ exit' = "error" /\ worker' = {}
                       ELSE pc' = "collect" /\ worker' = worker \ {p} /\ UNCHANGED exit

SettleFails ==
  /\ pc = "settle" /\ faults < MaxFaults
  /\ faults' = faults + 1 /\ clean' = FALSE
  /\ RecoverRun(lane)
  /\ UNCHANGED <<place, lock, recon, item, mail, op, governed, applied, requeued, held>>

(* The item to be moved is not in the active directory. *)
SettleConflict ==
  /\ pc = "collect"
  /\ \E p \in First(worker) : place[mem.run[p]] # "active" /\ RecoverRun(p)
  /\ UNCHANGED <<place, lock, recon, item, mail, others, history>>

EndCycle ==
  /\ pc = "collect" /\ worker = {}
  /\ pc' = "loop"
  /\ UNCHANGED <<place, saved, mem, lock, cycle, mail, others, history>>

-----------------------------------------------------------------------------
(* The end of an iteration, of the loop, of the process *)

StopRequested ==
  /\ pc = "loop" /\ mem.stop
  /\ exit' = "stop" /\ pc' = "close"
  /\ IF ActivePlanes(mem) = {}
     THEN mem' = Reset(mem, FALSE, TRUE) /\ saved' = mem' /\ held' = FALSE
     ELSE UNCHANGED <<mem, saved, held>>
  /\ UNCHANGED <<place, lock, recon, lane, item, worker, mail, others, applied, requeued, clean>>

NextIteration ==
  /\ pc = "loop" /\ ~mem.stop
  /\ \/ pc' = "intake" /\ UNCHANGED exit
     \/ pc' = "close" /\ exit' = "limit"   \* max_ticks or exit_on_idle
  /\ UNCHANGED <<place, saved, mem, lock, recon, lane, item, worker, mail, others, history>>

(* An error (storage, runner request, claim) leaves the loop, which closes. *)
CycleFails ==
  /\ pc \in {"drain", "archive", "reject", "govern", "dispatch", "claim", "activate", "launch",
             "collect"}
  /\ faults < MaxFaults
  /\ faults' = faults + 1
  /\ exit' = "error" /\ pc' = "close" /\ worker' = {} /\ item' = None /\ lane' = "planning"
  /\ listed' = {} /\ cmd' = 0
  /\ UNCHANGED <<place, saved, mem, lock, recon, issued, pending, rejected, op, governed, history>>

CloseSave ==
  /\ pc = "close" /\ pc' = "release"
  /\ IF mem.running THEN mem' = [mem EXCEPT !.running = FALSE] /\ saved' = mem'
                    ELSE UNCHANGED <<mem, saved>>
  /\ UNCHANGED <<place, lock, cycle, mail, others, history>>

Release ==
  /\ pc = "release"
  /\ lock' = "absent" /\ EndSession
  /\ UNCHANGED <<place, saved, faults, history>>

Crash ==
  /\ pc # "off" /\ faults < MaxFaults
  /\ faults' = faults + 1
  /\ lock' = "stale" /\ EndSession
  /\ UNCHANGED <<place, saved, history>>

-----------------------------------------------------------------------------
(* Operators *)

daemon == <<mem, pc, listed, cmd, cycle>>

OpLoad(o) ==
  /\ op[o].pc = "idle"
  /\ \E c \in Commands :
       op' = [op EXCEPT ![o] = [Idle EXCEPT !.pc = "loaded", !.command = c, !.snap = saved]]
  /\ UNCHANGED <<place, saved, lock, daemon, issued, pending, rejected, governed, faults, history>>

OpInspect(o) ==
  /\ op[o].pc = "loaded"
  /\ lock = "held" => Len(issued) + Cardinality({q \in Operators : op[q].pc = "enqueue"}) < MaxCommands
  /\ op' = IF lock = "held" THEN [op EXCEPT ![o].pc = "enqueue", ![o].snap = Fresh]
                            ELSE [op EXCEPT ![o].pc = "direct"]
  /\ UNCHANGED <<place, saved, lock, daemon, issued, pending, rejected, governed, faults, history>>

OpEnqueue(o) ==
  /\ op[o].pc = "enqueue" /\ Len(issued) < MaxCommands
  /\ issued' = Append(issued, op[o].command)
  /\ pending' = pending \cup {Len(issued) + 1}
  /\ op' = [op EXCEPT ![o] = Idle]
  /\ UNCHANGED <<place, saved, lock, daemon, rejected, governed, faults, history>>

(* A direct save is safe when it loses no update of anybody. *)
Safe(o) == lock # "held" /\ op[o].snap = saved

DirectSave(o, snapshot) ==
  /\ saved' = snapshot
  /\ clean' = (clean /\ Safe(o))
  /\ op' = [op EXCEPT ![o] = Idle]
  /\ UNCHANGED <<daemon, issued, pending, rejected, governed, faults, applied, requeued>>

OpPause(o) ==
  /\ op[o].pc = "direct" /\ op[o].command.kind = "pause"
  /\ DirectSave(o, [op[o].snap EXCEPT !.pause = @ \cup {"Operator"}])
  /\ held' = TRUE
  /\ UNCHANGED <<place, lock>>

OpResume(o) ==
  /\ op[o].pc = "direct" /\ op[o].command.kind = "resume"
  /\ DirectSave(o, [op[o].snap EXCEPT
       !.pause = (@ \cup (IF governed THEN {"UsageGovernance"} ELSE {})) \ {"Operator"}])
  /\ held' = FALSE
  /\ UNCHANGED <<place, lock>>

OpStop(o) ==
  /\ op[o].pc = "direct" /\ op[o].command.kind = "stop"
  /\ DirectSave(o, Reset(op[o].snap, FALSE, TRUE))
  /\ held' = FALSE
  /\ UNCHANGED <<place, lock>>

OpRetryMove(o) ==
  /\ op[o].pc = "direct" /\ op[o].command.kind = "retry_active"
  /\ \E p \in RetryPlanes(op[o].snap, op[o].command.scope) :
       LET i == op[o].snap.run[p] IN
       /\ place[i] = "active"
       /\ place' = [place EXCEPT ![i] = "queue"]
       /\ op' = [op EXCEPT ![o].pc = "retry", ![o].plane = p]
  /\ clean' = (clean /\ Safe(o))
  /\ UNCHANGED <<saved, lock, daemon, issued, pending, rejected, governed, faults, applied, requeued, held>>

OpRetrySkip(o) ==
  /\ op[o].pc = "direct" /\ op[o].command.kind = "retry_active"
  /\ \A p \in RetryPlanes(op[o].snap, op[o].command.scope) : place[op[o].snap.run[p]] # "active"
  /\ op' = [op EXCEPT ![o] = Idle]
  /\ UNCHANGED <<place, saved, lock, daemon, issued, pending, rejected, governed, faults, history>>

OpRetrySave(o) ==
  /\ op[o].pc = "retry"
  /\ DirectSave(o, WithoutRun(op[o].snap, op[o].plane, FALSE))
  /\ UNCHANGED <<place, lock, held>>

OpClearRequeue(o) ==
  /\ op[o].pc = "direct" /\ op[o].command.kind = "clear_stale_state"
  /\ place' = [i \in Items |-> IF place[i] = "active" THEN "queue" ELSE place[i]]
  /\ op' = [op EXCEPT ![o].pc = "unlock"]
  /\ clean' = (clean /\ Safe(o))
  /\ UNCHANGED <<saved, lock, daemon, issued, pending, rejected, governed, faults, applied, requeued, held>>

OpClearLock(o) ==
  /\ op[o].pc = "unlock"
  /\ lock' = IF lock = "stale" THEN "absent" ELSE lock
  /\ op' = [op EXCEPT ![o].pc = "reset"]
  /\ UNCHANGED <<place, saved, daemon, issued, pending, rejected, governed, faults, history>>

(* Defect: the flags are cleared and the runs kept. *)
OpClearFlags(o) ==
  /\ op[o].pc = "reset"
  /\ DirectSave(o, [op[o].snap EXCEPT !.running = FALSE, !.stop = FALSE, !.pause = {}])
  /\ held' = FALSE
  /\ UNCHANGED <<place, lock>>

OpClearReset(o) ==
  /\ op[o].pc = "reset"
  /\ DirectSave(o, Reset(op[o].snap, FALSE, TRUE))
  /\ held' = FALSE
  /\ UNCHANGED <<place, lock>>

(* Only a crash between two effects leaves anything behind. *)
OpCrash(o) ==
  /\ o \in Midway /\ faults < MaxFaults
  /\ faults' = faults + 1 /\ clean' = FALSE
  /\ op' = [op EXCEPT ![o] = Idle]
  /\ UNCHANGED <<place, saved, lock, daemon, issued, pending, rejected, governed, applied, requeued, held>>

-----------------------------------------------------------------------------
DaemonStep ==
  \/ Load \/ Detect \/ SaveStartup
  \/ Intake \/ Apply \/ Archive \/ Reject \/ EndDrain \/ Govern
  \/ LaunchActive \/ Disown \/ StartClaims \/ ClaimMove \/ NoClaim \/ Activate \/ Launch
  \/ RunStage \/ SettleMove \/ SettleSave \/ SettleConflict \/ EndCycle
  \/ StopRequested \/ NextIteration \/ CloseSave \/ Release

Fault == StartupFails \/ ApplyFails \/ CycleFails \/ SettleFails \/ Crash

OperatorStep(o) ==
  \/ OpLoad(o) \/ OpInspect(o) \/ OpEnqueue(o)
  \/ OpPause(o) \/ OpResume(o) \/ OpStop(o)
  \/ OpRetryMove(o) \/ OpRetrySkip(o) \/ OpRetrySave(o)
  \/ OpClearRequeue(o) \/ OpClearLock(o) \/ OpClearReset(o) \/ OpCrash(o)

Next == Acquire \/ DaemonStep \/ Fault \/ \E o \in Operators : OperatorStep(o)

(* A daemon that runs keeps running: nothing obliges anybody to start one,
   to issue a command or to fail. *)
Spec == Init /\ [][Next]_vars /\ WF_vars(DaemonStep)

-----------------------------------------------------------------------------
(* Properties *)

TypeOK ==
  /\ place \in [Items -> {"queue", "active", "out"}]
  /\ saved \in Snapshots /\ mem \in Snapshots
  /\ lock \in {"absent", "held", "stale"}
  /\ pc \in {"off", "load", "detect", "save", "intake", "drain", "archive", "reject", "govern",
             "dispatch", "claim", "activate", "launch", "collect", "settle", "loop",
             "close", "release"}
  /\ exit \in {"none", "stop", "blocked", "limit", "error"}
  /\ recon \subseteq Planes /\ listed \subseteq Ids /\ cmd \in Ids \cup {0}
  /\ lane \in Planes /\ item \in Items \cup {None} /\ worker \subseteq Planes
  /\ issued \in Seq(AllCommands) /\ Len(issued) <= MaxCommands
  /\ pending \subseteq 1..Len(issued) /\ rejected \subseteq Ids
  /\ op \in [Operators -> OperatorRecords]
  /\ governed \in BOOLEAN /\ faults \in 0..MaxFaults
  /\ applied \subseteq Ids /\ requeued \in [Ids -> Nat]
  /\ held \in BOOLEAN /\ clean \in BOOLEAN

(* The planes with a run may run together under the compiled policy, in the
   daemon's copy and in the saved one, after any restart, retry or race of
   direct commands: nobody but the claim of run_cycle ever adds a run, and
   it looks at the policy (can_dispatch_plane). *)
Compatible(s) == \A p, q \in ActivePlanes(s) : p # q => {p, q} \in Concurrent
ExclusivePlanes == Compatible(mem) /\ Compatible(saved)

(* No stage runs for a work item that is not in its active directory: not
   after a crash and clear-stale, a retry, a stop or a restart in the middle
   of a run, as long as no update was lost and no move was left half done. *)
RunOwnsItem ==
  clean => \A p \in worker \ (IF pc = "settle" THEN {lane} ELSE {}) :
             place[mem.run[p]] = "active"

(* From the moment an operator's pause took effect (saved directly, or
   applied from the mailbox) until a resume, a completed stop or a
   clear-stale, no stage starts, whichever daemon runs. *)
PauseHeld == [][clean /\ held => worker' \subseteq worker]_vars

(* A command an operator put in the mailbox is waiting there, has been applied,
   or is on file in mailbox/failed, where its operator can find it, across
   crashes, failures and restarts of the daemon: none gets lost. *)
MailboxKept == \A c \in 1..Len(issued) : c \in pending \cup applied \cup rejected

(* A retry-active command requeues one run at most, although a crash between
   its application and its archival makes the next daemon apply it again, as
   long as no update was lost: a stale direct save may bring back a run the
   command took out. *)
RetriedOnce == clean => \A c \in Ids : requeued[c] <= 1

(* A stop in the mailbox ends the daemon that runs, unless it is filed in
   mailbox/failed. *)
StopObserved ==
  \A c \in Ids : (c \in pending /\ issued[c].kind = "stop" /\ pc # "off")
                     ~> (pc = "off" \/ c \in rejected)
=============================================================================
