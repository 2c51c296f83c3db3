---------------------------- MODULE RunDispatch ----------------------------
(***************************************************************************)
(* What stands between a compiled plan and the work a stage leaves behind: *)
(* the plan store, the capability gate, the effects of the Blueprint       *)
(* stages and the recovery of blocked tasks.  They share no state that     *)
(* these modules keep, so a behaviour exercises one of them and leaves the *)
(* variables of the others alone.  `part` says which.                      *)
(***************************************************************************)
EXTENDS PlanStore

CONSTANTS
    Pids, Nodes, GrantsOf, RunnerOf, Operators,    \* of CapabilityGate
    MaxRequests, MaxDecisions, MaxStops,
    DraftCount, MaxRevision, TaskIds, MaxCrashes,  \* of Blueprint
    Tasks, DependsOn, RootOf,                      \* of BlockedRecovery
    MaxAuto, MaxBlocks, MaxDeaths, MaxRetries

ASSUME GateAssumption == MaxRequests \in Nat

ASSUME DraftingAssumption == {DraftCount, MaxRevision, MaxCrashes} \subseteq Nat

\* The dependencies that can be stranded are tasks.
ASSUME RecoveryAssumption ==
    /\ Tasks \subseteq Nat \ {0} /\ DependsOn \in [Tasks -> SUBSET Tasks]
    /\ MaxAuto \in Nat

VARIABLES
    part,
    pid, gateRuns, gateRequests, gate, pending, resolved, mail, doing, asked, decided, launched,
    turnedDown, made, stops,
    sourceAt, split, manifest, drafts, doc, packets, tasks, promotions, planRun, repairs, eff, moving,
    plannerUp, crashes,
    dir, blockedAs, lines, daemonUp, running, onDisk, pc, cur, retry, failed, autos, unwritten,
    uncounted, overlapped, blocks, deaths, retries

gateVars == <<pid, gateRuns, gateRequests, gate, pending, resolved, mail, doing, asked, decided,
              launched, turnedDown, made, stops>>
draftVars == <<sourceAt, split, manifest, drafts, doc, packets, tasks, promotions, planRun, repairs,
               eff, moving, plannerUp, crashes>>
blockVars == <<dir, blockedAs, lines, daemonUp, running, onDisk, pc, cur, retry, failed, autos,
               unwritten, uncounted, overlapped, blocks, deaths, retries>>
dispatchVars == <<part, vars, gateVars, draftVars, blockVars>>

Gate == INSTANCE CapabilityGate WITH
    runs <- gateRuns, requests <- gateRequests, refused <- turnedDown

Drafting == INSTANCE Blueprint WITH
    spec <- sourceAt, run <- planRun, attempts <- repairs, up <- plannerUp

Recovery == INSTANCE BlockedRecovery WITH
    MaxCrashes <- MaxDeaths,
    up <- daemonUp, saved <- onDisk, cli <- retry, failure <- failed, crashes <- deaths

DispatchInit ==
    /\ part \in {"plans", "gate", "drafting", "recovery"}
    /\ Init /\ Gate!Init /\ Drafting!Init /\ Recovery!Init

DispatchNext ==
    \/ part = "plans" /\ Next /\ UNCHANGED <<part, gateVars, draftVars, blockVars>>
    \/ part = "gate" /\ Gate!Next /\ UNCHANGED <<part, vars, draftVars, blockVars>>
    \/ part = "drafting" /\ Drafting!Next /\ UNCHANGED <<part, vars, gateVars, blockVars>>
    \/ part = "recovery" /\ Recovery!Next /\ UNCHANGED <<part, vars, gateVars, draftVars>>

DispatchSpec == DispatchInit /\ [][DispatchNext]_dispatchVars

-----------------------------------------------------------------------------
(* The types of the four modules. *)
TypesOK == TypeOK /\ Gate!TypeOK /\ Drafting!TypeOK /\ Recovery!TypeOK

(* PlanStore: the plan on disk and the plan a daemon runs on are closed, and
   grant nothing that their config denies, whoever compiled them. *)
PlansSound == UsedPlansClosed /\ ConfigDenies

(* CapabilityGate: a filed request for approval stays on file. *)
RequestsKept == Gate!RequestsKept

(* CapabilityGate: a runner is started with the approvals it needs. *)
LaunchedAsDecided == Gate!LaunchedAsDecided

(* CapabilityGate: what an operator has approved is not asked for again.
   tests/runtime_capability_gates.rs:316 names the promise
   `approval_required_gate_reuses_pending_and_allows_after_approval`. *)
ApprovalTakesEffect == Gate!ApprovalTakesEffect

(* Blueprint: a source is settled only by what it produced, nothing that was
   not executed lets its root be closed, and tasks follow their drafts. *)
DraftsAccounted == Drafting!SettledBacked /\ Drafting!NoPrematureClosure /\ Drafting!OneTaskInOrder

(* BlockedRecovery: automatic requeues keep to their budget, and the snapshot
   on disk names the run of the daemon. *)
RequeuesBooked == Recovery!AutoBudget /\ Recovery!SnapshotIsTheDaemons

(* BlockedRecovery: only transient failures are requeued automatically. *)
TransientOnly == Recovery!TransientOnly
=============================================================================
