-------------------------- MODULE WorkspaceControl --------------------------
(***************************************************************************)
(* What reaches a workspace beside its runs: commands and ideas, the       *)
(* budget, new packages and resets.  The four modules share no state that  *)
(* they keep, so a behaviour exercises one of them and leaves the          *)
(* variables of the others alone.  `part` says which.                      *)
(***************************************************************************)
EXTENDS Integers, Sequences

CONSTANTS
    Ideas, Specs, SpecOf, Orders,                   \* of Intake
    MaxOrders, MaxWrites, MaxStops, MaxStages,
    Rules, Quota, AutoResume, Costs, Rolling, Week, \* of UsageGovernance
    MaxTime, MaxStarts, MaxSessions, MaxPauses,
    AssetCount, Versions, Shipped,                  \* of ManagedAssets
    MaxEdits, MaxCrashes,
    Epochs, MaxFaults                               \* of Workspace

\* Idea files are numbered in the order of their paths, and an order names what
\* there can be.
ASSUME IntakeAssumption ==
    /\ Ideas \subseteq Int /\ SpecOf \in [Ideas -> Specs]
    /\ Orders \subseteq
          [kind : {"add_idea"}, arg : Ideas]
             \cup [kind : {"add_spec", "cancel_work_item"}, arg : Specs]
             \cup [kind : {"unreadable"}, arg : Ideas \cup Specs]
    /\ MaxWrites \in Nat

\* Stages use a number of tokens, and rules bound one.
ASSUME BudgetAssumption ==
    /\ {MaxTime, MaxStarts, MaxSessions, Rolling} \subseteq Nat /\ Week \in Nat \ {0}
    /\ Costs \subseteq Nat /\ \A r \in Rules : r.threshold \in Nat

\* No package ships what only operators write, or half a file.
ASSUME AssetsAssumption ==
    /\ AssetCount \in Nat /\ Versions \in Nat \ {0} /\ {MaxEdits, MaxCrashes} \subseteq Nat
    /\ Shipped \in [1..Versions -> [1..AssetCount -> {"v1", "v2", "none"}]]

ASSUME EpochAssumption == Epochs \in Nat \ {0} /\ MaxFaults \in Nat

VARIABLES
    part,
    spec, inbox, artifact, files, archived, stages, pc, todo, cur, verdict, counter, seen, recent,
    events, given, settled, made, cancels, writes, stops,
    clock, now, session, enabled, sources, saved, state, results, ledger, outcomes, cycle, started,
    sessions, pauses,
    package, asset, manifest, deploy, upgrade, edits, crashes, touched, lateI, lateU, half,
    epoch, docs, default, marker, lock, daemon, init, reset, resetLock, faults, forged, raced

intakeVars == <<spec, inbox, artifact, files, archived, stages, pc, todo, cur, verdict, counter, seen,
                recent, events, given, settled, made, cancels, writes, stops>>
budgetVars == <<clock, now, session, enabled, sources, saved, state, results, ledger, outcomes, cycle,
                started, sessions, pauses>>
assetVars == <<package, asset, manifest, deploy, upgrade, edits, crashes, touched, lateI, lateU, half>>
epochVars == <<epoch, docs, default, marker, lock, daemon, init, reset, resetLock, faults, forged,
               raced>>
controlVars == <<part, intakeVars, budgetVars, assetVars, epochVars>>

Inbox == INSTANCE Intake

Budget == INSTANCE UsageGovernance WITH
    MaxStages <- MaxStarts, MaxOrders <- MaxPauses, pc <- cycle, orders <- pauses

Assets == INSTANCE ManagedAssets WITH file <- asset, init <- deploy

Epoch == INSTANCE Workspace WITH file <- default

ControlInit ==
    /\ part \in {"intake", "budget", "assets", "epoch"}
    /\ Inbox!Init /\ Budget!Init /\ Assets!Init /\ Epoch!Init

ControlNext ==
    \/ part = "intake" /\ Inbox!Next /\ UNCHANGED <<part, budgetVars, assetVars, epochVars>>
    \/ part = "budget" /\ Budget!Next /\ UNCHANGED <<part, intakeVars, assetVars, epochVars>>
    \/ part = "assets" /\ Assets!Next /\ UNCHANGED <<part, intakeVars, budgetVars, epochVars>>
    \/ part = "epoch" /\ Epoch!Next /\ UNCHANGED <<part, intakeVars, budgetVars, assetVars>>

ControlSpec == ControlInit /\ [][ControlNext]_controlVars

-----------------------------------------------------------------------------
(* The types of the four modules. *)
TypesOK == Inbox!TypeOK /\ Budget!TypeOK /\ Assets!TypeOK /\ Epoch!TypeOK

(* What reached the workspace is neither lost nor taken twice: orders and noted
   ideas (Intake), and the tokens that stages used (UsageGovernance). *)
NothingLostOrTwice ==
    /\ Inbox!NoCommandLost /\ Inbox!NotedIsKept /\ Inbox!IdeaRunsOnce
    /\ Budget!EveryTokenCounted

(* UsageGovernance: no stage is started over a budget. *)
NoStageOverBudget == Budget!NoStageOverBudget

(* What the workspace says of itself is true: the manifest about the assets
   (ManagedAssets), the marker about the epoch of the documents and the doctor
   about what a daemon will find (Workspace). *)
FilesTellTheTruth == Assets!ManifestTrue /\ Epoch!RunsOnItsEpoch /\ Epoch!DoctorSound

(* Deployments stay off what is not theirs (ManagedAssets), and a reset leaves
   nothing behind it (Workspace). *)
WritesInPlace == Assets!EditsKept /\ Epoch!ResetClean
=============================================================================
