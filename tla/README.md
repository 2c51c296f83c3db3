# Verification of millrace-rs

TLA+ models of the parts of Millrace whose correctness depends on the order of
things: the lock that makes one daemon the owner of a workspace, the queue of
work documents, the daemon and its operators, the routing of stage results, the
closing of roots, Blueprint planning, approvals, budgets, the runners, and what
compiles, deploys and resets a workspace. TLC checks the models on small
instances; TLAPS proves the most important of their properties for every value
of the constants. `PROJECT.json` maps each definition to the lines of the code
it stands for.

Run from this directory: `tlc -config RuntimeDaemon.cfg MCRuntimeDaemon` (the
module of each `.cfg` is in `PROJECT.json` under "runs"), `tlapm
RuntimeDaemonProofs.tla`.

## 1. The system

A workspace is a directory tree. Work documents (tasks, specs, probes,
incidents, learning requests) are files in the lifecycle directories queue,
active, done and blocked; a move between states is a rename. One daemon at a
time runs compiled graphs of stages over the items of three planes (planning,
execution, learning); a stage is an external agent run by a runner. Operators
use the same files through the command line while the daemon runs, is stopped,
or has crashed. There is no database and no lock besides the ownership lock of
the daemon, so everything that two processes share is a file that one may change
between the other's read and write.

### Components

| Component | State | Operations | Hard behaviour | What makes it correct |
|---|---|---|---|---|
| Ownership lock (`workspace/runtime_lock.rs`) | `runtime_daemon.lock.json`, pids | acquire, write record, release, inspect, clear stale | three programs race on one path; crash between create and write; reused pids | one owner; no leak; a stale verdict is true |
| Work queue (`workspace/queue_*.rs`, `task_lifecycle_integrity.rs`) | lifecycle directories, archives | file, claim, finish, requeue, retry, cancel, archive, supersede, retarget, quarantine, retire predecessor | check then rename without a lock; crash in the middle; several files per operation | nothing lost; one active item per plane; dependencies first; done is final |
| Daemon loop (`runtime/supervisor.rs`) | `session`: snapshot copy, reconciliation, completed workers | run_cycle: drain, mailbox, governance, launch, claim, settle, collect; stop; close | snapshot and directories change in different steps; errors end the loop in any of them | a stage runs only for an active item; planes exclude each other; a stop ends it |
| Startup (`runtime/startup.rs`) | the saved snapshot and counters | lock, load, detect stale planes, resume a kept run, save | starts from whatever a crash, stop or operator left | no run is invented; a pause survives |
| Operator control (`workspace/runtime_control.rs`) | mailbox, saved snapshot | pause, resume, stop, retry-active, clear-stale, direct or by mailbox | inspects, then acts; command applied, then archived | a command is not lost, applied once as far as it matters, a pause holds |
| Result application (`runtime/tick.rs`) | snapshot, `recovery_counters.json`, incidents | route, count, advance, finish, block, hand off, recover from a failing step | many files per decision; one set of route counters for all planes | fix cycles, and repairs outside planning, are bounded; failure of them ends; one incident per run |
| Usage governance (`runtime/usage_governance.rs`) | ledger, quota windows, its pause source | evaluate | shares the pause with operators | never undoes an operator's pause |
| Blocked recovery, failure policies (`runtime/blocked_recovery.rs`, `failure_policy.rs`) | blocked metadata, log of retries beside the queue | automatic retry of blocked tasks, retry by an operator | budget recounted from a log written after the rename; a command that writes the snapshot back | the budget holds over crashes; only transient failures come back |
| State store (`workspace/state_store.rs`) | temporary and final files | atomic save, lenient load | two writers, crash before the rename | a reader sees a whole document |
| Closure targets (`runtime/tick.rs` 1377-1800, 3808-4103) | closure target files | open, readiness, suppress, Arbiter result, block on drift | the backlog changes while the Arbiter runs; the target is saved before its incident | one target at a time; judged only when drained; remediation is earned |
| Blueprint planning and runtime effects (`workspace/blueprint_state.rs`, `runtime/blueprint_effects.rs`, `runtime/effects.rs`) | manifests, drafts, packets, promotions | split, draft, critique, promote, each several writes | a crash or failure between two writes, then the repetition | a source is settled by what it produced; one task for a draft, in order |
| Approvals and capabilities (`runtime/approvals.rs`, `capability_gates.rs`) | pending and resolved approvals | request, decide, gate a launch | decisions by two operators and the daemon; ids that change with every dispatch | no gated stage without its approval; no request lost |
| Intake: mailbox commands, interventions, watcher (`tick.rs`, `runtime_control.rs`) | `mailbox/`, `ideas/inbox` | file, defer, replay, archive; notice, debounce, file a spec | deferred copies, ends of the daemon, rewrites within a debounce window | an order is not lost; an idea is worked once |
| Runners (`runners/*`) | child processes | start, wait with a deadline, terminate, normalise | a child that floods, hangs, exits or answers at the deadline | the answer is the child's; no child is left; the run ends |
| Compiler and plan (`compiler/*`, reload in `tick.rs`) | the persisted plan and its fingerprint | compile, persist, adopt at startup and reload | documents edited while they are read; two compiles at once | a plan in use is closed and grants nothing denied; reload is never stale |
| Workspace, epoch, assets, doctor (`workspace.rs`, `schema_epoch.rs`, `managed_assets.rs`, `doctor.rs`) | directories, marker, manifest | initialise, reset, deploy, upgrade, diagnose | edits and daemons beside an upgrade or reset; crashes half way | edits survive; marker, manifest and doctor tell the truth |
| CLI, monitor, traces, contracts, request context | output, pure functions | read, render, parse | - | - |

They interact through shared files (queue, snapshot, counters, lock, mailbox),
by calls inside the daemon (loop -> tick -> queue store, state store), and by
messages in one direction only: operators put commands in the mailbox, the
daemon applies and archives them.

The hazards in `PROJECT.json` list where in the code each of these hard
behaviours bites and which property would catch it going wrong.

## 2. What is modelled

| Module | Component | Checked by | Proofs |
|---|---|---|---|
| RuntimeLock | ownership lock | `RuntimeLock` | RuntimeLockProofs |
| WorkQueue, WorkLedger | work queue and what it promises | `WorkQueue`, `WorkQueueOverlap` | WorkQueueProofs |
| RuntimeDaemon | startup, daemon loop, operators | `RuntimeDaemon`, `RuntimeDaemonStop` | RuntimeDaemonProofs |
| StageRouting | router, recovery, handoffs | `StageRouting`, `StageRoutingEnds` | StageRoutingProofs |
| ClosureTarget | closure targets, Arbiter, lineage repair | `ClosureTarget` | ClosureTargetProofs |
| Runner | dispatcher, adapters, normalisation | `Runner` | RunnerProofs |
| PlanCompiler, PlanStore | compiler, persisted plan, reload | `Dispatch` | RunDispatchProofs |
| CapabilityGate | capability gate, approvals | `Dispatch`, `ApprovalRepeats` | RunDispatchProofs |
| Blueprint | Blueprint planning and its effects | `Dispatch` | RunDispatchProofs |
| BlockedRecovery | return of blocked tasks | `Dispatch` | RunDispatchProofs |
| Intake | mailbox, interventions, watcher | `Control` | WorkspaceControlProofs |
| UsageGovernance | token ledger and budgets | `Control` | WorkspaceControlProofs |
| ManagedAssets | deployment and upgrade of assets | `Control` | WorkspaceControlProofs |
| Workspace | layout, epoch, reset, doctor | `Control` | WorkspaceControlProofs |

RunDispatch and WorkspaceControl put four modules side by side; `MCDispatch` (with the
documents of `MCPlanStore`) and `MCControl` instantiate them for TLC. The four share no
state that the modules keep, so nothing would be learnt from interleaving them:
`part` picks one module for a behaviour, and the other variables stay as they
began. Each module is explored in full under its bounds; what such a run adds
is economy, not interaction.

### RuntimeLock (`workspace/runtime_lock.rs`)

Processes are startups and clear-stale invocations. The model has one action for
each file-system call: `CreateNew` (`create_new` decides who wins), `WriteRecord`,
`WriteFails` (unlinks what it created), `ReleaseRead`, `ReleaseUnlink`,
`ClearRead`, `ClearClassify`, `ClearUnlink`; the file system may refuse an unlink
(`WriteAndUnlinkFail`, whose error `acquire` ignores, and `UnlinkFails`). A crash may
hit between any two, pids are given out again and unrelated processes may carry the
pid of a dead daemon. The model is of the Unix build: elsewhere every recorded pid
but the caller's own counts as not running. `written` tells a whole record from an empty or torn one, which the
classification calls `Invalid`.

### WorkQueue (`workspace/queue_store.rs`, `queue_lifecycle.rs`, `queue_claims.rs`, `task_lifecycle_integrity.rs`, and the command-line moves of `blocked_recovery.rs`)

`doc[x][s]` is the document of item `x` in the directory of state `s`, `NoDoc`
or `Torn`. An operation that touches one file is one action; one that touches
several (filing, retirement of a predecessor, archive, supersede with its
cascade) is a sequence of actions with the operation's record in `op[a]`, and
crashes fall between them. Actors are the runtime and command-line clients; with
`Overlap = FALSE` an actor starts only when no other one is in an operation, with
`TRUE` the steps interleave freely. Content is reduced to what decides a move:
dependencies and the root. Stage agents file tasks directly while the runtime
waits (`AgentFiles`).

`WorkLedger` is what all this amounts to for the rest of the runtime, and what the
methods of `QueueStore` promise: an item has `places`, and only five intents change
them (`File`, `Claim`, `Finish`, `Retry`, `Archive`), each at once. Nothing leaves
`done`, an operator takes away work in progress only from an incident, and until
operations have `raced` an item is filed or retried only when it is nowhere else (a
blocked task may also be filed again). No move goes to a place the item has already,
except back to the queue after a race: `move_item_from_state` looks at the
destination and renames in two calls, and what was filed in between is overwritten.
WorkQueue implements it with `places[x]` = the directories that hold a file of `x`,
whole or torn (`KeepsLedger`): every step of the model is one step of the ledger or
invisible to it. A step of the model is an effect, or a set of looks at the
directories for one id that lead to the next one.

### RuntimeDaemon (`runtime/supervisor.rs`, `startup.rs`, parts of `tick.rs`, `workspace/runtime_control.rs`)

The composition: directories (`place`), saved snapshot, the daemon's own copy
`mem`, lock, mailbox, and operators with the snapshot they loaded (`op[o].snap`).
`pc` walks through startup and the cycle of `run_cycle`; each action ends where
another process can observe or change a shared file. So a claim is `ClaimMove`
(the rename) and `Activate` (the save), a settled result `SettleMove` and
`SettleSave`, a command `Apply` and `Archive`, a direct operator command
`OpLoad`, `OpInspect` and the act. `StartupFails`, `ApplyFails`, `CycleFails`,
`SettleFails` and `Crash` are the error paths. A command whose envelope cannot be
read or whose application fails is filed in mailbox/failed and the drain goes on
(`ApplyFails`, `Reject`); what it had done by then stays done: nothing, all of it
(the event log could not be written), or the moves of a retry or a clear-stale
without the snapshot that belongs to them (`HalfApplied`).

Abstractions: the lock changes in one step (RuntimeLock has its inside); done
and blocked are both `out`; of a run's stage only `misfit` is kept (a probe sent
to a stage that takes no probes), since StageRouting has the stages; the
requeue and the save of a retry, and the renames of a mailbox clear, are one
step of the daemon.

### StageRouting (`runtime/tick.rs`: the router and what applies its decisions; `startup.rs`: resumption)

The compiled graph is a constant (`Edges`, `Resume`, `FixPolicy`, `BlockPolicy`);
`MCStageRouting` gives it the standard execution and planning graphs of
`assets/baseline/graphs`. `Stage` runs a stage with any outcome its edges have,
routes the result (`Routes`: thresholds first, then resume policies, then
edges), lets the effect of the planner's results change the route (`Disposed`: the
document the planner wrote keeps the route of the graph, completes the run with
child specs, or is invalid and blocks it) and saves the decision's class; `CountRoute`
saves the counters, `SaveRoute` the snapshot; `Finish`, `Handoff`, `Promote` and
`RejectPacket` end runs. An item of planning can be settled only where its graph maps
the result to a lifecycle action (`Mapped`); where it does not, as for a "blocked"
result, `Finish` is the recovery from that error. Startup resumes the foreground run of a stopped daemon at a stage of
recovery, with the limit written in `startup.rs`. The snapshot has one failure
class and one fix count for all planes, as in the code. `ApplyFails` is
`schedule_post_stage_exception_recovery`, the recon block or the end of the loop,
by plane and stage; `Crash` may hit between any two saves.

Abstractions: several terminal results with the same part in routing are one
outcome ("done", "fix", "escalate", "blocked"); the error codes of a failed
application are one class; the move of an item and the clearing of its run are
one step here, as are a recon packet and the item it generates (RuntimeDaemon
splits the first, and `RejectPacket` covers what the second can leave); items
filed by a handoff or by the planner are not executed (the former are counted);
consultant invocations are left
out because nothing reads them.

### ClosureTarget (`runtime/tick.rs` 1377-1800 and 3808-4103, `runtime/supervisor.rs`, `workspace/lineage_repair.rs`)

Per root: the directories of its spec, task, incident and Blueprint draft (which
stands for all the files of Blueprint planning that keep a target waiting), whether the task carries
the root id it should (`home`), whether the idea's markdown is found, and the
target file. A claim is a move (`ClaimSpec`) and its activation, which opens the
target; with nothing claimable the completion stage looks at the actionable
target or at that of the newest root spec (`Candidates`) and launches the Arbiter,
suppresses it over open work, or blocks on drift. The verdict has two halves:
`Judge` saves the target file, `FileIncident`, `BlockRepeated` or `FinishJudge`
the rest, and a crash may fall between. Operators add tasks, bring ideas, retry
blocked work, clear stale state, and repair a lineage by a plan checked first and
written later.

### Blueprint (`workspace/blueprint_state.rs`, `runtime/blueprint_effects.rs`, `effects.rs`)

A spec is split into drafts, drafts are claimed in order, written by the
contractor, rejected with a critique or approved and promoted to a task. `eff`
holds the writes of the result still to come (`ManagerWrites` and `ApprovalWrites`
are sequences of the handlers); before each of them the write may fail, which is
settled as the failure policy says, or the daemon die, after which the repetition
meets what the first attempt left. What a manager finds on file it skips (`Skip`). The settling move of
a draft is two steps, since the document is written and the old one removed.

### CapabilityGate (`runtime/capability_gates.rs`, `approvals.rs`)

The gate checks the grants of a node one by one; a grant that needs an approval is
looked up, or filed as pending, under the run, the request and the grant. Whether a
runner supports a grant is asked for granted ones only. Two
operators and the mailbox decide; a decision is written before the pending file is
removed. Run and request ids come from the pid and two counters of the process.

### BlockedRecovery (`runtime/blocked_recovery.rs`, `cli/mod.rs`)

A block is a rename and then the metadata that says why; an automatic requeue a
rename and then a line in the log the budget is counted from. The operator's retry
looks at the lock once, and at its end writes back the snapshot it read.

### UsageGovernance (`runtime/usage_governance.rs`)

Time, the ledger, the results on disk, rules over rolling, weekly and session
windows. A cycle reads the clock, repairs the ledger from the results, judges, and
applies the pause; a stage result is filed before it is counted. Crashes, reloads
that switch governance on and off, and an operator who pauses and resumes fall
between any two of these.

### Intake (`runtime/tick.rs`, `workspace/runtime_control.rs`)

Commands are files, applied in the order of their names; one that must wait for an
idle daemon is copied under a deferred name and replayed. The watcher notes
writes in `ideas/inbox`, waits out the debounce window, keeps the text and files
a spec named after the path (`SpecOf`). `recent` is the debounce window, `seen` what
the session has noted; both are gone with the session. Names that differ only in
characters an id cannot have make one spec id, and their ideas share one text under
`intake/ideas`: `NotedIsKept` claims something only for an idea whose id is its own
(`OwnId`), `IdeaRunsOnce` for all.

### PlanCompiler and PlanStore (`compiler/*`, reload in `runtime/tick.rs`)

PlanCompiler is a set of operators from documents to a plan, or to none: the checks
of graphs, stage kinds and workflow primitives, the resolution of each node from
mode, graph and config, grants, effect rules, the completion contract. Names stand
for texts. PlanStore reads documents one after the other while they are edited,
compiles, fingerprints what it reads at the end, persists, and reads the plan back;
a command line compiles beside the daemon, and reload keeps the last plan only if it
is still current. Evaluated over every combination of documents (`Accepted`),
`Closed` and `KeepsDenials` are the reference the compiler is compared with: they
look at the finished plan, which no check of the compiler does.

### Runner (`runners/*`, and the worker in `runtime/tick.rs`)

One request from the dispatcher to the envelope. The child is an adversary: it may
say any line, never answer, flood its pipe, ignore termination, exit. Time is one
bit, `due`: the deadline of the current wait has passed. The codex adapter polls (a
poll that fails, `CodexWaitFails`, is one for a child somebody else waited for) and
reads files, the Pi adapter speaks a protocol over pipes with a reader thread; the
normaliser takes the terminal line, if there is exactly one, or classifies a failure.

### ManagedAssets (`workspace/managed_assets.rs`)

A daemon deploys the assets that are missing; `upgrade --apply` previews all of
them and then writes one file after the other and the manifest last. Operators edit
meanwhile, packages of three versions are installed, processes die. A variable marks
edits made after the command had looked (`lateI`, `lateU`), and `half` holds the
versions whose upgrades were begun and have not finished: their files may stand beside
an older manifest. `ManifestTrue` leaves out the assets that a package changes back to
what an earlier one shipped (`Steady`): see section 4.

### Workspace (`workspace.rs`, `workspace/schema_epoch.rs`, `workspace/doctor.rs`)

Directories and default files, the marker with the epoch of the documents, the
initialisation, the gate of startup, the reset that moves documents of an older epoch
into an archive under a lock of its own (which it removes when a step fails,
`ResetFails`, and leaves when it dies), and the checks of the doctor as two sets of
findings, to be compared with those of startup.

### Not modelled, and why

- Run traces, monitor, request context, rendering of the command line: nothing reads
  them back to decide, or they are pure functions of text.
- The serial tick (`tick.rs:5363`): a test and one-shot path beside the daemon loop.
  It resets the snapshot to idle on a stop with runs in it.
- The learning lane on its own, learning triggers: RuntimeDaemon has learning as a
  plane with the policy of the learning modes.
- The write of a prompt to a full pipe (`pi_rpc_client.rs:660`): it has no deadline;
  Runner assumes that the prompt fits the pipe.
- A torn last line of an append-only log (ledger, requeue log): appends are one step.
- Blueprint: `cancel_blueprint_draft`, which no stage or command calls; ManagedAssets:
  asset paths that an operator turned into directories.
- Parsing and rendering of documents, ids and titles in the compiler, generic
  work-item families, archiving an incident that does not parse.
- In RuntimeDaemon the lock changes in one step, done and blocked are both `out`, and
  a run has no stage but `misfit`; RuntimeLock, WorkQueue and StageRouting have these.
  That RuntimeDaemon's `place` behaves as WorkLedger promises is not shown formally.

## 3. The runs

| Run | Instance | Shows |
|---|---|---|
| `RuntimeLock` | 3 startups, 2 clear-stales, 3 pids, 1 unrelated process; symmetric | exclusion until a clear-stale misfires, no lock leaked but by a refused unlink, stale verdicts sound |
| `WorkQueue` | 3 dependent tasks, or two of spec, probe and incident; runtime and 1 client, crashes; operations on tasks do not overlap | dependencies first, one place for an item, a cascade that succeeds settles, one active item per plane |
| `WorkQueueOverlap` | 2 tasks, operations overlap freely | nothing lost, the ledger kept when operations race, which lets a return to the queue replace a file |
| `RuntimeDaemon` | spec, probe, task, learning request; any 1 command; 1 fault | planes exclude, a stage runs for an active item, a pause holds, a retry requeues one run |
| `RuntimeDaemonStop` | a probe; 2 of stop and clear-stale; governance; 1 fault | a command is kept until it is applied or filed as failed, a stop that does not fail ends the daemon |
| `StageRouting` | task in the execution graph beside a learning request; thresholds 1, 4 results other than blocked, 1 fault, 1 requeue | bounded repairs and fix cycles, deserved exhaustion, one incident per run |
| `StageRoutingEnds` | spec, probe, task, learning request; 1 result other than blocked, then only blocks; 1 fault | every run ends whose item the mechanic does not take |
| `ClosureTarget` | 2 roots, a task, an incident and a draft for each, 1 crash | one target at a time and judged when drained, remediation earned, the newest target served |
| `Runner` | 4 requested names, 2 policies, messages of up to 2 of 4 lines | no child left, the answer is the child's, the run ends |
| `Dispatch` | the four parts in `MCDispatch` | closed plans, fresh reloads, approvals kept and obeyed, effects accounted, budgeted requeues |
| `Control` | the four parts in `MCControl`: 2 ideas and 2 orders, 3 rules, 3 packages, 2 epochs | orders, ideas and tokens counted once, no stage over budget, truthful marker, manifest and doctor |
| `ApprovalRepeats` | as `Dispatch` | the finding of section 4 |

The type invariants of RuntimeLock, WorkQueue, RuntimeDaemon, StageRouting and
ClosureTarget, and `DoneIsFinal` of the queue, are proved and therefore not among the
properties of the runs.

### Bounds

- Three startups and two clear-stales are the smallest numbers at which a
  clear-stale of a dead owner's file can hit the file of a third process.
- Three tasks are the smallest chain in which a replacement, the task it
  replaces and a dependent of both differ. Tasks and planning items share no
  directory, so `Narrow` lets a behaviour file one or the other; with three tasks
  on file operations do not overlap, with two they do (`WorkQueueOverlap`).
- One item per plane plus a probe gives every pair of planes and the one item
  that startup treats differently. One command and one fault (a crash, a failing step or a failing command) in
  `RuntimeDaemon` put each command against each error at each step; two commands
  in `RuntimeDaemonStop` are the smallest mailbox with an order. There one probe
  is the only item, because a stop does not depend on which item runs but on
  there being one whose run startup always finds stale.
- `RuntimeDaemon` explores only states with `clean` (constraint `StillClean`).
  After the first lost update or half-done move (a step that fails between the move of
  an item and the save, or a command that fails in that gap), `RunOwnsItem`, `PauseHeld` and
  `RetriedOnce` claim nothing: a snapshot that an operator writes back may name a run
  whose item has left, drop a pause, or bring back the run a retry took out;
  `ExclusivePlanes`, which claims something there as well, is proved, so its hold
  beyond the constraint does not rest on TLC. Lost updates are therefore inside the
  model, and the step that loses one is explored.
- `MaxFix` and `MaxRepair` are 1 where the baselines have 2: the counters cross
  their threshold after one repair, so all four outcomes and a fault fit into
  one run. The limit of startup stays 2, so the two limits differ as they may.
  `MaxHelp` bounds the results other than "blocked" (4 for the budgets, 1 where only
  the end matters: one suffices to leave a repair and come back to it); without it a stage that
  always succeeds and always asks for repairs keeps a task alive forever,
  which is what the graphs say.
- `ClosureTarget` gives a root one draft, which is queued, active, done or blocked:
  what counts is only whether the root has an open file of Blueprint planning.
- Two roots are the smallest number with an older and a newer one; a crash must
  fall once between the halves of a verdict, and a second adds nothing, since the
  restart forgets the first. The proofs hold for any number of both.
- `PipeDepth` is 1 in `Runner`: the reader takes one record at a time, and a child
  that always refills the pipe floods it at any depth.
- `Dispatch`: two modes and two configs of which one combination conflicts, three
  graphs of which two are refused by different checks, two sets of primitives, one
  edit; two stages with one approval each and two decisions that may hit the same
  request; two drafts of two revisions with two crashes, so that an effect and its
  repetition can both be cut short; three tasks of which two strand the third, three
  blocks against a budget of one.
- `Control`: two ideas, each with an id of its own, so that one waits while the other is
  handled, and two orders of which one may be deferred; a rule of each window over costs
  of 1 and 2 with two sessions; three versions, the fewest in which an asset is changed
  and changed back, beside one that is dropped and one that is added; two epochs and one
  fault, which may be a reset that fails.
- `CHECK_DEADLOCK FALSE` stands where the system may really stop: all operations
  are used up (lock, queue, the bounded modules of the composites), or all work is
  done and the daemon idles or is off (routing, closure).

### Fairness

`WF_vars(DaemonStep)` in RuntimeDaemon, StageRouting and ClosureTarget: a daemon
that runs takes its next step, since the loop has no wait other than its sleep, and
a stage returns, since runners have a time limit (which is what `RunEnds` of Runner
shows). StageRouting adds strong fairness of `Stage(p)` for each plane: the loop launches
the run of every active plane and collects the result of every worker, so a plane whose
repairs never end does not keep the stage of another from its turn. It is strong because
the model takes one stage at a time and the others are disabled until its result is
applied. Nobody is obliged to start a daemon, issue a command, fail or crash, and the
liveness properties hold up to the daemon being off. `StopObserved` (a stop in the
mailbox leads to the end of the daemon, unless it is filed as failed) needs only the
weak fairness; it rests on the mailbox being listed every cycle and on `stop` being the
last command in the order of file names. `RunsEnd` (an active item leaves its
directory) needs the bound on useful results, which is its hypothesis: stages that
only ever block. It leaves out items the mechanic takes, whose repairs have no end
(section 4). `NewestServed` says that an idle daemon does not leave the drained
target of the newest root alone; it holds because that target is looked at again in
every idle cycle, whatever it was marked before.

In Runner the worker thread runs, time passes and a killed child dies; nothing is
assumed of a child that was not killed. It may write for ever.

## 4. Where the code and its texts disagree

`ApprovalRepeats` (`tick.rs:1790`): every dispatch takes a new request id, and an
approval is filed and looked up by run, request and grant. An approval given for a
refused stage is never found when the run comes back to that stage: it is refused
again, with a new pending approval. `tests/runtime_capability_gates.rs:316` names the
promise that the gate "reuses pending and allows after approval"; its test passes the
same request twice, which the daemon never does.

Further disagreements are in the models, without a run of their own; the properties
leave them out by a history variable, which is named here:

- clear-stale inspects and unlinks in two steps and calls a record that is being
  written invalid, so it can unlink the lock of a running daemon, which the doc
  comment at `runtime_lock.rs:441` excludes (`misfired`, `ExclusiveUntilMisfire`).
- A cancel cascade archives the replacement when it depends on the superseded task
  (`queue_store.rs:1749`), although line 1692 asks for an existing replacement.
- A stop with a run between two stages keeps `stop_requested` in the saved snapshot and
  the next daemon stops at once (`supervisor.rs:775`), where `README.md:155` says the
  loop clears stopped daemon state. `StopObserved` permits it.
- The planning graph says where exhausted repairs end, with the terminal state "blocked"
  (`assets/baseline/graphs/planning/standard.json:65`). The run never gets there: the
  graph maps a result "BLOCKED" to no terminal state, so the source lifecycle intent of
  the block is an error (`tick.rs:4175`), whose recovery schedules the mechanic again,
  without an end; at the planner the document of its effect keeps the route to the
  mechanic as well. `RepairBudget` leaves planning out, `RunsEnd` what the mechanic takes.
- Rejecting a run whose stage does not take its item requeues the active items of every
  plane (`tick.rs:2146`, action `Disown`), where
  `docs/runtime/millrace-runtime-architecture.md:33` speaks of the active artifact.

What the properties make explicit without contradicting a document:

- A document filed between the check and the rename of `move_item_from_state` is
  overwritten (`Move` of WorkLedger, after a race); `NothingLost` still holds, because
  the item keeps a file.
- A mailbox command that fails is not tried again, and an operator's pause or stop may
  have taken effect although it is filed as failed (`ApplyFails`).
- A crash can grant one repair beyond the threshold, because the class of an interrupted
  decision stays in the snapshot (`RepairBudget` has `+ faults`); the fix count is shared,
  so another plane may reset it (`FixBudget` has `+ wipes`) or a scoped retry may leave it
  to the next task (`ExhaustionEarned` excepts `carried`).
- A reset that fails removes its lock and leaves the workspace half moved (`ResetFails`);
  a startup whose record cannot be written and whose file cannot be unlinked leaves it,
  for a clear-stale to find (`WriteAndUnlinkFail`). A Pi child that is killed on drop is
  waited for once, and that error is ignored (`Drop`): it may stay as a dead entry of the
  process table, which `NoChildLeft` allows.
- A stage that fails to settle after its item has moved keeps its run (`SettleFails`);
  `RunOwnsItem` claims nothing from there on (`clean`), and covers the crash in that gap.
- An approval is found by run and request id. Both come from the pid and counters of the
  process, so a process with a reused pid can ask under ids that were approved before;
  `LaunchedAsDecided` compares the ids and does not tell these requests apart.
- A crash between the rename and its line in the log grants one more automatic
  requeue (`uncounted` in `AutoBudget`); a
  retry from the command line that looked at the lock before the daemon took it can
  overwrite the daemon's snapshot (`overlapped`).
- An edit made between the preview and the writes of an upgrade is lost (`lateU`); a
  reset looks at the daemon's lock once, so a daemon that starts afterwards runs among
  files that are being moved (`raced`); an initialization writes a marker for whatever
  documents it finds when the old one is gone (`forged`).
- When `mechanic_blueprint` completes, the router does not resume as its policy says:
  it knows three resuming stages by name. Its error schedules "mechanic", which the
  Blueprint graph does not have; a spec then ends the daemon and a draft's run is
  disowned (`MechanicDone`, `LaunchFails`, `Disown`).
- The expiry date of an approval is stored, but nothing reads it.
- When a package changes an asset back to what an earlier one shipped, an upgrade to it
  that is cut short and started again takes what the interrupted upgrade between them
  wrote for the operator's modification (`managed_assets.rs`, the arm
  "local_only_modification"), keeps it and records the other content in the manifest.
- Two ideas whose file names differ only in characters an id cannot have share one spec
  id and one kept text, and the later overwrites the earlier.

## 5. What is proved

All proofs are checked by `tlapm` with Z3, Zenon and LS4. They assume only what the
modules assume of their constants, which TLC evaluates in the runs:
`ConstantsAssumption` (or a like name) for the types of the parameters,
`PipeDepthAssumption` (the pipe takes a record), `EditsAssumption`, `GateAssumption` and
`DraftingAssumption` (the bounds are numbers), `RecoveryAssumption` of RunDispatch
(dependencies that can be stranded are tasks), the two about graphs that are described
under StageRoutingProofs, and the four of WorkspaceControl: `IntakeAssumption` (an order
names an idea or spec there is), `BudgetAssumption` (tokens and thresholds are natural
numbers, as their unsigned types say), `AssetsAssumption` (no package ships what only
operators write, or half a file) and `EpochAssumption` (there is an epoch). Each module
also proves the type facts its argument needs.

**RuntimeLockProofs.** `IInv == TypeOK /\ HolderAtPath /\ FileProgress /\
VerdictFacts`. Exclusion is not inductive: two holders are excluded because,
until a misfire, the holder's file is *at the path* (`HolderAtPath`), and
`create_new` fails while a file is there. `VerdictFacts` says what the read of a
clear-stale still means when another process has since changed the file. From it
follow `Exclusive`, `NoLeak` and `StaleVerdict` for any number of processes; a
startup whose unlink was refused ends apart (`refused`), and `NoLeak` does not claim
it.

**WorkQueueProofs.** `IInv == TypeOK /\ OpFacts /\ NothingLost /\ ClaimAlone /\
OneActivePerPlane /\ OneBusy /\ ClaimReady /\ ActiveWhole /\ DependenciesDone`.
`OpFacts` relates an operation's record to the files it has already touched;
`ClaimAlone` says that between the check and the rename of a claim nothing else
makes an item of the plane active. The lemma `Steps` sorts the actions by their
effect on the documents (untouched, written, filled, moved, removed,
quarantined), so each conjunct is shown for six effects and not for twenty-odd
actions. It gives `NothingIsLost`, `PlaneExclusive`, `DependenciesAreDone` and
the action property `DoneFinal`.

Its second half shows `QueueKeepsLedger`: WorkQueue implements WorkLedger, for any
items, actors and documents, and `OnePlaceEach`. The simulation needs one fact more
than the invariant above, `PlacedFacts`: until operations overlap, the places an
operation looked at before it writes or requeues are the places the item still has;
and at any time the place where the runtime is about to put a finished item, other
than the queue, is free (`FreeEnd`), because nobody else writes there.
Each of the six changes becomes a step of the ledger (`SeenWrite`, `SeenMove`,
`SeenRemove` and `SeenQuarantine` say how it looks from there).

`CascadesSettle` (`CascadeSettles`) follows a supersede to its end. At the end it says that
no queued task depends on the superseded one, which is not inductive before: `Cascades`
says that every dependent is still on the list of the operation, except the one whose new
document is being written, which has lost the dependency, and the one that is being moved
out of the queue. It needs `OneBusy`: a task filed meanwhile could depend on the old one.

**RuntimeDaemonProofs.** `IInv` is `TypeOK`, soundness of `mem`, of `saved` and of
every snapshot an operator holds, the policy check of a claim in progress, and
`MailboxKept` with "a command at its archival has been applied, or is the one that
failed". `ExclusivePlanes`
needs the copies of the operators, because they may be written back at any later
time. It gives `PlanesExclude` and `CommandsKept`, through every race, crash and
restart, for any policy, items, operators and bounds.

`Lanes` (whose item a run may be, when the process runs, which lanes have workers) and
`Kept` carry the rest. `RunsOwnItems` (`RunOwnsItem`) needs at each point of the loop which
copy counts: the daemon's own while it runs, the saved one while none is loaded, except
for the planes whose items an operator has moved and not yet taken out of the snapshot
(`Owned`, `Excused`). `PausesHold` (`PauseHeld`) places the pause in the same way
(`Paused`): in the file once it is acknowledged, in the daemon's copy before anything is
started. `RetriesOnce` (`RetriedOnce`) is about a retry that requeued its run and died before
it was archived. The next daemon applies it again; it must find no run then, so
`ServedOnce` says that both copies have none in the scope of the command and that none is
launched before the command is drained again.

**StageRoutingProofs.** `IInv == TypeOK /\ Owned(mem) /\ Owned(saved) /\ Applying /\
IncidentRoom`. `IncidentOncePerRun` alone is not inductive: an incident may be filed
only if its run has none yet, so `IncidentRoom` counts one run more than incidents
for an active task whose run has not filed (`taken` holds the items whose present run
has its incident, which `enqueue_handoff_incident` refuses to write again). A
restart may resume the saved snapshot or the one in memory, so both must give their
runs to active items of their own plane (`Owned`). `GraphAssumption` says that the
graph has the three recovery stages the code names and that only stages which take
no execution items may promote. It holds for any graph, policies, thresholds, number
of faults and restarts.

`BInv == IInv /\ FixFacts /\ RepairFacts` gives the budgets. For `FixesBounded`
(`FixBudget`) and `ExhaustionIsEarned` the snapshot's one fix count is tied to the counter
of the task (`FixLeft`, `FixSpent`), and a decision for the fixer that is not counted or not
saved yet is followed to its end (`FixGranted`). `RepairsBounded` (`RepairBudget`) needs the
failure class: it stays in the snapshot from decision to decision, and a repair may be
counted under it without a look at the limit. It is about the items of execution and
learning, and `DecisionFacts` has to follow a decision through the planner's effect
(`Disposed`), which may put a repair in the place of the end the router chose. `ClassLeft` says that at a stage which asks
for fixes such a class has room (only a fault leaves one there), `Routed` says it of the
decision, `Apart` that planning and execution do not share the snapshot at one time.
`RecoveryAssumption` names what this rests on: planning and execution are not concurrent (the
policies of the baseline modes allow learning beside either, never both), fixes are asked
for in execution and lead to no recovery stage, results "blocked" reach a repair stage only
from stages that have a block policy. A graph without these may repair without bound, and
the router does not check them; `assets/baseline/graphs` has them, as TLC confirms on the
graphs of `MCStageRouting`.

**ClosureTargetProofs.** For any number of roots and crashes. Two invariants, each
over `TypeOK`, which here also relates variables (a claim holds the daemon, a verdict
half applied has its Arbiter, a closed target has been judged).

`InTurn == ~refused /\ Sole /\ SpecFirst /\ ArbiterAlone /\ Drained /\ Rooted` gives
`InTurnAlways` (`JudgedInTurn`). One actionable target is not inductive: a claimed spec
opens one later, so `SpecFirst` says of the claim that there is none yet or the root has
its target; the Arbiter opens its own target again when it asks for remediation, so
`ArbiterAlone` says that no other one is actionable while it runs; a target that is
looked at again is that of the newest root, which needs `Rooted` (a target has its spec
on file). That the judged root is drained is `Drained`: open documents under the root
came after the launch. It holds because the Arbiter starts with nothing open (drafts included), nothing of
the root is claimed beside it, and what operators retry is by then not blocked.

`Earned == AskedJudged /\ VerdictJudged /\ AskedOnce` gives `RemediationIsEarned`
(`RemediationEarned`): a root with an incident filed was judged and nothing was
executed since, so the next verdict finds it repeated. `VerdictJudged` carries this
through the half-applied verdict, which a crash may cut short.

**RunnerProofs.** For any names, policies, lines of text, failure phrases and depth of the
pipe: types, `NoneOutlives` (`NoChildLeft`) and `AnswersAreTheChilds` (`AnswerIsTheChilds`).
`ChildFacts` says which steps of the adapters have a child still to be reaped; that
a codex poll can fail only when there is no child left to wait for is part of the
action. The answer
has to be carried from the child's mouth: through the pipe, where only the answer to a
question that was asked once is a text (`TextFacts`), through what was read, to the raw
result (`RawFacts`), which normalisation then reads. `KilledFacts` says that a codex
child which was killed at the deadline has had its message looked at before.

**RunDispatchProofs.** The inductive invariant of the composition is the conjunction of
one for each part; a step of one leaves the variables of the others alone (`StepOfEach`).
It gives `TypesCorrect`, and:

- *Plan store.* `AcceptedIsSound` shows of the compiler, for every set of documents, that a
  plan it gives is closed and keeps the denials of its config. `PlaneClosed` goes through the
  names in a plan and finds for each the check that refuses a document in which it is not
  bound; `DeniedIsDenied` that no source of a decision outranks the config. `PlanInv` says
  that whatever is on disk, in use or in a compile under way came from accepted documents
  (`PlansAreSound`), and that the daemon compiles only when the plan on disk is stale and then
  never marks an old one as good (`DaemonCompile`), which is what `ReloadsFresh` needs.
- *Gate.* `GateInv == GateTyped /\ GateKept`. That no request is lost (`RequestsStay`) is not
  inductive: a decision removes the pending record, which is safe only because the resolved
  one is on disk by then (`Halves`). That a started runner was approved (`StartedAsDecided`)
  needs the way back from files to deciders: what is on record was asked for (`Asked`), a
  resolution repeats somebody's decision (`Resolved`), only what was asked for is being
  decided (`Whose`), and the grants that a pass of the gate has behind it without a block
  were approved (`PassedApproved`).
- *Blueprint.* `DraftingInv` gives `DraftsAreAccounted`. `EffectShape` says for each handler which
  writes may be left and what is on file when so many are: of an approval the packet, then
  the task, then the promotion. The hard part is that no draft files two tasks although an
  effect may fail or die after its task and the draft's run goes on. `SpentStays` says that a
  draft that has a task or is settled is not in the queue, and that its run is nowhere but in
  the end of that approval, at the repair stage or in its last move (`Finishing`): the way
  from there leads out, since no draft fits the repair stage and a draft that is disowned
  stays in active, where nothing claims it. `TasksInOrder` carries the order of the drafts
  from the claim to the task; `Backed` and the blockers give `NoPrematureClosure`
  (`NothingBlocksMeansDone`).
- *Blocked recovery.* `RecoveryInv` gives `RequeuesAreBooked` and `OnlyTransient`: each automatic
  requeue has its line in the log, is under way, or was cut short by a death of the daemon
  (`Booked`); metadata that is not still to be written tells of the last failure
  (`Described`); a daemon that no retry outlived is alone with its snapshot
  (`SnapshotOwned`). The task chosen for a requeue is the least of a set, whose existence
  rests on the order of the natural numbers (`LeastIn`).

**WorkspaceControlProofs.** As in RunDispatchProofs, `ControlInv` is the conjunction of one
invariant for each part. It gives `TypesCorrect`, `NothingIsLost`, `BudgetsHold`, `FilesAreTrue`
and `WritesStayInPlace`, for any ideas, orders, rules, packages, epochs and bounds.

- *Intake.* `OrdersKept`: an order is answered or a file still says it, and between the two
  steps of its archival the answer or the deferred copy is there already. `WorkedOnce`: an
  id that can be filed again was cancelled as often as it was filed, which makes
  `IdeaRunsOnce` inductive. `TextsKept`: an idea that is noted and no longer waiting, or is
  the one being handled, has its text under `intake/ideas`; here two ideas with one id break
  the step, which is how `OwnId` came in.
- *Usage governance.* `CountedOnce` (one line for a result, none missing from the repair to
  the pause) gives `EveryTokenCounted`. `BudgetsHold` needs that lines tell of results on disk
  (`LinesTrue`), that a result yet to be filed is not counted (`OutcomesApart`), and that no
  blocker means no rule exceeded at the time of the cycle (`JudgedRight`); the stage starts
  later, but a window that ends later begins later (`WindowsMove`), so it contains no line
  that the judged one had not (`StartedWithin`). That a smaller set of results has spent no
  more (`SpentLess`) is an induction over the recursion that adds up a ledger. The induction
  theorems of the library take the property as an operator, which the provers cannot
  instantiate; taken as a set of numbers, it follows from the existence of minimal elements
  (`EveryNumber`), and with it that the recursive sum exists (`SumsExist`), is the same
  whatever set it was defined for (`SumsAgree`) and does not depend on the order in which
  elements are taken (`SpentWithout`).
- *Managed assets.* `Cautious` carries the look to the write: the file a deployment is about
  to create or replace is the operator's only if it was edited since. `PreviewMeans` reads
  the table of dispositions backwards, from what is on the list to what was on disk. For
  `ManifestTrue`, `FirstDeployment` says how far the deployment is that writes the first
  manifest, `UpgradeSound` that an upgrade has behind it what it no longer has to write,
  `Recorded` that no unfinished upgrade is older than the manifest, and `Accounted` that an
  untouched asset holds what the manifest or one of those gives it.
- *Workspace.* `MarkerTrue` says of a marker, and of a daemon from its check on, that the
  documents are of its epoch; it holds with `LockHeld` (no reset beside a daemon that holds
  the lock, unless it raced) and `MovedStaysAway` (once a reset has moved the documents none
  come back before it marks), from which `ResetClean` follows (`MarksClean`). That a workspace
  the doctor passes is one startup accepts needs only the types: the findings are compared
  with what startup requires (`EpochMeans`).

Three attempts to prove found errors of the models. `ManifestTrue` was claimed of every
asset, and is false of one that a package changes back. The arms of two tables
(`DispositionOfPackage`, and the verdict in `Judge` of ClosureTarget) overlapped: in the
code the first that fits is taken, in a CASE any may be, and TLC takes the first, so that
no run could show it. The arms now exclude each other.

## 6. What is only model-checked

Liveness (`StopObserved`, `RunsEnd`, `NewestServed`, `RunEnds`) and anything about ENABLED is
out of the prover's reach; TLC checks it. Every safety property of every passing run, its
invariants and its action properties, is proved for all values of the constants that meet
the assumptions above. What a recursive definition computes is proved only for the sum of
the ledger; PlanCompiler is proved by going through the names of a plan, not by induction.

`ApprovalTakesEffect` is violated (section 4).
