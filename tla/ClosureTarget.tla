--------------------------- MODULE ClosureTarget ---------------------------
(***************************************************************************)
(* Closure targets and the Arbiter.                                        *)
(*                                                                         *)
(* The first claim of a root spec opens a closure target for its lineage.  *)
(* While a target is actionable (open and not marked blocked) only work of *)
(* its lineage is claimed; when that work has drained the Arbiter judges   *)
(* the root: it closes the target, asks for remediation with an incident,  *)
(* or is blocked.  A target whose lineage still has work is marked blocked *)
(* and leaves the way to other roots; it is looked at again only when it   *)
(* is the target of the newest root spec.  One foreground run at a time;   *)
(* a root has one task, one incident and, in the Blueprint mode, one draft *)
(* that stands for the files of its Blueprint planning (module Blueprint). *)
(***************************************************************************)
EXTENDS Naturals, FiniteSets

CONSTANTS
    RootCount,      \* root specs; a higher number was created later
    MaxCrashes      \* bound on crashes of the daemon

ASSUME Bounds == RootCount \in Nat /\ MaxCrashes \in Nat

VARIABLES
    spec,           \* per root, the directory of its spec
    task,           \* per root, the directory of its task ("none": there is none)
    inc,            \* per root, the directory of its incident
    draft,          \* per root, the directory of its Blueprint draft
    home,           \* per root, whether the task carries the root spec id it should
    idea,           \* per root, whether the markdown of its idea is found
    target,         \* per root, the closure target file
    worked,         \* roots with an execution stage logged since their last judgement
    asked,          \* history: roots with an incident filed, and no execution stage since
    claim,          \* the item claimed and not yet activated
    run,            \* the run of the foreground planes
    verdict,        \* a result of the Arbiter half applied: its action, or "none"
    late,           \* history: roots given new work while their Arbiter was running
    plan,           \* a lineage repair checked and not yet written
    up, refused, crashes

vars == <<spec, task, inc, draft, home, idea, target, worked, asked, claim, run, verdict,
          late, plan, up, refused, crashes>>

work == <<spec, task, inc, draft, home, idea>>

-----------------------------------------------------------------------------
Roots == 1..RootCount
Dirs == {"none", "queue", "active", "done", "blocked"}
Kinds == {"spec", "task", "incident", "draft", "closure"}

Targets == [state : {"none", "open", "closed"}, blocked : BOOLEAN, judged : BOOLEAN]
NoTarget == [state |-> "none", blocked |-> FALSE, judged |-> FALSE]

NoRun == [kind |-> "none", root |-> 0, stage |-> "none"]
NoPlan == [root |-> 0, dir |-> "none"]

\* Each item has one directory; a target that was closed has been judged.
FilesTyped ==
    /\ spec \in [Roots -> Dirs]
    /\ task \in [Roots -> Dirs \ {"done"}] /\ inc \in [Roots -> Dirs \ {"done"}]
    /\ draft \in [Roots -> Dirs \ {"done"}]
    /\ home \in [Roots -> BOOLEAN] /\ idea \in [Roots -> BOOLEAN]
    /\ target \in [Roots -> Targets]
    /\ \A r \in Roots :
         /\ target[r].state = "closed" => ~target[r].blocked /\ target[r].judged
         /\ target[r].state = "none" => target[r] = NoTarget

\* A claim holds the daemon, a verdict its Arbiter.
RunTyped ==
    /\ run = NoRun \/ run \in [kind : Kinds, root : Roots, stage : {"stage", "mechanic"}]
    /\ \/ claim = NoRun
       \/ /\ claim \in [kind : Kinds \ {"closure"}, root : Roots, stage : {"stage"}]
          /\ run = NoRun /\ up
    /\ verdict \in {"none", "close", "ask", "repeated", "blocked"}
    /\ verdict # "none" => run.kind = "closure" /\ up
    /\ plan = NoPlan \/ plan \in [root : Roots, dir : {"queue", "blocked"}]

TypeOK ==
    /\ FilesTyped /\ RunTyped
    /\ worked \subseteq Roots /\ asked \subseteq Roots /\ late \subseteq Roots
    /\ up \in BOOLEAN /\ refused \in BOOLEAN /\ crashes \in 0..MaxCrashes

Init ==
    /\ spec = [r \in Roots |-> "none"]
    /\ task = [r \in Roots |-> "none"] /\ inc = [r \in Roots |-> "none"]
    /\ draft = [r \in Roots |-> "none"]
    /\ home = [r \in Roots |-> TRUE]
    /\ idea \in [Roots -> BOOLEAN]
    /\ target = [r \in Roots |-> NoTarget]
    /\ worked = {} /\ asked = {} /\ late = {}
    /\ claim = NoRun /\ run = NoRun /\ verdict = "none" /\ plan = NoPlan
    /\ up = TRUE /\ refused = FALSE /\ crashes = 0

-----------------------------------------------------------------------------
(* What counts as open work of a lineage.                                   *)

\* Defect: blocked work is taken for finished.
OpenDirsMoving == {"queue", "active"}

OpenDirs == {"queue", "active", "blocked"}

\* The Blueprint references count like the lineage's documents.
OpenWork(r) ==
    \/ spec[r] \in OpenDirs
    \/ task[r] \in OpenDirs /\ home[r]
    \/ inc[r] \in OpenDirs
    \/ draft[r] \in OpenDirs

\* Work of the same idea that carries the id of another root.
Drift(r) == task[r] \in {"queue", "active", "blocked"} /\ ~home[r]

HasTarget(r) == target[r].state # "none"

Saved(r, state, blocked, judged) ==
    [target EXCEPT ![r] = [state |-> state, blocked |-> blocked, judged |-> judged]]

Actionable == {r \in Roots : target[r].state = "open" /\ ~target[r].blocked}

-----------------------------------------------------------------------------
(* Claims *)

\* An item in an active directory that no run is about makes the daemon stop
\* dispatching until it is cleared.
Orphaned == \E r \in Roots : "active" \in {spec[r], task[r], inc[r]}

Ready == up /\ run = NoRun /\ claim = NoRun /\ ~Orphaned

Scope == IF Actionable = {} THEN Roots ELSE Actionable

\* An active draft holds up the claims of planning, with or without a run.
Drafting == \E r \in Roots : draft[r] = "active"

ClaimableIncidents == {r \in Scope : inc[r] = "queue" /\ ~Drafting}
ClaimableDrafts == {r \in Scope : draft[r] = "queue" /\ ~Drafting}
ClaimableSpecs == {r \in Scope : spec[r] = "queue" /\ ~Drafting}
ClaimableTasks == {r \in Scope : task[r] = "queue" /\ (home[r] \/ Actionable = {})}

Claimed(kind, r) == [kind |-> kind, root |-> r, stage |-> "stage"]

ClaimIncident ==
    /\ Ready
    /\ \E r \in ClaimableIncidents :
         inc' = [inc EXCEPT ![r] = "active"] /\ claim' = Claimed("incident", r)
    /\ UNCHANGED <<spec, task, draft, home, idea, target, worked, asked, run, verdict, late, plan, up, refused, crashes>>

\* Incidents go before drafts, ...
ClaimDraft ==
    /\ Ready /\ ClaimableIncidents = {}
    /\ \E r \in ClaimableDrafts :
         draft' = [draft EXCEPT ![r] = "active"] /\ claim' = Claimed("draft", r)
    /\ UNCHANGED <<spec, task, inc, home, idea, target, worked, asked, run, verdict, late, plan, up, refused, crashes>>

\* ... drafts before specs, older specs before newer ones.
ClaimSpec ==
    /\ Ready /\ ClaimableIncidents \cup ClaimableDrafts = {}
    /\ \E r \in ClaimableSpecs :
         /\ \A s \in ClaimableSpecs : r <= s
         /\ spec' = [spec EXCEPT ![r] = "active"] /\ claim' = Claimed("spec", r)
    /\ UNCHANGED <<task, inc, draft, home, idea, target, worked, asked, run, verdict, late, plan, up, refused, crashes>>

ClaimTask ==
    /\ Ready
    /\ \E r \in ClaimableTasks :
         task' = [task EXCEPT ![r] = "active"] /\ claim' = Claimed("task", r)
    /\ UNCHANGED <<spec, inc, draft, home, idea, target, worked, asked, run, verdict, late, plan, up, refused, crashes>>

\* A second actionable target is refused: the daemon ends, the spec stays moved.
Refuses ==
    claim.kind = "spec" /\ ~HasTarget(claim.root) /\ Actionable # {}

\* The claim of a root spec opens its target, if it has none and the idea is found.
Activate ==
    /\ up /\ claim # NoRun
    /\ target' = IF /\ claim.kind = "spec" /\ ~Refuses
                    /\ ~HasTarget(claim.root) /\ idea[claim.root]
                 THEN Saved(claim.root, "open", FALSE, FALSE) ELSE target
    /\ run' = IF Refuses THEN NoRun ELSE claim
    /\ claim' = NoRun /\ up' = ~Refuses /\ refused' = Refuses
    /\ UNCHANGED <<work, worked, asked, verdict, late, plan, crashes>>

-----------------------------------------------------------------------------
(* Runs of work items.  Recovery within a run is not modelled here.         *)

Running(kind) == up /\ run.kind = kind

PlanDone ==
    /\ Running("spec") \/ Running("incident")
    /\ LET r == run.root IN
         /\ spec' = IF run.kind = "spec" THEN [spec EXCEPT ![r] = "done"] ELSE spec
         /\ inc' = IF run.kind = "incident" THEN [inc EXCEPT ![r] = "none"] ELSE inc
         /\ \/ UNCHANGED <<task, draft, home>>
            \/ /\ task[r] = "none"
               /\ task' = [task EXCEPT ![r] = "queue"]
               /\ \E b \in BOOLEAN : home' = [home EXCEPT ![r] = b]
               /\ UNCHANGED draft
            \/ /\ draft[r] = "none"
               /\ draft' = [draft EXCEPT ![r] = "queue"]
               /\ UNCHANGED <<task, home>>
    /\ run' = NoRun
    /\ UNCHANGED <<idea, target, worked, asked, claim, verdict, late, plan, up, refused, crashes>>

PlanBlocked ==
    /\ Running("spec") \/ Running("incident")
    /\ spec' = IF run.kind = "spec" THEN [spec EXCEPT ![run.root] = "blocked"] ELSE spec
    /\ inc' = IF run.kind = "incident" THEN [inc EXCEPT ![run.root] = "blocked"] ELSE inc
    /\ run' = NoRun
    /\ UNCHANGED <<task, draft, home, idea, target, worked, asked, claim, verdict, late, plan, up, refused, crashes>>

\* An approved draft files its task, which must name the root of the draft; what
\* a blocked one left behind is never taken up again.
DraftEnds ==
    /\ Running("draft") /\ run.stage = "stage"
    /\ \/ /\ task[run.root] = "none"
          /\ task' = [task EXCEPT ![run.root] = "queue"]
          /\ home' = [home EXCEPT ![run.root] = TRUE]
          /\ draft' = [draft EXCEPT ![run.root] = "none"]
       \/ draft' = [draft EXCEPT ![run.root] = "blocked"] /\ UNCHANGED <<task, home>>
    /\ run' = NoRun
    /\ UNCHANGED <<spec, inc, idea, target, worked, asked, claim, verdict, late, plan, up, refused, crashes>>

\* A draft does not fit the recovery stage: the run is disowned, the draft stays.
DraftDisowned ==
    /\ Running("draft") /\ run.stage = "mechanic"
    /\ run' = NoRun
    /\ UNCHANGED <<work, target, worked, asked, claim, verdict, late, plan, up, refused, crashes>>

\* The log of completed execution stages does not say of which root they were.
TaskEnds ==
    /\ Running("task")
    /\ \E d \in {"none", "blocked"} : task' = [task EXCEPT ![run.root] = d]
    /\ worked' = Roots /\ asked' = {} /\ run' = NoRun
    /\ UNCHANGED <<spec, inc, draft, home, idea, target, claim, verdict, late, plan, up, refused, crashes>>

-----------------------------------------------------------------------------
(* The completion stage *)

\* The newest root spec found in any of the directories but the archive.
Newest == {r \in Roots : spec[r] # "none" /\ \A s \in Roots : spec[s] # "none" => s <= r}

\* Defect: a target that was marked blocked is never looked at again.
CandidatesActionable == Actionable

\* The actionable target; without one, that of the newest root spec, created
\* here when its claim could not (the idea was not found then).
Candidates ==
    IF Actionable # {} THEN Actionable
    ELSE {r \in Newest : target[r].state = "open" \/ (~HasTarget(r) /\ idea[r])}

NothingClaimable ==
    ClaimableIncidents \cup ClaimableDrafts \cup ClaimableSpecs \cup ClaimableTasks = {}

\* Readiness is computed again and saved.
Refresh(r, held) == Saved(r, "open", held, target[r].judged)

\* The request of the completion stage: the target instead of a work item.
ArbiterRun(r) == Claimed("closure", r)

LaunchArbiter ==
    /\ Ready /\ NothingClaimable
    /\ \E r \in Candidates :
         /\ ~OpenWork(r) /\ ~Drift(r)
         /\ target' = Refresh(r, FALSE) /\ run' = ArbiterRun(r)
    /\ UNCHANGED <<work, worked, asked, claim, verdict, late, plan, up, refused, crashes>>

Suppress ==
    /\ Ready /\ NothingClaimable
    /\ \E r \in Candidates : OpenWork(r) /\ target' = Refresh(r, TRUE)
    /\ UNCHANGED <<work, worked, asked, claim, run, verdict, late, plan, up, refused, crashes>>

BlockOnDrift ==
    /\ Ready /\ NothingClaimable
    /\ \E r \in Candidates : ~OpenWork(r) /\ Drift(r) /\ target' = Refresh(r, TRUE)
    /\ UNCHANGED <<work, worked, asked, claim, run, verdict, late, plan, up, refused, crashes>>

\* Defect: a judgement does not set the mark in the log that the next one looks from.
WorkedAfterKept(r) == worked

WorkedAfter(r) == worked \ {r}

Repeated(r) == target[r].judged /\ r \notin worked

\* First half: the target file is saved with what the Arbiter said.
Judge ==
    /\ Running("closure") /\ run.stage = "stage" /\ verdict = "none"
    /\ \E v \in {"close", "remediate", "blocked"} :
         /\ verdict' = CASE v # "remediate" -> v
                         [] v = "remediate" /\ Repeated(run.root) -> "repeated"
                         [] OTHER -> "ask"
         /\ target' = Saved(run.root, IF v = "close" THEN "closed" ELSE "open", FALSE, TRUE)
    /\ worked' = WorkedAfter(run.root)
    /\ UNCHANGED <<work, asked, claim, run, late, plan, up, refused, crashes>>

\* Second half: the end of the run, and before it the incident if one is asked for.
EndJudgement(verdicts) ==
    /\ up /\ verdict \in verdicts
    /\ verdict' = "none" /\ run' = NoRun /\ late' = {}
    /\ UNCHANGED <<spec, task, draft, home, idea, target, worked, claim, plan, up, refused, crashes>>

FileIncident ==
    /\ EndJudgement({"ask"})
    /\ inc' = [inc EXCEPT ![run.root] = "queue"] /\ asked' = asked \cup {run.root}

BlockRepeated == EndJudgement({"repeated"}) /\ UNCHANGED <<inc, asked>>

FinishJudge == EndJudgement({"close", "blocked"}) /\ UNCHANGED <<inc, asked>>

-----------------------------------------------------------------------------
(* Crashes, restarts, operators *)

Crash ==
    /\ up /\ crashes < MaxCrashes
    /\ up' = FALSE /\ crashes' = crashes + 1
    /\ claim' = NoRun /\ verdict' = "none"
    /\ UNCHANGED <<work, target, worked, asked, run, late, plan, refused>>

Stop ==
    /\ Ready /\ up' = FALSE
    /\ UNCHANGED <<work, target, worked, asked, claim, run, verdict, late, plan, refused, crashes>>

\* A run found at startup is sent to the recovery stage of its plane.
Restart ==
    /\ ~up /\ up' = TRUE
    /\ run' = IF run = NoRun THEN run ELSE [run EXCEPT !.stage = "mechanic"]
    /\ UNCHANGED <<work, target, worked, asked, claim, verdict, late, plan, refused, crashes>>

\* The operator clears stale state: what is active is queued again, but drafts.
ClearStale ==
    /\ claim = NoRun /\ verdict = "none" /\ (run # NoRun \/ Orphaned)
    /\ LET requeued(f) == [r \in Roots |-> IF f[r] = "active" THEN "queue" ELSE f[r]] IN
         spec' = requeued(spec) /\ task' = requeued(task) /\ inc' = requeued(inc)
    /\ run' = NoRun /\ late' = {}
    /\ UNCHANGED <<draft, home, idea, target, worked, asked, claim, verdict, plan, up, refused, crashes>>

Arrive(r) ==
    /\ spec[r] = "none" /\ spec' = [spec EXCEPT ![r] = "queue"]
    /\ UNCHANGED <<task, inc, draft, home, idea, target, worked, asked, claim, run, verdict, late, plan, up, refused, crashes>>

IdeaArrives(r) ==
    /\ ~idea[r] /\ idea' = [idea EXCEPT ![r] = TRUE]
    /\ UNCHANGED <<spec, task, inc, draft, home, target, worked, asked, claim, run, verdict, late, plan, up, refused, crashes>>

AddTask(r) ==
    /\ spec[r] # "none" /\ task[r] = "none"
    /\ task' = [task EXCEPT ![r] = "queue"] /\ home' = [home EXCEPT ![r] = TRUE]
    /\ late' = IF run.kind = "closure" /\ run.root = r THEN late \cup {r} ELSE late
    /\ UNCHANGED <<spec, inc, draft, idea, target, worked, asked, claim, run, verdict, plan, up, refused, crashes>>

RetryBlocked(r) ==
    /\ \/ spec[r] = "blocked" /\ spec' = [spec EXCEPT ![r] = "queue"] /\ UNCHANGED <<task, inc>>
       \/ task[r] = "blocked" /\ task' = [task EXCEPT ![r] = "queue"] /\ UNCHANGED <<spec, inc>>
       \/ inc[r] = "blocked" /\ inc' = [inc EXCEPT ![r] = "queue"] /\ UNCHANGED <<spec, task>>
    /\ UNCHANGED <<draft, home, idea, target, worked, asked, claim, run, verdict, late, plan, up, refused, crashes>>

\* repair-lineage --apply: refused while a daemon holds the lock or a stage is active.
RepairCheck(r) ==
    /\ ~up /\ run = NoRun /\ plan = NoPlan
    /\ HasTarget(r) /\ Drift(r) /\ task[r] \in {"queue", "blocked"}
    /\ plan' = [root |-> r, dir |-> task[r]]
    /\ UNCHANGED <<work, target, worked, asked, claim, run, verdict, late, up, refused, crashes>>

\* The task is rewritten where the plan found it; if it has moved the repair fails.
RepairWrite ==
    /\ plan # NoPlan /\ plan' = NoPlan
    /\ home' = IF task[plan.root] = plan.dir THEN [home EXCEPT ![plan.root] = TRUE] ELSE home
    /\ UNCHANGED <<spec, task, inc, draft, idea, target, worked, asked, claim, run, verdict, late, up, refused, crashes>>

-----------------------------------------------------------------------------
DaemonStep ==
    \/ ClaimIncident \/ ClaimDraft \/ ClaimSpec \/ ClaimTask \/ Activate
    \/ PlanDone \/ PlanBlocked \/ DraftEnds \/ DraftDisowned \/ TaskEnds \/ LaunchArbiter \/ Suppress \/ BlockOnDrift
    \/ Judge \/ FileIncident \/ BlockRepeated \/ FinishJudge

Operator ==
    \/ Stop \/ ClearStale \/ RepairWrite
    \/ \E r \in Roots : Arrive(r) \/ IdeaArrives(r) \/ AddTask(r) \/ RetryBlocked(r) \/ RepairCheck(r)

Next == DaemonStep \/ Crash \/ Restart \/ Operator

Spec == Init /\ [][Next]_vars /\ WF_vars(DaemonStep)

-----------------------------------------------------------------------------
(* At most one target is actionable, whatever was blocked, judged or backfilled
   before: a second one makes every later tick of the daemon fail
   (active_closure_target), or the claim that wanted to open it. *)
OneActionable == Cardinality(Actionable) <= 1 /\ ~refused

(* While the Arbiter judges a root, no work of its lineage is open, blocked or
   filed under a wrong root, but what an operator added after it started. *)
JudgedDrained ==
    run.kind = "closure" => (OpenWork(run.root) \/ Drift(run.root) => run.root \in late)

(* Roots are judged one at a time, and each only after its work. *)
JudgedInTurn == OneActionable /\ JudgedDrained

(* A second remediation incident of a root is filed only after some execution
   stage ran since the first (is_repeated_remediation_without_execution). *)
RemediationEarned ==
    [][\A r \in Roots : verdict = "ask" /\ run.root = r /\ inc'[r] = "queue" => r \notin asked]_vars

(* An idle daemon with nothing to claim and no other actionable target. *)
Waits(r) ==
    /\ Ready /\ NothingClaimable /\ Actionable \subseteq {r}
    /\ target[r].state = "open" /\ ~OpenWork(r) /\ ~Drift(r)

(* The drained target of the newest root does not wait for ever at an idle
   daemon, even if it was marked blocked before (refresh_closure_target_readiness). *)
NewestServed == []<>~(\E r \in Newest : Waits(r))
=============================================================================
