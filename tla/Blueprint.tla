----------------------------- MODULE Blueprint -----------------------------
(***************************************************************************)
(* Blueprint planning (mode blueprint, graph planning.blueprint).          *)
(*                                                                         *)
(* A spec is planned, then split by the manager into a manifest and a      *)
(* strict sequence of drafts.  Each draft is claimed in turn; a contractor *)
(* writes a candidate packet, an evaluator rejects it (with a critique,    *)
(* for the next revision) or approves it, which promotes it to one         *)
(* generated task.  What the stages return is put into effect by runtime   *)
(* effect handlers, file by file; after any file the next write may fail   *)
(* or the daemon may die.  A closure target of the spec's root waits for   *)
(* the blockers these files amount to.                                     *)
(***************************************************************************)
EXTENDS Naturals, Sequences

CONSTANTS
    DraftCount,     \* drafts in the manifest; draft d waits for every draft below d
    MaxRevision,    \* packets written for one draft
    TaskIds,        \* ids an evaluator may give to a generated task
    MaxCrashes      \* bound on crashes of the daemon

VARIABLES
    spec,           \* directory of the source spec
    split,          \* the planner resolved the spec into child specs of its own
    manifest,       \* the manifest file exists
    drafts,         \* per draft, the directories that hold a copy of it
    doc,            \* per draft, [rev, latest]: what its document records
    packets,        \* per draft and revision, the directory of the packet
    tasks,          \* generated tasks: [id, draft, at]
    promotions,     \* promotion records: [draft, rev, task]
    run,            \* the run of the planning plane: [item, stage]
    attempts,       \* mechanic attempts counted for that run's item
    eff,            \* the effect being applied, or NoEffect
    moving,         \* a draft whose second copy is still to be removed, or NoMove
    up,             \* the daemon is alive
    crashes

vars == <<spec, split, manifest, drafts, doc, packets, tasks, promotions, run, attempts,
          eff, moving, up, crashes>>

files == <<spec, split, manifest, drafts, doc, packets, tasks, promotions>>

-----------------------------------------------------------------------------
Drafts == 1..DraftCount
Revisions == 1..MaxRevision

Dirs == {"queue", "active", "approved", "blocked", "canceled", "superseded"}

DraftDocs == [rev : 0..MaxRevision, latest : 0..MaxRevision]

PacketStates == {"none", "candidates", "approved", "rejected"}

Promotions == [draft : Drafts, rev : Revisions, task : TaskIds]

\* The nodes of the compiled graph this model runs.  The recovery stage of the
\* runtime, "mechanic", is not one of them: the graph has "mechanic_blueprint".
PlanningNodes == {"planner", "manager_blueprint", "contractor_blueprint",
                  "evaluator_blueprint", "mechanic_blueprint"}
RepairStage == "mechanic"

NoRun == [item |-> 0, stage |-> "none"]
NoEffect == [handler |-> "none", todo |-> <<>>, made |-> {}, fate |-> "none"]
NoMove == [draft |-> 0, from |-> "none"]

SpecItem == 0

\* Stage/item pairs the ownership check before a launch accepts.
Takes(stage, i) ==
    CASE stage \in {"planner", "manager_blueprint", RepairStage} -> i = SpecItem
      [] stage \in {"contractor_blueprint", "evaluator_blueprint"} -> i # SpecItem
      [] OTHER -> TRUE

At(d) == drafts[d]
ActiveDrafts == {d \in Drafts : "active" \in At(d)}
Idle == run = NoRun /\ eff = NoEffect /\ moving = NoMove

TypeOK ==
    /\ spec \in {"queue", "active", "done", "blocked"}
    /\ split \in BOOLEAN /\ manifest \in BOOLEAN
    /\ drafts \in [Drafts -> SUBSET Dirs]
    /\ doc \in [Drafts -> DraftDocs]
    /\ packets \in [Drafts -> [Revisions -> PacketStates]]
    /\ tasks \subseteq [id : TaskIds, draft : Drafts, at : {"open", "done", "gone"}]
    /\ promotions \subseteq Promotions
    /\ run.stage \in PlanningNodes \cup {RepairStage, "none"}
    /\ attempts \in 0..2
    /\ moving.draft \in Drafts \cup {0}
    /\ up \in BOOLEAN /\ crashes \in 0..MaxCrashes

Init ==
    /\ spec = "queue" /\ split = FALSE /\ manifest = FALSE
    /\ drafts = [d \in Drafts |-> {}]
    /\ doc = [d \in Drafts |-> [rev |-> 0, latest |-> 0]]
    /\ packets = [d \in Drafts |-> [r \in Revisions |-> "none"]]
    /\ tasks = {} /\ promotions = {}
    /\ run = NoRun /\ attempts = 0 /\ eff = NoEffect /\ moving = NoMove
    /\ up = TRUE /\ crashes = 0

-----------------------------------------------------------------------------
(* Claims: nothing is claimed while an item is active, drafts go first.     *)

Completed == {d \in Drafts : At(d) \cap {"approved", "canceled", "superseded"} # {}}

Eligible == {d \in Drafts : "queue" \in At(d) /\ \A e \in 1..(d - 1) : e \in Completed}

Claimable == up /\ Idle /\ spec # "active" /\ ActiveDrafts = {}

ClaimSpec ==
    /\ Claimable /\ Eligible = {} /\ spec = "queue"
    /\ spec' = "active"
    /\ run' = [item |-> SpecItem, stage |-> "planner"] /\ attempts' = 0
    /\ UNCHANGED <<split, manifest, drafts, doc, packets, tasks, promotions, eff, moving, up, crashes>>

\* First half of the claim: the active copy is written.
ClaimDraft ==
    /\ Claimable
    /\ \E d \in Eligible :
         /\ \A e \in Eligible : d <= e
         /\ drafts' = [drafts EXCEPT ![d] = @ \cup {"active"}]
         /\ moving' = [draft |-> d, from |-> "queue"]
    /\ UNCHANGED <<spec, split, manifest, doc, packets, tasks, promotions, run, attempts, eff, up,
                   crashes>>

\* Second half of any move: the old copy is removed.  After a claim the run
\* starts at the contractor; after a lifecycle move the run is over.
FinishMove ==
    /\ up /\ moving # NoMove
    /\ drafts' = [drafts EXCEPT ![moving.draft] = @ \ {moving.from}]
    /\ moving' = NoMove /\ attempts' = 0
    /\ run' = IF moving.from = "queue"
              THEN [item |-> moving.draft, stage |-> "contractor_blueprint"]
              ELSE NoRun
    /\ UNCHANGED <<spec, split, manifest, doc, packets, tasks, promotions, eff, up, crashes>>

-----------------------------------------------------------------------------
(* Lifecycle of the source of an effect or of a blocked run.                *)

\* Starts the move of the run's item to directory "to"; a draft that already
\* has a copy there, or none in active, is an error: recovery is scheduled.
Recover == run' = [run EXCEPT !.stage = RepairStage]

CanLeave(i, to) ==
    IF i = SpecItem THEN spec = "active" ELSE "active" \in At(i) /\ to \notin At(i)

Leave(to) ==
    IF ~CanLeave(run.item, to)
    THEN Recover /\ UNCHANGED <<spec, drafts, moving, attempts>>
    ELSE IF run.item = SpecItem
    THEN /\ spec' = (IF to = "approved" THEN "done" ELSE to)
         /\ run' = NoRun /\ attempts' = 0 /\ UNCHANGED <<drafts, moving>>
    ELSE /\ drafts' = [drafts EXCEPT ![run.item] = @ \cup {to}]
         /\ moving' = [draft |-> run.item, from |-> "active"]
         /\ UNCHANGED <<spec, run, attempts>>

-----------------------------------------------------------------------------
(* Stage results, other than those the four handlers below take.            *)

Threshold == 2

StageRuns == up /\ run.stage \in PlanningNodes /\ eff = NoEffect /\ moving = NoMove

\* The planner's disposition keeps the spec for the manager, ...
PlannerDone ==
    /\ StageRuns /\ run.stage = "planner"
    /\ run' = [run EXCEPT !.stage = "manager_blueprint"]
    /\ UNCHANGED <<files, attempts, eff, moving, up, crashes>>

\* ... or names child specs it queued; one that left the queue again asks for
\* recovery, ...
PlannerSplits ==
    /\ StageRuns /\ run.stage = "planner"
    /\ \/ Recover /\ UNCHANGED <<spec, split, drafts, moving, attempts>>
       \/ Leave("approved") /\ split' = TRUE
    /\ UNCHANGED <<manifest, doc, packets, tasks, promotions, eff, up, crashes>>

\* ... or is missing, of another spec, or at odds with the result: blocked.
PlannerInvalid ==
    /\ StageRuns /\ run.stage = "planner"
    /\ Leave("blocked")
    /\ UNCHANGED <<split, manifest, doc, packets, tasks, promotions, eff, up, crashes>>

StageBlocked ==
    /\ StageRuns
    /\ IF attempts < Threshold
       THEN /\ run' = [run EXCEPT !.stage = "mechanic_blueprint"]
            /\ attempts' = attempts + 1
            /\ UNCHANGED <<spec, drafts, moving>>
       ELSE Leave("blocked")
    /\ UNCHANGED <<split, manifest, doc, packets, tasks, promotions, eff, up, crashes>>

\* The resume policy names the planner, but the router knows only three
\* resuming stages and mechanic_blueprint is none of them: its error schedules
\* the repair stage of the plane.
MechanicDone ==
    /\ StageRuns /\ run.stage = "mechanic_blueprint"
    /\ Recover
    /\ UNCHANGED <<files, attempts, eff, moving, up, crashes>>

-----------------------------------------------------------------------------
(* What a run at the missing node comes to.                                 *)

\* A draft does not fit the repair stage: the run is disowned, active specs are
\* requeued, drafts are not.
Disown ==
    /\ up /\ run # NoRun /\ eff = NoEffect /\ moving = NoMove
    /\ ~Takes(run.stage, run.item)
    /\ run' = NoRun /\ attempts' = 0
    /\ spec' = IF spec = "active" THEN "queue" ELSE spec
    /\ UNCHANGED <<split, manifest, drafts, doc, packets, tasks, promotions, eff, moving, up, crashes>>

\* A spec does, but no node of the graph runs it: the daemon ends in an error.
LaunchFails ==
    /\ up /\ run.stage = RepairStage /\ Takes(run.stage, run.item)
    /\ up' = FALSE
    /\ UNCHANGED <<files, run, attempts, eff, moving, crashes>>

\* The operator's clear-stale, which the daemon or the command line applies.
ClearStale ==
    /\ run # NoRun /\ eff = NoEffect /\ moving = NoMove
    /\ run' = NoRun /\ attempts' = 0
    /\ spec' = IF spec = "active" THEN "queue" ELSE spec
    /\ UNCHANGED <<split, manifest, drafts, doc, packets, tasks, promotions, eff, moving, up, crashes>>

-----------------------------------------------------------------------------
(* Effects.  "todo" lists the writes left, "made" the files created so far, *)
(* "fate" what becomes of the source when all are done.                     *)

Op(op, d) == [op |-> op, draft |-> d]

Begin(handler, todo, fate) ==
    eff' = [handler |-> handler, todo |-> todo, made |-> {}, fate |-> fate]

\* Failure before the first write: the failure policies of the mode route some
\* classes to the mechanic and block the source for the others.
PreClasses ==
    [manager_blueprint |-> {"blueprint_manifest_missing", "blueprint_manifest_draft_mismatch"},
     contractor_blueprint |-> {"blueprint_candidate_invalid"},
     evaluator_blueprint |-> {"blueprint_evaluation_invalid", "generated_task_missing",
                              "generated_task_invalid"}]

Routed(class, phase) ==
    /\ phase = "pre_mutation"
    /\ class \in {"blueprint_manifest_missing", "blueprint_manifest_draft_mismatch",
                  "generated_task_missing", "generated_task_invalid"}

Phase(made) == IF made = {} THEN "pre_mutation" ELSE "partial_mutation"

\* The classes of a first write that fails; none of them is routed.
FirstWriteClasses ==
    [manager_blueprint |-> {"blueprint_manifest_duplicate", "blueprint_draft_duplicate",
                            "blueprint_partial_mutation"},
     contractor_blueprint |-> {"blueprint_candidate_invalid"},
     evaluator_blueprint |-> {"blueprint_evaluation_invalid", "blueprint_state_error"}]

FailureClass(handler, made) ==
    IF made # {} THEN {"blueprint_partial_mutation"} ELSE FirstWriteClasses[handler]

\* What a failed effect does with the run: to the mechanic, or the block of its
\* source; a file it created that is gone meanwhile asks for recovery instead.
Fail(handler, class, made, missing) ==
    IF Routed(class, Phase(made))
    THEN /\ run' = [run EXCEPT !.stage = "mechanic_blueprint"]
         /\ UNCHANGED <<spec, drafts, moving, attempts>>
    ELSE IF missing THEN Recover /\ UNCHANGED <<spec, drafts, moving, attempts>>
    ELSE Leave("blocked")

\* A file the effect created is no longer where it was created: the task was
\* cancelled from the command line.
Gone(made) == \E s \in made : s.op = "task" /\ \E t \in tasks : t.draft = s.draft /\ t.at = "gone"

\* The handler finds its input missing, malformed or not matching.
Rejects ==
    /\ StageRuns /\ run.stage \in DOMAIN PreClasses
    /\ \E c \in PreClasses[run.stage] : Fail(run.stage, c, {}, FALSE)
    /\ UNCHANGED <<split, manifest, doc, packets, tasks, promotions, eff, up, crashes>>

-----------------------------------------------------------------------------
(* The four handlers, up to their first write.                              *)

Filed(d) == At(d) # {}

\* The writes of the manager's output, in order.
ManagerWrites ==
    [k \in 1..(DraftCount + 1) |-> IF k = 1 THEN Op("manifest", 1) ELSE Op("draft", k - 1)]

\* What an earlier attempt of the manager filed is not written again.
OnFile(s) == (s.op = "manifest" /\ manifest) \/ (s.op = "draft" /\ Filed(s.draft))

\* The manager's output equals what an earlier attempt filed, and the source is
\* still active: a spec is, for as long as the manager runs for it.
ManagerDone ==
    /\ StageRuns /\ run.stage = "manager_blueprint" /\ spec = "active"
    /\ Begin("manager_blueprint", ManagerWrites, "complete")
    /\ UNCHANGED <<files, run, attempts, moving, up, crashes>>

\* It differs from what an earlier attempt filed: refused as a duplicate.
ManagerDuplicate ==
    /\ StageRuns /\ run.stage = "manager_blueprint"
    /\ manifest \/ \E d \in Drafts : Filed(d)
    /\ Fail("manager_blueprint", "blueprint_draft_duplicate", {}, FALSE)
    /\ UNCHANGED <<split, manifest, doc, packets, tasks, promotions, eff, up, crashes>>

CandidateReady ==
    /\ StageRuns /\ run.stage = "contractor_blueprint"
    /\ "active" \in At(run.item) /\ doc[run.item].rev < MaxRevision
    /\ Begin("contractor_blueprint",
             <<Op("packet", run.item), Op("markdown", run.item), Op("latest", run.item)>>, "route")
    /\ UNCHANGED <<files, run, attempts, moving, up, crashes>>

\* The candidate the active draft names, in the revision that follows its own.
HasCandidate(d) ==
    /\ "active" \in At(d) /\ doc[d].latest = doc[d].rev + 1
    /\ packets[d][doc[d].latest] = "candidates"

\* Defect: an approval ends with its task.
ApprovalWritesShort == <<"evaluation", "approve", "task">>

\* The writes of an approval, in order.
ApprovalWrites == <<"evaluation", "approve", "task", "promotion">>

Approved ==
    /\ StageRuns /\ run.stage = "evaluator_blueprint"
    /\ HasCandidate(run.item) /\ \E i \in TaskIds : \A t \in tasks : t.id # i
    /\ Begin("evaluator_blueprint",
             [k \in 1..Len(ApprovalWrites) |-> Op(ApprovalWrites[k], run.item)], "complete")
    /\ UNCHANGED <<files, run, attempts, moving, up, crashes>>

RejectedPacket ==
    /\ StageRuns /\ run.stage = "evaluator_blueprint" /\ HasCandidate(run.item)
    /\ Begin("evaluator_blueprint",
             <<Op("evaluation", run.item), Op("reject", run.item), Op("critique", run.item),
               Op("revise", run.item)>>, "route")
    /\ UNCHANGED <<files, run, attempts, moving, up, crashes>>

-----------------------------------------------------------------------------
(* The writes.                                                              *)

NextRev(d) == doc[d].rev + 1

WriteDraft(s) ==
    \/ /\ s.op = "manifest" /\ manifest' = TRUE /\ UNCHANGED drafts
    \/ /\ s.op = "draft" /\ drafts' = [drafts EXCEPT ![s.draft] = {"queue"}] /\ UNCHANGED manifest
    \/ /\ s.op \notin {"manifest", "draft"} /\ UNCHANGED <<split, manifest, drafts>>

WritePacket(s) ==
    LET to == CASE s.op = "packet" -> "candidates"
                [] s.op = "approve" -> "approved"
                [] s.op = "reject" -> "rejected"
                [] OTHER -> packets[s.draft][NextRev(s.draft)]
    IN  IF s.op \in {"packet", "approve", "reject"}
        THEN packets' = [packets EXCEPT ![s.draft][NextRev(s.draft)] = to]
        ELSE UNCHANGED packets

WriteDoc(s) ==
    \/ s.op = "latest" /\ doc' = [doc EXCEPT ![s.draft].latest = NextRev(s.draft)]
    \/ s.op = "revise" /\ doc' = [doc EXCEPT ![s.draft].rev = NextRev(s.draft)]
    \/ s.op \notin {"latest", "revise"} /\ UNCHANGED doc

WriteTask(s) ==
    \/ /\ s.op = "task"
       /\ \E i \in TaskIds :
            /\ \A t \in tasks : t.id # i
            /\ tasks' = tasks \cup {[id |-> i, draft |-> s.draft, at |-> "open"]}
    \/ s.op # "task" /\ UNCHANGED tasks

WritePromotion(s) ==
    \/ /\ s.op = "promotion"
       /\ \E t \in {x \in tasks : x.draft = s.draft} :
            promotions' = promotions \cup
                {[draft |-> s.draft, rev |-> NextRev(s.draft), task |-> t.id]}
    \/ s.op # "promotion" /\ UNCHANGED promotions

\* One write of the effect at hand, ...
Write ==
    /\ up /\ eff.todo # <<>> /\ ~OnFile(Head(eff.todo))
    /\ LET s == Head(eff.todo) IN
         /\ WriteDraft(s) /\ WritePacket(s) /\ WriteDoc(s) /\ WriteTask(s) /\ WritePromotion(s)
         /\ eff' = [eff EXCEPT !.todo = Tail(@), !.made = @ \cup {s}]
    /\ UNCHANGED <<spec, split, run, attempts, moving, up, crashes>>

\* ... one that is skipped, ...
Skip ==
    /\ up /\ eff.todo # <<>> /\ OnFile(Head(eff.todo))
    /\ eff' = [eff EXCEPT !.todo = Tail(@)]
    /\ UNCHANGED <<files, run, attempts, moving, up, crashes>>

\* ... or one that fails: the disk, or a file of that name that is already there.
WriteFails ==
    /\ up /\ eff.todo # <<>> /\ ~OnFile(Head(eff.todo))
    /\ \E c \in FailureClass(eff.handler, eff.made) :
         Fail(eff.handler, c, eff.made, Gone(eff.made))
    /\ eff' = NoEffect
    /\ UNCHANGED <<split, manifest, doc, packets, tasks, promotions, up, crashes>>

\* All is written: the source leaves, or the run goes to the next stage.
Succeed ==
    /\ up /\ eff # NoEffect /\ eff.todo = <<>> /\ ~Gone(eff.made)
    /\ IF eff.fate = "complete" THEN Leave("approved")
       ELSE /\ run' = [run EXCEPT !.stage = IF @ = "contractor_blueprint"
                                            THEN "evaluator_blueprint"
                                            ELSE "contractor_blueprint"]
            /\ UNCHANGED <<spec, drafts, moving, attempts>>
    /\ eff' = NoEffect
    /\ UNCHANGED <<split, manifest, doc, packets, tasks, promotions, up, crashes>>

\* A created file went missing before the source was moved.
DestinationMissing ==
    /\ up /\ eff # NoEffect /\ eff.todo = <<>> /\ Gone(eff.made)
    /\ Recover
    /\ eff' = NoEffect
    /\ UNCHANGED <<files, attempts, moving, up, crashes>>

-----------------------------------------------------------------------------
(* Environment.                                                             *)

\* The execution plane finishes a generated task, or the operator cancels it.
TaskLeaves ==
    /\ \E t \in tasks : \E at \in {"done", "gone"} :
         /\ t.at = "open"
         /\ (at = "done") => (up /\ eff = NoEffect)
         /\ tasks' = (tasks \ {t}) \cup {[t EXCEPT !.at = at]}
    /\ UNCHANGED <<spec, split, manifest, drafts, doc, packets, promotions, run, attempts, eff,
                   moving, up, crashes>>

Crash ==
    /\ up /\ crashes < MaxCrashes
    /\ up' = FALSE /\ crashes' = crashes + 1
    /\ eff' = NoEffect /\ moving' = NoMove
    /\ UNCHANGED <<files, run, attempts>>

\* A startup that finds a run in the snapshot puts it at the repair stage.
Restart ==
    /\ ~up /\ up' = TRUE
    /\ run' = IF run = NoRun THEN NoRun ELSE [run EXCEPT !.stage = RepairStage]
    /\ UNCHANGED <<files, attempts, eff, moving, crashes>>

Next ==
    \/ ClaimSpec \/ ClaimDraft \/ FinishMove
    \/ PlannerDone \/ PlannerSplits \/ PlannerInvalid \/ StageBlocked \/ MechanicDone
    \/ Disown \/ LaunchFails \/ ClearStale
    \/ Rejects \/ ManagerDone \/ ManagerDuplicate \/ CandidateReady \/ Approved \/ RejectedPacket
    \/ Write \/ Skip \/ WriteFails \/ Succeed \/ DestinationMissing
    \/ TaskLeaves \/ Crash \/ Restart

Spec == Init /\ [][Next]_vars

-----------------------------------------------------------------------------
(* The closure blockers these files amount to.                              *)

OpenDrafts == {d \in Drafts : At(d) \cap {"active", "queue", "blocked"} # {}}

Promoted(d, r) == \E p \in promotions : p.draft = d /\ p.rev = r

Unpromoted == {c \in Drafts \X Revisions :
                  packets[c[1]][c[2]] = "approved" /\ ~Promoted(c[1], c[2])}

TaskLost == {p \in promotions : \A t \in tasks : t.id = p.task => t.at = "gone"}

Candidates == {c \in Drafts \X Revisions : packets[c[1]][c[2]] = "candidates"}

Blockers == OpenDrafts # {} \/ Unpromoted # {} \/ TaskLost # {} \/ Candidates # {}

-----------------------------------------------------------------------------
(* Properties.                                                              *)

\* A source is settled only by what it produced, through any failed write and
\* any crash: a completed spec has its manifest and all its drafts on file, an
\* approved draft has an approved packet, its promotion and the task it names.
SettledBacked ==
    /\ (spec = "done" /\ ~split) => manifest /\ \A d \in Drafts : Filed(d)
    /\ \A d \in Drafts : "approved" \in At(d) =>
         \E p \in promotions : /\ p.draft = d /\ packets[d][p.rev] = "approved"
                               /\ \E t \in tasks : t.id = p.task /\ t.draft = d

\* Once the spec is done, nothing blocks and no generated task is open, every
\* draft ended in a task that was executed: the root is not closed early, not
\* even over the leftovers of effects that failed or died half way.
NoPrematureClosure ==
    (spec = "done" /\ ~split /\ ~Blockers /\ \A t \in tasks : t.at # "open") =>
        \A d \in Drafts : \E t \in tasks : t.draft = d /\ t.at = "done"

\* Generated tasks follow the order of the drafts and no draft files two,
\* although effects are cut short and runs are requeued.
OneTaskInOrder ==
    /\ \A t, u \in tasks : t.draft = u.draft => t = u
    /\ \A t \in tasks : \A e \in 1..(t.draft - 1) : \E u \in tasks : u.draft = e
=============================================================================
