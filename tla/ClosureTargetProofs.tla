------------------------ MODULE ClosureTargetProofs ------------------------
(***************************************************************************)
(* What is proved of ClosureTarget for any number of roots and crashes:    *)
(* its types, that roots are judged one at a time and after their work,    *)
(* and that remediation is asked for again only after work.                *)
(***************************************************************************)
EXTENDS ClosureTarget, TLAPS, FiniteSetTheorems

-----------------------------------------------------------------------------
(* Types                                                                    *)

(* A saved target is a function over the roots. *)
LEMMA SavedTarget ==
  ASSUME FilesTyped, NEW r \in Roots, NEW st \in {"none", "open", "closed"},
         NEW b \in BOOLEAN, NEW j \in BOOLEAN
  PROVE  /\ Saved(r, st, b, j) \in [Roots -> Targets]
         /\ \A s \in Roots : Saved(r, st, b, j)[s] =
              IF s = r THEN [state |-> st, blocked |-> b, judged |-> j] ELSE target[s]
<1>1. [state |-> st, blocked |-> b, judged |-> j] \in Targets
  BY DEF Targets
<1>2. target \in [Roots -> Targets]
  BY DEF FilesTyped
<1> QED
  BY <1>1, <1>2 DEF Saved

(* Saving an open target, or a closed one with its judgement, keeps the types. *)
LEMMA SavedFiles ==
  ASSUME FilesTyped, NEW r \in Roots, NEW st \in {"open", "closed"},
         NEW b \in BOOLEAN, NEW j \in BOOLEAN, st = "closed" => ~b /\ j,
         target' = Saved(r, st, b, j), UNCHANGED work
  PROVE  FilesTyped'
<1>1. /\ target' \in [Roots -> Targets]
      /\ \A s \in Roots : target'[s] =
           IF s = r THEN [state |-> st, blocked |-> b, judged |-> j] ELSE target[s]
  BY SavedTarget
<1>2. \A s \in Roots : /\ target'[s].state = "closed" => ~target'[s].blocked /\ target'[s].judged
                       /\ target'[s].state = "none" => target'[s] = NoTarget
  BY <1>1 DEF FilesTyped
<1> QED
  BY <1>1, <1>2 DEF FilesTyped, work

(* No handler leaves the types of the files. *)
LEMMA FilesStep == TypeOK /\ [Next]_vars => FilesTyped'
<1> SUFFICES ASSUME TypeOK, [Next]_vars PROVE FilesTyped'
  OBVIOUS
<1> USE DEF TypeOK
<1>0. ASSUME UNCHANGED <<work, target>> PROVE FilesTyped'
  BY <1>0 DEF FilesTyped, work
<1>1. CASE ClaimIncident \/ ClaimDraft \/ ClaimSpec \/ ClaimTask
  BY <1>1 DEF ClaimIncident, ClaimDraft, ClaimSpec, ClaimTask, ClaimableIncidents, ClaimableDrafts,
     ClaimableSpecs, ClaimableTasks, Scope, Actionable, FilesTyped, Dirs
<1>2. CASE Activate
  <2>1. CASE target' = target
    BY <1>0, <1>2, <2>1 DEF Activate
  <2>2. CASE target' = Saved(claim.root, "open", FALSE, FALSE)
    <3>1. claim.root \in Roots
      BY <1>2 DEF Activate, RunTyped
    <3> QED
      BY <1>2, <2>2, <3>1, SavedFiles DEF Activate
  <2> QED
    BY <1>2, <2>1, <2>2 DEF Activate
<1>3. CASE PlanDone \/ PlanBlocked \/ DraftEnds \/ TaskEnds
  <2>1. run.root \in Roots
    BY <1>3 DEF PlanDone, PlanBlocked, DraftEnds, TaskEnds, Running, RunTyped, NoRun
  <2>2. CASE PlanDone \/ PlanBlocked
    BY <2>1, <2>2 DEF PlanDone, PlanBlocked, FilesTyped, Dirs
  <2>3. CASE DraftEnds \/ TaskEnds
    BY <2>1, <2>3 DEF DraftEnds, TaskEnds, FilesTyped, Dirs
  <2> QED
    BY <1>3, <2>2, <2>3
<1>4. ASSUME NEW r \in Roots, NEW held \in BOOLEAN, target' = Refresh(r, held), UNCHANGED work
      PROVE  FilesTyped'
  <2>1. target[r].judged \in BOOLEAN
    BY DEF FilesTyped, Targets
  <2> QED
    BY <1>4, <2>1, SavedFiles DEF Refresh
<1>5. CASE LaunchArbiter \/ Suppress \/ BlockOnDrift
  BY <1>4, <1>5 DEF LaunchArbiter, Suppress, BlockOnDrift, Candidates, Actionable, Newest
<1>6. CASE Judge
  <2>1. run.root \in Roots
    BY <1>6 DEF Judge, Running, RunTyped, NoRun
  <2>2. PICK st \in {"closed", "open"} : target' = Saved(run.root, st, FALSE, TRUE)
    BY <1>6 DEF Judge
  <2> QED
    BY <1>6, <2>1, <2>2, SavedFiles DEF Judge
<1>7. CASE FileIncident
  <2>1. run.root \in Roots
    BY <1>7 DEF FileIncident, EndJudgement, RunTyped, NoRun
  <2> QED
    BY <1>7, <2>1 DEF FileIncident, EndJudgement, FilesTyped, Dirs
<1>8. CASE DraftDisowned \/ BlockRepeated \/ FinishJudge \/ Crash \/ Stop \/ Restart
  BY <1>0, <1>8 DEF DraftDisowned, BlockRepeated, FinishJudge, EndJudgement, Crash, Stop, Restart, work
<1>9. CASE ClearStale
  BY <1>9 DEF ClearStale, FilesTyped, Dirs
<1>10. CASE RepairWrite
  BY <1>10 DEF RepairWrite, FilesTyped
<1>11. ASSUME NEW r \in Roots, Arrive(r) \/ IdeaArrives(r) \/ AddTask(r) PROVE FilesTyped'
  BY <1>11 DEF Arrive, IdeaArrives, AddTask, FilesTyped, Dirs
<1>12. ASSUME NEW r \in Roots, RetryBlocked(r) PROVE FilesTyped'
  BY <1>12 DEF RetryBlocked, FilesTyped, Dirs
<1>13. ASSUME NEW r \in Roots, RepairCheck(r) PROVE FilesTyped'
  BY <1>0, <1>13 DEF RepairCheck
<1>14. CASE UNCHANGED vars
  BY <1>0, <1>14 DEF vars, work
<1> QED
  BY <1>1, <1>2, <1>3, <1>5, <1>6, <1>7, <1>8, <1>9, <1>10, <1>11, <1>12, <1>13, <1>14
     DEF Next, DaemonStep, Operator

(* No handler leaves the types of runs, claims and verdicts. *)
LEMMA RunStep == TypeOK /\ [Next]_vars => RunTyped'
<1> SUFFICES ASSUME TypeOK, [Next]_vars PROVE RunTyped'
  OBVIOUS
<1> USE DEF TypeOK, RunTyped
<1>0. ASSUME UNCHANGED <<claim, run, verdict, plan, up>> PROVE RunTyped'
  BY <1>0
<1>1. ASSUME NEW kind \in {"incident", "draft", "spec", "task"}, NEW r \in Roots, Ready,
             claim' = Claimed(kind, r), UNCHANGED <<run, verdict, plan, up>>
      PROVE  RunTyped'
  BY <1>1 DEF Ready, Claimed, Kinds
<1>2. CASE ClaimIncident \/ ClaimDraft \/ ClaimSpec \/ ClaimTask
  BY <1>1, <1>2 DEF ClaimIncident, ClaimDraft, ClaimSpec, ClaimTask, ClaimableIncidents,
     ClaimableDrafts, ClaimableSpecs, ClaimableTasks, Scope, Actionable
<1>3. CASE Activate
  BY <1>3 DEF Activate, NoRun, Kinds
<1>4. CASE PlanDone \/ PlanBlocked \/ DraftEnds \/ DraftDisowned \/ TaskEnds
  BY <1>4 DEF PlanDone, PlanBlocked, DraftEnds, DraftDisowned, TaskEnds, Running, NoRun
<1>5. CASE LaunchArbiter
  BY <1>5 DEF LaunchArbiter, Ready, Candidates, Actionable, Newest, ArbiterRun, Claimed, Kinds, NoRun
<1>6. CASE Suppress \/ BlockOnDrift
  BY <1>0, <1>6 DEF Suppress, BlockOnDrift
<1>7. CASE Judge
  BY <1>7 DEF Judge, Running
<1>8. CASE FileIncident \/ BlockRepeated \/ FinishJudge
  BY <1>8 DEF FileIncident, BlockRepeated, FinishJudge, EndJudgement, NoRun
<1>9. CASE Crash \/ Stop
  BY <1>9 DEF Crash, Stop, Ready, NoRun
<1>10. CASE Restart
  BY <1>10 DEF Restart
<1>11. CASE ClearStale
  BY <1>11 DEF ClearStale
<1>12. CASE RepairWrite
  BY <1>12 DEF RepairWrite
<1>13. ASSUME NEW r \in Roots, Arrive(r) \/ IdeaArrives(r) \/ AddTask(r) \/ RetryBlocked(r) PROVE RunTyped'
  BY <1>0, <1>13 DEF Arrive, IdeaArrives, AddTask, RetryBlocked
<1>14. ASSUME NEW r \in Roots, RepairCheck(r) PROVE RunTyped'
  BY <1>14 DEF RepairCheck
<1>15. CASE UNCHANGED vars
  BY <1>0, <1>15 DEF vars
<1> QED
  BY <1>2, <1>3, <1>4, <1>5, <1>6, <1>7, <1>8, <1>9, <1>10, <1>11, <1>12, <1>13, <1>14, <1>15
     DEF Next, DaemonStep, Operator

(* No handler leaves the types; the counters have theirs by their guards. *)
LEMMA TypeStep == TypeOK /\ [Next]_vars => TypeOK'
<1> SUFFICES ASSUME TypeOK, [Next]_vars PROVE TypeOK'
  OBVIOUS
<1>1. /\ worked' \subseteq Roots /\ asked' \subseteq Roots /\ late' \subseteq Roots
      /\ up' \in BOOLEAN /\ refused' \in BOOLEAN /\ crashes' \in 0..MaxCrashes
  <2> USE Bounds DEF TypeOK
  <2>1. CASE Activate
    BY <2>1 DEF Activate, Refuses
  <2>2. CASE TaskEnds \/ Judge
    BY <2>2 DEF TaskEnds, Judge, WorkedAfter
  <2>3. CASE FileIncident
    BY <2>3 DEF FileIncident, EndJudgement, RunTyped, NoRun
  <2>4. CASE BlockRepeated \/ FinishJudge \/ ClearStale
    BY <2>4 DEF BlockRepeated, FinishJudge, EndJudgement, ClearStale
  <2>5. CASE Stop \/ Restart
    BY <2>5 DEF Stop, Restart
  <2>6. CASE Crash
    <3>1. crashes + 1 \in 0..MaxCrashes
      BY <2>6 DEF Crash
    <3> QED
      BY <2>6, <3>1 DEF Crash
  <2>7. CASE ClaimIncident \/ ClaimDraft \/ ClaimSpec \/ ClaimTask \/ PlanDone \/ PlanBlocked
             \/ DraftEnds \/ DraftDisowned \/ LaunchArbiter \/ Suppress \/ BlockOnDrift \/ RepairWrite
    BY <2>7 DEF ClaimIncident, ClaimDraft, ClaimSpec, ClaimTask, PlanDone, PlanBlocked, DraftEnds,
       DraftDisowned, LaunchArbiter, Suppress, BlockOnDrift, RepairWrite
  <2>8. ASSUME NEW r \in Roots, Arrive(r) \/ IdeaArrives(r) \/ AddTask(r) \/ RetryBlocked(r) \/ RepairCheck(r)
        PROVE  /\ worked' \subseteq Roots /\ asked' \subseteq Roots /\ late' \subseteq Roots
               /\ up' \in BOOLEAN /\ refused' \in BOOLEAN /\ crashes' \in 0..MaxCrashes
    BY <2>8 DEF Arrive, IdeaArrives, AddTask, RetryBlocked, RepairCheck
  <2>9. CASE UNCHANGED vars
    BY <2>9 DEF vars
  <2> QED
    BY <2>1, <2>2, <2>3, <2>4, <2>5, <2>6, <2>7, <2>8, <2>9 DEF Next, DaemonStep, Operator
<1> QED
  BY <1>1, FilesStep, RunStep DEF TypeOK

(* The model starts within its types. *)
LEMMA TypeInit == Init => TypeOK
<1> SUFFICES ASSUME Init PROVE TypeOK
  OBVIOUS
<1>1. NoTarget \in Targets /\ 0 \in 0..MaxCrashes
  BY Bounds DEF NoTarget, Targets
<1> QED
  BY <1>1 DEF Init, TypeOK, FilesTyped, RunTyped, Dirs, NoTarget

(* Types: the closure target files, directories and runs stay what the code
   can write (closure_target_state, ActiveRunState). *)
THEOREM TypeCorrect == Spec => []TypeOK
<1> QED
  BY TypeInit, TypeStep, PTL DEF Spec

-----------------------------------------------------------------------------
(* Roots are judged in turn                                                 *)

Unfinished(r) == {spec[r], task[r], inc[r], draft[r]} \cap OpenDirs # {}

\* The target that a claimed spec opens will be the only actionable one, and
\* while the Arbiter runs no other target can be opened.
Sole == \A r, s \in Actionable : r = s
SpecFirst == claim.kind = "spec" => spec[claim.root] # "none" /\ (HasTarget(claim.root) \/ Actionable = {})
ArbiterAlone == run.kind = "closure" => HasTarget(run.root) /\ Actionable \subseteq {run.root}
Drained == run.kind = "closure" /\ Unfinished(run.root) => run.root \in late
Rooted == \A r \in Roots : HasTarget(r) => spec[r] # "none"

InTurn == ~refused /\ Sole /\ SpecFirst /\ ArbiterAlone /\ Drained /\ Rooted

(* A lineage is unfinished when it has open work or work filed under a wrong root. *)
LEMMA UnfinishedIs ==
  ASSUME FilesTyped, NEW r \in Roots PROVE Unfinished(r) <=> OpenWork(r) \/ Drift(r)
  BY DEF FilesTyped, Unfinished, OpenWork, Drift, OpenDirs

(* What saving a target does to the set of the actionable ones. *)
LEMMA SavedActionable ==
  ASSUME FilesTyped, NEW r \in Roots, NEW st \in {"open", "closed"},
         NEW b \in BOOLEAN, NEW j \in BOOLEAN, target' = Saved(r, st, b, j)
  PROVE  /\ Actionable' = IF st = "open" /\ ~b THEN Actionable \cup {r} ELSE Actionable \ {r}
         /\ \A s \in Roots : HasTarget(s)' <=> s = r \/ HasTarget(s)
<1>1. \A s \in Roots : target'[s] =
        IF s = r THEN [state |-> st, blocked |-> b, judged |-> j] ELSE target[s]
  BY SavedTarget
<1> QED
  BY <1>1 DEF Actionable, HasTarget

(* Every candidate of the completion stage is a root on file, and leaves no
   other target actionable. *)
LEMMA CandidateAlone ==
  ASSUME TypeOK, InTurn, NEW r \in Candidates
  PROVE  r \in Roots /\ spec[r] # "none" /\ Actionable \subseteq {r}
  BY DEF Candidates, Newest, Actionable, InTurn, Sole, Rooted, HasTarget

(* No handler breaks the turn of the roots. *)
LEMMA InTurnStep == TypeOK /\ InTurn /\ [Next]_vars => InTurn'
<1> SUFFICES ASSUME TypeOK, InTurn, [Next]_vars PROVE InTurn'
  OBVIOUS
<1> USE DEF TypeOK, InTurn
<1>1. ASSUME Ready, UNCHANGED <<target, refused, run, late>>, Rooted', SpecFirst'
      PROVE  InTurn'
  BY <1>1 DEF Ready, NoRun, Sole, ArbiterAlone, Drained, Actionable, HasTarget
<1>2. CASE ClaimIncident \/ ClaimDraft \/ ClaimTask
  BY <1>1, <1>2 DEF ClaimIncident, ClaimDraft, ClaimTask, Claimed, SpecFirst, Rooted, HasTarget
<1>3. CASE ClaimSpec
  <2>1. PICK r \in ClaimableSpecs : /\ spec' = [spec EXCEPT ![r] = "active"]
                                    /\ claim' = Claimed("spec", r)
    BY <1>3 DEF ClaimSpec
  <2>2. r \in Roots /\ (r \in Actionable \/ Actionable = {})
    BY DEF ClaimableSpecs, Scope, Actionable
  <2>3. spec'[r] = "active" /\ \A s \in Roots : s # r => spec'[s] = spec[s]
    BY <2>1, <2>2 DEF FilesTyped
  <2>4. Rooted'
    BY <1>3, <2>3 DEF ClaimSpec, Rooted, HasTarget
  <2>5. SpecFirst'
    BY <1>3, <2>1, <2>2, <2>3 DEF ClaimSpec, SpecFirst, Claimed, Actionable, HasTarget
  <2> QED
    BY <1>1, <1>3, <2>4, <2>5 DEF ClaimSpec
<1>4. CASE Activate
  <2>1. ~Refuses /\ claim \in [kind : Kinds \ {"closure"}, root : Roots, stage : {"stage"}]
    BY <1>4 DEF Activate, Refuses, SpecFirst, RunTyped
  <2>2. ~refused' /\ run' = claim /\ run'.kind # "closure" /\ claim'.kind = "none"
    BY <1>4, <2>1 DEF Activate, NoRun
  <2>3. Sole' /\ Rooted'
    <3>1. CASE target' = target
      BY <1>4, <3>1 DEF Activate, work, Sole, Rooted, Actionable, HasTarget
    <3>2. CASE target' # target
      <4>1. claim.kind = "spec" /\ ~HasTarget(claim.root) /\ target' = Saved(claim.root, "open", FALSE, FALSE)
        BY <1>4, <3>2 DEF Activate
      <4>2. Actionable = {} /\ spec[claim.root] # "none"
        BY <4>1 DEF SpecFirst
      <4>3. Actionable' = {claim.root} /\ \A s \in Roots : HasTarget(s)' <=> s = claim.root \/ HasTarget(s)
        BY <2>1, <4>1, <4>2, SavedActionable
      <4> QED
        BY <1>4, <4>2, <4>3 DEF Activate, work, Sole, Rooted
    <3> QED
      BY <3>1, <3>2
  <2> QED
    BY <2>2, <2>3 DEF SpecFirst, ArbiterAlone, Drained
<1>5. ASSUME UNCHANGED <<target, refused>>, run' = NoRun, claim' = NoRun,
             \A r \in Roots : spec[r] # "none" => spec'[r] # "none"
      PROVE  InTurn'
  BY <1>5 DEF NoRun, Sole, SpecFirst, ArbiterAlone, Drained, Rooted, Actionable, HasTarget
<1>6. CASE PlanDone \/ PlanBlocked \/ DraftEnds \/ DraftDisowned \/ TaskEnds
  <2>1. claim = NoRun /\ run.root \in Roots
    BY <1>6 DEF PlanDone, PlanBlocked, DraftEnds, DraftDisowned, TaskEnds, Running, RunTyped, NoRun
  <2>2. \A r \in Roots : spec[r] # "none" => spec'[r] # "none"
    BY <1>6, <2>1 DEF PlanDone, PlanBlocked, DraftEnds, DraftDisowned, TaskEnds, FilesTyped, work
  <2> QED
    BY <1>5, <1>6, <2>1, <2>2 DEF PlanDone, PlanBlocked, DraftEnds, DraftDisowned, TaskEnds
<1>7. CASE LaunchArbiter
  <2>1. PICK r \in Candidates : /\ ~OpenWork(r) /\ ~Drift(r)
                                /\ target' = Refresh(r, FALSE) /\ run' = ArbiterRun(r)
    BY <1>7 DEF LaunchArbiter
  <2>2. r \in Roots /\ spec[r] # "none" /\ Actionable \subseteq {r}
    BY CandidateAlone
  <2>3. target[r].judged \in BOOLEAN
    BY <2>2 DEF FilesTyped, Targets
  <2>4. Actionable' = {r} /\ \A s \in Roots : HasTarget(s)' <=> s = r \/ HasTarget(s)
    BY <2>1, <2>2, <2>3, SavedActionable DEF Refresh
  <2>5. ~Unfinished(r)'
    BY <1>7, <2>1, <2>2, UnfinishedIs DEF LaunchArbiter, work, Unfinished
  <2>6. claim'.kind = "none" /\ run'.kind = "closure" /\ run'.root = r /\ ~refused'
    BY <1>7, <2>1 DEF LaunchArbiter, Ready, NoRun, ArbiterRun, Claimed
  <2> QED
    BY <1>7, <2>2, <2>4, <2>5, <2>6
    DEF LaunchArbiter, work, Sole, SpecFirst, ArbiterAlone, Drained, Rooted
<1>8. CASE Suppress \/ BlockOnDrift
  <2>1. PICK r \in Candidates : target' = Refresh(r, TRUE)
    BY <1>8 DEF Suppress, BlockOnDrift
  <2>2. r \in Roots /\ spec[r] # "none" /\ target[r].judged \in BOOLEAN
    BY CandidateAlone DEF FilesTyped, Targets
  <2>3. Actionable' \subseteq Actionable /\ \A s \in Roots : HasTarget(s)' <=> s = r \/ HasTarget(s)
    BY <2>1, <2>2, SavedActionable DEF Refresh
  <2>4. claim'.kind = "none" /\ run'.kind = "none" /\ ~refused'
    <3>1. Ready /\ UNCHANGED <<claim, run, refused>>
      BY <1>8 DEF Suppress, BlockOnDrift
    <3> QED
      BY <3>1 DEF Ready, NoRun
  <2> QED
    BY <1>8, <2>2, <2>3, <2>4
    DEF Suppress, BlockOnDrift, work, Sole, SpecFirst, ArbiterAlone, Drained, Rooted
<1>9. CASE Judge
  <2>1. run.kind = "closure" /\ run.root \in Roots /\ claim.kind = "none"
    BY <1>9 DEF Judge, Running, RunTyped, NoRun
  <2>2. PICK st \in {"closed", "open"} : target' = Saved(run.root, st, FALSE, TRUE)
    BY <1>9 DEF Judge
  <2>3. /\ Actionable' \subseteq Actionable \cup {run.root}
        /\ \A s \in Roots : HasTarget(s)' <=> s = run.root \/ HasTarget(s)
    BY <2>1, <2>2, SavedActionable
  <2>4. ~refused' /\ run' = run /\ claim' = claim /\ late' = late /\ UNCHANGED <<spec, task, inc, draft>>
    BY <1>9 DEF Judge, work
  <2> QED
    BY <2>1, <2>3, <2>4 DEF Sole, SpecFirst, ArbiterAlone, Drained, Rooted, Unfinished
<1>10. CASE FileIncident \/ BlockRepeated \/ FinishJudge
  <2>1. verdict # "none" /\ claim = NoRun
    BY <1>10 DEF FileIncident, BlockRepeated, FinishJudge, EndJudgement, RunTyped, NoRun
  <2> QED
    BY <1>5, <1>10, <2>1 DEF FileIncident, BlockRepeated, FinishJudge, EndJudgement
<1>11. CASE Crash \/ Stop \/ Restart
  <2>1. UNCHANGED <<spec, task, inc, draft, target, refused, late>> /\ (claim' = claim \/ claim' = NoRun)
    BY <1>11 DEF Crash, Stop, Restart, work
  <2>2. run'.kind = run.kind /\ run'.root = run.root
    BY <1>11 DEF Crash, Stop, Restart, RunTyped, NoRun
  <2> QED
    BY <2>1, <2>2 DEF NoRun, Sole, SpecFirst, ArbiterAlone, Drained, Rooted, Actionable, HasTarget, Unfinished
<1>12. CASE ClearStale
  <2>1. \A r \in Roots : spec[r] # "none" => spec'[r] # "none"
    BY <1>12 DEF ClearStale
  <2> QED
    BY <1>5, <1>12, <2>1 DEF ClearStale
<1>13. ASSUME UNCHANGED <<target, refused, run, claim>>, late \subseteq late',
              \A r \in Roots : spec[r] # "none" => spec'[r] # "none",
              run.kind = "closure" /\ Unfinished(run.root)' => Unfinished(run.root) \/ run.root \in late'
       PROVE  InTurn'
  <2>1. claim.kind = "spec" => claim.root \in Roots
    BY DEF RunTyped, NoRun
  <2> QED
    BY <1>13, <2>1 DEF Sole, SpecFirst, ArbiterAlone, Drained, Rooted, Actionable, HasTarget, Unfinished
<1>14. run.kind = "closure" => run.root \in Roots /\ spec[run.root] # "none"
  BY DEF RunTyped, NoRun, ArbiterAlone, Rooted
<1>15. ASSUME NEW r \in Roots, Arrive(r) PROVE InTurn'
  <2>1. \A s \in Roots : s # r => spec'[s] = spec[s]
    BY <1>15 DEF Arrive, FilesTyped
  <2>2. run.kind = "closure" => run.root # r
    BY <1>14, <1>15 DEF Arrive
  <2>3. run.kind = "closure" /\ Unfinished(run.root)' => Unfinished(run.root)
    BY <1>14, <1>15, <2>1, <2>2 DEF Arrive, Unfinished
  <2> QED
    BY <1>13, <1>15, <2>1, <2>3 DEF Arrive
<1>16. ASSUME NEW r \in Roots, AddTask(r) PROVE InTurn'
  <2>1. run.kind = "closure" /\ Unfinished(run.root)' => Unfinished(run.root) \/ run.root \in late'
    BY <1>14, <1>16 DEF AddTask, FilesTyped, Unfinished
  <2> QED
    BY <1>13, <1>16, <2>1 DEF AddTask
<1>17. ASSUME NEW r \in Roots, RetryBlocked(r) PROVE InTurn'
  <2>1. run.kind = "closure" /\ Unfinished(run.root)' => Unfinished(run.root)
    BY <1>14, <1>17 DEF RetryBlocked, FilesTyped, Unfinished, OpenDirs
  <2>2. \A s \in Roots : spec[s] # "none" => spec'[s] # "none"
    BY <1>17 DEF RetryBlocked, FilesTyped
  <2> QED
    BY <1>13, <1>17, <2>1, <2>2 DEF RetryBlocked
<1>18. ASSUME UNCHANGED <<spec, task, inc, draft, target, refused, run, claim, late>> PROVE InTurn'
  BY <1>13, <1>18 DEF Unfinished
<1>19. ASSUME NEW r \in Roots, IdeaArrives(r) \/ RepairCheck(r) PROVE InTurn'
  BY <1>18, <1>19 DEF IdeaArrives, RepairCheck, work
<1>20. CASE RepairWrite \/ UNCHANGED vars
  BY <1>18, <1>20 DEF RepairWrite, vars
<1> QED
  BY <1>2, <1>3, <1>4, <1>6, <1>7, <1>8, <1>9, <1>10, <1>11, <1>12, <1>15, <1>16, <1>17, <1>19, <1>20
     DEF Next, DaemonStep, Operator

(* Nothing has been filed at the start. *)
LEMMA InTurnInit == Init => InTurn
  BY DEF Init, InTurn, Sole, SpecFirst, ArbiterAlone, Drained, Rooted, Actionable, HasTarget,
     NoTarget, NoRun

(* The turn of the roots says what JudgedInTurn says. *)
LEMMA InTurnImplies == TypeOK /\ InTurn => JudgedInTurn
<1> SUFFICES ASSUME TypeOK, InTurn PROVE JudgedInTurn
  OBVIOUS
<1>1. Cardinality(Actionable) <= 1
  <2>1. CASE Actionable = {}
    BY <2>1, FS_EmptySet
  <2>2. ASSUME NEW r \in Actionable PROVE Cardinality(Actionable) <= 1
    <3>1. Actionable = {r}
      BY <2>2 DEF InTurn, Sole
    <3> QED
      BY <3>1, FS_Singleton
  <2> QED
    BY <2>1, <2>2
<1>2. run.kind = "closure" => run.root \in Roots
  BY DEF TypeOK, RunTyped, NoRun
<1> QED
  BY <1>1, <1>2, UnfinishedIs DEF TypeOK, InTurn, Drained, JudgedInTurn, OneActionable, JudgedDrained

(* Roots are judged one at a time, and each only when its work has drained
   (active_closure_target, maybe_activate_completion_stage). *)
THEOREM InTurnAlways == Spec => []JudgedInTurn
<1>1. Init => TypeOK /\ InTurn
  BY TypeInit, InTurnInit
<1>2. TypeOK /\ InTurn /\ [Next]_vars => (TypeOK /\ InTurn)'
  BY TypeStep, InTurnStep
<1> QED
  BY <1>1, <1>2, InTurnImplies, PTL DEF Spec

-----------------------------------------------------------------------------
(* Remediation                                                              *)

\* Whoever was asked for remediation was judged, and nothing ran since; and the
\* verdict that asks for it again did not come from such a judgement.
AskedJudged == \A r \in asked : target[r].judged /\ r \notin worked
VerdictJudged == verdict # "none" => target[run.root].judged /\ run.root \notin worked
AskedOnce == verdict = "ask" => run.root \notin asked

Earned == AskedJudged /\ VerdictJudged /\ AskedOnce

(* The same of a step that saves a target: the judgement it writes, and those
   it keeps. *)
LEMMA SavedJudged ==
  ASSUME TypeOK, NEW r \in Roots, NEW st \in {"none", "open", "closed"},
         NEW b \in BOOLEAN, NEW j \in BOOLEAN, target' = Saved(r, st, b, j)
  PROVE  /\ target'[r].judged = j
         /\ \A s \in Roots : s # r => target'[s] = target[s]
<1>1. FilesTyped
  BY DEF TypeOK
<1>2. \A s \in Roots : Saved(r, st, b, j)[s] =
         IF s = r THEN [state |-> st, blocked |-> b, judged |-> j] ELSE target[s]
  BY <1>1, SavedTarget
<1> QED
  BY <1>2

(* No handler forgets a judgement or asks for remediation twice over it. *)
LEMMA EarnedStep == TypeOK /\ Earned /\ [Next]_vars => Earned'
<1> SUFFICES ASSUME TypeOK, Earned, [Next]_vars PROVE Earned'
  OBVIOUS
<1>0. TypeOK
  OBVIOUS
<1> USE DEF TypeOK, Earned
<1>1. ASSUME UNCHANGED <<worked, asked>>, verdict' = "none",
             \A r \in Roots : target[r].judged => target'[r].judged
      PROVE  Earned'
  BY <1>1 DEF AskedJudged, VerdictJudged, AskedOnce
<1>2. ASSUME UNCHANGED <<worked, asked, target, run, verdict>> PROVE Earned'
  BY <1>2 DEF AskedJudged, VerdictJudged, AskedOnce
<1>3. CASE ClaimIncident \/ ClaimDraft \/ ClaimSpec \/ ClaimTask
  BY <1>2, <1>3 DEF ClaimIncident, ClaimDraft, ClaimSpec, ClaimTask
<1>4. CASE Activate
  <2>1. claim.root \in Roots /\ run = NoRun /\ verdict = "none"
    BY <1>4 DEF Activate, RunTyped, NoRun
  <2>2. CASE target' = target
    BY <1>1, <1>4, <2>1, <2>2 DEF Activate
  <2>3. CASE target' # target
    <3>1. ~HasTarget(claim.root) /\ target' = Saved(claim.root, "open", FALSE, FALSE)
      BY <1>4, <2>3 DEF Activate
    <3>2. ~target[claim.root].judged
      BY <2>1, <3>1 DEF FilesTyped, HasTarget, NoTarget
    <3>3. \A s \in Roots : s # claim.root => target'[s] = target[s]
      BY <1>0, <2>1, <3>1, SavedJudged
    <3> QED
      BY <1>1, <1>4, <2>1, <3>2, <3>3 DEF Activate
  <2> QED
    BY <2>2, <2>3
<1>5. CASE PlanDone \/ PlanBlocked \/ DraftEnds \/ DraftDisowned
  <2>1. verdict = "none"
    BY <1>5 DEF PlanDone, PlanBlocked, DraftEnds, DraftDisowned, Running, RunTyped
  <2> QED
    BY <1>1, <1>5, <2>1 DEF PlanDone, PlanBlocked, DraftEnds, DraftDisowned
<1>6. CASE TaskEnds
  BY <1>6 DEF TaskEnds, Running, RunTyped, AskedJudged, VerdictJudged, AskedOnce
<1>7. CASE LaunchArbiter \/ Suppress \/ BlockOnDrift
  <2>1. PICK r \in Candidates, held \in BOOLEAN : target' = Refresh(r, held)
    BY <1>7 DEF LaunchArbiter, Suppress, BlockOnDrift
  <2>2. r \in Roots /\ target[r].judged \in BOOLEAN
    BY DEF Candidates, Newest, Actionable, FilesTyped, Targets
  <2>3. \A s \in Roots : target'[s].judged = target[s].judged
    <3>1. /\ target'[r].judged = target[r].judged
          /\ \A s \in Roots : s # r => target'[s] = target[s]
      BY <1>0, <2>1, <2>2, SavedJudged DEF Refresh
    <3> QED
      BY <3>1
  <2>4. Ready /\ UNCHANGED <<worked, asked, verdict>>
    BY <1>7 DEF LaunchArbiter, Suppress, BlockOnDrift
  <2>5. verdict' = "none"
    BY <2>4 DEF Ready, RunTyped, NoRun
  <2> QED
    BY <1>1, <2>3, <2>4, <2>5
<1>8. CASE Judge
  <2>1. run.root \in Roots /\ UNCHANGED <<asked, run>> /\ worked' = worked \ {run.root}
    BY <1>8 DEF Judge, Running, RunTyped, NoRun, WorkedAfter
  <2>2. PICK st \in {"closed", "open"} : target' = Saved(run.root, st, FALSE, TRUE)
    BY <1>8 DEF Judge
  <2>3. /\ target'[run.root].judged
        /\ \A s \in Roots : s # run.root => target'[s] = target[s]
    BY <1>0, <2>1, <2>2, SavedJudged
  <2>4. verdict' = "ask" => run.root \notin asked
    BY <1>8 DEF Judge, Repeated, AskedJudged
  <2> QED
    BY <2>1, <2>3, <2>4 DEF AskedJudged, VerdictJudged, AskedOnce
<1>9. CASE FileIncident
  <2>1. /\ asked' = asked \cup {run.root} /\ verdict # "none" /\ verdict' = "none"
        /\ UNCHANGED <<target, worked>>
    BY <1>9 DEF FileIncident, EndJudgement
  <2> QED
    BY <2>1 DEF AskedJudged, VerdictJudged, AskedOnce
<1>10. CASE BlockRepeated \/ FinishJudge \/ Crash
  BY <1>1, <1>10 DEF BlockRepeated, FinishJudge, EndJudgement, Crash
<1>11. CASE Stop
  BY <1>2, <1>11 DEF Stop
<1>12. CASE Restart \/ ClearStale
  <2>1. verdict = "none" /\ UNCHANGED <<worked, asked, target, verdict>>
    BY <1>12 DEF Restart, ClearStale, RunTyped
  <2> QED
    BY <1>1, <2>1
<1>13. CASE RepairWrite \/ UNCHANGED vars
  BY <1>2, <1>13 DEF RepairWrite, vars
<1>14. ASSUME NEW r \in Roots, Arrive(r) \/ IdeaArrives(r) \/ AddTask(r) \/ RetryBlocked(r) \/ RepairCheck(r)
       PROVE  Earned'
  BY <1>2, <1>14 DEF Arrive, IdeaArrives, AddTask, RetryBlocked, RepairCheck
<1> QED
  BY <1>3, <1>4, <1>5, <1>6, <1>7, <1>8, <1>9, <1>10, <1>11, <1>12, <1>13, <1>14
     DEF Next, DaemonStep, Operator

(* A second remediation of a root is asked for only after an execution stage
   ran (is_repeated_remediation_without_execution). *)
THEOREM RemediationIsEarned == Spec => RemediationEarned
<1>1. Init => TypeOK /\ Earned
  BY TypeInit DEF Init, Earned, AskedJudged, VerdictJudged, AskedOnce
<1>2. TypeOK /\ Earned /\ [Next]_vars => (TypeOK /\ Earned)'
  BY TypeStep, EarnedStep
<1>3. Earned => \A r \in Roots : verdict = "ask" /\ run.root = r /\ inc'[r] = "queue" => r \notin asked
  BY DEF Earned, AskedOnce
<1> QED
  BY <1>1, <1>2, <1>3, PTL DEF Spec, RemediationEarned
=============================================================================
