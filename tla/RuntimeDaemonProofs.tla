------------------------- MODULE RuntimeDaemonProofs -------------------------
(* Type correctness, exclusion of planes, the keeping of commands; whose    *)
(* items the runs have, where a pause is, and what a retry requeues when it *)
(* is applied again: for every policy, every set of items, operators and    *)
(* commands, and every number of crashes and failures.                      *)
EXTENDS RuntimeDaemon, FiniteSetTheorems, SequenceTheorems, TLAPS

(* A snapshot of the right shape whose runs the policy allows together. *)
Sound(s) == s \in Snapshots /\ Compatible(s)

(* A claimed item may still be activated; a command being archived was
   applied and one being rejected was issued; every copy of the snapshot, an
   operator's too, is sound. *)
IInv ==
  /\ TypeOK
  /\ Sound(mem) /\ Sound(saved)
  /\ \A o \in Operators : Sound(op[o].snap)
  /\ pc = "activate" => CanDispatch(lane, mem) /\ item \in Items
  /\ pc = "archive" => cmd \in applied
  /\ pc = "reject" => cmd \in Ids
  /\ MailboxKept

-----------------------------------------------------------------------------
(* What the operators on snapshots preserve *)

(* A sound snapshot stays sound when runs are taken out: the policy speaks of pairs. *)
LEMMA FewerRuns ==
  ASSUME NEW s, NEW t \in Snapshots, Sound(s), ActivePlanes(t) \subseteq ActivePlanes(s)
  PROVE  Sound(t)
  BY DEF Sound, Compatible

(* The default snapshot of a new workspace is sound and has no run. *)
LEMMA FreshSound == Sound(Fresh) /\ ActivePlanes(Fresh) = {}
  BY DEF Sound, Compatible, Fresh, NoRuns, Snapshots, ActivePlanes

(* reset_runtime_to_idle gives a sound snapshot. *)
LEMMA ResetSound ==
  \A s, running, clears : Sound(s) /\ running \in BOOLEAN /\ clears \in BOOLEAN
                          => Sound(Reset(s, running, clears))
<1> SUFFICES ASSUME NEW s, NEW running \in BOOLEAN, NEW clears \in BOOLEAN, Sound(s)
             PROVE  Sound(Reset(s, running, clears))
  OBVIOUS
<1>1. Reset(s, running, clears) \in Snapshots
  BY DEF Sound, Snapshots, Reset, NoRuns
<1>2. ActivePlanes(Reset(s, running, clears)) = {}
  BY DEF ActivePlanes, Reset, NoRuns
<1>3. QED
  BY <1>1, <1>2, FewerRuns

(* Clearing the run of a plane gives a sound snapshot. *)
LEMMA ClearSound ==
  \A s : \A p \in Planes : Sound(s) => Sound(ClearRun(s, p))
<1> SUFFICES ASSUME NEW s, NEW p \in Planes, Sound(s)
             PROVE  Sound(ClearRun(s, p))
  OBVIOUS
<1>1. ClearRun(s, p) \in Snapshots
  BY DEF Sound, Snapshots, ClearRun
<1>2. ActivePlanes(ClearRun(s, p)) \subseteq ActivePlanes(s)
  BY DEF ActivePlanes, ClearRun, Sound, Snapshots
<1>3. QED
  BY <1>1, <1>2, FewerRuns

(* So does clear_retry_active_plane, with or without its reset to idle. *)
LEMMA WithoutRunSound ==
  \A s : \A p \in Planes : \A running \in BOOLEAN : Sound(s) => Sound(WithoutRun(s, p, running))
  BY ResetSound, ClearSound DEF WithoutRun

(* process_running, the stop request and the pause sources do not matter to it. *)
LEMMA FlagsSound ==
  \A s : Sound(s) =>
    /\ \A b \in BOOLEAN : Sound([s EXCEPT !.running = b]) /\ Sound([s EXCEPT !.stop = b])
    /\ \A set \in SUBSET {"Operator", "UsageGovernance"} : Sound([s EXCEPT !.pause = set])
<1> SUFFICES ASSUME NEW s, Sound(s)
             PROVE  /\ \A b \in BOOLEAN : /\ Sound([s EXCEPT !.running = b])
                                          /\ Sound([s EXCEPT !.stop = b])
                    /\ \A set \in SUBSET {"Operator", "UsageGovernance"} :
                         Sound([s EXCEPT !.pause = set])
  OBVIOUS
<1>1. ASSUME NEW b \in BOOLEAN PROVE Sound([s EXCEPT !.running = b])
  BY DEF Sound, Compatible, ActivePlanes, Snapshots
<1>2. ASSUME NEW b \in BOOLEAN PROVE Sound([s EXCEPT !.stop = b])
  BY DEF Sound, Compatible, ActivePlanes, Snapshots
<1>3. ASSUME NEW set \in SUBSET {"Operator", "UsageGovernance"}
      PROVE  Sound([s EXCEPT !.pause = set])
  BY DEF Sound, Compatible, ActivePlanes, Snapshots
<1>4. QED
  BY <1>1, <1>2, <1>3

(* The repair stage works for the run that is there. *)
LEMMA RepairSound == \A s : \A p \in Planes : Sound(s) => Sound(ToRepair(s, p))
<1> SUFFICES ASSUME NEW s, NEW p \in Planes, Sound(s)
             PROVE  Sound(ToRepair(s, p))
  OBVIOUS
<1>1. ToRepair(s, p) \in Snapshots
  BY DEF Sound, Snapshots, ToRepair
<1>2. ActivePlanes(ToRepair(s, p)) \subseteq ActivePlanes(s)
  BY DEF ActivePlanes, ToRepair, Sound, Snapshots
<1>3. QED
  BY <1>1, <1>2, FewerRuns

(* The one place where a run is added. *)
LEMMA AddedRunSound ==
  ASSUME NEW s, NEW p \in Planes, NEW i \in Items, Sound(s), CanDispatch(p, s)
  PROVE  Sound([s EXCEPT !.run[p] = i])
<1> DEFINE t == [s EXCEPT !.run[p] = i]
<1>1. t \in Snapshots
  BY DEF Sound, Snapshots
<1>2. ActivePlanes(t) \subseteq ActivePlanes(s) \cup {p}
  BY DEF ActivePlanes, Sound, Snapshots
<1>3. ASSUME NEW a \in ActivePlanes(t), NEW b \in ActivePlanes(t), a # b
      PROVE  {a, b} \in Concurrent
  <2>1. CASE a = p
    BY <1>2, <1>3, <2>1 DEF CanDispatch
  <2>2. CASE b = p
    <3>1. a \in ActivePlanes(s) /\ {a, b} = {p, a}
      BY <1>2, <1>3, <2>2
    <3>2. QED
      BY <3>1 DEF CanDispatch
  <2>3. CASE a # p /\ b # p
    BY <1>2, <1>3, <2>3 DEF Sound, Compatible
  <2>4. QED
    BY <2>1, <2>2, <2>3
<1>4. QED
  BY <1>1, <1>3 DEF Sound, Compatible

(* An evaluation of the usage rules only touches a pause source. *)
LEMMA UsageSound == ASSUME Sound(mem), EvaluateUsage PROVE Sound(mem') /\ governed' \in BOOLEAN
<1> DEFINE pause == IF governed' THEN mem.pause \cup {"UsageGovernance"}
                    ELSE IF Governance /\ ~AutoResume THEN mem.pause
                    ELSE mem.pause \ {"UsageGovernance"}
<1>1. governed' \in BOOLEAN /\ mem' = [mem EXCEPT !.pause = pause]
  BY DEF EvaluateUsage
<1>2. pause \in SUBSET {"Operator", "UsageGovernance"}
  BY DEF Sound, Snapshots
<1>3. QED
  BY <1>1, <1>2, FlagsSound

-----------------------------------------------------------------------------
(* The steps of the daemon *)

(* Taking the ownership lock touches no snapshot and no command. *)
LEMMA AcquireKeeps == ASSUME IInv, Acquire PROVE IInv'
  BY DEF IInv, TypeOK, MailboxKept, mail, cycle, others, history, Ids, Acquire

(* The session starts from the saved snapshot, which is sound. *)
LEMMA LoadKeeps == ASSUME IInv, Load PROVE IInv'
  BY DEF IInv, TypeOK, MailboxKept, mail, cycle, others, history, Ids, Load

(* Startup marks the process running and notes the stale planes. *)
LEMMA DetectKeeps == ASSUME IInv, Detect PROVE IInv'
<1>1. Sound(mem') /\ Sound(saved')
  <2>1. Sound(Resumed)
    BY RepairSound DEF IInv, Resumed, Planes
  <2>2. QED
    BY <2>1, FlagsSound DEF IInv, Detect
<1>2. mem' \in Snapshots /\ saved' \in Snapshots
  BY <1>1 DEF Sound
<1>3. QED
  BY <1>1, <1>2 DEF IInv, TypeOK, MailboxKept, mail, cycle, others, history, Ids, Detect, Planes

(* The copy saved at startup is the sound one of the session. *)
LEMMA SaveStartupKeeps == ASSUME IInv, SaveStartup PROVE IInv'
  BY DEF IInv, TypeOK, MailboxKept, mail, cycle, others, history, Ids, SaveStartup

(* A drain lists the files of mailbox/incoming and changes nothing. *)
LEMMA IntakeKeeps == ASSUME IInv, Intake PROVE IInv'
  BY ConstantsAssumption DEF IInv, TypeOK, MailboxKept, mail, cycle, others, history, Ids, Intake

(* An archived command was applied. *)
LEMMA ArchiveKeeps == ASSUME IInv, Archive PROVE IInv'
  BY DEF IInv, TypeOK, MailboxKept, mail, cycle, others, history, Ids, Archive

(* A command that failed leaves mailbox/incoming for mailbox/failed. *)
LEMMA RejectKeeps == ASSUME IInv, Reject PROVE IInv'
  BY DEF IInv, TypeOK, MailboxKept, mail, cycle, others, history, Ids, Reject

(* The snapshot saved after the drain is the sound one of the session. *)
LEMMA EndDrainKeeps == ASSUME IInv, EndDrain PROVE IInv'
  BY DEF IInv, TypeOK, MailboxKept, mail, cycle, others, history, Ids, EndDrain

(* Usage governance only touches a pause source. *)
LEMMA GovernKeeps == ASSUME IInv, Govern PROVE IInv'
<1>0. Sound(mem') /\ governed' \in BOOLEAN
  BY UsageSound DEF IInv, Govern
<1>1. Sound(mem') /\ Sound(saved')
  BY <1>0 DEF IInv, Govern
<1>2. mem' \in Snapshots /\ saved' \in Snapshots
  BY <1>1 DEF Sound
<1>3. QED
  BY <1>0, <1>1, <1>2 DEF IInv, TypeOK, MailboxKept, mail, cycle, others, history, Ids, Govern

(* Starting a worker for a run that is there adds no run. *)
LEMMA LaunchActiveKeeps == ASSUME IInv, LaunchActive PROVE IInv'
  BY DEF IInv, TypeOK, MailboxKept, mail, cycle, others, history, Ids, LaunchActive, First,
       ActivePlanes

(* A run whose stage does not take its item goes with all others. *)
LEMMA DisownKeeps == ASSUME IInv, Disown PROVE IInv'
<1>1. Sound(mem') /\ Sound(saved')
  BY ResetSound DEF IInv, Disown
<1>2. mem' \in Snapshots /\ saved' \in Snapshots
  BY <1>1 DEF Sound
<1>3. QED
  BY <1>1, <1>2 DEF IInv, TypeOK, MailboxKept, mail, cycle, others, history, Ids, Disown, Planes

(* Moving on to the claims changes no state that is kept. *)
LEMMA StartClaimsKeeps == ASSUME IInv, StartClaims PROVE IInv'
  BY DEF IInv, TypeOK, MailboxKept, mail, cycle, others, history, Ids, StartClaims, Planes

(* The claim asked can_dispatch_plane: its answer still holds at the activation. *)
LEMMA ClaimMoveKeeps == ASSUME IInv, ClaimMove PROVE IInv'
  BY DEF IInv, TypeOK, MailboxKept, mail, cycle, others, history, Ids, ClaimMove, Claimable

(* An idle cycle saves the sound snapshot of the session. *)
LEMMA NoClaimKeeps == ASSUME IInv, NoClaim PROVE IInv'
  BY DEF IInv, TypeOK, MailboxKept, mail, cycle, others, history, Ids, NoClaim, Planes

(* Starting the worker of the new run adds no run. *)
LEMMA LaunchKeeps == ASSUME IInv, Launch PROVE IInv'
  BY DEF IInv, TypeOK, MailboxKept, mail, cycle, others, history, Ids, Launch, Planes

(* A next stage keeps the run it belongs to. *)
LEMMA RunStageKeeps == ASSUME IInv, RunStage PROVE IInv'
<1>0. Sound(mem') /\ governed' \in BOOLEAN
  BY UsageSound DEF IInv, RunStage
<1>1. Sound(mem') /\ Sound(saved')
  BY <1>0 DEF IInv, RunStage
<1>2. mem' \in Snapshots /\ saved' \in Snapshots
  BY <1>1 DEF Sound
<1>3. QED
  BY <1>0, <1>1, <1>2
    DEF IInv, TypeOK, MailboxKept, mail, cycle, others, history, Ids, RunStage, First, Planes

(* Moving the finished item keeps the runs. *)
LEMMA SettleMoveKeeps == ASSUME IInv, SettleMove PROVE IInv'
<1>0. Sound(mem') /\ governed' \in BOOLEAN
  BY UsageSound DEF IInv, SettleMove
<1>1. Sound(mem') /\ Sound(saved')
  BY <1>0 DEF IInv, SettleMove
<1>2. mem' \in Snapshots /\ saved' \in Snapshots
  BY <1>1 DEF Sound
<1>3. QED
  BY <1>0, <1>1, <1>2
    DEF IInv, TypeOK, MailboxKept, mail, cycle, others, history, Ids, SettleMove, First, Planes

(* A settled run is cleared. *)
LEMMA SettleSaveKeeps == ASSUME IInv, SettleSave PROVE IInv'
<1>1. Sound(mem') /\ Sound(saved')
  BY ClearSound DEF IInv, TypeOK, SettleSave
<1>2. mem' \in Snapshots /\ saved' \in Snapshots
  BY <1>1 DEF Sound
<1>3. QED
  BY <1>1, <1>2
    DEF IInv, TypeOK, MailboxKept, mail, cycle, others, history, Ids, SettleSave, Planes

(* An exception after the stage keeps the run for its repair stage. *)
LEMMA SettleFailsKeeps == ASSUME IInv, SettleFails PROVE IInv'
<1>1. /\ mem' = ToRepair(mem, lane) /\ saved' = mem' /\ lane' = "planning"
      /\ pc' \in {"close", "collect"} /\ exit' \in {"error", exit} /\ worker' \subseteq worker
  BY DEF SettleFails, RecoverRun
<1>2. Sound(mem') /\ Sound(saved')
  BY <1>1, RepairSound DEF IInv, TypeOK
<1>3. mem' \in Snapshots /\ saved' \in Snapshots
  BY <1>2 DEF Sound
<1>4. faults' \in 0..MaxFaults
  BY ConstantsAssumption DEF IInv, TypeOK, SettleFails
<1>5. QED
  BY <1>1, <1>2, <1>3, <1>4 DEF IInv, TypeOK, MailboxKept, mail, cycle, others, history, Ids,
     Planes, SettleFails

(* So does an item that is not where the move expects it. *)
LEMMA SettleConflictKeeps == ASSUME IInv, SettleConflict PROVE IInv'
<1>1. PICK p \in First(worker) : RecoverRun(p)
  BY DEF SettleConflict
<1>2. /\ mem' = ToRepair(mem, p) /\ saved' = mem' /\ lane' = "planning"
      /\ pc' \in {"close", "collect"} /\ exit' \in {"error", exit} /\ worker' \subseteq worker
  BY <1>1 DEF RecoverRun
<1>3. Sound(mem') /\ Sound(saved')
  BY <1>2, RepairSound DEF IInv, TypeOK, First
<1>4. mem' \in Snapshots /\ saved' \in Snapshots
  BY <1>3 DEF Sound
<1>5. QED
  BY <1>2, <1>3, <1>4 DEF IInv, TypeOK, MailboxKept, mail, cycle, others, history, Ids, Planes,
     SettleConflict

(* A cycle without outcomes left goes back to the loop. *)
LEMMA EndCycleKeeps == ASSUME IInv, EndCycle PROVE IInv'
  BY DEF IInv, TypeOK, MailboxKept, mail, cycle, others, history, Ids, EndCycle

(* A stop resets the snapshot when no run is left. *)
LEMMA StopRequestedKeeps == ASSUME IInv, StopRequested PROVE IInv'
<1>1. Sound(mem') /\ Sound(saved')
  BY ResetSound DEF IInv, StopRequested
<1>2. mem' \in Snapshots /\ saved' \in Snapshots
  BY <1>1 DEF Sound
<1>3. QED
  BY <1>1, <1>2 DEF IInv, TypeOK, MailboxKept, mail, cycle, others, history, Ids, StopRequested

(* The loop goes round or ends at its limit. *)
LEMMA NextIterationKeeps == ASSUME IInv, NextIteration PROVE IInv'
  BY DEF IInv, TypeOK, MailboxKept, mail, cycle, others, history, Ids, NextIteration

(* A failing startup leaves the saved snapshot as it is. *)
LEMMA StartupFailsKeeps == ASSUME IInv, StartupFails PROVE IInv'
<1>1. Sound(mem') /\ Sound(saved')
  BY FreshSound DEF IInv, StartupFails, EndSession
<1>2. mem' \in Snapshots /\ saved' \in Snapshots
  BY <1>1 DEF Sound
<1>3. QED
  BY <1>1, <1>2, ConstantsAssumption
    DEF IInv, TypeOK, MailboxKept, mail, cycle, others, history, Ids, StartupFails, EndSession,
        Planes

(* An error of the cycle loses workers, never a command of the mailbox. *)
LEMMA CycleFailsKeeps == ASSUME IInv, CycleFails PROVE IInv'
<1>1. Sound(mem') /\ Sound(saved')
  BY DEF IInv, CycleFails
<1>2. mem' \in Snapshots /\ saved' \in Snapshots
  BY <1>1 DEF Sound
<1>3. QED
  BY <1>1, <1>2, ConstantsAssumption
    DEF IInv, TypeOK, MailboxKept, mail, cycle, others, history, Ids, CycleFails, Planes

(* The close marks the process stopped. *)
LEMMA CloseSaveKeeps == ASSUME IInv, CloseSave PROVE IInv'
<1>1. Sound(mem') /\ Sound(saved')
  BY FlagsSound DEF IInv, CloseSave
<1>2. mem' \in Snapshots /\ saved' \in Snapshots
  BY <1>1 DEF Sound
<1>3. QED
  BY <1>1, <1>2 DEF IInv, TypeOK, MailboxKept, mail, cycle, others, history, Ids, CloseSave

(* The process ends after it released the lock. *)
LEMMA ReleaseKeeps == ASSUME IInv, Release PROVE IInv'
<1>1. Sound(mem') /\ Sound(saved')
  BY FreshSound DEF IInv, Release, EndSession
<1>2. mem' \in Snapshots /\ saved' \in Snapshots
  BY <1>1 DEF Sound
<1>3. QED
  BY <1>1, <1>2
    DEF IInv, TypeOK, MailboxKept, mail, cycle, others, history, Ids, Release, EndSession, Planes

(* A crash leaves the files: the saved snapshot and the mailbox. *)
LEMMA CrashKeeps == ASSUME IInv, Crash PROVE IInv'
<1>1. Sound(mem') /\ Sound(saved')
  BY FreshSound DEF IInv, Crash, EndSession
<1>2. mem' \in Snapshots /\ saved' \in Snapshots
  BY <1>1 DEF Sound
<1>3. QED
  BY <1>1, <1>2, ConstantsAssumption
    DEF IInv, TypeOK, MailboxKept, mail, cycle, others, history, Ids, Crash, EndSession, Planes

(* The claimed item becomes the run of its plane. *)
LEMMA ActivateKeeps == ASSUME IInv, Activate PROVE IInv'
<1>1. Sound(mem') /\ Sound(saved')
  BY AddedRunSound DEF IInv, TypeOK, Activate
<1>2. mem' \in Snapshots /\ saved' \in Snapshots
  BY <1>1 DEF Sound
<1>3. QED
  BY <1>1, <1>2 DEF IInv, TypeOK, MailboxKept, mail, cycle, others, history, Ids, Activate

(* What a command of the mailbox does to the snapshot adds no run. *)
LEMMA CommandSound ==
  ASSUME IInv, NEW c \in Ids, cmd' = c, ApplyCommand(c)
  PROVE  /\ Sound(mem') /\ Sound(saved')
         /\ place' \in [Items -> {"queue", "active", "out"}]
         /\ requeued' \in [Ids -> Nat] /\ held' \in BOOLEAN
<1>1. Sound(mem) /\ Sound(saved) /\ TypeOK
  BY DEF IInv
<1>2. CASE issued[c].kind \in {"pause", "resume", "stop"}
  <2>1. mem.pause \cup {"Operator"} \in SUBSET {"Operator", "UsageGovernance"}
        /\ mem.pause \ {"Operator"} \in SUBSET {"Operator", "UsageGovernance"}
    BY <1>1 DEF Sound, Snapshots
  <2>2. UNCHANGED <<place, saved, requeued>> /\ held' \in {TRUE, FALSE, held}
    BY <1>2 DEF ApplyCommand
  <2>3. \/ mem' = [mem EXCEPT !.pause = mem.pause \cup {"Operator"}]
        \/ mem' = [mem EXCEPT !.pause = mem.pause \ {"Operator"}]
        \/ mem' = [mem EXCEPT !.stop = TRUE]
    BY <1>2 DEF ApplyCommand
  <2>4. /\ Sound([mem EXCEPT !.stop = TRUE])
        /\ Sound([mem EXCEPT !.pause = mem.pause \cup {"Operator"}])
        /\ Sound([mem EXCEPT !.pause = mem.pause \ {"Operator"}])
    BY <1>1, <2>1, FlagsSound
  <2>5. QED
    BY <1>1, <2>2, <2>3, <2>4 DEF TypeOK
<1>3. CASE issued[c].kind = "clear_stale_state"
  <2>1. /\ place' = [i \in Items |-> IF place[i] = "active" THEN "queue" ELSE place[i]]
        /\ mem' = Reset(mem, TRUE, TRUE) /\ saved' = mem' /\ held' = FALSE /\ UNCHANGED requeued
    BY <1>3 DEF ApplyCommand
  <2>2. QED
    BY <1>1, <2>1, ResetSound DEF TypeOK
<1>4. ASSUME NEW p \in Planes, ApplyRetry(p), UNCHANGED held
      PROVE  /\ Sound(mem') /\ Sound(saved')
             /\ place' \in [Items -> {"queue", "active", "out"}]
             /\ requeued' \in [Ids -> Nat] /\ held' \in BOOLEAN
  <2>1. CASE place[mem.run[p]] = "active"
    <3>1. /\ place' = [place EXCEPT ![mem.run[p]] = "queue"]
          /\ mem' = WithoutRun(mem, p, TRUE) /\ saved' = mem'
          /\ requeued' = [requeued EXCEPT ![c] = requeued[c] + 1]
      BY <1>4, <2>1 DEF ApplyRetry
    <3>2. Sound(mem') /\ Sound(saved')
      BY <1>1, <3>1, WithoutRunSound
    <3>3. requeued' \in [Ids -> Nat]
      BY <1>1, <3>1 DEF TypeOK
    <3>4. place' \in [Items -> {"queue", "active", "out"}]
      BY <1>1, <3>1 DEF TypeOK
    <3>5. QED
      BY <1>1, <1>4, <3>2, <3>3, <3>4 DEF TypeOK
  <2>2. CASE place[mem.run[p]] # "active"
    BY <1>1, <1>4, <2>2 DEF ApplyRetry, TypeOK
  <2>3. QED
    BY <2>1, <2>2
<1>5. RetryPlanes(mem, issued[c].scope) \subseteq Planes
  BY DEF RetryPlanes, ActivePlanes
<1>6. QED
  BY <1>1, <1>2, <1>3, <1>4, <1>5 DEF ApplyCommand, TypeOK

(* Nor does what a command that fails half-way has done. *)
LEMMA HalfSound ==
  ASSUME IInv, NEW c \in Ids, HalfApplied(c)
  PROVE  /\ Sound(mem')
         /\ place' \in [Items -> {"queue", "active", "out"}]
         /\ requeued' \in [Ids -> Nat] /\ held' \in BOOLEAN
<1>1. Sound(mem) /\ TypeOK
  BY DEF IInv
<1>2. CASE issued[c].kind = "retry_active"
  <2>1. PICK p \in RetryPlanes(mem, issued[c].scope) :
          /\ place' = [place EXCEPT ![mem.run[p]] = "queue"]
          /\ mem' \in {mem, WithoutRun(mem, p, TRUE)}
    BY <1>2 DEF HalfApplied
  <2>2. p \in Planes
    BY DEF RetryPlanes, ActivePlanes
  <2>3. Sound(mem')
    BY <1>1, <2>1, <2>2, WithoutRunSound
  <2>4. requeued' = [requeued EXCEPT ![c] = requeued[c] + 1] /\ UNCHANGED held
    BY <1>2 DEF HalfApplied
  <2>5. place' \in [Items -> {"queue", "active", "out"}]
    BY <1>1, <2>1 DEF TypeOK
  <2>6. requeued' \in [Ids -> Nat]
    BY <1>1, <2>4 DEF TypeOK
  <2>7. QED
    BY <1>1, <2>3, <2>4, <2>5, <2>6 DEF TypeOK
<1>3. CASE issued[c].kind = "clear_stale_state"
  <2>1. PICK moved : place' = [i \in Items |-> IF i \in moved THEN "queue" ELSE place[i]]
    BY <1>3 DEF HalfApplied
  <2>2. (mem' = mem \/ mem' = Reset(mem, TRUE, TRUE)) /\ UNCHANGED requeued
    BY <1>3 DEF HalfApplied
  <2>3. held' = held \/ held' = FALSE
    BY <1>3 DEF HalfApplied
  <2>4. Sound(mem')
    BY <1>1, <2>2, ResetSound
  <2>5. place' \in [Items -> {"queue", "active", "out"}]
    BY <1>1, <2>1 DEF TypeOK
  <2>6. QED
    BY <1>1, <2>2, <2>3, <2>4, <2>5 DEF TypeOK
<1>4. QED
  BY <1>2, <1>3 DEF HalfApplied

(* A command of the mailbox that is applied is marked so. *)
LEMMA ApplyKeeps == ASSUME IInv, Apply PROVE IInv'
<1>1. PICK c \in listed : cmd' = c /\ applied' = applied \cup {c} /\ ApplyCommand(c)
  BY DEF Apply
<1>2. c \in Ids
  BY <1>1 DEF IInv, TypeOK
<1>3. /\ Sound(mem') /\ Sound(saved')
      /\ place' \in [Items -> {"queue", "active", "out"}]
      /\ requeued' \in [Ids -> Nat] /\ held' \in BOOLEAN
  BY <1>1, <1>2, CommandSound
<1>4. mem' \in Snapshots /\ saved' \in Snapshots
  BY <1>3 DEF Sound
<1>5. QED
  BY <1>1, <1>2, <1>3, <1>4
    DEF IInv, TypeOK, MailboxKept, mail, cycle, others, history, Ids, Apply

(* A command that fails stays in mailbox/incoming until it is archived. *)
LEMMA ApplyFailsKeeps == ASSUME IInv, ApplyFails PROVE IInv'
<1>1. PICK c \in listed :
        /\ cmd' = c
        /\ \/ UNCHANGED <<place, mem, saved, requeued, held, clean>>
           \/ ApplyCommand(c) /\ UNCHANGED clean
           \/ HalfApplied(c) /\ clean' = FALSE /\ UNCHANGED saved
  BY DEF ApplyFails
<1>2. c \in Ids
  BY <1>1 DEF IInv, TypeOK
<1>3. /\ Sound(mem') /\ Sound(saved')
      /\ place' \in [Items -> {"queue", "active", "out"}]
      /\ requeued' \in [Ids -> Nat] /\ held' \in BOOLEAN
  <2>1. CASE UNCHANGED <<place, mem, saved, requeued, held, clean>>
    BY <2>1 DEF IInv, TypeOK
  <2>2. CASE ApplyCommand(c)
    BY <1>1, <1>2, <2>2, CommandSound
  <2>3. CASE HalfApplied(c) /\ UNCHANGED saved
    <3>1. Sound(saved')
      BY <2>3 DEF IInv
    <3>2. QED
      BY <1>2, <2>3, <3>1, HalfSound
  <2>4. QED
    BY <1>1, <2>1, <2>2, <2>3
<1>4. mem' \in Snapshots /\ saved' \in Snapshots
  BY <1>3 DEF Sound
<1>5. faults' \in 0..MaxFaults
  BY ConstantsAssumption DEF IInv, TypeOK, ApplyFails
<1>6. clean' \in BOOLEAN
  <2>1. clean \in BOOLEAN /\ (clean' = clean \/ clean' = FALSE)
    BY <1>1 DEF IInv, TypeOK
  <2>2. QED
    BY <2>1, Zenon
<1>7. /\ pc' = "reject" /\ cmd' \in Ids
      /\ UNCHANGED <<lock, listed, issued, pending, rejected, cycle, op, governed, applied>>
  BY <1>1, <1>2 DEF ApplyFails
<1>8. QED
  BY <1>3, <1>4, <1>5, <1>6, <1>7 DEF IInv, TypeOK, MailboxKept, cycle, Ids

-----------------------------------------------------------------------------
(* The steps of the operators *)

(* A record of an operator whose snapshot is sound may replace another. *)
LEMMA OperatorRecord ==
  ASSUME IInv, NEW o \in Operators, NEW r \in OperatorRecords, Sound(r.snap),
         op' = [op EXCEPT ![o] = r]
  PROVE  op' \in [Operators -> OperatorRecords] /\ \A q \in Operators : Sound(op'[q].snap)
  BY DEF IInv, TypeOK

(* The record of an operator that does nothing is one. *)
LEMMA IdleRecord == Idle \in OperatorRecords /\ Sound(Idle.snap)
  BY FreshSound DEF Idle, OperatorRecords, AllCommands, Kinds, Planes, Sound

(* A direct handler that saves a sound snapshot. *)
LEMMA DirectSaveKeeps ==
  ASSUME IInv, NEW o \in Operators, NEW s, Sound(s), DirectSave(o, s),
         UNCHANGED <<place, lock>>, held' \in BOOLEAN
  PROVE  IInv'
<1>1. s \in Snapshots
  BY DEF Sound
<1>2. QED
  BY <1>1, OperatorRecord, IdleRecord
    DEF DirectSave, Safe, daemon, IInv, TypeOK, MailboxKept, mail, cycle, others, history, Ids

(* An operator loads the saved snapshot, a sound one. *)
LEMMA OpLoadKeeps == ASSUME IInv, NEW o \in Operators, OpLoad(o) PROVE IInv'
<1>1. PICK c \in Commands :
        op' = [op EXCEPT ![o] = [Idle EXCEPT !.pc = "loaded", !.command = c, !.snap = saved]]
  BY DEF OpLoad
<1>2. c \in AllCommands
  BY ConstantsAssumption DEF AllCommands
<1>3. [Idle EXCEPT !.pc = "loaded", !.command = c, !.snap = saved] \in OperatorRecords
  BY <1>2, IdleRecord DEF OperatorRecords, IInv, Sound
<1>4. Sound([Idle EXCEPT !.pc = "loaded", !.command = c, !.snap = saved].snap)
  BY DEF Idle, IInv
<1>5. op' \in [Operators -> OperatorRecords] /\ \A q \in Operators : Sound(op'[q].snap)
  BY <1>1, <1>3, <1>4, OperatorRecord
<1>6. QED
  BY <1>5 DEF IInv, TypeOK, MailboxKept, daemon, mail, cycle, others, history, Ids, OpLoad

(* It then looks at the lock to choose the mailbox or a direct change. *)
LEMMA OpInspectKeeps == ASSUME IInv, NEW o \in Operators, OpInspect(o) PROVE IInv'
<1>1. PICK r \in {[op[o] EXCEPT !.pc = "enqueue", !.snap = Fresh], [op[o] EXCEPT !.pc = "direct"]} :
        op' = [op EXCEPT ![o] = r]
  <2>1. CASE lock = "held"
    <3>1. op' = [op EXCEPT ![o] = [op[o] EXCEPT !.pc = "enqueue", !.snap = Fresh]]
      BY <2>1 DEF OpInspect, IInv, TypeOK
    <3>2. QED
      BY <3>1
  <2>2. CASE lock # "held"
    <3>1. op' = [op EXCEPT ![o] = [op[o] EXCEPT !.pc = "direct"]]
      BY <2>2 DEF OpInspect, IInv, TypeOK
    <3>2. QED
      BY <3>1
  <2>3. QED
    BY <2>1, <2>2
<1>2. r \in OperatorRecords /\ Sound(r.snap)
  BY FreshSound DEF IInv, TypeOK, OperatorRecords, Sound
<1>3. op' \in [Operators -> OperatorRecords] /\ \A q \in Operators : Sound(op'[q].snap)
  BY <1>1, <1>2, OperatorRecord
<1>4. QED
  BY <1>3 DEF IInv, TypeOK, MailboxKept, daemon, mail, cycle, others, history, Ids, OpInspect

(* A command written to the mailbox is pending under its own name. *)
LEMMA OpEnqueueKeeps == ASSUME IInv, NEW o \in Operators, OpEnqueue(o) PROVE IInv'
<1>1. op' \in [Operators -> OperatorRecords] /\ \A q \in Operators : Sound(op'[q].snap)
  BY OperatorRecord, IdleRecord DEF OpEnqueue
<1>2. op[o].command \in AllCommands
  BY DEF IInv, TypeOK, OperatorRecords
<1>3. /\ issued' \in Seq(AllCommands) /\ Len(issued') = Len(issued) + 1
      /\ Len(issued) \in Nat
  BY <1>2 DEF OpEnqueue, IInv, TypeOK
<1>4. Len(issued') <= MaxCommands
  BY <1>3, ConstantsAssumption DEF OpEnqueue
<1>5. pending' \subseteq 1..Len(issued')
  <2>1. pending \subseteq 1..Len(issued) /\ pending' = pending \cup {Len(issued) + 1}
    BY DEF OpEnqueue, IInv, TypeOK
  <2>2. 1..Len(issued) \cup {Len(issued) + 1} \subseteq 1..(Len(issued) + 1)
    BY <1>3
  <2>3. 1..Len(issued') = 1..(Len(issued) + 1)
    BY <1>3
  <2>4. QED
    BY <2>1, <2>2, <2>3
<1>6. MailboxKept'
  BY <1>3 DEF MailboxKept, IInv, OpEnqueue, history
<1>7. QED
  BY <1>1, <1>3, <1>4, <1>5, <1>6 DEF IInv, TypeOK, daemon, cycle, history, Ids, OpEnqueue

(* A direct pause saves the snapshot it loaded with one more pause source. *)
LEMMA OpPauseKeeps == ASSUME IInv, NEW o \in Operators, OpPause(o) PROVE IInv'
<1> DEFINE s == [op[o].snap EXCEPT !.pause = op[o].snap.pause \cup {"Operator"}]
<1>1. Sound(op[o].snap) /\ op[o].snap.pause \cup {"Operator"} \in SUBSET {"Operator", "UsageGovernance"}
  BY DEF IInv, Sound, Snapshots
<1>2. Sound(s)
  BY <1>1, FlagsSound
<1>3. DirectSave(o, s) /\ held' \in BOOLEAN /\ UNCHANGED <<place, lock>>
  BY DEF OpPause
<1> HIDE DEF s
<1>4. QED
  BY <1>2, <1>3, DirectSaveKeeps

(* A direct resume keeps the pause of usage governance while it has a blocker. *)
LEMMA OpResumeKeeps == ASSUME IInv, NEW o \in Operators, OpResume(o) PROVE IInv'
<1> DEFINE pause == (op[o].snap.pause \cup (IF governed THEN {"UsageGovernance"} ELSE {}))
                       \ {"Operator"}
           s == [op[o].snap EXCEPT !.pause = pause]
<1>1. Sound(op[o].snap) /\ pause \in SUBSET {"Operator", "UsageGovernance"}
  BY DEF IInv, Sound, Snapshots
<1>2. Sound(s)
  BY <1>1, FlagsSound
<1>3. DirectSave(o, s) /\ held' \in BOOLEAN /\ UNCHANGED <<place, lock>>
  BY DEF OpResume
<1> HIDE DEF s
<1>4. QED
  BY <1>2, <1>3, DirectSaveKeeps

(* A direct stop saves a reset snapshot. *)
LEMMA OpStopKeeps == ASSUME IInv, NEW o \in Operators, OpStop(o) PROVE IInv'
<1>1. Sound(Reset(op[o].snap, FALSE, TRUE))
  BY ResetSound DEF IInv
<1>2. DirectSave(o, Reset(op[o].snap, FALSE, TRUE)) /\ held' \in BOOLEAN /\ UNCHANGED <<place, lock>>
  BY DEF OpStop
<1>3. QED
  BY <1>1, <1>2, DirectSaveKeeps

(* A direct retry first moves the item back to the queue. *)
LEMMA OpRetryMoveKeeps == ASSUME IInv, NEW o \in Operators, OpRetryMove(o) PROVE IInv'
<1>1. PICK p \in RetryPlanes(op[o].snap, op[o].command.scope) :
        /\ place' = [place EXCEPT ![op[o].snap.run[p]] = "queue"]
        /\ op' = [op EXCEPT ![o].pc = "retry", ![o].plane = p]
  BY DEF OpRetryMove
<1>2. p \in Planes
  BY <1>1 DEF RetryPlanes, ActivePlanes
<1> DEFINE r == [op[o] EXCEPT !.pc = "retry", !.plane = p]
<1>3. op' = [op EXCEPT ![o] = r]
  BY <1>1 DEF IInv, TypeOK
<1>4. r \in OperatorRecords /\ Sound(r.snap)
  BY <1>2 DEF IInv, TypeOK, OperatorRecords
<1>5. op' \in [Operators -> OperatorRecords] /\ \A q \in Operators : Sound(op'[q].snap)
  BY <1>3, <1>4, OperatorRecord
<1>6. place' \in [Items -> {"queue", "active", "out"}] /\ clean' \in BOOLEAN
  BY <1>1 DEF IInv, TypeOK, OpRetryMove, Safe
<1>7. QED
  BY <1>5, <1>6
    DEF IInv, TypeOK, MailboxKept, daemon, mail, cycle, others, history, Ids, OpRetryMove

(* A retry without a run to retry changes nothing. *)
LEMMA OpRetrySkipKeeps == ASSUME IInv, NEW o \in Operators, OpRetrySkip(o) PROVE IInv'
<1>1. op' \in [Operators -> OperatorRecords] /\ \A q \in Operators : Sound(op'[q].snap)
  BY OperatorRecord, IdleRecord DEF OpRetrySkip
<1>2. QED
  BY <1>1 DEF IInv, TypeOK, MailboxKept, daemon, mail, cycle, others, history, Ids, OpRetrySkip

(* It then saves the snapshot it loaded without the run. *)
LEMMA OpRetrySaveKeeps == ASSUME IInv, NEW o \in Operators, OpRetrySave(o) PROVE IInv'
<1>1. op[o].plane \in Planes
  BY DEF IInv, TypeOK, OperatorRecords
<1>2. Sound(WithoutRun(op[o].snap, op[o].plane, FALSE))
  BY <1>1, WithoutRunSound DEF IInv
<1>3. /\ DirectSave(o, WithoutRun(op[o].snap, op[o].plane, FALSE))
      /\ held' \in BOOLEAN /\ UNCHANGED <<place, lock>>
  BY DEF OpRetrySave, IInv, TypeOK
<1>4. QED
  BY <1>2, <1>3, DirectSaveKeeps

(* A direct clear-stale first moves the active items back to the queue. *)
LEMMA OpClearRequeueKeeps == ASSUME IInv, NEW o \in Operators, OpClearRequeue(o) PROVE IInv'
<1> DEFINE r == [op[o] EXCEPT !.pc = "unlock"]
<1>1. r \in OperatorRecords /\ Sound(r.snap) /\ op' = [op EXCEPT ![o] = r]
  BY DEF IInv, TypeOK, OperatorRecords, OpClearRequeue
<1>2. op' \in [Operators -> OperatorRecords] /\ \A q \in Operators : Sound(op'[q].snap)
  BY <1>1, OperatorRecord
<1>3. place' \in [Items -> {"queue", "active", "out"}] /\ clean' \in BOOLEAN
  BY DEF IInv, TypeOK, OpClearRequeue, Safe
<1>4. QED
  BY <1>2, <1>3
    DEF IInv, TypeOK, MailboxKept, daemon, mail, cycle, others, history, Ids, OpClearRequeue

(* It then removes the lock of a dead owner. *)
LEMMA OpClearLockKeeps == ASSUME IInv, NEW o \in Operators, OpClearLock(o) PROVE IInv'
<1> DEFINE r == [op[o] EXCEPT !.pc = "reset"]
<1>1. r \in OperatorRecords /\ Sound(r.snap) /\ op' = [op EXCEPT ![o] = r]
  BY DEF IInv, TypeOK, OperatorRecords, OpClearLock
<1>2. op' \in [Operators -> OperatorRecords] /\ \A q \in Operators : Sound(op'[q].snap)
  BY <1>1, OperatorRecord
<1>3. QED
  BY <1>2 DEF IInv, TypeOK, MailboxKept, daemon, mail, cycle, others, history, Ids, OpClearLock

(* It then saves a reset snapshot. *)
LEMMA OpClearResetKeeps == ASSUME IInv, NEW o \in Operators, OpClearReset(o) PROVE IInv'
<1>1. Sound(Reset(op[o].snap, FALSE, TRUE))
  BY ResetSound DEF IInv
<1>2. DirectSave(o, Reset(op[o].snap, FALSE, TRUE)) /\ held' \in BOOLEAN /\ UNCHANGED <<place, lock>>
  BY DEF OpClearReset
<1>3. QED
  BY <1>1, <1>2, DirectSaveKeeps

(* An operator killed between two effects leaves what it had done. *)
LEMMA OpCrashKeeps == ASSUME IInv, NEW o \in Operators, OpCrash(o) PROVE IInv'
<1>1. op' \in [Operators -> OperatorRecords] /\ \A q \in Operators : Sound(op'[q].snap)
  BY OperatorRecord, IdleRecord DEF OpCrash
<1>2. faults' \in 0..MaxFaults
  BY ConstantsAssumption DEF IInv, TypeOK, OpCrash
<1>3. /\ UNCHANGED <<place, saved, lock, mem, pc, listed, cmd, exit, recon, lane, item, worker,
                     issued, pending, rejected, governed, applied, requeued, held>>
      /\ clean' = FALSE
  BY DEF OpCrash, daemon, cycle
<1>4. TypeOK'
  <2>1. TypeOK /\ clean' \in BOOLEAN
    BY <1>3 DEF IInv
  <2>2. held' \in BOOLEAN /\ governed' \in BOOLEAN
    BY <2>1, <1>3 DEF TypeOK
  <2>3. QED
    BY <1>1, <1>2, <1>3, <2>1, <2>2 DEF TypeOK, Ids
<1>5. QED
  BY <1>1, <1>3, <1>4 DEF IInv, MailboxKept, CanDispatch, ActivePlanes

(* A step that changes nothing keeps everything. *)
LEMMA StutterKeeps == ASSUME IInv, UNCHANGED vars PROVE IInv'
  BY DEF vars, IInv, TypeOK, MailboxKept, Ids, CanDispatch, ActivePlanes, Sound

-----------------------------------------------------------------------------
(* The theorems *)

(* The invariant holds in a new workspace with its items filed. *)
LEMMA InitIInv == Init => IInv
<1> SUFFICES ASSUME Init PROVE IInv
  OBVIOUS
<1>1. Sound(Fresh) /\ Idle \in OperatorRecords /\ Sound(Idle.snap)
  BY FreshSound, IdleRecord
<1>2. \A o \in Operators : Sound(op[o].snap)
  BY <1>1 DEF Init
<1>3. TypeOK
  <2>1. issued \in Seq(AllCommands) /\ Len(issued) = 0 /\ Len(issued) <= MaxCommands
    BY ConstantsAssumption DEF Init
  <2>2. op \in [Operators -> OperatorRecords] /\ saved \in Snapshots /\ mem \in Snapshots
    BY <1>1 DEF Init, Sound
  <2>3. faults \in 0..MaxFaults /\ requeued \in [Ids -> Nat]
    BY ConstantsAssumption DEF Init
  <2>4. QED
    BY <2>1, <2>2, <2>3 DEF Init, TypeOK, Planes
<1>4. MailboxKept
  BY DEF Init, MailboxKept
<1>5. QED
  BY <1>1, <1>2, <1>3, <1>4 DEF Init, IInv

(* Every step of a running daemon keeps the invariant. *)
LEMMA DaemonKeeps == ASSUME IInv, DaemonStep PROVE IInv'
  BY LoadKeeps, DetectKeeps, SaveStartupKeeps, IntakeKeeps, ApplyKeeps, ArchiveKeeps, RejectKeeps,
     EndDrainKeeps, GovernKeeps, LaunchActiveKeeps, DisownKeeps, StartClaimsKeeps, ClaimMoveKeeps,
     NoClaimKeeps, ActivateKeeps, LaunchKeeps, RunStageKeeps, SettleMoveKeeps,
     SettleSaveKeeps, SettleConflictKeeps, EndCycleKeeps, StopRequestedKeeps,
     NextIterationKeeps, CloseSaveKeeps, ReleaseKeeps DEF DaemonStep

(* Every step of an operator keeps the invariant. *)
LEMMA OperatorKeeps == ASSUME IInv, NEW o \in Operators, OperatorStep(o) PROVE IInv'
  BY OpLoadKeeps, OpInspectKeeps, OpEnqueueKeeps, OpPauseKeeps, OpResumeKeeps, OpStopKeeps,
     OpRetryMoveKeeps, OpRetrySkipKeeps, OpRetrySaveKeeps, OpClearRequeueKeeps,
     OpClearLockKeeps, OpClearResetKeeps, OpCrashKeeps DEF OperatorStep

(* Every step of the system keeps the invariant. *)
LEMMA InductiveStep == IInv /\ [Next]_vars => IInv'
<1> SUFFICES ASSUME IInv, [Next]_vars PROVE IInv'
  OBVIOUS
<1>1. CASE Acquire
  BY <1>1, AcquireKeeps
<1>2. CASE DaemonStep
  BY <1>2, DaemonKeeps
<1>3. CASE Fault
  BY <1>3, StartupFailsKeeps, ApplyFailsKeeps, CycleFailsKeeps, SettleFailsKeeps, CrashKeeps DEF Fault
<1>4. ASSUME NEW o \in Operators, OperatorStep(o) PROVE IInv'
  BY <1>4, OperatorKeeps
<1>5. CASE UNCHANGED vars
  BY <1>5, StutterKeeps
<1>6. QED
  BY <1>1, <1>2, <1>3, <1>4, <1>5 DEF Next

(* The invariant holds in every state the daemon and the operators reach. *)
LEMMA AlwaysIInv == Spec => []IInv
<1>1. QED
  BY InitIInv, InductiveStep, PTL DEF Spec

(* The type invariant: no step of the daemon, an operator or a crash leaves a
   snapshot, a directory, the lock or the mailbox with a value of another shape. *)
THEOREM TypeCorrect == Spec => []TypeOK
<1>1. IInv => TypeOK
  BY DEF IInv
<1>2. QED
  BY <1>1, AlwaysIInv, PTL

(* Two planes the compiled policy does not pair never have runs at once, in the
   session or in runtime_snapshot.json: for any policy, any number of operators
   whose direct saves overwrite each other and the daemon, and any number of
   crashes and restarts (can_dispatch_plane, activate_claim). *)
THEOREM PlanesExclude == Spec => []ExclusivePlanes
<1>1. IInv => ExclusivePlanes
  BY DEF IInv, Sound, ExclusivePlanes
<1>2. QED
  BY <1>1, AlwaysIInv, PTL

(* A command an operator enqueued is in mailbox/incoming until the daemon has
   applied it or filed its failure in mailbox/failed (drain_mailbox), whatever
   crashes and whatever fails. *)
THEOREM CommandsKept == Spec => []MailboxKept
<1>1. IInv => MailboxKept
  BY DEF IInv
<1>2. QED
  BY <1>1, AlwaysIInv, PTL

-----------------------------------------------------------------------------
(* Runs, workers and pauses.  What follows is stronger than the invariant   *)
(* above and part of it holds only until an update is lost (`clean`).       *)

(* A run is of an item of its plane. *)
Homed(s) == \A p \in Planes : s.run[p] # None => PlaneOf[s.run[p]] = p

(* The items of all runs but those of `except` are in their active directory. *)
OwnsBut(s, except) == \A p \in ActivePlanes(s) \ except : place[s.run[p]] = "active"

(* An operator in the middle of a retry or a clear-stale has taken the item of
   the run of p away and will take the run out of the saved snapshot. *)
Excused(p) ==
  \E o \in Operators : \/ op[o].pc \in {"unlock", "reset"}
                       \/ op[o].pc = "retry" /\ op[o].plane = p

(* Where the daemon has taken up work in this cycle. *)
Busy == {"dispatch", "claim", "activate", "launch", "collect", "settle"}

(* Every run is of its plane, in each copy of the snapshot. *)
Homes ==
  /\ Homed(mem) /\ Homed(saved) /\ \A o \in Operators : Homed(op[o].snap)
  /\ pc = "activate" => PlaneOf[item] = lane

(* A daemon holds the lock, and its copy says that it runs. *)
Process ==
  /\ pc # "off" <=> lock = "held"
  /\ pc \in {"save", "intake", "drain", "archive", "reject", "govern", "loop"} \cup Busy => mem.running

(* A worker has a run to work for. *)
Workers ==
  /\ pc \notin Busy => worker = {}
  /\ pc = "dispatch" /\ "planning" \in ActivePlanes(mem) \ worker => worker = {}
  /\ worker \subseteq ActivePlanes(mem)
  /\ pc = "settle" => lane \in worker
  /\ pc = "launch" => mem.run[lane] # None

(* Whose items the runs have. *)
Owned ==
  /\ pc = "activate" => place[item] = "active"
  /\ pc \notin {"off", "load", "release"} => OwnsBut(mem, IF pc = "settle" THEN {lane} ELSE {})
  /\ pc \in {"load", "detect", "save", "release"} => OwnsBut(saved, {})
  /\ pc = "close" /\ ~mem.running => ActivePlanes(saved) = {}
  /\ lock = "absent" => OwnsBut(saved, {p \in Planes : Excused(p)})

(* Where a pause is, from its acknowledgement on. *)
Paused ==
  /\ lock = "absent" /\ (\A o \in Operators : op[o].pc # "reset") => "Operator" \in saved.pause
  /\ pc \in {"load", "detect", "save", "release"} => "Operator" \in saved.pause
  /\ pc \in {"detect", "save", "intake", "drain", "archive", "reject", "govern", "loop",
             "close"} =>
       "Operator" \in mem.pause
  /\ pc \notin Busy
  /\ pc = "close" => mem.running

(* A retry that took out its run would find none in this snapshot. *)
Served(s, c) ==
  IF issued[c].scope = "any" THEN ActivePlanes(s) = {} ELSE issued[c].scope \notin ActivePlanes(s)

(* The drain works on commands whose files are there, and only a command that
   was issued has requeued anything. *)
Listing ==
  /\ listed \subseteq pending
  /\ pc \in {"archive", "reject"} => cmd \in listed
  /\ \A c \in Ids : requeued[c] # 0 => c \in 1..Len(issued)

(* A retry that requeued and was not archived. *)
Unarchived(c) == c \in pending /\ requeued[c] # 0

(* It is served before anything runs, and requeues nothing when it is applied again. *)
ServedOnce ==
  \A c \in Ids :
    /\ requeued[c] <= 1
    /\ Unarchived(c) =>
         /\ Served(saved, c) /\ Served(mem, c)
         /\ pc \in {"drain", "archive", "reject"} => c \in listed
         /\ pc \notin Busy \cup {"govern", "loop"}

(* All of it, as long as no update was lost and no move was left half done. *)
Kept ==
  /\ Listing
  /\ clean => Owned /\ ServedOnce
  /\ clean /\ held => Paused


-----------------------------------------------------------------------------
(* What the operators on snapshots do to runs, to the pause and to the mark *)
(* of a running process                                                     *)

(* reset_runtime_to_idle leaves no run. *)
LEMMA ResetFacts ==
  ASSUME NEW s, NEW running, NEW clears \in BOOLEAN
  PROVE  LET t == Reset(s, running, clears)
         IN  /\ \A p \in Planes : t.run[p] = None
             /\ ActivePlanes(t) = {} /\ t.running = running
             /\ ~clears => t.pause = s.pause
  BY DEF Reset, NoRuns, ActivePlanes

(* Clearing the run of a plane keeps the others. *)
LEMMA ClearFacts ==
  ASSUME NEW s \in Snapshots, NEW p \in Planes
  PROVE  LET t == ClearRun(s, p)
         IN  /\ t.run[p] = None /\ \A q \in Planes \ {p} : t.run[q] = s.run[q]
             /\ ActivePlanes(t) = ActivePlanes(s) \ {p}
             /\ t.running = s.running /\ t.pause = s.pause
  BY DEF ClearRun, Snapshots, ActivePlanes

(* The repair stage works for the same run. *)
LEMMA RepairFacts ==
  ASSUME NEW s \in Snapshots, NEW p \in Planes
  PROVE  LET t == ToRepair(s, p)
         IN  t.run = s.run /\ t.running = s.running /\ t.pause = s.pause
             /\ ActivePlanes(t) = ActivePlanes(s)
  BY DEF ToRepair, Snapshots, ActivePlanes

(* clear_retry_active_plane leaves the other runs or none, and the pause. *)
LEMMA WithoutFacts ==
  ASSUME NEW s \in Snapshots, NEW p \in Planes, NEW running \in BOOLEAN
  PROVE  LET t == WithoutRun(s, p, running)
         IN  /\ t.run[p] = None /\ \A q \in Planes : t.run[q] = s.run[q] \/ t.run[q] = None
             /\ ActivePlanes(t) \subseteq ActivePlanes(s) \ {p}
             /\ t.pause = s.pause
             /\ s.running /\ running => t.running
<1> DEFINE u == ClearRun(s, p)
<1>1. /\ u.run[p] = None /\ \A q \in Planes \ {p} : u.run[q] = s.run[q]
      /\ ActivePlanes(u) = ActivePlanes(s) \ {p}
      /\ u.running = s.running /\ u.pause = s.pause
  BY ClearFacts
<1>2. CASE ActivePlanes(u) = {}
  <2>1. WithoutRun(s, p, running) = Reset(s, running, FALSE)
    BY <1>2 DEF WithoutRun
  <2> DEFINE t == WithoutRun(s, p, running)
  <2>2. /\ \A q \in Planes : t.run[q] = None
        /\ ActivePlanes(t) = {} /\ t.running = running /\ t.pause = s.pause
    BY <2>1 DEF Reset, NoRuns, ActivePlanes
  <2> HIDE DEF t
  <2>3. t.run[p] = None /\ \A q \in Planes : t.run[q] = None
    BY <2>2
  <2>4. ActivePlanes(t) \subseteq ActivePlanes(s) \ {p}
    BY <2>2
  <2>5. s.running /\ running => t.running
    BY <2>2, Zenon
  <2>6. QED
    BY <2>2, <2>3, <2>4, <2>5 DEF t
<1>3. CASE ActivePlanes(u) # {}
  <2>1. WithoutRun(s, p, running) = u
    BY <1>3 DEF WithoutRun
  <2> HIDE DEF u
  <2>2. QED
    BY <1>1, <2>1
<1>4. QED
  BY <1>2, <1>3

(* A snapshot that differs in flags only has the same runs. *)
LEMMA FlagsFacts ==
  ASSUME NEW s \in Snapshots, NEW x
  PROVE  /\ [s EXCEPT !.running = x].run = s.run /\ [s EXCEPT !.running = x].running = x
         /\ [s EXCEPT !.running = x].pause = s.pause
         /\ [s EXCEPT !.stop = x].run = s.run /\ [s EXCEPT !.stop = x].running = s.running
         /\ [s EXCEPT !.stop = x].pause = s.pause
         /\ [s EXCEPT !.pause = x].run = s.run /\ [s EXCEPT !.pause = x].running = s.running
         /\ [s EXCEPT !.pause = x].pause = x
  BY DEF Snapshots

(* An evaluation of the usage rules never takes the pause of the operator. *)
LEMMA UsageFacts ==
  ASSUME mem \in Snapshots, EvaluateUsage
  PROVE  /\ mem'.run = mem.run /\ mem'.running = mem.running
         /\ "Operator" \in mem.pause => "Operator" \in mem'.pause
         /\ ActivePlanes(mem') = ActivePlanes(mem)
  BY DEF EvaluateUsage, Snapshots, ActivePlanes

(* What is said of runs depends on nothing else of a snapshot. *)
LEMMA SameRuns ==
  ASSUME NEW s, NEW t, t.run = s.run
  PROVE  ActivePlanes(t) = ActivePlanes(s) /\ (Homed(s) => Homed(t))
  BY DEF ActivePlanes, Homed

-----------------------------------------------------------------------------
(* What the steps do to the snapshots *)

(* The empty snapshot of a process that is gone. *)
LEMMA FreshFacts ==
  /\ \A p \in Planes : Fresh.run[p] = None
  /\ ActivePlanes(Fresh) = {}
  BY DEF Fresh, NoRuns, ActivePlanes

(* Startup keeps the runs and the pause. *)
LEMMA DetectEffect ==
  ASSUME IInv, Detect
  PROVE  mem'.run = mem.run /\ mem'.running /\ mem'.pause = mem.pause /\ UNCHANGED saved
<1>1. mem \in Snapshots /\ "planning" \in Planes
  BY DEF IInv, Sound, Planes
<1>2. Resumed \in Snapshots /\ Resumed.run = mem.run /\ Resumed.pause = mem.pause
  BY <1>1, RepairFacts, RepairSound DEF Resumed, IInv, Sound
<1>3. QED
  BY <1>2, FlagsFacts DEF Detect

(* An activation adds the run of the lane. *)
LEMMA ActivateEffect ==
  ASSUME IInv, Activate
  PROVE  /\ mem'.run = [mem.run EXCEPT ![lane] = item] /\ mem.run \in [Planes -> Items \cup {None}]
         /\ mem'.running = mem.running /\ mem'.pause = mem.pause
         /\ ActivePlanes(mem') = ActivePlanes(mem) \cup {lane} /\ item # None
<1>1. mem \in Snapshots /\ lane \in Planes /\ item \in Items /\ item # None
  BY ConstantsAssumption DEF IInv, TypeOK, Activate
<1>2. /\ mem'.run = [mem.run EXCEPT ![lane] = item] /\ mem.run \in [Planes -> Items \cup {None}]
      /\ mem'.running = mem.running /\ mem'.pause = mem.pause
  BY <1>1 DEF Activate, Snapshots
<1>3. ActivePlanes(mem') = ActivePlanes(mem) \cup {lane}
  BY <1>1, <1>2 DEF ActivePlanes
<1>4. QED
  BY <1>1, <1>2, <1>3

(* The close keeps the runs, and saves them if the process was marked running. *)
LEMMA CloseEffect ==
  ASSUME IInv, CloseSave
  PROVE  /\ mem'.run = mem.run /\ mem'.pause = mem.pause
         /\ mem.running => saved' = mem'
         /\ ~mem.running => saved' = saved
<1>1. mem \in Snapshots
  BY DEF IInv, TypeOK
<1>2. CASE mem.running
  <2>1. mem' = [mem EXCEPT !.running = FALSE] /\ saved' = mem'
    BY <1>2, Zenon DEF CloseSave
  <2>2. mem'.run = mem.run /\ mem'.pause = mem.pause
    BY <1>1, <2>1 DEF Snapshots
  <2>3. QED
    BY <1>2, <2>1, <2>2, Zenon
<1>3. CASE ~mem.running
  BY <1>3, Zenon DEF CloseSave
<1>4. QED
  BY <1>2, <1>3, Zenon

(* A command removes runs; only pause and resume touch the operator's pause. *)
LEMMA ApplyEffect ==
  ASSUME IInv, NEW c \in listed, cmd' = c, ApplyCommand(c)
  PROVE  /\ mem'.run = mem.run \/ \A p \in Planes : mem'.run[p] = mem.run[p] \/ mem'.run[p] = None
         /\ ActivePlanes(mem') \subseteq ActivePlanes(mem)
         /\ saved' = saved \/ saved' = mem'
         /\ mem.running => mem'.running
         /\ held' => "Operator" \in mem'.pause \/ (held /\ mem'.pause = mem.pause)
<1>1. mem \in Snapshots /\ saved \in Snapshots
  BY DEF IInv, TypeOK
<1>2. CASE issued[c].kind \in {"pause", "resume", "stop"}
  <2>1. mem'.run = mem.run /\ mem'.running = mem.running /\ saved' = saved
        /\ (held' => "Operator" \in mem'.pause \/ (held /\ mem'.pause = mem.pause))
    <3>1. CASE issued[c].kind = "pause"
      <4>1. mem' = [mem EXCEPT !.pause = mem.pause \cup {"Operator"}] /\ saved' = saved
        BY <3>1 DEF ApplyCommand
      <4>2. mem'.run = mem.run /\ mem'.running = mem.running /\ "Operator" \in mem'.pause
        BY <1>1, <4>1 DEF Snapshots
      <4>3. QED
        BY <4>1, <4>2, Zenon
    <3>2. CASE issued[c].kind = "resume"
      <4>1. mem' = [mem EXCEPT !.pause = mem.pause \ {"Operator"}] /\ saved' = saved /\ held' = FALSE
        BY <3>2 DEF ApplyCommand
      <4>2. mem'.run = mem.run /\ mem'.running = mem.running
        BY <1>1, <4>1 DEF Snapshots
      <4>3. QED
        BY <4>1, <4>2, Zenon
    <3>3. CASE issued[c].kind = "stop"
      <4>1. mem' = [mem EXCEPT !.stop = TRUE] /\ saved' = saved /\ held' = held
        BY <3>3 DEF ApplyCommand
      <4>2. mem'.run = mem.run /\ mem'.running = mem.running /\ mem'.pause = mem.pause
        BY <1>1, <4>1 DEF Snapshots
      <4>3. QED
        BY <4>1, <4>2, Zenon
    <3>4. QED
      BY <1>2, <3>1, <3>2, <3>3
  <2>2. QED
    BY <2>1, SameRuns
<1>3. CASE issued[c].kind = "clear_stale_state"
  <2>1. mem' = Reset(mem, TRUE, TRUE) /\ saved' = mem' /\ ~held'
    BY <1>3 DEF ApplyCommand
  <2>2. (\A p \in Planes : mem'.run[p] = None) /\ ActivePlanes(mem') = {} /\ mem'.running
    <3>1. (\A p \in Planes : mem'.run[p] = None) /\ ActivePlanes(mem') = {}
      BY <2>1 DEF Reset, NoRuns, ActivePlanes
    <3>2. mem'.running = TRUE
      BY <2>1 DEF Reset
    <3>3. QED
      BY <3>1, <3>2, Zenon
  <2>3. QED
    BY <2>1, <2>2
<1>4. CASE issued[c].kind = "retry_active"
  <2>1. held' = held /\ (UNCHANGED <<mem, saved>> \/ \E p \in Planes : ApplyRetry(p))
    BY <1>4 DEF ApplyCommand, RetryPlanes, ActivePlanes
  <2>2. CASE UNCHANGED <<mem, saved>>
    BY <2>1, <2>2
  <2>3. ASSUME NEW p \in Planes, ApplyRetry(p), ~UNCHANGED <<mem, saved>>
        PROVE  mem' = WithoutRun(mem, p, TRUE) /\ saved' = mem'
    BY <2>3 DEF ApplyRetry
  <2>4. ASSUME NEW p \in Planes, mem' = WithoutRun(mem, p, TRUE), saved' = mem'
        PROVE  /\ \A q \in Planes : mem'.run[q] = mem.run[q] \/ mem'.run[q] = None
               /\ ActivePlanes(mem') \subseteq ActivePlanes(mem)
               /\ mem.running => mem'.running
               /\ mem'.pause = mem.pause
    BY <1>1, <2>4, WithoutFacts
  <2>5. CASE ~UNCHANGED <<mem, saved>>
    <3>1. PICK p \in Planes : mem' = WithoutRun(mem, p, TRUE) /\ saved' = mem'
      BY <2>1, <2>3, <2>5
    <3>2. QED
      BY <2>1, <2>4, <3>1
  <2>6. QED
    BY <2>2, <2>5
<1>5. issued[c].kind \in Kinds
  BY DEF ApplyCommand, Kinds
<1>6. QED
  BY <1>2, <1>3, <1>4, <1>5 DEF Kinds

(* An application that did nothing or all it should do; pc tells whether it
   returned Ok or an error. *)
Tried ==
  /\ pc = "drain" /\ pc' \in {"archive", "reject"}
  /\ \E c \in listed :
       cmd' = c /\ (ApplyCommand(c) \/ UNCHANGED <<place, mem, saved, requeued, held>>)
  /\ UNCHANGED <<lock, lane, item, worker, op, listed, issued, pending>>

(* One that failed half-way. *)
Halved ==
  /\ pc = "drain" /\ pc' = "reject" /\ clean' = FALSE
  /\ \E c \in listed : cmd' = c /\ HalfApplied(c)
  /\ UNCHANGED <<saved, lock, lane, item, worker, op, listed, issued, pending>>

(* These are all. *)
LEMMA Outcomes == Apply \/ ApplyFails => Tried \/ Halved
<1>1. ASSUME Apply PROVE Tried
  BY <1>1 DEF Apply, Tried, cycle, others
<1>2. ASSUME ApplyFails PROVE Tried \/ Halved
  <2>1. PICK c \in listed :
          /\ cmd' = c
          /\ \/ UNCHANGED <<place, mem, saved, requeued, held, clean>>
             \/ ApplyCommand(c) /\ UNCHANGED clean
             \/ HalfApplied(c) /\ clean' = FALSE /\ UNCHANGED saved
    BY <1>2 DEF ApplyFails
  <2>2. /\ pc = "drain" /\ pc' = "reject"
        /\ UNCHANGED <<lock, lane, item, worker, op, listed, issued, pending>>
    BY <1>2 DEF ApplyFails, cycle
  <2>3. CASE HalfApplied(c) /\ clean' = FALSE /\ UNCHANGED saved
    BY <2>1, <2>2, <2>3 DEF Halved
  <2>4. CASE ApplyCommand(c) \/ UNCHANGED <<place, mem, saved, requeued, held>>
    BY <2>1, <2>2, <2>4 DEF Tried
  <2>5. QED
    BY <2>1, <2>3, <2>4
<1>3. QED
  BY <1>1, <1>2

(* A command that fails half-way removes runs, too. *)
LEMMA HalfEffect ==
  ASSUME IInv, NEW c \in listed, HalfApplied(c)
  PROVE  /\ \A p \in Planes : mem'.run[p] = mem.run[p] \/ mem'.run[p] = None
         /\ mem.running => mem'.running
<1>1. mem \in Snapshots
  BY DEF IInv, TypeOK
<1>2. CASE UNCHANGED mem
  BY <1>2
<1>3. ASSUME NEW p \in Planes, mem' = WithoutRun(mem, p, TRUE)
      PROVE  /\ \A q \in Planes : mem'.run[q] = mem.run[q] \/ mem'.run[q] = None
             /\ mem.running => mem'.running
  BY <1>1, <1>3, WithoutFacts
<1>4. CASE mem' = Reset(mem, TRUE, TRUE)
  <2>1. mem'.running = TRUE /\ \A q \in Planes : mem'.run[q] = None
    BY <1>4 DEF Reset, NoRuns
  <2>2. mem'.running
    BY <2>1, Zenon
  <2>3. QED
    BY <2>1, <2>2
<1>5. \/ UNCHANGED mem
      \/ \E p \in Planes : mem' = WithoutRun(mem, p, TRUE)
      \/ mem' = Reset(mem, TRUE, TRUE)
  BY DEF HalfApplied, RetryPlanes, ActivePlanes
<1>6. QED
  BY <1>2, <1>3, <1>4, <1>5

-----------------------------------------------------------------------------
(* The runs have their planes, the process its lock *)

(* A direct save that loses no update is over the snapshot it loaded, with no daemon. *)
LEMMA DirectEffect ==
  ASSUME IInv, NEW o \in Operators, NEW s, DirectSave(o, s)
  PROVE  /\ saved' = s /\ op' = [op EXCEPT ![o] = Idle] /\ op'[o] = Idle
         /\ \A q \in Operators \ {o} : op'[q] = op[q]
         /\ Idle.pc = "idle" /\ Idle.snap = Fresh
         /\ clean' => clean /\ lock # "held" /\ op[o].snap = saved
         /\ UNCHANGED <<mem, pc, listed, cmd, exit, recon, lane, item, worker,
                        issued, pending, requeued>>
<1>1. op \in [Operators -> OperatorRecords]
  BY DEF IInv, TypeOK
<1>2. clean' = (clean /\ Safe(o))
  BY DEF DirectSave
<1>3. clean' => clean /\ Safe(o)
  BY <1>2, Zenon
<1>4. QED
  BY <1>1, <1>3 DEF DirectSave, Safe, daemon, cycle, Idle

(* The snapshot a direct handler saves: the one it loaded, with fewer runs. *)
LEMMA DirectSnapshots ==
  ASSUME IInv, NEW o \in Operators
  PROVE  /\ \A s : s = [op[o].snap EXCEPT !.pause = s.pause] => s.run = op[o].snap.run
         /\ OpRetrySave(o) =>
              \A q \in Planes : saved'.run[q] = op[o].snap.run[q] \/ saved'.run[q] = None
         /\ OpStop(o) \/ OpClearReset(o) => \A q \in Planes : saved'.run[q] = None
<1>1. op[o].snap \in Snapshots /\ op[o].plane \in Planes
  BY DEF IInv, TypeOK, OperatorRecords
<1>2. \A s : s = [op[o].snap EXCEPT !.pause = s.pause] => s.run = op[o].snap.run
  BY <1>1 DEF Snapshots
<1>3. ASSUME OpRetrySave(o)
      PROVE  \A q \in Planes : saved'.run[q] = op[o].snap.run[q] \/ saved'.run[q] = None
  <2>1. saved' = WithoutRun(op[o].snap, op[o].plane, FALSE)
    BY <1>3 DEF OpRetrySave, DirectSave
  <2>2. QED
    BY <1>1, <2>1, WithoutFacts
<1>4. ASSUME OpStop(o) \/ OpClearReset(o) PROVE \A q \in Planes : saved'.run[q] = None
  <2>1. saved' = Reset(op[o].snap, FALSE, TRUE)
    BY <1>4 DEF OpStop, OpClearReset, DirectSave
  <2>2. QED
    BY <2>1 DEF Reset, NoRuns
<1>5. QED
  BY <1>2, <1>3, <1>4

(* A direct pause or resume saves the runs it loaded. *)
LEMMA DirectPauses ==
  ASSUME IInv, NEW o \in Operators, OpPause(o) \/ OpResume(o)
  PROVE  saved'.run = op[o].snap.run /\ DirectSave(o, saved')
<1>1. op[o].snap \in Snapshots
  BY DEF IInv, TypeOK, OperatorRecords
<1>2. CASE OpPause(o)
  <2>1. DirectSave(o, [op[o].snap EXCEPT !.pause = op[o].snap.pause \cup {"Operator"}])
    BY <1>2 DEF OpPause
  <2>2. saved' = [op[o].snap EXCEPT !.pause = op[o].snap.pause \cup {"Operator"}]
    BY <2>1 DEF DirectSave
  <2>3. QED
    BY <1>1, <2>1, <2>2 DEF Snapshots
<1>3. CASE OpResume(o)
  <2> DEFINE set == (op[o].snap.pause \cup (IF governed THEN {"UsageGovernance"} ELSE {})) \ {"Operator"}
  <2>1. DirectSave(o, [op[o].snap EXCEPT !.pause = set])
    BY <1>3 DEF OpResume
  <2>2. saved' = [op[o].snap EXCEPT !.pause = set]
    BY <2>1 DEF DirectSave
  <2> HIDE DEF set
  <2>3. QED
    BY <1>1, <2>1, <2>2 DEF Snapshots
<1>4. QED
  BY <1>2, <1>3

(* What every step of an operator leaves alone. *)
LEMMA OperatorFrame ==
  ASSUME NEW o \in Operators, OperatorStep(o)
  PROVE  UNCHANGED <<mem, pc, listed, cmd, exit, recon, lane, item, worker, applied, requeued>>
  BY DEF OperatorStep, OpLoad, OpInspect, OpEnqueue, OpPause, OpResume, OpStop, OpRetryMove,
     OpRetrySkip, OpRetrySave, OpClearRequeue, OpClearLock, OpClearReset, OpCrash,
     DirectSave, daemon, cycle, history

(* Two copies with the same runs, or fewer. *)
LEMMA HomedFewer ==
  ASSUME NEW s, NEW t, Homed(s), \A p \in Planes : t.run[p] = s.run[p] \/ t.run[p] = None
  PROVE  Homed(t)
  BY DEF Homed

(* The operators copy what is saved. *)
LEMMA OperatorHomes ==
  ASSUME IInv, Homes, NEW o \in Operators, OperatorStep(o)
  PROVE  Homes'
<1>1. UNCHANGED <<mem, pc, lane, item>>
  BY OperatorFrame
<1>2. Homed(Fresh) /\ Homed(Idle.snap)
  BY FreshFacts DEF Homed, Idle
<1>3. op \in [Operators -> OperatorRecords] /\ Homed(op[o].snap)
  BY DEF IInv, TypeOK, Homes
<1>4. SUFFICES Homed(saved)' /\ \A q \in Operators : Homed(op'[q].snap)
  BY <1>1 DEF Homes, Homed
<1>5. CASE OpLoad(o)
  <2>1. PICK c \in Commands : op' = [op EXCEPT ![o] = [Idle EXCEPT !.pc = "loaded", !.command = c, !.snap = saved]]
    BY <1>5 DEF OpLoad
  <2>2. op'[o].snap = saved /\ \A q \in Operators \ {o} : op'[q] = op[q]
    BY <1>3, <2>1 DEF Idle
  <2>3. QED
    BY <1>5, <2>2 DEF Homes, OpLoad, Homed
<1>6. CASE OpInspect(o)
  <2>1. \A q \in Operators : op'[q].snap \in {op[q].snap, Fresh}
    BY <1>3, <1>6 DEF OpInspect, OperatorRecords
  <2>2. \A q \in Operators : Homed(op'[q].snap)
    BY <1>2, <2>1 DEF Homes
  <2>3. Homed(saved)'
    BY <1>6 DEF Homes, OpInspect, Homed
  <2>4. QED
    BY <2>2, <2>3
<1>7. CASE OpEnqueue(o) \/ OpRetrySkip(o) \/ OpCrash(o)
  <2>1. op' = [op EXCEPT ![o] = Idle] /\ saved' = saved
    BY <1>7 DEF OpEnqueue, OpRetrySkip, OpCrash
  <2>2. QED
    BY <1>2, <1>3, <2>1 DEF Homes, Homed
<1>8. CASE OpRetryMove(o) \/ OpClearRequeue(o) \/ OpClearLock(o)
  <2>1. saved' = saved /\ \A q \in Operators : op'[q].snap = op[q].snap
    BY <1>3, <1>8 DEF OpRetryMove, OpClearRequeue, OpClearLock, OperatorRecords
  <2>2. QED
    BY <2>1 DEF Homes, Homed
<1>9. ASSUME NEW s, DirectSave(o, s), Homed(s)
      PROVE  Homed(saved)' /\ \A q \in Operators : Homed(op'[q].snap)
  BY <1>2, <1>9, DirectEffect DEF Homes, Homed
<1>10. CASE OpPause(o) \/ OpResume(o)
  BY <1>3, <1>9, <1>10, DirectPauses, SameRuns
<1>11. CASE OpStop(o) \/ OpClearReset(o)
  <2>1. \A q \in Planes : saved'.run[q] = None
    BY <1>11, DirectSnapshots
  <2>2. DirectSave(o, saved')
    BY <1>11 DEF OpStop, OpClearReset, DirectSave
  <2>3. QED
    BY <1>9, <2>1, <2>2 DEF Homed
<1>12. CASE OpRetrySave(o)
  <2>1. \A q \in Planes : saved'.run[q] = op[o].snap.run[q] \/ saved'.run[q] = None
    BY <1>12, DirectSnapshots
  <2>2. DirectSave(o, saved')
    BY <1>12 DEF OpRetrySave, DirectSave
  <2>3. QED
    BY <1>3, <1>9, <2>1, <2>2, HomedFewer
<1>13. QED
  BY <1>5, <1>6, <1>7, <1>8, <1>10, <1>11, <1>12 DEF OperatorStep

(* Runs, workers and the process, together. *)
Lanes == Homes /\ Process /\ Workers

(* The lock is taken before anything is loaded. *)
LEMMA AcquireLanes == ASSUME IInv, Lanes, Acquire PROVE Lanes'
<1>1. UNCHANGED <<mem, saved>>
  BY DEF Acquire
<1>2. Homes'
  BY <1>1 DEF Lanes, Homes, Homed, others, Acquire
<1>3. Process'
  BY <1>1 DEF Lanes, Process, Busy, Acquire
<1>4. Workers'
  BY <1>1 DEF Lanes, Workers, Busy, cycle, ActivePlanes, First, Before, Planes, Acquire
<1>5. QED
  BY <1>2, <1>3, <1>4 DEF Lanes

(* The session starts without workers from the saved runs. *)
LEMMA LoadLanes == ASSUME IInv, Lanes, Load PROVE Lanes'
<1>1. mem' = saved /\ UNCHANGED saved
  BY DEF Load
<1>2. Homes'
  BY <1>1 DEF Lanes, Homes, Homed, others, Load
<1>3. Process'
  BY <1>1 DEF Lanes, Process, Busy, Load
<1>4. Workers'
  BY <1>1 DEF Lanes, Workers, Busy, cycle, ActivePlanes, First, Before, Planes, Load
<1>5. QED
  BY <1>2, <1>3, <1>4 DEF Lanes

(* Startup adds no run and marks the process running. *)
LEMMA DetectLanes == ASSUME IInv, Lanes, Detect PROVE Lanes'
<1>1. mem'.run = mem.run /\ mem'.running /\ UNCHANGED saved
  BY DetectEffect
<1>2. Homes'
  BY <1>1 DEF Lanes, Homes, Homed, others, Detect
<1>3. Process'
  BY <1>1 DEF Lanes, Process, Busy, Detect
<1>4. Workers'
  BY <1>1 DEF Lanes, Workers, Busy, cycle, ActivePlanes, First, Before, Planes, Detect
<1>5. QED
  BY <1>2, <1>3, <1>4 DEF Lanes

(* What is saved at startup is the copy of the session. *)
LEMMA SaveStartupLanes == ASSUME IInv, Lanes, SaveStartup PROVE Lanes'
<1>1. saved' = mem /\ UNCHANGED mem
  BY DEF SaveStartup
<1>2. Homes'
  BY <1>1 DEF Lanes, Homes, Homed, others, SaveStartup
<1>3. Process'
  BY <1>1 DEF Lanes, Process, Busy, SaveStartup
<1>4. Workers'
  BY <1>1 DEF Lanes, Workers, Busy, cycle, ActivePlanes, First, Before, Planes, SaveStartup
<1>5. QED
  BY <1>2, <1>3, <1>4 DEF Lanes

(* A drain begins. *)
LEMMA IntakeLanes == ASSUME IInv, Lanes, Intake PROVE Lanes'
<1>1. UNCHANGED <<mem, saved>>
  BY DEF Intake
<1>2. Homes'
  BY <1>1 DEF Lanes, Homes, Homed, others, Intake
<1>3. Process'
  BY <1>1 DEF Lanes, Process, Busy, Intake
<1>4. Workers'
  BY <1>1 DEF Lanes, Workers, Busy, cycle, ActivePlanes, First, Before, Planes, Intake
<1>5. QED
  BY <1>2, <1>3, <1>4 DEF Lanes

(* A command is archived. *)
LEMMA ArchiveLanes == ASSUME IInv, Lanes, Archive PROVE Lanes'
<1>1. UNCHANGED <<mem, saved>>
  BY DEF Archive
<1>2. Homes'
  BY <1>1 DEF Lanes, Homes, Homed, others, Archive
<1>3. Process'
  BY <1>1 DEF Lanes, Process, Busy, Archive
<1>4. Workers'
  BY <1>1 DEF Lanes, Workers, Busy, cycle, ActivePlanes, First, Before, Planes, Archive
<1>5. QED
  BY <1>2, <1>3, <1>4 DEF Lanes

(* A command that failed is. *)
LEMMA RejectLanes == ASSUME IInv, Lanes, Reject PROVE Lanes'
<1>1. UNCHANGED <<mem, saved>>
  BY DEF Reject
<1>2. Homes'
  BY <1>1 DEF Lanes, Homes, Homed, others, Reject
<1>3. Process'
  BY <1>1 DEF Lanes, Process, Busy, Reject
<1>4. Workers'
  BY <1>1 DEF Lanes, Workers, Busy, cycle, ActivePlanes, First, Before, Planes, Reject
<1>5. QED
  BY <1>2, <1>3, <1>4 DEF Lanes

(* A drain ends. *)
LEMMA EndDrainLanes == ASSUME IInv, Lanes, EndDrain PROVE Lanes'
<1>1. saved' = mem /\ UNCHANGED mem
  BY DEF EndDrain
<1>2. Homes'
  BY <1>1 DEF Lanes, Homes, Homed, others, EndDrain
<1>3. Process'
  BY <1>1 DEF Lanes, Process, Busy, EndDrain
<1>4. Workers'
  BY <1>1 DEF Lanes, Workers, Busy, cycle, ActivePlanes, First, Before, Planes, EndDrain
<1>5. QED
  BY <1>2, <1>3, <1>4 DEF Lanes

(* An evaluation of the usage rules keeps the runs. *)
LEMMA GovernLanes == ASSUME IInv, Lanes, Govern PROVE Lanes'
<1>1. mem'.run = mem.run /\ mem'.running = mem.running /\ saved' \in {saved, mem'}
  BY UsageFacts DEF IInv, Sound, Govern
<1>2. Homes'
  BY <1>1 DEF Lanes, Homes, Homed, others, Govern
<1>3. Process'
  BY <1>1 DEF Lanes, Process, Busy, Govern
<1>4. Workers'
  BY <1>1 DEF Lanes, Workers, Busy, cycle, ActivePlanes, First, Before, Planes, Govern
<1>5. QED
  BY <1>2, <1>3, <1>4 DEF Lanes

(* A worker is started for a run; planning comes first. *)
LEMMA LaunchActiveLanes == ASSUME IInv, Lanes, LaunchActive PROVE Lanes'
<1>1. saved' = mem /\ UNCHANGED mem
  BY DEF LaunchActive
<1>2. Homes'
  BY <1>1 DEF Lanes, Homes, Homed, others, LaunchActive
<1>3. Process'
  BY <1>1 DEF Lanes, Process, Busy, LaunchActive
<1>4. Workers'
  BY <1>1 DEF Lanes, Workers, Busy, cycle, ActivePlanes, First, Before, Planes, LaunchActive
<1>5. QED
  BY <1>2, <1>3, <1>4 DEF Lanes

(* A misfit of the planning lane is found before any worker is started. *)
LEMMA DisownLanes == ASSUME IInv, Lanes, Disown PROVE Lanes'
<1>1. (\A p \in Planes : mem'.run[p] = None) /\ ActivePlanes(mem') = {} /\ mem'.running = TRUE /\ saved' = mem'
  BY DEF Reset, NoRuns, ActivePlanes, Disown
<1>2. Homes'
  BY <1>1 DEF Lanes, Homes, Homed, others, Disown
<1>3. Process'
  BY <1>1 DEF Lanes, Process, Busy, Disown
<1>4. Workers'
  <2>1. "planning" \in ActivePlanes(mem) \ worker /\ pc = "dispatch"
    BY DEF Disown, Misfit, First
  <2>2. worker' = {} /\ pc' \notin {"dispatch", "settle", "launch"}
    BY <2>1 DEF Disown, Lanes, Workers
  <2>3. QED
    BY <2>2 DEF Workers
<1>5. QED
  BY <1>2, <1>3, <1>4 DEF Lanes

(* The runs all have workers when the claims begin. *)
LEMMA StartClaimsLanes == ASSUME IInv, Lanes, StartClaims PROVE Lanes'
<1>1. UNCHANGED <<mem, saved>>
  BY DEF StartClaims
<1>2. Homes'
  BY <1>1 DEF Lanes, Homes, Homed, others, StartClaims
<1>3. Process'
  BY <1>1 DEF Lanes, Process, Busy, StartClaims
<1>4. Workers'
  BY <1>1 DEF Lanes, Workers, Busy, cycle, ActivePlanes, First, Before, Planes, StartClaims
<1>5. QED
  BY <1>2, <1>3, <1>4 DEF Lanes

(* A claim is for the lane of its item. *)
LEMMA ClaimMoveLanes == ASSUME IInv, Lanes, ClaimMove PROVE Lanes'
<1>1. UNCHANGED <<mem, saved>>
  BY DEF ClaimMove
<1>2. Homes'
  BY <1>1 DEF Lanes, Homes, Homed, others, ClaimMove, Claimable
<1>3. Process'
  BY <1>1 DEF Lanes, Process, Busy, ClaimMove
<1>4. Workers'
  BY <1>1 DEF Lanes, Workers, Busy, cycle, ActivePlanes, First, Before, Planes, ClaimMove
<1>5. QED
  BY <1>2, <1>3, <1>4 DEF Lanes

(* A lane without a claim passes the turn on. *)
LEMMA NoClaimLanes == ASSUME IInv, Lanes, NoClaim PROVE Lanes'
<1>1. saved' \in {saved, mem} /\ UNCHANGED mem
  BY DEF NoClaim
<1>2. Homes'
  BY <1>1 DEF Lanes, Homes, Homed, others, NoClaim
<1>3. Process'
  BY <1>1 DEF Lanes, Process, Busy, NoClaim
<1>4. Workers'
  BY <1>1 DEF Lanes, Workers, Busy, cycle, ActivePlanes, First, Before, Planes, NoClaim
<1>5. QED
  BY <1>2, <1>3, <1>4 DEF Lanes

(* The claimed run gets its worker. *)
LEMMA LaunchLanes == ASSUME IInv, Lanes, Launch PROVE Lanes'
<1>1. saved' = mem /\ UNCHANGED mem
  BY DEF Launch
<1>2. Homes'
  BY <1>1 DEF Lanes, Homes, Homed, others, Launch
<1>3. Process'
  BY <1>1 DEF Lanes, Process, Busy, Launch
<1>4. Workers'
  <2>1. lane \in ActivePlanes(mem)
    BY DEF Lanes, Workers, Launch, IInv, TypeOK, ActivePlanes
  <2>2. ActivePlanes(mem') = ActivePlanes(mem) /\ pc' \in {"collect", "claim"}
    BY <1>1 DEF Launch
  <2>3. QED
    BY <2>1, <2>2 DEF Lanes, Workers, Busy, Launch
<1>5. QED
  BY <1>2, <1>3, <1>4 DEF Lanes

(* A next stage keeps run and worker. *)
LEMMA RunStageLanes == ASSUME IInv, Lanes, RunStage PROVE Lanes'
<1>1. mem'.run = mem.run /\ mem'.running = mem.running /\ saved' = mem'
  BY UsageFacts DEF IInv, Sound, RunStage
<1>2. Homes'
  BY <1>1 DEF Lanes, Homes, Homed, others, RunStage
<1>3. Process'
  BY <1>1 DEF Lanes, Process, Busy, RunStage
<1>4. Workers'
  BY <1>1 DEF Lanes, Workers, Busy, cycle, ActivePlanes, First, Before, Planes, RunStage
<1>5. QED
  BY <1>2, <1>3, <1>4 DEF Lanes

(* A move of an item keeps the run and its worker. *)
LEMMA SettleMoveLanes == ASSUME IInv, Lanes, SettleMove PROVE Lanes'
<1>1. mem'.run = mem.run /\ mem'.running = mem.running /\ saved' = mem'
  BY UsageFacts DEF IInv, Sound, SettleMove
<1>2. Homes'
  BY <1>1 DEF Lanes, Homes, Homed, others, SettleMove
<1>3. Process'
  BY <1>1 DEF Lanes, Process, Busy, SettleMove
<1>4. Workers'
  BY <1>1 DEF Lanes, Workers, Busy, cycle, ActivePlanes, First, Before, Planes, SettleMove
<1>5. QED
  BY <1>2, <1>3, <1>4 DEF Lanes

(* A cycle ends without workers. *)
LEMMA EndCycleLanes == ASSUME IInv, Lanes, EndCycle PROVE Lanes'
<1>1. UNCHANGED <<mem, saved>>
  BY DEF EndCycle
<1>2. Homes'
  BY <1>1 DEF Lanes, Homes, Homed, others, EndCycle
<1>3. Process'
  BY <1>1 DEF Lanes, Process, Busy, EndCycle
<1>4. Workers'
  BY <1>1 DEF Lanes, Workers, Busy, cycle, ActivePlanes, First, Before, Planes, EndCycle
<1>5. QED
  BY <1>2, <1>3, <1>4 DEF Lanes

(* The loop goes on or closes. *)
LEMMA NextIterationLanes == ASSUME IInv, Lanes, NextIteration PROVE Lanes'
<1>1. UNCHANGED <<mem, saved>>
  BY DEF NextIteration
<1>2. Homes'
  BY <1>1 DEF Lanes, Homes, Homed, others, NextIteration
<1>3. Process'
  BY <1>1 DEF Lanes, Process, Busy, NextIteration
<1>4. Workers'
  BY <1>1 DEF Lanes, Workers, Busy, cycle, ActivePlanes, First, Before, Planes, NextIteration
<1>5. QED
  BY <1>2, <1>3, <1>4 DEF Lanes

(* A command takes runs out when no worker works. *)
LEMMA ApplyLanes == ASSUME IInv, Lanes, Tried \/ Halved PROVE Lanes'
<1>2. /\ \A p \in Planes : mem'.run[p] = mem.run[p] \/ mem'.run[p] = None
      /\ saved' \in {saved, mem'} /\ (mem.running => mem'.running)
  <2>1. CASE Tried
    <3>1. PICK c \in listed :
            cmd' = c /\ (ApplyCommand(c) \/ UNCHANGED <<place, mem, saved, requeued, held>>)
      BY <2>1 DEF Tried
    <3>2. QED
      BY <3>1, ApplyEffect
  <2>2. CASE Halved
    BY <2>2, HalfEffect DEF Halved
  <2>3. QED
    BY <2>1, <2>2
<1>3. pc = "drain" /\ pc' \in {"archive", "reject"} /\ UNCHANGED <<lock, lane, item, worker, op>>
  BY DEF Tried, Halved
<1>4. Homes'
  BY <1>2, <1>3 DEF Lanes, Homes, Homed
<1>5. Process'
  BY <1>2, <1>3 DEF Lanes, Process, Busy
<1>6. Workers'
  BY <1>3 DEF Lanes, Workers, Busy
<1>7. QED
  BY <1>4, <1>5, <1>6 DEF Lanes

(* The new run is of the lane. *)
LEMMA ActivateLanes == ASSUME IInv, Lanes, Activate PROVE Lanes'
<1>1. /\ mem'.run = [mem.run EXCEPT ![lane] = item] /\ mem.run \in [Planes -> Items \cup {None}]
      /\ mem'.running = mem.running
      /\ ActivePlanes(mem') = ActivePlanes(mem) \cup {lane} /\ item # None
  BY ActivateEffect
<1>2. lane \in Planes
  BY DEF IInv, TypeOK
<1>3. /\ pc = "activate" /\ pc' = "launch" /\ saved' = mem'
      /\ UNCHANGED <<lock, lane, worker, op>>
  BY DEF Activate, others
<1>4. Homed(mem')
  <2>1. \A p \in Planes : mem'.run[p] = IF p = lane THEN item ELSE mem.run[p]
    BY <1>1, <1>2
  <2>2. PlaneOf[item] = lane
    BY <1>3 DEF Lanes, Homes
  <2>3. QED
    BY <2>1, <2>2 DEF Lanes, Homes, Homed
<1>5. Homes'
  BY <1>3, <1>4 DEF Lanes, Homes, Homed
<1>6. Process'
  BY <1>1, <1>3 DEF Lanes, Process, Busy
<1>7. Workers'
  BY <1>1, <1>2, <1>3 DEF Lanes, Workers, Busy
<1>8. QED
  BY <1>5, <1>6, <1>7 DEF Lanes

(* A settled run goes with its worker. *)
LEMMA SettleSaveLanes == ASSUME IInv, Lanes, SettleSave PROVE Lanes'
<1>1. mem \in Snapshots /\ lane \in Planes
  BY DEF IInv, TypeOK
<1>2. /\ pc = "settle" /\ pc' = "collect" /\ mem' = ClearRun(mem, lane) /\ saved' = mem'
      /\ worker' = worker \ {lane} /\ UNCHANGED <<lock, op>>
  BY DEF SettleSave, others
<1>3. /\ \A q \in Planes : mem'.run[q] = mem.run[q] \/ mem'.run[q] = None
      /\ ActivePlanes(mem') = ActivePlanes(mem) \ {lane} /\ mem'.running = mem.running
  BY <1>1, <1>2, ClearFacts
<1>4. Homes'
  BY <1>2, <1>3 DEF Lanes, Homes, Homed
<1>5. Process'
  BY <1>2, <1>3 DEF Lanes, Process, Busy
<1>6. Workers'
  BY <1>2, <1>3 DEF Lanes, Workers, Busy
<1>7. QED
  BY <1>4, <1>5, <1>6 DEF Lanes

(* A repair keeps the run and ends the work on it. *)
LEMMA RecoverLanes ==
  ASSUME IInv, Lanes, NEW p \in Planes, pc \in {"collect", "settle"}, RecoverRun(p),
         UNCHANGED <<lock, item, op>>
  PROVE  Lanes'
<1>1. mem \in Snapshots
  BY DEF IInv, TypeOK
<1>2. /\ mem' = ToRepair(mem, p) /\ saved' = mem' /\ worker' \subseteq worker
      /\ \/ pc' = "close" /\ worker' = {}
         \/ pc' = "collect"
  BY DEF RecoverRun
<1>3. mem'.run = mem.run /\ mem'.running = mem.running /\ ActivePlanes(mem') = ActivePlanes(mem)
  BY <1>1, <1>2, RepairFacts
<1>4. Homes'
  BY <1>2, <1>3 DEF Lanes, Homes, Homed
<1>5. Process'
  BY <1>2, <1>3 DEF Lanes, Process, Busy
<1>6. Workers'
  BY <1>2, <1>3 DEF Lanes, Workers, Busy
<1>7. QED
  BY <1>4, <1>5, <1>6 DEF Lanes

(* An exception after the stage. *)
LEMMA SettleFailsLanes == ASSUME IInv, Lanes, SettleFails PROVE Lanes'
<1>1. lane \in Planes
  BY DEF IInv, TypeOK
<1>2. QED
  BY <1>1, RecoverLanes DEF SettleFails

(* An item that is not where the move expects it. *)
LEMMA SettleConflictLanes == ASSUME IInv, Lanes, SettleConflict PROVE Lanes'
<1>1. PICK p \in First(worker) : RecoverRun(p)
  BY DEF SettleConflict
<1>2. p \in Planes
  BY <1>1 DEF First, IInv, TypeOK
<1>3. QED
  BY <1>1, <1>2, RecoverLanes DEF SettleConflict, others

(* A stop leaves the runs or resets a snapshot without any. *)
LEMMA StopRequestedLanes == ASSUME IInv, Lanes, StopRequested PROVE Lanes'
<1>1. \/ \A p \in Planes : mem'.run[p] = None /\ saved' = mem'
      \/ UNCHANGED <<mem, saved>>
  BY DEF StopRequested, Reset, NoRuns
<1>2. pc = "loop" /\ pc' = "close" /\ UNCHANGED <<lock, lane, item, worker, op>>
  BY DEF StopRequested, others
<1>3. Homes'
  BY <1>1, <1>2 DEF Lanes, Homes, Homed, Planes
<1>4. Process' /\ Workers'
  BY <1>2 DEF Lanes, Process, Workers, Busy
<1>5. QED
  BY <1>3, <1>4 DEF Lanes

(* The close keeps the runs. *)
LEMMA CloseSaveLanes == ASSUME IInv, Lanes, CloseSave PROVE Lanes'
<1>1. mem'.run = mem.run /\ saved' \in {saved, mem'}
  BY CloseEffect
<1>2. pc = "close" /\ pc' = "release" /\ UNCHANGED <<lock, lane, item, worker, op>>
  BY DEF CloseSave, others, cycle
<1>3. Homes'
  BY <1>1, <1>2 DEF Lanes, Homes, Homed
<1>4. Process' /\ Workers'
  BY <1>2 DEF Lanes, Process, Workers, Busy
<1>5. QED
  BY <1>3, <1>4 DEF Lanes

(* A process that ends, or fails to start, or dies leaves the lock and the
   saved snapshot. *)
LEMMA EndLanes ==
  ASSUME IInv, Lanes, EndSession, lock' # "held", UNCHANGED saved
  PROVE  Lanes'
<1>1. Homes'
  BY FreshFacts DEF Lanes, Homes, Homed, EndSession
<1>2. Process' /\ Workers'
  BY DEF Process, Workers, Busy, EndSession
<1>3. QED
  BY <1>1, <1>2 DEF Lanes

(* An error of the cycle ends the work. *)
LEMMA CycleFailsLanes == ASSUME IInv, Lanes, CycleFails PROVE Lanes'
<1>1. /\ pc \in {"drain", "archive", "reject", "govern", "dispatch", "claim", "activate", "launch",
                 "collect"}
      /\ pc' = "close" /\ worker' = {} /\ UNCHANGED <<mem, saved, lock, op>>
  BY DEF CycleFails
<1>2. Homes'
  BY <1>1 DEF Lanes, Homes, Homed
<1>3. Process' /\ Workers'
  BY <1>1 DEF Lanes, Process, Workers, Busy
<1>4. QED
  BY <1>2, <1>3 DEF Lanes

(* An operator takes no lock and starts no worker. *)
LEMMA OperatorLanes ==
  ASSUME IInv, Lanes, NEW o \in Operators, OperatorStep(o)
  PROVE  Lanes'
<1>1. UNCHANGED <<mem, pc, lane, item, worker>>
  BY OperatorFrame
<1>2. lock' = lock \/ (lock = "stale" /\ lock' = "absent")
  BY DEF OperatorStep, OpLoad, OpInspect, OpEnqueue, OpPause, OpResume, OpStop, OpRetryMove,
     OpRetrySkip, OpRetrySave, OpClearRequeue, OpClearLock, OpClearReset, OpCrash
<1>3. Homes'
  BY OperatorHomes DEF Lanes
<1>4. Process'
  BY <1>1, <1>2 DEF Lanes, Process
<1>5. Workers'
  BY <1>1 DEF Lanes, Workers
<1>6. QED
  BY <1>3, <1>4, <1>5 DEF Lanes

(* A new workspace has no run, no process and no worker. *)
LEMMA InitLanes == Init => Lanes
<1> SUFFICES ASSUME Init PROVE Lanes
  OBVIOUS
<1>1. Homes
  BY FreshFacts DEF Init, Homes, Homed, Idle
<1>2. Process /\ Workers
  BY DEF Init, Process, Workers, Busy
<1>3. QED
  BY <1>1, <1>2 DEF Lanes

(* Every step keeps runs, workers and the process together. *)
LEMMA NextLanes == ASSUME IInv, Lanes, [Next]_vars PROVE Lanes'
<1>1. CASE Acquire
  BY <1>1, AcquireLanes
<1>2. CASE DaemonStep
  <2>1. CASE Release
    BY <2>1, EndLanes DEF Release
  <2>2. CASE ~Release
    BY <1>2, <2>2, LoadLanes, DetectLanes, SaveStartupLanes, IntakeLanes, Outcomes, ApplyLanes,
       ArchiveLanes, RejectLanes,
       EndDrainLanes, GovernLanes, LaunchActiveLanes, DisownLanes, StartClaimsLanes,
       ClaimMoveLanes, NoClaimLanes, ActivateLanes, LaunchLanes, RunStageLanes, SettleMoveLanes,
       SettleSaveLanes, SettleConflictLanes, EndCycleLanes, StopRequestedLanes,
       NextIterationLanes, CloseSaveLanes DEF DaemonStep
  <2>3. QED
    BY <2>1, <2>2
<1>3. CASE Fault
  <2>1. CASE StartupFails
    BY <2>1, EndLanes DEF StartupFails
  <2>2. CASE Crash
    BY <2>2, EndLanes DEF Crash
  <2>3. QED
    BY <1>3, <2>1, <2>2, Outcomes, ApplyLanes, CycleFailsLanes, SettleFailsLanes DEF Fault
<1>4. ASSUME NEW o \in Operators, OperatorStep(o) PROVE Lanes'
  BY <1>4, OperatorLanes
<1>5. CASE UNCHANGED vars
  BY <1>5 DEF Lanes, Homes, Homed, Process, Workers, ActivePlanes, vars
<1>6. QED
  BY <1>1, <1>2, <1>3, <1>4, <1>5 DEF Next

-----------------------------------------------------------------------------
(* The items of the runs *)

(* The move of the item of one run leaves the items of the others: they are of
   other planes. *)
LEMMA OthersStay ==
  ASSUME IInv, NEW s, Homed(s), NEW p \in ActivePlanes(s), NEW x,
         place' = [place EXCEPT ![s.run[p]] = x]
  PROVE  \A q \in ActivePlanes(s) \ {p} : place'[s.run[q]] = place[s.run[q]]
<1> SUFFICES ASSUME NEW q \in ActivePlanes(s) \ {p}
             PROVE  place'[s.run[q]] = place[s.run[q]]
  OBVIOUS
<1>1. PlaneOf[s.run[p]] = p /\ PlaneOf[s.run[q]] = q
  BY DEF Homed, ActivePlanes
<1>2. s.run[p] # s.run[q]
  BY <1>1
<1>3. QED
  BY <1>2 DEF IInv, TypeOK

(* A step of the daemon that touches no item and keeps the runs. *)
LEMMA SameOwned ==
  ASSUME IInv, Lanes, Owned, UNCHANGED place, lock = "held", lock' = "held",
         mem'.run = mem.run, mem'.running = mem.running,
         pc \notin {"off", "load", "release", "settle", "close"},
         pc' \notin {"activate", "settle", "load", "detect", "save", "release"},
         pc' = "close" => mem.running
  PROVE  Owned'
  BY DEF Owned, OwnsBut, ActivePlanes

(* An operator's clear or retry would have been a half-done move. *)
LEMMA AcquireOwned == ASSUME IInv, Lanes, Owned, Acquire, clean' PROVE Owned'
<1>1. pc' = "load" /\ lock = "absent" /\ lock' = "held" /\ UNCHANGED <<place, saved>>
  BY DEF Acquire
<1>2. clean' = (clean /\ Midway = {})
  BY DEF Acquire
<1>3. Midway = {}
  BY <1>2, Zenon
<1>4. \A p \in Planes : ~Excused(p)
  BY <1>3 DEF Midway, Excused
<1>5. OwnsBut(saved, {})
  BY <1>1, <1>4 DEF Owned, OwnsBut
<1>6. QED
  BY <1>1, <1>5 DEF Owned, OwnsBut

(* The session takes the runs that were saved. *)
LEMMA LoadOwned == ASSUME IInv, Lanes, Owned, Load PROVE Owned'
<1>1. pc = "load" /\ pc' = "detect" /\ mem' = saved /\ UNCHANGED <<place, saved, lock>>
  BY DEF Load
<1>2. lock = "held"
  BY <1>1 DEF Lanes, Process
<1>3. QED
  BY <1>1, <1>2 DEF Owned, OwnsBut

(* Startup keeps them. *)
LEMMA DetectOwned == ASSUME IInv, Lanes, Owned, Detect PROVE Owned'
<1>1. pc = "detect" /\ pc' = "save" /\ mem'.run = mem.run /\ UNCHANGED <<place, saved, lock>>
  BY DetectEffect DEF Detect
<1>2. lock = "held"
  BY <1>1 DEF Lanes, Process
<1>3. QED
  BY <1>1, <1>2 DEF Owned, OwnsBut, ActivePlanes

(* The steps that keep place and runs. *)
LEMMA QuietOwned ==
  ASSUME IInv, Lanes, Owned,
         SaveStartup \/ Intake \/ Archive \/ Reject \/ EndDrain \/ Govern \/ LaunchActive
         \/ StartClaims \/ NoClaim \/ Launch \/ RunStage \/ EndCycle \/ NextIteration \/ CycleFails
  PROVE  Owned'
<1>1. UNCHANGED <<place, lock>>
  BY DEF SaveStartup, Intake, Archive, Reject, EndDrain, Govern, LaunchActive, StartClaims, NoClaim,
     Launch, RunStage, EndCycle, NextIteration, CycleFails
<1>2. mem'.run = mem.run /\ mem'.running = mem.running
  <2>1. CASE Govern \/ RunStage
    BY <2>1, UsageFacts DEF Govern, RunStage, IInv, TypeOK
  <2>2. CASE ~(Govern \/ RunStage)
    BY <2>2 DEF SaveStartup, Intake, Archive, Reject, EndDrain, LaunchActive, StartClaims, NoClaim,
       Launch, EndCycle, NextIteration, CycleFails
  <2>3. QED
    BY <2>1, <2>2
<1>3. /\ pc \in {"save", "intake", "drain", "archive", "reject", "govern", "dispatch", "claim", "activate",
                 "launch", "collect", "loop"}
      /\ pc' \in {"intake", "drain", "govern", "loop", "close", "dispatch", "claim", "collect"}
  BY DEF SaveStartup, Intake, Archive, Reject, EndDrain, Govern, LaunchActive, StartClaims, NoClaim,
     Launch, RunStage, EndCycle, NextIteration, CycleFails
<1>4. lock = "held" /\ mem.running
  BY <1>3 DEF Lanes, Process, Busy
<1>5. QED
  BY <1>1, <1>2, <1>3, <1>4, SameOwned

(* A requeued item loses its run in the same step. *)
LEMMA ApplyOwned == ASSUME IInv, Lanes, Owned, Tried PROVE Owned'
<1>1. PICK c \in listed :
        cmd' = c /\ (ApplyCommand(c) \/ UNCHANGED <<place, mem, saved, requeued, held>>)
  BY DEF Tried
<1>2. pc = "drain" /\ pc' \in {"archive", "reject"} /\ UNCHANGED lock
  BY DEF Tried
<1>3. lock = "held" /\ OwnsBut(mem, {}) /\ mem \in Snapshots /\ Homed(mem)
  BY <1>2 DEF Lanes, Process, Owned, IInv, TypeOK, Homes
<1>4. SUFFICES \A p \in ActivePlanes(mem') \ {} : place'[mem'.run[p]] = "active"
  BY <1>2, <1>3 DEF Owned, OwnsBut
<1>5. ASSUME NEW p \in RetryPlanes(mem, issued[c].scope), ApplyRetry(p)
      PROVE  \A q \in ActivePlanes(mem') \ {} : place'[mem'.run[q]] = "active"
  <2>1. p \in ActivePlanes(mem) /\ p \in Planes
    BY <1>5 DEF RetryPlanes, ActivePlanes
  <2>2. CASE place[mem.run[p]] = "active"
    <3>1. place' = [place EXCEPT ![mem.run[p]] = "queue"] /\ mem' = WithoutRun(mem, p, TRUE)
      BY <1>5, <2>2 DEF ApplyRetry
    <3>2. mem'.run[p] = None /\ \A q \in Planes : mem'.run[q] = mem.run[q] \/ mem'.run[q] = None
      BY <1>3, <2>1, <3>1, WithoutFacts
    <3>3. \A q \in ActivePlanes(mem) \ {p} : place'[mem.run[q]] = place[mem.run[q]]
      BY <1>3, <2>1, <3>1, OthersStay
    <3>4. \A q \in Planes : \/ mem'.run[q] = None
                            \/ /\ mem'.run[q] = mem.run[q]
                               /\ place'[mem.run[q]] = place[mem.run[q]]
      BY <3>2, <3>3 DEF ActivePlanes
    <3>5. QED
      BY <1>3, <3>4 DEF OwnsBut, ActivePlanes
  <2>3. CASE place[mem.run[p]] # "active"
    BY <1>3, <1>5, <2>3 DEF ApplyRetry, OwnsBut
  <2>4. QED
    BY <2>2, <2>3
<1>6. CASE ApplyCommand(c) /\ issued[c].kind = "clear_stale_state"
  BY <1>1, <1>6 DEF ApplyCommand, Reset, NoRuns, ActivePlanes
<1>7. CASE ApplyCommand(c) /\ issued[c].kind \in {"pause", "resume", "stop"}
  <2>1. UNCHANGED place
    BY <1>1, <1>7 DEF ApplyCommand
  <2>2. mem'.run = mem.run
    <3>1. \/ mem' = [mem EXCEPT !.pause = mem.pause \cup {"Operator"}]
          \/ mem' = [mem EXCEPT !.pause = mem.pause \ {"Operator"}]
          \/ mem' = [mem EXCEPT !.stop = TRUE]
      BY <1>1, <1>7 DEF ApplyCommand
    <3>2. QED
      BY <1>3, <3>1 DEF Snapshots
  <2>3. QED
    BY <1>3, <2>1, <2>2 DEF OwnsBut, ActivePlanes
<1>8. CASE ApplyCommand(c) /\ issued[c].kind = "retry_active"
  <2>1. \/ UNCHANGED <<place, mem>>
        \/ \E p \in RetryPlanes(mem, issued[c].scope) : ApplyRetry(p)
    BY <1>1, <1>8 DEF ApplyCommand
  <2>2. QED
    BY <1>3, <1>5, <2>1 DEF OwnsBut
<1>9. CASE UNCHANGED <<place, mem, saved, requeued, held>>
  BY <1>3, <1>9 DEF OwnsBut, ActivePlanes
<1>10. ApplyCommand(c) => issued[c].kind \in Kinds
  BY DEF ApplyCommand, Kinds
<1>11. QED
  BY <1>1, <1>6, <1>7, <1>8, <1>9, <1>10 DEF Kinds

(* All items are requeued and all runs dropped. *)
LEMMA DisownOwned == ASSUME IInv, Lanes, Owned, Disown PROVE Owned'
<1>1. (\A p \in Planes : mem'.run[p] = None) /\ ActivePlanes(mem') = {} /\ mem'.running = TRUE
  BY DEF Disown, Reset, NoRuns, ActivePlanes
<1>2. pc = "dispatch" /\ pc' \in {"close", "loop", "claim"} /\ UNCHANGED lock
  BY DEF Disown
<1>3. lock = "held"
  BY <1>2 DEF Lanes, Process
<1>4. QED
  BY <1>1, <1>2, <1>3 DEF Owned, OwnsBut

(* The claimed item was in the queue: it has no run. *)
LEMMA ClaimMoveOwned == ASSUME IInv, Lanes, Owned, ClaimMove PROVE Owned'
<1>1. PICK i \in Claimable(lane) : item' = i /\ place' = [place EXCEPT ![i] = "active"]
  BY DEF ClaimMove
<1>2. i \in Items /\ pc = "claim" /\ pc' = "activate" /\ UNCHANGED <<mem, lock>>
  BY <1>1 DEF Claimable, ClaimMove
<1>3. lock = "held" /\ place \in [Items -> {"queue", "active", "out"}] /\ OwnsBut(mem, {})
      /\ mem.run \in [Planes -> Items \cup {None}]
  BY <1>2 DEF Lanes, Process, IInv, TypeOK, Owned, Snapshots
<1>4. place'[item'] = "active" /\ \A j \in Items : place[j] = "active" => place'[j] = "active"
  BY <1>1, <1>2, <1>3
<1>5. QED
  BY <1>2, <1>3, <1>4 DEF Owned, OwnsBut, ActivePlanes

(* The new run is of the item that was moved to the active directory. *)
LEMMA ActivateOwned == ASSUME IInv, Lanes, Owned, Activate PROVE Owned'
<1>1. /\ mem'.run = [mem.run EXCEPT ![lane] = item] /\ mem.run \in [Planes -> Items \cup {None}]
      /\ ActivePlanes(mem') = ActivePlanes(mem) \cup {lane}
  BY ActivateEffect
<1>2. pc = "activate" /\ pc' = "launch" /\ lane \in Planes /\ UNCHANGED <<place, lock>>
  BY DEF Activate, IInv, TypeOK
<1>3. lock = "held" /\ place[item] = "active" /\ OwnsBut(mem, {})
  BY <1>2 DEF Lanes, Process, Owned
<1>4. \A p \in ActivePlanes(mem') : place[mem'.run[p]] = "active"
  BY <1>1, <1>2, <1>3 DEF OwnsBut, ActivePlanes
<1>5. QED
  BY <1>2, <1>3, <1>4 DEF Owned, OwnsBut

(* The run of the settled lane is the one whose item went. *)
LEMMA SettleMoveOwned == ASSUME IInv, Lanes, Owned, SettleMove PROVE Owned'
<1>1. PICK p \in First(worker) : lane' = p /\ place' = [place EXCEPT ![mem.run[p]] = "out"]
  BY DEF SettleMove
<1>2. pc = "collect" /\ pc' = "settle" /\ UNCHANGED lock /\ mem'.run = mem.run
  BY UsageFacts DEF SettleMove, IInv, TypeOK
<1>3. p \in ActivePlanes(mem) /\ lock = "held" /\ OwnsBut(mem, {}) /\ Homed(mem)
  BY <1>1, <1>2 DEF Lanes, Process, Workers, First, Owned, Homes
<1>4. \A q \in ActivePlanes(mem) \ {p} : place'[mem.run[q]] = place[mem.run[q]]
  BY <1>1, <1>3, OthersStay
<1>5. \A q \in ActivePlanes(mem') \ {lane'} : place'[mem'.run[q]] = "active"
  BY <1>1, <1>2, <1>3, <1>4 DEF OwnsBut, ActivePlanes
<1>6. QED
  BY <1>2, <1>3, <1>5 DEF Owned, OwnsBut

(* That run is cleared. *)
LEMMA SettleSaveOwned == ASSUME IInv, Lanes, Owned, SettleSave PROVE Owned'
<1>1. mem \in Snapshots /\ lane \in Planes
  BY DEF IInv, TypeOK
<1>2. pc = "settle" /\ pc' = "collect" /\ mem' = ClearRun(mem, lane) /\ UNCHANGED <<place, lock>>
  BY DEF SettleSave
<1>3. /\ \A q \in Planes \ {lane} : mem'.run[q] = mem.run[q]
      /\ ActivePlanes(mem') = ActivePlanes(mem) \ {lane}
  BY <1>1, <1>2, ClearFacts
<1>4. lock = "held" /\ OwnsBut(mem, {lane})
  BY <1>2 DEF Lanes, Process, Owned
<1>5. \A q \in ActivePlanes(mem') : place[mem'.run[q]] = "active"
  BY <1>3, <1>4 DEF OwnsBut, ActivePlanes
<1>6. QED
  BY <1>2, <1>4, <1>5 DEF Owned, OwnsBut

(* The item of a worker is where the move expects it. *)
LEMMA NoConflict == ASSUME IInv, Lanes, Owned, SettleConflict PROVE FALSE
  BY DEF Lanes, Workers, Owned, OwnsBut, First, SettleConflict

(* A stop keeps the runs or finds none. *)
LEMMA StopRequestedOwned == ASSUME IInv, Lanes, Owned, StopRequested PROVE Owned'
<1>1. pc = "loop" /\ pc' = "close" /\ UNCHANGED <<place, lock>>
  BY DEF StopRequested
<1>2. lock = "held" /\ mem.running
  BY <1>1 DEF Lanes, Process
<1>3. CASE ActivePlanes(mem) = {}
  <2>1. mem' = Reset(mem, FALSE, TRUE) /\ saved' = mem'
    BY <1>3 DEF StopRequested
  <2>2. ActivePlanes(mem') = {} /\ ActivePlanes(saved') = {}
    BY <2>1 DEF Reset, NoRuns, ActivePlanes
  <2>3. QED
    BY <1>1, <1>2, <2>2 DEF Owned, OwnsBut
<1>4. CASE ActivePlanes(mem) # {}
  <2>1. UNCHANGED <<mem, saved>>
    BY <1>4 DEF StopRequested
  <2>2. QED
    BY <1>1, <1>2, <2>1, SameOwned
<1>5. QED
  BY <1>3, <1>4

(* The close saves the runs, unless a stop has saved that there are none. *)
LEMMA CloseSaveOwned == ASSUME IInv, Lanes, Owned, CloseSave PROVE Owned'
<1>1. /\ mem'.run = mem.run
      /\ mem.running => saved' = mem'
      /\ ~mem.running => saved' = saved
  BY CloseEffect
<1>2. pc = "close" /\ pc' = "release" /\ UNCHANGED <<place, lock>>
  BY DEF CloseSave
<1>3. lock = "held" /\ OwnsBut(mem, {}) /\ (~mem.running => ActivePlanes(saved) = {})
  BY <1>2 DEF Lanes, Process, Owned
<1>4. OwnsBut(saved, {})'
  <2>1. CASE mem.running
    BY <1>1, <1>2, <1>3, <2>1 DEF OwnsBut, ActivePlanes
  <2>2. CASE ~mem.running
    BY <1>1, <1>2, <1>3, <2>2 DEF OwnsBut
  <2>3. QED
    BY <2>1, <2>2
<1>5. QED
  BY <1>2, <1>3, <1>4 DEF Owned

(* What a process leaves behind has its items: no run is saved that has lost
   its item when the lock is given back, and a dead owner keeps the lock. *)
LEMMA EndOwned == ASSUME IInv, Lanes, Owned, StartupFails \/ Release \/ Crash PROVE Owned'
<1>1. pc' = "off" /\ UNCHANGED <<place, saved>>
  BY DEF StartupFails, Release, Crash, EndSession
<1>2. CASE Crash
  BY <1>1, <1>2 DEF Crash, Owned
<1>3. CASE StartupFails \/ Release
  <2>1. OwnsBut(saved, {})
    BY <1>3 DEF Owned, StartupFails, Release
  <2>2. QED
    BY <1>1, <2>1 DEF Owned, OwnsBut
<1>4. QED
  BY <1>2, <1>3

(* Nothing lost stays nothing lost only. *)
LEMMA CleanStep == ASSUME [Next]_vars, clean' PROVE clean
<1>1. \/ UNCHANGED clean
      \/ clean' = (clean /\ Midway = {})
      \/ clean' = FALSE
      \/ \E o \in Operators : clean' = (clean /\ Safe(o))
  BY DEF Next, Acquire, DaemonStep, Load, Detect, SaveStartup, Intake, Apply, Archive, Reject,
     EndDrain, Govern, LaunchActive, Disown, StartClaims, ClaimMove, NoClaim, Activate, Launch,
     RunStage, SettleMove, SettleSave, SettleConflict, EndCycle, StopRequested, NextIteration,
     CloseSave, Release, Fault, StartupFails, ApplyFails, CycleFails, SettleFails, Crash, OperatorStep, OpLoad, OpInspect,
     OpEnqueue, OpPause, OpResume, OpStop, OpRetryMove, OpRetrySkip, OpRetrySave, OpClearRequeue,
     OpClearLock, OpClearReset, OpCrash, DirectSave, history, vars
<1>2. QED
  BY <1>1, Zenon

(* The steps of an operator that move no item and save nothing. *)
LEMMA ReadingOwned ==
  ASSUME IInv, Lanes, Owned, NEW o \in Operators,
         OpLoad(o) \/ OpInspect(o) \/ OpEnqueue(o) \/ OpRetrySkip(o)
  PROVE  Owned'
<1>1. UNCHANGED <<place, saved, lock, mem, pc, lane, item>>
  BY DEF OpLoad, OpInspect, OpEnqueue, OpRetrySkip, daemon, cycle
<1>2. op[o].pc \in {"idle", "loaded", "enqueue", "direct"} /\ \A q \in Operators \ {o} : op'[q] = op[q]
  BY DEF OpLoad, OpInspect, OpEnqueue, OpRetrySkip, IInv, TypeOK
<1>3. \A p \in Planes : Excused(p) => Excused(p)'
  BY <1>2 DEF Excused
<1>4. QED
  BY <1>1, <1>3 DEF Owned, OwnsBut, ActivePlanes

(* A direct save, while no daemon runs, of fewer runs than are saved. *)
LEMMA DirectOwned ==
  ASSUME IInv, Lanes, Owned, NEW o \in Operators, DirectSave(o, saved'), clean',
         UNCHANGED <<place, lock>>, op[o].pc # "unlock",
         \A p \in Planes : \/ saved'.run[p] = None
                           \/ /\ saved'.run[p] = saved.run[p] /\ op[o].pc # "reset"
                              /\ ~(op[o].pc = "retry" /\ op[o].plane = p)
  PROVE  Owned'
<1>1. /\ lock # "held" /\ UNCHANGED <<mem, pc, lane, item>> /\ op'[o] = Idle
      /\ \A q \in Operators \ {o} : op'[q] = op[q]
  BY DirectEffect
<1>2. pc = "off"
  BY <1>1 DEF Lanes, Process
<1>3. ASSUME lock = "absent", NEW p \in ActivePlanes(saved'), ~Excused(p)'
      PROVE  place[saved'.run[p]] = "active"
  <2>1. /\ saved'.run[p] = saved.run[p] /\ op[o].pc # "reset"
        /\ ~(op[o].pc = "retry" /\ op[o].plane = p) /\ p \in ActivePlanes(saved) /\ p \in Planes
    BY <1>3 DEF ActivePlanes
  <2>2. ~Excused(p)
    BY <1>1, <1>3, <2>1 DEF Excused
  <2>3. QED
    BY <1>3, <2>1, <2>2 DEF Owned, OwnsBut
<1>4. QED
  BY <1>1, <1>2, <1>3 DEF Owned, OwnsBut, ActivePlanes

(* What a direct save that loses no update leaves of the saved runs. *)
LEMMA DirectRuns ==
  ASSUME IInv, NEW o \in Operators, clean',
         OpPause(o) \/ OpResume(o) \/ OpStop(o) \/ OpRetrySave(o) \/ OpClearReset(o)
  PROVE  /\ DirectSave(o, saved') /\ UNCHANGED <<place, lock>>
         /\ op[o].pc \in {"direct", "retry", "reset"}
         /\ \A p \in Planes : \/ saved'.run[p] = None
                              \/ /\ saved'.run[p] = saved.run[p] /\ op[o].pc # "reset"
                                 /\ ~(op[o].pc = "retry" /\ op[o].plane = p)
<1>1. DirectSave(o, saved') /\ UNCHANGED <<place, lock>>
  BY DEF OpPause, OpResume, OpStop, OpRetrySave, OpClearReset, DirectSave
<1>2. op[o].snap = saved
  BY <1>1, DirectEffect
<1>3. CASE OpPause(o) \/ OpResume(o)
  <2>1. saved'.run = saved.run
    BY <1>2, <1>3, DirectPauses
  <2>2. op[o].pc = "direct"
    BY <1>3 DEF OpPause, OpResume
  <2>3. QED
    BY <1>1, <2>1, <2>2
<1>4. CASE OpStop(o) \/ OpClearReset(o)
  <2>1. \A p \in Planes : saved'.run[p] = None
    BY <1>4, DirectSnapshots
  <2>2. op[o].pc \in {"direct", "reset"}
    BY <1>4 DEF OpStop, OpClearReset
  <2>3. QED
    BY <1>1, <2>1, <2>2
<1>5. CASE OpRetrySave(o)
  <2>1. saved' = WithoutRun(op[o].snap, op[o].plane, FALSE) /\ op[o].pc = "retry"
    BY <1>5 DEF OpRetrySave, DirectSave
  <2>2. op[o].snap \in Snapshots /\ op[o].plane \in Planes
    BY DEF IInv, TypeOK, OperatorRecords
  <2>3. /\ saved'.run[op[o].plane] = None
        /\ \A q \in Planes : saved'.run[q] = op[o].snap.run[q] \/ saved'.run[q] = None
    BY <2>1, <2>2, WithoutFacts
  <2>4. QED
    BY <1>1, <1>2, <2>1, <2>3
<1>6. QED
  BY <1>3, <1>4, <1>5

(* A direct retry takes the item of the run that is saved, and of no other. *)
LEMMA OpRetryMoveOwned ==
  ASSUME IInv, Lanes, Owned, NEW o \in Operators, OpRetryMove(o), clean'
  PROVE  Owned'
<1>1. PICK p \in RetryPlanes(op[o].snap, op[o].command.scope) :
        /\ place' = [place EXCEPT ![op[o].snap.run[p]] = "queue"]
        /\ op' = [op EXCEPT ![o].pc = "retry", ![o].plane = p]
  BY DEF OpRetryMove
<1>2. clean' = (clean /\ Safe(o))
  BY DEF OpRetryMove
<1>3. Safe(o)
  BY <1>2, Zenon
<1>4. lock # "held" /\ op[o].snap = saved /\ op[o].pc = "direct"
      /\ UNCHANGED <<saved, lock, mem, pc, lane, item>>
  BY <1>3 DEF Safe, OpRetryMove, daemon, cycle
<1>5. pc = "off"
  BY <1>4 DEF Lanes, Process
<1>6. p \in ActivePlanes(saved) /\ p \in Planes /\ Homed(saved)
  BY <1>1, <1>4 DEF RetryPlanes, ActivePlanes, Lanes, Homes
<1>7. \A q \in ActivePlanes(saved) \ {p} : place'[saved.run[q]] = place[saved.run[q]]
  <2>1. place' = [place EXCEPT ![saved.run[p]] = "queue"]
    BY <1>1, <1>4
  <2>2. QED
    BY <1>6, <2>1, OthersStay
<1>8. op'[o].pc = "retry" /\ op'[o].plane = p /\ \A q \in Operators \ {o} : op'[q] = op[q]
  BY <1>1 DEF IInv, TypeOK, OperatorRecords
<1>9. \A q \in Planes : Excused(q) \/ q = p => Excused(q)'
  BY <1>4, <1>8 DEF Excused
<1>10. QED
  BY <1>4, <1>5, <1>7, <1>9 DEF Owned, OwnsBut, ActivePlanes

(* A direct clear-stale takes all items, and will take all runs. *)
LEMMA OpClearOwned ==
  ASSUME IInv, Lanes, Owned, NEW o \in Operators, OpClearRequeue(o) \/ OpClearLock(o), clean'
  PROVE  Owned'
<1>1. UNCHANGED <<saved, mem, pc, lane, item>>
  BY DEF OpClearRequeue, OpClearLock, daemon, cycle
<1>2. op'[o].pc \in {"unlock", "reset"}
  BY DEF OpClearRequeue, OpClearLock, IInv, TypeOK, OperatorRecords
<1>3. \A p \in Planes : Excused(p)'
  BY <1>2 DEF Excused
<1>4. CASE OpClearLock(o)
  BY <1>1, <1>3, <1>4 DEF OpClearLock, Owned, OwnsBut, ActivePlanes
<1>5. CASE OpClearRequeue(o)
  <2>1. clean' = (clean /\ Safe(o))
    BY <1>5 DEF OpClearRequeue
  <2>2. Safe(o)
    BY <2>1, Zenon
  <2>3. lock # "held" /\ UNCHANGED lock
    BY <1>5, <2>2 DEF Safe, OpClearRequeue
  <2>4. pc = "off"
    BY <2>3 DEF Lanes, Process
  <2>5. QED
    BY <1>1, <1>3, <2>4 DEF Owned, OwnsBut, ActivePlanes
<1>6. QED
  BY <1>4, <1>5

(* Every step of an operator that loses nothing leaves the runs their items. *)
LEMMA OperatorOwned ==
  ASSUME IInv, Lanes, Owned, NEW o \in Operators, OperatorStep(o), clean'
  PROVE  Owned'
<1>1. CASE OpPause(o) \/ OpResume(o) \/ OpStop(o) \/ OpRetrySave(o) \/ OpClearReset(o)
  <2>1. /\ DirectSave(o, saved') /\ UNCHANGED <<place, lock>> /\ op[o].pc # "unlock"
        /\ \A p \in Planes : \/ saved'.run[p] = None
                             \/ /\ saved'.run[p] = saved.run[p] /\ op[o].pc # "reset"
                                /\ ~(op[o].pc = "retry" /\ op[o].plane = p)
    BY <1>1, DirectRuns
  <2>2. QED
    BY <2>1, DirectOwned
<1>2. CASE OpCrash(o)
  <2>1. clean' = FALSE
    BY <1>2 DEF OpCrash
  <2>2. QED
    BY <2>1, Zenon
<1>3. QED
  BY <1>1, <1>2, ReadingOwned, OpRetryMoveOwned, OpClearOwned DEF OperatorStep

(* A command that fails half-way leaves a half-done move. *)
LEMMA HalvedDirty == Halved => ~clean'
<1> SUFFICES ASSUME Halved PROVE ~clean'
  OBVIOUS
<1>1. clean' = FALSE
  BY DEF Halved
<1>2. QED
  BY <1>1, Zenon

(* Every step of the system that loses nothing does. *)
LEMMA NextOwned == ASSUME IInv, Lanes, Owned, [Next]_vars, clean' PROVE Owned'
<1>1. CASE Acquire
  BY <1>1, AcquireOwned
<1>2. CASE DaemonStep
  BY <1>2, LoadOwned, DetectOwned, QuietOwned, Outcomes, ApplyOwned, HalvedDirty, DisownOwned, ClaimMoveOwned,
     ActivateOwned, SettleMoveOwned, SettleSaveOwned, NoConflict, StopRequestedOwned,
     CloseSaveOwned, EndOwned DEF DaemonStep
<1>3. CASE Fault
  <2>1. CASE SettleFails
    <3>1. clean' = FALSE
      BY <2>1 DEF SettleFails
    <3>2. QED
      BY <3>1, Zenon
  <2>2. QED
    BY <1>3, <2>1, QuietOwned, EndOwned, Outcomes, ApplyOwned, HalvedDirty DEF Fault
<1>4. ASSUME NEW o \in Operators, OperatorStep(o) PROVE Owned'
  BY <1>4, OperatorOwned
<1>5. CASE UNCHANGED vars
  BY <1>5 DEF Owned, OwnsBut, ActivePlanes, Excused, vars
<1>6. QED
  BY <1>1, <1>2, <1>3, <1>4, <1>5 DEF Next

-----------------------------------------------------------------------------
(* A pause from its acknowledgement on *)

(* No operator has cleared the lock of a dead owner and not yet the snapshot. *)
LEMMA AcquirePaused == ASSUME IInv, Lanes, Paused, Acquire, clean' PROVE Paused'
<1>1. pc' = "load" /\ lock = "absent" /\ lock' = "held" /\ UNCHANGED <<mem, saved>>
  BY DEF Acquire
<1>2. clean' = (clean /\ Midway = {})
  BY DEF Acquire
<1>3. Midway = {}
  BY <1>2, Zenon
<1>4. "Operator" \in saved.pause
  BY <1>1, <1>3 DEF Midway, Paused
<1>5. QED
  BY <1>1, <1>4 DEF Paused, Busy

(* Startup and the drain carry the pause from the file to the session. *)
LEMMA CarryPaused ==
  ASSUME IInv, Lanes, Paused,
         Load \/ Detect \/ SaveStartup \/ Intake \/ Archive \/ Reject \/ EndDrain \/ NextIteration \/ CycleFails
  PROVE  Paused'
<1>1. pc # "off" /\ UNCHANGED lock
  BY DEF Load, Detect, SaveStartup, Intake, Archive, Reject, EndDrain, NextIteration, CycleFails
<1>2. lock' = "held"
  BY <1>1 DEF Lanes, Process
<1>3. CASE Load
  BY <1>2, <1>3 DEF Load, Paused, Busy
<1>4. CASE Detect
  <2>1. mem'.pause = mem.pause /\ UNCHANGED saved
    BY <1>4, DetectEffect
  <2>2. QED
    BY <1>2, <1>4, <2>1 DEF Detect, Paused, Busy
<1>5. CASE SaveStartup
  BY <1>2, <1>5 DEF SaveStartup, Paused, Busy
<1>6. CASE Intake \/ Archive \/ Reject \/ EndDrain \/ NextIteration \/ CycleFails
  <2>1. /\ pc \in {"intake", "drain", "archive", "reject", "govern", "loop"} \cup Busy
        /\ pc' \in {"intake", "drain", "govern", "loop", "close"} /\ UNCHANGED mem
    BY <1>6 DEF Intake, Archive, Reject, EndDrain, NextIteration, CycleFails, Busy
  <2>2. mem.running /\ pc \notin Busy
    BY <2>1 DEF Lanes, Process, Paused
  <2>3. "Operator" \in mem.pause
    BY <2>1, <2>2 DEF Paused
  <2>4. QED
    BY <1>2, <2>1, <2>2, <2>3 DEF Paused, Busy
<1>7. QED
  BY <1>3, <1>4, <1>5, <1>6

(* Governance adds or drops its own pause source; with the other one there the
   cycle ends. *)
LEMMA GovernPaused == ASSUME IInv, Lanes, Paused, Govern PROVE Paused'
<1>1. "Operator" \in mem.pause /\ pc = "govern" /\ UNCHANGED lock
  BY DEF Govern, Paused
<1>2. "Operator" \in mem'.pause
  BY <1>1, UsageFacts DEF Govern, IInv, TypeOK
<1>3. pc' = "loop" /\ lock = "held"
  BY <1>1, <1>2 DEF Govern, Lanes, Process
<1>4. QED
  BY <1>1, <1>2, <1>3 DEF Paused, Busy

(* Only a resume or a clear takes it out of the session, and says so. *)
LEMMA ApplyPaused == ASSUME IInv, Lanes, held => Paused, Tried, held' PROVE Paused'
<1>1. PICK c \in listed :
        cmd' = c /\ (ApplyCommand(c) \/ UNCHANGED <<place, mem, saved, requeued, held>>)
  BY DEF Tried
<1>2. pc = "drain" /\ pc' \in {"archive", "reject"} /\ UNCHANGED lock
  BY DEF Tried
<1>3. "Operator" \in mem'.pause \/ (held /\ mem'.pause = mem.pause)
  <2>1. CASE ApplyCommand(c)
    BY <1>1, <2>1, ApplyEffect
  <2>2. CASE UNCHANGED <<mem, held>>
    <3>1. held
      BY <2>2, Zenon
    <3>2. QED
      BY <2>2, <3>1
  <2>3. QED
    BY <1>1, <2>1, <2>2
<1>4. "Operator" \in mem'.pause
  BY <1>2, <1>3 DEF Paused
<1>5. lock = "held"
  BY <1>2 DEF Lanes, Process
<1>6. QED
  BY <1>2, <1>4, <1>5 DEF Paused, Busy

(* A stop that completes gives up the pause, and says so; a stop that leaves
   runs keeps it, and the close saves it. *)
LEMMA StopPaused ==
  ASSUME IInv, Lanes, Paused, StopRequested \/ CloseSave, held'
  PROVE  Paused'
<1>1. CASE StopRequested
  <2>1. pc = "loop" /\ pc' = "close" /\ UNCHANGED lock
    BY <1>1 DEF StopRequested
  <2>2. UNCHANGED mem
    <3>1. held' = FALSE \/ UNCHANGED mem
      BY <1>1 DEF StopRequested
    <3>2. QED
      BY <3>1, Zenon
  <2>3. lock = "held" /\ mem.running /\ "Operator" \in mem.pause
    BY <2>1 DEF Lanes, Process, Paused
  <2>4. QED
    BY <2>1, <2>2, <2>3 DEF Paused, Busy
<1>2. CASE CloseSave
  <2>1. pc = "close" /\ pc' = "release" /\ UNCHANGED lock
    BY <1>2 DEF CloseSave
  <2>2. mem.running /\ "Operator" \in mem.pause /\ lock = "held"
    BY <2>1 DEF Lanes, Process, Paused
  <2>3. "Operator" \in saved'.pause
    BY <1>2, <2>2, CloseEffect
  <2>4. QED
    BY <2>1, <2>2, <2>3 DEF Paused, Busy
<1>3. QED
  BY <1>1, <1>2

(* It is in the file when the lock is given back. *)
LEMMA EndPaused == ASSUME IInv, Lanes, Paused, StartupFails \/ Release \/ Crash PROVE Paused'
<1>1. pc' = "off" /\ UNCHANGED saved
  BY DEF StartupFails, Release, Crash, EndSession
<1>2. CASE Crash
  BY <1>1, <1>2 DEF Crash, Paused, Busy
<1>3. CASE StartupFails \/ Release
  BY <1>1, <1>3 DEF StartupFails, Release, Paused, Busy
<1>4. QED
  BY <1>2, <1>3

(* No claim, launch or outcome happens under it. *)
LEMMA BusyPaused ==
  ASSUME Paused,
         LaunchActive \/ Disown \/ StartClaims \/ ClaimMove \/ NoClaim \/ Activate \/ Launch
         \/ RunStage \/ SettleMove \/ SettleSave \/ SettleConflict \/ EndCycle \/ SettleFails
  PROVE  FALSE
<1>1. pc \in Busy
  BY DEF LaunchActive, Disown, StartClaims, ClaimMove, NoClaim, Activate, Launch, RunStage,
     SettleMove, SettleSave, SettleConflict, EndCycle, SettleFails, Busy
<1>2. QED
  BY <1>1 DEF Paused

(* An operator's pause is in the file, and other handlers that keep `held`
   save the pause they loaded. *)
LEMMA OperatorPaused ==
  ASSUME IInv, Lanes, held => Paused, NEW o \in Operators, OperatorStep(o), clean', held'
  PROVE  Paused'
<1>1. op \in [Operators -> OperatorRecords] /\ op[o].snap \in Snapshots /\ op[o].plane \in Planes
  BY DEF IInv, TypeOK, OperatorRecords
<1>2. UNCHANGED <<mem, pc>>
  BY OperatorFrame
<1>3. CASE OpPause(o)
  <2>1. DirectSave(o, [op[o].snap EXCEPT !.pause = op[o].snap.pause \cup {"Operator"}])
        /\ UNCHANGED lock
    BY <1>3 DEF OpPause
  <2>2. saved' = [op[o].snap EXCEPT !.pause = op[o].snap.pause \cup {"Operator"}] /\ lock # "held"
    BY <2>1, DirectEffect
  <2>3. "Operator" \in saved'.pause
    BY <1>1, <2>2 DEF Snapshots
  <2>4. pc = "off"
    BY <2>2 DEF Lanes, Process
  <2>5. QED
    BY <1>2, <2>3, <2>4 DEF Paused, Busy
<1>4. CASE OpResume(o) \/ OpStop(o) \/ OpClearReset(o)
  <2>1. held' = FALSE
    BY <1>4 DEF OpResume, OpStop, OpClearReset
  <2>2. QED
    BY <2>1, Zenon
<1>5. CASE OpCrash(o)
  <2>1. clean' = FALSE
    BY <1>5 DEF OpCrash
  <2>2. QED
    BY <2>1, Zenon
<1>6. CASE OpRetrySave(o)
  <2>1. UNCHANGED <<held, lock>> /\ DirectSave(o, WithoutRun(op[o].snap, op[o].plane, FALSE))
        /\ op[o].pc = "retry"
    BY <1>6 DEF OpRetrySave
  <2>2. saved' = WithoutRun(op[o].snap, op[o].plane, FALSE) /\ lock # "held" /\ op[o].snap = saved
        /\ \A q \in Operators \ {o} : op'[q] = op[q]
    BY <2>1, DirectEffect
  <2>3. saved'.pause = saved.pause
    BY <1>1, <2>2, WithoutFacts
  <2>4. pc = "off" /\ Paused
    BY <2>1, <2>2 DEF Lanes, Process
  <2>5. QED
    BY <1>2, <2>1, <2>2, <2>3, <2>4 DEF Paused, Busy
<1>7. CASE OpLoad(o) \/ OpInspect(o) \/ OpEnqueue(o) \/ OpRetryMove(o) \/ OpRetrySkip(o)
           \/ OpClearRequeue(o)
  <2>1. UNCHANGED <<held, lock, saved>> /\ \A q \in Operators \ {o} : op'[q] = op[q]
    BY <1>1, <1>7 DEF OpLoad, OpInspect, OpEnqueue, OpRetryMove, OpRetrySkip, OpClearRequeue, history
  <2>2. op[o].pc # "reset" /\ Paused
    BY <1>7, <2>1 DEF OpLoad, OpInspect, OpEnqueue, OpRetryMove, OpRetrySkip, OpClearRequeue
  <2>3. QED
    BY <1>2, <2>1, <2>2 DEF Paused
<1>8. CASE OpClearLock(o)
  <2>1. UNCHANGED <<held, saved>> /\ op'[o].pc = "reset"
    BY <1>1, <1>8 DEF OpClearLock, OperatorRecords, history
  <2>2. QED
    BY <1>2, <2>1 DEF Paused
<1>9. QED
  BY <1>3, <1>4, <1>5, <1>6, <1>7, <1>8 DEF OperatorStep

(* Every step that loses no update keeps the pause, or gives it up and says so. *)
LEMMA NextPaused ==
  ASSUME IInv, Lanes, held => Paused, [Next]_vars, clean', held'
  PROVE  Paused'
<1>1. CASE Apply \/ ApplyFails
  BY <1>1, Outcomes, ApplyPaused, HalvedDirty
<1>2. ASSUME NEW o \in Operators, OperatorStep(o) PROVE Paused'
  BY <1>2, OperatorPaused
<1>3. CASE Acquire \/ (DaemonStep /\ ~Apply) \/ (Fault /\ ~ApplyFails)
  <2>1. held' = FALSE \/ UNCHANGED held
    BY <1>3 DEF Acquire, DaemonStep, Load, Detect, SaveStartup, Intake, Archive, Reject,
       EndDrain, Govern, LaunchActive, Disown, StartClaims, ClaimMove, NoClaim, Activate, Launch, RunStage,
       SettleMove, SettleSave, SettleConflict, EndCycle, StopRequested, NextIteration, CloseSave,
       Release, Fault, StartupFails, CycleFails, SettleFails, Crash, history
  <2>2. held
    BY <2>1, Zenon
  <2>3. Paused
    BY <2>2
  <2>4. QED
    BY <1>3, <2>3, AcquirePaused, CarryPaused, GovernPaused, StopPaused, EndPaused, BusyPaused
       DEF DaemonStep, Fault
<1>4. CASE UNCHANGED vars
  <2>1. UNCHANGED <<held, lock, op, saved, pc, mem>>
    BY <1>4 DEF vars
  <2>2. Paused
    BY <2>1
  <2>3. QED
    BY <2>1, <2>2 DEF Paused
<1>5. QED
  BY <1>1, <1>2, <1>3, <1>4 DEF Next

-----------------------------------------------------------------------------
(* A retry that is applied again *)

(* Fewer runs serve no other retry. *)
LEMMA ServedFewer ==
  ASSUME NEW s, NEW t, NEW c, Served(s, c), ActivePlanes(t) \subseteq ActivePlanes(s)
  PROVE  Served(t, c)
  BY DEF Served

(* A retry whose run is gone finds no plane. *)
LEMMA ServedFindsNone ==
  ASSUME NEW s, NEW c, Served(s, c) PROVE RetryPlanes(s, issued[c].scope) = {}
  BY FS_EmptySet DEF Served, RetryPlanes

(* A retry takes out the run of its scope, or the only one. *)
LEMMA RetryServes ==
  ASSUME NEW s, NEW t, NEW c, NEW p \in RetryPlanes(s, issued[c].scope),
         ActivePlanes(t) \subseteq ActivePlanes(s) \ {p}
  PROVE  Served(t, c)
<1>1. CASE issued[c].scope # "any"
  BY <1>1 DEF RetryPlanes, Served
<1>2. CASE issued[c].scope = "any"
  <2>1. Cardinality(ActivePlanes(s)) = 1 /\ p \in ActivePlanes(s)
    BY <1>2 DEF RetryPlanes
  <2>2. IsFiniteSet(Planes)
    <3>1. IsFiniteSet({"planning"})
      BY FS_Singleton
    <3>2. IsFiniteSet({"planning"} \cup {"execution"})
      BY <3>1, FS_AddElement
    <3>3. IsFiniteSet(({"planning"} \cup {"execution"}) \cup {"learning"})
      BY <3>2, FS_AddElement
    <3>4. Planes = ({"planning"} \cup {"execution"}) \cup {"learning"}
      BY DEF Planes
    <3>5. QED
      BY <3>3, <3>4
  <2>3. IsFiniteSet(ActivePlanes(s))
    BY <2>2, FS_Subset DEF ActivePlanes
  <2>4. PICK x : ActivePlanes(s) = {x}
    BY <2>1, <2>3, FS_Singleton
  <2>5. ActivePlanes(t) = {}
    BY <2>1, <2>4
  <2>6. QED
    BY <1>2, <2>5 DEF Served
<1>3. QED
  BY <1>1, <1>2

(* What is listed is there: only the archival of a command removes its file. *)
LEMMA ListingStep == ASSUME IInv, Listing, [Next]_vars PROVE Listing'
<1>0. /\ pending \subseteq 1..Len(issued) /\ Len(issued) \in Nat /\ requeued \in [Ids -> Nat]
      /\ listed \subseteq Ids
  BY DEF IInv, TypeOK
<1>1. CASE Intake \/ Archive \/ Reject
  BY <1>1 DEF Listing, Intake, Archive, Reject, history
<1>2. CASE Apply \/ ApplyFails
  <2>0. Tried \/ Halved
    BY <1>2, Outcomes
  <2>1. PICK c \in listed :
          /\ cmd' = c
          /\ \/ ApplyCommand(c) \/ HalfApplied(c)
             \/ UNCHANGED <<place, mem, saved, requeued, held>>
    BY <2>0 DEF Tried, Halved
  <2>2. requeued' = requeued \/ requeued' = [requeued EXCEPT ![c] = requeued[c] + 1]
    BY <2>1 DEF ApplyCommand, ApplyRetry, HalfApplied
  <2>3. c \in 1..Len(issued)
    BY <1>0 DEF Listing
  <2>4. UNCHANGED <<listed, pending, issued>>
    BY <2>0 DEF Tried, Halved
  <2>5. QED
    BY <1>0, <2>1, <2>2, <2>3, <2>4 DEF Listing
<1>3. CASE StartupFails \/ CycleFails \/ Crash \/ Release
  BY <1>3 DEF Listing, StartupFails, CycleFails, Crash, Release, EndSession, history
<1>4. ASSUME NEW o \in Operators, OperatorStep(o) PROVE Listing'
  <2>1. UNCHANGED <<pc, listed, cmd, requeued>>
    BY <1>4, OperatorFrame
  <2>2. /\ pending \subseteq pending'
        /\ Len(issued') \in Nat /\ Len(issued) <= Len(issued')
    <3>1. CASE OpEnqueue(o)
      <4>1. op[o].command \in AllCommands /\ issued \in Seq(AllCommands)
        BY DEF IInv, TypeOK, OperatorRecords
      <4>2. QED
        BY <1>0, <3>1, <4>1 DEF OpEnqueue
    <3>2. CASE ~OpEnqueue(o)
      <4>1. UNCHANGED <<issued, pending>>
        BY <1>4, <3>2 DEF OperatorStep, OpLoad, OpInspect, OpPause, OpResume, OpStop, OpRetryMove,
           OpRetrySkip, OpRetrySave, OpClearRequeue, OpClearLock, OpClearReset, OpCrash, DirectSave
      <4>2. QED
        BY <1>0, <4>1
    <3>3. QED
      BY <3>1, <3>2
  <2>3. QED
    BY <1>0, <2>1, <2>2 DEF Listing
<1>5. CASE \/ Acquire \/ SettleFails \/ UNCHANGED vars
           \/ DaemonStep /\ ~(Intake \/ Archive \/ Reject \/ Apply \/ Release)
  <2>1. /\ UNCHANGED <<listed, pending, cmd, requeued, issued>>
        /\ pc' \notin {"archive", "reject"} \/ pc' = pc
    BY <1>5 DEF Acquire, SettleFails, RecoverRun, DaemonStep, Load, Detect, SaveStartup, EndDrain,
       Govern, LaunchActive, Disown, StartClaims, ClaimMove, NoClaim, Activate, Launch, RunStage,
       SettleMove, SettleSave, SettleConflict, EndCycle, StopRequested, NextIteration, CloseSave,
       mail, history, vars
  <2>2. QED
    BY <2>1 DEF Listing
<1>6. QED
  BY <1>1, <1>2, <1>3, <1>4, <1>5 DEF Next, Fault, DaemonStep

(* A step that keeps the mailbox and the retries, and adds no run. *)
LEMMA ServedStep ==
  ASSUME ServedOnce, UNCHANGED <<requeued, pending, issued, listed>>,
         ActivePlanes(mem') \subseteq ActivePlanes(mem) \/ ActivePlanes(mem') \subseteq ActivePlanes(saved),
         ActivePlanes(saved') \subseteq ActivePlanes(mem) \/ ActivePlanes(saved') \subseteq ActivePlanes(saved),
         pc' \notin Busy \cup {"govern", "loop", "drain", "archive", "reject"} \/ pc' = pc
  PROVE  ServedOnce'
<1>1. ASSUME NEW c \in Ids, Unarchived(c)
      PROVE  Served(mem, c)' /\ Served(saved, c)'
  BY <1>1 DEF ServedOnce, Served
<1>2. QED
  BY <1>1 DEF ServedOnce, Unarchived

(* Where the daemon works nothing waits to be applied again. *)
LEMMA NoneUnarchived ==
  ASSUME ServedOnce, pc \in Busy \cup {"govern", "loop"}, UNCHANGED <<requeued, pending>>
  PROVE  ServedOnce'
  BY DEF ServedOnce, Unarchived

(* The start of a session, its end and its death. *)
LEMMA SessionServed ==
  ASSUME IInv, Lanes, ServedOnce,
         Acquire \/ Load \/ Detect \/ SaveStartup \/ CloseSave
  PROVE  ServedOnce'
<1>1. UNCHANGED <<requeued, pending, issued, listed>> /\ pc' \in {"load", "detect", "save", "intake", "release"}
  BY DEF Acquire, Load, Detect, SaveStartup, CloseSave, mail, history
<1>2. /\ ActivePlanes(mem') = ActivePlanes(mem) \/ ActivePlanes(mem') = ActivePlanes(saved)
      /\ ActivePlanes(saved') = ActivePlanes(mem) \/ ActivePlanes(saved') = ActivePlanes(saved)
  <2>1. CASE Detect
    BY <2>1, DetectEffect DEF ActivePlanes
  <2>2. CASE CloseSave
    <3>1. mem'.run = mem.run /\ (saved' = mem' \/ saved' = saved)
      BY <2>2, CloseEffect
    <3>2. QED
      BY <3>1 DEF ActivePlanes
  <2>3. CASE Acquire \/ Load \/ SaveStartup
    BY <2>3 DEF Acquire, Load, SaveStartup
  <2>4. QED
    BY <2>1, <2>2, <2>3
<1>3. QED
  BY <1>1, <1>2, ServedStep DEF Busy

(* A process that is gone has no runs and no listing. *)
LEMMA EndServed == ASSUME IInv, ServedOnce, StartupFails \/ Release \/ Crash PROVE ServedOnce'
<1>1. UNCHANGED <<requeued, pending, issued, saved>> /\ pc' = "off" /\ mem' = Fresh
  BY DEF StartupFails, Release, Crash, EndSession, history
<1>2. ASSUME NEW c \in Ids, Unarchived(c) PROVE Served(mem, c)' /\ Served(saved, c)'
  <2>1. ActivePlanes(mem') = {}
    BY <1>1, FreshFacts
  <2>2. QED
    BY <1>1, <1>2, <2>1 DEF ServedOnce, Served
<1>3. QED
  BY <1>1, <1>2 DEF ServedOnce, Unarchived, Busy

(* An error of the cycle forgets the listing, not the files. *)
LEMMA CycleFailsServed == ASSUME IInv, ServedOnce, CycleFails PROVE ServedOnce'
<1>1. UNCHANGED <<requeued, pending, issued, saved, mem>> /\ pc' = "close"
  BY DEF CycleFails, history
<1>2. QED
  BY <1>1 DEF ServedOnce, Unarchived, Served, Busy

(* A drain lists everything that waits, and ends when all of it is archived. *)
LEMMA DrainServed ==
  ASSUME IInv, Listing, ServedOnce, Intake \/ Archive \/ Reject \/ EndDrain
  PROVE  ServedOnce'
<1>1. UNCHANGED <<requeued, issued, mem>>
  BY DEF Intake, Archive, Reject, EndDrain, history, mail
<1>2. CASE Intake
  BY <1>1, <1>2 DEF Intake, ServedOnce, Unarchived, Served, Busy
<1>3. CASE Archive \/ Reject
  BY <1>1, <1>3 DEF Archive, Reject, ServedOnce, Unarchived, Served, Busy
<1>4. CASE EndDrain
  BY <1>1, <1>4 DEF EndDrain, mail, ServedOnce, Unarchived
<1>5. QED
  BY <1>2, <1>3, <1>4

(* A retry that took out its run finds none when it is applied again. *)
LEMMA ApplyServed == ASSUME IInv, Lanes, Listing, ServedOnce, Tried PROVE ServedOnce'
<1>1. PICK c \in listed :
        cmd' = c /\ (ApplyCommand(c) \/ UNCHANGED <<place, mem, saved, requeued, held>>)
  BY DEF Tried
<1>2. pc = "drain" /\ pc' \in {"archive", "reject"} /\ UNCHANGED <<listed, pending, issued>>
  BY DEF Tried
<1>3. /\ ActivePlanes(mem') \subseteq ActivePlanes(mem)
      /\ saved' = saved \/ saved' = mem'
  <2>1. CASE ApplyCommand(c)
    BY <1>1, <2>1, ApplyEffect
  <2>2. CASE UNCHANGED <<mem, saved>>
    BY <2>2 DEF ActivePlanes
  <2>3. QED
    BY <1>1, <2>1, <2>2
<1>4. c \in pending /\ c \in Ids /\ requeued \in [Ids -> Nat] /\ mem \in Snapshots
  BY DEF Listing, IInv, TypeOK
<1>5. CASE requeued' = requeued
  <2>1. ASSUME NEW d \in Ids, Unarchived(d) PROVE Served(mem, d)' /\ Served(saved, d)'
    BY <1>2, <1>3, <2>1 DEF ServedOnce, Served
  <2>2. QED
    BY <1>2, <1>5, <2>1 DEF ServedOnce, Unarchived, Busy
<1>6. ASSUME NEW p \in RetryPlanes(mem, issued[c].scope), ApplyRetry(p), place[mem.run[p]] = "active"
      PROVE  ServedOnce'
  <2>1. mem' = WithoutRun(mem, p, TRUE) /\ saved' = mem' /\ requeued' = [requeued EXCEPT ![c] = requeued[c] + 1]
    BY <1>1, <1>6 DEF ApplyRetry
  <2>2. p \in Planes
    BY DEF RetryPlanes, ActivePlanes
  <2>3. ActivePlanes(mem') \subseteq ActivePlanes(mem) \ {p}
    BY <1>4, <2>1, <2>2, WithoutFacts
  <2>4. requeued[c] = 0
    <3>1. requeued[c] # 0 => Served(mem, c)
      BY <1>4 DEF ServedOnce, Unarchived
    <3>2. QED
      BY <3>1, ServedFindsNone
  <2>5. Served(mem', c)
    BY <2>3, RetryServes
  <2>6. Served(mem, c)' /\ Served(saved, c)'
    BY <1>2, <2>1, <2>5 DEF Served
  <2>7. ASSUME NEW d \in Ids, Unarchived(d) PROVE Served(mem, d)' /\ Served(saved, d)'
    BY <1>2, <1>3, <2>1, <2>7 DEF ServedOnce, Served
  <2>8. \A d \in Ids : requeued'[d] = IF d = c THEN 1 ELSE requeued[d]
    BY <1>4, <2>1, <2>4
  <2>9. QED
    BY <1>2, <1>4, <2>6, <2>7, <2>8 DEF ServedOnce, Unarchived, Busy
<1>7. \/ requeued' = requeued
      \/ \E p \in RetryPlanes(mem, issued[c].scope) : ApplyRetry(p) /\ place[mem.run[p]] = "active"
  BY <1>1 DEF ApplyCommand, ApplyRetry
<1>8. QED
  BY <1>5, <1>6, <1>7

(* An operator adds no run, and a new command has requeued nothing. *)
LEMMA OperatorServed ==
  ASSUME IInv, Lanes, Listing, ServedOnce, NEW o \in Operators, OperatorStep(o), clean'
  PROVE  ServedOnce'
<1>1. UNCHANGED <<mem, pc, listed, requeued>>
  BY OperatorFrame
<1>2. CASE OpPause(o) \/ OpResume(o) \/ OpStop(o) \/ OpRetrySave(o) \/ OpClearReset(o)
  <2>1. \A p \in Planes : saved'.run[p] = None \/ saved'.run[p] = saved.run[p]
    BY <1>2, DirectRuns
  <2>2. ActivePlanes(saved') \subseteq ActivePlanes(saved)
    BY <2>1 DEF ActivePlanes
  <2>3. UNCHANGED <<issued, pending>>
    BY <1>2 DEF OpPause, OpResume, OpStop, OpRetrySave, OpClearReset, DirectSave
  <2>4. QED
    BY <1>1, <2>2, <2>3, ServedStep
<1>3. CASE OpEnqueue(o)
  <2>1. /\ issued' = Append(issued, op[o].command) /\ pending' = pending \cup {Len(issued) + 1}
        /\ UNCHANGED saved
    BY <1>3 DEF OpEnqueue
  <2>2. /\ op[o].command \in AllCommands /\ issued \in Seq(AllCommands) /\ Len(issued) \in Nat
        /\ pending \subseteq 1..Len(issued)
    BY DEF IInv, TypeOK, OperatorRecords
  <2>3. \A c \in 1..Len(issued) : issued'[c] = issued[c]
    BY <2>1, <2>2
  <2>4. ASSUME NEW c \in Ids, Unarchived(c)' PROVE Unarchived(c) /\ issued'[c] = issued[c]
    <3>1. requeued[c] # 0
      BY <1>1, <2>4 DEF Unarchived
    <3>2. c \in 1..Len(issued)
      BY <3>1 DEF Listing
    <3>3. c # Len(issued) + 1
      BY <2>2, <3>2
    <3>4. QED
      BY <2>1, <2>3, <2>4, <3>1, <3>2, <3>3 DEF Unarchived
  <2>5. QED
    BY <1>1, <2>1, <2>4 DEF ServedOnce, Served
<1>4. CASE OpLoad(o) \/ OpInspect(o) \/ OpRetryMove(o) \/ OpRetrySkip(o) \/ OpClearRequeue(o)
           \/ OpClearLock(o) \/ OpCrash(o)
  <2>1. UNCHANGED <<issued, pending, saved>>
    BY <1>4 DEF OpLoad, OpInspect, OpRetryMove, OpRetrySkip, OpClearRequeue, OpClearLock, OpCrash
  <2>2. QED
    BY <1>1, <2>1, ServedStep
<1>5. QED
  BY <1>2, <1>3, <1>4 DEF OperatorStep

(* Every step that loses no update requeues a retry's run once. *)
LEMMA NextServed ==
  ASSUME IInv, Lanes, Listing, ServedOnce, [Next]_vars, clean'
  PROVE  ServedOnce'
<1>1. ASSUME NEW o \in Operators, OperatorStep(o) PROVE ServedOnce'
  BY <1>1, OperatorServed
<1>2. CASE Govern \/ LaunchActive \/ Disown \/ StartClaims \/ ClaimMove \/ NoClaim \/ Activate
           \/ Launch \/ RunStage \/ SettleMove \/ SettleSave \/ SettleConflict \/ SettleFails
           \/ EndCycle \/ StopRequested \/ NextIteration
  <2>1. pc \in Busy \cup {"govern", "loop"} /\ UNCHANGED <<requeued, pending>>
    BY <1>2 DEF Govern, LaunchActive, Disown, StartClaims, ClaimMove, NoClaim, Activate, Launch,
       RunStage, SettleMove, SettleSave, SettleConflict, SettleFails, EndCycle, StopRequested,
       NextIteration, Busy, mail, history
  <2>2. QED
    BY <2>1, NoneUnarchived
<1>3. CASE UNCHANGED vars
  BY <1>3, ServedStep DEF vars
<1>4. QED
  BY <1>1, <1>2, <1>3, SessionServed, EndServed, CycleFailsServed, DrainServed,
     Outcomes, ApplyServed, HalvedDirty DEF Next, DaemonStep, Fault

-----------------------------------------------------------------------------
(* The theorems of this part *)

(* A new workspace has nothing to lose. *)
LEMMA InitKept == Init => Kept
<1> SUFFICES ASSUME Init PROVE Kept
  OBVIOUS
<1>1. Owned
  BY FreshFacts DEF Init, Owned, OwnsBut
<1>2. Listing /\ ServedOnce
  BY DEF Init, Listing, ServedOnce, Unarchived
<1>3. held = FALSE
  BY DEF Init
<1>4. ~(clean /\ held)
  BY <1>3, Zenon
<1>5. QED
  BY <1>1, <1>2, <1>4 DEF Kept

(* Every step keeps runs, pauses and retries where the invariant says. *)
LEMMA NextKept == ASSUME IInv, Lanes, Kept, [Next]_vars PROVE Kept'
<1>1. Listing /\ Listing'
  BY ListingStep DEF Kept
<1>2. ASSUME clean' PROVE Owned' /\ ServedOnce'
  <2>1. Owned /\ ServedOnce
    BY <1>2, CleanStep DEF Kept
  <2>2. QED
    BY <1>1, <1>2, <2>1, NextOwned, NextServed
<1>3. ASSUME clean', held' PROVE Paused'
  <2>1. held => Paused
    BY <1>3, CleanStep DEF Kept
  <2>2. QED
    BY <1>3, <2>1, NextPaused
<1>4. QED
  BY <1>1, <1>2, <1>3 DEF Kept

(* The three invariants hold together in every state that is reached. *)
LEMMA AlwaysKept == Spec => [](IInv /\ Lanes /\ Kept)
<1>1. Init => IInv /\ Lanes /\ Kept
  BY InitIInv, InitLanes, InitKept
<1>2. IInv /\ Lanes /\ Kept /\ [Next]_vars => IInv' /\ Lanes' /\ Kept'
  BY InductiveStep, NextLanes, NextKept
<1>3. QED
  BY <1>1, <1>2, PTL DEF Spec

(* No stage runs for a work item that is not in its active directory, as long
   as no update was lost: for any policy, any set of items, any number of
   operators that retry, clear and stop beside the daemon and between its
   sessions, and any number of crashes and failures. *)
THEOREM RunsOwnItems == Spec => []RunOwnsItem
<1>1. IInv /\ Lanes /\ Kept => RunOwnsItem
  <2> SUFFICES ASSUME IInv, Lanes, Kept, clean,
                      NEW p \in worker \ (IF pc = "settle" THEN {lane} ELSE {})
               PROVE  place[mem.run[p]] = "active"
    BY DEF RunOwnsItem
  <2>1. pc \notin {"off", "load", "release"} /\ p \in ActivePlanes(mem)
    BY DEF Lanes, Workers, Busy
  <2>2. QED
    BY <2>1 DEF Kept, Owned, OwnsBut
<1>2. QED
  BY <1>1, AlwaysKept, PTL

(* A retry-active command of the mailbox requeues one run at most, as long as
   no update was lost: applied again by the daemon after a crash before its
   archival, it finds no run, because nothing is activated in between. *)
THEOREM RetriesOnce == Spec => []RetriedOnce
<1>1. Kept => RetriedOnce
  BY DEF Kept, ServedOnce, RetriedOnce
<1>2. QED
  BY <1>1, AlwaysKept, PTL

(* From the moment an operator's pause took effect until a resume, a completed
   stop or a clear-stale, no stage starts, whichever daemon runs and whatever
   crashed between: a pause is in the file or the session that reads it next. *)
THEOREM PausesHold == Spec => PauseHeld
<1>1. ASSUME Lanes, Kept, clean /\ held, [Next]_vars PROVE worker' \subseteq worker
  <2>1. pc \notin Busy
    BY <1>1 DEF Kept, Paused
  <2>2. ASSUME NEW o \in Operators, OperatorStep(o) PROVE worker' = worker
    BY <2>2, OperatorFrame
  <2>3. CASE ~\E o \in Operators : OperatorStep(o)
    BY <1>1, <2>1, <2>3 DEF Next, Acquire, DaemonStep, Load, Detect, SaveStartup, Intake, Apply,
       Archive, Reject, EndDrain, Govern, LaunchActive, Disown, StartClaims, ClaimMove, NoClaim, Activate,
       Launch, RunStage, SettleMove, SettleSave, SettleConflict, EndCycle, StopRequested,
       NextIteration, CloseSave, Release, Fault, StartupFails, ApplyFails, CycleFails, SettleFails,
       Crash, EndSession, Busy, cycle, vars
  <2>4. QED
    BY <2>2, <2>3
<1>2. Lanes /\ Kept /\ [Next]_vars => [clean /\ held => worker' \subseteq worker]_vars
  BY <1>1
<1>3. QED
  BY <1>2, AlwaysKept, PTL DEF Spec, PauseHeld
=============================================================================
