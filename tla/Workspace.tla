----------------------------- MODULE Workspace -----------------------------
(***************************************************************************)
(* A workspace's directories and default files, the epoch marker that says *)
(* which package's documents they hold, the reset that archives documents  *)
(* of an older epoch, and the doctor that tells an operator whether the    *)
(* daemon can start (workspace.rs, workspace/schema_epoch.rs,              *)
(* workspace/doctor.rs and the checks of startup_runtime_once_for_paths).  *)
(*                                                                         *)
(* Directories: "state" holds the marker, the manifest, the daemon's lock  *)
(* and "snapshot", which stands for the recovery counters and the status   *)
(* files too; "work" stands for the task, spec, incident and learning      *)
(* directories, "blueprints" for the drafts and packets.  Of the files at  *)
(* the root "config" stands for millrace.toml, the outline and the history *)
(* log.  A document of another epoch does not parse.  ManagedAssets models *)
(* the asset files and RuntimeLock how the lock is taken.                  *)
(***************************************************************************)
EXTENDS Naturals, Sequences

CONSTANTS
    Epochs,         \* package epochs are released as 1..Epochs
    MaxFaults       \* bound on files removed or garbled, failing resets and processes that die

VARIABLES
    epoch,      \* epoch the installed package expects
    docs,       \* directory -> epoch of its documents, Empty or Absent
    file,       \* file -> "none", "torn" or "ok"
    marker,     \* epoch named by a readable marker, or 0
    lock,       \* "none", "live" or "stale"
    daemon,     \* [at, v]: its epoch, and how far it is
    init,       \* [at, v, next]: an initialization by a command
    reset,      \* [at, v, next]: the archive and reset
    resetLock,  \* the reset's lock file exists
    faults,
    forged,     \* history: a marker was written over documents of another epoch
    raced       \* history: a daemon started while a reset was under way

vars == <<epoch, docs, file, marker, lock, daemon, init, reset, resetLock, faults, forged, raced>>

Dirs == {"state", "work", "blueprints"}
Empty == 0
Absent == Epochs + 1
InState == {"snapshot", "marker", "manifest"}
Files == InState \cup {"config"}
Idle == [at |-> "idle", v |-> 0, next |-> 1]

\* Default files in the order of their paths; the manifest comes after them.
Payloads == <<"config", "snapshot", "marker">>

TypeOK ==
    /\ epoch \in 1..Epochs
    /\ docs \in [Dirs -> 0..Epochs + 1]
    /\ file \in [Files -> {"none", "torn", "ok"}]
    /\ marker \in 0..Epochs
    /\ (marker # 0) <=> (file["marker"] = "ok")
    /\ docs["state"] = Absent =>
          lock = "none" /\ \A f \in InState : file[f] = "none"
    /\ lock \in {"none", "live", "stale"}
    /\ daemon.at \in {"down", "checked", "locked", "running"}
    /\ \A p \in {init, reset} :
          p.v \in 0..Epochs /\ p.next \in 1..Len(Payloads) + 1
    /\ resetLock \in BOOLEAN /\ forged \in BOOLEAN /\ raced \in BOOLEAN
    /\ faults \in 0..MaxFaults

Init ==
    /\ epoch = 1
    /\ docs = [d \in Dirs |-> Absent]
    /\ file = [f \in Files |-> "none"]
    /\ marker = 0
    /\ lock = "none"
    /\ daemon = [at |-> "down", v |-> 0]
    /\ init = Idle /\ reset = Idle
    /\ resetLock = FALSE
    /\ faults = 0
    /\ forged = FALSE /\ raced = FALSE

\* Documents the reset knows of that the epoch v cannot read, and a daemon
\* that will write such documents.
Stale(v) == docs["work"] \in 1..Epochs \ {v}

Foreign(v) == Stale(v) \/ (daemon.at # "down" /\ daemon.v # v)

----------------------------------------------------------------------------
\* A new package, and damage.

NewPackage ==
    /\ epoch < Epochs
    /\ epoch' = epoch + 1
    /\ UNCHANGED <<docs, file, marker, lock, daemon, init, reset, resetLock,
                   faults, forged, raced>>

Damage(f) ==
    /\ faults < MaxFaults
    /\ file[f] = "ok"
    /\ faults' = faults + 1
    /\ \E c \in {"none", "torn"} : file' = [file EXCEPT ![f] = c]
    /\ marker' = IF f = "marker" THEN 0 ELSE marker
    /\ UNCHANGED <<epoch, docs, lock, daemon, init, reset, resetLock, forged, raced>>

----------------------------------------------------------------------------
\* Initialization, by a command (init) or inside a reset: the directories,
\* then each default file that is missing, created and then filled, then the
\* manifest.

Created(d, c) == IF c = Absent THEN Empty ELSE c

AllCreated == [d \in Dirs |->
    IF d = "blueprints" THEN docs[d] ELSE Created(d, docs[d])]

InitStart ==
    /\ init.at = "idle"
    /\ init' = [at |-> "files", v |-> epoch, next |-> 1]
    /\ docs' = AllCreated
    /\ UNCHANGED <<epoch, file, marker, lock, daemon, reset, resetLock, faults, forged, raced>>

\* write_if_missing: what exists is kept, and a missing parent directory made.
Missing(p) == file[Payloads[p.next]] = "none"

OpenedIn(f) == IF f \in InState
               THEN [docs EXCEPT !["state"] = Created("state", @)] ELSE docs

\* One file of the initialization p, which becomes q.
FileStep(p, q) ==
    LET f == Payloads[p.next]
    IN \/ /\ p.at = "files" /\ ~Missing(p)
          /\ q = [p EXCEPT !.next = @ + 1]
          /\ UNCHANGED <<docs, file, marker, forged>>
       \/ /\ p.at = "files" /\ Missing(p)
          /\ q = [p EXCEPT !.at = "open"]
          /\ file' = [file EXCEPT ![f] = "torn"]
          /\ docs' = OpenedIn(f)
          /\ UNCHANGED <<marker, forged>>
       \/ /\ p.at = "open"
          /\ q = [p EXCEPT !.at = "files", !.next = @ + 1]
          /\ IF file[f] = "torn"
             THEN /\ file' = [file EXCEPT ![f] = "ok"]
                  /\ marker' = IF f = "marker" THEN p.v ELSE marker
                  /\ forged' = (forged \/ (f = "marker" /\ Foreign(p.v)))
             ELSE UNCHANGED <<file, marker, forged>>
          /\ UNCHANGED docs

\* The manifest is written atomically, if there is none.
ManifestWritten ==
    /\ docs' = OpenedIn("manifest")
    /\ file' = IF file["manifest"] = "none"
               THEN [file EXCEPT !["manifest"] = "ok"] ELSE file

InitFile ==
    /\ init.at \in {"files", "open"}
    /\ init.next <= Len(Payloads)
    /\ FileStep(init, init')
    /\ UNCHANGED <<epoch, lock, daemon, reset, resetLock, faults,
                   raced>>

InitEnds ==
    /\ init.at = "files"
    /\ init.next > Len(Payloads)
    /\ ManifestWritten
    /\ init' = Idle
    /\ UNCHANGED <<epoch, marker, lock, daemon, reset, resetLock, faults, forged, raced>>

----------------------------------------------------------------------------
\* The daemon: startup refuses a workspace that is not initialized or whose
\* marker is of another epoch, takes the lock, reads the snapshot and the
\* counters, and from then on writes documents.

Required == {"manifest", "config"}

Initialized ==
    /\ \A d \in {"state", "work"} : docs[d] # Absent
    /\ \A f \in Required : file[f] # "none"

\* Defect: only a readable marker of another epoch stops the startup.
MarkerCurrentOrUnreadable(v) == marker \in {0, v}

MarkerCurrent(v) == marker = v

DaemonChecks ==
    /\ daemon.at = "down"
    /\ Initialized
    /\ MarkerCurrent(epoch)
    /\ daemon' = [at |-> "checked", v |-> epoch]
    /\ UNCHANGED <<epoch, docs, file, marker, lock, init, reset, resetLock,
                   faults, forged, raced>>

DaemonLocks ==
    /\ daemon.at = "checked"
    /\ IF lock = "none"
       THEN /\ lock' = "live"
            /\ docs' = OpenedIn("manifest")
            /\ daemon' = [daemon EXCEPT !.at = "locked"]
            /\ raced' = (raced \/ reset.at # "idle")
       ELSE /\ daemon' = [at |-> "down", v |-> 0]
            /\ UNCHANGED <<lock, docs, raced>>
    /\ UNCHANGED <<epoch, file, marker, init, reset, resetLock, faults, forged>>

\* A snapshot that cannot be read ends the startup, and the lock
\* is released if it is still there.
StateLoads == file["snapshot"] = "ok"

DaemonLoads ==
    /\ daemon.at = "locked"
    /\ IF StateLoads
       THEN daemon' = [daemon EXCEPT !.at = "running"] /\ UNCHANGED lock
       ELSE daemon' = [at |-> "down", v |-> 0] /\ lock' = "none"
    /\ UNCHANGED <<epoch, docs, file, marker, init, reset, resetLock, faults, forged, raced>>

DaemonWrites(d) ==
    /\ daemon.at = "running"
    /\ d # "state"
    /\ docs' = [docs EXCEPT ![d] = daemon.v]
    /\ UNCHANGED <<epoch, file, marker, lock, daemon, init, reset, resetLock,
                   faults, forged, raced>>

DaemonStops ==
    /\ daemon.at = "running"
    /\ daemon' = [at |-> "down", v |-> 0]
    /\ lock' = "none"
    /\ UNCHANGED <<epoch, docs, file, marker, init, reset, resetLock, faults, forged, raced>>

DaemonDies ==
    /\ daemon.at \in {"locked", "running"}
    /\ faults < MaxFaults
    /\ faults' = faults + 1
    /\ daemon' = [at |-> "down", v |-> 0]
    /\ lock' = IF lock = "live" THEN "stale" ELSE lock
    /\ UNCHANGED <<epoch, docs, file, marker, init, reset, resetLock,
                   forged, raced>>

\* An operator clears the lock of a daemon that died.
ClearStale ==
    /\ lock = "stale"
    /\ lock' = "none"
    /\ UNCHANGED <<epoch, docs, file, marker, daemon, init, reset, resetLock,
                   faults, forged, raced>>

----------------------------------------------------------------------------
\* The reset: it looks at the daemon's lock, takes a lock of its own, moves
\* the mutable directories into an archive one by one, initializes, writes
\* the marker and records what it moved.

\* Defect: a directory added to the workspace is not added to the list.
MutableNamesForgotten == <<"state">>

MutableNames == <<"state", "work">>

ResetStart ==
    /\ reset.at = "idle"
    /\ lock # "live"
    /\ reset' = [at |-> "unowned", v |-> epoch, next |-> 1]
    /\ UNCHANGED <<epoch, docs, file, marker, lock, daemon, init, resetLock,
                   faults, forged, raced>>

\* create_new fails on a lock file a dead reset left, for good.
ResetLocks ==
    /\ reset.at = "unowned"
    /\ IF resetLock
       THEN reset' = Idle /\ UNCHANGED resetLock
       ELSE reset' = [reset EXCEPT !.at = "moving"] /\ resetLock' = TRUE
    /\ UNCHANGED <<epoch, docs, file, marker, lock, daemon, init, faults, forged, raced>>

ResetMoves ==
    /\ reset.at = "moving"
    /\ reset.next <= Len(MutableNames)
    /\ LET d == MutableNames[reset.next]
       IN /\ docs' = [docs EXCEPT ![d] = Absent]
          /\ IF d = "state"
             THEN /\ file' = [f \in Files |->
                                IF f \in InState THEN "none" ELSE file[f]]
                  /\ marker' = 0
                  /\ lock' = "none"
             ELSE UNCHANGED <<file, marker, lock>>
    /\ reset' = [reset EXCEPT !.next = @ + 1]
    /\ UNCHANGED <<epoch, daemon, init, resetLock, faults, forged,
                   raced>>

ResetCreates ==
    /\ reset.at = "moving"
    /\ reset.next > Len(MutableNames)
    /\ docs' = AllCreated
    /\ reset' = [reset EXCEPT !.at = "files", !.next = 1]
    /\ UNCHANGED <<epoch, file, marker, lock, daemon, init, resetLock, faults, forged, raced>>

ResetFile ==
    /\ reset.at \in {"files", "open"}
    /\ reset.next <= Len(Payloads)
    /\ FileStep(reset, reset')
    /\ UNCHANGED <<epoch, lock, daemon, init, resetLock, faults,
                   raced>>

ResetManifest ==
    /\ reset.at = "files"
    /\ reset.next > Len(Payloads)
    /\ ManifestWritten
    /\ reset' = [reset EXCEPT !.at = "marking", !.next = 1]
    /\ UNCHANGED <<epoch, marker, lock, daemon, init, resetLock, faults, forged, raced>>

ResetMarks ==
    /\ reset.at = "marking"
    /\ file' = [file EXCEPT !["marker"] = "ok"]
    /\ marker' = reset.v
    /\ docs' = OpenedIn("marker")
    /\ forged' = (forged \/ Foreign(reset.v))
    /\ reset' = [reset EXCEPT !.at = "recording"]
    /\ UNCHANGED <<epoch, lock, daemon, init, resetLock, faults,
                   raced>>

\* The archive's manifest is written, the reset's lock removed.
ResetEnds ==
    /\ reset.at = "recording"
    /\ reset' = Idle
    /\ resetLock' = FALSE
    /\ UNCHANGED <<epoch, docs, file, marker, lock, daemon, init, faults, forged, raced>>

\* A step of the reset fails on an error of the file system: the lock of the
\* reset is removed, what was moved or written stays.
ResetFails ==
    /\ reset.at \notin {"idle", "unowned"}
    /\ faults < MaxFaults
    /\ faults' = faults + 1
    /\ reset' = Idle
    /\ resetLock' = FALSE
    /\ UNCHANGED <<epoch, docs, file, marker, lock, daemon, init, forged, raced>>

\* An initialization or a reset dies; the lock of the reset stays.
CommandDies ==
    /\ faults < MaxFaults
    /\ faults' = faults + 1
    /\ \/ init.at # "idle" /\ init' = Idle /\ UNCHANGED reset
       \/ reset.at # "idle" /\ reset' = Idle /\ UNCHANGED init
    /\ UNCHANGED <<epoch, docs, file, marker, lock, daemon, resetLock,
                   forged, raced>>

----------------------------------------------------------------------------
\* The doctor's errors and warnings.

LayoutErrors ==
    {d \in Dirs \ {"blueprints"} : docs[d] = Absent}
        \cup {f \in {"config", "snapshot"} :
                file[f] = "none"}

ManifestErrors == {f \in {"manifest"} : file[f] # "ok"}

StateErrors == {f \in {"snapshot"} : file[f] # "ok"}

MarkerWarnings == {f \in {"marker"} : marker # epoch}

LockErrors == {l \in {lock} : l = "stale"}

LockWarnings == {l \in {lock} : l = "live"}

\* Documents that do not parse.
QueueErrors == {d \in {"work"} : docs[d] \in 1..Epochs \ {epoch}}

BlueprintErrors == {d \in {"blueprints"} : docs[d] \in 1..Epochs \ {epoch}}

DoctorErrors ==
    LayoutErrors \cup ManifestErrors \cup StateErrors \cup LockErrors
        \cup QueueErrors \cup BlueprintErrors

DoctorWarnings == MarkerWarnings \cup LockWarnings

Next ==
    \/ NewPackage
    \/ \E f \in Files : Damage(f)
    \/ InitStart \/ InitFile \/ InitEnds
    \/ DaemonChecks \/ DaemonLocks \/ DaemonLoads
    \/ \E d \in Dirs : DaemonWrites(d)
    \/ DaemonStops \/ DaemonDies \/ ClearStale
    \/ ResetStart \/ ResetLocks \/ ResetMoves \/ ResetCreates \/ ResetFile
    \/ ResetManifest \/ ResetMarks \/ ResetEnds \/ ResetFails
    \/ CommandDies

Spec == Init /\ [][Next]_vars

----------------------------------------------------------------------------
\* In a workspace the doctor finds neither an error nor a warning in, the
\* daemon starts: whatever crashes, half resets and damage left behind, its
\* checks cover those of startup_runtime_once_for_paths, and nothing in the
\* queues it reads is left over (run_workspace_doctor_for_paths; the contents
\* of millrace.toml are not among its checks).
DoctorSound ==
    DoctorErrors = {} /\ DoctorWarnings = {} =>
        /\ Initialized /\ MarkerCurrent(epoch)
        /\ lock = "none" /\ StateLoads
        /\ docs["work"] \in {Empty, epoch}

\* The marker is what keeps a daemon off documents of another epoch: it only
\* ever runs over such documents when an initialization forged a marker for
\* them, because the old one was gone, or when it started during a reset.
RunsOnItsEpoch ==
    daemon.at = "running" => ~Stale(daemon.v) \/ forged \/ raced

\* A reset that writes its marker has moved every document of another epoch
\* it knows of away, unless a daemon slipped in behind its look at the lock
\* (archive_reset_workspace_schema_with_options).
ResetClean ==
    [][reset.at = "marking" /\ reset'.at = "recording" =>
          ~Stale(reset.v) \/ raced]_vars
=============================================================================
