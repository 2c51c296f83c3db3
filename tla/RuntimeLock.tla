---------------------------- MODULE RuntimeLock ----------------------------
(***************************************************************************)
(* The runtime ownership lock of one workspace                              *)
(* (src/workspace/runtime_lock.rs): a JSON file that a daemon creates with  *)
(* create_new, fills in a second step, and unlinks when it closes.  Other   *)
(* processes inspect the file and `clear-stale` unlinks it when the record  *)
(* is unreadable or its pid is not running.                                 *)
(*                                                                         *)
(* One element of Daemon (Operator) is one invocation of a daemon startup   *)
(* (of clear-stale).  Every file-system call is a step of its own, a        *)
(* process may die between any two, and pids are reused.  The build is the  *)
(* one for Unix; elsewhere every recorded pid but the caller's own counts   *)
(* as not running.                                                          *)
(***************************************************************************)
EXTENDS FiniteSets, Naturals

CONSTANTS
    Daemon,     \* invocations that start a runtime and later close it
    Operator,   \* invocations of clear-stale
    Pid,        \* process ids of the machine
    NoPid,      \* a process that has not started
    NoLock,     \* the lock file is absent
    OtherRoot,  \* a lock file copied from another workspace
    MaxOthers   \* bound: unrelated processes that run at a time

ASSUME DisjointRoles ==
    /\ Daemon \cap Operator = {}
    /\ NoLock \notin Daemon
    /\ OtherRoot \notin Daemon
    /\ OtherRoot # NoLock
    /\ NoPid \notin Pid

VARIABLES
    lock,       \* what is at the lock path: NoLock, or who created that file
    written,    \* the daemons whose file holds the whole record
    pc,         \* the next step of each process
    pid,        \* the pid of each process that has started
    seen,       \* the file each process read last
    others      \* pids of unrelated running processes

vars == <<lock, written, pc, pid, seen, others>>

Proc == Daemon \cup Operator
LockFile == Daemon \cup {NoLock, OtherRoot}

\* "refused" is the end of a process whose unlink failed: the file stays.
Finished == {"done", "dead", "cleared", "misfired", "refused"}
\* A daemon that has created a lock file and still runs.
Holding == {"write", "owner", "unlink"}

Running(p) == pc[p] \notin Finished \cup {"new"}
PidRunning(i) == i \in others \/ \E p \in Proc : Running(p) /\ pid[p] = i

(***************************************************************************)
(* The verdicts of inspect_runtime_ownership_lock.  A file that is empty,   *)
(* cut short or of another workspace is Invalid whatever its pid.           *)
(***************************************************************************)
Invalid(f) == f \notin written \cup {NoLock}
\* Defect: every complete record of another session is stale.
StaleWithoutPid(f) == f \in written
Stale(f) == f \in written /\ ~PidRunning(pid[f])

Goto(p, label) == pc' = [pc EXCEPT ![p] = label]
Become(p, from, to) == pc[p] = from /\ Goto(p, to)

-----------------------------------------------------------------------------
Init ==
    /\ lock \in {NoLock, OtherRoot}
    /\ written = {}
    /\ pc = [p \in Proc |-> "new"]
    /\ pid = [p \in Proc |-> NoPid]
    /\ seen = [p \in Proc |-> NoLock]
    /\ others = {}

\* The operating system starts process p under a pid nobody has.
Start(p) ==
    /\ Become(p, "new", IF p \in Daemon THEN "create" ELSE "read")
    /\ \E i \in Pid : ~PidRunning(i) /\ pid' = [pid EXCEPT ![p] = i]
    /\ UNCHANGED <<lock, written, seen, others>>

\* Defect: an existing file is truncated.
CreateOver(d) ==
    /\ Become(d, "create", "write")
    /\ lock' = d
    /\ UNCHANGED <<written, pid, seen, others>>

\* acquire: create_new succeeds only when nothing is at the path.
CreateNew(d) ==
    /\ pc[d] = "create"
    /\ IF lock = NoLock
       THEN lock' = d /\ Goto(d, "write")
       ELSE UNCHANGED lock /\ Goto(d, "done")     \* AlreadyHeld
    /\ UNCHANGED <<written, pid, seen, others>>

\* acquire: write_all, flush and sync_all on the open file, wherever it is now.
WriteRecord(d) ==
    /\ Become(d, "write", "owner")
    /\ written' = written \cup {d}
    /\ UNCHANGED <<lock, pid, seen, others>>

\* Defect: the half-written file stays.
WriteFailsLeaving(d) ==
    /\ Become(d, "write", "done")
    /\ UNCHANGED <<lock, written, pid, seen, others>>

\* acquire: the write failed, and whatever is at the path is removed.
WriteFails(d) ==
    /\ Become(d, "write", "done")
    /\ lock' = NoLock
    /\ UNCHANGED <<written, pid, seen, others>>

\* acquire: the write failed, perhaps after the last byte of the record, and
\* the removal fails too, which the code ignores: the file stays.
WriteAndUnlinkFail(d) ==
    /\ Become(d, "write", "refused")
    /\ written' \in {written, written \cup {d}}
    /\ UNCHANGED <<lock, pid, seen, others>>

\* release, clear-stale: remove_file fails and its error is returned.
UnlinkFails(p) ==
    /\ pc[p] \in {"unlink", "unlinkStale", "unlinkInvalid"}
    /\ Goto(p, "refused")
    /\ UNCHANGED <<lock, written, pid, seen, others>>

\* release: the record must parse and carry this session's id.
ReleaseRead(d) ==
    /\ pc[d] = "owner"
    /\ seen' = [seen EXCEPT ![d] = lock]
    /\ Goto(d, IF lock = d /\ ~Invalid(lock) THEN "unlink" ELSE "done")
    /\ UNCHANGED <<lock, written, pid, others>>

\* release: remove_file names the path, not the file that was read.
ReleaseUnlink(d) ==
    /\ Become(d, "unlink", "done")
    /\ lock' = NoLock
    /\ UNCHANGED <<written, pid, seen, others>>

\* clear-stale, inspect: read the file; an unreadable record needs no pid check.
ClearRead(o) ==
    /\ pc[o] = "read"
    /\ seen' = [seen EXCEPT ![o] = lock]
    /\ Goto(o, IF lock = NoLock THEN "done"
               ELSE IF Invalid(lock) THEN "unlinkInvalid" ELSE "classify")
    /\ UNCHANGED <<lock, written, pid, others>>

\* clear-stale, inspect: is the recorded pid running?  An active owner is kept.
ClearClassify(o) ==
    /\ Become(o, "classify", IF Stale(seen[o]) THEN "unlinkStale" ELSE "done")
    /\ UNCHANGED <<lock, written, pid, seen, others>>

\* clear-stale: remove_file, whatever is at the path by now.  The label records
\* whether the file belonged to a running daemon; the code does not look.
ClearUnlink(o) ==
    /\ pc[o] \in {"unlinkStale", "unlinkInvalid"}
    /\ Goto(o, IF \E d \in Daemon : lock = d /\ pc[d] \in Holding
               THEN "misfired" ELSE "cleared")
    /\ lock' = NoLock
    /\ UNCHANGED <<written, pid, seen, others>>

\* A process dies between two calls.  Its pid is free again, its file stays.
Crash(p) ==
    /\ Running(p)
    /\ Goto(p, "dead")
    /\ UNCHANGED <<lock, written, pid, seen, others>>

\* Unrelated processes come and go, possibly under a dead daemon's pid.
OtherStarts(i) ==
    /\ ~PidRunning(i) /\ Cardinality(others) < MaxOthers
    /\ others' = others \cup {i}
    /\ UNCHANGED <<lock, written, pc, pid, seen>>

OtherExits(i) ==
    /\ i \in others
    /\ others' = others \ {i}
    /\ UNCHANGED <<lock, written, pc, pid, seen>>

DaemonStep(d) ==
    \/ CreateNew(d)
    \/ WriteRecord(d)
    \/ WriteFails(d)
    \/ WriteAndUnlinkFail(d)
    \/ ReleaseRead(d)
    \/ ReleaseUnlink(d)
    \/ UnlinkFails(d)

OperatorStep(o) ==
    \/ ClearRead(o)
    \/ ClearClassify(o)
    \/ ClearUnlink(o)
    \/ UnlinkFails(o)

Next ==
    \/ \E p \in Proc : Start(p) \/ Crash(p)
    \/ \E d \in Daemon : DaemonStep(d)
    \/ \E o \in Operator : OperatorStep(o)
    \/ \E i \in Pid : OtherStarts(i) \/ OtherExits(i)

Spec == Init /\ [][Next]_vars
-----------------------------------------------------------------------------
Label == Holding \cup Finished
    \cup {"new", "create", "read", "classify", "unlinkStale", "unlinkInvalid"}

\* The variables have their types.
TypeOK ==
    /\ lock \in LockFile
    /\ written \subseteq Daemon
    /\ pc \in [Proc -> Label]
    /\ pid \in [Proc -> Pid \cup {NoPid}]
    /\ seen \in [Proc -> LockFile]
    /\ others \subseteq Pid

\* Two startups never both hold the workspace, as long as no clear-stale has
\* unlinked the file of a running one: create_new arbitrates every startup, and
\* neither a failed write, a release, a crash nor a reused pid breaks it.
ExclusiveUntilMisfire ==
    (\A o \in Operator : pc[o] # "misfired") =>
        \A d, e \in Daemon : pc[d] \in Holding /\ pc[e] \in Holding => d = e

\* A lock file never outlives a startup that ended by itself: every early return
\* of acquire and release leaves the path free of that startup's own file, unless
\* the file system refuses the unlink.
NoLeakedLock == lock \in Daemon => pc[lock] # "done"

\* clear-stale calls a complete record stale only when its daemon no longer runs,
\* whoever has taken the pid or the path since, and that stays so to the unlink.
StaleVerdictSound ==
    \A o \in Operator : pc[o] = "unlinkStale" => pc[seen[o]] \notin Holding
=============================================================================
