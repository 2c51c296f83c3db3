----------------------------- MODULE WorkQueue -----------------------------
(***************************************************************************)
(* The work-item queue of a workspace (src/workspace/queue_store.rs,        *)
(* queue_lifecycle.rs, task_lifecycle_integrity.rs): a directory per        *)
(* lifecycle state, a file per work item, a state change is a rename.       *)
(*                                                                         *)
(* An operation is cut where it looks at the directories and acts later:    *)
(* check and write, check and rename, locate and archive, one dependent     *)
(* after another.  An actor may crash between two steps; `overlapped` turns *)
(* true when an operation starts while another actor is inside one.  The    *)
(* looks at the directories for one id are one step.                        *)
(* Incidents call the first and third state `incoming` and `resolved`.      *)
(***************************************************************************)
EXTENDS Naturals, Sequences

CONSTANTS
    Task, Spec, Probe, Incident, Learning,  \* the work items, by kind
    Age,        \* [Item -> Nat]: order of creation time, ties broken by kind and id
    Draft,      \* [Item -> documents an item may be filed with]
    Root,       \* root spec ids
    NoRoot,     \* no root spec id, no filter
    NoDoc,      \* no file
    Torn,       \* a file that does not parse
    NoItem,
    Daemon,     \* the runtime
    Client,     \* command-line invocations that act without a daemon
    Overlap     \* may an operation start while another is in progress?

Item == Task \cup Spec \cup Probe \cup Incident \cup Learning
Actor == {Daemon} \cup Client
State == {"queue", "active", "done", "blocked"}
Cascade == {"none", "retarget", "cancel"}
Document == [deps : Seq(Task), root : Root \cup {NoRoot}]

ASSUME QueueAssumption ==
    /\ \A x \in Item : Age[x] \in Nat /\ Draft[x] \subseteq Document
    /\ NoDoc # Torn /\ {NoDoc, Torn} \cap Document = {}
    /\ NoItem \notin Item /\ NoRoot \notin Root
    /\ Task \cap Learning = {}
    /\ (Task \cup Learning) \cap (Spec \cup Probe \cup Incident) = {}
    /\ Daemon \notin Client /\ Overlap \in BOOLEAN

VARIABLES
    doc,        \* doc[x][s]: the file of item x in state s
    archived,   \* the items of which an archive or the quarantine holds a document
    op,         \* what each actor is in the middle of
    filed,      \* history: the items a document was written for
    overlapped  \* history: two operations have been in progress at a time

vars == <<doc, archived, op, filed, overlapped>>

Kinds == {Task, Spec, Probe, Incident, Learning}
PlaneOf(x) ==
    IF x \in Task THEN Task
    ELSE IF x \in Learning THEN Learning ELSE Spec \cup Probe \cup Incident
Planes == {Task, Learning, Spec \cup Probe \cup Incident}

Has(x, s) == doc[x][s] # NoDoc
In(s) == {x \in Item : Has(x, s)}
Readable(x, s) == doc[x][s] \notin {NoDoc, Torn}
Range(q) == {q[i] : i \in DOMAIN q}
Count(q, e) == Len(SelectSeq(q, LAMBDA f : f = e))
IsOldest(x, S) == x \in S /\ \A y \in S : Age[x] <= Age[y]

NoRest == [mode |-> "none", old |-> NoItem, new |-> NoItem, todo |-> {}]
Idle == [step |-> "idle", item |-> NoItem, at |-> "queue",
         doc |-> NoDoc, rest |-> NoRest]
Busy(a) == op[a].step # "idle"

\* Actor a starts an operation; it overlaps those already in progress.
Begin(a, o) ==
    /\ ~Busy(a)
    /\ op' = [op EXCEPT ![a] = o]
    /\ overlapped' = (overlapped \/ \E b \in Actor : Busy(b))
    /\ overlapped' => Overlap

Continue(a, o) == op' = [op EXCEPT ![a] = o] /\ UNCHANGED overlapped
Return(a) == Continue(a, Idle)

\* fs::rename of the file of x from state s to state t.
Rename(x, s, t) ==
    doc' = [doc EXCEPT ![x] = [@ EXCEPT ![t] = doc[x][s], ![s] = NoDoc]]

-----------------------------------------------------------------------------
Init ==
    /\ doc = [x \in Item |-> [s \in State |-> NoDoc]]
    /\ archived = {}
    /\ op = [a \in Actor |-> Idle]
    /\ filed = {}
    /\ overlapped = FALSE

(***************************************************************************)
(* enqueue_*: the id must be absent from the four lifecycle directories     *)
(* (the archives are not consulted), then the file is written in place.     *)
(***************************************************************************)
Enqueue(a, x) ==
    /\ \A s \in State : ~Has(x, s)
    /\ \E d \in Draft[x] :
         Begin(a, [Idle EXCEPT !.step = "truncate", !.item = x, !.doc = d])
    /\ UNCHANGED <<doc, archived, filed>>

\* fs::write truncates or creates the file ...
Truncate(a) ==
    /\ op[a].step = "truncate"
    /\ doc' = [doc EXCEPT ![op[a].item]["queue"] = Torn]
    /\ filed' = filed \cup {op[a].item}
    /\ Continue(a, [op[a] EXCEPT !.step = "fill"])
    /\ UNCHANGED archived

\* ... and fills that file, in the directory it has been renamed to meanwhile.
Fill(a) ==
    LET x == op[a].item
    IN  /\ op[a].step = "fill"
        /\ \/ \E s \in State :
                 doc[x][s] = Torn /\ doc' = [doc EXCEPT ![x][s] = op[a].doc]
           \/ doc[x]["queue"] # Torn /\ UNCHANGED doc
        /\ Continue(a, [op[a] EXCEPT !.step = "cascade"])
        /\ UNCHANGED <<archived, filed>>

(***************************************************************************)
(* claim_next_*: nothing of the plane may be active; files that do not      *)
(* parse are quarantined during the scan; the oldest eligible item wins.    *)
(* Incidents come before probes and specs, and a root filter excludes       *)
(* probes.  Learning requests are claimed whatever the filter.              *)
(***************************************************************************)
\* Defect: a dependency that is merely neither queued nor active.
UnfinishedMoving(x) ==
    {d \in Range(doc[x]["queue"].deps) : Has(d, "queue") \/ Has(d, "active")}
Unfinished(x) == {d \in Range(doc[x]["queue"].deps) : ~Has(d, "done")}

Eligible(x, root) ==
    /\ Readable(x, "queue")
    /\ root = NoRoot \/ x \in Learning \/ doc[x]["queue"].root = root
    /\ x \in Probe => root = NoRoot
    /\ x \in Task => Unfinished(x) = {}

\* The queue directories a claim scans: probes and specs only when no incident is due.
Scanned(plane, root) ==
    LET due == {x \in plane \cap Incident : Eligible(x, root)}
    IN  IF due # {} THEN plane \cap Incident
        ELSE IF root # NoRoot THEN plane \ Probe ELSE plane

\* Defect: incidents in progress are forgotten.
PlaneFreeOfSpecs(plane) == (plane \ Incident) \cap In("active") = {}
PlaneFree(plane) == plane \cap In("active") = {}

Quarantine(S) ==
    /\ doc' = [x \in Item |->
         IF x \in S THEN [doc[x] EXCEPT !["queue"] = NoDoc] ELSE doc[x]]
    /\ archived' = archived \cup S

ClaimSelect(plane, root) ==
    LET scanned == Scanned(plane, root)
        torn == {x \in scanned : doc[x]["queue"] = Torn}
        eligible == {x \in scanned : Eligible(x, root)}
    IN  /\ PlaneFree(plane)
        /\ torn \cup eligible # {}
        /\ Quarantine(torn)
        /\ IF eligible = {} THEN Begin(Daemon, Idle)
           ELSE \E x \in eligible :
                  /\ IsOldest(x, eligible)
                  /\ Begin(Daemon, [Idle EXCEPT !.step = "claim", !.item = x])
        /\ UNCHANGED filed

\* The rename finds the file, or the claim selects again.
ClaimRename ==
    /\ op[Daemon].step = "claim"
    /\ IF Has(op[Daemon].item, "queue")
       THEN Rename(op[Daemon].item, "queue", "active") ELSE UNCHANGED doc
    /\ Return(Daemon)
    /\ UNCHANGED <<archived, filed>>

(***************************************************************************)
(* The lifecycle intents of an active item.  move_item_from_state refuses   *)
(* an occupied destination, and then renames: what was written there in     *)
(* between is overwritten.  Completing a task then looks for a blocked file *)
(* of the same id to retire.                                                *)
(***************************************************************************)
Finishing(x, s) == [Idle EXCEPT !.step = "finish", !.item = x, !.at = s]

\* Defect: an occupied destination is accepted.
FinishOver(x, s) ==
    /\ Has(x, "active")
    /\ Begin(Daemon, Finishing(x, s))
    /\ UNCHANGED <<doc, archived, filed>>

Finish(x, s) ==
    /\ Has(x, "active") /\ ~Has(x, s)
    /\ Begin(Daemon, Finishing(x, s))
    /\ UNCHANGED <<doc, archived, filed>>

FinishRename ==
    LET x == op[Daemon].item
        s == op[Daemon].at
    IN  /\ op[Daemon].step = "finish"
        /\ IF Has(x, "active")
           THEN /\ Rename(x, "active", s)
                /\ Continue(Daemon, IF x \in Task /\ s = "done"
                                    THEN [Idle EXCEPT !.step = "retire", !.item = x]
                                    ELSE Idle)
           ELSE UNCHANGED doc /\ Return(Daemon)
        /\ UNCHANGED <<archived, filed>>

\* The blocked file of the item is the stale predecessor of the done one.
Predecessor(x) ==
    /\ Readable(x, "blocked") /\ Readable(x, "done")
    /\ doc[x]["blocked"].root # NoRoot
    /\ doc[x]["blocked"].root = doc[x]["done"].root

\* Defect: the file is deleted.
Delete(x, s) == doc' = [doc EXCEPT ![x][s] = NoDoc] /\ UNCHANGED archived
MoveToArchive(x, s) ==
    /\ doc' = [doc EXCEPT ![x][s] = NoDoc]
    /\ archived' = archived \cup {x}

RetirePredecessor ==
    LET x == op[Daemon].item
    IN  /\ op[Daemon].step = "retire"
        /\ IF Predecessor(x)
           THEN MoveToArchive(x, "blocked") ELSE UNCHANGED <<doc, archived>>
        /\ Return(Daemon)
        /\ UNCHANGED filed

(***************************************************************************)
(* retry_blocked_task: the blocked task must be nowhere else; the requeue   *)
(* then only looks at the queue.                                            *)
(***************************************************************************)
\* Defect: only the blocked directory is looked at.
RetryUnchecked(a, x) ==
    /\ Readable(x, "blocked")
    /\ Begin(a, [Idle EXCEPT !.step = "requeue", !.item = x])
    /\ UNCHANGED <<doc, archived, filed>>

RetryBlocked(a, x) ==
    /\ Readable(x, "blocked")
    /\ \A s \in State \ {"blocked"} : ~Has(x, s)
    /\ Begin(a, [Idle EXCEPT !.step = "requeue", !.item = x])
    /\ UNCHANGED <<doc, archived, filed>>

\* move_item_from_state again: the check ...
RequeueBlocked(a) ==
    LET x == op[a].item
    IN  /\ op[a].step = "requeue"
        /\ IF Has(x, "blocked") /\ ~Has(x, "queue")
           THEN Continue(a, [op[a] EXCEPT !.step = "return"]) ELSE Return(a)
        /\ UNCHANGED <<doc, archived, filed>>

\* ... and the rename.
RequeueRename(a) ==
    /\ op[a].step = "return"
    /\ IF Has(op[a].item, "blocked")
       THEN Rename(op[a].item, "blocked", "queue") ELSE UNCHANGED doc
    /\ Return(a)
    /\ UNCHANGED <<archived, filed>>

(***************************************************************************)
(* Operator interventions: the item is located in exactly one of the        *)
(* allowed states, then its file is renamed into an archive.                *)
(***************************************************************************)
LocatedIn(x, allowed, s) == {t \in allowed : Has(x, t)} = {s}

Located(x, s, rest) ==
    [Idle EXCEPT !.step = "archive", !.item = x, !.at = s, !.rest = rest]

CancelItem(a, x) ==
    /\ x \notin Learning
    /\ \E s \in State :
         /\ LocatedIn(x, {"queue", "blocked"}, s)
         /\ Begin(a, Located(x, s, NoRest))
    /\ UNCHANGED <<doc, archived, filed>>

ArchiveBlocked(a, x) ==
    /\ LocatedIn(x, {"blocked"}, "blocked")
    /\ Begin(a, Located(x, "blocked", NoRest))
    /\ UNCHANGED <<doc, archived, filed>>

\* resolve_incident_by_operator and cancel_incident.
CloseIncident(a, x) ==
    /\ \E s \in State :
         /\ LocatedIn(x, {"queue", "active", "blocked"}, s)
         /\ Begin(a, Located(x, s, NoRest))
    /\ UNCHANGED <<doc, archived, filed>>

Usable(x) == \E s \in {"queue", "active", "done"} : Has(x, s)
Dependents(x) == {y \in Task : Readable(y, "queue") /\ x \in Range(doc[y]["queue"].deps)}

\* Defect: the replacement is spared.
OtherDependents(old, new) == Dependents(old) \ {new}
ToCascade(old, new) == Dependents(old)

Supersede(a, old, new) ==
    /\ old # new /\ Usable(new)
    /\ \E s \in State, mode \in Cascade :
         /\ LocatedIn(old, {"queue", "blocked"}, s)
         /\ Begin(a, Located(old, s,
                [mode |-> mode, old |-> old, new |-> new, todo |-> ToCascade(old, new)]))
    /\ UNCHANGED <<doc, archived, filed>>

\* The rename of a located file fails when the file has gone.
ArchiveLocated(a) ==
    /\ op[a].step = "archive"
    /\ IF Has(op[a].item, op[a].at)
       THEN /\ MoveToArchive(op[a].item, op[a].at)
            /\ Continue(a, [op[a] EXCEPT !.step = "cascade"])
       ELSE UNCHANGED <<doc, archived>> /\ Return(a)
    /\ UNCHANGED filed

\* retarget_queued_task_dependency checks the document it read ...
CanRetarget(x, old, new) ==
    Readable(x, "queue") /\ Usable(new) /\ Count(doc[x]["queue"].deps, old) = 1

\* ... and writes back what it read, with the dependency replaced.
Retargeted(x, old, new, rest) ==
    LET d == doc[x]["queue"]
    IN  [Idle EXCEPT !.step = "truncate", !.item = x, !.rest = rest,
           !.doc = [d EXCEPT !.deps =
                      [i \in DOMAIN d.deps |-> IF d.deps[i] = old THEN new ELSE d.deps[i]]]]

Retarget(a, x, old, new) ==
    /\ CanRetarget(x, old, new)
    /\ Begin(a, Retargeted(x, old, new, NoRest))
    /\ UNCHANGED <<doc, archived, filed>>

(***************************************************************************)
(* The tail of supersede: one dependent after another, in path order, each  *)
(* retargeted or cancelled; the first error ends it half way.               *)
(***************************************************************************)
CascadeStep(a) ==
    LET rest == op[a].rest
    IN  /\ op[a].step = "cascade" /\ rest.mode # "none"
        /\ \E x \in rest.todo :
             LET left == [rest EXCEPT !.todo = @ \ {x}]
             IN  /\ IsOldest(x, rest.todo)
                 /\ IF rest.mode = "retarget"
                    THEN IF CanRetarget(x, rest.old, rest.new)
                         THEN Continue(a, Retargeted(x, rest.old, rest.new, left))
                         ELSE Return(a)
                    ELSE \/ \E s \in State :
                              /\ LocatedIn(x, {"queue", "blocked"}, s)
                              /\ Continue(a, Located(x, s, left))
                         \/ /\ \A s \in State : ~LocatedIn(x, {"queue", "blocked"}, s)
                            /\ Return(a)
        /\ UNCHANGED <<doc, archived, filed>>

\* The operation has done all it had to do and returns Ok.
Completed(a) ==
    op[a].step = "cascade" /\ (op[a].rest.mode = "none" \/ op[a].rest.todo = {})

Complete(a) ==
    /\ Completed(a)
    /\ Return(a)
    /\ UNCHANGED <<doc, archived, filed>>

-----------------------------------------------------------------------------
\* A process dies inside an operation; its files stay as they are.
Crash(a) ==
    /\ Busy(a)
    /\ Return(a)
    /\ UNCHANGED <<doc, archived, filed>>

\* A stage agent files a task directly, a new one or a continuation of a blocked
\* one, whoever is inside an operation meanwhile.
AgentFiles(x) ==
    /\ In("active") # {}
    /\ overlapped' = (overlapped \/ \E a \in Actor : Busy(a)) /\ (overlapped' => Overlap)
    /\ \A s \in State \ {"blocked"} : ~Has(x, s)
    /\ \E d \in Draft[x] : doc' = [doc EXCEPT ![x]["queue"] = d]
    /\ filed' = filed \cup {x}
    /\ UNCHANGED <<archived, op>>

RuntimeStep ==
    \/ \E plane \in Planes, root \in Root \cup {NoRoot} : ClaimSelect(plane, root)
    \/ ClaimRename
    \/ \E x \in Item, s \in State \ {"active"} : Finish(x, s)
    \/ FinishRename
    \/ RetirePredecessor

ActorStep(a) ==
    \/ \E x \in Item : Enqueue(a, x) \/ CancelItem(a, x)
    \/ \E x \in Task : RetryBlocked(a, x) \/ ArchiveBlocked(a, x)
    \/ RequeueBlocked(a)
    \/ RequeueRename(a)
    \/ \E x \in Incident : CloseIncident(a, x)
    \/ \E x, y \in Task : Supersede(a, x, y)
    \/ \E x, y, z \in Task : Retarget(a, x, y, z)
    \/ Truncate(a)
    \/ Fill(a)
    \/ ArchiveLocated(a)
    \/ CascadeStep(a)
    \/ Complete(a)
    \/ Crash(a)

Next ==
    \/ RuntimeStep
    \/ \E a \in Actor : ActorStep(a)
    \/ \E x \in Task : AgentFiles(x)

QueueSpec == Init /\ [][Next]_vars
-----------------------------------------------------------------------------
Step == {"idle", "truncate", "fill", "claim", "finish", "retire", "requeue", "return",
         "archive", "cascade"}
File == Document \cup {NoDoc, Torn}
Rest == [mode : Cascade, old : Task \cup {NoItem}, new : Task \cup {NoItem},
         todo : SUBSET Task]
Operation == [step : Step, item : Item \cup {NoItem}, at : State,
              doc : Document \cup {NoDoc}, rest : Rest]

\* The variables have their types.
TypeOK ==
    /\ doc \in [Item -> [State -> File]]
    /\ archived \subseteq Item
    /\ op \in [Actor -> Operation]
    /\ filed \subseteq Item
    /\ overlapped \in BOOLEAN

\* No step and no crash loses a work item: whatever was filed is in a lifecycle
\* directory or in an archive, however the operations overlap.
NothingLost ==
    \A x \in filed : x \in archived \/ \E s \in State : Has(x, s)

\* Only one item of a plane is active, although claims, operators and agents move
\* files of the plane between the check and the rename.
OneActivePerPlane ==
    \A x, y \in In("active") : PlaneOf(x) = PlaneOf(y) => x = y

\* A task is never worked on before its dependencies are done, unless operations
\* overlapped: retargeting and claiming read the same document.
DependenciesDone ==
    ~overlapped =>
        \A x \in Task : Readable(x, "active") =>
            \A d \in Range(doc[x]["active"].deps) : Has(d, "done")

\* Without overlap an item is in one lifecycle directory; the one exception is a
\* task filed again while its blocked predecessor is kept.
OnePlace ==
    ~overlapped =>
        \A x \in Item, s, t \in State :
            Has(x, s) /\ Has(x, t) /\ s # t
                => x \in Task /\ "blocked" \in {s, t}

\* A supersede that cascades and returns Ok leaves no queued task depending on the
\* superseded one.
CascadeSettles ==
    \A a \in Actor :
        ~overlapped /\ Completed(a) /\ op[a].rest.mode # "none"
            => Dependents(op[a].rest.old) = {}

\* Finished work is final: no operation removes or rewrites a document in done.
DoneIsFinal ==
    [][\A x \in Item : Readable(x, "done") => doc'[x]["done"] = doc[x]["done"]]_vars

\* The directories keep the promises of the ledger: seen as places, a file's life is
\* made of its intents only, although an intent is several system calls, other
\* actors run between them and any of them may die.
Ledger == INSTANCE WorkLedger WITH
    Items <- Item, Tasks <- Task, Incidents <- Incident, raced <- overlapped,
    places <- [x \in Item |-> {s \in State : Has(x, s)}]
KeepsLedger == Ledger!LedgerSpec
=============================================================================
