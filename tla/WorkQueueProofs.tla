-------------------------- MODULE WorkQueueProofs --------------------------
(***************************************************************************)
(* What the work queue guarantees for any number of items and actors.  Every *)
(* step of the module is first shown to be one of six changes of the        *)
(* directories; the invariants are then proved about those.                  *)
(***************************************************************************)
EXTENDS WorkQueue, TLAPS

\* The changes a step can make to the directories.
Written(x) ==
    /\ \/ \E a \in Actor : op[a].step = "truncate" /\ op[a].item = x
       \/ x \in Task /\ \A s \in State \ {"blocked"} : ~Has(x, s)
    /\ \E d \in Document \cup {Torn} : doc' = [doc EXCEPT ![x]["queue"] = d]
    /\ filed' \in {filed, filed \cup {x}}
    /\ UNCHANGED archived
Filled(x, s) ==
    /\ doc[x][s] = Torn
    /\ \E d \in Document : doc' = [doc EXCEPT ![x][s] = d]
    /\ UNCHANGED <<archived, filed>>
Claimed(x) ==
    /\ op[Daemon].step = "claim" /\ op[Daemon].item = x
    /\ op'[Daemon].step # "claim"
Finished(x, t) ==
    /\ op[Daemon].step = "finish" /\ op[Daemon].item = x /\ op[Daemon].at = t
    /\ op'[Daemon].step # "finish"
Moved(x, s, t) ==
    /\ Has(x, s) /\ s # t /\ s # "done"
    /\ s = "queue" \/ t = "active" => s = "queue" /\ t = "active" /\ Claimed(x)
    /\ s = "active" => Finished(x, t)
    /\ s = "blocked" =>
         t = "queue" /\ \E a \in Actor : op[a].step = "return" /\ op[a].item = x
    /\ Rename(x, s, t)
    /\ UNCHANGED <<archived, filed>>
Removed(x, s) ==
    /\ Has(x, s) /\ s # "done" /\ (s = "active" => x \in Incident)
    /\ MoveToArchive(x, s)
    /\ UNCHANGED filed
Quarantined(S) ==
    (\A x \in S : Has(x, "queue")) /\ Quarantine(S) /\ UNCHANGED filed
Untouched == UNCHANGED <<doc, archived, filed>>

\* What an operation in progress knows: its item is one, the file it archives is not
\* a done one, what it writes is a document, and a cascade has a replacement.
RestFact(rest) == rest.mode # "none" => rest.new \in Task
OpFact(o) ==
    /\ RestFact(o.rest)
    /\ o.step \in {"truncate", "fill", "claim", "finish", "retire", "requeue", "return", "archive"}
         => o.item \in Item
    /\ o.step = "finish" => o.at # "active"
    /\ o.step = "archive" => o.at # "done" /\ (o.at = "active" => o.item \in Incident)
    /\ o.step \in {"requeue", "return"} => o.item \in Task
    /\ o.step \in {"truncate", "fill"} => o.doc \in Document
OpFacts == \A a \in Actor : OpFact(op[a])

-----------------------------------------------------------------------------
\* A document with one dependency replaced is a document.
LEMMA RetargetedDoc ==
  ASSUME NEW d \in Document, NEW old, NEW new \in Task
  PROVE  [d EXCEPT !.deps =
            [i \in DOMAIN d.deps |-> IF d.deps[i] = old THEN new ELSE d.deps[i]]]
           \in Document
<1> DEFINE q == [i \in DOMAIN d.deps |-> IF d.deps[i] = old THEN new ELSE d.deps[i]]
<1>1. d.deps \in Seq(Task)
  BY DEF Document
<1>2. DOMAIN d.deps = 1..Len(d.deps) /\ Len(d.deps) \in Nat
  BY <1>1
<1>3. q \in [1..Len(d.deps) -> Task]
  BY <1>1, <1>2
<1>4. q \in Seq(Task)
  BY <1>2, <1>3
<1>5. QED
  BY <1>4 DEF Document

\* A dependent that may be retargeted holds a document, and the operation that
\* rewrites it is well formed.
LEMMA RetargetedType ==
  ASSUME TypeOK, NEW x \in Task, NEW old, NEW new \in Task, NEW rest \in Rest,
         CanRetarget(x, old, new)
  PROVE  /\ Retargeted(x, old, new, rest) \in Operation
         /\ Retargeted(x, old, new, rest).step = "truncate"
         /\ Retargeted(x, old, new, rest).item = x
         /\ Retargeted(x, old, new, rest).doc \in Document
         /\ Retargeted(x, old, new, rest).rest = rest
<1> DEFINE d == doc[x]["queue"]
<1> DEFINE e == [d EXCEPT !.deps =
                   [i \in DOMAIN d.deps |-> IF d.deps[i] = old THEN new ELSE d.deps[i]]]
<1>1. d \in Document
  BY QueueAssumption DEF TypeOK, CanRetarget, Readable, File, Item, State
<1>2. e \in Document
  BY <1>1, RetargetedDoc
<1>3. Retargeted(x, old, new, rest) =
        [Idle EXCEPT !.step = "truncate", !.item = x, !.rest = rest, !.doc = e]
  BY DEF Retargeted
<1> HIDE DEF e
<1>4. QED
  BY <1>2, <1>3 DEF Idle, Operation, Step, State, Item

\* The idle operation is well formed.
LEMMA IdleType ==
  Idle \in Operation /\ Idle.step = "idle" /\ OpFact(Idle)
  /\ NoRest \in Rest /\ RestFact(NoRest)
BY DEF RestFact, OpFact, Idle, NoRest, Operation, Step, State, Rest, Cascade

-----------------------------------------------------------------------------
\* No item of the plane is active; the selected item may be claimed.
Alone(x) == \A y \in Item : PlaneOf(y) = PlaneOf(x) => ~Has(y, "active")
Ready(x) == Readable(x, "queue") /\ (x \in Task => Unfinished(x) = {})

\* An item about to be written is queued or nowhere, one about to be requeued blocked,
\* one about to be finished not where it goes.
Placed(o) ==
    /\ o.step = "truncate" => Has(o.item, "queue") \/ \A s \in State : ~Has(o.item, s)
    /\ o.step \in {"requeue", "return"} => \A s \in State \ {"blocked"} : ~Has(o.item, s)
    /\ o.step = "finish" => ~Has(o.item, o.at)

\* The steps before which an operation has looked at the directories of its item.
Looked == {"claim", "truncate", "requeue", "return", "finish"}

\* What a step does to the directories, and what to the operations.
Effect ==
    \/ Untouched
    \/ \E x \in Item : Written(x)
    \/ \E x \in Item, s \in State : Filled(x, s)
    \/ \E x \in Item, s, t \in State : Moved(x, s, t)
    \/ \E x \in Item, s \in State : Removed(x, s)
    \/ \E S \in SUBSET Item : Quarantined(S)
Proceeds(a, o) ==
    /\ o \in Operation /\ OpFact(o)
    /\ op' = [op EXCEPT ![a] = o]
    /\ \/ Busy(a) /\ UNCHANGED overlapped
       \/ ~Busy(a) /\ overlapped' = (overlapped \/ \E b \in Actor : Busy(b))
    /\ o.step = "claim" => a = Daemon /\ Alone(o.item)' /\ Ready(o.item)'
    /\ \/ Placed(o)'
       \/ op[a].step = "requeue" /\ o.step = "return" /\ o.item = op[a].item /\ Untouched
Conduct ==
    \/ \E a \in Actor, o \in Operation : Proceeds(a, o)
    \/ UNCHANGED <<op, overlapped>> /\ Untouched
    \/ UNCHANGED op /\ overlapped' = (overlapped \/ \E a \in Actor : Busy(a))

\* An operation that is not a claim proceeds when it is well formed.
LEMMA ProceedsType ==
  ASSUME TypeOK, NEW a \in Actor, NEW o \in Operation, OpFact(o), o.step \notin Looked,
         Begin(a, o) \/ (Busy(a) /\ Continue(a, o))
  PROVE  Conduct
BY DEF TypeOK, Begin, Continue, Conduct, Proceeds, Placed, Looked

\* Nor does a look at the item's directories change them.
LEMMA ProceedsPlaced ==
  ASSUME TypeOK, NEW a \in Actor, NEW o \in Operation, OpFact(o), o.step # "claim",
         Begin(a, o) \/ (Busy(a) /\ Continue(a, o)), Placed(o), UNCHANGED doc
  PROVE  Conduct
<1>1. Placed(o)'
  BY DEF Placed, Has
<1>2. QED
  BY <1>1 DEF TypeOK, Begin, Continue, Conduct, Proceeds

\* Returning to idle is always well formed.
LEMMA ReturnType == ASSUME TypeOK, NEW a \in Actor, Busy(a), Return(a) PROVE Conduct
<1>1. Idle \in Operation /\ OpFact(Idle) /\ Idle.step \notin Looked
  BY IdleType DEF Looked
<1>2. QED
  BY <1>1, ProceedsType DEF Return

\* An operation on a located item is well formed.
LEMMA LocatedType ==
  ASSUME NEW x \in Item, NEW s \in State \ {"done"}, NEW rest \in Rest, RestFact(rest),
         s = "active" => x \in Incident
  PROVE  /\ Located(x, s, rest) \in Operation
         /\ OpFact(Located(x, s, rest)) /\ Located(x, s, rest).step \notin Looked
BY DEF Located, Idle, Operation, Step, State, OpFact, Looked

\* Where locate looked for an item, it found it there only.
LEMMA LocatedState ==
  ASSUME NEW x \in Item, NEW s \in State, NEW allowed, LocatedIn(x, allowed, s)
  PROVE  s \in allowed /\ Has(x, s)
BY DEF LocatedIn

\* The runtime's claim selects an item whose plane is free and whose dependencies
\* are done; what it quarantines is neither the item nor one of those.
LEMMA SelectStep ==
  ASSUME TypeOK, NEW plane \in Planes, NEW root \in Root \cup {NoRoot},
         ClaimSelect(plane, root)
  PROVE  Effect /\ Conduct
<1> DEFINE scanned == Scanned(plane, root)
<1> DEFINE torn == {x \in scanned : doc[x]["queue"] = Torn}
<1> DEFINE eligible == {x \in scanned : Eligible(x, root)}
<1>1. plane \in SUBSET Item /\ scanned \subseteq plane
  BY DEF Planes, Scanned, Item
<1>2. Quarantine(torn) /\ UNCHANGED filed /\ plane \cap In("active") = {}
  BY DEF ClaimSelect, PlaneFree
<1>3. Effect
  BY <1>1, <1>2, QueueAssumption DEF Effect, Quarantined, Has
<1>4. CASE Begin(Daemon, Idle)
  <2>1. OpFact(Idle)
    BY IdleType
  <2>2. Conduct
    BY <1>4, <2>1, IdleType, ProceedsType DEF Actor, Looked
  <2>3. QED
    BY <1>3, <2>2
<1>5. ASSUME NEW x \in eligible,
             Begin(Daemon, [Idle EXCEPT !.step = "claim", !.item = x])
      PROVE  Conduct
  <2> DEFINE o == [Idle EXCEPT !.step = "claim", !.item = x]
  <2>1. x \in plane /\ x \in Item /\ x \notin torn /\ Eligible(x, root)
    BY <1>1, <1>5 DEF Eligible, Readable
  <2>2. o \in Operation /\ OpFact(o) /\ o.item = x
    BY <2>1 DEF Idle, Operation, Step, State, OpFact, RestFact, NoRest, Rest, Cascade
  <2>3. \A y \in Item : doc'[y]["active"] = doc[y]["active"]
                        /\ doc'[y]["done"] = doc[y]["done"]
    BY <1>2 DEF Quarantine, TypeOK, State
  <2>4. doc'[x] = doc[x]
    BY <1>2, <2>1 DEF Quarantine
  <2>5. \A y \in Item : PlaneOf(y) = PlaneOf(x) => y \in plane
    BY <1>1, <2>1, QueueAssumption DEF Planes, PlaneOf, Item
  <2>6. Alone(x)'
    BY <1>2, <2>3, <2>5 DEF Alone, Has, In
  <2>7. Ready(x)'
    <3>1. Readable(x, "queue")'
      BY <2>1, <2>4 DEF Eligible, Readable
    <3>2. ASSUME x \in Task PROVE Unfinished(x)' = {}
      <4>1. Unfinished(x) = {} /\ doc[x]["queue"] \in Document
        BY <3>2, <2>1 DEF Eligible, Readable, TypeOK, File, State, Item
      <4>2. \A d \in Range(doc[x]["queue"].deps) : d \in Task
        BY <4>1 DEF Document, Range
      <4>3. \A d \in Range(doc[x]["queue"].deps) : Has(d, "done")'
        BY <4>1, <4>2, <2>3 DEF Unfinished, Has, Item
      <4>4. QED
        BY <4>3, <2>4 DEF Unfinished
    <3>3. QED
      BY <3>1, <3>2 DEF Ready
  <2>8. Proceeds(Daemon, o)
    BY <1>5, <2>2, <2>6, <2>7 DEF Proceeds, Begin, TypeOK, Actor, Placed
  <2> HIDE DEF o
  <2>9. QED
    BY <2>2, <2>8 DEF Conduct, Actor
<1>6. \/ Begin(Daemon, Idle)
      \/ \E x \in eligible : Begin(Daemon, [Idle EXCEPT !.step = "claim", !.item = x])
  BY Zenon DEF ClaimSelect
<1> HIDE DEF eligible
<1>7. QED
  BY <1>3, <1>4, <1>5, <1>6

\* The other steps of the runtime move or archive the item they are about.
LEMMA RuntimeSteps ==
  ASSUME TypeOK, OpFacts, RuntimeStep PROVE Effect /\ Conduct
<1>0. Daemon \in Actor /\ op[Daemon] \in Operation /\ OpFact(op[Daemon])
  BY DEF TypeOK, OpFacts, Actor
<1>1. ASSUME NEW plane \in Planes, NEW root \in Root \cup {NoRoot},
             ClaimSelect(plane, root)
      PROVE  Effect /\ Conduct
  BY <1>1, SelectStep
<1>2. CASE ClaimRename
  <2>1. Conduct
    BY <1>0, <1>2, ReturnType DEF ClaimRename, Busy
  <2>2. op'[Daemon].step # "claim"
    BY <1>0, <1>2, IdleType DEF ClaimRename, Return, Continue, TypeOK
  <2>3. op[Daemon].item \in Item
    BY <1>0, <1>2 DEF ClaimRename, OpFact
  <2>4. CASE Has(op[Daemon].item, "queue")
    <3>1. Moved(op[Daemon].item, "queue", "active")
      BY <1>2, <2>2, <2>4 DEF Moved, Claimed, ClaimRename
    <3>2. QED
      BY <2>1, <2>3, <3>1 DEF Effect, State
  <2>5. CASE ~Has(op[Daemon].item, "queue")
    BY <1>2, <2>1, <2>5 DEF Effect, Untouched, ClaimRename
  <2>6. QED
    BY <2>4, <2>5
<1>3. ASSUME NEW x \in Item, NEW s \in State \ {"active"}, Finish(x, s)
      PROVE  Effect /\ Conduct
  <2> DEFINE o == Finishing(x, s)
  <2>1. o \in Operation /\ OpFact(o) /\ o.step = "finish" /\ o.item = x /\ o.at = s
    BY DEF Finishing, Idle, Operation, Step, State, OpFact, RestFact, NoRest, Rest, Cascade
  <2> HIDE DEF o
  <2>2. Placed(o) /\ UNCHANGED doc /\ Begin(Daemon, o)
    BY <1>3, <2>1 DEF Placed, Finish, o
  <2>3. Conduct
    BY <1>0, <2>1, <2>2, ProceedsPlaced
  <2>4. QED
    BY <1>3, <2>3 DEF Finish, Effect, Untouched
<1>6. CASE FinishRename
  <2> DEFINE x == op[Daemon].item
             s == op[Daemon].at
             o == [Idle EXCEPT !.step = "retire", !.item = x]
  <2>1. x \in Item /\ s \in State /\ s # "active"
    BY <1>0, <1>6 DEF FinishRename, OpFact, Operation
  <2>2. o \in Operation /\ OpFact(o) /\ o.step \notin Looked /\ o.step = "retire"
    BY <2>1 DEF Idle, Operation, Step, State, OpFact, RestFact, NoRest, Rest, Cascade, Looked
  <2>3. Continue(Daemon, o) \/ Return(Daemon)
    BY <1>6 DEF FinishRename, Return
  <2> HIDE DEF o
  <2>4. Conduct /\ op'[Daemon].step # "finish"
    <3>1. CASE Continue(Daemon, o)
      <4>1. op'[Daemon] = o
        BY <1>0, <3>1 DEF Continue, TypeOK
      <4>2. QED
        BY <1>0, <1>6, <2>2, <3>1, <4>1, ProceedsType DEF FinishRename, Busy
    <3>2. CASE Return(Daemon)
      BY <1>0, <1>6, <3>2, ReturnType, IdleType DEF FinishRename, Busy, Return, Continue, TypeOK
    <3>3. QED
      BY <2>3, <3>1, <3>2
  <2>5. Moved(x, "active", s) \/ Untouched
    BY <1>6, <2>1, <2>4 DEF FinishRename, Moved, Finished, Untouched
  <2>6. QED
    BY <2>1, <2>4, <2>5 DEF Effect, State
<1>4. CASE RetirePredecessor
  <2>1. Conduct
    BY <1>0, <1>4, ReturnType DEF RetirePredecessor, Busy
  <2>2. op[Daemon].item \in Item
    BY <1>0, <1>4 DEF RetirePredecessor, OpFact
  <2>3. Removed(op[Daemon].item, "blocked") \/ Untouched
    BY <1>4 DEF RetirePredecessor, Removed, Untouched, Predecessor, Readable, Has
  <2>4. QED
    BY <2>1, <2>2, <2>3 DEF Effect, State
<1>5. QED
  BY <1>1, <1>2, <1>3, <1>4, <1>6 DEF RuntimeStep

\* An operator's intervention starts by locating its item, which is not a done one.
LEMMA InterventionSteps ==
  ASSUME TypeOK, NEW a \in Actor,
         \/ \E x \in Item : CancelItem(a, x)
         \/ \E x \in Task : ArchiveBlocked(a, x)
         \/ \E x \in Incident : CloseIncident(a, x)
         \/ \E x, y \in Task : Supersede(a, x, y)
  PROVE  Effect /\ Conduct
<1>1. Effect
  BY DEF CancelItem, ArchiveBlocked, CloseIncident, Supersede, Effect, Untouched
<1>2. ASSUME NEW x \in Item, NEW s \in State \ {"done"}, NEW rest \in Rest,
             RestFact(rest), s = "active" => x \in Incident,
             Begin(a, Located(x, s, rest))
      PROVE  Conduct
  BY <1>2, LocatedType, ProceedsType
<1>3. ASSUME NEW x \in Item, CancelItem(a, x) PROVE Conduct
  <2>1. PICK s \in State : LocatedIn(x, {"queue", "blocked"}, s)
                           /\ Begin(a, Located(x, s, NoRest))
    BY <1>3 DEF CancelItem
  <2>2. QED
    BY <1>2, <2>1, LocatedState, IdleType
<1>4. ASSUME NEW x \in Task, ArchiveBlocked(a, x) PROVE Conduct
  BY <1>2, <1>4, IdleType DEF ArchiveBlocked, State, Item
<1>5. ASSUME NEW x \in Incident, CloseIncident(a, x) PROVE Conduct
  <2>1. PICK s \in State : LocatedIn(x, {"queue", "active", "blocked"}, s)
                           /\ Begin(a, Located(x, s, NoRest))
    BY <1>5 DEF CloseIncident
  <2>2. x \in Item /\ s # "done"
    BY <2>1, LocatedState DEF Item
  <2>3. QED
    BY <1>2, <2>1, <2>2, IdleType
<1>6. ASSUME NEW x \in Task, NEW y \in Task, Supersede(a, x, y) PROVE Conduct
  <2>1. PICK s \in State, mode \in Cascade :
          /\ LocatedIn(x, {"queue", "blocked"}, s)
          /\ Begin(a, Located(x, s,
               [mode |-> mode, old |-> x, new |-> y, todo |-> ToCascade(x, y)]))
    BY <1>6 DEF Supersede
  <2>2. x \in Item /\ s \in {"queue", "blocked"}
    BY <2>1, LocatedState DEF Item
  <2>3. [mode |-> mode, old |-> x, new |-> y, todo |-> ToCascade(x, y)] \in Rest
    BY DEF Rest, ToCascade, Dependents
  <2>4. RestFact([mode |-> mode, old |-> x, new |-> y, todo |-> ToCascade(x, y)])
    BY DEF RestFact
  <2>5. QED
    BY <1>2, <2>1, <2>2, <2>3, <2>4
<1>7. QED
  BY <1>1, <1>3, <1>4, <1>5, <1>6

\* An intervention that is under way archives what it located, then goes on to the
\* dependents, one rewrite or one cancellation at a time.
LEMMA CascadeSteps ==
  ASSUME TypeOK, OpFacts, NEW a \in Actor, ArchiveLocated(a) \/ CascadeStep(a)
  PROVE  Effect /\ Conduct
<1>0. op[a] \in Operation /\ OpFact(op[a])
  BY DEF TypeOK, OpFacts
<1>1. CASE ArchiveLocated(a)
  <2>1. /\ op[a].item \in Item /\ op[a].at \in State /\ op[a].at # "done"
        /\ op[a].at = "active" => op[a].item \in Incident
    BY <1>0, <1>1 DEF ArchiveLocated, OpFact, Operation
  <2>2. CASE Return(a) /\ UNCHANGED <<doc, archived, filed>>
    BY <1>1, <2>2, ReturnType DEF ArchiveLocated, Busy, Effect, Untouched
  <2>3. CASE /\ Has(op[a].item, op[a].at)
             /\ MoveToArchive(op[a].item, op[a].at) /\ UNCHANGED filed
             /\ Continue(a, [op[a] EXCEPT !.step = "cascade"])
    <3> DEFINE o == [op[a] EXCEPT !.step = "cascade"]
    <3>1. o \in Operation /\ OpFact(o) /\ o.step \notin Looked
      BY <1>0 DEF Operation, Step, OpFact, Looked
    <3> HIDE DEF o
    <3>2. Conduct
      BY <1>1, <2>3, <3>1, ProceedsType DEF ArchiveLocated, Busy, o
    <3>3. Removed(op[a].item, op[a].at)
      BY <2>1, <2>3 DEF Removed
    <3>4. QED
      BY <2>1, <3>2, <3>3 DEF Effect
  <2>4. QED
    BY <1>1, <2>2, <2>3 DEF ArchiveLocated
<1>2. CASE CascadeStep(a)
  <2> DEFINE rest == op[a].rest
  <2>1. Effect /\ rest \in Rest
    BY <1>0, <1>2 DEF CascadeStep, Effect, Untouched, Operation
  <2>2. PICK x \in rest.todo :
          \/ Return(a)
          \/ /\ CanRetarget(x, rest.old, rest.new)
             /\ Continue(a, Retargeted(x, rest.old, rest.new, [rest EXCEPT !.todo = @ \ {x}]))
          \/ \E s \in State :
               /\ LocatedIn(x, {"queue", "blocked"}, s)
               /\ Continue(a, Located(x, s, [rest EXCEPT !.todo = @ \ {x}]))
    BY <1>2 DEF CascadeStep
  <2> DEFINE left == [rest EXCEPT !.todo = @ \ {x}]
  <2>3. x \in Task /\ x \in Item /\ left \in Rest
        /\ rest.new \in Task /\ RestFact(left)
    BY <1>0, <1>2, <2>1 DEF CascadeStep, OpFact, RestFact, Rest, Item
  <2> HIDE DEF left
  <2>4. ASSUME CanRetarget(x, rest.old, rest.new),
               Continue(a, Retargeted(x, rest.old, rest.new, left))
        PROVE  Conduct
    BY <1>2, <2>3, <2>4, RetargetedType, ProceedsPlaced
       DEF CascadeStep, Busy, OpFact, Item, Placed, CanRetarget, Readable, Has
  <2>5. ASSUME NEW s \in State, LocatedIn(x, {"queue", "blocked"}, s),
               Continue(a, Located(x, s, left))
        PROVE  Conduct
    BY <1>2, <2>3, <2>5, LocatedState, LocatedType, ProceedsType DEF CascadeStep, Busy
  <2>6. Conduct
    BY <1>2, <2>2, <2>4, <2>5, ReturnType DEF CascadeStep, Busy, left
  <2>7. QED
    BY <2>1, <2>6
<1>3. QED
  BY <1>1, <1>2

\* Filing a document takes three steps, of which two write the file.
LEMMA FilingSteps ==
  ASSUME TypeOK, OpFacts, NEW a \in Actor,
         \/ \E x \in Item : Enqueue(a, x)
         \/ \E x, y, z \in Task : Retarget(a, x, y, z)
         \/ Truncate(a)
         \/ Fill(a)
  PROVE  Effect /\ Conduct
<1>0. op[a] \in Operation /\ OpFact(op[a])
  BY DEF TypeOK, OpFacts
<1>1. ASSUME NEW x \in Item, Enqueue(a, x) PROVE Effect /\ Conduct
  <2>1. PICK d \in Draft[x] :
          Begin(a, [Idle EXCEPT !.step = "truncate", !.item = x, !.doc = d])
    BY <1>1 DEF Enqueue
  <2> DEFINE o == [Idle EXCEPT !.step = "truncate", !.item = x, !.doc = d]
  <2>2. d \in Document
    BY QueueAssumption
  <2>3. o \in Operation /\ OpFact(o) /\ o.step = "truncate" /\ o.item = x
    BY <2>2 DEF Idle, Operation, Step, State, OpFact, RestFact, NoRest, Rest, Cascade
  <2> HIDE DEF o
  <2>4. Placed(o) /\ UNCHANGED doc /\ Begin(a, o)
    BY <1>1, <2>1, <2>3 DEF Placed, Enqueue, o
  <2>5. Conduct
    BY <2>3, <2>4, ProceedsPlaced
  <2>6. QED
    BY <1>1, <2>5 DEF Enqueue, Effect, Untouched
<1>2. ASSUME NEW x \in Task, NEW y \in Task, NEW z \in Task, Retarget(a, x, y, z)
      PROVE  Effect /\ Conduct
  <2>1. /\ CanRetarget(x, y, z) /\ Begin(a, Retargeted(x, y, z, NoRest))
        /\ UNCHANGED <<doc, archived, filed>>
    BY <1>2 DEF Retarget
  <2>2. QED
    BY <2>1, IdleType, RetargetedType, ProceedsPlaced
       DEF OpFact, Item, Effect, Untouched, Placed, CanRetarget, Readable, Has
<1>3. CASE Truncate(a)
  <2>1. op[a].item \in Item
    BY <1>0, <1>3 DEF Truncate, OpFact
  <2>2. Written(op[a].item)
    BY <1>3 DEF Truncate, Written
  <2> DEFINE o == [op[a] EXCEPT !.step = "fill"]
  <2>3. o \in Operation /\ OpFact(o) /\ o.step \notin Looked
    BY <1>0, <1>3 DEF Truncate, Operation, Step, OpFact, Looked
  <2> HIDE DEF o
  <2>4. Conduct
    BY <1>3, <2>3, ProceedsType DEF Truncate, Busy, o
  <2>5. QED
    BY <2>1, <2>2, <2>4 DEF Effect
<1>4. CASE Fill(a)
  <2>1. op[a].item \in Item /\ op[a].doc \in Document
    BY <1>0, <1>4 DEF Fill, OpFact
  <2>2. (\E s \in State : Filled(op[a].item, s)) \/ Untouched
    BY <1>4, <2>1 DEF Fill, Filled, Untouched
  <2> DEFINE o == [op[a] EXCEPT !.step = "cascade"]
  <2>3. o \in Operation /\ OpFact(o) /\ o.step \notin Looked
    BY <1>0, <1>4 DEF Operation, Step, OpFact, Looked
  <2> HIDE DEF o
  <2>4. Conduct
    BY <1>4, <2>3, ProceedsType DEF Fill, Busy, o
  <2>5. QED
    BY <2>1, <2>2, <2>4 DEF Effect
<1>5. QED
  BY <1>1, <1>2, <1>3, <1>4

\* Requeueing a blocked task checks its directories, then moves it.
LEMMA RequeueSteps ==
  ASSUME TypeOK, OpFacts, NEW a \in Actor,
         (\E x \in Task : RetryBlocked(a, x)) \/ RequeueBlocked(a) \/ RequeueRename(a)
  PROVE  Effect /\ Conduct
<1>1. ASSUME NEW x \in Task, RetryBlocked(a, x) PROVE Effect /\ Conduct
  <2> DEFINE o == [Idle EXCEPT !.step = "requeue", !.item = x]
  <2>1. o \in Operation /\ OpFact(o) /\ o.step = "requeue" /\ o.item = x
    BY DEF Idle, Operation, Step, State, OpFact, RestFact, NoRest, Rest, Cascade, Item
  <2> HIDE DEF o
  <2>2. Placed(o) /\ UNCHANGED doc /\ Begin(a, o)
    BY <1>1, <2>1 DEF Placed, RetryBlocked, o
  <2>3. Conduct
    BY <2>1, <2>2, ProceedsPlaced
  <2>4. QED
    BY <1>1, <2>3 DEF RetryBlocked, Effect, Untouched
<1>2. CASE RequeueBlocked(a)
  <2> DEFINE o == [op[a] EXCEPT !.step = "return"]
  <2>1. op[a] \in Operation /\ OpFact(op[a]) /\ op[a].step = "requeue" /\ Busy(a)
    BY <1>2 DEF OpFacts, TypeOK, RequeueBlocked, Busy
  <2>2. /\ o \in Operation /\ OpFact(o) /\ o.step = "return" /\ o.item = op[a].item
    BY <2>1 DEF Operation, Step, OpFact
  <2> HIDE DEF o
  <2>3. UNCHANGED <<doc, archived, filed>> /\ (Continue(a, o) \/ Return(a))
    BY <1>2 DEF RequeueBlocked, o
  <2>4. CASE Continue(a, o)
    BY <2>1, <2>2, <2>3, <2>4 DEF Continue, Conduct, Proceeds, Untouched, Effect
  <2>5. CASE Return(a)
    BY <2>1, <2>3, <2>5, ReturnType DEF Untouched, Effect
  <2>6. QED
    BY <2>3, <2>4, <2>5
<1>3. CASE RequeueRename(a)
  <2>1. Conduct
    BY <1>3, ReturnType DEF RequeueRename, Busy
  <2>2. op[a].item \in Item
    BY <1>3 DEF OpFacts, OpFact, RequeueRename
  <2>3. Moved(op[a].item, "blocked", "queue") \/ Untouched
    BY <1>3 DEF RequeueRename, Moved, Untouched
  <2>4. QED
    BY <2>1, <2>2, <2>3 DEF Effect, State
<1>4. QED
  BY <1>1, <1>2, <1>3

\* Every step changes the directories and the operations in one of these ways.
LEMMA Steps ==
  ASSUME TypeOK, OpFacts, [Next]_vars
  PROVE  Effect /\ Conduct
<1>1. CASE RuntimeStep
  BY <1>1, RuntimeSteps
<1>2. ASSUME NEW a \in Actor, ActorStep(a) PROVE Effect /\ Conduct
  <2>1. CASE Complete(a) \/ Crash(a)
    BY <2>1, ReturnType DEF Complete, Completed, Crash, Busy, Effect, Untouched
  <2>2. QED
    BY <1>2, <2>1, InterventionSteps, CascadeSteps, FilingSteps, RequeueSteps
       DEF ActorStep
<1>3. ASSUME NEW x \in Task, AgentFiles(x) PROVE Effect /\ Conduct
  <2>1. Conduct
    BY <1>3 DEF AgentFiles, Conduct
  <2>2. x \in Item /\ Draft[x] \subseteq Document
    BY QueueAssumption DEF Item
  <2>3. Written(x)
    BY <1>3, <2>2 DEF AgentFiles, Written
  <2>4. QED
    BY <2>1, <2>2, <2>3 DEF Effect
<1>4. CASE UNCHANGED vars
  BY <1>4 DEF vars, Effect, Untouched, Conduct
<1>5. QED
  BY <1>1, <1>2, <1>3, <1>4 DEF Next

-----------------------------------------------------------------------------
\* The initial state satisfies everything that is claimed of the reachable ones.
LEMMA InitFacts ==
  ASSUME Init
  PROVE  TypeOK /\ OpFacts /\ NothingLost /\ OneActivePerPlane
BY IdleType, QueueAssumption
   DEF Init, TypeOK, OpFacts, NothingLost, OneActivePerPlane, In, Has, File, State

\* Types and facts are preserved.
LEMMA TypeStep ==
  ASSUME TypeOK, OpFacts, [Next]_vars
  PROVE  TypeOK' /\ OpFacts'
<1>1. doc' \in [Item -> [State -> File]] /\ archived' \subseteq Item
      /\ filed' \subseteq Item
  <2>1. CASE Untouched
    BY <2>1 DEF Untouched, TypeOK
  <2>2. ASSUME NEW x \in Item, Written(x) PROVE <1>1!:
    BY <2>2 DEF Written, TypeOK, File, State
  <2>3. ASSUME NEW x \in Item, NEW s \in State, NEW t \in State, Moved(x, s, t)
        PROVE  <1>1!:
    BY <2>3 DEF Moved, Rename, TypeOK, File, State
  <2>4. ASSUME NEW x \in Item, NEW s \in State, Removed(x, s) PROVE <1>1!:
    BY <2>4 DEF Removed, MoveToArchive, TypeOK, File, State
  <2>5. ASSUME NEW S \in SUBSET Item, Quarantined(S) PROVE <1>1!:
    BY <2>5 DEF Quarantined, Quarantine, TypeOK, File, State
  <2>6. ASSUME NEW x \in Item, NEW s \in State, Filled(x, s) PROVE <1>1!:
    BY <2>6 DEF Filled, TypeOK, File, State
  <2>7. QED
    BY <2>1, <2>2, <2>3, <2>4, <2>5, <2>6, Steps DEF Effect
<1>2. op' \in [Actor -> Operation] /\ overlapped' \in BOOLEAN /\ OpFacts'
  <2>1. CASE UNCHANGED op /\ overlapped' \in BOOLEAN
    BY <2>1 DEF TypeOK, OpFacts
  <2>2. ASSUME NEW a \in Actor, NEW o \in Operation, Proceeds(a, o) PROVE <1>2!:
    BY <2>2 DEF Proceeds, TypeOK, OpFacts
  <2>3. overlapped \in BOOLEAN /\ (\E b \in Actor : Busy(b)) \in BOOLEAN
    BY DEF TypeOK
  <2>4. QED
    BY <2>1, <2>2, <2>3, Steps DEF Conduct
<1>3. QED
  BY <1>1, <1>2 DEF TypeOK

\* Nothing comes to the place a finished item goes to, unless that is the queue.
FreeEnd ==
    op[Daemon].step = "finish" /\ op[Daemon].at # "queue"
        => ~Has(op[Daemon].item, op[Daemon].at)

\* Only what is finished is moved to done or blocked.
LEMMA FreeEndStep ==
  ASSUME TypeOK, OpFacts, FreeEnd, [Next]_vars
  PROVE  FreeEnd'
<1>1. Effect /\ Conduct /\ Daemon \in Actor
  BY Steps DEF Actor
<1>2. SUFFICES ASSUME op'[Daemon].step = "finish", op'[Daemon].at # "queue"
               PROVE  ~Has(op[Daemon].item, op[Daemon].at)'
  BY DEF FreeEnd
<1> DEFINE x == op[Daemon].item
           s == op[Daemon].at
<1>3. CASE op'[Daemon] = op[Daemon]
  <2>1. x \in Item /\ s \in State /\ s \notin {"active", "queue"} /\ doc[x][s] = NoDoc
    BY <1>1, <1>2, <1>3 DEF FreeEnd, Has, OpFacts, OpFact, TypeOK, Operation
  <2>2. SUFFICES doc'[x][s] = NoDoc
    BY <1>3 DEF Has
  <2> HIDE DEF x, s
  <2>3. CASE Untouched
    BY <2>1, <2>3 DEF Untouched
  <2>4. ASSUME NEW y \in Item, Written(y) PROVE doc'[x][s] = NoDoc
    BY <2>1, <2>4 DEF Written, TypeOK, State
  <2>5. ASSUME NEW y \in Item, NEW u \in State, Filled(y, u) PROVE doc'[x][s] = NoDoc
    BY <2>1, <2>5, QueueAssumption DEF Filled, TypeOK, State
  <2>6. ASSUME NEW y \in Item, NEW u \in State, NEW v \in State, Moved(y, u, v)
        PROVE  doc'[x][s] = NoDoc
    <3>1. u # "active"
      BY <1>2, <1>3, <2>6 DEF Moved, Finished
    <3>2. v \in {"active", "queue"}
      BY <2>6, <3>1 DEF Moved, State
    <3>3. QED
      BY <2>1, <2>6, <3>2 DEF Moved, Rename, TypeOK
  <2>7. ASSUME NEW y \in Item, NEW u \in State, Removed(y, u) PROVE doc'[x][s] = NoDoc
    BY <2>1, <2>7 DEF Removed, MoveToArchive, TypeOK
  <2>8. ASSUME NEW S \in SUBSET Item, Quarantined(S) PROVE doc'[x][s] = NoDoc
    BY <2>1, <2>8 DEF Quarantined, Quarantine, TypeOK
  <2>9. QED
    BY <1>1, <2>3, <2>4, <2>5, <2>6, <2>7, <2>8 DEF Effect
<1>4. ASSUME NEW a \in Actor, NEW o \in Operation, Proceeds(a, o), op'[Daemon] # op[Daemon]
      PROVE  ~Has(op[Daemon].item, op[Daemon].at)'
  <2>1. op'[Daemon] = o
    BY <1>1, <1>4 DEF Proceeds, TypeOK
  <2>2. Placed(o)'
    BY <1>2, <1>4, <2>1 DEF Proceeds
  <2>3. ~Has(o.item, o.at)'
    BY <1>2, <2>1, <2>2 DEF Placed
  <2>4. QED
    BY <2>1, <2>3 DEF Has
<1>5. QED
  BY <1>1, <1>3, <1>4 DEF Conduct

\* No change of the directories loses a document or undoes a finished one.
LEMMA EffectKeeps ==
  ASSUME TypeOK, FreeEnd, Effect
  PROVE  /\ NothingLost => NothingLost'
         /\ \A x \in Item : Readable(x, "done") => doc'[x]["done"] = doc[x]["done"]
         /\ \A x \in Item : Has(x, "done") => Has(x, "done")'
<1> DEFINE Kept == /\ NothingLost => NothingLost'
                   /\ \A x \in Item : Readable(x, "done") => doc'[x]["done"] = doc[x]["done"]
                   /\ \A x \in Item : Has(x, "done") => Has(x, "done")'
<1>1. CASE Untouched
  BY <1>1 DEF Untouched, NothingLost, Has
<1>2. ASSUME NEW x \in Item, Written(x) PROVE Kept
  BY <1>2, QueueAssumption DEF Written, TypeOK, NothingLost, Has, State
<1>3. ASSUME NEW x \in Item, NEW s \in State, NEW t \in State, Moved(x, s, t)
      PROVE  Kept
  <2>1. doc' = [doc EXCEPT ![x] = [doc[x] EXCEPT ![t] = doc[x][s], ![s] = NoDoc]]
    BY <1>3 DEF Moved, Rename
  <2>2. Has(x, s) /\ s # t /\ s # "done" /\ (t = "done" => ~Has(x, t))
        /\ UNCHANGED <<archived, filed>>
    BY <1>3 DEF Moved, Finished, FreeEnd, State
  <2>3. doc'[x][t] # NoDoc /\ \A y \in Item : y # x => doc'[y] = doc[y]
    BY <2>1, <2>2 DEF TypeOK, Has
  <2>4. NothingLost => NothingLost'
    BY <2>2, <2>3 DEF NothingLost, Has, TypeOK
  <2>5. Has(x, "done") => doc'[x]["done"] = doc[x]["done"]
    BY <2>1, <2>2 DEF TypeOK, State
  <2>6. QED
    BY <2>3, <2>4, <2>5 DEF Has, Readable
<1>4. ASSUME NEW x \in Item, NEW s \in State, Removed(x, s) PROVE Kept
  BY <1>4 DEF Removed, MoveToArchive, TypeOK, NothingLost, Has, State
<1>5. ASSUME NEW S \in SUBSET Item, Quarantined(S) PROVE Kept
  BY <1>5 DEF Quarantined, Quarantine, TypeOK, NothingLost, Has, State
<1>6. ASSUME NEW x \in Item, NEW s \in State, Filled(x, s) PROVE Kept
  BY <1>6, QueueAssumption DEF Filled, TypeOK, NothingLost, Has, Readable
<1>7. QED
  BY <1>1, <1>2, <1>3, <1>4, <1>5, <1>6 DEF Effect

-----------------------------------------------------------------------------
\* A claim in progress has the plane to itself.
ClaimAlone == op[Daemon].step = "claim" => Alone(op[Daemon].item)

\* A step makes an item active only by the rename of a claim, and rewrites an active
\* file only when it is torn.
LEMMA ActiveStep ==
  ASSUME TypeOK, Effect, NEW x \in Item
  PROVE  \/ doc'[x]["active"] \in {doc[x]["active"], NoDoc}
         \/ Claimed(x) /\ doc'[x]["active"] = doc[x]["queue"]
         \/ doc[x]["active"] = Torn
<1> DEFINE Kept == doc'[x]["active"] \in {doc[x]["active"], NoDoc}
<1>1. CASE Untouched
  BY <1>1 DEF Untouched
<1>2. ASSUME NEW y \in Item, Written(y) PROVE Kept
  BY <1>2 DEF Written, TypeOK, State
<1>3. ASSUME NEW y \in Item, NEW s \in State, NEW t \in State, Moved(y, s, t)
      PROVE  Kept \/ (Claimed(x) /\ doc'[x]["active"] = doc[x]["queue"])
  <2>1. CASE x = y /\ t = "active"
    BY <1>3, <2>1 DEF Moved, Rename, TypeOK, State
  <2>2. CASE x # y \/ t # "active"
    BY <1>3, <2>2 DEF Moved, Rename, TypeOK, State
  <2>3. QED
    BY <2>1, <2>2
<1>4. ASSUME NEW y \in Item, NEW s \in State, Removed(y, s) PROVE Kept
  BY <1>4 DEF Removed, MoveToArchive, TypeOK, State
<1>5. ASSUME NEW S \in SUBSET Item, Quarantined(S) PROVE Kept
  BY <1>5 DEF Quarantined, Quarantine, TypeOK, State
<1>6. ASSUME NEW y \in Item, NEW s \in State, Filled(y, s)
      PROVE  Kept \/ doc[x]["active"] = Torn
  BY <1>6 DEF Filled, TypeOK, State
<1>7. QED
  BY <1>1, <1>2, <1>3, <1>4, <1>5, <1>6 DEF Effect

\* In particular, an item that is active after a step was so before, or is claimed.
LEMMA ActiveBefore ==
  ASSUME TypeOK, Effect, NEW x \in Item, Has(x, "active")'
  PROVE  Has(x, "active") \/ Claimed(x)
BY ActiveStep, QueueAssumption DEF Has

\* A plane stays exclusive: a claim starts with nothing active and only the claim
\* itself adds to the active items while it runs.
LEMMA AloneStep ==
  ASSUME TypeOK, OpFacts, ClaimAlone, OneActivePerPlane, [Next]_vars
  PROVE  ClaimAlone' /\ OneActivePerPlane'
<1>1. Effect /\ Conduct
  BY Steps
<1>2. OneActivePerPlane'
  <2>1. SUFFICES ASSUME NEW x \in Item, NEW y \in Item, Has(x, "active")',
                        Has(y, "active")', PlaneOf(x) = PlaneOf(y)
                 PROVE  x = y
    BY DEF OneActivePerPlane, In
  <2>2. CASE Has(x, "active") /\ Has(y, "active")
    BY <2>1, <2>2 DEF OneActivePerPlane, In
  <2>3. CASE Claimed(x) \/ Claimed(y)
    BY <1>1, <2>1, <2>3, ActiveBefore DEF ClaimAlone, Claimed, Alone
  <2>4. QED
    BY <1>1, <2>1, <2>2, <2>3, ActiveBefore
<1>3. ClaimAlone'
  <2>1. SUFFICES ASSUME op'[Daemon].step = "claim" PROVE Alone(op[Daemon].item)'
    BY DEF ClaimAlone
  <2>2. CASE op'[Daemon] = op[Daemon]
    <3>1. \A x \in Item : ~Claimed(x)
      BY <2>1 DEF Claimed
    <3>2. Alone(op[Daemon].item)
      BY <2>1, <2>2 DEF ClaimAlone
    <3>3. QED
      BY <1>1, <2>2, <3>1, <3>2, ActiveBefore DEF Alone
  <2>3. ASSUME NEW a \in Actor, NEW o \in Operation, Proceeds(a, o),
               op'[Daemon] # op[Daemon]
        PROVE  Alone(op[Daemon].item)'
    <3>1. a = Daemon /\ op'[Daemon] = o
      BY <2>3 DEF Proceeds, TypeOK, Actor
    <3>2. QED
      BY <2>1, <2>3, <3>1 DEF Proceeds, Alone
  <2>4. QED
    BY <1>1, <2>2, <2>3 DEF Conduct
<1>4. QED
  BY <1>2, <1>3

-----------------------------------------------------------------------------
\* As long as operations have not overlapped, one actor is at work, and what the
\* runtime is about to claim may still be claimed.
OneBusy == ~overlapped => \A a, b \in Actor : Busy(a) /\ Busy(b) => a = b
ActiveWhole == ~overlapped => \A x \in Item : doc[x]["active"] # Torn
ClaimReady == ~overlapped /\ op[Daemon].step = "claim" => Ready(op[Daemon].item)

\* A step without overlap is one of the actor at work.
LEMMA SerialStep ==
  ASSUME TypeOK, OpFacts, OneBusy, ClaimReady, [Next]_vars
  PROVE  (overlapped => overlapped') /\ OneBusy' /\ ClaimReady'
<1>1. Conduct
  BY Steps
<1>2. ASSUME NEW a \in Actor, NEW o \in Operation, Proceeds(a, o)
      PROVE  (overlapped => overlapped') /\ OneBusy' /\ ClaimReady'
  <2>1. overlapped => overlapped'
    BY <1>2 DEF Proceeds
  <2>2. ~overlapped' => \A b \in Actor : Busy(b) => b = a
    <3>1. CASE Busy(a) /\ UNCHANGED overlapped
      BY <3>1 DEF OneBusy
    <3>2. CASE overlapped' = (overlapped \/ \E b \in Actor : Busy(b))
      BY Zenon, <3>2
    <3>3. QED
      BY <1>2, <3>1, <3>2 DEF Proceeds
  <2>3. \A b \in Actor : b # a => op'[b] = op[b]
    BY <1>2 DEF Proceeds, TypeOK
  <2>4. OneBusy'
    BY <2>2, <2>3 DEF OneBusy, Busy
  <2>5. ASSUME ~overlapped', op'[Daemon].step = "claim"
        PROVE  Ready(op[Daemon].item)'
    <3>1. Daemon = a
      BY <2>2, <2>3, <2>5 DEF Busy, Actor
    <3>2. op'[Daemon] = o
      BY <1>2, <3>1 DEF Proceeds, TypeOK
    <3>3. QED
      BY <1>2, <2>5, <3>2 DEF Proceeds, Ready, Readable, Unfinished, Has
  <2>6. QED
    BY <2>1, <2>4, <2>5 DEF ClaimReady
<1>3. ASSUME UNCHANGED <<op, overlapped>>, Untouched
      PROVE  (overlapped => overlapped') /\ OneBusy' /\ ClaimReady'
  BY <1>3 DEF OneBusy, ClaimReady, Busy, Untouched, Ready, Readable, Unfinished, Has
<1>4. ASSUME UNCHANGED op, overlapped' = (overlapped \/ \E a \in Actor : Busy(a))
      PROVE  (overlapped => overlapped') /\ OneBusy' /\ ClaimReady'
  <2>1. overlapped => overlapped'
    BY <1>4
  <2>2. ASSUME ~overlapped', NEW a \in Actor PROVE op'[a].step = "idle"
    <3>1. ~Busy(a)
      BY <1>4, <2>2, Zenon
    <3>2. QED
      BY <1>4, <3>1 DEF Busy
  <2>3. QED
    BY <2>1, <2>2 DEF OneBusy, ClaimReady, Busy, Actor
<1>5. QED
  BY <1>1, <1>2, <1>3, <1>4 DEF Conduct

\* What is done stays done, and only a ready claim adds to the active tasks.
LEMMA DependencyStep ==
  ASSUME TypeOK, OpFacts, OneBusy, ClaimReady, ActiveWhole, DependenciesDone, FreeEnd,
         [Next]_vars
  PROVE  DependenciesDone' /\ ActiveWhole'
<1>0. ActiveWhole'
  BY SerialStep, Steps, ActiveStep, QueueAssumption
     DEF ActiveWhole, ClaimReady, Claimed, Ready, Readable
<1>1. SUFFICES ASSUME ~overlapped', NEW x \in Task, Readable(x, "active")',
                      NEW d \in Range(doc'[x]["active"].deps)
               PROVE  Has(d, "done")'
  BY <1>0 DEF DependenciesDone
<1>2. ~overlapped /\ Effect /\ x \in Item
  BY <1>1, SerialStep, Steps DEF Item
<1>3. doc'[x]["active"] \in Document
  BY <1>1, <1>2, TypeStep DEF TypeOK, Readable, File, State
<1>4. d \in Item
  BY <1>3 DEF Document, Range, Item
<1>5. Has(d, "done") => Has(d, "done")'
  BY <1>2, <1>4, EffectKeeps
<1>6. CASE doc'[x]["active"] = doc[x]["active"]
  BY <1>1, <1>2, <1>5, <1>6 DEF DependenciesDone, Readable
<1>7. CASE Claimed(x) /\ doc'[x]["active"] = doc[x]["queue"]
  BY <1>1, <1>2, <1>5, <1>7 DEF ClaimReady, Claimed, Ready, Unfinished
<1>8. QED
  BY <1>1, <1>2, <1>6, <1>7, ActiveStep DEF Readable, ActiveWhole

-----------------------------------------------------------------------------
IInv ==
    /\ TypeOK /\ OpFacts
    /\ NothingLost
    /\ ClaimAlone /\ OneActivePerPlane /\ FreeEnd
    /\ OneBusy /\ ClaimReady /\ ActiveWhole /\ DependenciesDone

LEMMA Invariance == QueueSpec => []IInv
<1>1. Init => IInv
  <2>1. ASSUME Init
        PROVE  ClaimAlone /\ FreeEnd /\ OneBusy /\ ClaimReady /\ ActiveWhole /\ DependenciesDone
    BY <2>1, IdleType, QueueAssumption
       DEF ClaimAlone, FreeEnd, OneBusy, ClaimReady, ActiveWhole, DependenciesDone, Init,
           Actor, Busy, Readable, Item, State
  <2>2. QED
    BY <2>1, InitFacts DEF IInv
<1>2. IInv /\ [Next]_vars => IInv'
  BY TypeStep, AloneStep, SerialStep, FreeEndStep, DependencyStep, Steps, EffectKeeps DEF IInv
<1>3. QED
  BY <1>1, <1>2, PTL DEF QueueSpec

\* The variables have their types.
THEOREM TypeCorrect == QueueSpec => []TypeOK
BY Invariance, PTL DEF IInv

\* Whatever was filed is in a lifecycle directory or in an archive, whatever
\* operations overlap and whoever crashes: no path of queue_store.rs deletes.
THEOREM NothingIsLost == QueueSpec => []NothingLost
BY Invariance, PTL DEF IInv

\* The claim's check of the plane's active directories holds until its rename,
\* because no other operation moves a file into them.
THEOREM PlaneExclusive == QueueSpec => []OneActivePerPlane
BY Invariance, PTL DEF IInv

\* Every dependency of an active task is done, as long as operations do not overlap:
\* the document a claim checked is the one it renames.
THEOREM DependenciesAreDone == QueueSpec => []DependenciesDone
BY Invariance, PTL DEF IInv

\* No operation moves, archives or rewrites a document in done.
THEOREM DoneFinal == QueueSpec => DoneIsFinal
<1>1. IInv /\ [Next]_vars
        => [\A x \in Item : Readable(x, "done") => doc'[x]["done"] = doc[x]["done"]]_vars
  BY Steps, EffectKeeps DEF IInv
<1>2. QED
  BY <1>1, Invariance, PTL DEF QueueSpec, DoneIsFinal

-----------------------------------------------------------------------------
(* The tail of a supersede: which dependents of the superseded task are left. *)

\* What a cascade under way has still to do: every dependent is on its list, but for
\* the one it is rewriting, whose new document does not depend on the superseded task,
\* or moving out of the queue.
Cascades(o) ==
    o.step # "idle" /\ o.rest.mode # "none" =>
        /\ o.rest.old # o.rest.new
        /\ o.step \in {"truncate", "fill"} => o.rest.old \notin Range(o.doc.deps)
        /\ o.step = "truncate" => Dependents(o.rest.old) \subseteq o.rest.todo \cup {o.item}
        /\ o.step = "archive" =>
             \A y \in Dependents(o.rest.old) \ o.rest.todo : y = o.item /\ o.at = "queue"
        /\ o.step \in {"fill", "cascade"} => Dependents(o.rest.old) \subseteq o.rest.todo
CascadeFacts == ~overlapped => \A a \in Actor : Cascades(op[a])

\* A supersede lists the dependents it found.
LEMMA SupersedeTail ==
  ASSUME NEW a \in Actor, NEW x \in Task, NEW y \in Task, TypeOK, Supersede(a, x, y)
  PROVE  Cascades(op[a])'
<1>1. PICK s \in State, mode \in Cascade :
        op' = [op EXCEPT ![a] =
          Located(x, s, [mode |-> mode, old |-> x, new |-> y, todo |-> Dependents(x)])]
  BY DEF Supersede, Begin, ToCascade
<1>2. /\ op'[a].step = "archive" /\ op'[a].rest.old = x /\ op'[a].rest.new = y
      /\ op'[a].rest.todo = Dependents(x)
  BY <1>1 DEF Located, Idle, TypeOK
<1>3. x # y /\ Dependents(x)' = Dependents(x)
  BY DEF Supersede, Dependents, Readable
<1>4. QED
  BY <1>2, <1>3 DEF Cascades

\* The file being rewritten is no dependent while it is torn.
LEMMA TruncateTail ==
  ASSUME NEW a \in Actor, TypeOK, OpFacts, Cascades(op[a]), Truncate(a)
  PROVE  Cascades(op[a])'
<1> DEFINE x == op[a].item
<1>1. op'[a] = [op[a] EXCEPT !.step = "fill"] /\ op[a] \in Operation /\ op[a].step = "truncate"
      /\ x \in Item
  BY DEF Truncate, Continue, TypeOK, OpFacts, OpFact
<1>2. /\ op'[a].step = "fill" /\ op'[a].rest = op[a].rest /\ op'[a].doc = op[a].doc
  BY <1>1 DEF Operation
<1>3. doc' = [doc EXCEPT ![x]["queue"] = Torn]
  BY DEF Truncate
<1>4. /\ doc'[x]["queue"] = Torn
      /\ \A y \in Item \ {x} : doc'[y]["queue"] = doc[y]["queue"]
  BY <1>1, <1>3 DEF TypeOK, State
<1>5. Dependents(op[a].rest.old)' \subseteq Dependents(op[a].rest.old) \ {x}
  <2>1. SUFFICES ASSUME NEW y \in Task, Readable(y, "queue")', op'[a].rest.old \in Range(doc'[y]["queue"].deps)
                 PROVE  y \in Dependents(op[a].rest.old) \ {x}
    BY DEF Dependents
  <2>2. y # x /\ doc'[y]["queue"] = doc[y]["queue"]
    BY <1>4, <2>1 DEF Readable, Item
  <2>3. QED
    BY <1>2, <2>1, <2>2 DEF Dependents, Readable
<1> HIDE DEF x
<1>6. QED
  BY <1>1, <1>2, <1>5 DEF Cascades, x

\* The document written does not depend on the superseded task.
LEMMA FillTail ==
  ASSUME NEW a \in Actor, TypeOK, OpFacts, Cascades(op[a]), Fill(a)
  PROVE  Cascades(op[a])'
<1> DEFINE x == op[a].item
<1>1. op'[a] = [op[a] EXCEPT !.step = "cascade"] /\ op[a] \in Operation /\ op[a].step = "fill"
      /\ x \in Item
  BY DEF Fill, Continue, TypeOK, OpFacts, OpFact
<1>2. op'[a].step = "cascade" /\ op'[a].rest = op[a].rest
  BY <1>1 DEF Operation
<1>3. /\ \A y \in Item \ {x} : doc'[y]["queue"] = doc[y]["queue"]
      /\ doc'[x]["queue"] \in {doc[x]["queue"], op[a].doc}
  BY <1>1 DEF Fill, TypeOK, State
<1>4. CASE op[a].rest.mode # "none"
  <2>1. op[a].rest.old \notin Range(op[a].doc.deps)
    BY <1>1, <1>4 DEF Cascades
  <2>2. Dependents(op[a].rest.old)' \subseteq Dependents(op[a].rest.old)
    <3>1. SUFFICES ASSUME NEW y \in Task, Readable(y, "queue")', op'[a].rest.old \in Range(doc'[y]["queue"].deps)
                   PROVE  y \in Dependents(op[a].rest.old)
      BY DEF Dependents
    <3>2. doc'[y]["queue"] = doc[y]["queue"]
      BY <1>2, <1>3, <2>1, <3>1 DEF Item
    <3>3. QED
      BY <1>2, <3>1, <3>2 DEF Dependents, Readable
  <2>3. QED
    BY <1>1, <1>2, <1>4, <2>2 DEF Cascades
<1>5. CASE op[a].rest.mode = "none"
  BY <1>2, <1>5 DEF Cascades
<1>6. QED
  BY <1>4, <1>5

\* A dependent that is archived has left the queue, if it was there.
LEMMA ArchiveTail ==
  ASSUME NEW a \in Actor, TypeOK, OpFacts, Cascades(op[a]), ArchiveLocated(a)
  PROVE  Cascades(op[a])'
<1> DEFINE x == op[a].item
<1>1. op[a] \in Operation /\ op[a].step = "archive" /\ x \in Item /\ op[a].at \in State
  BY DEF ArchiveLocated, TypeOK, OpFacts, OpFact, Operation
<1>2. CASE Return(a)
  <2>1. op'[a].step = "idle"
    BY <1>2 DEF Return, Continue, TypeOK, Idle
  <2>2. QED
    BY <2>1 DEF Cascades
<1>3. CASE MoveToArchive(x, op[a].at) /\ Continue(a, [op[a] EXCEPT !.step = "cascade"])
  <2>1. op'[a] = [op[a] EXCEPT !.step = "cascade"]
    BY <1>3 DEF Continue, TypeOK
  <2>2. op'[a].step = "cascade" /\ op'[a].rest = op[a].rest
    BY <1>1, <2>1 DEF Operation
  <2>3. /\ \A y \in Item \ {x} : doc'[y]["queue"] = doc[y]["queue"]
        /\ op[a].at # "queue" => doc'[x]["queue"] = doc[x]["queue"]
        /\ op[a].at = "queue" => doc'[x]["queue"] = NoDoc
    BY <1>1, <1>3 DEF MoveToArchive, TypeOK, State
  <2>4. \A y \in Dependents(op[a].rest.old)' :
          y \in Dependents(op[a].rest.old) /\ ~(y = x /\ op[a].at = "queue")
    <3>1. SUFFICES ASSUME NEW y \in Task, Readable(y, "queue")', op'[a].rest.old \in Range(doc'[y]["queue"].deps)
                   PROVE  y \in Dependents(op[a].rest.old) /\ ~(y = x /\ op[a].at = "queue")
      BY DEF Dependents
    <3>2. ~(y = x /\ op[a].at = "queue")
      BY <2>3, <3>1 DEF Readable
    <3>3. doc'[y]["queue"] = doc[y]["queue"]
      BY <2>3, <3>2 DEF Item
    <3>4. QED
      BY <2>2, <3>1, <3>2, <3>3 DEF Dependents, Readable
  <2>5. CASE op[a].rest.mode # "none"
    <3>1. /\ op[a].rest.old # op[a].rest.new
          /\ \A y \in Dependents(op[a].rest.old) \ op[a].rest.todo : y = x /\ op[a].at = "queue"
      BY <1>1, <2>5 DEF Cascades
    <3>2. Dependents(op[a].rest.old)' \subseteq op[a].rest.todo
      BY <2>4, <3>1
    <3>3. QED
      BY <2>2, <3>1, <3>2 DEF Cascades
  <2>6. CASE op[a].rest.mode = "none"
    BY <2>2, <2>6 DEF Cascades
  <2>7. QED
    BY <2>5, <2>6
<1>4. QED
  BY <1>2, <1>3 DEF ArchiveLocated

\* The next dependent leaves the list when its turn comes.
LEMMA CascadeTail ==
  ASSUME NEW a \in Actor, TypeOK, OpFacts, Cascades(op[a]), CascadeStep(a)
  PROVE  Cascades(op[a])'
<1> DEFINE rest == op[a].rest
<1>1. /\ op[a].step = "cascade" /\ rest.mode # "none" /\ rest \in Rest /\ UNCHANGED doc
      /\ rest.new \in Task
  BY DEF CascadeStep, TypeOK, Operation, OpFacts, OpFact, RestFact
<1>2. /\ rest.old # rest.new /\ Dependents(rest.old) \subseteq rest.todo
      /\ \A y : Dependents(y)' = Dependents(y)
  BY <1>1 DEF Cascades, Dependents, Readable
<1>3. PICK x \in rest.todo :
        \/ Return(a)
        \/ /\ CanRetarget(x, rest.old, rest.new)
           /\ Continue(a, Retargeted(x, rest.old, rest.new, [rest EXCEPT !.todo = @ \ {x}]))
        \/ \E s \in State :
             /\ LocatedIn(x, {"queue", "blocked"}, s)
             /\ Continue(a, Located(x, s, [rest EXCEPT !.todo = @ \ {x}]))
  BY DEF CascadeStep
<1> DEFINE left == [rest EXCEPT !.todo = rest.todo \ {x}]
<1>4. /\ left \in Rest /\ left.old = rest.old /\ left.new = rest.new
      /\ left.mode = rest.mode /\ left.todo = rest.todo \ {x} /\ x \in Task
  BY <1>1 DEF Rest
<1> HIDE DEF rest, left
<1>5. CASE Return(a)
  <2>1. op'[a].step = "idle"
    BY <1>5 DEF Return, Continue, TypeOK, Idle
  <2>2. QED
    BY <2>1 DEF Cascades
<1>6. ASSUME CanRetarget(x, rest.old, rest.new),
             Continue(a, Retargeted(x, rest.old, rest.new, left))
      PROVE  Cascades(op[a])'
  <2> DEFINE d == doc[x]["queue"]
             q == [i \in DOMAIN d.deps |-> IF d.deps[i] = rest.old THEN rest.new ELSE d.deps[i]]
             e == [d EXCEPT !.deps = q]
  <2>1. d \in Document
    BY <1>4, <1>6, QueueAssumption DEF TypeOK, CanRetarget, Readable, File, Item, State
  <2>2. e.deps = q
    BY <2>1 DEF Document
  <2>3. rest.old \notin Range(q)
    BY <1>2 DEF Range
  <2>4. Retargeted(x, rest.old, rest.new, left) =
          [Idle EXCEPT !.step = "truncate", !.item = x, !.rest = left, !.doc = e]
    BY DEF Retargeted
  <2> HIDE DEF e, q
  <2>5. op'[a] = [Idle EXCEPT !.step = "truncate", !.item = x, !.rest = left, !.doc = e]
    BY <1>6, <2>4 DEF Continue, TypeOK
  <2>6. op'[a].step = "truncate" /\ op'[a].item = x /\ op'[a].rest = left /\ op'[a].doc = e
    BY <2>5 DEF Idle
  <2>7. QED
    BY <1>2, <1>4, <2>2, <2>3, <2>6 DEF Cascades
<1>7. ASSUME NEW s \in State, LocatedIn(x, {"queue", "blocked"}, s),
             Continue(a, Located(x, s, left))
      PROVE  Cascades(op[a])'
  <2>1. op'[a] = [Idle EXCEPT !.step = "archive", !.item = x, !.at = s, !.rest = left]
    BY <1>7 DEF Continue, TypeOK, Located
  <2>2. op'[a].step = "archive" /\ op'[a].item = x /\ op'[a].rest = left /\ op'[a].at = s
    BY <2>1 DEF Idle
  <2>3. x \in Dependents(rest.old) => s = "queue"
    BY <1>7 DEF LocatedIn, Dependents, Readable, Has
  <2>4. QED
    BY <1>2, <1>4, <2>2, <2>3 DEF Cascades
<1>8. QED
  BY <1>3, <1>5, <1>6, <1>7 DEF left

\* The steps of the actor at work, without overlap.
LEMMA TailStep ==
  ASSUME TypeOK, OpFacts, NEW a \in Actor, Cascades(op[a]), ActorStep(a) \/ (a = Daemon /\ RuntimeStep)
  PROVE  Cascades(op[a])'
<1>1. CASE \/ \E x, y \in Task : Supersede(a, x, y)
           \/ Truncate(a) \/ Fill(a) \/ ArchiveLocated(a) \/ CascadeStep(a)
  BY <1>1, SupersedeTail, TruncateTail, FillTail, ArchiveTail, CascadeTail
<1>2. ASSUME NEW o, o.step = "idle" \/ o.rest = NoRest, op' = [op EXCEPT ![a] = o]
      PROVE  Cascades(op[a])'
  <2>1. op'[a] = o
    BY <1>2 DEF TypeOK
  <2>2. QED
    BY <1>2, <2>1 DEF Cascades, NoRest
<1>3. Idle.step = "idle" /\ Idle.rest = NoRest
  BY DEF Idle
<1>4. CASE RequeueRename(a) \/ Complete(a) \/ Crash(a)
           \/ (a = Daemon /\ (ClaimRename \/ RetirePredecessor))
  BY <1>2, <1>3, <1>4 DEF RequeueRename, Complete, Crash, ClaimRename, RetirePredecessor, Return, Continue
<1>5. CASE \E x \in Item : Enqueue(a, x) \/ CancelItem(a, x)
  BY <1>2, <1>5 DEF Enqueue, CancelItem, Begin, Located, Idle
<1>6. CASE (\E x \in Task : RetryBlocked(a, x) \/ ArchiveBlocked(a, x))
           \/ \E x \in Incident : CloseIncident(a, x)
  BY <1>2, <1>6 DEF RetryBlocked, ArchiveBlocked, CloseIncident, Begin, Located, Idle
<1>7. CASE \E x, y, z \in Task : Retarget(a, x, y, z)
  BY <1>2, <1>7 DEF Retarget, Retargeted, Begin, Idle
<1>8. CASE a = Daemon /\ \E plane \in Planes, root \in Root \cup {NoRoot} : ClaimSelect(plane, root)
  <2>1. Begin(a, Idle) \/ \E x \in Item : Begin(a, [Idle EXCEPT !.step = "claim", !.item = x])
    BY <1>8 DEF ClaimSelect, Scanned, Planes, Item
  <2>2. QED
    BY <1>2, <2>1 DEF Begin, Idle
<1>9. CASE a = Daemon /\ \E x \in Item, s \in State \ {"active"} : Finish(x, s)
  BY <1>2, <1>9 DEF Finish, Finishing, Begin, Idle
<1>10. CASE a = Daemon /\ FinishRename
  BY <1>2, <1>3, <1>10 DEF FinishRename, Continue, Return, Idle
<1>11. CASE RequeueBlocked(a)
  <2>1. op[a] \in Operation /\ op[a].step = "requeue" /\ UNCHANGED doc
    BY <1>11 DEF RequeueBlocked, TypeOK
  <2>2. CASE Return(a)
    BY <1>2, <1>3, <2>2 DEF Return, Continue
  <2>3. CASE Continue(a, [op[a] EXCEPT !.step = "return"])
    <3>1. op'[a].step = "return" /\ op'[a].rest = op[a].rest
      BY <2>1, <2>3 DEF Continue, TypeOK, Operation
    <3>2. QED
      BY <2>1, <3>1 DEF Cascades
  <2>4. QED
    BY <1>11, <2>2, <2>3 DEF RequeueBlocked
<1>12. QED
  BY <1>1, <1>4, <1>5, <1>6, <1>7, <1>8, <1>9, <1>10, <1>11 DEF ActorStep, RuntimeStep

\* A step of an actor begins an operation or continues its own.
LEMMA ActsAlone ==
  ASSUME NEW a \in Actor, ActorStep(a) \/ (a = Daemon /\ RuntimeStep)
  PROVE  (\E o : Begin(a, o)) \/ (Busy(a) /\ \E o : Continue(a, o))
<1>1. CASE \/ RequeueBlocked(a) \/ RequeueRename(a) \/ Truncate(a) \/ Fill(a)
           \/ ArchiveLocated(a) \/ Complete(a) \/ Crash(a)
  BY <1>1 DEF RequeueBlocked, RequeueRename, Truncate, Fill, ArchiveLocated, Complete, Completed, Crash, Return, Busy
<1>2. CASE CascadeStep(a)
  BY <1>2 DEF CascadeStep, Return, Busy
<1>3. CASE a = Daemon /\ RuntimeStep
  BY <1>3 DEF RuntimeStep, ClaimSelect, ClaimRename, Finish, FinishRename, RetirePredecessor, Return, Busy
<1>4. CASE \/ \E x \in Item : Enqueue(a, x) \/ CancelItem(a, x)
           \/ \E x \in Task : RetryBlocked(a, x) \/ ArchiveBlocked(a, x)
           \/ \E x \in Incident : CloseIncident(a, x)
           \/ \E x, y \in Task : Supersede(a, x, y)
           \/ \E x, y, z \in Task : Retarget(a, x, y, z)
  BY <1>4 DEF Enqueue, CancelItem, RetryBlocked, ArchiveBlocked, CloseIncident, Supersede, Retarget
<1>5. QED
  BY <1>1, <1>2, <1>3, <1>4 DEF ActorStep

\* An actor that is not at work has no tail; without overlap the others do nothing.
LEMMA CascadeFactsStep ==
  ASSUME TypeOK, OpFacts, OneBusy, ClaimReady, CascadeFacts, [Next]_vars
  PROVE  CascadeFacts'
<1>1. SUFFICES ASSUME ~overlapped', NEW b \in Actor, Busy(b)' PROVE Cascades(op[b])'
  BY DEF CascadeFacts, Cascades, Busy
<1>2. ~overlapped /\ OneBusy'
  BY <1>1, SerialStep
<1>3. Cascades(op[b])
  BY <1>2 DEF CascadeFacts
<1>4. ASSUME NEW a \in Actor, ActorStep(a) \/ (a = Daemon /\ RuntimeStep)
      PROVE  Cascades(op[b])'
  <2>1. CASE a = b
    BY <1>3, <1>4, <2>1, TailStep
  <2>2. CASE a # b
    <3>1. (\E o : Begin(a, o)) \/ (Busy(a) /\ \E o : Continue(a, o))
      BY <1>4, ActsAlone
    <3>2. op'[b] = op[b]
      BY <2>2, <3>1 DEF Begin, Continue, TypeOK
    <3>3. Busy(b)
      BY <1>1, <3>2 DEF Busy
    <3>4. CASE Busy(a)
      BY <1>2, <2>2, <3>3, <3>4 DEF OneBusy
    <3>5. CASE \E o : Begin(a, o)
      <4>1. overlapped' = (overlapped \/ \E c \in Actor : Busy(c))
        BY <3>5 DEF Begin
      <4>2. QED
        BY <1>1, <3>3, <4>1, Zenon
    <3>6. QED
      BY <3>1, <3>4, <3>5
  <2>3. QED
    BY <2>1, <2>2
<1>5. CASE \E x \in Task : AgentFiles(x)
  <2>1. UNCHANGED op /\ overlapped' = (overlapped \/ \E a \in Actor : Busy(a))
    BY <1>5 DEF AgentFiles
  <2>2. ~Busy(b)
    BY <1>1, <2>1, Zenon
  <2>3. QED
    BY <1>1, <2>1, <2>2 DEF Busy
<1>6. CASE UNCHANGED vars
  BY <1>3, <1>6 DEF vars, Cascades, Dependents, Readable
<1>7. QED
  BY <1>4, <1>5, <1>6 DEF Next, Actor

\* A supersede that cascades and returns Ok leaves no queued task depending on the
\* superseded one, as long as operations do not overlap: the list it made is the whole
\* of them, each is rewritten or archived in its turn, and the first that cannot be
\* ends the operation with an error (supersede_task_with_cascade).
THEOREM CascadesSettle == QueueSpec => []CascadeSettles
<1>1. Init => CascadeFacts
  BY IdleType DEF Init, CascadeFacts, Cascades
<1>2. IInv /\ CascadeFacts /\ [Next]_vars => CascadeFacts'
  BY CascadeFactsStep DEF IInv
<1>3. CascadeFacts => CascadeSettles
  <2> SUFFICES ASSUME CascadeFacts, ~overlapped, NEW a \in Actor, Completed(a),
                      op[a].rest.mode # "none"
               PROVE  Dependents(op[a].rest.old) = {}
    BY DEF CascadeSettles
  <2>1. op[a].step = "cascade" /\ op[a].rest.todo = {}
    BY DEF Completed
  <2>2. QED
    BY <2>1 DEF CascadeFacts, Cascades
<1>4. QED
  BY <1>1, <1>2, <1>3, Invariance, PTL DEF QueueSpec

-----------------------------------------------------------------------------
(* The directories implement the ledger (WorkLedger): each of the six changes a
   step can make to them is one of the ledger's, or one it does not see. *)

\* Until operations overlap, what an operation saw of its item's places is still so.
PlacedFacts == ~overlapped => \A a \in Actor : Placed(op[a])

LInv == IInv /\ PlacedFacts /\ OnePlace

-----------------------------------------------------------------------------
\* Only the actor at work moves anything.
LEMMA PlacedStep ==
  ASSUME TypeOK, OpFacts, OneBusy, ClaimReady, PlacedFacts, [Next]_vars
  PROVE  PlacedFacts'
<1>1. Effect /\ Conduct /\ (overlapped => overlapped')
  BY Steps, SerialStep
<1>2. SUFFICES ASSUME ~overlapped', NEW b \in Actor PROVE Placed(op[b])'
  BY DEF PlacedFacts
<1>3. ~overlapped /\ Placed(op[b])
  BY <1>1, <1>2 DEF PlacedFacts
<1>4. ASSUME NEW a \in Actor, NEW o \in Operation, Proceeds(a, o)
      PROVE  Placed(op[b])'
  <2>1. CASE a = b
    BY <1>3, <1>4, <2>1 DEF Proceeds, TypeOK, Placed, Has, Untouched
  <2>2. CASE a # b
    <3>1. op'[b] = op[b]
      BY <1>4, <2>2 DEF Proceeds, TypeOK
    <3>2. CASE Busy(a)
      BY <1>3, <2>2, <3>1, <3>2 DEF OneBusy, Busy, Placed
    <3>3. CASE overlapped' = (overlapped \/ \E c \in Actor : Busy(c))
      <4>1. ~Busy(b)
        BY <1>2, <3>3, Zenon
      <4>2. QED
        BY <3>1, <4>1 DEF Busy, Placed
    <3>4. QED
      BY <1>4, <3>2, <3>3 DEF Proceeds
  <2>3. QED
    BY <2>1, <2>2
<1>5. CASE UNCHANGED <<op, overlapped>> /\ Untouched
  BY <1>3, <1>5 DEF Untouched, Placed, Has
<1>6. CASE UNCHANGED op /\ overlapped' = (overlapped \/ \E a \in Actor : Busy(a))
  <2>1. ~Busy(b)
    BY <1>2, <1>6, Zenon
  <2>2. QED
    BY <1>6, <2>1 DEF Busy, Placed
<1>7. QED
  BY <1>1, <1>4, <1>5, <1>6 DEF Conduct

\* What is written is queued already or may be filed; what leaves `blocked` is a task
\* that is nowhere else.
LEMMA WrittenPlace ==
  ASSUME ~overlapped, PlacedFacts, NEW x \in Item, Written(x)
  PROVE  \/ Has(x, "queue")
         \/ \A s \in State : ~Has(x, s)
         \/ x \in Task /\ \A s \in State \ {"blocked"} : ~Has(x, s)
BY DEF Written, PlacedFacts, Placed

\* What leaves `blocked` by a move is a task that goes back to the queue.
LEMMA RetriedPlace ==
  ASSUME OpFacts, NEW x \in Item, NEW t \in State, Moved(x, "blocked", t)
  PROVE  /\ x \in Task /\ t = "queue"
         /\ ~overlapped /\ PlacedFacts => \A s \in State \ {"blocked"} : ~Has(x, s)
BY DEF Moved, PlacedFacts, Placed, OpFacts, OpFact

\* A finished item finds a file at its destination only in the queue, after a race.
LEMMA FinishedPlace ==
  ASSUME FreeEnd, NEW x \in Item, NEW t \in State, Moved(x, "active", t)
  PROVE  Has(x, t) => t = "queue" /\ ~(~overlapped /\ PlacedFacts)
<1>1. Daemon \in Actor /\ Finished(x, t)
  BY DEF Moved, Actor
<1>2. ~overlapped /\ PlacedFacts => Placed(op[Daemon])
  BY <1>1 DEF PlacedFacts
<1>3. QED
  BY <1>1, <1>2 DEF Finished, FreeEnd, Placed

-----------------------------------------------------------------------------
\* How the changes of the directories look from the ledger.
Seen(x) == {s \in State : Has(x, s)}

\* Writing adds the queue to the places of an item, filling a torn file nothing.
LEMMA SeenWrite ==
  ASSUME TypeOK, NEW x \in Item, NEW s \in State, NEW d \in Document \cup {Torn},
         doc' = [doc EXCEPT ![x][s] = d]
  PROVE  /\ Seen(x)' = Seen(x) \cup {s}
         /\ \A y \in Item \ {x} : Seen(y)' = Seen(y)
<1>1. d # NoDoc
  BY QueueAssumption
<1>2. \A t \in State : doc'[x][t] = IF t = s THEN d ELSE doc[x][t]
  BY DEF TypeOK
<1>3. \A y \in Item \ {x} : doc'[y] = doc[y]
  BY DEF TypeOK
<1>4. QED
  BY <1>1, <1>2, <1>3 DEF Seen, Has

\* A rename takes an item from one place to the other.
LEMMA SeenMove ==
  ASSUME TypeOK, NEW x \in Item, NEW s \in State, NEW t \in State, s # t, Has(x, s),
         Rename(x, s, t)
  PROVE  /\ Seen(x)' = (Seen(x) \ {s}) \cup {t}
         /\ \A y \in Item \ {x} : Seen(y)' = Seen(y)
<1>1. \A r \in State : doc'[x][r] = IF r = s THEN NoDoc
                                    ELSE IF r = t THEN doc[x][s] ELSE doc[x][r]
  BY DEF TypeOK, Rename
<1>2. \A y \in Item \ {x} : doc'[y] = doc[y]
  BY DEF TypeOK, Rename
<1>3. QED
  BY <1>1, <1>2 DEF Seen, Has

\* A move to an archive takes one place away.
LEMMA SeenRemove ==
  ASSUME TypeOK, NEW x \in Item, NEW s \in State, MoveToArchive(x, s)
  PROVE  /\ Seen(x)' = Seen(x) \ {s}
         /\ \A y \in Item \ {x} : Seen(y)' = Seen(y)
<1>1. \A t \in State : doc'[x][t] = IF t = s THEN NoDoc ELSE doc[x][t]
  BY DEF TypeOK, MoveToArchive
<1>2. \A y \in Item \ {x} : doc'[y] = doc[y]
  BY DEF TypeOK, MoveToArchive
<1>3. QED
  BY <1>1, <1>2 DEF Seen, Has

\* The quarantine takes the queue away from the items it is about.
LEMMA SeenQuarantine ==
  ASSUME TypeOK, NEW S \in SUBSET Item, Quarantine(S)
  PROVE  \A x \in Item : Seen(x)' = IF x \in S THEN Seen(x) \ {"queue"} ELSE Seen(x)
<1>1. ASSUME NEW x \in Item
      PROVE  \A t \in State :
               doc'[x][t] = IF x \in S /\ t = "queue" THEN NoDoc ELSE doc[x][t]
  BY DEF TypeOK, Quarantine
<1>2. QED
  BY <1>1 DEF Seen, Has

-----------------------------------------------------------------------------
(* One place *)

\* A change of one item's places, from `old` to `new`, keeps it in one place.
Alright(x, S) == \A s, t \in S : s # t => x \in Task /\ "blocked" \in {s, t}

LEMMA AlrightIsOnePlace == OnePlace <=> (~overlapped => \A x \in Item : Alright(x, Seen(x)))
BY DEF OnePlace, Alright, Seen

LEMMA OnePlaceStep ==
  ASSUME LInv, [Next]_vars
  PROVE  OnePlace'
<1>1. TypeOK /\ OpFacts /\ ClaimAlone /\ FreeEnd /\ Effect /\ (overlapped => overlapped') /\ PlacedFacts
  BY Steps, SerialStep DEF LInv, IInv
<1>2. SUFFICES ASSUME ~overlapped', NEW x \in Item PROVE Alright(x, Seen(x)')
  BY AlrightIsOnePlace DEF OnePlace, Alright, Seen
<1>3. ~overlapped /\ Alright(x, Seen(x))
  BY <1>1, <1>2, AlrightIsOnePlace DEF LInv
<1>4. CASE Untouched
  BY <1>3, <1>4 DEF Untouched, Seen, Has
<1>5. ASSUME NEW y \in Item, Written(y) PROVE Alright(x, Seen(x)')
  <2>1. PICK d \in Document \cup {Torn} : doc' = [doc EXCEPT ![y]["queue"] = d]
    BY <1>5 DEF Written
  <2>2. "queue" \in State
    BY DEF State
  <2>3. Seen(y)' = Seen(y) \cup {"queue"} /\ \A z \in Item \ {y} : Seen(z)' = Seen(z)
    BY <1>1, <2>1, <2>2, SeenWrite
  <2>4. CASE x = y
    BY <1>1, <1>3, <1>5, <2>3, <2>4, WrittenPlace DEF Alright, Seen
  <2>5. QED
    BY <1>3, <2>3, <2>4
<1>6. ASSUME NEW y \in Item, NEW s \in State, Filled(y, s) PROVE Alright(x, Seen(x)')
  <2>1. PICK d \in Document : doc' = [doc EXCEPT ![y][s] = d]
    BY <1>6 DEF Filled
  <2>2. Has(y, s)
    BY <1>6, QueueAssumption DEF Filled, Has
  <2>3. Seen(y)' = Seen(y) \cup {s} /\ \A z \in Item \ {y} : Seen(z)' = Seen(z)
    BY <1>1, <2>1, SeenWrite
  <2>4. QED
    BY <1>3, <2>2, <2>3 DEF Seen
<1>7. ASSUME NEW y \in Item, NEW s \in State, NEW t \in State, Moved(y, s, t)
      PROVE  Alright(x, Seen(x)')
  <2>1. s # t /\ Has(y, s) /\ Rename(y, s, t) /\ (s = "active" => ~Has(y, t))
    BY <1>1, <1>3, <1>7, FinishedPlace DEF Moved
  <2>2. Seen(y)' = (Seen(y) \ {s}) \cup {t} /\ \A z \in Item \ {y} : Seen(z)' = Seen(z)
    BY <1>1, <2>1, SeenMove
  <2>3. CASE x = y
    <3>1. CASE s = "blocked"
      BY <1>1, <1>3, <1>7, <2>2, <2>3, <3>1, RetriedPlace DEF Alright, Seen
    <3>2. CASE s # "blocked"
      BY <1>3, <2>1, <2>2, <2>3, <3>2 DEF Alright, Seen
    <3>3. QED
      BY <3>1, <3>2
  <2>4. QED
    BY <1>3, <2>2, <2>3
<1>8. ASSUME NEW y \in Item, NEW s \in State, Removed(y, s) PROVE Alright(x, Seen(x)')
  <2>1. Seen(y)' = Seen(y) \ {s} /\ \A z \in Item \ {y} : Seen(z)' = Seen(z)
    BY <1>1, <1>8, SeenRemove DEF Removed
  <2>2. QED
    BY <1>3, <2>1 DEF Alright
<1>9. ASSUME NEW S \in SUBSET Item, Quarantined(S) PROVE Alright(x, Seen(x)')
  BY <1>1, <1>3, <1>9, SeenQuarantine DEF Quarantined, Alright
<1>10. QED
  BY <1>1, <1>4, <1>5, <1>6, <1>7, <1>8, <1>9 DEF Effect

LEMMA LedgerInvariance == QueueSpec => []LInv
<1>1. Init => PlacedFacts /\ OnePlace
  BY IdleType, QueueAssumption DEF Init, PlacedFacts, Placed, OnePlace, Has, Item, State
<1>2. IInv /\ IInv' /\ PlacedFacts /\ OnePlace /\ [Next]_vars
        => PlacedFacts' /\ OnePlace'
  BY PlacedStep, OnePlaceStep DEF IInv, LInv
<1>3. QED
  BY <1>1, <1>2, Invariance, PTL DEF QueueSpec, LInv

\* Until operations overlap, an item is in one lifecycle directory, or is a task filed
\* again while its blocked predecessor is kept.
THEOREM OnePlaceEach == QueueSpec => []OnePlace
BY LedgerInvariance, PTL DEF LInv

-----------------------------------------------------------------------------
(* The refinement *)

Places == [x \in Item |-> Seen(x)]

\* A plane is the items of one kind of work.
LEMMA PlaneMates ==
  ASSUME NEW plane \in Planes, NEW x \in plane, NEW y \in plane
  PROVE  x \in Item /\ y \in Item /\ PlaneOf(x) = PlaneOf(y)
BY QueueAssumption DEF Planes, PlaneOf, Item

\* Each change of the directories is a step of the ledger.
LEMMA LedgerStep ==
  ASSUME LInv, [Next]_vars
  PROVE  Ledger!Next \/ UNCHANGED Ledger!vars
<1> DEFINE Same == UNCHANGED <<Places, archived>>
<1> DEFINE Act == \/ Same
                  \/ \E x \in Item : Ledger!File(x) \/ Ledger!Claim(x) \/ Ledger!Retry(x)
                  \/ \E x \in Item, s \in State : Ledger!Finish(x, s)
                  \/ \E S \in SUBSET Item, s \in State : Ledger!Archive(S, s)
<1>1. TypeOK /\ OpFacts /\ ClaimAlone /\ FreeEnd /\ Effect /\ (overlapped => overlapped') /\ PlacedFacts
  BY Steps, SerialStep DEF LInv, IInv
<1>2. ASSUME Untouched PROVE Same
  <2>1. \A x \in Item : Seen(x)' = Seen(x)
    BY <1>2 DEF Untouched, Seen, Has
  <2>2. QED
    BY <1>2, <2>1 DEF Untouched, Places
<1>3. ASSUME NEW x \in Item, Written(x) PROVE Act
  <2>1. PICK d \in Document \cup {Torn} : doc' = [doc EXCEPT ![x]["queue"] = d]
    BY <1>3 DEF Written
  <2>2. "queue" \in State
    BY DEF State
  <2>3. Seen(x)' = Seen(x) \cup {"queue"} /\ \A y \in Item \ {x} : Seen(y)' = Seen(y)
    BY <1>1, <2>1, <2>2, SeenWrite
  <2>4. Places' = [Places EXCEPT ![x] = Seen(x) \cup {"queue"}] /\ UNCHANGED archived
    BY <1>3, <2>3 DEF Places, Written
  <2>5. CASE "queue" \in Seen(x)
    BY <2>3, <2>4, <2>5 DEF Places
  <2>6. CASE "queue" \notin Seen(x)
    <3>1. overlapped \/ Seen(x) = {} \/ (Seen(x) = {"blocked"} /\ x \in Task)
      <4>1. CASE overlapped
        BY <4>1
      <4>2. CASE \A s \in State : ~Has(x, s)
        BY <4>2 DEF Seen
      <4>3. CASE x \in Task /\ \A s \in State \ {"blocked"} : ~Has(x, s)
        <5>1. Seen(x) \subseteq {"blocked"}
          BY <4>3 DEF Seen
        <5>2. QED
          BY <4>3, <5>1
      <4>4. ~Has(x, "queue")
        BY <2>6 DEF Seen, State
      <4>5. QED
        BY <1>1, <1>3, <4>1, <4>2, <4>3, <4>4, WrittenPlace
    <3>2. Ledger!File(x)
      BY <2>4, <3>1 DEF Ledger!File, Places, Seen
    <3>3. QED
      BY <3>2
  <2>7. QED
    BY <2>5, <2>6
<1>4. ASSUME NEW x \in Item, NEW s \in State, Filled(x, s) PROVE Same
  <2>1. PICK d \in Document : doc' = [doc EXCEPT ![x][s] = d]
    BY <1>4 DEF Filled
  <2>2. s \in Seen(x)
    BY <1>4, QueueAssumption DEF Filled, Has, Seen
  <2>3. \A y \in Item : Seen(y)' = Seen(y)
    <3>1. Seen(x)' = Seen(x) \cup {s} /\ \A y \in Item \ {x} : Seen(y)' = Seen(y)
      BY <1>1, <2>1, SeenWrite
    <3>2. QED
      BY <2>2, <3>1
  <2>4. QED
    BY <1>4, <2>3 DEF Places, Filled
<1>5. ASSUME NEW x \in Item, NEW s \in State, NEW t \in State, Moved(x, s, t) PROVE Act
  <2>1. /\ s # t /\ Has(x, s) /\ s # "done" /\ Rename(x, s, t) /\ UNCHANGED archived
        /\ s = "queue" \/ t = "active" => s = "queue" /\ t = "active" /\ Claimed(x)
    BY <1>5 DEF Moved
  <2>2. Seen(x)' = (Seen(x) \ {s}) \cup {t} /\ \A y \in Item \ {x} : Seen(y)' = Seen(y)
    BY <1>1, <2>1, SeenMove
  <2>3. Places' = [Places EXCEPT ![x] = (Seen(x) \ {s}) \cup {t}]
    BY <2>2 DEF Places
  <2>4. CASE t = "active"
    <3>1. s = "queue" /\ Alone(x)
      BY <1>1, <2>1, <2>4 DEF ClaimAlone, Claimed
    <3>2. \A plane \in Planes : x \in plane => \A y \in plane : "active" \notin Places[y]
      BY <3>1, PlaneMates DEF Alone, Places, Seen
    <3>3. "active" \notin Seen(x) /\ "queue" \in Seen(x)
      BY <2>1, <3>1 DEF Alone, Seen
    <3>4. Ledger!Claim(x)
      BY <2>1, <2>3, <2>4, <3>1, <3>2, <3>3 DEF Ledger!Claim, Ledger!Move, Places, Seen
    <3>5. QED
      BY <3>4
  <2>5. CASE t # "active" /\ s = "active"
    <3>0. Has(x, t) => t = "queue" /\ overlapped
      BY <1>1, <1>5, <2>5, FinishedPlace
    <3>1. Ledger!Finish(x, t)
      BY <2>1, <2>3, <2>5, <3>0 DEF Ledger!Finish, Ledger!Move, Places, Seen
    <3>2. QED
      BY <3>1
  <2>6. CASE t # "active" /\ s = "blocked"
    <3>1. x \in Task /\ t = "queue" /\ (overlapped \/ Seen(x) = {"blocked"})
      BY <1>1, <1>5, <2>1, <2>6, RetriedPlace DEF Seen
    <3>2. Ledger!Retry(x)
      BY <2>1, <2>3, <2>6, <3>1 DEF Ledger!Retry, Ledger!Move, Places, Seen
    <3>3. QED
      BY <3>2
  <2>7. QED
    BY <2>1, <2>4, <2>5, <2>6 DEF State
<1>6. ASSUME NEW x \in Item, NEW s \in State, Removed(x, s) PROVE Act
  <2>1. Seen(x)' = Seen(x) \ {s} /\ \A y \in Item \ {x} : Seen(y)' = Seen(y)
    BY <1>1, <1>6, SeenRemove DEF Removed
  <2>2. Places' = [y \in Item |-> IF y \in {x} THEN Places[y] \ {s} ELSE Places[y]]
    BY <2>1 DEF Places
  <2>3. Ledger!Archive({x}, s)
    BY <1>6, <2>2 DEF Ledger!Archive, Removed, MoveToArchive, Places, Seen
  <2>4. QED
    BY <2>3
<1>7. ASSUME NEW S \in SUBSET Item, Quarantined(S) PROVE Act
  <2>1. Places' = [x \in Item |-> IF x \in S THEN Places[x] \ {"queue"} ELSE Places[x]]
    BY <1>1, <1>7, SeenQuarantine DEF Quarantined, Places
  <2>2. Ledger!Archive(S, "queue")
    BY <1>7, <2>1 DEF Ledger!Archive, Quarantined, Quarantine, Places, Seen, State
  <2>3. QED
    BY <2>2 DEF State
<1>8. Act
  BY <1>1, <1>2, <1>3, <1>4, <1>5, <1>6, <1>7 DEF Effect
<1>9. Ledger!State = State
  BY DEF Ledger!State, State
<1>10. QED
  BY <1>1, <1>8, <1>9 DEF Ledger!Next, Places, Seen

\* Every behaviour of the directories, of the processes that move files in them and
\* of their crashes is a behaviour of the ledger.
THEOREM QueueKeepsLedger == QueueSpec => KeepsLedger
<1>1. Init => Ledger!Init
  BY DEF Init, Ledger!Init, Has
<1>2. LInv /\ [Next]_vars => [Ledger!Next]_(Ledger!vars)
  BY LedgerStep
<1>3. QED
  BY <1>1, <1>2, LedgerInvariance, PTL DEF QueueSpec, KeepsLedger, Ledger!LedgerSpec
=============================================================================
