------------------------------- MODULE Intake -------------------------------
(***************************************************************************)
(* How work and orders get into a workspace while a daemon owns it: the    *)
(* command files of the mailbox, the operator interventions that wait for  *)
(* an idle runtime (src/runtime/tick.rs, src/workspace/runtime_control.rs),*)
(* and the ideas that the watcher finds in ideas/inbox and turns into      *)
(* specs (src/runtime/tick.rs, src/runtime/startup.rs).                    *)
(*                                                                         *)
(* A command file is named by its command and, for an operator's file, by  *)
(* time; a deferred copy is named by its command and the request counter   *)
(* of the process.  Files are applied in the order of their names.         *)
(***************************************************************************)
EXTENDS Integers, FiniteSets, Sequences

CONSTANTS
  Ideas,          \* idea files, numbered in the order of their paths
  Specs,          \* spec ids
  SpecOf,         \* function from Ideas to Specs: safe_spec_id_from_idea_path
  Orders,         \* commands an operator may give: records [kind, arg]
  MaxOrders,      \* commands given in a behaviour
  MaxWrites,      \* times the inbox is written
  MaxStops,       \* ends of the daemon, in order or by a crash
  MaxStages       \* stages of a run

VARIABLES
  spec,           \* state directory of each spec: "none" when it has no file
  inbox,          \* the file of each idea: its write and whether it is UTF-8
  artifact,       \* write kept under intake/ideas for each spec id, 0 for none
  files,          \* mailbox/incoming
  archived,       \* names in mailbox/processed and mailbox/failed
  stages,         \* stages the active run has had
  pc,             \* where the daemon is: "off" when there is none
  todo,           \* command files listed by this drain
  cur,            \* the command file being handled, or None
  verdict,        \* what became of it
  counter,        \* REQUEST_COUNTER of the process
  seen,           \* fingerprint the poller holds of each idea, 0 for none
  recent,         \* ideas whose debounce window is open
  events,         \* changed files still to be handled in this cycle
  given,          \* history: the orders given, in order
  settled,        \* history: how each order was settled
  made,           \* history: specs the watcher enqueued for each id
  cancels,        \* history: cancellations of each spec
  writes, stops   \* history: bounds

mailbox == <<files, archived, todo, cur, verdict, counter>>
watcher == <<seen, recent, events>>
work    == <<spec, artifact, stages>>
history == <<given, settled, made, cancels>>
bounds  == <<writes, stops>>
vars == <<work, inbox, mailbox, watcher, pc, history, bounds>>

None == [kind |-> "none"]
NoFile == [write |-> 0, text |-> "clear"]
SpecStates == {"none", "queue", "active", "done", "blocked", "cancelled"}
Kinds == {"add_idea", "add_spec", "cancel_work_item", "unreadable"}
Verdicts == {"applied", "deferred", "failed", "collided"}

-----------------------------------------------------------------------------
(* Names of command files *)

Rank == [unreadable |-> 0, add_idea |-> 1, add_spec |-> 2, cancel_work_item |-> 3]

(* The time in an operator's name sorts before the word "deferred". *)
Name(f) == <<f.kind, f.deferred, f.num>>
Precedes(f, g) ==
  \/ Rank[f.kind] < Rank[g.kind]
  \/ f.kind = g.kind /\ ~f.deferred /\ g.deferred
  \/ f.kind = g.kind /\ f.deferred = g.deferred /\ f.num < g.num

(* Operator interventions wait until no plane has a run. *)
Busy == \E s \in Specs : spec[s] = "active"

(* ensure_unique_id of enqueue_spec, and what cancel can find: the archive of
   cancelled specs takes part in neither. *)
Taken(s) == spec[s] \in {"queue", "active", "done", "blocked"}
Cancelable(s) == spec[s] \in {"queue", "blocked"}

Init ==
  /\ spec = [s \in Specs |-> "none"] /\ artifact = [s \in Specs |-> 0] /\ stages = 0
  /\ inbox = [i \in Ideas |-> NoFile]
  /\ files = {} /\ archived = {} /\ todo = {} /\ cur = None /\ verdict = "applied"
  /\ counter = 0
  /\ seen = [i \in Ideas |-> 0] /\ recent = {} /\ events = {}
  /\ pc = "off"
  /\ given = <<>> /\ settled = <<>>
  /\ made = [s \in Specs |-> 0] /\ cancels = [s \in Specs |-> 0]
  /\ writes = 0 /\ stops = 0

-----------------------------------------------------------------------------
(* What an order does when it is applied: the change and whether it failed.
   A mailbox command and the direct call of an operator share these. *)

Stage(i, ok) ==
  /\ ok = (inbox[i].write = 0 /\ writes < MaxWrites)
  /\ IF ok THEN /\ inbox' = [inbox EXCEPT ![i] = [write |-> writes + 1, text |-> "clear"]]
                /\ writes' = writes + 1
           ELSE UNCHANGED <<inbox, writes>>
  /\ UNCHANGED <<spec, cancels>>

AddSpec(s, ok) ==
  /\ ok = ~Taken(s)
  /\ spec' = IF ok THEN [spec EXCEPT ![s] = "queue"] ELSE spec
  /\ UNCHANGED <<inbox, writes, cancels>>

Cancel(s, ok) ==
  /\ ok = Cancelable(s)
  /\ spec' = IF ok THEN [spec EXCEPT ![s] = "cancelled"] ELSE spec
  /\ cancels' = IF ok THEN [cancels EXCEPT ![s] = @ + 1] ELSE cancels
  /\ UNCHANGED <<inbox, writes>>

Perform(order, ok) ==
  \/ order.kind = "add_idea" /\ Stage(order.arg, ok)
  \/ order.kind = "add_spec" /\ AddSpec(order.arg, ok)
  \/ order.kind = "cancel_work_item" /\ Cancel(order.arg, ok)
  \/ order.kind = "unreadable" /\ ~ok /\ UNCHANGED <<spec, inbox, writes, cancels>>

-----------------------------------------------------------------------------
(* The operator and the editor *)

Give(order) == /\ Len(given) < MaxOrders
               /\ given' = Append(given, order)

(* dispatch with an active owner: the order becomes a file. *)
Post(order) ==
  /\ pc # "off" /\ Give(order)
  /\ files' = files \cup {[kind |-> order.kind, arg |-> order.arg, deferred |-> FALSE,
                           num |-> Len(given) + 1, order |-> Len(given) + 1]}
  /\ settled' = Append(settled, {})
  /\ UNCHANGED <<work, inbox, archived, todo, cur, verdict, counter, watcher, pc, made, cancels,
                 bounds>>

(* dispatch without an owner: the call changes the directories itself, and an
   intervention is refused while the snapshot holds a run. *)
Direct(order) ==
  /\ pc = "off" /\ order.kind # "unreadable" /\ Give(order)
  /\ \E ok \in BOOLEAN :
       /\ IF order.kind = "cancel_work_item" /\ Busy
          THEN ~ok /\ UNCHANGED <<spec, inbox, writes, cancels>>
          ELSE Perform(order, ok)
       /\ settled' = Append(settled, {IF ok THEN "applied" ELSE "failed"})
  /\ UNCHANGED <<artifact, stages, mailbox, watcher, pc, made, stops>>

(* Someone saves an idea, perhaps in an encoding that is not UTF-8. *)
SaveIdea(i, text) ==
  /\ writes < MaxWrites
  /\ writes' = writes + 1
  /\ inbox' = [inbox EXCEPT ![i] = [write |-> writes + 1, text |-> text]]
  /\ UNCHANGED <<work, mailbox, watcher, pc, history, stops>>

DeleteIdea(i) ==
  /\ inbox[i].write # 0 /\ writes < MaxWrites
  /\ writes' = writes + 1
  /\ inbox' = [inbox EXCEPT ![i] = NoFile]
  /\ UNCHANGED <<work, mailbox, watcher, pc, history, stops>>

-----------------------------------------------------------------------------
(* The daemon starts and ends.  The poller of a new session has seen no idea
   (emit_existing_on_startup), and the counter starts at 0. *)

Start ==
  /\ pc = "off" /\ pc' = "list"
  /\ counter' = 0
  /\ seen' = [i \in Ideas |-> 0] /\ recent' = {} /\ events' = {}
  /\ todo' = {} /\ cur' = None /\ verdict' = "applied"
  /\ UNCHANGED <<work, inbox, files, archived, history, bounds>>

(* The process ends: an active run stays in the snapshot, the files where they
   are, and everything else is forgotten. *)
End ==
  /\ pc # "off" /\ stops < MaxStops
  /\ pc' = "off" /\ stops' = stops + 1
  /\ counter' = 0 /\ todo' = {} /\ cur' = None /\ verdict' = "applied"
  /\ seen' = [i \in Ideas |-> 0] /\ recent' = {} /\ events' = {}
  /\ UNCHANGED <<work, inbox, files, archived, history, writes>>

-----------------------------------------------------------------------------
(* drain_mailbox *)

List ==
  /\ pc = "list" /\ pc' = "take" /\ todo' = files
  /\ UNCHANGED <<work, inbox, files, archived, cur, verdict, counter, watcher, history, bounds>>

(* Defect: a copy whose name is in use counts as written. *)
DeferUnchecked(f) ==
  LET copy == [f EXCEPT !.deferred = TRUE, !.num = counter]
      used == Name(copy) \in {Name(g) : g \in files}
  IN /\ counter' = counter + 1
     /\ files' = IF used THEN files ELSE files \cup {copy}
     /\ verdict' = "deferred"
     /\ UNCHANGED <<spec, inbox, writes, cancels>>

(* A deferral writes a copy under a new name, unless the name is in use. *)
Defer(f) ==
  LET copy == [f EXCEPT !.deferred = TRUE, !.num = counter]
      used == Name(copy) \in {Name(g) : g \in files}
  IN /\ counter' = counter + 1
     /\ files' = IF used THEN files ELSE files \cup {copy}
     /\ verdict' = IF used THEN "collided" ELSE "deferred"
     /\ UNCHANGED <<spec, inbox, writes, cancels>>

Apply(f) ==
  /\ pc = "take" /\ pc' = "archive"
  /\ f \in todo /\ \A g \in todo \ {f} : Precedes(f, g)
  /\ todo' = todo \ {f} /\ cur' = f
  /\ IF f.kind = "cancel_work_item" /\ Busy
     THEN Defer(f)
     ELSE \E ok \in BOOLEAN :
            /\ Perform(f, ok)
            /\ verdict' = IF ok THEN "applied" ELSE "failed"
            /\ UNCHANGED <<files, counter>>
  /\ UNCHANGED <<artifact, stages, archived, watcher, given, settled, made, stops>>

(* The archive is written first; a name that is already there gets the counter
   for a suffix. *)
Archive ==
  /\ pc = "archive" /\ pc' = "remove"
  /\ LET name == <<verdict \in {"applied", "deferred"}, Name(cur)>>
     IN /\ counter' = IF name \in archived THEN counter + 1 ELSE counter
        /\ archived' = archived \cup {name}
  /\ settled' = IF verdict = "deferred" THEN settled
                ELSE [settled EXCEPT ![cur.order] = @ \cup {verdict}]
  /\ UNCHANGED <<work, inbox, files, todo, cur, verdict, watcher, given, made, cancels, bounds>>

(* Defect: the whole listing is removed with the file that was handled. *)
RemoveListed ==
  /\ pc = "remove" /\ pc' = "take"
  /\ files' = files \ (todo \cup {cur}) /\ cur' = None
  /\ UNCHANGED <<work, inbox, archived, todo, verdict, counter, watcher, history, bounds>>

Remove ==
  /\ pc = "remove" /\ pc' = "take"
  /\ files' = files \ {cur} /\ cur' = None
  /\ UNCHANGED <<work, inbox, archived, todo, verdict, counter, watcher, history, bounds>>

-----------------------------------------------------------------------------
(* consume_watcher_events *)

(* A changed file is reported once its debounce window is over, and what is
   reported is what the poller then holds; a missing file is forgotten. *)
Poll ==
  LET present == {i \in Ideas : inbox[i].write # 0}
      emitted == {i \in present : seen[i] # inbox[i].write} \ recent
  IN /\ pc = "take" /\ todo = {} /\ pc' = "read"
     /\ events' = emitted
     /\ recent' = (recent \cap present) \cup emitted
     /\ seen' = [i \in Ideas |-> IF i \in emitted \/ inbox[i].write = 0
                                 THEN inbox[i].write ELSE seen[i]]
     /\ UNCHANGED <<work, inbox, mailbox, history, bounds>>

(* Time passes between cycles. *)
DebounceEnds ==
  /\ pc = "list" /\ recent # {} /\ recent' = {}
  /\ UNCHANGED <<work, inbox, mailbox, seen, events, pc, history, bounds>>

(* normalize_idea_watch_event: the file is read and kept under the spec id of
   its name.  A file that is gone or cannot be read is left for its next change. *)
First(i) == i \in events /\ \A j \in events \ {i} : i < j

ReadIdea(i) ==
  /\ pc = "read" /\ First(i)
  /\ IF inbox[i].write # 0 /\ inbox[i].text = "clear"
     THEN /\ artifact' = [artifact EXCEPT ![SpecOf[i]] = inbox[i].write]
          /\ pc' = "file" /\ UNCHANGED events
     ELSE events' = events \ {i} /\ UNCHANGED <<artifact, pc>>
  /\ UNCHANGED <<spec, stages, inbox, mailbox, seen, recent, history, bounds>>

(* idea_already_represented and ensure_unique_id look in the same directories. *)
Represented(s) == Taken(s)

FileSpec(i) ==
  /\ pc = "file" /\ First(i)
  /\ LET s == SpecOf[i] IN
     IF Represented(s) THEN UNCHANGED <<spec, made>>
     ELSE spec' = [spec EXCEPT ![s] = "queue"] /\ made' = [made EXCEPT ![s] = @ + 1]
  /\ events' = events \ {i} /\ pc' = "read"
  /\ UNCHANGED <<artifact, stages, inbox, mailbox, seen, recent, given, settled, cancels, bounds>>

-----------------------------------------------------------------------------
(* The rest of the cycle: a claim, a further stage or the end of the run.
   Each stage takes a request id from the counter. *)

Claim(s) ==
  /\ pc = "read" /\ events = {} /\ pc' = "list"
  /\ ~Busy /\ spec[s] = "queue"
  /\ spec' = [spec EXCEPT ![s] = "active"] /\ stages' = 1 /\ counter' = counter + 1
  /\ UNCHANGED <<artifact, inbox, files, archived, todo, cur, verdict, watcher, history, bounds>>

NextStage ==
  /\ pc = "read" /\ events = {} /\ pc' = "list"
  /\ Busy /\ stages < MaxStages
  /\ stages' = stages + 1 /\ counter' = counter + 1
  /\ UNCHANGED <<spec, artifact, inbox, files, archived, todo, cur, verdict, watcher, history,
                 bounds>>

EndRun(s, end) ==
  /\ pc = "read" /\ events = {} /\ pc' = "list"
  /\ spec[s] = "active" /\ spec' = [spec EXCEPT ![s] = end] /\ stages' = 0
  /\ UNCHANGED <<artifact, inbox, mailbox, watcher, history, bounds>>

IdleCycle ==
  /\ pc = "read" /\ events = {} /\ pc' = "list"
  /\ \A s \in Specs : spec[s] \notin {"queue", "active"}
  /\ UNCHANGED <<work, inbox, mailbox, watcher, history, bounds>>

Daemon ==
  \/ List \/ Archive \/ Remove \/ \E f \in files : Apply(f)
  \/ Poll \/ \E i \in Ideas : ReadIdea(i) \/ FileSpec(i)
  \/ \E s \in Specs : Claim(s) \/ EndRun(s, "done") \/ EndRun(s, "blocked")
  \/ NextStage \/ IdleCycle

Operator ==
  \/ \E order \in Orders : Post(order) \/ Direct(order)
  \/ \E i \in Ideas : DeleteIdea(i) \/ \E text \in {"clear", "garbled"} : SaveIdea(i, text)

Next == Daemon \/ Operator \/ Start \/ End \/ DebounceEnds

Spec == Init /\ [][Next]_vars

-----------------------------------------------------------------------------
(* Types: every spec is in one directory, every idea has a numbered write. *)
TypeOK ==
  /\ spec \in [Specs -> SpecStates]
  /\ artifact \in [Specs -> 0 .. MaxWrites]
  /\ \A i \in Ideas : inbox[i].write \in 0 .. MaxWrites /\ inbox[i].text \in {"clear", "garbled"}
  /\ \A f \in files : f.kind \in Kinds /\ f.order \in DOMAIN given
  /\ todo \subseteq files /\ verdict \in Verdicts
  /\ cur # None => cur.kind \in Kinds
  /\ seen \in [Ideas -> 0 .. MaxWrites] /\ recent \subseteq Ideas /\ events \subseteq Ideas
  /\ Len(given) = Len(settled)

(* An order that was accepted is never silently gone: at every moment, a crash
   of the daemon included, it is settled in an archive or a file of
   mailbox/incoming still carries it.  The copy of a deferral is written before
   the original is archived, and an archive before its original is removed. *)
NoCommandLost ==
  \A k \in DOMAIN given : settled[k] # {} \/ \E f \in files : f.order = k

(* The idea files stay in the inbox and are reported again by every new
   session, yet an idea is worked once: the watcher files a spec for an id a
   second time only after an operator cancelled the earlier one. *)
IdeaRunsOnce == \A s \in Specs : made[s] <= 1 + cancels[s]

(* Names that differ only in characters an id cannot have make one spec id
   (safe_spec_id_from_idea_path), and the ideas then share one place. *)
OwnId(i) == \A j \in Ideas \ {i} : SpecOf[j] # SpecOf[i]

(* A write that the poller has noted is not forgotten: as long as the idea has
   not changed again and is not waiting to be handled, its text is the one kept
   under intake/ideas, however the write fell into a debounce window. *)
NotedIsKept ==
  \A i \in Ideas :
    OwnId(i) /\ inbox[i] = [write |-> seen[i], text |-> "clear"] /\ seen[i] # 0 /\ i \notin events
      => artifact[SpecOf[i]] = seen[i]
=============================================================================
