--------------------------- MODULE CapabilityGate ---------------------------
(***************************************************************************)
(* The gate a stage request passes before its runner is started            *)
(* (src/runtime/capability_gates.rs), and the approvals that operators     *)
(* give for it (src/runtime/approvals.rs, src/workspace/runtime_control.rs,*)
(* src/runtime/tick.rs).                                                   *)
(*                                                                         *)
(* An approval is one file under approvals/pending, and after its decision *)
(* one under approvals/resolved.  Its name and its identity are the run,   *)
(* the request and the grant, and the ids of runs and requests are made    *)
(* from the process id and two counters of the process.                    *)
(***************************************************************************)
EXTENDS Integers, FiniteSets

CONSTANTS
  Pids,          \* process ids the system may give to a daemon
  Nodes,         \* stages of the compiled plan
  GrantsOf,      \* function from Nodes to their grants
  RunnerOf,      \* function from Nodes to runners: "codex" with a bounded permission
                 \* level, "unknown" without an adapter, or any other
  Operators,     \* operators at the command line
  MaxRequests,   \* stage requests of a process
  MaxDecisions,  \* decisions that operators make
  MaxStops       \* ends of a daemon

VARIABLES
  pid,           \* process id of the daemon, 0 when there is none
  runs,          \* RUN_COUNTER of the process
  requests,      \* REQUEST_COUNTER of the process
  gate,          \* the request at the gate, or None
  pending,       \* keys of the files in approvals/pending
  resolved,      \* status in the file of approvals/resolved for each key
  mail,          \* decisions in the mailbox
  doing,         \* the decision each actor is recording, or None
  asked,         \* history: for each key, the stage its approval was created for
  decided,       \* history: for each key, the decisions recorded
  launched,      \* history: requests whose runner was started
  refused,       \* history: nodes refused though an operator had approved
  made, stops    \* history: bounds

vars == <<pid, runs, requests, gate, pending, resolved, mail, doing, asked, decided, launched,
          refused, made, stops>>
counters  == <<runs, requests>>
approvals == <<pending, resolved>>
history   == <<asked, decided, launched, refused>>
bounds    == <<made, stops>>

None == [key |-> <<>>]
Nobody == [life |-> 0, node |-> "none"]
Actors == Operators \cup {"daemon"}
GrantIds == UNION {{g.id : g \in GrantsOf[n]} : n \in Nodes}
Keys == [pid : Pids, run : 1 .. MaxRequests, request : 1 .. MaxRequests, grant : GrantIds]
Statuses == {"approved", "denied"}

-----------------------------------------------------------------------------
(* What a runner supports of a granted capability: evaluate_capability_grant
   of the adapters, and of the dispatcher when it has no adapter. *)

Support(runner, g) ==
  IF g.decision # "granted"
  THEN [supported |-> FALSE, enforcement |-> "not_applicable", evidence |-> {}]
  ELSE [supported   |-> TRUE,
        enforcement |-> IF (g.own /\ runner # "unknown") \/ runner = "codex"
                        THEN g.enforcement ELSE "advisory_only",
        evidence    |-> IF runner = "unknown" THEN {}
                        ELSE {"runner_invocation", "runner_completion"}]

(* push_blocked for one required grant: the failure classes it adds.  `approved`
   says that its approval is resolved as approved. *)
Blocks(runner, g, approved) ==
  LET s == Support(runner, g) IN
  CASE ~g.required -> {}
    [] g.required /\ g.decision = "denied" -> {"capability_grant_denied"}
    [] g.required /\ g.decision = "unsupported" -> {"capability_grant_unsupported"}
    [] g.required /\ g.decision = "approval_required" ->
         IF approved THEN {} ELSE {"capability_approval_required"}
    [] g.required /\ g.decision = "granted" ->
         IF ~g.evidenced THEN {"capability_evidence_missing"}
         ELSE IF ~s.supported THEN {"capability_grant_unsupported"}
         ELSE IF g.enforcement # "advisory_only" /\ s.enforcement = "advisory_only"
         THEN {"capability_grant_unsupported"}
         ELSE IF ~(g.requires \subseteq s.evidence) THEN {"capability_evidence_missing"}
         ELSE {}

(* failure_class_for_blocks: the gravest of the classes. *)
Gravest(classes) ==
  LET Class(c, rest) == IF c \in classes THEN c ELSE rest
  IN Class("capability_grant_denied", Class("capability_approval_required",
       Class("capability_grant_unsupported", Class("capability_evidence_missing", "none"))))

Init ==
  /\ pid = 0 /\ runs = 0 /\ requests = 0 /\ gate = None
  /\ pending = {} /\ resolved = [k \in Keys |-> "none"]
  /\ mail = {} /\ doing = [a \in Actors |-> None]
  /\ asked = [k \in Keys |-> Nobody] /\ decided = [k \in Keys |-> {}]
  /\ launched = {} /\ refused = {} /\ made = 0 /\ stops = 0

-----------------------------------------------------------------------------
(* The daemon *)

Start(p) ==
  /\ pid = 0 /\ pid' = p /\ runs' = 0 /\ requests' = 0
  /\ UNCHANGED <<gate, approvals, mail, doing, history, bounds>>

(* It ends between any two steps; what it was gating or recording is lost. *)
End ==
  /\ pid # 0 /\ stops < MaxStops
  /\ pid' = 0 /\ runs' = 0 /\ requests' = 0 /\ gate' = None /\ stops' = stops + 1
  /\ doing' = [doing EXCEPT !["daemon"] = None]
  /\ UNCHANGED <<approvals, mail, history, made>>

(* Defect: the request that opens a run takes no id of its own. *)
RequestUnnumbered(n, fresh) ==
  /\ pid # 0 /\ gate = None /\ doing["daemon"] = None /\ mail = {}
  /\ requests < MaxRequests /\ (fresh \/ runs > 0)
  /\ runs' = IF fresh THEN runs + 1 ELSE runs
  /\ requests' = IF fresh THEN requests ELSE requests + 1
  /\ gate' = [key |-> [pid |-> pid, run |-> runs', request |-> requests', grant |-> ""],
              node |-> n, todo |-> GrantsOf[n], blocks |-> {}]
  /\ UNCHANGED <<pid, approvals, mail, doing, history, bounds>>

(* build_stage_run_request: a run may be new or go on, the request is new. *)
Request(n, fresh) ==
  /\ pid # 0 /\ gate = None /\ doing["daemon"] = None /\ mail = {}
  /\ requests < MaxRequests /\ (fresh \/ runs > 0)
  /\ requests' = requests + 1 /\ runs' = IF fresh THEN runs + 1 ELSE runs
  /\ gate' = [key |-> [pid |-> pid, run |-> runs', request |-> requests + 1, grant |-> ""],
              node |-> n, todo |-> GrantsOf[n], blocks |-> {}]
  /\ UNCHANGED <<pid, approvals, mail, doing, history, bounds>>

KeyOf(g) == [gate.key EXCEPT !.grant = g.id]

(* Defect: an approval is found by its run and grant alone. *)
ApprovedForRun(k) == \E j \in Keys :
  j.pid = k.pid /\ j.run = k.run /\ j.grant = k.grant /\ j \notin pending /\ resolved[j] = "approved"

(* find_approval_for_grant: the pending record is found before the resolved. *)
Approved(k) == k \notin pending /\ resolved[k] = "approved"
Recorded(k) == k \in pending \/ resolved[k] # "none"

(* One turn of the gate's loop.  An approval that is not recorded is requested. *)
Evaluate(g) ==
  /\ gate # None /\ g \in gate.todo
  /\ gate' = [gate EXCEPT !.todo = @ \ {g},
                          !.blocks = @ \cup Blocks(RunnerOf[gate.node], g, Approved(KeyOf(g)))]
  /\ IF g.required /\ g.decision = "approval_required" /\ ~Recorded(KeyOf(g))
     THEN /\ pending' = pending \cup {KeyOf(g)}
          /\ asked' = [asked EXCEPT ![KeyOf(g)] = [life |-> stops + 1, node |-> gate.node]]
     ELSE UNCHANGED <<pending, asked>>
  /\ UNCHANGED <<pid, counters, resolved, mail, doing, decided, launched, refused, bounds>>

(* record_capability_gate_result, and the runner is started when nothing blocks. *)
Launch ==
  /\ gate # None /\ gate.todo = {} /\ gate.blocks = {}
  /\ launched' = launched \cup
       {[node |-> gate.node, life |-> stops + 1,
         keys |-> {KeyOf(g) : g \in {h \in GrantsOf[gate.node] :
                                       h.required /\ h.decision = "approval_required"}}]}
  /\ gate' = None
  /\ UNCHANGED <<pid, counters, approvals, mail, doing, asked, decided, refused, bounds>>

(* Otherwise the stage gets the failure of capability_gate_failure_result. *)
Refuse ==
  /\ gate # None /\ gate.todo = {} /\ gate.blocks # {}
  /\ LET again == \E k \in Keys : /\ "approved" \in decided[k]
                                  /\ asked[k] = [life |-> stops + 1, node |-> gate.node]
                                  /\ k.run = gate.key.run /\ k.request < gate.key.request
     IN refused' = IF Gravest(gate.blocks) = "capability_approval_required" /\ again
                   THEN refused \cup {gate.node} ELSE refused
  /\ gate' = None
  /\ UNCHANGED <<pid, counters, approvals, mail, doing, asked, decided, launched, bounds>>

-----------------------------------------------------------------------------
(* A decision: approve_execution_capability_request, deny_execution_capability_request *)

(* With a daemon the command goes through the mailbox. *)
Post(k, s) ==
  /\ pid # 0 /\ k \in pending /\ made < MaxDecisions /\ made' = made + 1
  /\ mail' = mail \cup {[key |-> k, status |-> s]}
  /\ UNCHANGED <<pid, counters, gate, approvals, doing, history, stops>>

(* The mailbox is drained between two stages; a decision whose pending record is
   gone is archived as failed. *)
Drain(d) ==
  /\ pid # 0 /\ gate = None /\ d \in mail /\ doing["daemon"] = None
  /\ mail' = mail \ {d}
  /\ doing' = IF d.key \in pending
              THEN [doing EXCEPT !["daemon"] = [key |-> d.key, status |-> d.status, wrote |-> FALSE]]
              ELSE doing
  /\ UNCHANGED <<pid, counters, gate, approvals, history, bounds>>

(* Without one, the command line reads the pending record itself. *)
Decide(o, k, s) ==
  /\ pid = 0 /\ k \in pending /\ doing[o] = None
  /\ made < MaxDecisions /\ made' = made + 1
  /\ doing' = [doing EXCEPT ![o] = [key |-> k, status |-> s, wrote |-> FALSE]]
  /\ UNCHANGED <<pid, counters, gate, approvals, mail, history, stops>>

(* resolve_approval: the decision is written, then the pending record removed. *)
Write(k, status) ==
  /\ resolved' = [resolved EXCEPT ![k] = status]
  /\ decided' = [decided EXCEPT ![k] = @ \cup {status}]
  /\ UNCHANGED pending

Remove(k) == pending' = pending \ {k} /\ UNCHANGED <<resolved, decided>>

(* Defect: the two are swapped. *)
RecordSwapped(k, status, wrote) == IF wrote THEN Write(k, status) ELSE Remove(k)

Record(k, status, wrote) == IF wrote THEN Remove(k) ELSE Write(k, status)

(* A record that another actor has removed makes the second step fail. *)
Resolve(a) ==
  /\ doing[a] # None
  /\ Record(doing[a].key, doing[a].status, doing[a].wrote)
  /\ doing' = [doing EXCEPT ![a] = IF @.wrote THEN None ELSE [@ EXCEPT !.wrote = TRUE]]
  /\ UNCHANGED <<pid, counters, gate, mail, asked, launched, refused, bounds>>

(* A command line is killed between its two writes. *)
Killed(o) ==
  /\ doing[o] # None /\ doing' = [doing EXCEPT ![o] = None]
  /\ UNCHANGED <<pid, counters, gate, approvals, mail, history, bounds>>

Daemon ==
  \/ \E n \in Nodes, fresh \in BOOLEAN : Request(n, fresh)
  \/ \E n \in Nodes : \E g \in GrantsOf[n] : Evaluate(g)
  \/ Launch \/ Refuse \/ \E d \in mail : Drain(d)

Next ==
  \/ \E p \in Pids : Start(p)
  \/ End \/ Daemon
  \/ \E k \in pending, s \in Statuses : Post(k, s) \/ \E o \in Operators : Decide(o, k, s)
  \/ \E a \in Actors : Resolve(a)
  \/ \E o \in Operators : Killed(o)

Spec == Init /\ [][Next]_vars

-----------------------------------------------------------------------------
(* Types: approvals are filed under the keys of requests that were made. *)
TypeOK ==
  /\ pid \in Pids \cup {0} /\ runs \in 0 .. MaxRequests /\ requests \in runs .. MaxRequests
  /\ pending \subseteq Keys /\ resolved \in [Keys -> Statuses \cup {"none"}]
  /\ \A d \in mail : d.key \in Keys /\ d.status \in Statuses
  /\ \A a \in Actors : doing[a] # None => doing[a].key \in Keys
  /\ gate # None => gate.node \in Nodes /\ gate.todo \subseteq GrantsOf[gate.node]

(* A request for approval is never lost: once the daemon has filed it, it is
   pending or resolved at every moment, whoever decides it, twice or at the
   same time, and whoever is killed in between. *)
RequestsKept == \A k \in Keys : asked[k] # Nobody => Recorded(k)

(* A runner is started only when an operator has recorded, under the ids of this
   very request, an approval for each grant that requires one. *)
LaunchedAsDecided ==
  [][\A l \in launched' \ launched : \A k \in l.keys : asked[k] # Nobody /\ "approved" \in decided[k]]_vars

(* A stage that was refused for want of an approval runs once an operator has
   approved it: the gate does not ask again for the same run. *)
ApprovalTakesEffect == refused = {}
=============================================================================
