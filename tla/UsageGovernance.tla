-------------------------- MODULE UsageGovernance ---------------------------
(***************************************************************************)
(* Usage governance: the token ledger and the rules that pause the daemon  *)
(* when a budget is spent (src/runtime/usage_governance.rs,                *)
(* src/runtime/tick.rs, src/workspace/state_store.rs), between the cycles  *)
(* of a daemon, its crashes, configuration reloads and an operator who     *)
(* pauses and resumes (src/workspace/runtime_control.rs).                  *)
(*                                                                         *)
(* The ledger is a line per stage result, keyed by the path of the result. *)
(* It is written after the result, so it is repaired from the results that *)
(* are on disk before every judgement.                                     *)
(***************************************************************************)
EXTENDS Integers, Sequences, FiniteSets, FiniteSetsExt

CONSTANTS
  Rules,         \* token rules: records [id, window, threshold]
  Quota,         \* what quota telemetry gives: "off", "fail_open", "fail_closed"
  AutoResume,    \* usage_governance.auto_resume
  Costs,         \* token counts a stage may use
  Rolling,       \* length of a rolling window
  Week,          \* length of a calendar week
  MaxTime, MaxStages, MaxSessions, MaxOrders

VARIABLES
  clock,         \* the time
  now,           \* the time the current cycle works with
  session,       \* number of the daemon's session, 0 when there is none
  enabled,       \* usage_governance.enabled of the applied configuration
  sources,       \* pause sources in the session's snapshot
  saved,         \* pause sources in the snapshot on disk
  state,         \* the governance state on disk: blockers and announced resume time
  results,       \* stage results on disk
  ledger,        \* lines of the usage ledger
  outcomes,      \* stages that ran, still to be applied
  pc,            \* step of the cycle
  started,       \* history: stages started
  sessions,      \* history: sessions so far
  orders         \* history: bound

disk == <<saved, state, results, ledger>>
vars == <<clock, now, session, enabled, sources, disk, outcomes, pc, started, sessions, orders>>

Governance == "usage_governance"
Operator == "operator"
NoBlockers == [blockers |-> {}, resume |-> 0]

-----------------------------------------------------------------------------
(* The rules *)

WeekStart(t) == t - (t % Week)

(* entries_for_runtime_window: a per_run window has no limit at all. *)
InWindow(e, window, t, s) ==
  CASE window = "rolling_5h" -> e.at >= t - Rolling
    [] window = "calendar_week" -> e.at >= WeekStart(t)
    [] window = "daemon_session" -> e.session = s
    [] window = "per_run" -> TRUE

Spent(entries) == MapThenSumSet(LAMBDA e : e.tokens, entries)
Entries == {ledger[k] : k \in DOMAIN ledger}
Window(r, t) == {e \in Entries : InWindow(e, r.window, t, session)}

(* runtime_rule_next_resume: when enough of the oldest entries have left. *)
NextResume(r, t) ==
  LET w == Window(r, t)
  IN IF r.window = "rolling_5h"
     THEN Min({f.at : f \in {e \in w : Spent({o \in w : o.at > e.at}) < r.threshold}}) + Rolling
     ELSE IF r.window = "calendar_week" THEN WeekStart(t) + Week ELSE 0

(* evaluate_runtime_token_rules *)
TokenBlockers(t) ==
  {[id |-> r.id, auto |-> r.window \in {"rolling_5h", "calendar_week"},
    resume |-> NextResume(r, t)] : r \in {r \in Rules : Spent(Window(r, t)) >= r.threshold}}

(* subscription_quota_status_for_evaluation: no telemetry source is built in, so
   quota is degraded whenever its rules are enabled. *)
QuotaDegraded == Quota # "off"

(* evaluate_subscription_quota_rules *)
QuotaBlockers ==
  IF QuotaDegraded /\ Quota = "fail_closed" THEN {[id |-> "quota", auto |-> FALSE, resume |-> 0]} ELSE {}

(* next_auto_resume_at: 0 when the pause is not lifted by time. *)
Announced(blockers) ==
  IF blockers = {} \/ \E b \in blockers : ~b.auto \/ b.resume = 0 THEN 0
  ELSE Min({b.resume : b \in blockers})

Init ==
  /\ clock = 0 /\ now = 0 /\ session = 0 /\ sessions = 0 /\ enabled \in BOOLEAN
  /\ sources = {} /\ saved = {} /\ state = NoBlockers
  /\ results = {} /\ ledger = <<>> /\ outcomes = <<>>
  /\ pc = "off" /\ started = 0 /\ orders = 0

-----------------------------------------------------------------------------
(* Time, the daemon's life, and the operator *)

TimePasses ==
  /\ clock < MaxTime /\ clock' = clock + 1
  /\ UNCHANGED <<now, session, enabled, sources, disk, outcomes, pc, started, sessions, orders>>

(* A start loads the snapshot of the last session. *)
Start ==
  /\ pc = "off" /\ sessions < MaxSessions
  /\ sessions' = sessions + 1 /\ session' = sessions + 1
  /\ sources' = saved /\ pc' = "drain" /\ now' = clock
  /\ UNCHANGED <<clock, enabled, disk, outcomes, started, orders>>

(* A crash loses the outcomes that were not applied: they are no results. *)
Crash ==
  /\ pc # "off" /\ pc' = "off" /\ session' = 0 /\ outcomes' = <<>> /\ sources' = {}
  /\ UNCHANGED <<clock, now, enabled, disk, started, sessions, orders>>

Order == orders < MaxOrders /\ orders' = orders + 1

(* ingest_runtime_cycle_inputs: a pause or resume from the mailbox, or a reload
   that turns governance on or off, is applied at the start of a cycle. *)
MailboxPause(on) ==
  /\ pc = "ingest" /\ Order
  /\ sources' = IF on THEN sources \cup {Operator} ELSE sources \ {Operator}
  /\ UNCHANGED <<clock, now, session, enabled, disk, outcomes, pc, started, sessions>>

Reload ==
  /\ pc = "ingest" /\ Order /\ enabled' = ~enabled
  /\ UNCHANGED <<clock, now, session, sources, disk, outcomes, pc, started, sessions>>

(* Without a daemon the command line edits the snapshot.  A resume that meets a
   governance pause, or blockers, makes sure the snapshot says so. *)
PauseDirect ==
  /\ pc = "off" /\ Order /\ saved' = saved \cup {Operator}
  /\ UNCHANGED <<clock, now, session, enabled, sources, state, results, ledger, outcomes, pc,
                 started, sessions>>

ResumeDirect ==
  /\ pc = "off" /\ Order
  /\ saved' = (saved \ {Operator}) \cup (IF state.blockers # {} THEN {Governance} ELSE {})
  /\ UNCHANGED <<clock, now, session, enabled, sources, state, results, ledger, outcomes, pc,
                 started, sessions>>

-----------------------------------------------------------------------------
(* One cycle: drain_completed, ingest, evaluate, dispatch *)

(* The result of a stage is persisted before anything else is done with it. *)
Persist ==
  /\ pc = "drain" /\ outcomes # <<>> /\ pc' = "record"
  /\ results' = results \cup {Head(outcomes)} /\ now' = Head(outcomes).at
  /\ UNCHANGED <<clock, session, enabled, sources, saved, state, ledger, outcomes, started,
                 sessions, orders>>

Drained ==
  /\ pc = "drain" /\ outcomes = <<>> /\ pc' = "ingest" /\ now' = clock
  /\ UNCHANGED <<clock, session, enabled, sources, disk, outcomes, started, sessions, orders>>

(* Only here does a pause or resume from the mailbox reach the snapshot file: the
   command was archived as applied before. *)
Ingested ==
  /\ pc = "ingest" /\ pc' = "reconcile" /\ saved' = sources
  /\ UNCHANGED <<clock, now, session, enabled, sources, state, results, ledger, outcomes, started,
                 sessions, orders>>

Recorded(x) == \E e \in Entries : e.key = x.key
Entry(x) == [key |-> x.key, at |-> x.at, tokens |-> x.tokens, session |-> session]

(* record_stage_result_usage *)
Record ==
  /\ pc = "record" /\ pc' = "reconcile"
  /\ LET x == Head(outcomes)
     IN ledger' = IF enabled /\ ~Recorded(x) THEN Append(ledger, Entry(x)) ELSE ledger
  /\ UNCHANGED <<clock, now, session, enabled, sources, saved, state, results, outcomes, started,
                 sessions, orders>>

(* Defect: the ledger is repaired only when a stage result is applied. *)
MissingAtStage == IF outcomes = <<>> THEN {} ELSE {x \in results : ~Recorded(x)}

Missing == {x \in results : ~Recorded(x)}

(* reconcile_usage_ledger_from_stage_results, one line at a time. *)
Reconcile ==
  /\ pc = "reconcile"
  /\ IF enabled /\ Missing # {}
     THEN /\ \E x \in Missing : ledger' = Append(ledger, Entry(x))
          /\ UNCHANGED pc
     ELSE pc' = "judge" /\ UNCHANGED ledger
  /\ UNCHANGED <<clock, now, session, enabled, sources, saved, state, results, outcomes, started,
                 sessions, orders>>

(* evaluate_usage_governance: what governance found is saved. *)
Judge ==
  /\ pc = "judge" /\ pc' = "apply"
  /\ LET blockers == IF enabled THEN TokenBlockers(now) \cup QuotaBlockers ELSE {}
     IN state' = [blockers |-> blockers, resume |-> Announced(blockers)]
  /\ UNCHANGED <<clock, now, session, enabled, sources, saved, results, ledger, outcomes, started,
                 sessions, orders>>

(* evaluate_and_apply_usage_governance: the pause source, and the snapshot. *)
Apply ==
  /\ pc = "apply"
  /\ sources' = IF enabled /\ state.blockers # {} THEN sources \cup {Governance}
                ELSE IF ~enabled \/ AutoResume THEN sources \ {Governance}
                ELSE sources
  /\ saved' = sources'
  /\ IF outcomes # <<>> THEN pc' = "drain" /\ outcomes' = Tail(outcomes)
                        ELSE pc' = "dispatch" /\ UNCHANGED outcomes
  /\ UNCHANGED <<clock, now, session, enabled, state, results, ledger, started, sessions, orders>>

(* dispatch_ready_work_at: nothing, a stage of the foreground plane, or one of
   each.  A stage's usage is known when its outcome is applied. *)
Ran(k, c) == [key |-> k, at |-> clock, tokens |-> c]

Dispatch ==
  /\ pc = "dispatch" /\ pc' = "drain"
  /\ \/ UNCHANGED <<outcomes, started>>
     \/ /\ sources = {} /\ started < MaxStages /\ started' = started + 1
        /\ \E c \in Costs : outcomes' = <<Ran(started + 1, c)>>
     \/ /\ sources = {} /\ started + 1 < MaxStages /\ started' = started + 2
        /\ \E c, d \in Costs : outcomes' = <<Ran(started + 1, c), Ran(started + 2, d)>>
  /\ UNCHANGED <<clock, now, session, enabled, sources, disk, sessions, orders>>

Cycle == Persist \/ Record \/ Drained \/ Ingested \/ Reconcile \/ Judge \/ Apply \/ Dispatch

Next ==
  \/ Cycle \/ Start \/ Crash \/ TimePasses
  \/ \E on \in BOOLEAN : MailboxPause(on)
  \/ Reload \/ PauseDirect \/ ResumeDirect

Spec == Init /\ [][Next]_vars

-----------------------------------------------------------------------------
(* Types: pauses have a known source, and the ledger has entries of results. *)
TypeOK ==
  /\ clock \in 0 .. MaxTime /\ now \in 0 .. clock /\ session \in 0 .. MaxSessions
  /\ sources \cup saved \subseteq {Operator, Governance}
  /\ \A x \in results : x.key \in 1 .. MaxStages /\ x.tokens \in Costs /\ x.at \in 0 .. MaxTime
  /\ \A e \in Entries : e.session \in 1 .. MaxSessions /\ e.key \in 1 .. MaxStages
  /\ Len(outcomes) <= 2

(* The ledger counts no stage twice, and when governance has judged it counts
   every result on disk, those of crashed sessions and of times when governance
   was off included. *)
EveryTokenCounted ==
  /\ \A j, k \in DOMAIN ledger : ledger[j].key = ledger[k].key => j = k
  /\ pc = "apply" /\ enabled => \A x \in results : Recorded(x)

(* No stage is started while the results on disk have spent the budget of a rule
   that looks at time, whatever was lost from the ledger in a crash. *)
NoStageOverBudget ==
  [][started' # started /\ enabled =>
       \A r \in Rules : r.window \in {"rolling_5h", "calendar_week"} =>
         Spent({x \in results : InWindow(x, r.window, clock, session)}) < r.threshold]_vars
=============================================================================
