----------------------------- MODULE PlanStore -----------------------------
(***************************************************************************)
(* The persisted plan, the compiles that replace it and the daemon that    *)
(* adopts it.                                                              *)
(*                                                                         *)
(* A compile reads the config, the plan on disk, then the documents, and   *)
(* at the end reads every file it used once more for the fingerprint; the  *)
(* files can be edited in between, and a command line compile can run      *)
(* beside the daemon's.  Documents are named here and given by constants;  *)
(* of the graphs only that of execution is edited, and it may lie in its   *)
(* named file or in another one that declares its id.                      *)
(***************************************************************************)
EXTENDS PlanCompiler

CONSTANTS
    Modes, ConfigNames, GraphNames, PrimNames,     \* names of documents
    DefaultMode,                                   \* what every config asks for
    ModeDoc, ConfigDoc, GraphDoc, PrimDoc,         \* what is under each name
    OtherGraphs,                                   \* the graphs that are not edited
    StageKinds,
    Lanes,                                         \* lanes that can hold a run
    MaxEdits                                       \* bound on edits of the documents

ASSUME EditsAssumption == MaxEdits \in Nat

VARIABLES
    configFile,     \* the config file
    graphFiles,     \* per place, the execution graph there, or "none"
    primFile,       \* the workflow primitives
    skillFile,      \* whether the attached skill of a node exists
    persisted,      \* compiled_plan.json
    diagnostics,    \* compile_diagnostics.json: "none", "ok" or "failed"
    compile,        \* per process, the compile it is in
    daemon,         \* "down", "compiling", "adopting" or "up"
    turn,           \* where the tick is: "drain" or "dispatch"
    session,        \* the plan the daemon runs on
    active,         \* lanes with a run
    mailbox,        \* whether a reload command lies in the mailbox
    edits

vars == <<configFile, graphFiles, primFile, skillFile, persisted, diagnostics, compile, daemon, turn,
          session, active, mailbox, edits>>

documents == <<configFile, graphFiles, primFile, skillFile>>
loop == <<daemon, turn, session, active, mailbox>>

-----------------------------------------------------------------------------
Processes == {"cli", "daemon"}
Places == {"named", "other"}

Inputs ==
    {[mode |-> m, config |-> c, graph |-> g, prims |-> p] :
        m \in Modes, c \in ConfigNames, g \in GraphNames, p \in PrimNames}

Sources(i) ==
    [mode |-> ModeDoc[i.mode], config |-> ConfigDoc[i.config], prims |-> PrimDoc[i.prims],
     graphs |-> {GraphDoc[i.graph]} \cup OtherGraphs, kinds |-> StageKinds]

\* The plans of all inputs, evaluated once.
Compiled == [i \in Inputs |-> Compile(Sources(i))]
Accepted == {i \in Inputs : Compiled[i] # {}}

\* A plan is known by its inputs, its fingerprint and where its graph was found.
NoPlan == [mode |-> "none"]

Idle == [phase |-> "idle"]

\* The file of the graph: the named one, else the only one that declares it.
Found == {p \in Places : graphFiles[p] # "none"}
GraphPlace == IF graphFiles["named"] # "none" THEN {"named"} ELSE Found

\* What the fingerprint is made of: the config, and the files used as they are now.
Fingerprint(configName, place) ==
    [config |-> configName, graph |-> graphFiles[place], prims |-> primFile, skill |-> skillFile]

NowOf(plan) == Fingerprint(configFile, plan.place)

\* A config that does not parse leaves nothing current, and no compile begins.
Readable == ConfigContract(ConfigDoc[configFile])

Current(plan, mode) ==
    plan # NoPlan /\ Readable /\ plan.mode = mode /\ plan.seen = NowOf(plan)

TypeOK ==
    /\ configFile \in ConfigNames
    /\ graphFiles \in [Places -> GraphNames \cup {"none"}]
    /\ primFile \in PrimNames /\ skillFile \in BOOLEAN
    /\ diagnostics \in {"none", "ok", "failed"}
    /\ \A p \in {persisted, session} : p # NoPlan => p.in \in Inputs /\ p.place \in Places
    /\ \A p \in Processes :
         compile[p].phase \in {"idle", "read", "hash", "save", "saved", "failed", "done"}
    /\ daemon \in {"down", "compiling", "adopting", "reloading", "up"}
    /\ turn \in {"drain", "dispatch"} /\ active \subseteq Lanes
    /\ mailbox \in BOOLEAN /\ edits \in 0..MaxEdits
    /\ daemon = "up" => session # NoPlan /\ compile["daemon"] = Idle

Init ==
    /\ configFile \in ConfigNames /\ primFile \in PrimNames /\ skillFile = FALSE
    /\ graphFiles \in [Places -> GraphNames \cup {"none"}]
    /\ graphFiles["other"] = "none" \/ graphFiles["named"] = "none"
    /\ persisted = NoPlan /\ diagnostics = "none"
    /\ compile = [p \in Processes |-> Idle]
    /\ daemon = "down" /\ turn = "drain" /\ session = NoPlan /\ active = {}
    /\ mailbox = FALSE /\ edits = 0

-----------------------------------------------------------------------------
(* A compile *)

Step(p, c) == compile' = [compile EXCEPT ![p] = c]

\* The config and the plan on disk; with them whether that plan is current.
Begin(p, mode, ifNeeded) ==
    LET current == Current(persisted, mode)
        c == [phase |-> "read", mode |-> mode, config |-> configFile, old |-> persisted, fresh |-> current]
    IN Step(p, IF ifNeeded /\ current THEN [phase |-> "done", ok |-> TRUE, plan |-> persisted] ELSE c)

\* The documents are read and checked; a missing or twice declared graph fails.
ReadDocuments(p) ==
    /\ compile[p].phase = "read"
    /\ LET c == compile[p]
           in(place) == [mode |-> c.mode, config |-> c.config, graph |-> graphFiles[place], prims |-> primFile]
       IN Step(p, IF /\ Cardinality(GraphPlace) = 1
                     /\ \A place \in GraphPlace : in(place) \in Accepted
                  THEN [phase |-> "hash", mode |-> c.mode, old |-> c.old, fresh |-> c.fresh,
                        in |-> in(CHOOSE place \in GraphPlace : TRUE),
                        place |-> CHOOSE place \in GraphPlace : TRUE]
                  ELSE [c EXCEPT !.phase = "failed"])
    /\ UNCHANGED <<documents, persisted, diagnostics, loop, edits>>

\* Every file is read again for the fingerprint; one that is gone fails.
Hash(p) ==
    /\ compile[p].phase = "hash"
    /\ LET c == compile[p] IN
       Step(p, IF graphFiles[c.place] = "none"
               THEN [phase |-> "failed", mode |-> c.mode, config |-> c.in.config,
                     old |-> c.old, fresh |-> c.fresh]
               ELSE [phase |-> "save",
                     plan |-> [mode |-> c.mode, in |-> c.in, place |-> c.place,
                               seen |-> Fingerprint(c.in.config, c.place)]])
    /\ UNCHANGED <<documents, persisted, diagnostics, loop, edits>>

SavePlan(p) ==
    /\ compile[p].phase = "save"
    /\ persisted' = compile[p].plan
    /\ Step(p, [compile[p] EXCEPT !.phase = "saved"])
    /\ UNCHANGED <<documents, diagnostics, loop, edits>>

SaveDiagnostics(p) ==
    /\ compile[p].phase = "saved"
    /\ diagnostics' = "ok"
    /\ Step(p, [phase |-> "done", ok |-> TRUE, plan |-> compile[p].plan])
    /\ UNCHANGED <<documents, persisted, loop, edits>>

\* Defect: a daemon takes the last known good plan even if its inputs drifted.
LastKnownGoodAny(p, c) == c.old

\* The last known good plan; a daemon refuses one whose inputs drifted.
LastKnownGood(p, c) == IF p = "daemon" /\ ~c.fresh THEN NoPlan ELSE c.old

\* Diagnostics of a failure are kept but for a startup.
Fail(p) ==
    /\ compile[p].phase = "failed"
    /\ diagnostics' = IF p = "daemon" /\ daemon = "compiling" THEN diagnostics ELSE "failed"
    /\ Step(p, [phase |-> "done", ok |-> FALSE, plan |-> LastKnownGood(p, compile[p])])
    /\ UNCHANGED <<documents, persisted, loop, edits>>

CompileStep(p) ==
    ReadDocuments(p) \/ Hash(p) \/ SavePlan(p) \/ SaveDiagnostics(p) \/ Fail(p)

-----------------------------------------------------------------------------
(* The command line *)

Validate(mode) ==
    /\ compile["cli"] = Idle /\ Readable /\ Begin("cli", mode, FALSE)
    /\ UNCHANGED <<documents, persisted, diagnostics, loop, edits>>

ValidateEnds ==
    /\ compile["cli"].phase = "done" /\ Step("cli", Idle)
    /\ UNCHANGED <<documents, persisted, diagnostics, loop, edits>>

\* The process of a compile can be killed at any of its steps.
ValidateKilled ==
    /\ compile["cli"] # Idle /\ Step("cli", Idle)
    /\ UNCHANGED <<documents, persisted, diagnostics, loop, edits>>

AskReload ==
    /\ ~mailbox /\ daemon = "up"
    /\ mailbox' = TRUE
    /\ UNCHANGED <<documents, persisted, diagnostics, compile, daemon, turn, session, active, edits>>

-----------------------------------------------------------------------------
(* The daemon *)

Start ==
    /\ daemon = "down" /\ compile["daemon"] = Idle /\ Readable
    /\ daemon' = "compiling" /\ Begin("daemon", DefaultMode, TRUE)
    /\ UNCHANGED <<documents, persisted, diagnostics, turn, session, active, mailbox, edits>>

Down == daemon' = "down" /\ session' = NoPlan

\* A startup whose compile gave no plan ends.
StartRefused ==
    /\ daemon = "compiling" /\ compile["daemon"].phase = "done" /\ compile["daemon"].plan = NoPlan
    /\ Down /\ Step("daemon", Idle)
    /\ UNCHANGED <<documents, persisted, diagnostics, turn, active, mailbox, edits>>

\* Otherwise the plan is read from disk again: what the compile gave is not used.
Adopt ==
    /\ daemon = "compiling" /\ compile["daemon"].phase = "done" /\ compile["daemon"].plan # NoPlan
    /\ daemon' = "up" /\ session' = persisted /\ turn' = "drain"
    /\ Step("daemon", Idle)
    /\ UNCHANGED <<documents, persisted, diagnostics, active, mailbox, edits>>

\* While a lane has a run the command is written again under another name.
Defer ==
    /\ daemon = "up" /\ turn = "drain" /\ mailbox /\ active # {}
    /\ turn' = "dispatch"
    /\ UNCHANGED <<documents, persisted, diagnostics, compile, daemon, session, active, mailbox, edits>>

Reload ==
    /\ daemon = "up" /\ turn = "drain" /\ mailbox /\ active = {} /\ Readable
    /\ daemon' = "reloading" /\ mailbox' = FALSE
    /\ Begin("daemon", session.mode, TRUE)
    /\ UNCHANGED <<documents, persisted, diagnostics, turn, session, active, edits>>

ReloadUnreadable ==
    /\ daemon = "up" /\ turn = "drain" /\ mailbox /\ active = {} /\ ~Readable
    /\ Down /\ mailbox' = FALSE
    /\ UNCHANGED <<documents, persisted, diagnostics, compile, turn, active, edits>>

ReloadDone == daemon = "reloading" /\ compile["daemon"].phase = "done"

Reloaded ==
    /\ ReloadDone /\ compile["daemon"].ok
    /\ session' = compile["daemon"].plan /\ daemon' = "up" /\ turn' = "dispatch"
    /\ Step("daemon", Idle)
    /\ UNCHANGED <<documents, persisted, diagnostics, active, mailbox, edits>>

\* A failed reload without a plan ends the daemon; with one it would go on.
ReloadFailed ==
    /\ ReloadDone /\ ~compile["daemon"].ok
    /\ IF compile["daemon"].plan = NoPlan THEN Down /\ UNCHANGED turn
       ELSE daemon' = "up" /\ turn' = "dispatch" /\ UNCHANGED session
    /\ Step("daemon", Idle)
    /\ UNCHANGED <<documents, persisted, diagnostics, active, mailbox, edits>>

NothingToDrain ==
    /\ daemon = "up" /\ turn = "drain" /\ ~mailbox /\ turn' = "dispatch"
    /\ UNCHANGED <<documents, persisted, diagnostics, compile, daemon, session, active, mailbox, edits>>

Dispatch ==
    /\ daemon = "up" /\ turn = "dispatch" /\ turn' = "drain"
    /\ \E lanes \in SUBSET Lanes : active' = active \cup lanes
    /\ UNCHANGED <<documents, persisted, diagnostics, compile, daemon, session, mailbox, edits>>

RunEnds(lane) ==
    /\ daemon = "up" /\ lane \in active /\ active' = active \ {lane}
    /\ UNCHANGED <<documents, persisted, diagnostics, compile, daemon, turn, session, mailbox, edits>>

\* A stop or a crash; the command stays in the mailbox and the runs in the snapshot.
Stop ==
    /\ daemon # "down" /\ Down /\ Step("daemon", Idle)
    /\ UNCHANGED <<documents, persisted, diagnostics, turn, active, mailbox, edits>>

-----------------------------------------------------------------------------
(* Edits of the documents *)

Edit ==
    /\ edits < MaxEdits /\ edits' = edits + 1
    /\ \/ configFile' \in ConfigNames /\ UNCHANGED <<graphFiles, primFile, skillFile>>
       \/ /\ \E p \in Places : \E g \in GraphNames \cup {"none"} : graphFiles' = [graphFiles EXCEPT ![p] = g]
          /\ UNCHANGED <<configFile, primFile, skillFile>>
       \/ primFile' \in PrimNames /\ UNCHANGED <<configFile, graphFiles, skillFile>>
       \/ skillFile' = ~skillFile /\ UNCHANGED <<configFile, graphFiles, primFile>>
    /\ UNCHANGED <<persisted, diagnostics, compile, loop>>

Next ==
    \/ CompileStep("cli") \/ CompileStep("daemon")
    \/ StartRefused \/ Adopt \/ Defer \/ Reload \/ ReloadUnreadable \/ Reloaded \/ ReloadFailed
    \/ NothingToDrain \/ Dispatch
    \/ \E m \in Modes : Validate(m)
    \/ ValidateEnds \/ ValidateKilled \/ AskReload \/ Start \/ Stop \/ Edit
    \/ \E l \in Lanes : RunEnds(l)

Spec == Init /\ [][Next]_vars

-----------------------------------------------------------------------------
InUse == {persisted, session} \ {NoPlan}

\* Every name in a plan is bound in it, an outcome of a node has at most one
\* effect rule, and one that ends a run has a terminal action.
Closed(plan) ==
    /\ \A p \in DOMAIN plan.planes :
         LET graphPlan == plan.planes[p]
             nodes == {n.id : n \in graphPlan.nodes} IN
         /\ \A t \in graphPlan.transitions : t.to \in nodes \cup {""} /\ t.term \in graphPlan.terms \cup {""}
         /\ \A n \in graphPlan.nodes : \A t \in graphPlan.transitions :
              t.from = n.id => t.on \in DOMAIN n.classes /\ (t.term # "" => t.on \in DOMAIN n.actions)
         /\ \A k \in DOMAIN graphPlan.entries : graphPlan.entries[k] \in nodes
         /\ graphPlan.completion \subseteq nodes
    /\ \A r, s \in plan.rules : r # s /\ r.node = s.node => r.on \cap s.on = {}

\* No node is granted what the defaults of its config deny.
KeepsDenials(plan, caps) ==
    \A plane \in DOMAIN plan.planes : \A n \in plan.planes[plane].nodes : \A i \in DOMAIN n.grants :
        Given(caps.defaults, n.grants[i].cap, "allow") = "deny" => n.grants[i].state # "granted"

ClosedInputs == {i \in Accepted : \A plan \in Compiled[i] : Closed(plan)}
DenyingInputs == {i \in Accepted : \A plan \in Compiled[i] : KeepsDenials(plan, ConfigDoc[i.config].caps)}

(* Whatever was edited, and whoever compiled last, the plan on disk and the
   plan a daemon runs on are closed: a document that is not is refused by
   some check of the compile, none of which sees the whole plan. *)
UsedPlansClosed == \A p \in InUse : p.in \in ClosedInputs

(* What the config denies is granted to no node of a plan compiled with it,
   whatever the mode, the graph and the stage kinds allow. *)
ConfigDenies == \A p \in InUse : p.in \in DenyingInputs

(* A daemon that goes on after a reload runs on a plan whose inputs were, at
   some point of the reload, the ones on disk: it never keeps an older one
   because the new inputs do not compile (refuse_stale_last_known_good). *)
ReloadNeverStale ==
    [][daemon = "reloading" /\ daemon' = "up"
         => compile["daemon"].ok /\ session' = compile["daemon"].plan]_vars
=============================================================================
