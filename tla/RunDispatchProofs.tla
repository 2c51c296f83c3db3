------------------------- MODULE RunDispatchProofs -------------------------
(***************************************************************************)
(* What the four modules of RunDispatch keep, for all documents, grants,   *)
(* drafts and tasks.  Each has an inductive invariant of its own; that of  *)
(* the composition is their conjunction, and a step of one module leaves   *)
(* the variables of the others alone.                                      *)
(*                                                                         *)
(*   the plan store    PlanInv: what is on disk or in use was accepted by  *)
(*                     some compile, and what is accepted is sound         *)
(*   the gate          GateInv: a decision that is half recorded is on     *)
(*                     file, a gate has passed only what was approved      *)
(*   Blueprint         DraftingInv: an effect writes in its order, and a   *)
(*                     draft with a task is never run on again             *)
(*   blocked recovery  RecoveryInv: each automatic requeue left its line   *)
(*                     in the log or is one that a crash cut short         *)
(***************************************************************************)
EXTENDS RunDispatch, FiniteSetTheorems, WellFoundedInduction, TLAPS
-----------------------------------------------------------------------------
(* What a compile accepts *)

\* The documents of an input, with the primitives its graphs use.
Selected(i) ==
    [Sources(i) EXCEPT !.prims = SelectPrimitives(@, Sources(i).graphs)]

PlanesOf(in) ==
    [p \in {g.plane : g \in in.graphs} |-> PlanePlan(CHOOSE g \in in.graphs : g.plane = p, in)]

\* A compile that gives a plan gives that of its planes, and has checked them.
LEMMA CompileGives ==
  ASSUME NEW i \in Accepted, NEW plan \in Compiled[i]
  PROVE  /\ AssetsAccepted(Selected(i)) /\ Materialisable(Selected(i))
         /\ plan = RunPlan(Selected(i), PlanesOf(Selected(i)))
<1> DEFINE s == Sources(i)
<1>1. i \in Inputs
  BY DEF Accepted
<1>2. Compiled[i] = Compile(s)
  BY <1>1 DEF Compiled
<1> HIDE DEF s
<1>3. plan \in Compile(s) /\ Selected(i) = [s EXCEPT !.prims = SelectPrimitives(@, s.graphs)]
  BY <1>2 DEF s, Selected
<1>4. QED
  BY <1>3 DEF Compile, PlanesOf

\* A plane is closed: every name in it is bound in it.
LEMMA PlaneClosed ==
  ASSUME NEW in, NEW g \in in.graphs, AssetsAccepted(in), Materialisable(in)
  PROVE  LET graphPlan == PlanePlan(g, in)
             nodes == {n.id : n \in graphPlan.nodes} IN
         /\ \A t \in graphPlan.transitions :
              t.to \in nodes \cup {""} /\ t.term \in graphPlan.terms \cup {""}
         /\ \A n \in graphPlan.nodes : \A t \in graphPlan.transitions :
              t.from = n.id => t.on \in DOMAIN n.classes /\ (t.term # "" => t.on \in DOMAIN n.actions)
         /\ \A k \in DOMAIN graphPlan.entries : graphPlan.entries[k] \in nodes
         /\ graphPlan.completion \subseteq nodes
<1> DEFINE graphPlan == PlanePlan(g, in)
           nodes == Ids(g.nodes)
<1>1. {n.id : n \in graphPlan.nodes} = nodes
  <2>1. \A n : NodePlan(n, g, in).id = n.id
    BY DEF NodePlan
  <2>2. graphPlan.nodes = {NodePlan(n, g, in) : n \in Items(g.nodes)}
    BY DEF PlanePlan
  <2> HIDE DEF graphPlan
  <2>3. QED
    BY <2>1, <2>2 DEF Ids
<1>2. GraphContract(g)
  BY DEF AssetsAccepted
<1>3. \A t \in graphPlan.transitions : t.to \in nodes \cup {""} /\ t.term \in graphPlan.terms \cup {""}
  <2>1. \A e \in Items(g.edges) : Known(nodes, e.to) /\ Known(Ids(g.terms), e.term)
    BY <1>2 DEF GraphContract
  <2>2. \A t \in Transitions(g) : \E e \in Items(g.edges) : t.to = e.to /\ t.term = e.term
    BY DEF Transitions
  <2>3. graphPlan.transitions = Transitions(g) /\ graphPlan.terms = Ids(g.terms)
    BY DEF PlanePlan
  <2> HIDE DEF graphPlan, nodes
  <2>4. QED
    BY <2>1, <2>2, <2>3 DEF Known
<1>4. \A n \in graphPlan.nodes : \A t \in graphPlan.transitions :
        t.from = n.id => t.on \in DOMAIN n.classes /\ (t.term # "" => t.on \in DOMAIN n.actions)
  <2>1. SUFFICES ASSUME NEW n \in Items(g.nodes), NEW t \in Transitions(g), t.from = n.id
                 PROVE  /\ t.on \in DOMAIN in.kinds[n.kind].classes
                        /\ t.term # "" => t.on \in DOMAIN TerminalMapping(n, g, in.prims)
    <3>1. \A n \in Items(g.nodes) :
            /\ NodePlan(n, g, in).id = n.id
            /\ NodePlan(n, g, in).classes = in.kinds[n.kind].classes
            /\ NodePlan(n, g, in).actions = TerminalMapping(n, g, in.prims)
      BY DEF NodePlan
    <3>2. graphPlan.nodes = {NodePlan(n, g, in) : n \in Items(g.nodes)}
      BY DEF PlanePlan
    <3>3. graphPlan.transitions = Transitions(g)
      BY DEF PlanePlan
    <3> HIDE DEF graphPlan
    <3>4. QED
      BY <2>1, <3>1, <3>2, <3>3
  <2>2. PICK e \in Items(g.edges) : t.from = e.from /\ t.on \in e.on
    BY DEF Transitions
  <2>3. n = CHOOSE m \in Items(g.nodes) : m.id = e.from
    <3>1. \A x, y \in Items(g.nodes) : x.id = y.id => x = y
      BY <1>2 DEF GraphContract, Unique, Items, ToSet
    <3>2. QED
      BY <2>1, <2>2, <3>1
  <2>4. e.on \subseteq in.kinds[n.kind].legal
    BY <2>3 DEF Materialisable, GraphSemantics
  <2>5. DOMAIN in.kinds[n.kind].classes = in.kinds[n.kind].legal
    <3>1. n.kind \in SelectedKinds(in.graphs)
      BY DEF SelectedKinds
    <3>2. QED
      BY <3>1 DEF AssetsAccepted, StageKindContract
  <2>6. t.term # "" => t.on \in DOMAIN TerminalMapping(n, g, in.prims)
    BY <2>1 DEF TerminalMapping
  <2>7. QED
    BY <2>2, <2>4, <2>5, <2>6
<1>5. \A k \in DOMAIN graphPlan.entries : graphPlan.entries[k] \in nodes
  <2>1. graphPlan.entries = [k \in {e.key : e \in Items(g.entries)} |->
                               (CHOOSE e \in Items(g.entries) : e.key = k).node]
    BY DEF PlanePlan
  <2>2. \A e \in Items(g.entries) : e.node \in nodes
    BY <1>2 DEF GraphContract
  <2> HIDE DEF graphPlan, nodes
  <2>3. QED
    BY <2>1, <2>2
<1>6. graphPlan.completion \subseteq nodes
  <2>1. graphPlan.completion = {c.node : c \in g.completion}
    BY DEF PlanePlan
  <2>2. \A c \in g.completion : c.node \in nodes
    BY <1>2 DEF GraphContract
  <2> HIDE DEF graphPlan, nodes
  <2>3. QED
    BY <2>1, <2>2
<1>7. QED
  BY <1>1, <1>3, <1>4, <1>5, <1>6

\* A grant of what the config denies is a denial, whatever the documents say.
LEMMA DeniedIsDenied ==
  ASSUME NEW r, NEW policies, NEW caps, Given(caps.defaults, r.cap, "allow") = "deny"
  PROVE  Grant(r, Decision(r, policies, caps), caps).state = "denied"
<1>1. Decision(r, policies, caps) = "deny"
  BY DEF Given, Decision
<1>2. Grant(r, "deny", caps).state = "denied"
  BY DEF Grant, Advisory
<1>3. QED
  BY <1>1, <1>2

\* No request of a node is granted that the config denies.
LEMMA NodeKeepsDenials ==
  ASSUME NEW n, NEW g, NEW in,
         NEW i \in DOMAIN NodePlan(n, g, in).grants,
         Given(in.config.caps.defaults, NodePlan(n, g, in).grants[i].cap, "allow") = "deny"
  PROVE  NodePlan(n, g, in).grants[i].state # "granted"
<1> DEFINE caps == in.config.caps
           runner == Binding(n, "runner", in.mode, in.config)
           kind == in.kinds[n.kind]
           requests == Requests(n, kind, in.mode, runner)
           policies == Policies(n, kind, in.mode)
<1>1. NodePlan(n, g, in).grants = Grants(n, kind, in.mode, runner, caps)
  BY DEF NodePlan
<1> HIDE DEF runner, kind, caps
<1>2. CASE ~caps.enabled
  BY <1>1, <1>2 DEF Grants
<1>3. CASE caps.enabled
  <2>1. Grants(n, kind, in.mode, runner, caps) =
          [j \in DOMAIN requests |-> Grant(requests[j], Decision(requests[j], policies, caps), caps)]
    BY <1>3 DEF Grants
  <2> HIDE DEF requests, policies
  <2>2. NodePlan(n, g, in).grants[i] = Grant(requests[i], Decision(requests[i], policies, caps), caps)
    BY <1>1, <2>1
  <2>3. \A d : Grant(requests[i], d, caps).cap = requests[i].cap
    BY DEF Grant
  <2>4. Given(caps.defaults, requests[i].cap, "allow") = "deny"
    BY <2>2, <2>3 DEF caps
  <2>5. QED
    BY <2>2, <2>4, DeniedIsDenied
<1>4. QED
  BY <1>2, <1>3

\* What a compile accepts is closed and keeps the denials of its config: a
\* document that is not is refused by one check or another.
LEMMA AcceptedIsSound == ASSUME NEW i \in Accepted PROVE i \in ClosedInputs /\ i \in DenyingInputs
<1> DEFINE in == Selected(i)
<1>1. in.graphs = Sources(i).graphs /\ in.config = ConfigDoc[i.config]
  BY DEF Selected, Sources
<1> HIDE DEF in
<1>2. SUFFICES ASSUME NEW plan \in Compiled[i]
               PROVE  Closed(plan) /\ KeepsDenials(plan, ConfigDoc[i.config].caps)
  BY <1>2 DEF ClosedInputs, DenyingInputs
<1>3. AssetsAccepted(in) /\ Materialisable(in) /\ plan = RunPlan(in, PlanesOf(in))
  BY CompileGives DEF in
<1>4. plan.planes = PlanesOf(in) /\ plan.rules = in.prims.rules
  BY <1>3 DEF RunPlan
<1>5. \A p \in DOMAIN plan.planes : \E g \in in.graphs : plan.planes[p] = PlanePlan(g, in)
  BY <1>4 DEF PlanesOf
<1>6. Closed(plan)
  <2>1. \A r, s \in plan.rules : r # s /\ r.node = s.node => r.on \cap s.on = {}
    BY <1>3, <1>4 DEF AssetsAccepted, PrimitivesContract, EffectRules
  <2>2. QED
    BY <1>3, <1>5, <2>1, PlaneClosed DEF Closed
<1>7. KeepsDenials(plan, in.config.caps)
  <2>1. SUFFICES ASSUME NEW p \in DOMAIN plan.planes, NEW m \in plan.planes[p].nodes,
                        NEW j \in DOMAIN m.grants,
                        Given(in.config.caps.defaults, m.grants[j].cap, "allow") = "deny"
                 PROVE  m.grants[j].state # "granted"
    BY <2>1 DEF KeepsDenials
  <2>2. PICK g \in in.graphs : plan.planes[p] = PlanePlan(g, in)
    BY <1>5
  <2>3. PICK n \in Items(g.nodes) : m = NodePlan(n, g, in)
    BY <2>2 DEF PlanePlan
  <2>4. QED
    BY <2>1, <2>3, NodeKeepsDenials
<1>8. QED
  BY <1>1, <1>6, <1>7
-----------------------------------------------------------------------------
(* The plan store *)

Prints ==
    [config : ConfigNames, graph : GraphNames \cup {"none"}, prims : PrimNames, skill : BOOLEAN]

AskedModes == Modes \cup {DefaultMode}

\* What can be on disk: a plan of documents that some compile accepted.
StoredPlans == [mode : AskedModes, in : Accepted, place : Places, seen : Prints]
MaybePlans == StoredPlans \cup {NoPlan}

\* The compiles in each of their phases.
Reading == [phase : {"read", "failed"}, mode : AskedModes, config : ConfigNames, old : MaybePlans,
            fresh : BOOLEAN]
Hashing == [phase : {"hash"}, mode : AskedModes, old : MaybePlans, fresh : BOOLEAN, in : Accepted,
            place : Places]
Saving == [phase : {"save", "saved"}, plan : StoredPlans]
Ended == [phase : {"done"}, ok : BOOLEAN, plan : MaybePlans]

CompileTyped(c) ==
    /\ c.phase \in {"idle", "read", "hash", "save", "saved", "failed", "done"}
    /\ c.phase = "idle" => c = Idle
    /\ c.phase \in {"read", "failed"} => c \in Reading
    /\ c.phase = "hash" => c \in Hashing
    /\ c.phase \in {"save", "saved"} => c \in Saving
    /\ c.phase = "done" => c \in Ended /\ (c.ok => c.plan # NoPlan)

\* Every variable of PlanStore in its type, and every plan accepted.
PlansTyped ==
    /\ configFile \in ConfigNames /\ primFile \in PrimNames /\ skillFile \in BOOLEAN
    /\ graphFiles \in [Places -> GraphNames \cup {"none"}]
    /\ diagnostics \in {"none", "ok", "failed"}
    /\ persisted \in MaybePlans /\ session \in MaybePlans
    /\ compile = [p \in Processes |-> compile[p]]
    /\ \A p \in Processes : CompileTyped(compile[p])
    /\ daemon \in {"down", "compiling", "adopting", "reloading", "up"}
    /\ turn \in {"drain", "dispatch"} /\ active \subseteq Lanes
    /\ mailbox \in BOOLEAN /\ edits \in 0..MaxEdits

\* The compile of the daemon never offers an old plan as good: it began because
\* that plan is not current.  The plan it offers at a start is on disk.
DaemonCompile ==
    /\ compile["daemon"].phase \in {"read", "hash", "failed"} => ~compile["daemon"].fresh
    /\ compile["daemon"].phase = "done" /\ ~compile["daemon"].ok => compile["daemon"].plan = NoPlan
    /\ compile["daemon"].phase = "saved" => persisted # NoPlan
    /\ compile["daemon"].phase = "done" /\ compile["daemon"].ok => persisted # NoPlan
    /\ daemon \in {"up", "down"} => compile["daemon"] = Idle
    /\ daemon \in {"up", "reloading"} => session # NoPlan

PlanInv == PlansTyped /\ DaemonCompile

-----------------------------------------------------------------------------
\* A plan of some documents is not the absent plan.
LEMMA PlanIsSomething == ASSUME NEW p \in StoredPlans PROVE p # NoPlan
BY DEF StoredPlans, NoPlan

\* At the start no plan is on disk and nothing compiles.
LEMMA PlanStart == ASSUME Init PROVE PlanInv
<1>1. \A p \in Processes : compile[p] = Idle
  BY DEF Init
<1>2. CompileTyped(Idle)
  BY DEF CompileTyped, Idle
<1>3. PlansTyped
  <2>1. compile = [p \in Processes |-> compile[p]]
    BY DEF Init
  <2>2. edits \in 0..MaxEdits
    BY EditsAssumption DEF Init
  <2>3. skillFile \in BOOLEAN /\ mailbox \in BOOLEAN
    BY DEF Init
  <2>4. QED
    BY <1>1, <1>2, <2>1, <2>2, <2>3 DEF Init, PlansTyped, MaybePlans
<1>4. DaemonCompile
  BY <1>1 DEF Init, DaemonCompile, Idle, Processes
<1>5. QED
  BY <1>3, <1>4 DEF PlanInv

\* A compile that begins is typed; it reads on only if the plan on disk is stale.
LEMMA BeginTyped ==
  ASSUME PlansTyped, NEW p \in Processes, NEW mode \in AskedModes, NEW need \in BOOLEAN,
         Begin(p, mode, need)
  PROVE  /\ compile' = [q \in Processes |-> compile'[q]]
         /\ \A q \in Processes \ {p} : compile'[q] = compile[q]
         /\ CompileTyped(compile'[p])
         /\ need => \/ compile'[p].phase = "read" /\ ~compile'[p].fresh
                    \/ compile'[p].phase = "done" /\ compile'[p].ok /\ persisted # NoPlan
<1> DEFINE current == Current(persisted, mode)
           c == [phase |-> "read", mode |-> mode, config |-> configFile, old |-> persisted,
                 fresh |-> current]
           d == [phase |-> "done", ok |-> TRUE, plan |-> persisted]
<1>1. current \in BOOLEAN /\ (current => persisted # NoPlan)
  BY DEF Current
<1>2. compile' = [compile EXCEPT ![p] = IF need /\ current THEN d ELSE c]
  BY DEF Begin, Step
<1>3. compile'[p] = IF need /\ current THEN d ELSE c
  BY <1>2 DEF PlansTyped
<1>4. \A q \in Processes \ {p} : compile'[q] = compile[q]
  BY <1>2 DEF PlansTyped
<1>5. compile' = [q \in Processes |-> compile'[q]]
  BY <1>2 DEF PlansTyped
<1> HIDE DEF current
<1>6. c \in Reading /\ c.phase = "read" /\ c.fresh = current
  BY <1>1 DEF PlansTyped, Reading
<1>7. ASSUME current PROVE d \in Ended /\ d.phase = "done" /\ d.ok /\ d.plan # NoPlan
  BY <1>1, <1>7 DEF PlansTyped, Ended
<1> HIDE DEF c, d
<1>8. CASE need /\ current
  BY <1>8, <1>1, <1>3, <1>4, <1>5, <1>7 DEF CompileTyped
<1>9. CASE ~(need /\ current)
  <2>1. compile'[p] = c
    BY <1>9, <1>3
  <2>2. need => ~c.fresh
    BY <1>9, <1>1, <1>6
  <2>3. CompileTyped(c)
    BY <1>6 DEF CompileTyped
  <2>4. QED
    BY <2>1, <2>2, <2>3, <1>4, <1>5, <1>6
<1>10. QED
  BY <1>8, <1>9

\* The documents are read: what goes on is accepted.
LEMMA ReadTyped ==
  ASSUME PlansTyped, NEW p \in Processes, ReadDocuments(p)
  PROVE  /\ CompileTyped(compile'[p])
         /\ compile'[p].phase \in {"hash", "failed"} /\ compile'[p].fresh = compile[p].fresh
<1> DEFINE c == compile[p]
           in(place) == [mode |-> c.mode, config |-> c.config, graph |-> graphFiles[place],
                         prims |-> primFile]
           found == CHOOSE place \in GraphPlace : TRUE
           good == /\ Cardinality(GraphPlace) = 1
                   /\ \A place \in GraphPlace : in(place) \in Accepted
           read == [phase |-> "hash", mode |-> c.mode, old |-> c.old, fresh |-> c.fresh,
                    in |-> in(found), place |-> found]
<1>1. c \in Reading /\ c.phase = "read"
  BY DEF ReadDocuments, PlansTyped, CompileTyped
<1>2. compile'[p] = IF good THEN read ELSE [c EXCEPT !.phase = "failed"]
  BY DEF ReadDocuments, Step, PlansTyped
<1>3. CASE good
  <2>1. GraphPlace # {}
    BY <1>3, FS_EmptySet
  <2>2. found \in GraphPlace /\ found \in Places
    BY <2>1 DEF GraphPlace, Found, Places
  <2>3. in(found) \in Accepted
    BY <1>3, <2>2
  <2> HIDE DEF found, in
  <2>4. read \in Hashing /\ read.phase = "hash" /\ read.fresh = c.fresh
    BY <1>1, <2>2, <2>3 DEF Reading, Hashing
  <2>5. QED
    BY <1>2, <1>3, <2>4 DEF CompileTyped
<1>4. CASE ~good
  <2>1. compile'[p] = [c EXCEPT !.phase = "failed"]
    BY <1>2, <1>4
  <2>2. compile'[p] \in Reading /\ compile'[p].phase = "failed" /\ compile'[p].fresh = c.fresh
    BY <1>1, <2>1 DEF Reading
  <2>3. QED
    BY <2>2 DEF CompileTyped
<1>5. QED
  BY <1>3, <1>4

\* The fingerprint is taken, or a file is gone.
LEMMA HashTyped ==
  ASSUME PlansTyped, NEW p \in Processes, Hash(p)
  PROVE  /\ CompileTyped(compile'[p])
         /\ \/ compile'[p].phase = "failed" /\ compile'[p].fresh = compile[p].fresh
            \/ compile'[p].phase = "save"
<1> DEFINE c == compile[p]
           gone == [phase |-> "failed", mode |-> c.mode, config |-> c.in.config,
                      old |-> c.old, fresh |-> c.fresh]
           plan == [mode |-> c.mode, in |-> c.in, place |-> c.place,
                    seen |-> Fingerprint(c.in.config, c.place)]
<1>1. c \in Hashing
  BY DEF Hash, PlansTyped, CompileTyped
<1>2. c.in \in Inputs /\ c.in.config \in ConfigNames
  BY <1>1 DEF Hashing, Accepted, Inputs
<1>3. compile'[p] = IF graphFiles[c.place] = "none" THEN gone ELSE [phase |-> "save", plan |-> plan]
  BY DEF Hash, Step, PlansTyped
<1>4. CASE graphFiles[c.place] = "none"
  <2>1. gone \in Reading /\ gone.phase = "failed" /\ gone.fresh = c.fresh
    BY <1>1, <1>2 DEF Reading, Hashing
  <2>2. QED
    BY <1>3, <1>4, <2>1 DEF CompileTyped
<1>5. CASE graphFiles[c.place] # "none"
  <2>1. Fingerprint(c.in.config, c.place) \in Prints
    BY <1>1, <1>2 DEF Fingerprint, Prints, PlansTyped, Hashing
  <2>2. plan \in StoredPlans
    BY <1>1, <2>1 DEF StoredPlans, Hashing
  <2> HIDE DEF plan
  <2>3. [phase |-> "save", plan |-> plan] \in Saving
    BY <2>2 DEF Saving
  <2>4. QED
    BY <1>3, <1>5, <2>3 DEF CompileTyped
<1>6. QED
  BY <1>4, <1>5

\* A step of one process leaves the compile of the other alone.
LEMMA StepAlone ==
  ASSUME PlansTyped, NEW p \in Processes, NEW c, Step(p, c)
  PROVE  /\ compile' = [q \in Processes |-> compile'[q]] /\ compile'[p] = c
         /\ \A q \in Processes \ {p} : compile'[q] = compile[q]
BY DEF Step, PlansTyped

\* The steps of a compile keep the invariant.
LEMMA CompileStepKeeps ==
  ASSUME PlanInv, NEW p \in Processes, CompileStep(p)
  PROVE  PlanInv'
<1> USE DEF PlanInv
<1>0. PICK c : Step(p, c)
  BY DEF CompileStep, ReadDocuments, Hash, SavePlan, SaveDiagnostics, Fail
<1>1. /\ compile' = [q \in Processes |-> compile'[q]]
      /\ \A q \in Processes \ {p} : compile'[q] = compile[q]
  BY <1>0, StepAlone
<1>2. \A q \in Processes \ {p} : CompileTyped(compile'[q])
  BY <1>1 DEF PlansTyped
<1>3. compile[p].phase \in {"read", "hash", "save", "saved", "failed"} /\ compile[p] # Idle
  BY DEF CompileStep, ReadDocuments, Hash, SavePlan, SaveDiagnostics, Fail, Idle
<1>4. "daemon" \in Processes /\ (p = "daemon" => daemon \notin {"up", "down"})
  BY <1>3 DEF DaemonCompile, Processes
<1>5. CASE ReadDocuments(p) \/ Hash(p)
  <2>1. CompileTyped(compile'[p])
    BY <1>5, ReadTyped, HashTyped
  <2>2. UNCHANGED <<documents, persisted, diagnostics, loop, edits>>
    BY <1>5 DEF ReadDocuments, Hash
  <2>3. /\ compile'[p].phase \in {"hash", "failed", "save"}
        /\ compile'[p].phase # "save" => compile'[p].fresh = compile[p].fresh
    BY <1>5, ReadTyped, HashTyped
  <2>4. compile[p].phase \in {"read", "hash"}
    BY <1>5 DEF ReadDocuments, Hash
  <2>5. PlansTyped'
    BY <2>1, <2>2, <1>1, <1>2 DEF PlansTyped, documents, loop
  <2>6. CASE p = "daemon"
    BY <2>5, <2>6, <2>2, <2>3, <2>4, <1>4 DEF DaemonCompile, loop
  <2>7. CASE p # "daemon"
    BY <2>5, <2>7, <2>2, <1>1, <1>4 DEF DaemonCompile, loop
  <2>8. QED
    BY <2>5, <2>6, <2>7
<1>6. CASE SavePlan(p)
  <2>1. compile[p] \in Saving
    BY <1>6 DEF SavePlan, PlansTyped, CompileTyped
  <2>2. compile'[p] = [compile[p] EXCEPT !.phase = "saved"]
    BY <1>6, StepAlone DEF SavePlan
  <2>3. compile'[p] \in Saving /\ compile'[p].phase = "saved"
    BY <2>1, <2>2 DEF Saving
  <2>4. persisted' \in StoredPlans /\ persisted' # NoPlan
    BY <1>6, <2>1, PlanIsSomething DEF SavePlan, Saving
  <2>5. CompileTyped(compile'[p])
    BY <2>3 DEF CompileTyped
  <2>6. UNCHANGED <<documents, diagnostics, loop, edits>>
    BY <1>6 DEF SavePlan
  <2>7. PlansTyped'
    BY <2>4, <2>5, <2>6, <1>1, <1>2 DEF PlansTyped, MaybePlans, documents, loop
  <2>8. CASE p = "daemon"
    BY <2>7, <2>8, <2>3, <2>4, <2>6, <1>4 DEF DaemonCompile, loop
  <2>9. CASE p # "daemon"
    BY <2>7, <2>9, <2>4, <2>6, <1>1, <1>4 DEF DaemonCompile, loop
  <2>10. QED
    BY <2>7, <2>8, <2>9
<1>7. CASE SaveDiagnostics(p)
  <2> DEFINE d == [phase |-> "done", ok |-> TRUE, plan |-> compile[p].plan]
  <2>1. compile[p] \in Saving /\ compile[p].phase = "saved"
    BY <1>7 DEF SaveDiagnostics, PlansTyped, CompileTyped
  <2>2. compile'[p] = d
    BY <1>7, StepAlone DEF SaveDiagnostics
  <2>3. d \in Ended /\ d.phase = "done" /\ d.ok /\ d.plan # NoPlan
    BY <2>1, PlanIsSomething DEF Saving, Ended, MaybePlans
  <2>4. UNCHANGED <<documents, persisted, loop, edits>> /\ diagnostics' = "ok"
    BY <1>7 DEF SaveDiagnostics
  <2> HIDE DEF d
  <2>5. CompileTyped(compile'[p])
    BY <2>2, <2>3 DEF CompileTyped
  <2>6. PlansTyped'
    BY <2>4, <2>5, <1>1, <1>2 DEF PlansTyped, documents, loop
  <2>7. CASE p = "daemon"
    BY <2>6, <2>7, <2>1, <2>2, <2>3, <2>4, <1>4 DEF DaemonCompile, loop
  <2>8. CASE p # "daemon"
    BY <2>6, <2>8, <2>4, <1>1, <1>4 DEF DaemonCompile, loop
  <2>9. QED
    BY <2>6, <2>7, <2>8
<1>8. CASE Fail(p)
  <2> DEFINE d == [phase |-> "done", ok |-> FALSE, plan |-> LastKnownGood(p, compile[p])]
  <2>1. compile[p] \in Reading /\ compile[p].phase = "failed"
    BY <1>8 DEF Fail, PlansTyped, CompileTyped
  <2>2. compile'[p] = d
    BY <1>8, StepAlone DEF Fail
  <2>3. d \in Ended /\ d.phase = "done" /\ ~d.ok /\ d.plan = LastKnownGood(p, compile[p])
    BY <2>1 DEF Reading, Ended, MaybePlans, LastKnownGood
  <2>4. UNCHANGED <<documents, persisted, loop, edits>> /\ diagnostics' \in {diagnostics, "failed"}
    BY <1>8 DEF Fail
  <2> HIDE DEF d
  <2>5. CompileTyped(compile'[p])
    BY <2>2, <2>3 DEF CompileTyped
  <2>6. PlansTyped'
    BY <2>4, <2>5, <1>1, <1>2 DEF PlansTyped, documents, loop
  <2>7. CASE p = "daemon"
    <3>1. d.plan = NoPlan
      BY <2>7, <2>1, <2>3 DEF LastKnownGood, DaemonCompile
    <3>2. QED
      BY <2>6, <3>1, <2>7, <2>2, <2>3, <2>4, <1>4 DEF DaemonCompile, loop
  <2>8. CASE p # "daemon"
    BY <2>6, <2>8, <2>4, <1>1, <1>4 DEF DaemonCompile, loop
  <2>9. QED
    BY <2>6, <2>7, <2>8
<1>9. QED
  BY <1>5, <1>6, <1>7, <1>8 DEF CompileStep

\* The command line begins a compile, ends it or is killed in it.
LEMMA CliKeeps ==
  ASSUME PlanInv, (\E m \in Modes : Validate(m)) \/ ValidateEnds \/ ValidateKilled
  PROVE  PlanInv'
<1>1. "cli" \in Processes /\ "daemon" \in Processes \ {"cli"}
  BY DEF Processes
<1>2. UNCHANGED <<documents, persisted, diagnostics, loop, edits>>
  BY DEF Validate, ValidateEnds, ValidateKilled
<1>3. CompileTyped(Idle)
  BY DEF CompileTyped, Idle
<1>4. /\ compile' = [q \in Processes |-> compile'[q]] /\ CompileTyped(compile'["cli"])
      /\ \A q \in Processes \ {"cli"} : compile'[q] = compile[q]
  <2>1. CASE \E m \in Modes : Validate(m)
    BY <2>1, <1>1, BeginTyped DEF PlanInv, Validate, AskedModes
  <2>2. CASE ValidateEnds \/ ValidateKilled
    BY <2>2, <1>1, <1>3, StepAlone DEF PlanInv, ValidateEnds, ValidateKilled
  <2>3. QED
    BY <2>1, <2>2
<1>5. PlansTyped'
  BY <1>2, <1>4 DEF PlanInv, PlansTyped, documents, loop
<1>6. DaemonCompile'
  BY <1>1, <1>2, <1>4 DEF PlanInv, DaemonCompile, loop
<1>7. QED
  BY <1>5, <1>6 DEF PlanInv

\* A start and a reload compile only if the plan on disk is not current.
LEMMA DaemonBeginsKeeps ==
  ASSUME PlanInv, Start \/ Reload PROVE PlanInv'
<1>1. "daemon" \in Processes
  BY DEF Processes
<1>2. PICK mode \in AskedModes : Begin("daemon", mode, TRUE)
  <2>1. CASE Start
    BY <2>1 DEF Start, AskedModes
  <2>2. CASE Reload
    <3>1. session \in StoredPlans
      BY <2>2 DEF Reload, PlanInv, PlansTyped, DaemonCompile, MaybePlans
    <3>2. QED
      BY <3>1, <2>2 DEF Reload, StoredPlans
  <2>3. QED
    BY <2>1, <2>2
<1>3. /\ compile' = [q \in Processes |-> compile'[q]] /\ CompileTyped(compile'["daemon"])
      /\ \A q \in Processes \ {"daemon"} : compile'[q] = compile[q]
      /\ \/ compile'["daemon"].phase = "read" /\ ~compile'["daemon"].fresh
         \/ compile'["daemon"].phase = "done" /\ compile'["daemon"].ok /\ persisted # NoPlan
  BY <1>1, <1>2, BeginTyped DEF PlanInv
<1>4. /\ UNCHANGED <<documents, persisted, diagnostics, turn, session, active, edits>>
      /\ mailbox' \in {mailbox, FALSE}
      /\ daemon' = "compiling" \/ (daemon' = "reloading" /\ session # NoPlan)
  BY DEF Start, Reload, PlanInv, DaemonCompile
<1>5. PlansTyped'
  BY <1>3, <1>4 DEF PlanInv, PlansTyped, documents
<1>6. DaemonCompile'
  BY <1>3, <1>4 DEF DaemonCompile
<1>7. QED
  BY <1>5, <1>6 DEF PlanInv

\* Whatever ends a start, a reload or the daemon leaves it without a compile, and
\* up only with a plan.
LEMMA DaemonEndsKeeps ==
  ASSUME PlanInv, StartRefused \/ Adopt \/ Reloaded \/ ReloadFailed \/ Stop
  PROVE  PlanInv'
<1>1. "daemon" \in Processes
  BY DEF Processes
<1>2. Step("daemon", Idle) /\ UNCHANGED <<documents, persisted, diagnostics, active, mailbox, edits>>
  BY DEF StartRefused, Adopt, Reloaded, ReloadFailed, Stop
<1>3. CompileTyped(Idle)
  BY DEF CompileTyped, Idle
<1>4. /\ compile' = [q \in Processes |-> compile'[q]] /\ compile'["daemon"] = Idle
      /\ \A q \in Processes \ {"daemon"} : compile'[q] = compile[q]
  BY <1>1, <1>2, StepAlone DEF PlanInv
<1>5. compile["daemon"].phase = "done" => compile["daemon"].plan \in MaybePlans
  BY <1>1 DEF PlanInv, PlansTyped, CompileTyped, Ended
<1>6. compile["daemon"].phase = "done" /\ compile["daemon"].ok => compile["daemon"].plan # NoPlan
  BY <1>1 DEF PlanInv, PlansTyped, CompileTyped
<1>7. /\ daemon' \in {"down", "up"} /\ turn' \in {"drain", "dispatch"} /\ session' \in MaybePlans
      /\ daemon' = "up" => session' # NoPlan
  <2>1. CASE StartRefused \/ Stop
    BY <2>1 DEF StartRefused, Stop, Down, PlanInv, PlansTyped, MaybePlans
  <2>2. CASE Adopt
    <3>1. persisted # NoPlan
      BY <2>2 DEF Adopt, PlanInv, DaemonCompile
    <3>2. QED
      BY <3>1, <2>2 DEF Adopt, PlanInv, PlansTyped
  <2>3. CASE Reloaded
    BY <2>3, <1>5, <1>6 DEF Reloaded, ReloadDone
  <2>4. CASE ReloadFailed
    BY <2>4 DEF ReloadFailed, ReloadDone, Down, PlanInv, PlansTyped, DaemonCompile, MaybePlans
  <2>5. QED
    BY <2>1, <2>2, <2>3, <2>4
<1>8. PlansTyped'
  BY <1>2, <1>3, <1>4, <1>7 DEF PlanInv, PlansTyped, documents
<1>9. DaemonCompile'
  BY <1>4, <1>7 DEF DaemonCompile, Idle
<1>10. QED
  BY <1>8, <1>9 DEF PlanInv

\* The other steps of the loop touch neither plan nor compile, but that a config
\* that cannot be read ends the daemon.
LEMMA LoopKeeps ==
  ASSUME PlanInv,
         \/ Defer \/ ReloadUnreadable \/ NothingToDrain \/ Dispatch \/ AskReload
         \/ \E l \in Lanes : RunEnds(l)
  PROVE  PlanInv'
<1>1. /\ UNCHANGED <<documents, persisted, diagnostics, compile, edits>>
      /\ (UNCHANGED <<daemon, session>>) \/ (daemon = "up" /\ daemon' = "down" /\ session' = NoPlan)
  BY DEF Defer, ReloadUnreadable, NothingToDrain, Dispatch, AskReload, RunEnds, Down
<1>2. turn' \in {"drain", "dispatch"}
  BY DEF Defer, ReloadUnreadable, NothingToDrain, Dispatch, AskReload, RunEnds, PlanInv, PlansTyped
<1>3. active' \subseteq Lanes
  BY DEF Defer, ReloadUnreadable, NothingToDrain, Dispatch, AskReload, RunEnds, PlanInv, PlansTyped
<1>4. mailbox' \in BOOLEAN
  BY DEF Defer, ReloadUnreadable, NothingToDrain, Dispatch, AskReload, RunEnds, PlanInv, PlansTyped
<1>5. PlansTyped'
  BY <1>1, <1>2, <1>3, <1>4 DEF PlanInv, PlansTyped, documents, MaybePlans
<1>6. DaemonCompile'
  BY <1>1 DEF PlanInv, DaemonCompile
<1>7. QED
  BY <1>5, <1>6 DEF PlanInv

\* An edit of the documents touches nothing that a compile made.
LEMMA EditKeeps == ASSUME PlanInv, Edit PROVE PlanInv'
<1>1. UNCHANGED <<persisted, diagnostics, compile, loop>>
  BY DEF Edit
<1>2. edits' \in 0..MaxEdits
  BY EditsAssumption DEF Edit, PlanInv, PlansTyped
<1>3. configFile' \in ConfigNames /\ primFile' \in PrimNames
  BY DEF Edit, PlanInv, PlansTyped
<1>4. skillFile' \in BOOLEAN
  BY DEF Edit, PlanInv, PlansTyped
<1>5. graphFiles' \in [Places -> GraphNames \cup {"none"}]
  BY DEF Edit, PlanInv, PlansTyped
<1>6. PlansTyped'
  BY <1>1, <1>2, <1>3, <1>4, <1>5 DEF PlanInv, PlansTyped, loop
<1>7. DaemonCompile'
  BY <1>1 DEF PlanInv, DaemonCompile, loop
<1>8. QED
  BY <1>6, <1>7 DEF PlanInv

\* The invariant of a plan store that runs, or that another part leaves alone.
LEMMA PlanStep ==
  ASSUME PlanInv, Next \/ UNCHANGED vars PROVE PlanInv'
<1>1. CASE CompileStep("cli") \/ CompileStep("daemon")
  BY <1>1, CompileStepKeeps DEF Processes
<1>2. CASE UNCHANGED vars
  BY <1>2 DEF vars, PlanInv, PlansTyped, DaemonCompile
<1>3. QED
  BY <1>1, <1>2, CliKeeps, DaemonBeginsKeeps, DaemonEndsKeeps, LoopKeeps, EditKeeps DEF Next

\* What the invariant says of the run's properties.
LEMMA PlanMeans == ASSUME PlanInv PROVE TypeOK /\ PlansSound
<1>1. \A p \in {persisted, session} : p # NoPlan => p.in \in Accepted /\ p.place \in Places
  BY DEF PlanInv, PlansTyped, MaybePlans, StoredPlans
<1>2. Accepted \subseteq Inputs
  BY DEF Accepted
<1>3. \A p \in Processes :
        compile[p].phase \in {"idle", "read", "hash", "save", "saved", "failed", "done"}
  BY DEF PlanInv, PlansTyped, CompileTyped
<1>4. daemon = "up" => session # NoPlan /\ compile["daemon"] = Idle
  BY DEF PlanInv, DaemonCompile
<1>5. TypeOK
  BY <1>1, <1>2, <1>3, <1>4 DEF PlanInv, PlansTyped, TypeOK
<1>6. PlansSound
  BY <1>1, AcceptedIsSound DEF PlansSound, UsedPlansClosed, ConfigDenies, InUse
<1>7. QED
  BY <1>5, <1>6

\* A reload that fails has no plan to go on with.
LEMMA ReloadsOnlyOk ==
  ASSUME PlanInv, Next, daemon = "reloading", daemon' = "up"
  PROVE  compile["daemon"].ok /\ session' = compile["daemon"].plan
<1>1. CASE Reloaded
  BY <1>1 DEF Reloaded
<1>2. CASE ReloadFailed
  BY <1>2 DEF ReloadFailed, ReloadDone, Down, PlanInv, DaemonCompile
<1>3. CASE ~Reloaded /\ ~ReloadFailed
  BY <1>3 DEF Next, CompileStep, ReadDocuments, Hash, SavePlan, SaveDiagnostics, Fail, Validate,
              ValidateEnds, ValidateKilled, Start, StartRefused, Stop, Adopt, Defer, Reload,
              ReloadUnreadable, NothingToDrain, Dispatch, AskReload, RunEnds, Edit, Down, loop
<1>4. QED
  BY <1>1, <1>2, <1>3

-----------------------------------------------------------------------------
(* The capability gate                                                      *)

DecisionRecords == [key : Gate!Keys, status : Gate!Statuses, wrote : BOOLEAN]

NeedsApproval(g) == g.required /\ g.decision = "approval_required"

AllGrants == UNION {GrantsOf[n] : n \in Nodes}

Counts == 1 .. MaxRequests
RequestIds == [pid : Pids, run : Counts, request : Counts, grant : {""}]

\* The request at the gate has an id, and grants of its node still to look at.
AtGate ==
    /\ gate \in [key : RequestIds, node : Nodes, todo : SUBSET AllGrants, blocks : {gate.blocks}]
    /\ gate.todo \subseteq GrantsOf[gate.node]

GateTyped ==
    /\ pid \in Pids \cup {0}
    /\ gateRuns \in 0 .. MaxRequests /\ gateRequests \in gateRuns .. MaxRequests
    /\ pending \subseteq Gate!Keys /\ resolved \in [Gate!Keys -> Gate!Statuses \cup {"none"}]
    /\ \A d \in mail : d.key \in Gate!Keys /\ d.status \in Gate!Statuses
    /\ doing \in [Gate!Actors -> DecisionRecords \cup {Gate!None}]
    /\ asked \in [Gate!Keys -> [life : Int, node : Nodes \cup {"none"}]]
    /\ decided \in [Gate!Keys -> SUBSET Gate!Statuses]
    /\ gate # Gate!None => AtGate
    /\ stops \in Nat

\* A decision that is half recorded is on file, so its second step loses nothing.
Halves ==
    \A a \in Gate!Actors : doing[a] # Gate!None /\ doing[a].wrote => resolved[doing[a].key] # "none"

\* Only what was asked for is on file, and what is resolved was decided.
Asked == \A k \in Gate!Keys : Gate!Recorded(k) => asked[k] # Gate!Nobody
Resolved == \A k \in Gate!Keys : resolved[k] # "none" => resolved[k] \in decided[k]
Whose == \A a \in Gate!Actors : doing[a] # Gate!None => asked[doing[a].key] # Gate!Nobody

\* What an operator has approved for a grant of the request at the gate.
GrantApproved(g) == asked[Gate!KeyOf(g)] # Gate!Nobody /\ "approved" \in decided[Gate!KeyOf(g)]

\* A gate that has not blocked yet has found an approval for each grant behind it.
PassedApproved ==
    gate # Gate!None /\ gate.blocks = {} =>
        \A g \in GrantsOf[gate.node] \ gate.todo : NeedsApproval(g) => GrantApproved(g)

GateKept == Gate!RequestsKept /\ Halves /\ Asked /\ Resolved /\ Whose /\ PassedApproved

-----------------------------------------------------------------------------
(* Types                                                                    *)

(* A grant makes the key of an approval out of the id of a request. *)
LEMMA KeyRenamed ==
  ASSUME NEW q \in RequestIds, NEW x \in Gate!GrantIds
  PROVE  [q EXCEPT !.grant = x] \in Gate!Keys
<1>1. Gate!Keys = [pid : Pids, run : Counts, request : Counts, grant : Gate!GrantIds]
  BY DEF Gate!Keys, Counts
<1> QED
  BY <1>1 DEF RequestIds

(* The keys that the gate files approvals under are keys. *)
LEMMA KeyTyped ==
  ASSUME gate # Gate!None, GateTyped, NEW g \in GrantsOf[gate.node]
  PROVE  Gate!KeyOf(g) \in Gate!Keys
<1>1. AtGate
  BY DEF GateTyped
<1>2. g.id \in Gate!GrantIds
  <2>1. g.id \in {h.id : h \in GrantsOf[gate.node]} /\ gate.node \in Nodes
    BY <1>1 DEF AtGate
  <2> QED
    BY <2>1 DEF Gate!GrantIds
<1>3. gate.key \in RequestIds
  BY <1>1 DEF AtGate
<1> QED
  BY <1>2, <1>3, KeyRenamed DEF Gate!KeyOf

(* No step leaves the types. *)
LEMMA GateTypedStep ==
  ASSUME MaxRequests \in Nat, GateTyped, Gate!Next \/ UNCHANGED gateVars
  PROVE  GateTyped'
<1>1. ASSUME NEW p \in Pids, Gate!Start(p) PROVE GateTyped'
  BY <1>1 DEF Gate!Start, Gate!approvals, Gate!history, Gate!bounds, GateTyped, AtGate
<1>2. CASE Gate!End
  BY <1>2 DEF Gate!End, Gate!approvals, Gate!history, GateTyped, Gate!Actors
<1>3. ASSUME NEW n \in Nodes, NEW fresh \in BOOLEAN, Gate!Request(n, fresh) PROVE GateTyped'
  <2>1. /\ pid \in Pids /\ gateRequests' = gateRequests + 1 /\ gateRequests' \in 1 .. MaxRequests
        /\ gateRuns' \in 1 .. gateRequests'
    <3>1. /\ pid \in Pids /\ gateRequests' = gateRequests + 1 /\ gateRequests < MaxRequests
          /\ (gateRuns' = gateRuns + 1) \/ (gateRuns' = gateRuns /\ gateRuns > 0)
      BY <1>3 DEF Gate!Request, GateTyped
    <3> QED
      BY <3>1 DEF GateTyped
  <2>2. gate' = [key |-> [pid |-> pid, run |-> gateRuns', request |-> gateRequests + 1, grant |-> ""],
                 node |-> n, todo |-> GrantsOf[n], blocks |-> {}]
    BY <1>3 DEF Gate!Request
  <2>3. gateRuns' \in Counts /\ gateRequests + 1 \in Counts
    BY <2>1 DEF Counts, GateTyped
  <2>4. gate'.key \in RequestIds
    BY <2>1, <2>2, <2>3 DEF RequestIds
  <2>5. GrantsOf[n] \subseteq AllGrants
    BY DEF AllGrants
  <2>6. AtGate'
    BY <2>2, <2>4, <2>5 DEF AtGate
  <2>7. pid' \in Pids /\ gateRuns' \in 0 .. MaxRequests /\ gateRequests' \in gateRuns' .. MaxRequests
    <3>1. pid' = pid
      BY <1>3 DEF Gate!Request
    <3>2. MaxRequests \in Nat /\ gateRequests' \in Nat /\ gateRuns' \in Nat
      BY <2>1
    <3> QED
      BY <2>1, <3>1, <3>2
  <2> QED
    BY <1>3, <2>6, <2>7 DEF Gate!Request, Gate!approvals, Gate!history, Gate!bounds, GateTyped
<1>4. ASSUME NEW g, Gate!Evaluate(g) PROVE GateTyped'
  <2>1. gate # Gate!None /\ AtGate /\ g \in GrantsOf[gate.node]
    BY <1>4 DEF Gate!Evaluate, GateTyped, AtGate
  <2>2. Gate!KeyOf(g) \in Gate!Keys
    BY <2>1, KeyTyped
  <2>3. /\ gate' = [gate EXCEPT !.todo = gate.todo \ {g}, !.blocks = gate'.blocks]
        /\ UNCHANGED <<pid, gateRuns, gateRequests, resolved, mail, doing, decided, stops>>
    BY <1>4, <2>1 DEF Gate!Evaluate, AtGate, Gate!counters, Gate!bounds
  <2>4. AtGate'
    <3>1. /\ gate'.key = gate.key /\ gate'.node = gate.node /\ gate'.todo = gate.todo \ {g}
          /\ gate' = [key |-> gate.key, node |-> gate.node, todo |-> gate.todo \ {g},
                      blocks |-> gate'.blocks]
      BY <2>1, <2>3 DEF AtGate
    <3> QED
      BY <2>1, <2>3, <3>1 DEF AtGate
  <2>5. /\ pending' \subseteq Gate!Keys
        /\ asked' \in [Gate!Keys -> [life : Int, node : Nodes \cup {"none"}]]
    BY <1>4, <2>1, <2>2 DEF Gate!Evaluate, GateTyped, AtGate
  <2> QED
    BY <2>3, <2>4, <2>5 DEF GateTyped
<1>5. CASE Gate!Launch \/ Gate!Refuse
  BY <1>5 DEF Gate!Launch, Gate!Refuse, Gate!counters, Gate!approvals, Gate!bounds, GateTyped
<1>6. ASSUME NEW d \in mail, Gate!Drain(d) PROVE GateTyped'
  <2>1. doing' \in [Gate!Actors -> DecisionRecords \cup {Gate!None}]
    BY <1>6 DEF Gate!Drain, GateTyped, DecisionRecords, Gate!Actors
  <2> QED
    BY <1>6, <2>1 DEF Gate!Drain, Gate!counters, Gate!approvals, Gate!history, Gate!bounds,
                      GateTyped
<1>7. ASSUME NEW k \in pending, NEW s \in Gate!Statuses, Gate!Post(k, s) PROVE GateTyped'
  BY <1>7 DEF Gate!Post, Gate!counters, Gate!approvals, Gate!history, GateTyped, AtGate
<1>8. ASSUME NEW k \in pending, NEW s \in Gate!Statuses, NEW o \in Operators, Gate!Decide(o, k, s)
      PROVE  GateTyped'
  <2>1. doing' \in [Gate!Actors -> DecisionRecords \cup {Gate!None}]
    BY <1>8 DEF Gate!Decide, GateTyped, DecisionRecords, Gate!Actors
  <2> QED
    BY <1>8, <2>1 DEF Gate!Decide, Gate!counters, Gate!approvals, Gate!history, GateTyped, AtGate
<1>9. ASSUME NEW a \in Gate!Actors, Gate!Resolve(a) PROVE GateTyped'
  <2>1. doing[a] \in DecisionRecords
    BY <1>9 DEF Gate!Resolve, GateTyped
  <2>2. [doing[a] EXCEPT !.wrote = TRUE] \in DecisionRecords
    BY <2>1 DEF DecisionRecords
  <2>3. doing' \in [Gate!Actors -> DecisionRecords \cup {Gate!None}]
    BY <1>9, <2>2 DEF Gate!Resolve, GateTyped
  <2>4. /\ pending' \subseteq Gate!Keys /\ resolved' \in [Gate!Keys -> Gate!Statuses \cup {"none"}]
        /\ decided' \in [Gate!Keys -> SUBSET Gate!Statuses]
    <3>1. doing[a].key \in Gate!Keys /\ doing[a].status \in Gate!Statuses
      BY <2>1 DEF DecisionRecords
    <3>2. CASE doing[a].wrote
      BY <1>9, <3>2 DEF Gate!Resolve, Gate!Record, Gate!Remove, GateTyped
    <3>3. CASE ~doing[a].wrote
      BY <1>9, <3>1, <3>3 DEF Gate!Resolve, Gate!Record, Gate!Write, GateTyped
    <3> QED
      BY <3>2, <3>3
  <2> QED
    BY <1>9, <2>3, <2>4 DEF Gate!Resolve, Gate!counters, Gate!bounds, GateTyped, AtGate
<1>10. ASSUME NEW o \in Operators, Gate!Killed(o) PROVE GateTyped'
  <2>1. doing' \in [Gate!Actors -> DecisionRecords \cup {Gate!None}]
    BY <1>10 DEF Gate!Killed, GateTyped, Gate!Actors
  <2> QED
    BY <1>10, <2>1 DEF Gate!Killed, Gate!counters, Gate!approvals, Gate!history, Gate!bounds,
                       GateTyped, AtGate
<1>11. CASE UNCHANGED gateVars
  BY <1>11 DEF gateVars, GateTyped, AtGate
<1> QED
  BY <1>1, <1>2, <1>3, <1>4, <1>5, <1>6, <1>7, <1>8, <1>9, <1>10, <1>11 DEF Gate!Next, Gate!Daemon

-----------------------------------------------------------------------------
(* Requests and decisions                                                   *)

\* The actor goes on, gives up, or takes up a decision about a pending request.
Picks(a) ==
    \/ doing'[a] = doing[a]
    \/ doing'[a] = Gate!None
    \/ doing'[a] \in DecisionRecords /\ doing'[a].key \in pending /\ ~doing'[a].wrote

(* Steps that touch no record: at most a decision about a pending request is
   taken up, or a new request comes to the gate. *)
LEMMA GateAside ==
  ASSUME GateTyped, GateKept, UNCHANGED <<pending, resolved, asked, decided>>,
         \A a \in Gate!Actors : Picks(a),
         \/ UNCHANGED gate \/ gate' = Gate!None
         \/ gate'.todo = GrantsOf[gate'.node]
  PROVE  GateKept'
<1>1. Gate!RequestsKept' /\ Asked' /\ Resolved'
  BY DEF GateKept, Gate!RequestsKept, Asked, Resolved, Gate!Recorded
<1>2. Halves'
  BY DEF GateKept, Halves, Picks
<1>3. Whose'
  BY DEF GateKept, Whose, Asked, Gate!Recorded, Picks, DecisionRecords
<1>4. PassedApproved'
  BY DEF GateKept, PassedApproved, GrantApproved, Gate!KeyOf
<1> QED
  BY <1>1, <1>2, <1>3, <1>4 DEF GateKept

(* A turn of the gate files what it asks for, and passes what was approved. *)
LEMMA GateEvaluates ==
  ASSUME GateTyped, GateKept, NEW g, Gate!Evaluate(g)
  PROVE  GateKept'
<1>1. gate # Gate!None /\ AtGate /\ g \in GrantsOf[gate.node]
  BY DEF Gate!Evaluate, GateTyped, AtGate
<1>2. Gate!KeyOf(g) \in Gate!Keys
  BY <1>1, KeyTyped
<1>3. UNCHANGED <<resolved, doing, decided>>
  BY DEF Gate!Evaluate
<1>4. /\ pending \subseteq pending'
      /\ \A k \in Gate!Keys : asked[k] # Gate!Nobody => asked'[k] # Gate!Nobody
      /\ \A k \in Gate!Keys : \/ asked'[k] = asked[k] /\ (k \in pending' <=> k \in pending)
                              \/ k \in pending' /\ asked'[k] # Gate!Nobody
  BY <1>2 DEF Gate!Evaluate, GateTyped, Gate!Nobody
<1>5. Gate!RequestsKept' /\ Asked' /\ Resolved'
  BY <1>3, <1>4 DEF GateKept, Gate!RequestsKept, Asked, Resolved, Gate!Recorded
<1>6. Halves' /\ Whose'
  BY <1>3, <1>4 DEF GateKept, Halves, Whose, GateTyped, DecisionRecords
<1>7. /\ gate'.todo = gate.todo \ {g} /\ gate'.node = gate.node /\ gate'.key = gate.key
      /\ gate'.blocks =
           gate.blocks \cup Gate!Blocks(RunnerOf[gate.node], g, Gate!Approved(Gate!KeyOf(g)))
  BY <1>1 DEF Gate!Evaluate, AtGate
<1>8. \A h \in GrantsOf[gate.node] : Gate!KeyOf(h)' = Gate!KeyOf(h) /\ Gate!KeyOf(h) \in Gate!Keys
  BY <1>1, <1>7, KeyTyped DEF Gate!KeyOf
<1>9. ASSUME NeedsApproval(g), Gate!Blocks(RunnerOf[gate.node], g, Gate!Approved(Gate!KeyOf(g))) = {}
      PROVE  GrantApproved(g)
  <2>1. Gate!Approved(Gate!KeyOf(g))
    BY <1>9 DEF NeedsApproval, Gate!Blocks
  <2> QED
    BY <1>2, <2>1 DEF Gate!Approved, GateKept, Asked, Resolved, Gate!Recorded, GrantApproved
<1>10. PassedApproved'
  <2> SUFFICES ASSUME gate'.blocks = {}, NEW h \in GrantsOf[gate.node], h \notin gate.todo \/ h = g,
                      NeedsApproval(h)
               PROVE  GrantApproved(h)'
    BY <1>7 DEF PassedApproved
  <2>1. gate.blocks = {} /\ Gate!Blocks(RunnerOf[gate.node], g, Gate!Approved(Gate!KeyOf(g))) = {}
    BY <1>7
  <2>2. GrantApproved(h)
    <3>1. CASE h = g
      BY <1>9, <2>1, <3>1
    <3>2. CASE h \notin gate.todo
      BY <1>1, <2>1, <3>2 DEF GateKept, PassedApproved
    <3> QED
      BY <3>1, <3>2
  <2> QED
    BY <1>3, <1>4, <1>8, <2>2 DEF GrantApproved
<1> QED
  BY <1>5, <1>6, <1>10 DEF GateKept

(* The pending record goes only after the decision is written. *)
LEMMA GateResolves ==
  ASSUME GateTyped, GateKept, NEW a \in Gate!Actors, Gate!Resolve(a)
  PROVE  GateKept'
<1>1. doing[a] \in DecisionRecords /\ doing[a] # Gate!None /\ asked[doing[a].key] # Gate!Nobody
  BY DEF Gate!Resolve, GateTyped, GateKept, Whose
<1>2. UNCHANGED <<asked, gate>>
  BY DEF Gate!Resolve
<1>3. CASE doing[a].wrote
  <2>1. /\ pending' = pending \ {doing[a].key} /\ UNCHANGED <<resolved, decided>>
        /\ doing' = [doing EXCEPT ![a] = Gate!None]
    BY <1>1, <1>3 DEF Gate!Resolve, Gate!Record, Gate!Remove
  <2>2. resolved[doing[a].key] # "none"
    BY <1>1, <1>3 DEF GateKept, Halves
  <2>3. Gate!RequestsKept' /\ Asked' /\ Resolved'
    BY <1>2, <2>1, <2>2 DEF GateKept, Gate!RequestsKept, Asked, Resolved, Gate!Recorded
  <2>4. Halves' /\ Whose'
    BY <1>2, <2>1 DEF GateKept, Halves, Whose, GateTyped
  <2>5. PassedApproved'
    BY <1>2, <2>1 DEF GateKept, PassedApproved, GrantApproved, Gate!KeyOf
  <2> QED
    BY <2>3, <2>4, <2>5 DEF GateKept
<1>4. CASE ~doing[a].wrote
  <2>1. /\ UNCHANGED pending
        /\ resolved' = [resolved EXCEPT ![doing[a].key] = doing[a].status]
        /\ decided' = [decided EXCEPT ![doing[a].key] = @ \cup {doing[a].status}]
        /\ doing' = [doing EXCEPT ![a] = [doing[a] EXCEPT !.wrote = TRUE]]
    BY <1>1, <1>4 DEF Gate!Resolve, Gate!Record, Gate!Write
  <2>2. doing[a].key \in Gate!Keys /\ doing[a].status \in Gate!Statuses
    BY <1>1 DEF DecisionRecords
  <2>3. /\ \A k \in Gate!Keys : decided[k] \subseteq decided'[k]
        /\ \A k \in Gate!Keys : resolved[k] # "none" => resolved'[k] # "none"
    BY <2>1, <2>2 DEF GateTyped, Gate!Statuses
  <2>4. Gate!RequestsKept' /\ Asked' /\ Resolved'
    BY <1>1, <1>2, <2>1, <2>2, <2>3 DEF GateKept, Gate!RequestsKept, Asked, Resolved,
                                        Gate!Recorded, GateTyped, Gate!Statuses
  <2>5. /\ \A b \in Gate!Actors : doing'[b] # Gate!None =>
             doing[b] # Gate!None /\ doing'[b].key = doing[b].key
        /\ \A b \in Gate!Actors : b # a => doing'[b] = doing[b]
    BY <1>1, <2>1 DEF GateTyped, DecisionRecords
  <2>6. resolved'[doing[a].key] # "none"
    BY <2>1, <2>2 DEF GateTyped, Gate!Statuses
  <2>7. Halves' /\ Whose'
    BY <1>2, <2>3, <2>5, <2>6 DEF GateKept, Halves, Whose, GateTyped, DecisionRecords
  <2>8. PassedApproved'
    <3> SUFFICES ASSUME gate # Gate!None, gate.blocks = {}, NEW g \in GrantsOf[gate.node] \ gate.todo,
                        NeedsApproval(g)
                 PROVE  GrantApproved(g)'
      BY <1>2 DEF PassedApproved
    <3>1. Gate!KeyOf(g) \in Gate!Keys /\ Gate!KeyOf(g)' = Gate!KeyOf(g) /\ GrantApproved(g)
      BY <1>2, KeyTyped DEF GateKept, PassedApproved, Gate!KeyOf
    <3> QED
      BY <1>2, <2>3, <3>1 DEF GrantApproved
  <2> QED
    BY <2>4, <2>7, <2>8 DEF GateKept
<1> QED
  BY <1>1, <1>3, <1>4

(* Every step keeps requests and decisions together. *)
LEMMA GateKeptStep ==
  ASSUME GateTyped, GateKept, Gate!Next \/ UNCHANGED gateVars
  PROVE  GateKept'
<1>1. ASSUME NEW p \in Pids, Gate!Start(p) PROVE GateKept'
  BY <1>1, GateAside DEF Gate!Start, Gate!approvals, Gate!history, Picks
<1>2. CASE Gate!End
  BY <1>2, GateAside DEF Gate!End, Gate!approvals, Gate!history, GateTyped, Picks
<1>3. ASSUME NEW n \in Nodes, NEW fresh \in BOOLEAN, Gate!Request(n, fresh) PROVE GateKept'
  BY <1>3, GateAside DEF Gate!Request, Gate!approvals, Gate!history, Picks
<1>4. CASE Gate!Launch \/ Gate!Refuse
  BY <1>4, GateAside DEF Gate!Launch, Gate!Refuse, Gate!approvals, Picks
<1>5. ASSUME NEW d \in mail, Gate!Drain(d) PROVE GateKept'
  <2>1. \A a \in Gate!Actors : Picks(a)
    <3>1. d.key \in pending => [key |-> d.key, status |-> d.status, wrote |-> FALSE] \in DecisionRecords
      BY DEF GateTyped, DecisionRecords
    <3> QED
      BY <1>5, <3>1 DEF Gate!Drain, GateTyped, Picks
  <2> QED
    BY <1>5, <2>1, GateAside DEF Gate!Drain, Gate!approvals, Gate!history
<1>6. ASSUME NEW k \in pending, NEW s \in Gate!Statuses, Gate!Post(k, s) PROVE GateKept'
  BY <1>6, GateAside DEF Gate!Post, Gate!approvals, Gate!history, Picks
<1>7. ASSUME NEW k \in pending, NEW s \in Gate!Statuses, NEW o \in Operators, Gate!Decide(o, k, s)
      PROVE  GateKept'
  <2>1. \A a \in Gate!Actors : Picks(a)
    <3>1. [key |-> k, status |-> s, wrote |-> FALSE] \in DecisionRecords
      BY DEF GateTyped, DecisionRecords
    <3> QED
      BY <1>7, <3>1 DEF Gate!Decide, GateTyped, Picks
  <2> QED
    BY <1>7, <2>1, GateAside DEF Gate!Decide, Gate!approvals, Gate!history
<1>8. ASSUME NEW o \in Operators, Gate!Killed(o) PROVE GateKept'
  BY <1>8, GateAside DEF Gate!Killed, Gate!approvals, Gate!history, GateTyped, Picks
<1>9. CASE UNCHANGED gateVars
  BY <1>9, GateAside DEF gateVars, Picks
<1> QED
  BY <1>1, <1>2, <1>3, <1>4, <1>5, <1>6, <1>7, <1>8, <1>9, GateEvaluates,
     GateResolves DEF Gate!Next, Gate!Daemon

(* At the start nothing is asked for. *)
LEMMA GateStart ==
  ASSUME MaxRequests \in Nat, Gate!Init
  PROVE  GateTyped /\ GateKept
<1>1. GateTyped
  BY DEF Gate!Init, GateTyped, Gate!Nobody
<1>2. GateKept
  BY DEF Gate!Init, GateKept, Gate!RequestsKept, Halves, Asked, Resolved, Whose, PassedApproved,
         Gate!Recorded
<1> QED
  BY <1>1, <1>2

GateInv == GateTyped /\ GateKept

\* The invariant of a gate that runs, or that another part leaves alone.
LEMMA GateStep ==
  ASSUME GateInv, Gate!Next \/ UNCHANGED gateVars PROVE GateInv'
BY GateTypedStep, GateKeptStep, GateAssumption DEF GateInv

\* What the invariant says of the run's properties.
LEMMA GateMeans == ASSUME GateInv PROVE Gate!TypeOK /\ Gate!RequestsKept
<1>1. \A a \in Gate!Actors : doing[a] # Gate!None => doing[a].key \in Gate!Keys
  BY DEF GateInv, GateTyped, DecisionRecords
<1>2. gate # Gate!None => gate.node \in Nodes /\ gate.todo \subseteq GrantsOf[gate.node]
  BY DEF GateInv, GateTyped, AtGate
<1> QED
  BY <1>1, <1>2 DEF GateInv, GateTyped, GateKept, Gate!TypeOK

(* A runner is started for a request none of whose grants blocked it. *)
LEMMA LaunchedApproved ==
  ASSUME GateInv, Gate!Next \/ UNCHANGED gateVars
  PROVE  \A l \in launched' \ launched : \A k \in l.keys :
           asked[k] # Gate!Nobody /\ "approved" \in decided[k]
<1>1. CASE Gate!Launch
  <2>1. \A g \in GrantsOf[gate.node] : NeedsApproval(g) => GrantApproved(g)
    BY <1>1 DEF Gate!Launch, GateInv, GateKept, PassedApproved
  <2>2. \A l \in launched' \ launched : \A k \in l.keys :
          \E g \in GrantsOf[gate.node] : NeedsApproval(g) /\ k = Gate!KeyOf(g)
    BY <1>1 DEF Gate!Launch, NeedsApproval
  <2> QED
    BY <2>1, <2>2 DEF GrantApproved
<1>2. CASE ~Gate!Launch
  <2>1. UNCHANGED launched
    BY <1>2 DEF Gate!Next, Gate!Daemon, Gate!Start, Gate!End, Gate!Request, Gate!Evaluate,
                Gate!Refuse, Gate!Drain, Gate!Post, Gate!Decide, Gate!Resolve, Gate!Killed,
                gateVars, Gate!history
  <2> QED
    BY <2>1
<1> QED
  BY <1>1, <1>2

-----------------------------------------------------------------------------
(* Blueprint planning *)

Op(op, d) == Drafting!Op(op, d)
Ops ==
    [op : {"manifest", "draft", "packet", "markdown", "latest", "evaluation", "approve", "task",
           "promotion", "reject", "critique", "revise"}, draft : Nat]

DraftDirs == {"queue", "active", "approved", "blocked"}
Settled == {"approved", "blocked"}

\* Every variable of Blueprint in its type; no draft is cancelled or superseded.
DraftingTyped ==
    /\ sourceAt \in {"queue", "active", "done", "blocked"} /\ split \in BOOLEAN /\ manifest \in BOOLEAN
    /\ drafts \in [Drafting!Drafts -> SUBSET DraftDirs]
    /\ doc \in [Drafting!Drafts -> Drafting!DraftDocs]
    /\ packets \in [Drafting!Drafts -> [Drafting!Revisions -> Drafting!PacketStates]]
    /\ tasks \subseteq [id : TaskIds, draft : Drafting!Drafts, at : {"open", "done", "gone"}]
    /\ promotions \subseteq Drafting!Promotions
    /\ planRun \in [item : Drafting!Drafts \cup {0},
                    stage : Drafting!PlanningNodes \cup {Drafting!RepairStage, "none"}]
    /\ repairs \in 0..2 /\ plannerUp \in BOOLEAN /\ crashes \in 0..MaxCrashes
    /\ moving \in [draft : Drafting!Drafts, from : {"queue", "active"}] \cup {Drafting!NoMove}
    /\ eff \in [handler : DOMAIN Drafting!PreClasses \cup {"none"}, todo : Seq(Ops),
                made : SUBSET Ops, fate : {"none", "complete", "route"}]

\* The stages of the spec run on the spec and those of a draft on a draft, which
\* has left the queue.  An effect is that of the stage; a move is that of a claim
\* or of the draft whose run is over, and leaves a copy behind.
RunShape ==
    /\ planRun.stage = "none" => planRun.item = 0
    /\ planRun.stage \in {"planner", "manager_blueprint"} => planRun.item = 0
    /\ planRun.stage \in {"contractor_blueprint", "evaluator_blueprint"} => planRun.item # 0
    /\ planRun.item # 0 => "queue" \notin drafts[planRun.item] /\ "active" \in drafts[planRun.item]
    /\ eff = Drafting!NoEffect \/ (plannerUp /\ moving = Drafting!NoMove /\ planRun.stage = eff.handler)
    /\ moving.from = "queue" => /\ planRun = Drafting!NoRun
                                /\ {"queue", "active"} \subseteq drafts[moving.draft]
    /\ moving.from = "active" => /\ planRun.item = moving.draft
                                  /\ planRun.stage \in Drafting!PlanningNodes
                                 /\ drafts[moving.draft] \cap Settled # {}
    /\ moving # Drafting!NoMove => plannerUp

HasTask(d) == \E t \in tasks : t.draft = d

\* How far an approval is: its packet, its task, its promotion.
Approval(d, left) ==
    /\ left <= 3 => eff.made # {}
    /\ left <= 2 => packets[d][doc[d].rev + 1] = "approved"
    /\ left <= 1 => HasTask(d)
    /\ left = 0 => \E p \in promotions : p.draft = d

ApprovalLeft(d) ==
    {<<Op("evaluation", d), Op("approve", d), Op("task", d), Op("promotion", d)>>,
     <<Op("approve", d), Op("task", d), Op("promotion", d)>>,
     <<Op("task", d), Op("promotion", d)>>, <<Op("promotion", d)>>, <<>>}

RejectionLeft(d) ==
    {<<Op("evaluation", d), Op("reject", d), Op("critique", d), Op("revise", d)>>,
     <<Op("reject", d), Op("critique", d), Op("revise", d)>>,
     <<Op("critique", d), Op("revise", d)>>, <<Op("revise", d)>>, <<>>}

CandidateLeft(d) ==
    {<<Op("packet", d), Op("markdown", d), Op("latest", d)>>,
     <<Op("markdown", d), Op("latest", d)>>, <<Op("latest", d)>>, <<>>}

\* What the manager has still to write; all before it is on file.
ManagerLeft ==
    /\ Len(eff.todo) <= DraftCount + 1
    /\ \A i \in 1..Len(eff.todo) :
         LET k == DraftCount - Len(eff.todo) + i IN
         eff.todo[i] = IF k = 0 THEN Op("manifest", 1) ELSE Op("draft", k)
    /\ Len(eff.todo) <= DraftCount => manifest
    /\ \A d \in Drafting!Drafts : d <= DraftCount - Len(eff.todo) => drafts[d] # {}

\* An effect writes what its handler planned, in order, about the item of its run.
EffectShape ==
    /\ eff.handler = "none" => eff = Drafting!NoEffect
    /\ eff.handler = "manager_blueprint" => eff.fate = "complete" /\ ManagerLeft
    /\ eff.handler = "contractor_blueprint" =>
         /\ eff.fate = "route" /\ eff.todo \in CandidateLeft(planRun.item)
         /\ eff.todo # <<>> => doc[planRun.item].rev < MaxRevision
    /\ eff.handler = "evaluator_blueprint" /\ eff.fate # "route" =>
         /\ eff.fate = "complete" /\ eff.todo \in ApprovalLeft(planRun.item)
         /\ doc[planRun.item].rev < MaxRevision
         /\ Approval(planRun.item, Len(eff.todo))
    /\ eff.handler = "evaluator_blueprint" /\ eff.fate = "route" =>
         /\ eff.todo \in RejectionLeft(planRun.item)
         /\ eff.todo # <<>> => doc[planRun.item].rev < MaxRevision

\* A draft that is settled or has a task has left the queue, and its run is over
\* but for the end of the approval that made the task.
Spent(d) == drafts[d] \cap Settled # {} \/ HasTask(d)

Finishing ==
    \/ ~plannerUp \/ planRun.stage = Drafting!RepairStage
    \/ eff.handler = "evaluator_blueprint" /\ eff.fate = "complete" /\ Len(eff.todo) <= 1

SpentStays ==
    \A d \in Drafting!Drafts :
        Spent(d) => "queue" \notin drafts[d] /\ (planRun.item = d => moving.draft = d \/ Finishing)

\* One task of a draft, one task of an id, and none before those of the drafts below.
TasksInOrder ==
    /\ \A t, u \in tasks : t.draft = u.draft \/ t.id = u.id => t = u
    /\ \A t \in tasks : drafts[t.draft] # {} /\ \A e \in 1..(t.draft - 1) : HasTask(e)
    /\ \A e \in 1..(planRun.item - 1) : HasTask(e)
    /\ \A e \in 1..(moving.draft - 1) : HasTask(e)

\* A promotion has its approved packet and its task, an approved draft its promotion.
Backed ==
    /\ \A p \in promotions : /\ packets[p.draft][p.rev] = "approved"
                             /\ \E t \in tasks : t.id = p.task /\ t.draft = p.draft
    /\ \A d \in Drafting!Drafts : "approved" \in drafts[d] => \E p \in promotions : p.draft = d
    /\ sourceAt = "done" /\ ~split => manifest /\ \A d \in Drafting!Drafts : drafts[d] # {}

DraftingInv ==
    DraftingTyped /\ RunShape /\ EffectShape /\ SpentStays /\ TasksInOrder /\ Backed

-----------------------------------------------------------------------------
\* At the start there is nothing but the spec.
LEMMA DraftingStart == ASSUME Drafting!Init PROVE DraftingInv
<1> USE DraftingAssumption DEF Drafting!Init, Drafting!NoRun, Drafting!NoEffect, Drafting!NoMove
<1>1. DraftingTyped
  <2>1. split \in BOOLEAN /\ manifest \in BOOLEAN /\ plannerUp \in BOOLEAN
    OBVIOUS
  <2>2. drafts \in [Drafting!Drafts -> SUBSET DraftDirs]
    OBVIOUS
  <2>3. doc \in [Drafting!Drafts -> Drafting!DraftDocs]
    BY DEF Drafting!DraftDocs
  <2>4. packets \in [Drafting!Drafts -> [Drafting!Revisions -> Drafting!PacketStates]]
    BY DEF Drafting!PacketStates
  <2>5. eff \in [handler : DOMAIN Drafting!PreClasses \cup {"none"}, todo : Seq(Ops),
                 made : SUBSET Ops, fate : {"none", "complete", "route"}]
    OBVIOUS
  <2>6. QED
    BY <2>1, <2>2, <2>3, <2>4, <2>5 DEF DraftingTyped
<1>2. RunShape /\ EffectShape
  BY DEF RunShape, EffectShape
<1>3. SpentStays /\ TasksInOrder /\ Backed
  BY DEF SpentStays, Spent, HasTask, TasksInOrder, Backed
<1>4. QED
  BY <1>1, <1>2, <1>3 DEF DraftingInv

\* What a lifecycle move of the run's item comes to: the repair stage, or its move.
Leaves(to) ==
    \/ /\ planRun' = [planRun EXCEPT !.stage = Drafting!RepairStage]
       /\ UNCHANGED <<sourceAt, drafts, moving, repairs>>
    \/ /\ planRun.item = 0 /\ sourceAt' = (IF to = "approved" THEN "done" ELSE to)
       /\ planRun' = Drafting!NoRun /\ repairs' = 0 /\ UNCHANGED <<drafts, moving>>
    \/ /\ planRun.item # 0
       /\ drafts' = [drafts EXCEPT ![planRun.item] = @ \cup {to}]
       /\ moving' = [draft |-> planRun.item, from |-> "active"]
       /\ UNCHANGED <<sourceAt, planRun, repairs>>

\* The three cases of a lifecycle move.
LEMMA LeaveOutcome == ASSUME NEW to, Drafting!Leave(to) PROVE Leaves(to)
BY DEF Drafting!Leave, Leaves, Drafting!Recover, Drafting!SpecItem

\* The run goes on to another stage, which for a spent draft is the repair stage.
NextStage(s) ==
    /\ s \in Drafting!PlanningNodes \cup {Drafting!RepairStage}
    /\ s \in {"planner", "manager_blueprint"} => planRun.item = 0
    /\ s \in {"contractor_blueprint", "evaluator_blueprint"} => planRun.item # 0
    /\ s = Drafting!RepairStage \/ planRun.item = 0 \/ ~Spent(planRun.item)
    /\ planRun' = [planRun EXCEPT !.stage = s]
    /\ UNCHANGED <<sourceAt, drafts, moving>> /\ repairs' \in 0..2

\* A stage or an effect ends: the run goes on, or its item leaves, settled by what
\* it produced.
Turn ==
    /\ plannerUp /\ moving = Drafting!NoMove /\ planRun.stage \in Drafting!PlanningNodes
    /\ eff' = Drafting!NoEffect /\ split' \in {split, TRUE}
    /\ UNCHANGED <<manifest, doc, packets, tasks, promotions, plannerUp, crashes>>
    /\ \/ \E s \in Drafting!PlanningNodes \cup {Drafting!RepairStage} : NextStage(s)
       \/ /\ Leaves("approved")
          /\ planRun.item = 0 => split' \/ (manifest /\ \A d \in Drafting!Drafts : drafts[d] # {})
          /\ planRun.item # 0 => \E p \in promotions : p.draft = planRun.item
       \/ Leaves("blocked")

\* The spec settles, done only with its manifest and its drafts, ...
SpecSettles ==
    /\ planRun.item = 0 /\ planRun' = Drafting!NoRun /\ repairs' = 0
    /\ UNCHANGED <<drafts, moving>>
    /\ \/ sourceAt' = "blocked"
       \/ /\ sourceAt' = "done"
          /\ split' \/ (manifest /\ \A d \in Drafting!Drafts : drafts[d] # {})

\* ... or a draft begins to, approved only with its promotion.
DraftSettles ==
    /\ planRun.item # 0 /\ moving' = [draft |-> planRun.item, from |-> "active"]
    /\ UNCHANGED <<sourceAt, planRun, repairs>>
    /\ \E to \in Settled :
         /\ drafts' = [drafts EXCEPT ![planRun.item] = @ \cup {to}]
         /\ to = "approved" => \E p \in promotions : p.draft = planRun.item

\* Three outcomes of a turn, the first with the stage that is next.
LEMMA TurnOutcome ==
  ASSUME DraftingInv, Turn
  PROVE  \/ \E s \in Drafting!PlanningNodes \cup {Drafting!RepairStage} : NextStage(s)
         \/ SpecSettles
         \/ DraftSettles
<1>1. CASE \E s \in Drafting!PlanningNodes \cup {Drafting!RepairStage} : NextStage(s)
  BY <1>1
<1>2. ASSUME NEW to \in Settled, Leaves(to),
             to = "approved" =>
               /\ planRun.item = 0 =>
                    split' \/ (manifest /\ \A d \in Drafting!Drafts : drafts[d] # {})
               /\ planRun.item # 0 => \E p \in promotions : p.draft = planRun.item
      PROVE  NextStage(Drafting!RepairStage) \/ SpecSettles \/ DraftSettles
  <2>1. repairs \in 0..2
    BY DEF DraftingInv, DraftingTyped
  <2>2. CASE planRun' = [planRun EXCEPT !.stage = Drafting!RepairStage]
             /\ UNCHANGED <<sourceAt, drafts, moving, repairs>>
    BY <2>1, <2>2 DEF NextStage, Drafting!RepairStage
  <2>3. CASE planRun.item = 0 /\ sourceAt' = (IF to = "approved" THEN "done" ELSE to)
             /\ planRun' = Drafting!NoRun /\ repairs' = 0 /\ UNCHANGED <<drafts, moving>>
    BY <1>2, <2>3 DEF Settled, SpecSettles
  <2>4. CASE /\ planRun.item # 0
             /\ drafts' = [drafts EXCEPT ![planRun.item] = @ \cup {to}]
             /\ moving' = [draft |-> planRun.item, from |-> "active"]
             /\ UNCHANGED <<sourceAt, planRun, repairs>>
    BY <1>2, <2>4 DEF DraftSettles
  <2>5. QED
    BY <1>2, <2>2, <2>3, <2>4 DEF Leaves
<1>3. Drafting!RepairStage \in Drafting!PlanningNodes \cup {Drafting!RepairStage}
  OBVIOUS
<1>4. QED
  BY <1>1, <1>2, <1>3 DEF Turn, Settled

\* A turn keeps the invariant.
LEMMA TurnKeeps == ASSUME DraftingInv, Turn PROVE DraftingInv'
<1> DEFINE i == planRun.item
<1>1. /\ plannerUp /\ moving = Drafting!NoMove /\ planRun.stage \in Drafting!PlanningNodes
      /\ eff' = Drafting!NoEffect /\ split' \in {split, TRUE}
      /\ UNCHANGED <<manifest, doc, packets, tasks, promotions, plannerUp, crashes>>
  BY DEF Turn
<1>2. /\ Drafting!RepairStage \notin Drafting!PlanningNodes
      /\ "none" \notin Drafting!PlanningNodes \cup {Drafting!RepairStage}
  BY DEF Drafting!PlanningNodes, Drafting!RepairStage
<1>3. eff' \in [handler : DOMAIN Drafting!PreClasses \cup {"none"}, todo : Seq(Ops),
                made : SUBSET Ops, fate : {"none", "complete", "route"}]
  BY <1>1 DEF Drafting!NoEffect
<1>4. EffectShape'
  BY <1>1 DEF EffectShape, Drafting!NoEffect
<1>5. split' \in BOOLEAN /\ manifest' \in BOOLEAN /\ plannerUp' \in BOOLEAN
  BY <1>1 DEF DraftingInv, DraftingTyped
<1>6. \A d : HasTask(d)' <=> HasTask(d)
  BY <1>1 DEF HasTask
<1>11. split => split'
  BY <1>1 DEF DraftingInv, DraftingTyped
<1>7. CASE \E st \in Drafting!PlanningNodes \cup {Drafting!RepairStage} : NextStage(st)
  <2>1. PICK st \in Drafting!PlanningNodes \cup {Drafting!RepairStage} : NextStage(st)
    BY <1>7
  <2>2. /\ planRun' = [planRun EXCEPT !.stage = st]
        /\ UNCHANGED <<sourceAt, drafts, moving>> /\ repairs' \in 0..2
    BY <2>1 DEF NextStage
  <2>3. planRun'.item = i /\ planRun'.stage = st
        /\ planRun' \in [item : Drafting!Drafts \cup {0},
                         stage : Drafting!PlanningNodes \cup {Drafting!RepairStage, "none"}]
    BY <2>2 DEF DraftingInv, DraftingTyped
  <2>4. DraftingTyped'
    BY <2>2, <2>3, <1>1, <1>3, <1>5 DEF DraftingInv, DraftingTyped
  <2>5. RunShape'
    BY <2>1, <2>2, <2>3, <1>1, <1>2 DEF NextStage, DraftingInv, RunShape, Drafting!NoMove
  <2>6. SpentStays'
    <3>1. \A d \in Drafting!Drafts : Spent(d)' <=> Spent(d)
      BY <2>2, <1>6 DEF Spent
    <3>2. \A d \in Drafting!Drafts : d # 0
      BY DEF Drafting!Drafts
    <3>3. st = Drafting!RepairStage \/ i = 0 \/ ~Spent(i)
      BY <2>1 DEF NextStage
    <3>4. st = Drafting!RepairStage => Finishing'
      BY <2>3 DEF Finishing
    <3>5. QED
      BY <2>2, <2>3, <3>1, <3>2, <3>3, <3>4 DEF DraftingInv, SpentStays
  <2>7. TasksInOrder'
    BY <2>2, <2>3, <1>1, <1>6 DEF DraftingInv, TasksInOrder
  <2>8. Backed'
    BY <2>2, <1>1, <1>11 DEF DraftingInv, Backed
  <2>9. QED
    BY <2>4, <2>5, <2>6, <2>7, <2>8, <1>4 DEF DraftingInv
<1>8. CASE SpecSettles
  <2> USE DEF SpecSettles
  <2>1. planRun' = [item |-> 0, stage |-> "none"]
    BY <1>8 DEF Drafting!NoRun
  <2>2. DraftingTyped'
    BY <2>1, <1>1, <1>3, <1>5, <1>8 DEF DraftingInv, DraftingTyped
  <2>3. RunShape'
    BY <2>1, <1>1, <1>8 DEF RunShape, Drafting!NoMove
  <2>4. SpentStays'
    <3>1. \A d \in Drafting!Drafts : (Spent(d)' <=> Spent(d)) /\ d # 0
      BY <1>8, <1>6 DEF Spent, Drafting!Drafts
    <3>2. QED
      BY <2>1, <3>1, <1>8 DEF DraftingInv, SpentStays
  <2>5. TasksInOrder'
    BY <2>1, <1>1, <1>6, <1>8 DEF DraftingInv, TasksInOrder
  <2>6. Backed'
    BY <1>1, <1>8 DEF DraftingInv, Backed
  <2>7. QED
    BY <2>2, <2>3, <2>4, <2>5, <2>6, <1>4 DEF DraftingInv
<1>9. CASE DraftSettles
  <2> USE DEF DraftSettles
  <2>1. PICK to \in Settled :
                /\ drafts' = [drafts EXCEPT ![i] = @ \cup {to}]
                /\ to = "approved" => \E p \in promotions : p.draft = i
    BY <1>9
  <2>2. i \in Drafting!Drafts /\ drafts \in [Drafting!Drafts -> SUBSET DraftDirs]
    BY <1>9 DEF DraftingInv, DraftingTyped
  <2>3. /\ drafts' \in [Drafting!Drafts -> SUBSET DraftDirs]
        /\ drafts'[i] = drafts[i] \cup {to}
        /\ \A d \in Drafting!Drafts \ {i} : drafts'[d] = drafts[d]
    BY <2>1, <2>2 DEF Settled, DraftDirs
  <2>4. DraftingTyped'
    BY <2>2, <2>3, <1>1, <1>3, <1>5, <1>9 DEF DraftingInv, DraftingTyped
  <2>5. "queue" \notin drafts[i] /\ "active" \in drafts[i]
    BY <1>9 DEF DraftingInv, RunShape
  <2>6. RunShape'
    BY <2>3, <2>5, <1>1, <1>9 DEF DraftingInv, RunShape, Settled
  <2>7. SpentStays'
    <3>1. \A d \in Drafting!Drafts \ {i} : Spent(d)' <=> Spent(d)
      BY <2>3, <1>6 DEF Spent
    <3>2. "queue" \notin drafts'[i]
      BY <2>3, <2>5 DEF Settled
    <3>3. QED
      BY <2>2, <2>3, <3>1, <3>2, <1>9 DEF DraftingInv, SpentStays
  <2>8. TasksInOrder'
    <3>1. \A t \in tasks : drafts'[t.draft] # {}
      BY <2>2, <2>3 DEF DraftingInv, DraftingTyped, TasksInOrder
    <3>2. QED
      BY <3>1, <1>1, <1>6, <1>9 DEF DraftingInv, TasksInOrder
  <2>9. Backed'
    <3>1. \A d \in Drafting!Drafts : drafts[d] # {} => drafts'[d] # {}
      BY <2>2, <2>3
    <3>2. \A d \in Drafting!Drafts : "approved" \in drafts'[d] => \E p \in promotions : p.draft = d
      BY <2>1, <2>2, <2>3 DEF DraftingInv, Backed
    <3>3. QED
      BY <3>1, <3>2, <1>1, <1>9, <1>11 DEF DraftingInv, Backed
  <2>10. QED
    BY <2>4, <2>6, <2>7, <2>8, <2>9, <1>4 DEF DraftingInv
<1>10. QED
  BY <1>7, <1>8, <1>9, TurnOutcome

\* A draft whose run goes on, with no task of its approval written, is not spent.
LEMMA Unspent ==
  ASSUME DraftingInv, plannerUp, moving = Drafting!NoMove, planRun.stage # Drafting!RepairStage,
         ~(eff.handler = "evaluator_blueprint" /\ eff.fate = "complete" /\ Len(eff.todo) <= 1)
  PROVE  planRun.item = 0 \/ ~Spent(planRun.item)
BY DEF DraftingInv, DraftingTyped, SpentStays, Finishing, Drafting!NoMove

\* A failed effect turns to the mechanic, to the repair stage or to a block.
LEMMA FailTurns ==
  ASSUME DraftingInv, NEW handler, NEW class, NEW written, NEW missing,
         Drafting!Fail(handler, class, written, missing),
         written = {} => planRun.item = 0 \/ ~Spent(planRun.item)
  PROVE  \/ \E s \in Drafting!PlanningNodes \cup {Drafting!RepairStage} : NextStage(s)
         \/ Leaves("blocked")
<1>1. repairs \in 0..2
  BY DEF DraftingInv, DraftingTyped
<1>2. CASE Drafting!Routed(class, Drafting!Phase(written))
  <2>1. written = {}
    BY <1>2 DEF Drafting!Routed, Drafting!Phase
  <2>2. NextStage("mechanic_blueprint")
    BY <1>1, <1>2, <2>1 DEF Drafting!Fail, NextStage, Drafting!PlanningNodes, Drafting!RepairStage
  <2>3. QED
    BY <2>2 DEF Drafting!PlanningNodes
<1>3. CASE ~Drafting!Routed(class, Drafting!Phase(written)) /\ missing
  <2>1. NextStage(Drafting!RepairStage)
    BY <1>1, <1>3 DEF Drafting!Fail, Drafting!Recover, NextStage, Drafting!RepairStage
  <2>2. QED
    BY <2>1
<1>4. CASE ~Drafting!Routed(class, Drafting!Phase(written)) /\ ~missing
  BY <1>4, LeaveOutcome DEF Drafting!Fail
<1>5. QED
  BY <1>2, <1>3, <1>4

\* The results of the stages that no effect handler takes.
LEMMA StageTurns ==
  ASSUME DraftingInv,
         \/ Drafting!PlannerDone \/ Drafting!PlannerSplits \/ Drafting!PlannerInvalid
         \/ Drafting!StageBlocked \/ Drafting!MechanicDone \/ Drafting!Rejects
         \/ Drafting!ManagerDuplicate
  PROVE  Turn
<1> DEFINE after == Drafting!PlanningNodes \cup {Drafting!RepairStage}
<1>1. /\ plannerUp /\ planRun.stage \in Drafting!PlanningNodes /\ eff = Drafting!NoEffect
      /\ moving = Drafting!NoMove
  BY DEF Drafting!PlannerDone, Drafting!PlannerSplits, Drafting!PlannerInvalid, Drafting!StageBlocked,
         Drafting!MechanicDone, Drafting!Rejects, Drafting!ManagerDuplicate, Drafting!StageRuns
<1>2. planRun.item = 0 \/ ~Spent(planRun.item)
  <2>1. planRun.stage # Drafting!RepairStage /\ eff.handler = "none"
    BY <1>1 DEF Drafting!PlanningNodes, Drafting!RepairStage, Drafting!NoEffect
  <2>2. QED
    BY <1>1, <2>1, Unspent
<1>3. /\ UNCHANGED <<manifest, doc, packets, tasks, promotions, plannerUp, crashes, eff>>
      /\ split' \in {split, TRUE}
  BY DEF Drafting!PlannerDone, Drafting!PlannerSplits, Drafting!PlannerInvalid, Drafting!StageBlocked,
         Drafting!MechanicDone, Drafting!Rejects, Drafting!ManagerDuplicate, Drafting!files
<1>4. repairs \in 0..2
  BY DEF DraftingInv, DraftingTyped
<1>5. planRun.stage \in {"planner", "manager_blueprint"} => planRun.item = 0
  BY DEF DraftingInv, RunShape
<1>6. \/ \E s \in after : NextStage(s)
      \/ /\ Leaves("approved")
         /\ planRun.item = 0 => split' \/ (manifest /\ \A d \in Drafting!Drafts : drafts[d] # {})
         /\ planRun.item # 0 => \E p \in promotions : p.draft = planRun.item
      \/ Leaves("blocked")
  <2>1. CASE Drafting!PlannerDone
    <3>1. NextStage("manager_blueprint")
      BY <2>1, <1>4, <1>5 DEF Drafting!PlannerDone, Drafting!files, NextStage, Drafting!PlanningNodes
    <3>2. QED
      BY <3>1 DEF Drafting!PlanningNodes
  <2>2. CASE Drafting!PlannerSplits
    <3>1. CASE Drafting!Recover /\ UNCHANGED <<sourceAt, split, drafts, moving, repairs>>
      <4>1. NextStage(Drafting!RepairStage)
        BY <3>1, <1>4 DEF Drafting!Recover, NextStage, Drafting!RepairStage
      <4>2. QED
        BY <4>1
    <3>2. CASE Drafting!Leave("approved") /\ split' = TRUE
      BY <2>2, <3>2, <1>5, LeaveOutcome DEF Drafting!PlannerSplits
    <3>3. QED
      BY <2>2, <3>1, <3>2 DEF Drafting!PlannerSplits
  <2>3. CASE Drafting!PlannerInvalid
    BY <2>3, LeaveOutcome DEF Drafting!PlannerInvalid
  <2>4. CASE Drafting!StageBlocked
    <3>1. CASE repairs < Drafting!Threshold
      <4>1. NextStage("mechanic_blueprint")
        BY <2>4, <3>1, <1>2, <1>4
           DEF Drafting!StageBlocked, Drafting!Threshold, NextStage, Drafting!PlanningNodes
      <4>2. QED
        BY <4>1 DEF Drafting!PlanningNodes
    <3>2. CASE ~(repairs < Drafting!Threshold)
      BY <2>4, <3>2, LeaveOutcome DEF Drafting!StageBlocked
    <3>3. QED
      BY <3>1, <3>2
  <2>5. CASE Drafting!MechanicDone
    <3>1. NextStage(Drafting!RepairStage)
      BY <2>5, <1>4 DEF Drafting!MechanicDone, Drafting!files, Drafting!Recover, NextStage,
                        Drafting!RepairStage
    <3>2. QED
      BY <3>1
  <2>6. CASE Drafting!Rejects
    BY <2>6, <1>2, FailTurns DEF Drafting!Rejects
  <2>7. CASE Drafting!ManagerDuplicate
    BY <2>7, <1>2, FailTurns DEF Drafting!ManagerDuplicate
  <2>8. QED
    BY <2>1, <2>2, <2>3, <2>4, <2>5, <2>6, <2>7
<1>7. QED
  BY <1>1, <1>3, <1>6 DEF Turn

\* The ends of an effect: all written, one write failed, or a file gone.
LEMMA EffectTurns ==
  ASSUME DraftingInv, Drafting!WriteFails \/ Drafting!Succeed \/ Drafting!DestinationMissing
  PROVE  Turn
<1> DEFINE after == Drafting!PlanningNodes \cup {Drafting!RepairStage}
<1>1. eff # Drafting!NoEffect
  BY DEF Drafting!WriteFails, Drafting!Succeed, Drafting!DestinationMissing, Drafting!NoEffect
<1>2. /\ plannerUp /\ moving = Drafting!NoMove /\ planRun.stage = eff.handler
      /\ eff.handler \in {"manager_blueprint", "contractor_blueprint", "evaluator_blueprint"}
  BY <1>1 DEF DraftingInv, RunShape, EffectShape, DraftingTyped, Drafting!PreClasses
<1>3. planRun.stage \in Drafting!PlanningNodes /\ planRun.stage # Drafting!RepairStage
  BY <1>2 DEF Drafting!PlanningNodes, Drafting!RepairStage
<1>4. /\ UNCHANGED <<manifest, doc, packets, tasks, promotions, plannerUp, crashes, split>>
      /\ eff' = Drafting!NoEffect
  BY DEF Drafting!WriteFails, Drafting!Succeed, Drafting!DestinationMissing, Drafting!files
<1>5. repairs \in 0..2
  BY DEF DraftingInv, DraftingTyped
<1>6. \/ \E s \in after : NextStage(s)
      \/ /\ Leaves("approved")
         /\ planRun.item = 0 => split' \/ (manifest /\ \A d \in Drafting!Drafts : drafts[d] # {})
         /\ planRun.item # 0 => \E p \in promotions : p.draft = planRun.item
      \/ Leaves("blocked")
  <2>1. CASE Drafting!WriteFails
    <3>1. eff.made = {} => planRun.item = 0 \/ ~Spent(planRun.item)
      <4>1. ASSUME eff.made = {}
            PROVE  ~(eff.handler = "evaluator_blueprint" /\ eff.fate = "complete" /\ Len(eff.todo) <= 1)
        BY <4>1 DEF DraftingInv, DraftingTyped, EffectShape, Approval
      <4>2. QED
        BY <4>1, <1>2, <1>3, Unspent
    <3>2. PICK c : Drafting!Fail(eff.handler, c, eff.made, Drafting!Gone(eff.made))
      BY <2>1 DEF Drafting!WriteFails
    <3>3. QED
      BY <3>1, <3>2, FailTurns
  <2>2. CASE Drafting!Succeed /\ eff.fate = "complete"
    <3>1. Leaves("approved") /\ eff.todo = <<>>
      BY <2>2, LeaveOutcome DEF Drafting!Succeed
    <3>2. CASE eff.handler = "manager_blueprint"
      <4>1. manifest /\ \A d \in Drafting!Drafts : drafts[d] # {}
        BY <3>1, <3>2, DraftingAssumption DEF DraftingInv, EffectShape, ManagerLeft, Drafting!Drafts
      <4>2. planRun.item = 0
        BY <1>2, <3>2 DEF DraftingInv, RunShape
      <4>3. QED
        BY <3>1, <4>1, <4>2
    <3>3. CASE eff.handler # "manager_blueprint"
      <4>1. eff.handler = "evaluator_blueprint"
        BY <1>2, <2>2, <3>3 DEF DraftingInv, EffectShape
      <4>2. planRun.item # 0
        BY <1>2, <4>1 DEF DraftingInv, RunShape
      <4>3. \E p \in promotions : p.draft = planRun.item
        BY <2>2, <3>1, <4>1 DEF DraftingInv, EffectShape, Approval
      <4>4. QED
        BY <3>1, <4>2, <4>3
    <3>4. QED
      BY <3>2, <3>3
  <2>3. CASE Drafting!Succeed /\ eff.fate # "complete"
    <3>1. \E s \in {"evaluator_blueprint", "contractor_blueprint"} :
             planRun' = [planRun EXCEPT !.stage = s]
      BY <2>3 DEF Drafting!Succeed
    <3>2. eff.handler # "manager_blueprint" /\ planRun.item # 0
      BY <1>2, <2>3 DEF DraftingInv, EffectShape, RunShape
    <3>3. ~Spent(planRun.item)
      BY <1>2, <1>3, <2>3, <3>2, Unspent
    <3>4. UNCHANGED <<sourceAt, drafts, moving, repairs>>
      BY <2>3 DEF Drafting!Succeed
    <3>5. QED
      BY <3>1, <3>2, <3>3, <3>4, <1>5 DEF NextStage, Drafting!PlanningNodes, Drafting!RepairStage
  <2>4. CASE Drafting!DestinationMissing
    <3>1. NextStage(Drafting!RepairStage)
      BY <2>4, <1>5 DEF Drafting!DestinationMissing, Drafting!files, Drafting!Recover, NextStage,
                        Drafting!RepairStage
    <3>2. QED
      BY <3>1
  <2>5. QED
    BY <2>1, <2>2, <2>3, <2>4
<1>7. QED
  BY <1>2, <1>3, <1>4, <1>6 DEF Turn

\* A claim writes the active copy of a draft whose predecessors are approved.
LEMMA ClaimKeeps ==
  ASSUME DraftingInv, Drafting!ClaimSpec \/ Drafting!ClaimDraft PROVE DraftingInv'
<1>1. /\ plannerUp /\ planRun = Drafting!NoRun /\ eff = Drafting!NoEffect
      /\ moving = Drafting!NoMove
      /\ UNCHANGED <<split, manifest, doc, packets, tasks, promotions, eff, plannerUp, crashes>>
  BY DEF Drafting!ClaimSpec, Drafting!ClaimDraft, Drafting!Claimable, Drafting!Idle
<1>2. \A d : HasTask(d)' <=> HasTask(d)
  BY <1>1 DEF HasTask
<1>3. EffectShape'
  BY <1>1 DEF EffectShape, Drafting!NoEffect
<1>4. CASE Drafting!ClaimSpec
  <2>1. /\ sourceAt' = "active" /\ planRun' = [item |-> 0, stage |-> "planner"]
        /\ repairs' = 0 /\ UNCHANGED <<drafts, moving>>
    BY <1>4 DEF Drafting!ClaimSpec, Drafting!SpecItem
  <2>2. DraftingTyped'
    BY <1>1, <2>1 DEF DraftingInv, DraftingTyped, Drafting!PlanningNodes
  <2>3. RunShape'
    BY <1>1, <2>1 DEF RunShape, Drafting!NoMove
  <2>4. SpentStays'
    BY <1>1, <1>2, <2>1 DEF DraftingInv, SpentStays, Spent, Drafting!Drafts
  <2>5. TasksInOrder'
    BY <1>1, <1>2, <2>1 DEF DraftingInv, TasksInOrder
  <2>6. Backed'
    BY <1>1, <2>1 DEF DraftingInv, Backed
  <2>7. QED
    BY <1>3, <2>2, <2>3, <2>4, <2>5, <2>6 DEF DraftingInv
<1>5. CASE Drafting!ClaimDraft
  <2>1. PICK d \in Drafting!Eligible :
          /\ drafts' = [drafts EXCEPT ![d] = @ \cup {"active"}]
          /\ moving' = [draft |-> d, from |-> "queue"]
    BY <1>5 DEF Drafting!ClaimDraft
  <2>2. UNCHANGED <<sourceAt, planRun, repairs>>
    BY <1>5 DEF Drafting!ClaimDraft
  <2>3. /\ d \in Drafting!Drafts /\ "queue" \in drafts[d]
        /\ \A e \in 1..(d - 1) : e \in Drafting!Completed
    BY <2>1 DEF Drafting!Eligible, Drafting!At
  <2>4. drafts \in [Drafting!Drafts -> SUBSET DraftDirs]
    BY DEF DraftingInv, DraftingTyped
  <2>5. /\ drafts' \in [Drafting!Drafts -> SUBSET DraftDirs]
        /\ drafts'[d] = drafts[d] \cup {"active"}
        /\ \A e \in Drafting!Drafts \ {d} : drafts'[e] = drafts[e]
    BY <2>1, <2>3, <2>4 DEF DraftDirs
  <2>6. \A e \in 1..(d - 1) : HasTask(e)
    <3>1. SUFFICES ASSUME NEW e \in 1..(d - 1) PROVE HasTask(e)
      BY <3>1
    <3>2. e \in Drafting!Drafts /\ "approved" \in drafts[e]
      BY <2>3, <2>4 DEF Drafting!Completed, Drafting!At, DraftDirs
    <3>3. QED
      BY <3>2 DEF DraftingInv, Backed, HasTask
  <2>7. DraftingTyped'
    BY <1>1, <2>1, <2>2, <2>3, <2>5 DEF DraftingInv, DraftingTyped
  <2>8. RunShape'
    BY <1>1, <2>1, <2>2, <2>3, <2>5 DEF RunShape, Drafting!NoRun
  <2>9. SpentStays'
    <3>1. \A e \in Drafting!Drafts : Spent(e)' <=> Spent(e)
      BY <1>2, <2>5 DEF Spent, Settled
    <3>2. \A e \in Drafting!Drafts : e # 0 /\ planRun' = Drafting!NoRun
      BY <1>1, <2>2 DEF Drafting!Drafts
    <3>3. QED
      BY <2>3, <2>5, <3>1, <3>2 DEF DraftingInv, SpentStays, Drafting!NoRun
  <2>10. TasksInOrder'
    <3>1. \A t \in tasks : drafts'[t.draft] # {}
      BY <2>5 DEF DraftingInv, DraftingTyped, TasksInOrder
    <3>2. QED
      BY <3>1, <1>1, <1>2, <2>1, <2>2, <2>6 DEF DraftingInv, TasksInOrder
  <2>11. Backed'
    <3>1. \A e \in Drafting!Drafts : /\ drafts[e] # {} => drafts'[e] # {}
                                     /\ "approved" \in drafts'[e] => "approved" \in drafts[e]
      BY <2>5
    <3>2. QED
      BY <3>1, <1>1, <2>2 DEF DraftingInv, Backed
  <2>12. QED
    BY <1>3, <2>7, <2>8, <2>9, <2>10, <2>11 DEF DraftingInv
<1>6. QED
  BY <1>4, <1>5

\* The old copy goes and a copy stays; a claim starts its run, a lifecycle move
\* ends it.
LEMMA FinishMoveKeeps == ASSUME DraftingInv, Drafting!FinishMove PROVE DraftingInv'
<1> DEFINE m == moving.draft
<1>1. /\ plannerUp /\ moving # Drafting!NoMove /\ moving' = Drafting!NoMove /\ repairs' = 0
      /\ drafts' = [drafts EXCEPT ![moving.draft] = @ \ {moving.from}]
      /\ UNCHANGED <<sourceAt, split, manifest, doc, packets, tasks, promotions, eff, plannerUp,
                     crashes>>
  BY DEF Drafting!FinishMove
<1>2. m \in Drafting!Drafts /\ moving.from \in {"queue", "active"} /\ eff = Drafting!NoEffect
  BY <1>1 DEF DraftingInv, DraftingTyped, RunShape
<1>3. planRun' = IF moving.from = "queue" THEN [item |-> m, stage |-> "contractor_blueprint"]
                 ELSE [item |-> 0, stage |-> "none"]
  BY DEF Drafting!FinishMove, Drafting!NoRun
<1>4. \A d : HasTask(d)' <=> HasTask(d)
  BY <1>1 DEF HasTask
<1>5. EffectShape'
  BY <1>1, <1>2 DEF EffectShape, Drafting!NoEffect
<1>6. drafts \in [Drafting!Drafts -> SUBSET DraftDirs]
  BY DEF DraftingInv, DraftingTyped
<1>7. /\ drafts' \in [Drafting!Drafts -> SUBSET DraftDirs]
      /\ drafts'[m] = drafts[m] \ {moving.from}
      /\ \A e \in Drafting!Drafts \ {m} : drafts'[e] = drafts[e]
  BY <1>1, <1>2, <1>6
<1>8. drafts'[m] # {}
  BY <1>2, <1>7 DEF DraftingInv, RunShape, Settled
<1>9. \A e \in Drafting!Drafts : /\ drafts[e] # {} => drafts'[e] # {}
                                 /\ "approved" \in drafts'[e] => "approved" \in drafts[e]
                                 /\ Spent(e)' <=> Spent(e)
  BY <1>2, <1>4, <1>7, <1>8 DEF Spent, Settled
<1>10. DraftingTyped'
  <2>1. planRun' \in [item : Drafting!Drafts \cup {0},
                      stage : Drafting!PlanningNodes \cup {Drafting!RepairStage, "none"}]
    BY <1>2, <1>3 DEF Drafting!PlanningNodes
  <2>2. QED
    BY <2>1, <1>1, <1>7 DEF DraftingInv, DraftingTyped
<1>11. RunShape'
  BY <1>1, <1>2, <1>3, <1>7 DEF DraftingInv, RunShape, Drafting!NoMove, Drafting!Drafts
<1>12. SpentStays'
  <2>1. \A d \in Drafting!Drafts : d # 0
    BY DEF Drafting!Drafts
  <2>2. moving.from = "queue" => ~Spent(m)
    <3>1. moving.from = "queue" => "queue" \in drafts[m]
      BY DEF DraftingInv, RunShape
    <3>2. QED
      BY <3>1, <1>2 DEF DraftingInv, SpentStays
  <2>3. QED
    BY <2>1, <2>2, <1>2, <1>3, <1>7, <1>9 DEF DraftingInv, SpentStays
<1>13. TasksInOrder'
  <2>1. \A t \in tasks : drafts'[t.draft] # {}
    BY <1>9 DEF DraftingInv, DraftingTyped, TasksInOrder
  <2>2. QED
    BY <2>1, <1>1, <1>3, <1>4 DEF DraftingInv, TasksInOrder, Drafting!NoMove
<1>14. Backed'
  BY <1>1, <1>9 DEF DraftingInv, Backed
<1>15. QED
  BY <1>5, <1>10, <1>11, <1>12, <1>13, <1>14 DEF DraftingInv

\* The run is given up, the daemon ends or starts again, a task is done or gone.
LEMMA GivesUpKeeps ==
  ASSUME DraftingInv, Drafting!Disown \/ Drafting!ClearStale PROVE DraftingInv'
<1>1. /\ planRun' = [item |-> 0, stage |-> "none"] /\ repairs' = 0
      /\ eff = Drafting!NoEffect /\ moving = Drafting!NoMove
      /\ sourceAt' \in {sourceAt, "queue"}
      /\ UNCHANGED <<split, manifest, drafts, doc, packets, tasks, promotions, eff, moving, plannerUp,
                     crashes>>
  BY DEF Drafting!Disown, Drafting!ClearStale, Drafting!NoRun
<1>2. \A d : HasTask(d)' <=> HasTask(d)
  BY <1>1 DEF HasTask
<1>3. DraftingTyped'
  BY <1>1 DEF DraftingInv, DraftingTyped
<1>4. RunShape'
  BY <1>1 DEF RunShape, Drafting!NoMove
<1>5. EffectShape'
  BY <1>1 DEF EffectShape, Drafting!NoEffect
<1>6. SpentStays'
  BY <1>1, <1>2 DEF DraftingInv, SpentStays, Spent, Drafting!Drafts
<1>7. TasksInOrder'
  BY <1>1, <1>2 DEF DraftingInv, TasksInOrder
<1>8. Backed'
  BY <1>1 DEF DraftingInv, Backed
<1>9. QED
  BY <1>3, <1>4, <1>5, <1>6, <1>7, <1>8 DEF DraftingInv

\* A daemon that ends drops its effect and its move; the next one repairs the run.
LEMMA DaemonEndsStartsKeeps ==
  ASSUME DraftingInv, Drafting!LaunchFails \/ Drafting!Crash \/ Drafting!Restart PROVE DraftingInv'
<1>1. UNCHANGED <<sourceAt, split, manifest, drafts, doc, packets, tasks, promotions, repairs>>
  BY DEF Drafting!LaunchFails, Drafting!Crash, Drafting!Restart, Drafting!files
<1>2. \A d : (HasTask(d)' <=> HasTask(d)) /\ (Spent(d)' <=> Spent(d))
  BY <1>1 DEF HasTask, Spent
<1>3. /\ plannerUp' \in BOOLEAN /\ crashes' \in 0..MaxCrashes
      /\ moving' = Drafting!NoMove /\ eff' = Drafting!NoEffect
  <2>1. CASE Drafting!LaunchFails
    <3>1. eff = Drafting!NoEffect
      BY <2>1 DEF Drafting!LaunchFails, DraftingInv, DraftingTyped, RunShape, EffectShape,
                  Drafting!PreClasses, Drafting!RepairStage
    <3>2. moving = Drafting!NoMove
      BY <2>1 DEF Drafting!LaunchFails, DraftingInv, DraftingTyped, RunShape, Drafting!PlanningNodes,
                  Drafting!NoRun, Drafting!RepairStage
    <3>3. QED
      BY <2>1, <3>1, <3>2 DEF Drafting!LaunchFails, DraftingInv, DraftingTyped
  <2>2. CASE Drafting!Crash
    <3>1. crashes' \in 0..MaxCrashes
      BY <2>2, DraftingAssumption DEF Drafting!Crash, DraftingInv, DraftingTyped
    <3>2. QED
      BY <2>2, <3>1 DEF Drafting!Crash
  <2>3. CASE Drafting!Restart
    <3>1. eff = Drafting!NoEffect /\ moving = Drafting!NoMove
      BY <2>3 DEF Drafting!Restart, DraftingInv, RunShape
    <3>2. QED
      BY <2>3, <3>1 DEF Drafting!Restart, DraftingInv, DraftingTyped
  <2>4. QED
    BY <2>1, <2>2, <2>3
<1>4. \/ planRun' = planRun /\ ~plannerUp'
      \/ planRun' = planRun /\ planRun = Drafting!NoRun
      \/ planRun' = [planRun EXCEPT !.stage = Drafting!RepairStage] /\ planRun # Drafting!NoRun
  BY DEF Drafting!LaunchFails, Drafting!Crash, Drafting!Restart
<1>5. /\ planRun' \in [item : Drafting!Drafts \cup {0},
                       stage : Drafting!PlanningNodes \cup {Drafting!RepairStage, "none"}]
      /\ planRun'.item = planRun.item
      /\ planRun'.stage = planRun.stage \/ planRun'.stage = Drafting!RepairStage
  BY <1>4 DEF DraftingInv, DraftingTyped
<1>6. DraftingTyped'
  <2>1. eff' \in [handler : DOMAIN Drafting!PreClasses \cup {"none"}, todo : Seq(Ops),
                  made : SUBSET Ops, fate : {"none", "complete", "route"}]
    BY <1>3 DEF Drafting!NoEffect
  <2>2. QED
    BY <2>1, <1>1, <1>3, <1>5 DEF DraftingInv, DraftingTyped
<1>7. RunShape'
  BY <1>1, <1>3, <1>5 DEF DraftingInv, RunShape, Drafting!NoMove, Drafting!RepairStage
<1>8. EffectShape'
  BY <1>3 DEF EffectShape, Drafting!NoEffect
<1>9. SpentStays'
  <2>1. planRun'.item # 0 => ~plannerUp' \/ planRun'.stage = Drafting!RepairStage
    BY <1>4, <1>5 DEF DraftingInv, DraftingTyped, Drafting!NoRun
  <2>2. QED
    BY <2>1, <1>1, <1>2, <1>5 DEF DraftingInv, SpentStays, Finishing, Drafting!Drafts
<1>10. TasksInOrder'
  BY <1>1, <1>2, <1>3, <1>5 DEF DraftingInv, TasksInOrder, Drafting!NoMove
<1>11. Backed'
  BY <1>1 DEF DraftingInv, Backed
<1>12. QED
  BY <1>6, <1>7, <1>8, <1>9, <1>10, <1>11 DEF DraftingInv

\* A task that leaves keeps its id and its draft.
LEMMA TaskLeavesKeeps == ASSUME DraftingInv, Drafting!TaskLeaves PROVE DraftingInv'
<1>1. PICK t \in tasks, at \in {"done", "gone"} : tasks' = (tasks \ {t}) \cup {[t EXCEPT !.at = at]}
  BY DEF Drafting!TaskLeaves
<1>2. UNCHANGED <<sourceAt, split, manifest, drafts, doc, packets, promotions, planRun, repairs, eff,
                  moving, plannerUp, crashes>>
  BY DEF Drafting!TaskLeaves
<1>3. t \in [id : TaskIds, draft : Drafting!Drafts, at : {"open", "done", "gone"}]
  BY DEF DraftingInv, DraftingTyped
<1> DEFINE u == [t EXCEPT !.at = at]
<1>4. /\ u \in [id : TaskIds, draft : Drafting!Drafts, at : {"open", "done", "gone"}]
      /\ u.id = t.id /\ u.draft = t.draft
  BY <1>3
<1> HIDE DEF u
<1>5. tasks' = (tasks \ {t}) \cup {u}
  BY <1>1 DEF u
<1>6. \A d : (HasTask(d)' <=> HasTask(d)) /\ (Spent(d)' <=> Spent(d))
  <2>1. \A d : HasTask(d)' <=> HasTask(d)
    BY <1>4, <1>5 DEF HasTask
  <2>2. QED
    BY <2>1, <1>2 DEF Spent
<1>7. DraftingTyped'
  BY <1>2, <1>4, <1>5 DEF DraftingInv, DraftingTyped
<1>8. RunShape'
  BY <1>2 DEF DraftingInv, RunShape
<1>9. EffectShape'
  BY <1>2, <1>6 DEF DraftingInv, EffectShape, Approval, ManagerLeft
<1>10. SpentStays'
  BY <1>2, <1>6 DEF DraftingInv, SpentStays, Finishing
<1>11. TasksInOrder'
  <2>1. \A x, y \in tasks' : x.draft = y.draft \/ x.id = y.id => x = y
    BY <1>4, <1>5 DEF DraftingInv, TasksInOrder
  <2>2. \A x \in tasks' : drafts[x.draft] # {} /\ \A e \in 1..(x.draft - 1) : HasTask(e)
    BY <1>4, <1>5 DEF DraftingInv, TasksInOrder
  <2>3. QED
    BY <2>1, <2>2, <1>2, <1>6 DEF DraftingInv, TasksInOrder
<1>12. Backed'
  <2>1. \A p \in promotions : \E x \in tasks' : x.id = p.task /\ x.draft = p.draft
    BY <1>4, <1>5 DEF DraftingInv, Backed
  <2>2. QED
    BY <2>1, <1>2 DEF DraftingInv, Backed
<1>13. QED
  BY <1>7, <1>8, <1>9, <1>10, <1>11, <1>12 DEF DraftingInv

\* A handler begins: it plans its writes and has made none.
LEMMA BeginKeeps ==
  ASSUME DraftingInv,
         \/ Drafting!ManagerDone \/ Drafting!CandidateReady \/ Drafting!Approved
         \/ Drafting!RejectedPacket
  PROVE  DraftingInv'
<1> DEFINE i == planRun.item
<1>1. /\ plannerUp /\ planRun.stage \in Drafting!PlanningNodes /\ eff = Drafting!NoEffect
      /\ moving = Drafting!NoMove
      /\ UNCHANGED <<sourceAt, split, manifest, drafts, doc, packets, tasks, promotions, planRun,
                     repairs, moving, plannerUp, crashes>>
  BY DEF Drafting!ManagerDone, Drafting!CandidateReady, Drafting!Approved, Drafting!RejectedPacket,
         Drafting!StageRuns, Drafting!files
<1>2. i = 0 \/ ~Spent(i)
  <2>1. planRun.stage # Drafting!RepairStage /\ eff.handler = "none"
    BY <1>1 DEF Drafting!PlanningNodes, Drafting!RepairStage, Drafting!NoEffect
  <2>2. QED
    BY <1>1, <2>1, Unspent
<1>3. \A d : (HasTask(d)' <=> HasTask(d)) /\ (Spent(d)' <=> Spent(d))
  BY <1>1 DEF HasTask, Spent
<1>4. i \in Drafting!Drafts \cup {0} /\ i \in Nat
  BY DraftingAssumption DEF DraftingInv, DraftingTyped, Drafting!Drafts
<1>5. \A e \in Drafting!Drafts : Drafting!HasCandidate(e) => doc[e].rev < MaxRevision
  BY DraftingAssumption DEF Drafting!HasCandidate, DraftingInv, DraftingTyped, Drafting!DraftDocs
<1>6. /\ eff' \in [handler : DOMAIN Drafting!PreClasses \cup {"none"}, todo : Seq(Ops),
                   made : SUBSET Ops, fate : {"none", "complete", "route"}]
      /\ eff'.handler = planRun.stage /\ EffectShape'
  <2>1. CASE Drafting!ManagerDone
    <3>1. eff' = [handler |-> "manager_blueprint", todo |-> Drafting!ManagerWrites, made |-> {},
                  fate |-> "complete"]
      BY <2>1 DEF Drafting!ManagerDone, Drafting!Begin
    <3>2. /\ Drafting!ManagerWrites \in Seq(Ops) /\ Len(Drafting!ManagerWrites) = DraftCount + 1
          /\ \A k \in 1..(DraftCount + 1) :
               Drafting!ManagerWrites[k] = IF k = 1 THEN Op("manifest", 1) ELSE Op("draft", k - 1)
      <4>1. \A k \in 1..(DraftCount + 1) :
              (IF k = 1 THEN Op("manifest", 1) ELSE Op("draft", k - 1)) \in Ops
        BY DraftingAssumption DEF Op, Drafting!Op, Ops
      <4>2. Drafting!ManagerWrites =
              [k \in 1..(DraftCount + 1) |-> IF k = 1 THEN Op("manifest", 1) ELSE Op("draft", k - 1)]
        BY DEF Drafting!ManagerWrites, Op
      <4>3. QED
        BY <4>1, <4>2, DraftingAssumption
    <3>3. ManagerLeft'
      BY <3>1, <3>2, DraftingAssumption DEF ManagerLeft, Drafting!Drafts
    <3>4. QED
      BY <2>1, <3>1, <3>2, <3>3 DEF Drafting!ManagerDone, EffectShape, Drafting!PreClasses
  <2>2. CASE Drafting!CandidateReady
    <3>1. eff' = [handler |-> "contractor_blueprint",
                  todo |-> <<Op("packet", i), Op("markdown", i), Op("latest", i)>>, made |-> {},
                  fate |-> "route"]
      BY <2>2 DEF Drafting!CandidateReady, Drafting!Begin, Op
    <3>2. <<Op("packet", i), Op("markdown", i), Op("latest", i)>> \in Seq(Ops)
      BY <1>4 DEF Op, Drafting!Op, Ops
    <3>3. QED
      BY <1>1, <2>2, <3>1, <3>2 DEF Drafting!CandidateReady, EffectShape, CandidateLeft,
                                    Drafting!PreClasses
  <2>3. CASE Drafting!Approved
    <3>1. eff' = [handler |-> "evaluator_blueprint",
                  todo |-> <<Op("evaluation", i), Op("approve", i), Op("task", i), Op("promotion", i)>>,
                  made |-> {}, fate |-> "complete"]
      BY <2>3 DEF Drafting!Approved, Drafting!Begin, Drafting!ApprovalWrites, Op
    <3>2. <<Op("evaluation", i), Op("approve", i), Op("task", i), Op("promotion", i)>> \in Seq(Ops)
      BY <1>4 DEF Op, Drafting!Op, Ops
    <3>3. doc[i].rev < MaxRevision /\ planRun.stage = "evaluator_blueprint"
      BY <1>4, <1>5, <2>3 DEF Drafting!Approved, DraftingInv, RunShape
    <3>4. QED
      BY <1>1, <3>1, <3>2, <3>3 DEF EffectShape, ApprovalLeft, Approval, Drafting!PreClasses
  <2>4. CASE Drafting!RejectedPacket
    <3>1. eff' = [handler |-> "evaluator_blueprint",
                  todo |-> <<Op("evaluation", i), Op("reject", i), Op("critique", i), Op("revise", i)>>,
                  made |-> {}, fate |-> "route"]
      BY <2>4 DEF Drafting!RejectedPacket, Drafting!Begin, Op
    <3>2. <<Op("evaluation", i), Op("reject", i), Op("critique", i), Op("revise", i)>> \in Seq(Ops)
      BY <1>4 DEF Op, Drafting!Op, Ops
    <3>3. doc[i].rev < MaxRevision /\ planRun.stage = "evaluator_blueprint"
      BY <1>4, <1>5, <2>4 DEF Drafting!RejectedPacket, DraftingInv, RunShape
    <3>4. QED
      BY <1>1, <3>1, <3>2, <3>3 DEF EffectShape, RejectionLeft, Drafting!PreClasses
  <2>5. QED
    BY <2>1, <2>2, <2>3, <2>4
<1>7. DraftingTyped'
  BY <1>1, <1>6 DEF DraftingInv, DraftingTyped
<1>8. RunShape'
  BY <1>1, <1>6 DEF DraftingInv, RunShape
<1>9. SpentStays'
  BY <1>1, <1>2, <1>3 DEF DraftingInv, SpentStays, Drafting!Drafts
<1>10. TasksInOrder'
  BY <1>1, <1>3 DEF DraftingInv, TasksInOrder
<1>11. Backed'
  BY <1>1 DEF DraftingInv, Backed
<1>12. QED
  BY <1>6, <1>7, <1>8, <1>9, <1>10, <1>11 DEF DraftingInv

\* What any write, or a skipped one, does to the effect at hand.
LEMMA WriteOfEffect ==
  ASSUME DraftingInv, Drafting!Write \/ Drafting!Skip
  PROVE  /\ plannerUp /\ moving = Drafting!NoMove /\ planRun.stage = eff.handler
         /\ eff.handler \in {"manager_blueprint", "contractor_blueprint", "evaluator_blueprint"}
         /\ eff.todo # <<>> /\ Head(eff.todo) \in Ops
         /\ eff' \in [handler : DOMAIN Drafting!PreClasses \cup {"none"}, todo : Seq(Ops),
                      made : SUBSET Ops, fate : {"none", "complete", "route"}]
         /\ eff'.handler = eff.handler /\ eff'.fate = eff.fate /\ eff'.todo = Tail(eff.todo)
         /\ eff'.made = eff.made \/ eff'.made = eff.made \cup {Head(eff.todo)}
         /\ Drafting!Write => eff'.made # {}
         /\ UNCHANGED <<sourceAt, split, planRun, repairs, moving, plannerUp, crashes>>
<1>1. /\ eff.todo # <<>>
      /\ UNCHANGED <<sourceAt, split, planRun, repairs, moving, plannerUp, crashes>>
  BY DEF Drafting!Write, Drafting!Skip, Drafting!files
<1>2. eff # Drafting!NoEffect
  BY <1>1 DEF Drafting!NoEffect
<1>3. /\ plannerUp /\ moving = Drafting!NoMove /\ planRun.stage = eff.handler
      /\ eff.handler \in {"manager_blueprint", "contractor_blueprint", "evaluator_blueprint"}
  BY <1>2 DEF DraftingInv, RunShape, EffectShape, DraftingTyped, Drafting!PreClasses
<1>4. eff \in [handler : DOMAIN Drafting!PreClasses \cup {"none"}, todo : Seq(Ops),
               made : SUBSET Ops, fate : {"none", "complete", "route"}]
  BY DEF DraftingInv, DraftingTyped
<1>5. Head(eff.todo) \in Ops /\ Tail(eff.todo) \in Seq(Ops)
  BY <1>1, <1>4
<1>6. CASE Drafting!Write
  <2>1. eff' = [eff EXCEPT !.todo = Tail(@), !.made = @ \cup {Head(eff.todo)}]
    BY <1>6 DEF Drafting!Write
  <2>2. QED
    BY <1>1, <1>3, <1>4, <1>5, <2>1
<1>7. CASE Drafting!Skip /\ ~Drafting!Write
  <2>1. eff' = [eff EXCEPT !.todo = Tail(@)]
    BY <1>7 DEF Drafting!Skip
  <2>2. QED
    BY <1>1, <1>3, <1>4, <1>5, <1>7, <2>1
<1>8. QED
  BY <1>6, <1>7

\* The manager's writes: what is not on file is filed, and a filed draft is queued.
LEMMA ManagerWriteKeeps ==
  ASSUME DraftingInv, Drafting!Write \/ Drafting!Skip, eff.handler = "manager_blueprint"
  PROVE  DraftingInv'
<1> DEFINE n == Len(eff.todo)
           k == DraftCount - n + 1
           s == Head(eff.todo)
<1>1. /\ plannerUp /\ moving = Drafting!NoMove /\ planRun.stage = eff.handler
      /\ eff.todo # <<>>
      /\ eff' \in [handler : DOMAIN Drafting!PreClasses \cup {"none"}, todo : Seq(Ops),
                   made : SUBSET Ops, fate : {"none", "complete", "route"}]
      /\ eff'.handler = eff.handler /\ eff'.fate = eff.fate /\ eff'.todo = Tail(eff.todo)
      /\ UNCHANGED <<sourceAt, split, planRun, repairs, moving, plannerUp, crashes>>
  BY WriteOfEffect
<1>2. eff.fate = "complete" /\ ManagerLeft /\ planRun.item = 0
  BY <1>1 DEF DraftingInv, EffectShape, RunShape
<1>3. eff.todo \in Seq(Ops)
  BY DEF DraftingInv, DraftingTyped
<1>4. n \in 1..(DraftCount + 1) /\ k \in 0..DraftCount
  BY <1>1, <1>2, <1>3, DraftingAssumption DEF ManagerLeft
<1>5. s = IF k = 0 THEN Op("manifest", 1) ELSE Op("draft", k)
  BY <1>1, <1>2, <1>3, <1>4, DraftingAssumption DEF ManagerLeft
<1>6. drafts \in [Drafting!Drafts -> SUBSET DraftDirs]
  BY DEF DraftingInv, DraftingTyped
<1>7. /\ UNCHANGED <<doc, packets, tasks, promotions>>
      /\ \/ /\ k = 0 /\ manifest' = TRUE /\ drafts' = drafts
         \/ /\ k # 0 /\ drafts[k] = {} /\ drafts' = [drafts EXCEPT ![k] = {"queue"}]
            /\ manifest' = manifest
         \/ k # 0 /\ drafts[k] # {} /\ drafts' = drafts /\ manifest' = manifest
  <2>1. CASE Drafting!Write
    <3>1. s.op \in {"manifest", "draft"} /\ (s.op = "manifest" <=> k = 0) /\ (k # 0 => s.draft = k)
      BY <1>5 DEF Op, Drafting!Op
    <3>2. ~Drafting!OnFile(s) /\ Drafting!WriteDraft(s)
      BY <2>1 DEF Drafting!Write
    <3>3. UNCHANGED <<doc, packets, tasks, promotions>>
      BY <2>1, <3>1 DEF Drafting!Write, Drafting!WritePacket, Drafting!WriteDoc, Drafting!WriteTask,
                        Drafting!WritePromotion
    <3>4. QED
      BY <3>1, <3>2, <3>3 DEF Drafting!OnFile, Drafting!WriteDraft, Drafting!Filed, Drafting!At
  <2>2. CASE Drafting!Skip
    <3>1. (s.op = "manifest" <=> k = 0) /\ (k # 0 => s.draft = k)
      BY <1>5 DEF Op, Drafting!Op
    <3>2. Drafting!OnFile(s)
      BY <2>2 DEF Drafting!Skip
    <3>3. manifest' = manifest /\ (k = 0 => manifest' = TRUE)
      BY <2>2, <3>1, <3>2
         DEF Drafting!Skip, Drafting!files, Drafting!OnFile, DraftingInv, DraftingTyped, Op, Drafting!Op
    <3>4. QED
      BY <2>2, <3>1, <3>2, <3>3
         DEF Drafting!Skip, Drafting!files, Drafting!OnFile, Drafting!Filed, Drafting!At
  <2>3. QED
    BY <2>1, <2>2
<1>8. /\ drafts' \in [Drafting!Drafts -> SUBSET DraftDirs] /\ manifest' \in BOOLEAN
      /\ k = 0 => manifest'
      /\ manifest => manifest'
      /\ k # 0 => drafts'[k] # {}
      /\ \A d \in Drafting!Drafts :
           drafts'[d] = drafts[d] \/ (d = k /\ drafts[d] = {} /\ drafts'[d] = {"queue"})
  <2>1. manifest \in BOOLEAN
    BY DEF DraftingInv, DraftingTyped
  <2>2. k # 0 => k \in Drafting!Drafts
    BY <1>4 DEF Drafting!Drafts
  <2>3. drafts' \in [Drafting!Drafts -> SUBSET DraftDirs]
    BY <1>6, <1>7 DEF DraftDirs
  <2>4. (manifest => manifest') /\ (k = 0 => manifest') /\ manifest' \in BOOLEAN
    <3>1. CASE k = 0
      BY <3>1, <1>7
    <3>2. CASE k # 0
      <4>1. manifest' = manifest
        BY <3>2, <1>7
      <4>2. QED
        BY <3>2, <4>1, <2>1
    <3>3. QED
      BY <3>1, <3>2
  <2>5. QED
    BY <1>6, <1>7, <2>2, <2>3, <2>4
<1>9. \A d : HasTask(d)' <=> HasTask(d)
  BY <1>7 DEF HasTask
<1>10. \A d \in Drafting!Drafts : Spent(d) => drafts'[d] = drafts[d]
  BY <1>8 DEF Spent, HasTask, DraftingInv, TasksInOrder
<1>11. DraftingTyped'
  BY <1>1, <1>7, <1>8 DEF DraftingInv, DraftingTyped
<1>12. RunShape'
  BY <1>1, <1>2 DEF DraftingInv, RunShape, Drafting!NoMove
<1>13. EffectShape'
  <2>1. ManagerLeft'
    <3>1. Len(eff'.todo) = n - 1 /\ \A j \in 1..(n - 1) : eff'.todo[j] = eff.todo[j + 1]
      BY <1>1, <1>3
    <3>2. \A d \in Drafting!Drafts : d <= DraftCount - (n - 1) => drafts'[d] # {}
      <4>1. SUFFICES ASSUME NEW d \in Drafting!Drafts, d <= DraftCount - (n - 1) PROVE drafts'[d] # {}
        BY <4>1
      <4>2. d = k \/ d <= DraftCount - n
        BY <4>1, <1>4, DraftingAssumption DEF Drafting!Drafts
      <4>3. QED
        BY <4>2, <1>2, <1>8 DEF ManagerLeft, Drafting!Drafts
    <3>3. n - 1 <= DraftCount => manifest'
      BY <1>2, <1>4, <1>8, DraftingAssumption DEF ManagerLeft
    <3>4. \A j \in 1..(n - 1) :
             eff'.todo[j] = IF DraftCount - (n - 1) + j = 0 THEN Op("manifest", 1)
                            ELSE Op("draft", DraftCount - (n - 1) + j)
      <4>1. SUFFICES ASSUME NEW j \in 1..(n - 1)
                     PROVE  eff'.todo[j] = IF DraftCount - (n - 1) + j = 0 THEN Op("manifest", 1)
                                           ELSE Op("draft", DraftCount - (n - 1) + j)
        BY <4>1
      <4>2. j + 1 \in 1..n /\ DraftCount - n + (j + 1) = DraftCount - (n - 1) + j
        BY <1>4, DraftingAssumption
      <4>3. eff.todo[j + 1] = IF DraftCount - n + (j + 1) = 0 THEN Op("manifest", 1)
                              ELSE Op("draft", DraftCount - n + (j + 1))
        BY <4>2, <1>2 DEF ManagerLeft
      <4>4. QED
        BY <3>1, <4>2, <4>3
    <3>5. QED
      BY <3>1, <3>2, <3>3, <3>4, <1>4, DraftingAssumption DEF ManagerLeft
  <2>2. QED
    BY <2>1, <1>1, <1>2 DEF EffectShape
<1>14. SpentStays'
  <2>1. \A d \in Drafting!Drafts : Spent(d)' => Spent(d) /\ d # 0
    BY <1>8, <1>9 DEF Spent, Settled, Drafting!Drafts
  <2>2. QED
    BY <2>1, <1>1, <1>2, <1>10 DEF DraftingInv, SpentStays
<1>15. TasksInOrder'
  <2>1. \A t \in tasks : drafts'[t.draft] # {}
    BY <1>8 DEF DraftingInv, DraftingTyped, TasksInOrder
  <2>2. QED
    BY <2>1, <1>1, <1>7, <1>9 DEF DraftingInv, TasksInOrder
<1>16. Backed'
  <2>1. \A e \in Drafting!Drafts : /\ drafts[e] # {} => drafts'[e] # {}
                                   /\ "approved" \in drafts'[e] => "approved" \in drafts[e]
    BY <1>8
  <2>2. QED
    BY <2>1, <1>1, <1>7, <1>8 DEF DraftingInv, Backed
<1>17. QED
  BY <1>11, <1>12, <1>13, <1>14, <1>15, <1>16 DEF DraftingInv

\* What is left of a candidate, a rejection and an approval after a write.
LEMMA CandidateTail ==
  ASSUME NEW d, NEW todo \in CandidateLeft(d), todo # <<>>
  PROVE  /\ \E o \in {"packet", "markdown", "latest"} : Head(todo) = Op(o, d)
         /\ Tail(todo) \in CandidateLeft(d)
<1>1. CASE todo = <<Op("packet", d), Op("markdown", d), Op("latest", d)>>
  <2>1. Head(todo) = Op("packet", d) /\ Tail(todo) = <<Op("markdown", d), Op("latest", d)>>
    BY <1>1
  <2>2. QED
    BY <2>1 DEF CandidateLeft
<1>2. CASE todo = <<Op("markdown", d), Op("latest", d)>>
  <2>1. Head(todo) = Op("markdown", d) /\ Tail(todo) = <<Op("latest", d)>>
    BY <1>2
  <2>2. QED
    BY <2>1 DEF CandidateLeft
<1>3. CASE todo = <<Op("latest", d)>>
  <2>1. Head(todo) = Op("latest", d) /\ Tail(todo) = <<>>
    BY <1>3
  <2>2. QED
    BY <2>1 DEF CandidateLeft
<1>4. QED
  BY <1>1, <1>2, <1>3 DEF CandidateLeft

\* The writes of a rejection are taken one by one.
LEMMA RejectionTail ==
  ASSUME NEW d, NEW todo \in RejectionLeft(d), todo # <<>>
  PROVE  /\ \E o \in {"evaluation", "reject", "critique", "revise"} : Head(todo) = Op(o, d)
         /\ Tail(todo) \in RejectionLeft(d)
         /\ Head(todo).op = "revise" => Tail(todo) = <<>>
<1>1. CASE todo = <<Op("evaluation", d), Op("reject", d), Op("critique", d), Op("revise", d)>>
  <2>1. /\ Head(todo) = Op("evaluation", d)
        /\ Tail(todo) = <<Op("reject", d), Op("critique", d), Op("revise", d)>>
    BY <1>1
  <2>2. QED
    BY <2>1 DEF RejectionLeft, Op, Drafting!Op
<1>2. CASE todo = <<Op("reject", d), Op("critique", d), Op("revise", d)>>
  <2>1. Head(todo) = Op("reject", d) /\ Tail(todo) = <<Op("critique", d), Op("revise", d)>>
    BY <1>2
  <2>2. QED
    BY <2>1 DEF RejectionLeft, Op, Drafting!Op
<1>3. CASE todo = <<Op("critique", d), Op("revise", d)>>
  <2>1. Head(todo) = Op("critique", d) /\ Tail(todo) = <<Op("revise", d)>>
    BY <1>3
  <2>2. QED
    BY <2>1 DEF RejectionLeft, Op, Drafting!Op
<1>4. CASE todo = <<Op("revise", d)>>
  <2>1. Head(todo) = Op("revise", d) /\ Tail(todo) = <<>>
    BY <1>4
  <2>2. QED
    BY <2>1 DEF RejectionLeft, Op, Drafting!Op
<1>5. QED
  BY <1>1, <1>2, <1>3, <1>4 DEF RejectionLeft

\* The writes of a candidate and of a rejection change the packets and the document
\* of a draft that has no promotion yet, and its revision only at their end.
LEMMA RoutedWriteKeeps ==
  ASSUME DraftingInv, Drafting!Write, eff.handler # "manager_blueprint", eff.fate = "route"
  PROVE  DraftingInv'
<1> DEFINE i == planRun.item
           s == Head(eff.todo)
           r == doc[i].rev + 1
<1>1. /\ plannerUp /\ moving = Drafting!NoMove /\ planRun.stage = eff.handler
      /\ eff.handler \in {"contractor_blueprint", "evaluator_blueprint"}
      /\ eff.todo # <<>>
      /\ eff' \in [handler : DOMAIN Drafting!PreClasses \cup {"none"}, todo : Seq(Ops),
                   made : SUBSET Ops, fate : {"none", "complete", "route"}]
      /\ eff'.handler = eff.handler /\ eff'.fate = eff.fate /\ eff'.todo = Tail(eff.todo)
      /\ UNCHANGED <<sourceAt, split, planRun, repairs, moving, plannerUp, crashes>>
  BY WriteOfEffect
<1>2. i \in Drafting!Drafts /\ i # 0
  BY <1>1 DEF DraftingInv, DraftingTyped, RunShape
<1>3. ~Spent(i)
  BY <1>1, <1>2, Unspent DEF Drafting!RepairStage
<1>4. \A p \in promotions : p.draft # i
  BY <1>3 DEF Spent, HasTask, DraftingInv, Backed
<1>5. doc[i].rev < MaxRevision /\ r \in Drafting!Revisions
  <2>1. doc[i].rev < MaxRevision
    BY <1>1 DEF DraftingInv, EffectShape
  <2>2. doc[i].rev \in Nat
    BY <1>2, DraftingAssumption DEF DraftingInv, DraftingTyped, Drafting!DraftDocs
  <2>3. QED
    BY <2>1, <2>2, DraftingAssumption DEF Drafting!Revisions
<1>6. /\ s \in {Op(o, i) : o \in {"packet", "markdown", "latest", "evaluation", "reject", "critique",
                                  "revise"}}
      /\ s.op = "revise" => Tail(eff.todo) = <<>>
      /\ eff.handler = "contractor_blueprint" => Tail(eff.todo) \in CandidateLeft(i)
      /\ eff.handler = "evaluator_blueprint" => Tail(eff.todo) \in RejectionLeft(i)
  <2>1. CASE eff.handler = "contractor_blueprint"
    <3>1. eff.todo \in CandidateLeft(i)
      BY <2>1 DEF DraftingInv, EffectShape
    <3>2. PICK o \in {"packet", "markdown", "latest"} : s = Op(o, i)
      BY <3>1, <1>1, CandidateTail
    <3>3. s.op # "revise"
      BY <3>2 DEF Op, Drafting!Op
    <3>4. Tail(eff.todo) \in CandidateLeft(i)
      BY <3>1, <1>1, CandidateTail
    <3>5. QED
      BY <2>1, <3>2, <3>3, <3>4
  <2>2. CASE eff.handler = "evaluator_blueprint"
    <3>1. eff.todo \in RejectionLeft(i)
      BY <2>2, <1>1 DEF DraftingInv, EffectShape
    <3>2. QED
      BY <2>2, <3>1, <1>1, RejectionTail DEF Op, Drafting!Op
  <2>3. QED
    BY <1>1, <2>1, <2>2
<1>7. /\ s.draft = i
      /\ s.op \in {"packet", "markdown", "latest", "evaluation", "reject", "critique", "revise"}
  BY <1>6 DEF Op, Drafting!Op
<1>8. UNCHANGED <<manifest, drafts, tasks, promotions>>
  BY <1>7 DEF Drafting!Write, Drafting!WriteDraft, Drafting!WriteTask, Drafting!WritePromotion
<1>9. \/ packets' = packets
      \/ \E to \in Drafting!PacketStates : packets' = [packets EXCEPT ![i][r] = to]
  BY <1>7 DEF Drafting!Write, Drafting!WritePacket, Drafting!NextRev, Drafting!PacketStates
<1>10. \/ doc' = doc
       \/ doc' = [doc EXCEPT ![i].latest = r]
       \/ s.op = "revise" /\ doc' = [doc EXCEPT ![i].rev = r]
  BY <1>7 DEF Drafting!Write, Drafting!WriteDoc, Drafting!NextRev
<1>11. /\ packets' \in [Drafting!Drafts -> [Drafting!Revisions -> Drafting!PacketStates]]
       /\ \A d \in Drafting!Drafts \ {i} : packets'[d] = packets[d]
  BY <1>2, <1>5, <1>9 DEF DraftingInv, DraftingTyped
<1>12. /\ doc' \in [Drafting!Drafts -> Drafting!DraftDocs]
       /\ s.op # "revise" => doc'[i].rev = doc[i].rev
  <2>1. doc \in [Drafting!Drafts -> Drafting!DraftDocs] /\ r \in 0..MaxRevision
    BY <1>5, DraftingAssumption DEF DraftingInv, DraftingTyped, Drafting!Revisions
  <2>2. doc[i] \in Drafting!DraftDocs
    BY <1>2, <2>1
  <2>3. CASE doc' = doc
    BY <2>1, <2>3
  <2>4. CASE doc' = [doc EXCEPT ![i].latest = r]
    <3>1. [doc[i] EXCEPT !.latest = r] \in Drafting!DraftDocs
      BY <2>1, <2>2 DEF Drafting!DraftDocs
    <3>2. doc' = [doc EXCEPT ![i] = [doc[i] EXCEPT !.latest = r]]
      BY <1>2, <2>1, <2>4
    <3>3. QED
      BY <1>2, <2>1, <2>2, <3>1, <3>2 DEF Drafting!DraftDocs
  <2>5. CASE s.op = "revise" /\ doc' = [doc EXCEPT ![i].rev = r]
    <3>1. [doc[i] EXCEPT !.rev = r] \in Drafting!DraftDocs
      BY <2>1, <2>2 DEF Drafting!DraftDocs
    <3>2. doc' = [doc EXCEPT ![i] = [doc[i] EXCEPT !.rev = r]]
      BY <1>2, <2>1, <2>5
    <3>3. QED
      BY <1>2, <2>1, <2>5, <3>1, <3>2
  <2>6. QED
    BY <1>10, <2>3, <2>4, <2>5
<1>13. \A d : (HasTask(d)' <=> HasTask(d)) /\ (Spent(d)' <=> Spent(d))
  BY <1>8 DEF HasTask, Spent
<1>14. DraftingTyped'
  BY <1>1, <1>8, <1>11, <1>12 DEF DraftingInv, DraftingTyped
<1>15. RunShape'
  BY <1>1, <1>8 DEF DraftingInv, RunShape
<1>16. EffectShape'
  BY <1>1, <1>5, <1>6, <1>12 DEF EffectShape, CandidateLeft, RejectionLeft
<1>17. SpentStays'
  BY <1>1, <1>3, <1>8, <1>13 DEF DraftingInv, SpentStays, Finishing
<1>18. TasksInOrder'
  BY <1>1, <1>8, <1>13 DEF DraftingInv, TasksInOrder
<1>19. Backed'
  <2>1. \A p \in promotions : packets'[p.draft][p.rev] = "approved"
    BY <1>4, <1>11 DEF DraftingInv, DraftingTyped, Backed, Drafting!Promotions
  <2>2. QED
    BY <2>1, <1>1, <1>8 DEF DraftingInv, Backed
<1>20. QED
  BY <1>14, <1>15, <1>16, <1>17, <1>18, <1>19 DEF DraftingInv

\* What is left of an approval after a write, and how much.
LEMMA ApprovalTail ==
  ASSUME NEW d, NEW todo \in ApprovalLeft(d), todo # <<>>
  PROVE  \/ Head(todo) = Op("evaluation", d) /\ Tail(todo) \in ApprovalLeft(d) /\ Len(Tail(todo)) = 3
         \/ Head(todo) = Op("approve", d) /\ Tail(todo) \in ApprovalLeft(d) /\ Len(Tail(todo)) = 2
         \/ Head(todo) = Op("task", d) /\ Tail(todo) \in ApprovalLeft(d) /\ Len(Tail(todo)) = 1
         \/ Head(todo) = Op("promotion", d) /\ Tail(todo) \in ApprovalLeft(d) /\ Len(Tail(todo)) = 0
<1>1. CASE todo = <<Op("evaluation", d), Op("approve", d), Op("task", d), Op("promotion", d)>>
  <2>1. /\ Head(todo) = Op("evaluation", d)
        /\ Tail(todo) = <<Op("approve", d), Op("task", d), Op("promotion", d)>>
    BY <1>1
  <2>2. QED
    BY <2>1 DEF ApprovalLeft
<1>2. CASE todo = <<Op("approve", d), Op("task", d), Op("promotion", d)>>
  <2>1. Head(todo) = Op("approve", d) /\ Tail(todo) = <<Op("task", d), Op("promotion", d)>>
    BY <1>2
  <2>2. QED
    BY <2>1 DEF ApprovalLeft
<1>3. CASE todo = <<Op("task", d), Op("promotion", d)>>
  <2>1. Head(todo) = Op("task", d) /\ Tail(todo) = <<Op("promotion", d)>>
    BY <1>3
  <2>2. QED
    BY <2>1 DEF ApprovalLeft
<1>4. CASE todo = <<Op("promotion", d)>>
  <2>1. Head(todo) = Op("promotion", d) /\ Tail(todo) = <<>>
    BY <1>4
  <2>2. QED
    BY <2>1 DEF ApprovalLeft
<1>5. QED
  BY <1>1, <1>2, <1>3, <1>4 DEF ApprovalLeft

\* The writes of an approval: the packet is approved before the task is filed, the
\* task before the promotion; the draft had no task, and those below it have theirs.
LEMMA ApprovalWriteKeeps ==
  ASSUME DraftingInv, Drafting!Write, eff.handler = "evaluator_blueprint", eff.fate = "complete"
  PROVE  DraftingInv'
<1> DEFINE i == planRun.item
           s == Head(eff.todo)
           r == doc[i].rev + 1
           left == Len(eff'.todo)
<1>1. /\ plannerUp /\ moving = Drafting!NoMove /\ planRun.stage = "evaluator_blueprint"
      /\ eff.todo # <<>> /\ eff'.made # {}
      /\ eff' \in [handler : DOMAIN Drafting!PreClasses \cup {"none"}, todo : Seq(Ops),
                   made : SUBSET Ops, fate : {"none", "complete", "route"}]
      /\ eff'.handler = "evaluator_blueprint" /\ eff'.fate = "complete" /\ eff'.todo = Tail(eff.todo)
      /\ UNCHANGED <<sourceAt, split, planRun, repairs, moving, plannerUp, crashes>>
  BY WriteOfEffect
<1>2. i \in Drafting!Drafts /\ i # 0 /\ "queue" \notin drafts[i] /\ "active" \in drafts[i]
  BY <1>1 DEF DraftingInv, DraftingTyped, RunShape
<1>3. /\ doc[i].rev < MaxRevision /\ eff.todo \in ApprovalLeft(i) /\ Approval(i, Len(eff.todo))
  BY DEF DraftingInv, EffectShape
<1>4. r \in Drafting!Revisions
  <2>1. doc[i].rev \in Nat
    BY <1>2, DraftingAssumption DEF DraftingInv, DraftingTyped, Drafting!DraftDocs
  <2>2. QED
    BY <1>3, <2>1, DraftingAssumption DEF Drafting!Revisions
<1>5. /\ \/ s = Op("evaluation", i) /\ left = 3
         \/ s = Op("approve", i) /\ left = 2
         \/ s = Op("task", i) /\ left = 1
         \/ s = Op("promotion", i) /\ left = 0
      /\ eff'.todo \in ApprovalLeft(i)
  BY <1>1, <1>3, ApprovalTail
<1>6. eff.todo \in Seq(Ops) /\ Len(eff.todo) = left + 1 /\ left \in Nat
  BY <1>1 DEF DraftingInv, DraftingTyped
<1>7. s.draft = i /\ s.op \in {"evaluation", "approve", "task", "promotion"}
  BY <1>5 DEF Op, Drafting!Op
<1>8. UNCHANGED <<manifest, drafts, doc>>
  BY <1>7 DEF Drafting!Write, Drafting!WriteDraft, Drafting!WriteDoc
<1>14. left = Len(eff'.todo)
  OBVIOUS
<1>15. planRun'.item = i /\ doc'[i].rev + 1 = r
  BY <1>1, <1>8
<1> HIDE DEF left
<1>9. left > 0 => ~Spent(i)
  <2>1. left > 0 => ~(Len(eff.todo) <= 1)
    BY <1>6
  <2>2. planRun.stage # Drafting!RepairStage
    BY <1>1 DEF Drafting!RepairStage
  <2>3. QED
    BY <1>1, <1>2, <2>1, <2>2, Unspent
<1>10. CASE s.op = "evaluation" \/ s.op = "approve"
  <2>1. left >= 2 /\ (left = 2 <=> s.op = "approve")
    BY <1>5, <1>10 DEF Op, Drafting!Op
  <2>2. UNCHANGED <<tasks, promotions>>
    BY <1>10 DEF Drafting!Write, Drafting!WriteTask, Drafting!WritePromotion
  <2>3. \/ s.op = "evaluation" /\ packets' = packets
        \/ s.op = "approve" /\ packets' = [packets EXCEPT ![i][r] = "approved"]
    BY <1>7, <1>10 DEF Drafting!Write, Drafting!WritePacket, Drafting!NextRev
  <2>4. /\ packets' \in [Drafting!Drafts -> [Drafting!Revisions -> Drafting!PacketStates]]
        /\ \A d \in Drafting!Drafts \ {i} : packets'[d] = packets[d]
        /\ left = 2 => packets'[i][r] = "approved"
    <3>1. packets \in [Drafting!Drafts -> [Drafting!Revisions -> Drafting!PacketStates]]
      BY DEF DraftingInv, DraftingTyped
    <3>2. CASE s.op = "evaluation" /\ packets' = packets
      BY <3>1, <3>2, <2>1
    <3>3. CASE s.op = "approve" /\ packets' = [packets EXCEPT ![i][r] = "approved"]
      <4>1. packets'[i][r] = "approved"
        BY <1>2, <1>4, <3>1, <3>3
      <4>2. QED
        BY <1>2, <1>4, <3>1, <3>3, <4>1 DEF Drafting!PacketStates
    <3>4. QED
      BY <2>3, <3>2, <3>3
  <2>5. \A d : (HasTask(d)' <=> HasTask(d)) /\ (Spent(d)' <=> Spent(d))
    BY <1>8, <2>2 DEF HasTask, Spent
  <2>6. DraftingTyped'
    BY <1>1, <1>8, <2>2, <2>4 DEF DraftingInv, DraftingTyped
  <2>7. RunShape'
    BY <1>1, <1>8 DEF DraftingInv, RunShape
  <2>8. EffectShape'
    <3>1. Approval(planRun.item, Len(eff.todo))'
      <4>1. left = 2 \/ left = 3
        BY <1>5, <1>10 DEF Op, Drafting!Op
      <4>2. left <= 2 => packets'[i][r] = "approved"
        BY <4>1, <2>4
      <4>3. ~(left <= 1) /\ left # 0
        BY <4>1
      <4>4. QED
        BY <4>2, <4>3, <1>1, <1>14, <1>15 DEF Approval
    <3>2. QED
      BY <3>1, <1>1, <1>3, <1>5, <1>8, <1>14 DEF EffectShape
  <2>9. SpentStays'
    BY <1>1, <1>8, <1>9, <1>14, <2>1, <2>5 DEF DraftingInv, SpentStays, Finishing
  <2>10. TasksInOrder'
    BY <1>1, <1>8, <2>2, <2>5 DEF DraftingInv, TasksInOrder
  <2>11. Backed'
    <3>1. \A p \in promotions : p.draft # i
      <4>1. left > 0 /\ ~HasTask(i)
        BY <1>6, <1>9, <2>1 DEF Spent
      <4>2. QED
        BY <4>1 DEF HasTask, DraftingInv, Backed
    <3>2. \A p \in promotions : packets'[p.draft][p.rev] = "approved"
      BY <3>1, <2>4 DEF DraftingInv, DraftingTyped, Backed, Drafting!Promotions
    <3>3. QED
      BY <3>2, <1>1, <1>8, <2>2 DEF DraftingInv, Backed
  <2>12. QED
    BY <2>6, <2>7, <2>8, <2>9, <2>10, <2>11 DEF DraftingInv
<1>11. CASE s.op = "task"
  <2>1. left = 1
    BY <1>5, <1>11 DEF Op, Drafting!Op
  <2>2. UNCHANGED <<packets, promotions>>
    BY <1>11 DEF Drafting!Write, Drafting!WritePacket, Drafting!WritePromotion
  <2>3. PICK id \in TaskIds : /\ \A t \in tasks : t.id # id
                              /\ tasks' = tasks \cup {[id |-> id, draft |-> i, at |-> "open"]}
    BY <1>7, <1>11 DEF Drafting!Write, Drafting!WriteTask
  <2>4. \A d : HasTask(d)' <=> HasTask(d) \/ d = i
    <3> DEFINE new == [id |-> id, draft |-> i, at |-> "open"]
    <3>1. PICK w : tasks' = tasks \cup {w} /\ w.draft = i
      <4>1. new.draft = i
        OBVIOUS
      <4>2. tasks' = tasks \cup {new}
        BY <2>3
      <4> HIDE DEF new
      <4>3. QED
        BY <4>1, <4>2
    <3>2. \A d : (\E t \in tasks' : t.draft = d) <=> (\E t \in tasks : t.draft = d) \/ d = i
      BY <3>1
    <3>3. QED
      BY <3>2 DEF HasTask
  <2>5. DraftingTyped'
    BY <1>1, <1>2, <1>8, <2>2, <2>3 DEF DraftingInv, DraftingTyped
  <2>6. RunShape'
    BY <1>1, <1>8 DEF DraftingInv, RunShape
  <2>7. EffectShape'
    <3>1. eff'.made # {} /\ packets[i][r] = "approved" /\ HasTask(planRun.item)'
      <4>1. \E t \in tasks' : t.draft = i
        BY <2>4 DEF HasTask
      <4>2. QED
        BY <4>1, <1>1, <1>3, <1>6, <1>15, <2>1 DEF Approval, HasTask
    <3>2. Approval(planRun.item, Len(eff.todo))'
      BY <3>1, <1>14, <1>15, <2>1, <2>2 DEF Approval
    <3>3. QED
      BY <3>2, <1>1, <1>3, <1>5, <1>8, <1>14, <1>15 DEF EffectShape
  <2>8. SpentStays'
    <3>1. \A d \in Drafting!Drafts \ {i} : Spent(d)' <=> Spent(d)
      BY <1>8, <2>4 DEF Spent
    <3>2. Finishing'
      BY <1>1, <1>14, <2>1 DEF Finishing
    <3>3. QED
      BY <3>1, <3>2, <1>1, <1>2, <1>8 DEF DraftingInv, SpentStays
  <2>9. TasksInOrder'
    <3>1. \A t \in tasks : t.draft # i
      BY <1>9, <2>1 DEF Spent, HasTask
    <3>2. \A e \in 1..(i - 1) : HasTask(e)
      BY DEF DraftingInv, TasksInOrder
    <3>3. \A t, u \in tasks' : t.draft = u.draft \/ t.id = u.id => t = u
      BY <3>1, <2>3 DEF DraftingInv, TasksInOrder
    <3>4. \A t \in tasks' : drafts[t.draft] # {} /\ \A e \in 1..(t.draft - 1) : HasTask(e)
      BY <3>2, <2>3, <1>2 DEF DraftingInv, TasksInOrder
    <3>5. QED
      BY <3>2, <3>3, <3>4, <1>1, <1>8, <2>4 DEF DraftingInv, TasksInOrder
  <2>10. Backed'
    <3>1. \A p \in promotions : \E t \in tasks' : t.id = p.task /\ t.draft = p.draft
      BY <2>3 DEF DraftingInv, Backed
    <3>2. QED
      BY <3>1, <1>1, <1>8, <2>2 DEF DraftingInv, Backed
  <2>11. QED
    BY <2>5, <2>6, <2>7, <2>8, <2>9, <2>10 DEF DraftingInv
<1>12. CASE s.op = "promotion"
  <2>1. left = 0
    BY <1>5, <1>12 DEF Op, Drafting!Op
  <2>2. UNCHANGED <<packets, tasks>>
    BY <1>12 DEF Drafting!Write, Drafting!WritePacket, Drafting!WriteTask
  <2>3. PICK t \in tasks : /\ t.draft = i
                           /\ promotions' = promotions \cup {[draft |-> i, rev |-> r, task |-> t.id]}
    BY <1>7, <1>12 DEF Drafting!Write, Drafting!WritePromotion, Drafting!NextRev
  <2>4. \A d : (HasTask(d)' <=> HasTask(d)) /\ (Spent(d)' <=> Spent(d))
    BY <1>8, <2>2 DEF HasTask, Spent
  <2>5. DraftingTyped'
    <3>1. [draft |-> i, rev |-> r, task |-> t.id] \in Drafting!Promotions
      BY <1>2, <1>4 DEF DraftingInv, DraftingTyped, Drafting!Promotions
    <3>2. QED
      BY <3>1, <1>1, <1>8, <2>2, <2>3 DEF DraftingInv, DraftingTyped
  <2>6. RunShape'
    BY <1>1, <1>8 DEF DraftingInv, RunShape
  <2>7. EffectShape'
    <3>1. \E p \in promotions' : p.draft = i
      <4>1. [draft |-> i, rev |-> r, task |-> t.id] \in promotions'
        BY <2>3
      <4>2. QED
        BY <4>1
    <3>2. packets[i][r] = "approved" /\ HasTask(i)
      BY <1>3, <1>6, <2>1 DEF Approval
    <3>3. QED
      BY <3>1, <3>2, <1>1, <1>3, <1>5, <1>8, <2>1, <2>2, <2>4 DEF EffectShape, Approval
  <2>8. SpentStays'
    BY <1>1, <1>8, <1>14, <2>1, <2>4 DEF DraftingInv, SpentStays, Finishing
  <2>9. TasksInOrder'
    BY <1>1, <1>8, <2>2, <2>4 DEF DraftingInv, TasksInOrder
  <2>10. Backed'
    <3>1. packets[i][r] = "approved"
      BY <1>3, <1>6, <2>1 DEF Approval
    <3>2. QED
      BY <3>1, <1>1, <1>8, <2>2, <2>3 DEF DraftingInv, Backed
  <2>11. QED
    BY <2>5, <2>6, <2>7, <2>8, <2>9, <2>10 DEF DraftingInv
<1>13. QED
  BY <1>7, <1>10, <1>11, <1>12

\* A write of the contractor or the evaluator is never skipped: neither files
\* drafts.
LEMMA OnlyManagerSkips ==
  ASSUME DraftingInv, Drafting!Skip PROVE eff.handler = "manager_blueprint"
<1>1. SUFFICES ASSUME eff.handler # "manager_blueprint" PROVE FALSE
  OBVIOUS
<1>2. /\ eff.handler \in {"contractor_blueprint", "evaluator_blueprint"} /\ eff.todo # <<>>
      /\ Head(eff.todo).op \in {"manifest", "draft"}
  BY <1>1, WriteOfEffect DEF Drafting!Skip, Drafting!OnFile
<1>3. CASE eff.handler = "contractor_blueprint"
  <2>1. eff.todo \in CandidateLeft(planRun.item)
    BY <1>3 DEF DraftingInv, EffectShape
  <2>2. PICK o \in {"packet", "markdown", "latest"} :
          Head(eff.todo) = Op(o, planRun.item)
    BY <1>2, <2>1, CandidateTail
  <2>3. Head(eff.todo).op = o
    BY <2>2 DEF Op, Drafting!Op
  <2>4. QED
    BY <1>2, <2>3
<1>4. CASE eff.handler = "evaluator_blueprint" /\ eff.fate = "route"
  <2>1. eff.todo \in RejectionLeft(planRun.item)
    BY <1>4 DEF DraftingInv, EffectShape
  <2>2. PICK o \in {"evaluation", "reject", "critique", "revise"} :
          Head(eff.todo) = Op(o, planRun.item)
    BY <1>2, <2>1, RejectionTail
  <2>3. Head(eff.todo).op = o
    BY <2>2 DEF Op, Drafting!Op
  <2>4. QED
    BY <1>2, <2>3
<1>5. CASE eff.handler = "evaluator_blueprint" /\ eff.fate # "route"
  <2>1. eff.todo \in ApprovalLeft(planRun.item)
    BY <1>5 DEF DraftingInv, EffectShape
  <2>2. PICK o \in {"evaluation", "approve", "task", "promotion"} :
          Head(eff.todo) = Op(o, planRun.item)
    BY <1>2, <2>1, ApprovalTail
  <2>3. Head(eff.todo).op = o
    BY <2>2 DEF Op, Drafting!Op
  <2>4. QED
    BY <1>2, <2>3
<1>6. QED
  BY <1>2, <1>3, <1>4, <1>5

\* Every write keeps the invariant.
LEMMA WriteKeeps == ASSUME DraftingInv, Drafting!Write \/ Drafting!Skip PROVE DraftingInv'
<1>1. CASE eff.handler = "manager_blueprint"
  BY <1>1, ManagerWriteKeeps
<1>2. CASE eff.handler # "manager_blueprint"
  <2>1. Drafting!Write
    BY <1>2, OnlyManagerSkips
  <2>2. CASE eff.fate = "route"
    BY <1>2, <2>1, <2>2, RoutedWriteKeeps
  <2>3. CASE eff.fate # "route"
    <3>1. eff.handler \in {"contractor_blueprint", "evaluator_blueprint"}
      BY <1>2, <2>1, WriteOfEffect
    <3>2. eff.handler = "evaluator_blueprint" /\ eff.fate = "complete"
      BY <2>3, <3>1 DEF DraftingInv, EffectShape
    <3>3. QED
      BY <2>1, <3>2, ApprovalWriteKeeps
  <2>4. QED
    BY <2>2, <2>3
<1>3. QED
  BY <1>1, <1>2

\* The invariant of a planning that runs, or that another part leaves alone.
LEMMA DraftingStep ==
  ASSUME DraftingInv, Drafting!Next \/ UNCHANGED draftVars PROVE DraftingInv'
<1>1. CASE \/ Drafting!PlannerDone \/ Drafting!PlannerSplits \/ Drafting!PlannerInvalid
           \/ Drafting!StageBlocked \/ Drafting!MechanicDone \/ Drafting!Rejects
           \/ Drafting!ManagerDuplicate
  BY <1>1, StageTurns, TurnKeeps
<1>2. CASE Drafting!WriteFails \/ Drafting!Succeed \/ Drafting!DestinationMissing
  BY <1>2, EffectTurns, TurnKeeps
<1>3. CASE UNCHANGED draftVars
  BY <1>3 DEF draftVars, DraftingInv, DraftingTyped, RunShape, EffectShape, ManagerLeft, Approval,
              HasTask, Spent, SpentStays, Finishing, TasksInOrder, Backed
<1>4. QED
  BY <1>1, <1>2, <1>3, ClaimKeeps, FinishMoveKeeps, GivesUpKeeps, DaemonEndsStartsKeeps,
     BeginKeeps, WriteKeeps, TaskLeavesKeeps DEF Drafting!Next

\* Where nothing blocks the closure and no task is open, every draft was executed:
\* it is on file and nowhere else than approved, so it was promoted, and its
\* task, which is neither open nor gone, is done.
LEMMA NothingBlocksMeansDone ==
  ASSUME DraftingInv PROVE Drafting!NoPrematureClosure
<1>1. SUFFICES ASSUME sourceAt = "done", ~split, ~Drafting!Blockers, \A t \in tasks : t.at # "open",
                      NEW d \in Drafting!Drafts
               PROVE  \E t \in tasks : t.draft = d /\ t.at = "done"
  BY DEF Drafting!NoPrematureClosure
<1>2. drafts[d] # {} /\ drafts[d] \subseteq DraftDirs
  BY <1>1 DEF DraftingInv, DraftingTyped, Backed
<1>3. drafts[d] \cap {"active", "queue", "blocked"} = {}
  BY <1>1 DEF Drafting!Blockers, Drafting!OpenDrafts, Drafting!At
<1>4. "approved" \in drafts[d]
  BY <1>2, <1>3 DEF DraftDirs
<1>5. PICK p \in promotions : p.draft = d
  BY <1>4 DEF DraftingInv, Backed
<1>6. PICK t \in tasks : t.id = p.task /\ t.draft = d
  BY <1>5 DEF DraftingInv, Backed
<1>7. PICK u \in tasks : u.id = p.task /\ u.at # "gone"
  BY <1>1, <1>5 DEF Drafting!Blockers, Drafting!TaskLost
<1>8. u = t
  BY <1>6, <1>7 DEF DraftingInv, TasksInOrder
<1>9. t.at \in {"open", "done", "gone"}
  BY <1>6 DEF DraftingInv, DraftingTyped
<1>10. QED
  BY <1>1, <1>6, <1>7, <1>8, <1>9

\* What the invariant says of the run's properties.
LEMMA DraftingMeans ==
  ASSUME DraftingInv
  PROVE  /\ Drafting!TypeOK
         /\ Drafting!SettledBacked /\ Drafting!NoPrematureClosure /\ Drafting!OneTaskInOrder
<1>1. Drafting!TypeOK
  <2>1. drafts \in [Drafting!Drafts -> SUBSET Drafting!Dirs]
    BY DEF DraftingInv, DraftingTyped, DraftDirs, Drafting!Dirs
  <2>2. moving.draft \in Drafting!Drafts \cup {0}
    BY DEF DraftingInv, DraftingTyped, Drafting!NoMove
  <2>3. split \in BOOLEAN /\ manifest \in BOOLEAN /\ plannerUp \in BOOLEAN
    BY DEF DraftingInv, DraftingTyped
  <2>4. QED
    BY <2>1, <2>2, <2>3 DEF DraftingInv, DraftingTyped, Drafting!TypeOK
<1>2. Drafting!SettledBacked
  <2>1. sourceAt = "done" /\ ~split => manifest /\ \A d \in Drafting!Drafts : Drafting!Filed(d)
    BY DEF DraftingInv, Backed, Drafting!Filed, Drafting!At
  <2>2. ASSUME NEW d \in Drafting!Drafts, "approved" \in drafts[d]
        PROVE  \E p \in promotions : /\ p.draft = d /\ packets[d][p.rev] = "approved"
                                     /\ \E t \in tasks : t.id = p.task /\ t.draft = d
    BY <2>2 DEF DraftingInv, Backed
  <2>3. QED
    BY <2>1, <2>2 DEF Drafting!SettledBacked, Drafting!At
<1>3. Drafting!OneTaskInOrder
  BY DEF DraftingInv, TasksInOrder, HasTask, Drafting!OneTaskInOrder
<1>4. QED
  BY <1>1, <1>2, <1>3, NothingBlocksMeansDone

-----------------------------------------------------------------------------
(* Blocked recovery *)

\* Every variable of BlockedRecovery in its type.
RecoveryTyped ==
    /\ dir \in [Tasks -> {"queue", "active", "blocked", "done"}]
    /\ blockedAs \in [Tasks -> {"none", "transient", "fatal"}]
    /\ failed \in [Tasks -> {"none", "transient", "fatal"}]
    /\ lines \in [Tasks -> Nat] /\ autos \in [Tasks -> Nat] /\ uncounted \in [Tasks -> Int]
    /\ daemonUp \in BOOLEAN /\ overlapped \in BOOLEAN /\ deaths \in Nat
    /\ running \in Tasks \cup {0} /\ onDisk \in Tasks \cup {0}
    /\ pc \in {"idle", "blocked", "requeued"}
    /\ pc # "idle" => daemonUp /\ cur \in Tasks
    /\ retry \in [step : {"off", "check", "move", "load", "save"}, task : Tasks \cup {0},
                  force : BOOLEAN, snapshot : Tasks \cup {0}]
    /\ retry.step # "off" => retry.task \in Tasks

\* A requeue that is under way was within the budget, and has left no line yet.
Auditing(t) == pc = "requeued" /\ cur = t

\* Each automatic requeue left a line in the log, or is one of the uncounted: the
\* one under way, or one a crash cut short.
Booked ==
    \A t \in Tasks :
        /\ autos[t] = lines[t] + uncounted[t] /\ lines[t] <= MaxAuto
        /\ Auditing(t) => lines[t] < MaxAuto /\ uncounted[t] > 0
        /\ uncounted[t] >= 0 /\ uncounted[t] <= deaths + (IF Auditing(t) THEN 1 ELSE 0)

\* A daemon that no retry outlives from before its start is alone with its snapshot.
SnapshotOwned == daemonUp /\ ~overlapped => onDisk = running /\ retry.step = "off"

\* Metadata that is not still to be written tells of the last failure.
Described == \A t \in Tasks \ unwritten : blockedAs[t] = failed[t]

RecoveryInv == RecoveryTyped /\ Booked /\ SnapshotOwned /\ Described

-----------------------------------------------------------------------------
\* The natural numbers are well ordered, said of sets instead of operators.
LEMMA LeastOf ==
  ASSUME NEW R, NEW S, S \subseteq Nat, S # {}, IsWellFoundedOn(R, Nat)
  PROVE  \E x \in S : \A y \in S : ~ (<<y, x>> \in R)
BY WFMin

\* The order of the natural numbers is well founded.
LEMMA BelowWellFounded == IsWellFoundedOn({ss \in Nat \X Nat : ss[1] < ss[2]}, Nat)
BY NatLessThanWellFounded DEF OpToRel

\* A set of natural numbers that is not empty has its least number.
LEMMA LeastIn ==
  ASSUME NEW S, S \subseteq Nat, S # {}
  PROVE  Recovery!Min(S) \in S
<1> DEFINE R == {ss \in Nat \X Nat : ss[1] < ss[2]}
<1>1. PICK x \in S : \A y \in S : ~ (<<y, x>> \in R)
  <2>1. IsWellFoundedOn(R, Nat)
    BY BelowWellFounded
  <2> HIDE DEF R
  <2>2. QED
    BY <2>1, LeastOf
<1>2. ASSUME NEW y \in S PROVE x <= y
  <2>1. <<y, x>> \in Nat \X Nat /\ <<y, x>>[1] = y /\ <<y, x>>[2] = x
    OBVIOUS
  <2>2. ~ (y < x)
    BY <1>1, <2>1
  <2>3. QED
    BY <2>2
<1>3. QED
  BY <1>2 DEF Recovery!Min

\* What an idle daemon may requeue is a blocked task.
LEMMA CandidatesBlocked ==
  ASSUME NEW t \in Recovery!Candidates
  PROVE  t \in Tasks /\ dir[t] = "blocked"
<1>1. Recovery!Compatible # {} /\ t = Recovery!Min(Recovery!Compatible)
  BY DEF Recovery!Candidates
<1>2. \A x \in Recovery!Compatible : x \in Tasks /\ dir[x] = "blocked"
  BY RecoveryAssumption DEF Recovery!Compatible, Recovery!Stranding, Recovery!InDir
<1>3. Recovery!Compatible \subseteq Nat
  BY <1>2, RecoveryAssumption
<1>4. t \in Recovery!Compatible
  BY <1>1, <1>3, LeastIn
<1>5. QED
  BY <1>2, <1>4

\* At the start every task is queued and no daemon is up.
LEMMA RecoveryStart == ASSUME Recovery!Init PROVE RecoveryInv
<1>1. /\ retry = Recovery!NoRetry /\ pc = "idle" /\ ~daemonUp /\ unwritten = {} /\ deaths = 0
      /\ blockedAs = [t \in Tasks |-> "none"] /\ failed = [t \in Tasks |-> "none"]
      /\ lines = [t \in Tasks |-> 0] /\ autos = lines /\ uncounted = lines
  BY DEF Recovery!Init
<1>2. RecoveryTyped
  <2>1. /\ retry \in [step : {"off", "check", "move", "load", "save"}, task : Tasks \cup {0},
                      force : BOOLEAN, snapshot : Tasks \cup {0}]
        /\ retry.step = "off"
    BY <1>1 DEF Recovery!NoRetry
  <2>2. /\ running = 0 /\ onDisk = 0 /\ overlapped \in BOOLEAN /\ dir = [t \in Tasks |-> "queue"]
        /\ 0 \in Tasks \cup {0} /\ daemonUp \in BOOLEAN
    BY DEF Recovery!Init
  <2>3. QED
    BY <1>1, <2>1, <2>2 DEF RecoveryTyped
<1>3. Booked /\ SnapshotOwned /\ Described
  BY <1>1, RecoveryAssumption DEF Booked, Auditing, SnapshotOwned, Described
<1>4. QED
  BY <1>2, <1>3 DEF RecoveryInv

\* No step leaves the types.
LEMMA RecoveryTypedStep ==
  ASSUME RecoveryTyped, Recovery!Next PROVE RecoveryTyped'
<1>1. CASE \E t \in Tasks : Recovery!Claim(t)
  BY <1>1 DEF RecoveryTyped, Recovery!Claim, Recovery!Idle, Recovery!history, Recovery!bounds
<1>2. CASE \E x, y \in BOOLEAN : Recovery!Block(Recovery!Verdict(x, y))
  BY <1>2, RecoveryAssumption DEF RecoveryTyped, Recovery!Block, Recovery!Verdict, Recovery!Idle
<1>3. CASE Recovery!Complete
  BY <1>3, RecoveryAssumption
     DEF RecoveryTyped, Recovery!Complete, Recovery!Idle,
         Recovery!history, Recovery!bounds
<1>4. CASE Recovery!Describe
  BY <1>4 DEF RecoveryTyped, Recovery!Describe, Recovery!bounds
<1>5. CASE Recovery!AutoRequeue
  <2>1. PICK t \in Recovery!Candidates :
          /\ dir' = [dir EXCEPT ![t] = "queue"] /\ autos' = [autos EXCEPT ![t] = @ + 1]
          /\ uncounted' = [uncounted EXCEPT ![t] = @ + 1] /\ cur' = t
    BY <1>5 DEF Recovery!AutoRequeue
  <2>2. t \in Tasks
    BY CandidatesBlocked
  <2>3. QED
    BY <1>5, <2>1, <2>2 DEF RecoveryTyped, Recovery!AutoRequeue, Recovery!Idle, Recovery!bounds
<1>6. CASE Recovery!Audit
  BY <1>6 DEF RecoveryTyped, Recovery!Audit, Recovery!bounds
<1>7. CASE Recovery!IdleCycle
  BY <1>7
     DEF RecoveryTyped, Recovery!IdleCycle, Recovery!Idle, Recovery!files,
         Recovery!history, Recovery!bounds
<1>8. CASE Recovery!Crash
  <2>1. daemonUp' = FALSE /\ running' = 0 /\ pc' = "idle" /\ deaths' \in Nat
    BY <1>8 DEF RecoveryTyped, Recovery!Crash
  <2>2. UNCHANGED <<dir, blockedAs, lines, failed, autos, uncounted, overlapped, onDisk, retry>>
    BY <1>8 DEF Recovery!Crash, Recovery!files, Recovery!history
  <2>3. QED
    BY <2>1, <2>2 DEF RecoveryTyped
<1>9. CASE Recovery!Start
  BY <1>9 DEF RecoveryTyped, Recovery!Start, Recovery!InDir, Recovery!history, Recovery!bounds
<1>10. CASE \E t \in Tasks, force \in BOOLEAN : Recovery!Admit(t, force)
  BY <1>10
     DEF RecoveryTyped, Recovery!Admit, Recovery!NoRetry, Recovery!CliOnly, Recovery!files,
         Recovery!history
<1>11. CASE Recovery!Check
  BY <1>11
     DEF RecoveryTyped, Recovery!Check, Recovery!NoRetry, Recovery!CliOnly, Recovery!files,
         Recovery!history
<1>12. CASE Recovery!Move
  <2>1. \/ retry' = Recovery!NoRetry
        \/ retry' = [retry EXCEPT !.step = "load"] /\ retry.step = "move"
    BY <1>12 DEF Recovery!Move
  <2>2. dir' \in [Tasks -> {"queue", "active", "blocked", "done"}]
    BY <1>12 DEF RecoveryTyped, Recovery!Move
  <2>3. /\ retry' \in [step : {"off", "check", "move", "load", "save"}, task : Tasks \cup {0},
                       force : BOOLEAN, snapshot : Tasks \cup {0}]
        /\ retry'.step # "off" => retry'.task \in Tasks
    <3>1. CASE retry' = Recovery!NoRetry
      BY <3>1 DEF Recovery!NoRetry
    <3>2. CASE retry' = [retry EXCEPT !.step = "load"] /\ retry.step = "move"
      BY <3>2 DEF RecoveryTyped
    <3>3. QED
      BY <2>1, <3>1, <3>2
  <2>4. QED
    BY <1>12, <2>2, <2>3 DEF RecoveryTyped, Recovery!Move, Recovery!CliOnly, Recovery!history
<1>13. CASE Recovery!LoadSnapshot
  BY <1>13 DEF RecoveryTyped, Recovery!LoadSnapshot, Recovery!CliOnly, Recovery!files, Recovery!history
<1>14. CASE Recovery!SaveSnapshot
  BY <1>14 DEF RecoveryTyped, Recovery!SaveSnapshot, Recovery!NoRetry, Recovery!CliOnly,
               Recovery!files, Recovery!history
<1>15. QED
  BY <1>1, <1>2, <1>3, <1>4, <1>5, <1>6, <1>7, <1>8, <1>9, <1>10, <1>11, <1>12, <1>13, <1>14
     DEF Recovery!Next

\* Only the requeue and its line change what the budget is counted from.
LEMMA BookedStep ==
  ASSUME RecoveryTyped, Booked, Recovery!Next PROVE Booked'
<1>1. CASE Recovery!AutoRequeue
  <2>1. PICK t \in Recovery!Candidates :
          /\ Recovery!BudgetLeft(t) /\ autos' = [autos EXCEPT ![t] = @ + 1]
          /\ uncounted' = [uncounted EXCEPT ![t] = @ + 1] /\ cur' = t
    BY <1>1 DEF Recovery!AutoRequeue
  <2>2. t \in Tasks
    BY CandidatesBlocked
  <2>3. pc = "idle" /\ pc' = "requeued" /\ lines' = lines /\ deaths' = deaths /\ lines[t] < MaxAuto
    BY <1>1, <2>1 DEF Recovery!AutoRequeue, Recovery!Idle, Recovery!bounds, Recovery!BudgetLeft
  <2>4. QED
    BY <2>1, <2>2, <2>3, RecoveryAssumption DEF RecoveryTyped, Booked, Auditing
<1>2. CASE Recovery!Audit
  <2>1. /\ pc = "requeued" /\ pc' = "idle" /\ autos' = autos /\ deaths' = deaths /\ cur \in Tasks
        /\ lines' = [lines EXCEPT ![cur] = @ + 1] /\ uncounted' = [uncounted EXCEPT ![cur] = @ - 1]
    BY <1>2 DEF Recovery!Audit, Recovery!bounds, RecoveryTyped
  <2>2. QED
    BY <2>1, RecoveryAssumption DEF RecoveryTyped, Booked, Auditing
<1>3. CASE Recovery!Crash
  <2>1. /\ pc' = "idle" /\ deaths' = deaths + 1 /\ UNCHANGED <<lines, autos, uncounted>>
    BY <1>3 DEF Recovery!Crash, Recovery!files, Recovery!history
  <2>2. QED
    BY <2>1, RecoveryAssumption DEF RecoveryTyped, Booked, Auditing
<1>4. CASE ~(Recovery!AutoRequeue \/ Recovery!Audit \/ Recovery!Crash)
  <2>1. /\ UNCHANGED <<lines, autos, uncounted, deaths>>
        /\ UNCHANGED <<pc, cur>> \/ (pc' # "requeued" /\ pc # "requeued")
    <3>1. CASE \/ \E t \in Tasks : Recovery!Claim(t)
               \/ Recovery!Complete \/ Recovery!Describe \/ Recovery!IdleCycle \/ Recovery!Start
               \/ \E x, y \in BOOLEAN : Recovery!Block(Recovery!Verdict(x, y))
      BY <3>1 DEF Recovery!Claim, Recovery!Block, Recovery!Complete, Recovery!Describe,
                  Recovery!IdleCycle, Recovery!Start, Recovery!Idle, Recovery!files,
                  Recovery!history, Recovery!bounds
    <3>2. CASE \/ \E t \in Tasks, force \in BOOLEAN : Recovery!Admit(t, force)
               \/ Recovery!Check \/ Recovery!Move \/ Recovery!LoadSnapshot \/ Recovery!SaveSnapshot
      BY <3>2 DEF Recovery!Admit, Recovery!Check, Recovery!Move, Recovery!LoadSnapshot,
                  Recovery!SaveSnapshot, Recovery!CliOnly, Recovery!files, Recovery!history
    <3>3. QED
      BY <1>4, <3>1, <3>2 DEF Recovery!Next
  <2>2. QED
    BY <2>1 DEF Booked, Auditing
<1>5. QED
  BY <1>1, <1>2, <1>3, <1>4

\* Nobody but the daemon saves a snapshot while it is the only one.
LEMMA OwnedStep ==
  ASSUME RecoveryTyped, SnapshotOwned, Recovery!Next PROVE SnapshotOwned'
<1>1. CASE (\E t \in Tasks : Recovery!Claim(t)) \/ Recovery!Complete \/ Recovery!Describe
  <2>1. daemonUp /\ onDisk' = running' /\ UNCHANGED <<daemonUp, overlapped, retry>>
    BY <1>1 DEF Recovery!Claim, Recovery!Complete, Recovery!Describe, Recovery!Idle
  <2>2. QED
    BY <2>1 DEF SnapshotOwned
<1>2. CASE \/ Recovery!AutoRequeue \/ Recovery!Audit \/ Recovery!IdleCycle
           \/ \E x, y \in BOOLEAN : Recovery!Block(Recovery!Verdict(x, y))
  BY <1>2 DEF SnapshotOwned, Recovery!AutoRequeue, Recovery!Audit, Recovery!IdleCycle, Recovery!Block
<1>3. CASE Recovery!Crash \/ Recovery!Start
  BY <1>3 DEF SnapshotOwned, Recovery!Crash, Recovery!Start, Recovery!InDir
<1>4. CASE \E t \in Tasks, force \in BOOLEAN : Recovery!Admit(t, force)
  BY <1>4 DEF SnapshotOwned, Recovery!Admit, Recovery!CliOnly
<1>5. CASE Recovery!Check \/ Recovery!Move \/ Recovery!LoadSnapshot \/ Recovery!SaveSnapshot
  <2>1. retry.step # "off" /\ UNCHANGED <<daemonUp, overlapped>>
    BY <1>5 DEF Recovery!Check, Recovery!Move, Recovery!LoadSnapshot, Recovery!SaveSnapshot,
                Recovery!CliOnly
  <2>2. QED
    BY <2>1 DEF SnapshotOwned
<1>6. QED
  BY <1>1, <1>2, <1>3, <1>4, <1>5 DEF Recovery!Next

\* A block records its verdict and says that nothing is written yet.
LEMMA DescribedStep ==
  ASSUME RecoveryTyped, Described, Recovery!Next PROVE Described'
<1>1. CASE \E x, y \in BOOLEAN : Recovery!Block(Recovery!Verdict(x, y))
  BY <1>1 DEF RecoveryTyped, Described, Recovery!Block
<1>2. CASE Recovery!Describe
  BY <1>2 DEF RecoveryTyped, Described, Recovery!Describe
<1>3. CASE ~((\E x, y \in BOOLEAN : Recovery!Block(Recovery!Verdict(x, y))) \/ Recovery!Describe)
  <2>1. UNCHANGED <<blockedAs, failed, unwritten>>
    BY <1>3 DEF Recovery!Next, Recovery!Claim, Recovery!Complete, Recovery!AutoRequeue, Recovery!Audit,
                Recovery!IdleCycle, Recovery!Crash, Recovery!Start, Recovery!Admit, Recovery!Check,
                Recovery!Move, Recovery!LoadSnapshot, Recovery!SaveSnapshot, Recovery!CliOnly,
                Recovery!files, Recovery!history, Recovery!bounds
  <2>2. QED
    BY <2>1 DEF Described
<1>4. QED
  BY <1>1, <1>2, <1>3

\* The invariant of a recovery that runs, or that another part leaves alone.
LEMMA RecoveryStep ==
  ASSUME RecoveryInv, Recovery!Next \/ UNCHANGED blockVars PROVE RecoveryInv'
<1>1. CASE Recovery!Next
  BY <1>1, RecoveryTypedStep, BookedStep, OwnedStep, DescribedStep DEF RecoveryInv
<1>2. CASE UNCHANGED blockVars
  BY <1>2 DEF blockVars, RecoveryInv, RecoveryTyped, Booked, Auditing, SnapshotOwned, Described
<1>3. QED
  BY <1>1, <1>2

\* What the invariant says of the run's properties.
LEMMA RecoveryMeans ==
  ASSUME RecoveryInv PROVE Recovery!TypeOK /\ Recovery!AutoBudget /\ Recovery!SnapshotIsTheDaemons
<1>1. Recovery!TypeOK
  BY DEF RecoveryInv, RecoveryTyped, Recovery!TypeOK
<1>2. Recovery!AutoBudget
  BY RecoveryAssumption DEF RecoveryInv, RecoveryTyped, Booked, Auditing, Recovery!AutoBudget
<1>3. Recovery!SnapshotIsTheDaemons
  BY DEF RecoveryInv, SnapshotOwned, Recovery!SnapshotIsTheDaemons, Recovery!Idle
<1>4. QED
  BY <1>1, <1>2, <1>3

\* An automatic requeue has read metadata that allows it.
LEMMA RequeuedWasTransient ==
  ASSUME RecoveryInv, Recovery!Next \/ UNCHANGED blockVars
  PROVE  \A t \in Tasks : autos'[t] # autos[t] => failed[t] = "transient" \/ t \in unwritten
<1>1. CASE Recovery!AutoRequeue
  <2>1. PICK t \in Recovery!Candidates :
          blockedAs[t] = "transient" /\ autos' = [autos EXCEPT ![t] = @ + 1]
    BY <1>1 DEF Recovery!AutoRequeue, Recovery!AllowsAuto
  <2>2. QED
    BY <2>1, CandidatesBlocked DEF RecoveryInv, RecoveryTyped, Described
<1>2. CASE ~Recovery!AutoRequeue
  <2>1. UNCHANGED autos
    BY <1>2 DEF Recovery!Next, Recovery!Claim, Recovery!Block, Recovery!Complete, Recovery!Describe,
                Recovery!Audit, Recovery!IdleCycle, Recovery!Crash, Recovery!Start, Recovery!Admit,
                Recovery!Check, Recovery!Move, Recovery!LoadSnapshot, Recovery!SaveSnapshot,
                Recovery!CliOnly, Recovery!history, blockVars
  <2>2. QED
    BY <2>1
<1>3. QED
  BY <1>1, <1>2

-----------------------------------------------------------------------------
(* The composition                                                          *)

DispatchInv == PlanInv /\ GateInv /\ DraftingInv /\ RecoveryInv

\* The invariant of each part holds at the start, ...
LEMMA DispatchStart == ASSUME DispatchInit PROVE DispatchInv
BY PlanStart, GateStart, DraftingStart, RecoveryStart, GateAssumption
   DEF DispatchInit, DispatchInv, GateInv

\* What a step of the composition is to each of the four.
LEMMA StepOfEach ==
  ASSUME [DispatchNext]_dispatchVars
  PROVE  /\ Next \/ UNCHANGED vars
         /\ Gate!Next \/ UNCHANGED gateVars
         /\ Drafting!Next \/ UNCHANGED draftVars
         /\ Recovery!Next \/ UNCHANGED blockVars
BY DEF DispatchNext, dispatchVars

\* ... and is kept by a step of any part.
LEMMA DispatchStep ==
  ASSUME DispatchInv, [DispatchNext]_dispatchVars PROVE DispatchInv'
BY StepOfEach, PlanStep, GateStep, DraftingStep, RecoveryStep DEF DispatchInv

\* The inductive invariant holds in every state of every behaviour.
THEOREM DispatchKeeps == DispatchSpec => []DispatchInv
BY DispatchStart, DispatchStep, PTL DEF DispatchSpec

-----------------------------------------------------------------------------
(* The properties of the run                                                *)

\* Every variable of the four modules keeps its type.
THEOREM TypesCorrect == DispatchSpec => []TypesOK
<1>1. DispatchInv => TypesOK
  BY PlanMeans, GateMeans, DraftingMeans, RecoveryMeans DEF DispatchInv, TypesOK
<1>2. QED
  BY <1>1, DispatchKeeps, PTL

\* The plan on disk and the plan a daemon runs on are closed and grant nothing that
\* their config denies, whatever documents are edited while they are compiled
\* (compile_and_persist_workspace_plan): a document that would break this is refused.
THEOREM PlansAreSound == DispatchSpec => []PlansSound
<1>1. DispatchInv => PlansSound
  BY PlanMeans DEF DispatchInv
<1>2. QED
  BY <1>1, DispatchKeeps, PTL

\* A daemon that goes on after a reload runs on the plan that the reload compiled,
\* never on an older one (refuse_stale_last_known_good).
THEOREM ReloadsFresh == DispatchSpec => ReloadNeverStale
<1>1. ASSUME DispatchInv, [DispatchNext]_dispatchVars
      PROVE  [daemon = "reloading" /\ daemon' = "up"
                => compile["daemon"].ok /\ session' = compile["daemon"].plan]_vars
  BY <1>1, StepOfEach, ReloadsOnlyOk DEF DispatchInv
<1>2. QED
  BY <1>1, DispatchKeeps, PTL DEF DispatchSpec, ReloadNeverStale

\* A request for approval that was filed stays on file, pending or resolved, while
\* the command line and the daemon decide it in two steps each
\* (resolve_approval).
THEOREM RequestsStay == DispatchSpec => []RequestsKept
<1>1. DispatchInv => RequestsKept
  BY GateMeans DEF DispatchInv, RequestsKept
<1>2. QED
  BY <1>1, DispatchKeeps, PTL

\* A runner is started only with an approval on record, under the ids of its own
\* request, for each grant that needs one (evaluate_stage_request_capabilities).
THEOREM StartedAsDecided == DispatchSpec => LaunchedAsDecided
<1>1. ASSUME DispatchInv, [DispatchNext]_dispatchVars
      PROVE  \A l \in launched' \ launched : \A k \in l.keys :
               asked[k] # Gate!Nobody /\ "approved" \in decided[k]
  BY <1>1, StepOfEach, LaunchedApproved DEF DispatchInv
<1>2. QED
  BY <1>1, DispatchKeeps, PTL DEF DispatchSpec, LaunchedAsDecided, Gate!LaunchedAsDecided

\* Through failed writes, crashes and cancelled tasks a source is settled only by
\* what it produced, a root without blockers has only executed drafts, and tasks
\* follow the order of their drafts (the Blueprint effect handlers).
THEOREM DraftsAreAccounted == DispatchSpec => []DraftsAccounted
<1>1. DispatchInv => DraftsAccounted
  BY DraftingMeans DEF DispatchInv, DraftsAccounted
<1>2. QED
  BY <1>1, DispatchKeeps, PTL

\* Automatic requeues keep to their budget but for one for each death of the daemon
\* between the move and its log line, and between two steps of the daemon the
\* snapshot on disk names its run (count_auto_requeues).
THEOREM RequeuesAreBooked == DispatchSpec => []RequeuesBooked
<1>1. DispatchInv => RequeuesBooked
  BY RecoveryMeans DEF DispatchInv, RequeuesBooked
<1>2. QED
  BY <1>1, DispatchKeeps, PTL

\* Only a task whose last failure was transient is requeued automatically, unless
\* its metadata was never written.
THEOREM OnlyTransient == DispatchSpec => TransientOnly
<1>1. ASSUME DispatchInv, [DispatchNext]_dispatchVars
      PROVE  \A t \in Tasks : autos'[t] # autos[t] => failed[t] = "transient" \/ t \in unwritten
  BY <1>1, StepOfEach, RequeuedWasTransient DEF DispatchInv
<1>2. QED
  BY <1>1, DispatchKeeps, PTL DEF DispatchSpec, TransientOnly, Recovery!TransientOnly
=============================================================================
