---------------------------- MODULE PlanCompiler ----------------------------
(***************************************************************************)
(* The compiler: from a mode, its graphs, stage kinds, workflow primitives *)
(* and the runtime config to a frozen run plan, or to none.                *)
(*                                                                         *)
(* Documents are records; "" stands for an absent name, 0 for an absent    *)
(* number.  The texts of the definitions (ids, titles, paths) are taken to *)
(* be well formed: parsing and normalisation are not modelled.  An         *)
(* operator whose name ends in Shape or Contract says what is accepted.    *)
(***************************************************************************)
EXTENDS Naturals, Sequences, FiniteSets, SequencesExt

Given(f, k, otherwise) == IF k \in DOMAIN f THEN f[k] ELSE otherwise

Chosen(first, second) == IF first # "" THEN first ELSE second

Items(s) == ToSet(s)

Unique(s, Key(_)) == \A i, j \in DOMAIN s : Key(s[i]) = Key(s[j]) => i = j

Ids(s) == {x.id : x \in Items(s)}

-----------------------------------------------------------------------------
(* Graph documents *)

EdgeShape(e) ==
    /\ (e.to = "") # (e.term = "")
    /\ e.kind = "terminal" => e.term # ""
    /\ (e.kind = "retry") = (e.attempts > 0)

EdgeDefinition(e) == e.on # {} /\ EdgeShape(e)

ThresholdShape(t) ==
    t.from # {} /\ t.threshold > 0 /\ (t.to = "") # (t.term = "")

PolicyIds(g) == Ids(g.resumes) \cup Ids(g.thresholds)

DynamicPolicies(g) ==
    /\ \A t \in Items(g.thresholds) : ThresholdShape(t)
    /\ Cardinality(PolicyIds(g)) = Len(g.resumes) + Len(g.thresholds)

\* What a probe found is filed by the runtime: it is never routed to a node.
ReconHandoff(g) ==
    \A e \in Items(g.edges) : \A n \in Items(g.nodes) :
        n.id = e.from /\ n.kind = "recon" /\ e.to # "" =>
            e.on \cap {"RECON_TO_EXECUTION", "RECON_TO_PLANNING"} = {}

Known(ids, id) == id = "" \/ id \in ids

CompletionShape(c) == c.pass # c.gap

GraphContract(g) ==
    LET nodes == Ids(g.nodes)  terms == Ids(g.terms) IN
    /\ <<>> \notin {g.nodes, g.edges, g.entries, g.terms}
    /\ \A e \in Items(g.edges) : EdgeDefinition(e)
    /\ DynamicPolicies(g) /\ ReconHandoff(g)
    /\ Unique(g.nodes, LAMBDA n : n.id) /\ Unique(g.edges, LAMBDA e : e.id)
    /\ Unique(g.terms, LAMBDA t : t.id) /\ Unique(g.entries, LAMBDA e : e.key)
    /\ \A e \in Items(g.entries) : e.node \in nodes
    /\ \A e \in Items(g.edges) : e.from \in nodes /\ Known(nodes, e.to) /\ Known(terms, e.term)
    /\ \A r \in Items(g.resumes) : {r.from, r.to} \cup r.never \subseteq nodes
    /\ \A t \in Items(g.thresholds) : t.from \subseteq nodes /\ Known(nodes, t.to) /\ Known(terms, t.term)
    /\ \A c \in g.completion :
         CompletionShape(c) /\ c.node \in nodes /\ {c.pass, c.gap} \subseteq terms

StageKindRefs(g, kinds) ==
    \A n \in Items(g.nodes) : n.kind \in DOMAIN kinds /\ kinds[n.kind].plane = g.plane

StageKindContract(k) ==
    /\ k.legal # {} /\ k.success \cup k.failure \subseteq k.legal
    /\ DOMAIN k.classes = k.legal
    /\ \A o \in k.legal : k.classes[o] # {}
    /\ \A o \in k.legal :
         IF o = "BLOCKED" THEN k.classes[o] \subseteq {"blocked", "recoverable_failure"}
         ELSE Cardinality(k.classes[o]) = 1
    /\ \A o \in k.success : "success" \in k.classes[o]
    /\ \A o \in k.failure : "success" \notin k.classes[o]

\* The fields a node may set over its stage kind.
DeclaredOverrides(n) ==
    {f \in {"entry", "runner", "model"} : n[f] # ""}
        \cup {f \in {"skills"} : n[f] # {}} \cup {f \in {"timeout"} : n[f] # 0}

GraphSemantics(g, kinds) ==
    LET kindOf(id) == kinds[(CHOOSE n \in Items(g.nodes) : n.id = id).kind] IN
    /\ \A n \in Items(g.nodes) : DeclaredOverrides(n) \subseteq kinds[n.kind].overridable
    /\ \A e \in Items(g.edges) : e.on \subseteq kindOf(e.from).legal
    /\ \A r \in Items(g.resumes) : r.on \in kindOf(r.from).legal
    /\ \A t \in Items(g.thresholds) : \A id \in t.from : t.on \in kindOf(id).legal
    /\ \A c \in g.completion : kindOf(c.node).closure

-----------------------------------------------------------------------------
(* Modes *)

PlaneGroups(policy) == {} \notin policy.exclusive \cup policy.concurrent

TriggerContract(t, kinds) ==
    /\ t.plane # "learning" /\ t.on # {}
    /\ t.source \in DOMAIN kinds =>
         kinds[t.source].plane = t.plane /\ t.on \subseteq kinds[t.source].legal

ModeContract(mode, kinds) ==
    /\ {"execution", "planning"} \subseteq DOMAIN mode.loops
    /\ PlaneGroups(mode.concurrency)
    /\ \A t \in Items(mode.triggers) : TriggerContract(t, kinds)
    /\ mode.triggers # <<>> => "learning" \in DOMAIN mode.loops

SelectedKinds(graphs) == UNION {{n.kind : n \in Items(g.nodes)} : g \in graphs}

ModeStageMaps(mode, graphs) ==
    UNION {DOMAIN mode[f] : f \in {"entries", "skills", "runner", "model", "thinking",
                                   "stageRequests", "stagePolicies"}}
        \subseteq SelectedKinds(graphs)

LearningTriggers(mode, graphs) ==
    \A t \in Items(mode.triggers) :
        /\ {t.source, t.target} \subseteq SelectedKinds(graphs)
        /\ t.target = "curator" => t.skill # "" \/ t.paths # {}

-----------------------------------------------------------------------------
(* The config *)

Decisions == {"allow", "deny", "approval_required"}

CapabilitiesContract(caps) ==
    caps.unknown \in Decisions /\ \A c \in DOMAIN caps.defaults : caps.defaults[c] \in Decisions

ConfigContract(config) ==
    /\ \A counter \in DOMAIN config.recovery : config.recovery[counter] > 0
    /\ \A kind \in DOMAIN config.timeouts : config.timeouts[kind] > 0
    /\ \A kind \in DOMAIN config.effort :
         /\ config.effort[kind] \in {"low", "medium", "high", "xhigh"}
         /\ kind \in DOMAIN config.thinking => config.thinking[kind] = config.effort[kind]
    /\ CapabilitiesContract(config.caps)

-----------------------------------------------------------------------------
(* Execution capabilities.  A request asks for a capability with an access  *)
(* in a scope; a policy decides about a capability, in one scope or in all. *)

Request(cap, access, scope, required, enforce, source) ==
    [cap |-> cap, access |-> access, scope |-> scope, required |-> required,
     enforce |-> enforce, source |-> source]

FrameworkRequests(runner) ==
    << Request("runner.invoke", "execute", Chosen(runner, "default"), TRUE, FALSE, "stage_kind_default"),
       Request("workspace.read", "read", "workspace", TRUE, FALSE, "stage_kind_default"),
       Request("artifact.write", "write", "stage_result", TRUE, FALSE, "stage_kind_default") >>

RequestKey(r) == <<r.cap, r.access, r.scope>>

\* Requests of one key are merged into the first, as strict as the strictest.
Merged(requests) ==
    LET firsts == SelectSeq([i \in DOMAIN requests |-> [r |-> requests[i],
                     new |-> \A j \in 1..(i-1) : RequestKey(requests[j]) # RequestKey(requests[i])]],
                     LAMBDA x : x.new)
        same(r) == {q \in Items(requests) : RequestKey(q) = RequestKey(r)}
    IN [i \in DOMAIN firsts |->
          [firsts[i].r EXCEPT !.required = \E q \in same(firsts[i].r) : q.required,
                              !.enforce = \E q \in same(firsts[i].r) : q.enforce]]

Requests(n, kind, mode, runner) ==
    Merged(FrameworkRequests(runner) \o kind.requests \o n.requests \o mode.requests
             \o Given(mode.stageRequests, n.kind, <<>>))

Policies(n, kind, mode) ==
    [graph_node |-> n.policies \o n.overrides,
     mode |-> mode.policies \o Given(mode.stagePolicies, n.kind, <<>>),
     stage_kind |-> kind.policies]

ScopeMatches(p, r) == p.cap = r.cap /\ p.scope \in {"", r.scope}

\* The last policy of a source that matches the request.
LastMatch(ps, r) ==
    LET hits == {i \in DOMAIN ps : ScopeMatches(ps[i], r)} IN
    IF hits = {} THEN "none" ELSE ps[CHOOSE i \in hits : \A j \in hits : j <= i].decision

FrameworkRequest(r) ==
    r.source = "stage_kind_default" /\ r.cap \in {"runner.invoke", "workspace.read", "artifact.write"}

\* Defect: what the documents say goes before what the operator configured.
DecisionDocumentsFirst(r, policies, caps) ==
    LET node == LastMatch(policies.graph_node, r)  mode == LastMatch(policies.mode, r) IN
    IF node # "none" THEN node
    ELSE IF mode # "none" THEN mode
    ELSE Given(caps.defaults, r.cap, "allow")

Decision(r, policies, caps) ==
    LET node == LastMatch(policies.graph_node, r)
        mode == LastMatch(policies.mode, r)
        kind == LastMatch(policies.stage_kind, r) IN
    IF r.cap \in DOMAIN caps.defaults THEN caps.defaults[r.cap]
    ELSE IF node # "none" THEN node
    ELSE IF mode # "none" THEN mode
    ELSE IF kind # "none" THEN kind
    ELSE IF FrameworkRequest(r) THEN "allow"
    ELSE caps.unknown

RuntimeEnforced(cap) ==
    cap \in {"runner.invoke", "artifact.read", "artifact.write", "evidence.emit", "runtime.control"}

Advisory(r, decision) == decision = "allow" /\ ~RuntimeEnforced(r.cap)

\* A required grant that nothing enforces makes a strict compile fail.
GrantRefused(r, decision, caps) ==
    Advisory(r, decision) /\ r.required /\ (r.enforce \/ caps.failAdvisory)

Evidence(r, enforcement) ==
    IF enforcement = "not_applicable" THEN {}
    ELSE {"runner_invocation", "runner_completion"}
           \cup {e \in {"capability_evidence"} : r.enforce}

Grant(r, decision, caps) ==
    LET unsupported == Advisory(r, decision) /\ r.required /\ ~caps.allowAdvisory
        state == CASE decision = "allow" -> IF unsupported THEN "unsupported" ELSE "granted"
                   [] decision = "deny" -> "denied"
                   [] OTHER -> "approval_required"
        enforcement == IF state # "granted" THEN "not_applicable"
                       ELSE IF RuntimeEnforced(r.cap) THEN "runtime_enforced" ELSE "advisory_only"
    IN [cap |-> r.cap, scope |-> r.scope, required |-> r.required, state |-> state,
        enforcement |-> enforcement, evidence |-> Evidence(r, enforcement)]

Warnings(grants) ==
    {<<g.cap, g.state>> : g \in {g \in Items(grants) : g.state # "granted"}}
        \cup {<<g.cap, "advisory">> : g \in {g \in Items(grants) : g.enforcement = "advisory_only"}}

GrantsRefused(n, kind, mode, runner, caps) ==
    /\ caps.enabled
    /\ \E r \in Items(Requests(n, kind, mode, runner)) :
         GrantRefused(r, Decision(r, Policies(n, kind, mode), caps), caps)

Grants(n, kind, mode, runner, caps) ==
    LET requests == Requests(n, kind, mode, runner) IN
    IF ~caps.enabled THEN <<>>
    ELSE [i \in DOMAIN requests |->
            Grant(requests[i], Decision(requests[i], Policies(n, kind, mode), caps), caps)]

GrantSummary(nodes) ==
    LET grants == UNION {{<<n.id, i, n.grants[i].state>> : i \in DOMAIN n.grants} : n \in nodes} IN
    [s \in {"granted", "denied", "approval_required", "unsupported"} |->
        Cardinality({g \in grants : g[3] = s})]

-----------------------------------------------------------------------------
(* Workflow primitives *)

\* The handlers this build implements.
Implemented ==
    {"planner_disposition", "manager_blueprint_manifest_to_blueprint_drafts",
     "contractor_blueprint_candidate_persist", "evaluator_blueprint_approved_to_task",
     "evaluator_blueprint_rejected_to_draft_revision"}

NodeIds(graphs) == UNION {Ids(g.nodes) : g \in graphs}

\* What the selected graphs can use; families, adapters, actions and lifecycle
\* plans are kept whole.
SelectPrimitives(prims, graphs) ==
    LET rules == {r \in prims.rules : r.node \in NodeIds(graphs)} IN
    [prims EXCEPT
        !.rules = rules,
        !.handlers = {h \in @ : \E r \in rules : r.handler = h.id},
        !.claims = {c \in @ : \E g \in graphs : g.plane = c.plane},
        !.recovery = {p \in @ : p.from \cap NodeIds(graphs) # {}}]

FamilyAdapters(prims) ==
    /\ \A f \in prims.families : \E a \in prims.adapters : a.id = f.adapter /\ f.id \in a.families
    /\ \A a \in prims.adapters : a.families \subseteq {f.id : f \in prims.families}

EffectRules(prims) ==
    LET families == {f.id : f \in prims.families} IN
    /\ \A h \in prims.handlers : h.id \in Implemented /\ h.families \subseteq families
    /\ \A r \in prims.rules :
         r.handler \in {h.id : h \in prims.handlers} /\ r.destination \in families \cup {""}
    /\ \A r, s \in prims.rules : r # s /\ r.node = s.node => r.on \cap s.on = {}

\* The first terminal action in the registry that passes a test.
FirstAction(prims, Test(_)) ==
    LET hits == {i \in DOMAIN prims.actions : Test(prims.actions[i])} IN
    IF hits = {} THEN "" ELSE prims.actions[CHOOSE i \in hits : \A j \in hits : i <= j].id

ActionOfPlan(prims, plan) == FirstAction(prims, LAMBDA a : a.plan = plan)

ActionOfClass(prims, class) == FirstAction(prims, LAMBDA a : a.class = class)

TerminalActions(prims) ==
    /\ \A a \in Items(prims.actions) : ~a.mutates \/ a.plan \in prims.plans
    /\ \A r \in prims.rules : r.plan # "" => r.plan \in prims.plans /\ ActionOfPlan(prims, r.plan) # ""
    /\ \A a \in Items(prims.actions) : a.rules \subseteq {r.id : r \in prims.rules}

WorkspaceEpoch(prims) == prims.epoch = "v0.20"

BlueprintEntries == {"blueprint_draft"}
BlueprintNodes == {"manager_blueprint", "contractor_blueprint", "evaluator_blueprint", "mechanic_blueprint"}

GraphReferences(prims, graphs) ==
    LET families == {f.id : f \in prims.families} IN
    \A g \in graphs :
        /\ {e.key : e \in Items(g.entries)} \subseteq families
        /\ \E c \in prims.claims :
             /\ c.plane = g.plane /\ Items(c.order) \subseteq families
             /\ c.empty = "check_completion" => g.completion # {}
        /\ g.loop = "planning.blueprint" =>
             BlueprintEntries \cup BlueprintNodes \subseteq
                 {e.key : e \in Items(g.entries)} \cup Ids(g.nodes) \cup {n.kind : n \in Items(g.nodes)}

\* Every plane has one lane with one run at a time; lanes of other planes may
\* run beside it.
LanePolicy(graphs) ==
    [plane \in {g.plane : g \in graphs} |->
        [maxRuns |-> 1, release |-> "after_result_application", beside |-> {g.plane : g \in graphs}]]

PrimitivesContract(prims, graphs) ==
    /\ FamilyAdapters(prims) /\ EffectRules(prims) /\ TerminalActions(prims)
    /\ WorkspaceEpoch(prims) /\ GraphReferences(prims, graphs)

Profile(n, plane, prims) ==
    IF n.kind \in prims.profiles THEN n.kind
    ELSE IF plane = "learning" /\ "learning" \in prims.profiles THEN "learning"
    ELSE ""

-----------------------------------------------------------------------------
(* Materialisation *)

Entrypoint(n, kind, mode) ==
    Chosen(Given(mode.entries, n.kind, ""), Chosen(n.entry, kind.entry))

\* A field ("runner", "model", "thinking") that the mode, else the config, else
\* the node sets.
Binding(n, field, mode, config) ==
    Given(mode[field], n.kind, Chosen(Given(config[field], n.kind, ""), n[field]))

\* One transition for each outcome of an edge.
Transitions(g) ==
    UNION {{[from |-> e.from, on |-> o, to |-> e.to, term |-> e.term] : o \in e.on} : e \in Items(g.edges)}

ThresholdOf(t, config) == config.recovery[t.counter]

Thresholds(g, config) ==
    {[t EXCEPT !.threshold = ThresholdOf(t, config)] : t \in Items(g.thresholds)}

\* An effect rule that has a lifecycle plan decides the action of its outcomes,
\* else the class of the terminal state does.
TerminalMapping(n, g, prims) ==
    LET byRule(o) == {r \in prims.rules : r.node = n.id /\ o \in r.on /\ r.plan # ""}
        ends == {t \in Transitions(g) : t.from = n.id /\ t.term # ""}
        class(t) == (CHOOSE s \in Items(g.terms) : s.id = t.term).class
        outcomes == {t.on : t \in ends}
                      \cup UNION {r.on : r \in {r \in prims.rules : r.node = n.id /\ r.plan # ""}}
    IN [o \in outcomes |->
          IF byRule(o) # {} THEN ActionOfPlan(prims, (CHOOSE r \in byRule(o) : TRUE).plan)
          ELSE ActionOfClass(prims, class(CHOOSE t \in ends : t.on = o))]

NodePlan(n, g, in) ==
    LET kind == in.kinds[n.kind]
        bound(field) == Binding(n, field, in.mode, in.config)
        runner == bound("runner")
        grants == Grants(n, kind, in.mode, runner, in.config.caps) IN
    [id |-> n.id, kind |-> n.kind, lane |-> g.plane, entry |-> Entrypoint(n, kind, in.mode),
     skills |-> n.skills \cup Given(in.mode.skills, n.kind, {}),
     runner |-> runner, model |-> bound("model"),
     effort |-> IF runner = "codex_cli" THEN bound("thinking") ELSE "",
     timeout |-> Given(in.config.timeouts, n.kind, IF n.timeout = 0 THEN 3600 ELSE n.timeout),
     classes |-> kind.classes, grants |-> grants, warnings |-> Warnings(grants),
     profile |-> Profile(n, g.plane, in.prims),
     rules |-> {r.id : r \in {r \in in.prims.rules : r.node = n.id}},
     actions |-> TerminalMapping(n, g, in.prims)]

PlanePlan(g, in) ==
    [loop |-> g.loop, nodes |-> {NodePlan(n, g, in) : n \in Items(g.nodes)},
     entries |-> [k \in {e.key : e \in Items(g.entries)} |->
                    (CHOOSE e \in Items(g.entries) : e.key = k).node],
     transitions |-> Transitions(g), resumes |-> Items(g.resumes),
     thresholds |-> Thresholds(g, in.config), terms |-> Ids(g.terms),
     completion |-> {c.node : c \in g.completion}]

\* No action for the class of a terminal state is an error too.
PlanePlanContract(p) ==
    \A n \in p.nodes : \A o \in DOMAIN n.actions : n.actions[o] # ""

PlanId(mode, planes) == <<mode.id, mode.loops, planes, mode.concurrency, mode.triggers>>

RunPlan(in, planes) ==
    [id |-> PlanId(in.mode, planes), mode |-> in.mode.id, planes |-> planes,
     rules |-> in.prims.rules, lanes |-> LanePolicy(in.graphs),
     summary |-> [p \in DOMAIN planes |-> GrantSummary(planes[p].nodes)],
     triggers |-> Items(in.mode.triggers)]

RunPlanContract(plan) ==
    /\ {"execution", "planning"} \subseteq DOMAIN plan.planes
    /\ plan.triggers # {} => "learning" \in DOMAIN plan.planes

\* What the resolution of the assets checks before anything is materialised.
AssetsAccepted(in) ==
    /\ ModeContract(in.mode, in.kinds)
    /\ \A g \in in.graphs : GraphContract(g)
    /\ \A g \in in.graphs : StageKindRefs(g, in.kinds)
    /\ \A k \in SelectedKinds(in.graphs) : StageKindContract(in.kinds[k])
    /\ ModeStageMaps(in.mode, in.graphs)
    /\ PrimitivesContract(in.prims, in.graphs)

Materialisable(in) ==
    /\ \A g \in in.graphs : GraphSemantics(g, in.kinds)
    /\ \A g \in in.graphs : \A n \in Items(g.nodes) :
         ~GrantsRefused(n, in.kinds[n.kind], in.mode, Binding(n, "runner", in.mode, in.config), in.config.caps)
    /\ LearningTriggers(in.mode, in.graphs)

\* The plans of an input: one, or none if the compile fails.
Compile(sources) ==
    LET in == [sources EXCEPT !.prims = SelectPrimitives(@, sources.graphs)] IN
    IF ~AssetsAccepted(in) \/ ~Materialisable(in) THEN {}
    ELSE LET planes == [p \in {g.plane : g \in in.graphs} |->
                          PlanePlan(CHOOSE g \in in.graphs : g.plane = p, in)]
             plan == RunPlan(in, planes)
         IN IF RunPlanContract(plan) /\ \A p \in DOMAIN planes : PlanePlanContract(planes[p])
            THEN {plan} ELSE {}
=============================================================================
