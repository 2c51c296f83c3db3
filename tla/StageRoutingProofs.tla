------------------------- MODULE StageRoutingProofs -------------------------
(* Type correctness, one incident for a run, and the budgets of fixes and   *)
(* repairs, for every graph, policy, set of items, threshold and number of  *)
(* faults.                                                                  *)
EXTENDS StageRouting, TLAPS

(* A snapshot gives a run to active items of its plane only. *)
Owned(s) ==
  \A p \in Planes : s.item[p] # None => PlaneOf[s.item[p]] = p /\ place[s.item[p]] = "active"

(* A decision is applied to a run, and only a probe or the like is promoted. *)
Applying ==
  /\ pc \in {"apply", "counted", "filed"} => mem.item[todo.plane] # None
  /\ pc = "apply" /\ todo.to = "promote" => PlaneOf[item] # "execution"

(* There is room for the incident of a run that has not filed it yet. *)
IncidentRoom ==
  \A i \in Items : PlaneOf[i] = "execution" =>
    /\ children[i] <= runs[i]
    /\ place[i] = "active" /\ i \notin taken => children[i] < runs[i]

IInv == TypeOK /\ Owned(mem) /\ Owned(saved) /\ Applying /\ IncidentRoom

-----------------------------------------------------------------------------
(* Types of what the actions are built from *)

(* No node bears the name of an end. *)
LEMMA Names ==
  /\ Nodes \cap Ends = {} /\ Nodes \subseteq Classes
  /\ \A p \in Planes : Repairer[p] \in Nodes \cup {None} /\ LastResort[p] \in Nodes \cup Ends \cup {None}
  /\ \A p \in Planes : StaleStage(p) \in Nodes \cup {None}
  BY ConstantsAssumption, GraphAssumption
  DEF Planes, Ends, Classes, Repairer, LastResort, StaleStage, RecoveryStages

(* An empty snapshot has no run. *)
LEMMA FreshType == Fresh \in Snapshots /\ \A p \in Planes : Fresh.item[p] = None
  BY DEF Fresh, Snapshots

(* The failure class of a decision is a class. *)
LEMMA ClassType ==
  ASSUME NEW s \in Snapshots, NEW reported \in Reported \cup {None}, NEW default \in Classes
  PROVE  FailureClass(s, reported, default) \in Classes
  BY DEF FailureClass, Snapshots, Classes

(* The router decides for the plane of the result. *)
LEMMA RoutesType ==
  ASSUME NEW s \in Snapshots, NEW p \in Planes, NEW on \in Outcomes,
         NEW reported \in Reported \cup {None}, s.node[p] \in Nodes,
         NEW d \in Routes(s, p, on, reported)
  PROVE  /\ d \in Decisions /\ d.plane = p
         /\ d.to = "promote" => \E e \in Edges : e.from = s.node[p] /\ e.to = "promote"
<1> DEFINE n == s.node[p]
           default == IF on = "fix" THEN "fix_cycle_exhausted" ELSE n
           class == FailureClass(s, reported, default)
           Decide(to, c) == [plane |-> p, on |-> on, to |-> to, class |-> c]
<1>1. default \in Classes
  BY Names DEF Classes
<1>2. class \in Classes
  BY <1>1, ClassType
<1> HIDE DEF default
<1>3. CASE Exhausted(s, p, on, class)
  <2>1. d = Decide(IF on = "fix" THEN Repairer[p] ELSE LastResort[p], class)
    BY <1>3 DEF Routes, default
  <2>2. Repairer[p] # "promote" /\ LastResort[p] # "promote"
    BY ConstantsAssumption, GraphAssumption DEF Repairer, LastResort, Planes, Ends
  <2>3. QED
    BY <2>1, <2>2, <1>2, Names DEF Decisions
<1>4. CASE ~Exhausted(s, p, on, class) /\ on = "done" /\ n \in DOMAIN Resume
  <2>1. PICK m \in Resume[n] : d = Decide(m, None)
    BY <1>4 DEF Routes, default
  <2>2. m \in Nodes
    BY <1>4, ConstantsAssumption
  <2>3. QED
    BY <2>1, <2>2, Names DEF Decisions, Ends
<1>5. CASE ~Exhausted(s, p, on, class) /\ ~(on = "done" /\ n \in DOMAIN Resume)
  <2>1. PICK e \in Edges : /\ e.from = n /\ e.on = on
                           /\ d = Decide(e.to, IF on = "blocked" /\ p # "learning" THEN class ELSE None)
    BY <1>5 DEF Routes, default
  <2>2. e.to \in Nodes \cup Ends
    BY ConstantsAssumption
  <2>3. QED
    BY <2>1, <2>2, <1>2 DEF Decisions
<1>6. QED
  BY <1>3, <1>4, <1>5

(* The effect of the planner keeps the plane and the result of a decision, and
   does not promote. *)
LEMMA DisposedType ==
  ASSUME NEW d \in Decisions, NEW n \in Nodes, NEW e \in Disposed(d, n)
  PROVE  /\ e \in Decisions /\ e.plane = d.plane /\ e.on = d.on
         /\ e = d \/ (n = "planner" /\ d.on \in {"done", "blocked"})
         /\ e.to = d.to \/ e.to \in Nodes \cup {"complete", "blocked"}
         /\ e.to = d.to \/ e.to \in {"complete", "blocked"}
              \/ \E f \in Edges : f.from = n /\ f.on = d.on /\ f.to = e.to
         /\ e.class = d.class \/ e.to \in {"complete", "blocked"}
<1> DEFINE next == {f.to : f \in {g \in Edges : g.from = n /\ g.on = d.on /\ g.to \in Nodes}}
<1>1. CASE n # "planner" \/ d.on \notin {"done", "blocked"}
  BY <1>1 DEF Disposed
<1>2. CASE n = "planner" /\ d.on \in {"done", "blocked"}
  <2>1. \/ e = d
        \/ \E m \in next : e = [d EXCEPT !.to = m]
        \/ e = [d EXCEPT !.to = "blocked", !.class = "planner_disposition_invalid"]
        \/ e = [d EXCEPT !.to = "complete", !.class = None]
    BY <1>2 DEF Disposed
  <2>2. CASE e = d
    BY <2>2
  <2>3. CASE \E m \in next : e = [d EXCEPT !.to = m]
    <3>1. PICK f \in Edges : f.from = n /\ f.on = d.on /\ f.to \in Nodes /\ e = [d EXCEPT !.to = f.to]
      BY <2>3
    <3>2. e.to = f.to /\ e.plane = d.plane /\ e.on = d.on /\ e.class = d.class /\ e \in Decisions
      BY <3>1 DEF Decisions
    <3>3. QED
      BY <1>2, <3>1, <3>2
  <2>4. CASE e = [d EXCEPT !.to = "blocked", !.class = "planner_disposition_invalid"]
    <3>1. e.to = "blocked" /\ e.plane = d.plane /\ e.on = d.on /\ e \in Decisions
      BY <2>4 DEF Decisions, Ends, Classes
    <3>2. QED
      BY <1>2, <3>1
  <2>5. CASE e = [d EXCEPT !.to = "complete", !.class = None]
    <3>1. e.to = "complete" /\ e.plane = d.plane /\ e.on = d.on /\ e \in Decisions
      BY <2>5 DEF Decisions, Ends
    <3>2. QED
      BY <1>2, <3>1
  <2>6. QED
    BY <2>1, <2>2, <2>3, <2>4, <2>5
<1>3. QED
  BY <1>1, <1>2

CounterType == [Items -> [repair : [Classes -> Nat], fix : Nat]]

(* Counting leaves counters. *)
LEMMA CountedType ==
  ASSUME counters \in CounterType, NEW d \in Decisions, NEW i
  PROVE  Counted(d, i) \in CounterType
<1>1. CASE d.to \in {"troubleshooter", "mechanic"}
  <2> DEFINE c == IF d.class = None THEN "recoverable_failure" ELSE d.class
  <2>1. c \in Classes
    BY DEF Decisions, Classes
  <2> HIDE DEF c
  <2> DEFINE more == [counters[i].repair EXCEPT ![c] = counters[i].repair[c] + 1]
             entry == [counters[i] EXCEPT !.repair = more]
  <2>2. Counted(d, i) = [counters EXCEPT ![i] = entry]
    BY <1>1 DEF Counted, c
  <2>3. CASE i \in Items
    <3>1. counters[i] \in [repair : [Classes -> Nat], fix : Nat]
      BY <2>3 DEF CounterType
    <3>2. more \in [Classes -> Nat]
      BY <2>1, <3>1
    <3>3. entry \in [repair : [Classes -> Nat], fix : Nat]
      BY <3>1, <3>2
    <3> HIDE DEF entry
    <3>4. QED
      BY <2>2, <3>3 DEF CounterType
  <2>4. CASE i \notin Items
    BY <2>2, <2>4 DEF CounterType
  <2>5. QED
    BY <2>3, <2>4
<1>2. CASE d.to \notin {"troubleshooter", "mechanic"}
  <2> DEFINE entry == [counters[i] EXCEPT !.fix = counters[i].fix + 1]
  <2>1. Counted(d, i) = counters \/ Counted(d, i) = [counters EXCEPT ![i] = entry]
    BY <1>2 DEF Counted
  <2>2. i \in Items => entry \in [repair : [Classes -> Nat], fix : Nat]
    BY DEF CounterType
  <2> HIDE DEF entry
  <2>3. QED
    BY <2>1, <2>2 DEF CounterType
<1>3. QED
  BY <1>1, <1>2

(* So does forgetting them. *)
LEMMA NoEntryType == NoEntry \in [repair : [Classes -> Nat], fix : Nat]
  BY DEF NoEntry

(* clear_active_plane takes one item out. *)
LEMMA ClearedType ==
  ASSUME NEW s \in Snapshots, NEW p \in Planes, NEW c \in Classes \cup {None}
  PROVE  /\ Cleared(s, p, c) \in Snapshots
         /\ Cleared(s, p, c).item = [s.item EXCEPT ![p] = None]
         /\ \A k \in Nat : /\ [Cleared(s, p, c) EXCEPT !.fix = k] \in Snapshots
                           /\ [Cleared(s, p, c) EXCEPT !.fix = k].item = [s.item EXCEPT ![p] = None]
  BY DEF Snapshots, Cleared

-----------------------------------------------------------------------------
(* The steps that end a run, or take all runs away *)

(* Leave, whatever ends the run. *)
LEMMA LeaveKeeps ==
  ASSUME IInv, NEW to \in {"done", "blocked"}, NEW class \in Classes \cup {None},
         pc \in {"apply", "counted", "filed"}, Leave(todo.plane, to, class),
         UNCHANGED <<children, taken, help, requeues, runs, fixes>>, faults' \in 0..MaxFaults
  PROVE  IInv'
<1> DEFINE p == todo.plane
           i == mem.item[p]
<1> USE DEF IInv
<1>1. p \in Planes /\ i \in Items /\ PlaneOf[i] = p /\ mem \in Snapshots
  BY DEF TypeOK, Decisions, Applying, Owned, Snapshots
<1>2. mem' \in Snapshots /\ mem'.item = [mem.item EXCEPT ![p] = None] /\ saved' = mem'
  BY <1>1, ClearedType DEF Leave
<1>3. TypeOK'
  <2>1. counters' \in [Items -> [repair : [Classes -> Nat], fix : Nat]]
    BY NoEntryType DEF Leave, TypeOK
  <2>2. todo' \in Decisions
    BY ConstantsAssumption DEF Leave, Idle, Decisions, Planes, Outcomes
  <2>3. wipes' \in Nat /\ carried' \in BOOLEAN /\ pc' = "idle"
    <3>1. wipes' = wipes \/ wipes' = wipes + 1
      BY Zenon DEF Leave
    <3>2. wipes' \in Nat
      BY <3>1 DEF TypeOK
    <3>3. carried' = FALSE /\ pc' = "idle"
      BY DEF Leave
    <3>4. QED
      BY <3>2, <3>3
  <2>4. place' \in [Items -> {"queue", "active", "done", "blocked"}]
    BY DEF Leave, TypeOK
  <2>5. QED
    BY <1>2, <2>1, <2>2, <2>3, <2>4 DEF TypeOK
<1>4. Owned(mem)' /\ Owned(saved)'
  <2>1. ASSUME NEW q \in Planes, mem'.item[q] # None
        PROVE  PlaneOf[mem'.item[q]] = q /\ place'[mem'.item[q]] = "active"
    <3>1. q # p /\ mem'.item[q] = mem.item[q]
      BY <1>1, <1>2, <2>1 DEF Snapshots
    <3>2. mem.item[q] # i /\ mem.item[q] \in Items
      BY <1>1, <2>1, <3>1 DEF Owned, Snapshots
    <3>3. place'[mem.item[q]] = place[mem.item[q]]
      BY <3>2 DEF Leave, TypeOK
    <3>4. QED
      BY <2>1, <3>1, <3>3 DEF Owned
  <2>2. QED
    BY <1>2, <2>1 DEF Owned
<1>5. Applying'
  BY DEF Applying, Leave
<1>6. IncidentRoom'
  <2>1. ASSUME NEW j \in Items, place'[j] = "active" PROVE place[j] = "active"
    BY <2>1 DEF Leave, TypeOK
  <2>2. QED
    BY <2>1 DEF IncidentRoom
<1>7. QED
  BY <1>3, <1>4, <1>5, <1>6

(* schedule_post_stage_exception_recovery keeps the run. *)
LEMMA RecoverKeeps ==
  ASSUME IInv, Recover, UNCHANGED <<children, taken, help, requeues, runs, fixes>>,
         faults' \in 0..MaxFaults
  PROVE  IInv'
<1> USE DEF IInv
<1>1. mem' \in Snapshots /\ mem'.item = mem.item /\ saved' = mem'
  <2>1. mem \in Snapshots /\ todo.plane \in Planes
    BY DEF TypeOK, Decisions
  <2> DEFINE n == Repairer[todo.plane]
             t == [mem EXCEPT !.node[todo.plane] = n, !.class = "post_stage_apply_failed"]
  <2>2. n \in Nodes \cup {None} /\ "post_stage_apply_failed" \in Classes
    BY <2>1, Names DEF Classes
  <2>3. mem' = t /\ saved' = mem'
    BY DEF Recover
  <2> HIDE DEF n
  <2>4. t \in Snapshots /\ t.item = mem.item
    BY <2>1, <2>2 DEF Snapshots
  <2>5. QED
    BY <2>3, <2>4
<1>2. TypeOK'
  <2>1. todo' \in Decisions
    BY ConstantsAssumption DEF Recover, Idle, Decisions, Planes, Outcomes
  <2>2. QED
    BY <1>1, <2>1 DEF TypeOK, Recover
<1>3. Owned(mem)' /\ Owned(saved)' /\ Applying' /\ IncidentRoom'
  BY <1>1 DEF Recover, Owned, Applying, IncidentRoom
<1>4. QED
  BY <1>2, <1>3

(* The runs of all planes are given back. *)
LEMMA GiveBackKeeps ==
  ASSUME IInv, Requeue(Items),
         mem' \in Snapshots, \A p \in Planes : mem'.item[p] = None, saved' = mem',
         counters' \in CounterType, carried' \in BOOLEAN, requeues' \in 0..MaxRequeues,
         UNCHANGED <<pc, todo, children, taken, help, faults, runs, fixes, wipes>>,
         pc = "idle"
  PROVE  IInv'
<1> USE DEF IInv
<1>1. place' \in [Items -> {"queue", "active", "done", "blocked"}]
      /\ \A i \in Items : place'[i] # "active"
  BY DEF Requeue, TypeOK
<1>2. TypeOK'
  BY <1>1 DEF TypeOK, CounterType
<1>3. Owned(mem)' /\ Owned(saved)'
  BY DEF Owned
<1>4. Applying'
  BY DEF Applying
<1>5. IncidentRoom'
  BY <1>1 DEF IncidentRoom
<1>6. QED
  BY <1>2, <1>3, <1>4, <1>5

-----------------------------------------------------------------------------
(* The first state satisfies the invariant. *)
LEMMA InitHolds == Init => IInv
<1> SUFFICES ASSUME Init PROVE IInv
  OBVIOUS
<1>1. TypeOK
  <2>1. todo \in Decisions
    BY ConstantsAssumption DEF Init, Idle, Decisions, Planes, Outcomes
  <2>2. counters \in [Items -> [repair : [Classes -> Nat], fix : Nat]]
    BY NoEntryType DEF Init
  <2>3. 0 \in 0..MaxHelp /\ 0 \in 0..MaxFaults /\ 0 \in 0..MaxRequeues
    BY ConstantsAssumption
  <2>4. QED
    BY <2>1, <2>2, <2>3, FreshType DEF Init, TypeOK
<1>2. Owned(mem) /\ Owned(saved) /\ Applying
  BY FreshType DEF Init, Owned, Applying
<1>3. IncidentRoom
  BY DEF Init, IncidentRoom
<1>4. QED
  BY <1>1, <1>2, <1>3 DEF IInv

(* Startup, with or without a run to resume. *)
LEMMA StartKeeps == ASSUME IInv, Start PROVE IInv'
<1> DEFINE p == Foreground(saved)
           n == StaleStage(p)
           resumed == [saved EXCEPT !.running = TRUE, !.node[p] = n,
                                    !.class = "stale_active_ownership"]
           plain == [saved EXCEPT !.running = TRUE]
           decision == [plane |-> p, on |-> "blocked", to |-> n,
                        class |-> "stale_active_ownership"]
<1> USE DEF IInv
<1>1. p \in Planes /\ n \in Nodes \cup {None} /\ "stale_active_ownership" \in Classes
  BY Names DEF Foreground, Planes, Classes
<1>2. \/ mem' = resumed /\ todo' = decision /\ counters' = Counted(todo', saved.item[p])
      \/ mem' = plain /\ UNCHANGED <<todo, counters>>
  BY Zenon DEF Start
<1> HIDE DEF p, n
<1>3. resumed \in Snapshots /\ resumed.item = saved.item
      /\ plain \in Snapshots /\ plain.item = saved.item
  BY <1>1 DEF Snapshots, TypeOK
<1>4. decision \in Decisions
  BY <1>1 DEF Decisions, Outcomes
<1> HIDE DEF resumed, plain, decision
<1>5. mem' \in Snapshots /\ mem'.item = saved.item /\ todo' \in Decisions
      /\ counters' \in CounterType
  BY <1>2, <1>3, <1>4, CountedType DEF TypeOK, CounterType
<1>6. pc' = "started" /\ UNCHANGED <<place, saved, children, taken, bounds, history>>
  BY DEF Start
<1>7. TypeOK'
  BY <1>5, <1>6 DEF TypeOK, CounterType, bounds, history
<1>8. Owned(mem)' /\ Owned(saved)' /\ Applying' /\ IncidentRoom'
  BY <1>5, <1>6 DEF Owned, Applying, IncidentRoom, history
<1>9. QED
  BY <1>7, <1>8

(* A run resumed at startup is a new run, with room for an incident. *)
LEMMA StartSaveKeeps == ASSUME IInv, StartSave PROVE IInv'
<1> DEFINE i == mem.item[todo.plane]
<1> USE DEF IInv
<1>1. \/ taken' = taken \ {i} /\ runs' = [runs EXCEPT ![i] = @ + 1]
      \/ UNCHANGED <<taken, runs>>
  BY Zenon DEF StartSave
<1>2. pc' = "idle" /\ saved' = mem /\ todo' = Idle
      /\ UNCHANGED <<place, mem, counters, children, bounds, fixes, wipes, carried>>
  BY DEF StartSave
<1>3. taken' \subseteq Items /\ runs' \in [Items -> Nat]
  BY <1>1 DEF TypeOK
<1>4. todo' \in Decisions
  BY <1>2, ConstantsAssumption DEF Idle, Decisions, Planes, Outcomes
<1>5. TypeOK'
  BY <1>2, <1>3, <1>4 DEF TypeOK, bounds
<1>6. Owned(mem)' /\ Owned(saved)' /\ Applying'
  BY <1>2 DEF Owned, Applying
<1>7. ASSUME NEW j \in Items, PlaneOf[j] = "execution"
      PROVE  children'[j] <= runs'[j] /\ (place'[j] = "active" /\ j \notin taken' => children'[j] < runs'[j])
  <2>1. children[j] \in Nat /\ runs[j] \in Nat /\ children[j] <= runs[j]
        /\ (place[j] = "active" /\ j \notin taken => children[j] < runs[j])
    BY <1>7 DEF IncidentRoom, TypeOK
  <2>2. \/ runs'[j] = runs[j] + 1
        \/ runs'[j] = runs[j] /\ (j \in taken <=> j \in taken')
    BY <1>1 DEF TypeOK
  <2>3. QED
    BY <1>2, <2>1, <2>2
<1>8. QED
  BY <1>5, <1>6, <1>7 DEF IncidentRoom

(* A claimed item starts a new run. *)
LEMMA ClaimKeeps == ASSUME IInv, NEW i \in Items, Claim(i) PROVE IInv'
<1> DEFINE p == PlaneOf[i]
           t == [mem EXCEPT !.item[p] = i, !.node[p] = Entry[i], !.class = None]
<1> USE DEF IInv
<1>1. p \in Planes /\ Entry[i] \in Nodes /\ mem \in Snapshots
  BY ConstantsAssumption DEF TypeOK
<1>2. t \in Snapshots /\ t.item = [mem.item EXCEPT ![p] = i]
  BY <1>1 DEF Snapshots
<1>3. mem' = t /\ saved' = t /\ place' = [place EXCEPT ![i] = "active"] /\ pc = "idle"
      /\ place[i] = "queue" /\ taken' = taken \ {i} /\ runs' = [runs EXCEPT ![i] = @ + 1]
      /\ UNCHANGED <<counters, pc, todo, children, bounds, carried>>
  BY DEF Claim
<1> HIDE DEF t
<1>4. fixes' \in Nat /\ wipes' \in Nat
  BY DEF Claim, TypeOK
<1>5. TypeOK'
  BY <1>2, <1>3, <1>4 DEF TypeOK, bounds
<1>6. Owned(mem)' /\ Owned(saved)'
  <2>1. ASSUME NEW q \in Planes, mem'.item[q] # None
        PROVE  PlaneOf[mem'.item[q]] = q /\ place'[mem'.item[q]] = "active"
    <3>1. CASE q = p
      BY <1>1, <1>2, <1>3, <3>1 DEF Snapshots, TypeOK
    <3>2. CASE q # p
      <4>1. mem'.item[q] = mem.item[q] /\ mem.item[q] \in Items
        BY <1>1, <1>2, <1>3, <2>1, <3>2 DEF Snapshots
      <4>2. QED
        BY <1>3, <2>1, <3>2, <4>1 DEF Owned, TypeOK
    <3>3. QED
      BY <3>1, <3>2
  <2>2. QED
    BY <1>3, <2>1 DEF Owned
<1>7. Applying'
  BY <1>3 DEF Applying
<1>8. ASSUME NEW j \in Items, PlaneOf[j] = "execution"
      PROVE  children'[j] <= runs'[j] /\ (place'[j] = "active" /\ j \notin taken' => children'[j] < runs'[j])
  <2>1. children[j] \in Nat /\ runs[j] \in Nat /\ children[j] <= runs[j]
        /\ (place[j] = "active" /\ j \notin taken => children[j] < runs[j])
    BY <1>8 DEF IncidentRoom, TypeOK
  <2>2. \/ runs'[j] = runs[j] + 1
        \/ /\ runs'[j] = runs[j] /\ (j \in taken <=> j \in taken')
           /\ place'[j] = place[j]
    BY <1>3 DEF TypeOK
  <2>3. QED
    BY <1>3, <2>1, <2>2
<1>9. QED
  BY <1>5, <1>6, <1>7, <1>8 DEF IncidentRoom

(* The result of a stage is routed. *)
LEMMA StageKeeps == ASSUME IInv, NEW p \in Planes, Stage(p) PROVE IInv'
<1> DEFINE t == [mem EXCEPT !.class = todo'.class]
<1> USE DEF IInv
<1>1. mem \in Snapshots /\ mem.item[p] # None /\ mem.item[p] \in Items
      /\ mem.node[p] \in Nodes /\ mem.item[p] \in Takes[mem.node[p]]
  BY DEF Stage, Active, TypeOK, Snapshots
<1>2. PICK on \in Outcomes, reported \in Reported \cup {None} :
        /\ on # "blocked" => reported = None /\ help < MaxHelp
        /\ help' = IF on = "blocked" THEN help ELSE help + 1
        /\ \E d \in Routes(mem, p, on, reported) : todo' \in Disposed(d, mem.node[p])
  BY Zenon DEF Stage
<1>3. mem' = t /\ saved' = t /\ pc' = "apply"
      /\ UNCHANGED <<place, counters, children, taken, faults, requeues, history>>
  BY DEF Stage
<1>4. /\ todo' \in Decisions /\ todo'.plane = p
      /\ todo'.to = "promote" => \E e \in Edges : e.from = mem.node[p] /\ e.to = "promote"
  <2>1. PICK d \in Routes(mem, p, on, reported) : todo' \in Disposed(d, mem.node[p])
    BY <1>2
  <2>2. /\ d \in Decisions /\ d.plane = p
        /\ d.to = "promote" => \E e \in Edges : e.from = mem.node[p] /\ e.to = "promote"
    BY <1>1, RoutesType
  <2>3. QED
    BY <1>1, <2>1, <2>2, Names, ConstantsAssumption, DisposedType DEF Ends
<1>5. t \in Snapshots /\ t.item = mem.item
  BY <1>1, <1>4 DEF Snapshots, Decisions
<1> HIDE DEF t
<1>6. help' \in 0..MaxHelp
  BY <1>2, ConstantsAssumption DEF TypeOK
<1>7. TypeOK'
  BY <1>3, <1>4, <1>5, <1>6 DEF TypeOK, history
<1>8. Owned(mem)' /\ Owned(saved)'
  BY <1>3, <1>5 DEF Owned
<1>9. Applying'
  BY <1>1, <1>3, <1>4, <1>5, GraphAssumption DEF Applying, item
<1>10. IncidentRoom'
  BY <1>3 DEF IncidentRoom, history
<1>11. QED
  BY <1>7, <1>8, <1>9, <1>10

(* The run goes on at its next stage, first in the counters ... *)
LEMMA CountRouteKeeps == ASSUME IInv, CountRoute PROVE IInv'
<1> DEFINE k == IF counters'[item].fix # counters[item].fix THEN counters'[item].fix ELSE mem.fix
           t == [mem EXCEPT !.node[todo.plane] = todo.to, !.fix = k]
<1> USE DEF IInv
<1>1. pc = "apply" /\ todo.to \in Nodes /\ counters' = Counted(todo, item) /\ pc' = "counted"
      /\ UNCHANGED <<place, saved, todo, children, taken, bounds, history>>
  BY DEF CountRoute
<1>2. mem' = t
  BY DEF CountRoute
<1>3. mem \in Snapshots /\ todo \in Decisions /\ todo.plane \in Planes /\ item \in Items
  BY <1>1 DEF TypeOK, Decisions, Snapshots, Applying, item
<1>4. counters' \in CounterType
  BY <1>1, <1>3, CountedType DEF TypeOK, CounterType
<1>5. k \in Nat
  BY <1>3, <1>4 DEF CounterType, Snapshots
<1> HIDE DEF k
<1>6. t \in Snapshots /\ t.item = mem.item
  BY <1>1, <1>3, <1>5 DEF Snapshots
<1> HIDE DEF t
<1>7. TypeOK'
  BY <1>1, <1>2, <1>4, <1>6 DEF TypeOK, CounterType, bounds, history
<1>8. Owned(mem)' /\ Owned(saved)' /\ Applying' /\ IncidentRoom'
  BY <1>1, <1>2, <1>6 DEF Owned, Applying, IncidentRoom, history
<1>9. QED
  BY <1>7, <1>8

(* ... then in the snapshot. *)
LEMMA SaveRouteKeeps == ASSUME IInv, SaveRoute PROVE IInv'
<1> USE DEF IInv
<1>1. fixes' \in Nat
  BY DEF SaveRoute, TypeOK
<1>2. pc' = "idle" /\ saved' = mem /\ todo' = Idle
      /\ UNCHANGED <<place, mem, counters, children, taken, bounds, runs, wipes, carried>>
  BY DEF SaveRoute
<1>3. todo' \in Decisions
  BY <1>2, ConstantsAssumption DEF Idle, Decisions, Planes, Outcomes
<1>4. TypeOK'
  BY <1>1, <1>2, <1>3 DEF TypeOK, bounds
<1>5. Owned(mem)' /\ Owned(saved)' /\ Applying' /\ IncidentRoom'
  BY <1>2 DEF Owned, Applying, IncidentRoom
<1>6. QED
  BY <1>4, <1>5

(* The end of a run. *)
LEMMA FinishKeeps == ASSUME IInv, Finish PROVE IInv'
<1> DEFINE to == IF todo.to \in {"complete", "promote"} THEN "done" ELSE "blocked"
<1>1. /\ pc \in {"apply", "counted", "filed"}
      /\ Leave(todo.plane, to, todo.class) \/ Recover
      /\ UNCHANGED <<children, taken, bounds, runs, fixes>>
  BY Zenon DEF Finish
<1>2. to \in {"done", "blocked"} /\ todo.class \in Classes \cup {None} /\ faults \in 0..MaxFaults
  BY DEF IInv, TypeOK, Decisions
<1> HIDE DEF to
<1>3. QED
  BY <1>1, <1>2, LeaveKeeps, RecoverKeeps DEF bounds

(* The packet of a probe is rejected. *)
LEMMA RejectPacketKeeps == ASSUME IInv, RejectPacket PROVE IInv'
<1>1. "recon_handoff_invalid" \in Classes \cup {None} /\ faults \in 0..MaxFaults
  BY DEF Classes, IInv, TypeOK
<1>2. QED
  BY <1>1, LeaveKeeps DEF RejectPacket, bounds

(* A child is filed for a run: a task has room for it, and a probe needs none. *)
LEMMA FiledKeeps ==
  ASSUME IInv, pc = "apply", pc' = "filed", children' = [children EXCEPT ![item] = @ + 1],
         \/ PlaneOf[item] # "execution" /\ taken' = taken
         \/ item \notin taken /\ taken' = taken \cup {item},
         UNCHANGED <<place, saved, mem, counters, todo, bounds, history>>
  PROVE  IInv'
<1> USE DEF IInv
<1>1. item \in Items /\ place[item] = "active"
  BY DEF Applying, Owned, TypeOK, Decisions, Snapshots, item
<1>2. TypeOK'
  BY <1>1 DEF TypeOK, bounds, history
<1>3. Owned(mem)' /\ Owned(saved)' /\ Applying'
  BY DEF Owned, Applying
<1>4. ASSUME NEW j \in Items, PlaneOf[j] = "execution"
      PROVE  children'[j] <= runs'[j] /\ (place'[j] = "active" /\ j \notin taken' => children'[j] < runs'[j])
  <2>1. children[j] \in Nat /\ runs[j] \in Nat /\ children[j] <= runs[j]
        /\ (place[j] = "active" /\ j \notin taken => children[j] < runs[j])
    BY <1>4 DEF IncidentRoom, TypeOK
  <2>2. CASE j = item
    <3>1. item \notin taken /\ j \in taken' /\ children'[j] = children[j] + 1
      BY <1>4, <2>2 DEF TypeOK
    <3>2. QED
      BY <1>1, <2>1, <2>2, <3>1 DEF history
  <2>3. CASE j # item
    <3>1. children'[j] = children[j] /\ (j \in taken' <=> j \in taken)
      BY <2>3 DEF TypeOK
    <3>2. QED
      BY <2>1, <3>1 DEF history
  <2>4. QED
    BY <2>2, <2>3
<1>5. QED
  BY <1>2, <1>3, <1>4 DEF IncidentRoom

(* A handoff, or the repair of one whose incident is there already. *)
LEMMA HandoffKeeps == ASSUME IInv, Handoff PROVE IInv'
<1>1. CASE item \in taken
  <2>1. faults \in 0..MaxFaults
    BY DEF IInv, TypeOK
  <2>2. QED
    BY <1>1, <2>1, RecoverKeeps DEF Handoff, bounds
<1>2. CASE item \notin taken
  BY <1>2, FiledKeeps DEF Handoff, bounds, history
<1>3. QED
  BY <1>1, <1>2

(* The item a probe generates. *)
LEMMA PromoteKeeps == ASSUME IInv, Promote PROVE IInv'
<1>1. PlaneOf[item] # "execution"
  BY DEF IInv, Applying, Promote
<1>2. QED
  BY <1>1, FiledKeeps DEF Promote

(* The daemon is off: its copy of the snapshot is gone. *)
LEMMA OffKeeps ==
  ASSUME IInv, Off, saved' = saved \/ saved' = [mem EXCEPT !.running = FALSE],
         UNCHANGED <<place, counters, children, taken, help, requeues, history>>,
         faults' \in 0..MaxFaults
  PROVE  IInv'
<1> DEFINE t == [mem EXCEPT !.running = FALSE]
<1> USE DEF IInv
<1>1. t \in Snapshots /\ t.item = mem.item
  BY DEF TypeOK, Snapshots
<1>2. saved' = saved \/ saved' = t
  OBVIOUS
<1> HIDE DEF t
<1>3. todo' \in Decisions
  BY ConstantsAssumption DEF Off, Idle, Decisions, Planes, Outcomes
<1>4. TypeOK'
  BY <1>1, <1>2, <1>3, FreshType DEF TypeOK, Off, history
<1>5. Owned(mem)' /\ Owned(saved)' /\ Applying' /\ IncidentRoom'
  BY <1>1, <1>2, FreshType DEF Owned, Applying, IncidentRoom, Off, history
<1>6. QED
  BY <1>4, <1>5

(* A step of an application fails. *)
LEMMA ApplyFailsKeeps == ASSUME IInv, ApplyFails PROVE IInv'
<1>1. faults' \in 0..MaxFaults
  BY ConstantsAssumption DEF IInv, TypeOK, ApplyFails
<1>2. "recon_handoff_invalid" \in Classes \cup {None}
  BY DEF Classes
<1>3. \/ Leave(todo.plane, "blocked", "recon_handoff_invalid")
      \/ /\ saved' = [mem EXCEPT !.running = FALSE] /\ Off
         /\ UNCHANGED <<place, counters, wipes, carried>>
      \/ Recover
  BY Zenon DEF ApplyFails
<1>4. pc \in {"apply", "counted", "filed"}
      /\ UNCHANGED <<children, taken, help, requeues, runs, fixes>>
  BY DEF ApplyFails
<1>5. CASE Leave(todo.plane, "blocked", "recon_handoff_invalid")
  BY <1>1, <1>2, <1>4, <1>5, LeaveKeeps
<1>6. CASE Recover
  BY <1>1, <1>4, <1>6, RecoverKeeps
<1>7. CASE saved' = [mem EXCEPT !.running = FALSE] /\ Off
           /\ UNCHANGED <<place, counters, wipes, carried>>
  BY <1>1, <1>4, <1>7, OffKeeps DEF history
<1>8. QED
  BY <1>3, <1>5, <1>6, <1>7

(* A scoped retry gives one item back. *)
LEMMA RetryKeeps == ASSUME IInv, NEW p \in Planes, Retry(p) PROVE IInv'
<1> DEFINE i == mem.item[p]
           all == [Fresh EXCEPT !.running = TRUE]
           one == [Cleared(mem, p, None) EXCEPT !.fix = mem.fix]
<1> USE DEF IInv
<1>1. i \in Items /\ PlaneOf[i] = p /\ mem \in Snapshots
  BY DEF Retry, Active, TypeOK, Snapshots, Owned
<1>2. /\ mem' = IF Active(mem) = {p} THEN all ELSE one
      /\ saved' = mem' /\ pc = "idle" /\ Requeue({i})
      /\ counters' = [counters EXCEPT ![i] = NoEntry]
      /\ requeues' = requeues + 1 /\ requeues < MaxRequeues
      /\ UNCHANGED <<pc, todo, children, taken, help, faults, runs, fixes, wipes>>
  BY DEF Retry
<1>3. carried' \in BOOLEAN
  <2>1. carried' = (mem'.fix > 0 /\ (carried \/ p = "execution"))
    BY DEF Retry
  <2>2. (mem'.fix > 0 /\ (carried \/ p = "execution")) \in BOOLEAN
    BY Zenon
  <2>3. QED
    BY <2>1, <2>2, Zenon
<1>4. all \in Snapshots /\ \A q \in Planes : all.item[q] = None
  BY DEF Fresh, Snapshots
<1>5. one \in Snapshots /\ one.item = [mem.item EXCEPT ![p] = None]
  BY <1>1 DEF Cleared, Snapshots
<1> HIDE DEF all, one
<1>6. /\ place' \in [Items -> {"queue", "active", "done", "blocked"}]
      /\ \A j \in Items \ {i} : place'[j] = place[j]
      /\ \A j \in Items : place'[j] = "active" => place[j] = "active"
  BY <1>2 DEF Requeue, TypeOK
<1>7. TypeOK'
  <2>1. requeues' \in 0..MaxRequeues
    BY <1>2, ConstantsAssumption DEF TypeOK
  <2>2. counters' \in [Items -> [repair : [Classes -> Nat], fix : Nat]]
    BY <1>2, NoEntryType DEF TypeOK
  <2>3. mem' \in Snapshots
    BY <1>2, <1>4, <1>5
  <2>4. QED
    BY <1>2, <1>3, <1>6, <2>1, <2>2, <2>3 DEF TypeOK
<1>8. Owned(mem)' /\ Owned(saved)'
  <2>1. ASSUME NEW q \in Planes, mem'.item[q] # None
        PROVE  PlaneOf[mem'.item[q]] = q /\ place'[mem'.item[q]] = "active"
    <3>1. q # p /\ mem'.item[q] = mem.item[q]
      BY <1>1, <1>2, <1>4, <1>5, <2>1 DEF Snapshots
    <3>2. mem.item[q] # i /\ mem.item[q] \in Items
      BY <1>1, <2>1, <3>1 DEF Owned, Snapshots
    <3>3. QED
      BY <1>6, <2>1, <3>1, <3>2 DEF Owned
  <2>2. QED
    BY <1>2, <2>1 DEF Owned
<1>9. Applying'
  BY <1>2 DEF Applying
<1>10. IncidentRoom'
  <2>1. UNCHANGED <<children, taken, runs>>
    BY <1>2
  <2>2. QED
    BY <2>1, <1>6 DEF IncidentRoom
<1>11. QED
  BY <1>7, <1>8, <1>9, <1>10

(* A clear-stale gives all items back. *)
LEMMA ClearStaleKeeps == ASSUME IInv, ClearStale PROVE IInv'
<1>1. mem' \in Snapshots /\ \A p \in Planes : mem'.item[p] = None
  BY DEF ClearStale, Fresh, Snapshots
<1>2. counters' \in CounterType
  BY NoEntryType DEF ClearStale, CounterType
<1>3. requeues' \in 0..MaxRequeues
  BY ConstantsAssumption DEF ClearStale, IInv, TypeOK
<1>4. QED
  BY <1>1, <1>2, <1>3, GiveBackKeeps DEF ClearStale

(* So does a run whose stage does not take its item. *)
LEMMA DisownKeeps == ASSUME IInv, NEW p \in Planes, Disown(p) PROVE IInv'
<1>1. counters' \in CounterType
  BY NoEntryType DEF Disown, IInv, TypeOK, CounterType
<1>2. requeues' \in 0..MaxRequeues
  BY DEF Disown, bounds, IInv, TypeOK
<1>3. mem' \in Snapshots /\ \A q \in Planes : mem'.item[q] = None
  BY DEF Disown, Fresh, Snapshots, Classes
<1>4. QED
  BY <1>1, <1>2, <1>3, GiveBackKeeps DEF Disown, bounds

-----------------------------------------------------------------------------
(* Every step keeps the invariant. *)
LEMMA NextKeeps == IInv /\ [Next]_vars => IInv'
<1> SUFFICES ASSUME IInv, [Next]_vars PROVE IInv'
  OBVIOUS
<1>1. CASE Start
  BY <1>1, StartKeeps
<1>2. CASE DaemonStep
  <2>1. CASE StartSave
    BY <2>1, StartSaveKeeps
  <2>2. CASE CountRoute
    BY <2>2, CountRouteKeeps
  <2>3. CASE SaveRoute
    BY <2>3, SaveRouteKeeps
  <2>4. CASE Finish
    BY <2>4, FinishKeeps
  <2>5. CASE Handoff
    BY <2>5, HandoffKeeps
  <2>6. CASE Promote
    BY <2>6, PromoteKeeps
  <2>7. CASE RejectPacket
    BY <2>7, RejectPacketKeeps
  <2>8. ASSUME NEW i \in Items, Claim(i) PROVE IInv'
    BY <2>8, ClaimKeeps
  <2>9. ASSUME NEW p \in Planes, Stage(p) \/ Disown(p) PROVE IInv'
    BY <2>9, StageKeeps, DisownKeeps
  <2>10. QED
    BY <1>2, <2>1, <2>2, <2>3, <2>4, <2>5, <2>6, <2>7, <2>8, <2>9 DEF DaemonStep
<1>3. CASE ApplyFails
  BY <1>3, ApplyFailsKeeps
<1>4. CASE Crash
  <2>1. faults' \in 0..MaxFaults
    BY <1>4, ConstantsAssumption DEF Crash, IInv, TypeOK
  <2>2. QED
    BY <1>4, <2>1, OffKeeps DEF Crash
<1>5. CASE Stop
  <2>1. faults' \in 0..MaxFaults
    BY <1>5, ConstantsAssumption DEF Stop, IInv, TypeOK
  <2>2. QED
    BY <1>5, <2>1, OffKeeps DEF Stop
<1>6. ASSUME NEW p \in Planes, Retry(p) PROVE IInv'
  BY <1>6, RetryKeeps
<1>7. CASE ClearStale
  BY <1>7, ClearStaleKeeps
<1>8. CASE UNCHANGED vars
  <2>1. TypeOK'
    BY <1>8 DEF IInv, TypeOK, vars
  <2>2. Owned(mem)' /\ Owned(saved)' /\ Applying' /\ IncidentRoom'
    BY <1>8 DEF IInv, Owned, Applying, IncidentRoom, vars, item
  <2>3. QED
    BY <2>1, <2>2 DEF IInv
<1>9. QED
  BY <1>1, <1>2, <1>3, <1>4, <1>5, <1>6, <1>7, <1>8 DEF Next

(* So the invariant holds in every behaviour. *)
LEMMA Inductive == Spec => []IInv
  BY InitHolds, NextKeeps, PTL DEF Spec

(* The variables of the routing have their types in every behaviour. *)
THEOREM TypeCorrect == Spec => []TypeOK
<1>1. IInv => TypeOK
  BY DEF IInv
<1>2. QED
  BY <1>1, Inductive, PTL

(* A run of a task files one incident at most: enqueue_handoff_incident makes
   the id from the run id, so what a crash or failure repeats is refused. *)
THEOREM OneIncident == Spec => []IncidentOncePerRun
<1>1. IInv => IncidentOncePerRun
  BY DEF IInv, IncidentRoom, IncidentOncePerRun
<1>2. QED
  BY <1>1, Inductive, PTL

-----------------------------------------------------------------------------
(* The budgets.  What the snapshot says of a failure, its class and its fix *)
(* count, may be older than the counters, or of another plane: the facts    *)
(* below say how far it can be from them between two steps of the daemon.   *)

(* The fix count of a snapshot is one of the task in it, or was left behind. *)
FixLeft(s) ==
  \/ carried \/ s.fix = 0
  \/ s.item["execution"] # None /\ s.fix <= counters[s.item["execution"]].fix

(* A task that may go to the fixer once more is within its budget. *)
FixSpent(s) ==
  s.item["execution"] # None =>
    /\ fixes <= counters[s.item["execution"]].fix
    /\ s.fix < MaxFix => fixes < MaxFix + wipes

(* A decision to go to the fixer, before and after it is counted. *)
FixGranted ==
  pc \in {"apply", "counted"} /\ todo.on = "fix" /\ todo.to \in Nodes
    /\ todo.to # Repairer[todo.plane] =>
    /\ todo.plane = "execution" /\ todo.to \notin RecoveryStages
    /\ pc = "apply" => mem.fix < MaxFix
    /\ pc = "counted" => /\ mem.fix = counters[item].fix
                         /\ fixes < counters[item].fix /\ fixes < MaxFix + wipes

FixFacts ==
  /\ FixBudget /\ ExhaustionEarned /\ FixGranted
  /\ FixLeft(mem) /\ FixLeft(saved) /\ FixSpent(mem) /\ FixSpent(saved)

(* Planning and execution are never active together. *)
Apart(s) == s.item["planning"] = None \/ s.item["execution"] = None

(* A repair of a task that is counted without a look has room in the budget: only a
   fault leaves a failure class at a stage that asks for fixes. *)
Room(i, c) ==
  PlaneOf[i] = "planning" \/ c \in Unchecked \/ counters[i].repair[c] < Limit(c) + faults
ClassLeft(s) ==
  s.item["execution"] # None /\ s.node["execution"] \in FixPolicy /\ s.class # None =>
    Room(s.item["execution"], s.class)

(* What a decision was made of, and where its application is. *)
Routed ==
  /\ pc = "apply" =>
       /\ mem.item[todo.plane] \in Takes[mem.node[todo.plane]]
       /\ mem.node[todo.plane] \in Nodes
       /\ todo.to \in {"mechanic", "troubleshooter"} /\ todo.class # None => Room(item, todo.class)
  /\ pc = "counted" => todo.to \in Nodes /\ mem.node[todo.plane] = todo.to
  /\ pc = "filed" => todo.to \in {"handoff", "promote"}
  /\ pc \in {"apply", "counted", "filed"} =>
       /\ todo.plane = "learning" => todo.class = None \/ todo.to = None
       /\ todo.to \in FixPolicy => todo.class = None
       /\ mem.class = todo.class
       /\ todo.to = "handoff" => todo.plane = "execution"
  /\ pc \in {"apply", "filed"} /\ todo.to \in Ends => todo.plane = "planning" \/ Mapped

RepairFacts ==
  /\ RepairBudget /\ Apart(mem) /\ Apart(saved) /\ Routed
  /\ pc = "off" => ClassLeft(saved)
  /\ pc \in {"started", "idle"} => ClassLeft(mem)

BInv == IInv /\ FixFacts /\ RepairFacts

(* Counting a decision adds one to one count of one item. *)
LEMMA CountedFacts ==
  ASSUME counters \in CounterType, NEW d \in Decisions, NEW i \in Items
  PROVE  LET new == Counted(d, i)
             c == IF d.class = None THEN "recoverable_failure" ELSE d.class
         IN  /\ c \in Classes
             /\ \A j \in Items \ {i} : new[j] = counters[j]
             /\ \A k \in Classes : new[i].repair[k] =
                  IF d.to \in {"troubleshooter", "mechanic"} /\ k = c
                  THEN counters[i].repair[k] + 1 ELSE counters[i].repair[k]
             /\ new[i].fix =
                  IF d.to \notin {"troubleshooter", "mechanic", "consultant"} /\ d.on = "fix"
                  THEN counters[i].fix + 1 ELSE counters[i].fix
<1> DEFINE c == IF d.class = None THEN "recoverable_failure" ELSE d.class
<1>1. c \in Classes
  BY DEF Decisions, Classes
<1>2. counters[i] \in [repair : [Classes -> Nat], fix : Nat] /\ counters[i].repair \in [Classes -> Nat]
  BY DEF CounterType
<1>3. CASE d.to \in {"troubleshooter", "mechanic"}
  <2> DEFINE more == [counters[i].repair EXCEPT ![c] = counters[i].repair[c] + 1]
             entry == [counters[i] EXCEPT !.repair = more]
  <2>1. Counted(d, i) = [counters EXCEPT ![i] = entry]
    BY <1>3 DEF Counted
  <2>2. \A k \in Classes : more[k] = IF k = c THEN counters[i].repair[k] + 1 ELSE counters[i].repair[k]
    BY <1>1, <1>2
  <2>3. entry.repair = more /\ entry.fix = counters[i].fix
    BY <1>2
  <2> HIDE DEF entry, more, c
  <2>4. Counted(d, i)[i] = entry /\ \A j \in Items \ {i} : Counted(d, i)[j] = counters[j]
    BY <2>1 DEF CounterType
  <2>5. QED
    BY <1>1, <1>3, <2>2, <2>3, <2>4 DEF c
<1>4. CASE d.to \notin {"troubleshooter", "mechanic"} /\ d.on = "fix" /\ d.to # "consultant"
  <2> DEFINE entry == [counters[i] EXCEPT !.fix = counters[i].fix + 1]
  <2>1. Counted(d, i) = [counters EXCEPT ![i] = entry]
    BY <1>4 DEF Counted
  <2>2. entry.repair = counters[i].repair /\ entry.fix = counters[i].fix + 1
    BY <1>2
  <2> HIDE DEF entry, c
  <2>3. Counted(d, i)[i] = entry /\ \A j \in Items \ {i} : Counted(d, i)[j] = counters[j]
    BY <2>1 DEF CounterType
  <2>4. QED
    BY <1>1, <1>4, <2>2, <2>3 DEF c
<1>5. CASE d.to \notin {"troubleshooter", "mechanic"} /\ ~(d.on = "fix" /\ d.to # "consultant")
  <2>1. Counted(d, i) = counters
    BY <1>5 DEF Counted
  <2>2. QED
    BY <1>1, <1>5, <2>1
<1>6. QED
  BY <1>3, <1>4, <1>5

(* The names of the stages of recovery, and who is a fixer. *)
LEMMA RecoveryNames ==
  /\ RecoveryStages \subseteq Nodes /\ FixPolicy \subseteq Nodes /\ FixPolicy \cap RecoveryStages = {}
  /\ "blocked" \notin Nodes /\ "handoff" \notin Nodes /\ None \notin Nodes
  /\ None \notin Items
  /\ None # "handoff" /\ None # "blocked" /\ None # "complete" /\ None # "promote"
  BY ConstantsAssumption, GraphAssumption, RecoveryAssumption DEF RecoveryStages, Ends

(* What the router may decide of a run. *)
LEMMA RoutesFacts ==
  ASSUME BInv, pc = "idle", NEW p \in Planes, mem.item[p] # None,
         mem.node[p] # None, mem.item[p] \in Takes[mem.node[p]],
         NEW on \in Outcomes, NEW reported \in Reported \cup {None},
         on # "blocked" => reported = None,
         NEW d \in Routes(mem, p, on, reported)
  PROVE  /\ d \in Decisions /\ d.plane = p
         /\ d.on = "fix" /\ d.to \in Nodes /\ d.to # Repairer[p] =>
              p = "execution" /\ d.to \notin RecoveryStages /\ mem.fix < MaxFix
         /\ d.on = "fix" /\ d.to = Repairer[p] => carried \/ counters[mem.item[p]].fix >= MaxFix
         /\ d.to \in {"mechanic", "troubleshooter"} /\ d.class # None => Room(mem.item[p], d.class)
         /\ p = "learning" => d.class = None \/ d.to = None
         /\ d.to \in FixPolicy => d.class = None
         /\ d.to = "handoff" => p = "execution"
<1> DEFINE n == mem.node[p]
           default == IF on = "fix" THEN "fix_cycle_exhausted" ELSE n
           class == FailureClass(mem, reported, default)
           Decide(to, c) == [plane |-> p, on |-> on, to |-> to, class |-> c]
           i == mem.item[p]
<1>1. mem \in Snapshots /\ n \in Nodes /\ i \in Items /\ PlaneOf[i] = p /\ mem.fix \in Nat
  BY DEF BInv, IInv, TypeOK, Snapshots, Owned
<1>2. d \in Decisions /\ d.plane = p
  BY <1>1, RoutesType
<1>3. n \in FixPolicy => p = "execution"
  BY <1>1, RecoveryAssumption
<1>4. class \in Classes
  <2>1. default \in Classes
    BY <1>1, Names DEF Classes
  <2>2. QED
    BY <1>1, <2>1, ClassType
<1>5. counters[i].fix \in Nat /\ MaxFix \in Nat
      /\ \A c \in Classes : counters[i].repair[c] \in Nat
  BY <1>1, ConstantsAssumption DEF BInv, IInv, TypeOK
<1>6. faults \in Nat /\ MaxRepair \in Nat /\ \A c : MaxRepair <= Limit(c) /\ Limit(c) \in Nat
  BY ConstantsAssumption DEF BInv, IInv, TypeOK, Limit, StaleLimit
<1> HIDE DEF default
<1>7. CASE Exhausted(mem, p, on, class)
  <2> DEFINE to == IF on = "fix" THEN Repairer[p] ELSE LastResort[p]
  <2>1. d = Decide(to, class)
    BY <1>7 DEF Routes, default
  <2>2. CASE on = "fix"
    <3>1. n \in FixPolicy /\ mem.fix >= MaxFix /\ p = "execution" /\ d.to = "troubleshooter"
          /\ d.class = class /\ d.on = "fix"
      BY <1>3, <1>7, <2>1, <2>2 DEF Exhausted, Repairer, Planes
    <3>2. carried \/ counters[i].fix >= MaxFix
      BY <1>1, <1>5, <3>1 DEF BInv, FixFacts, FixLeft
    <3>3. class = "fix_cycle_exhausted" \/ (class = mem.class /\ mem.class # None)
      BY <2>2 DEF FailureClass, default
    <3>4. Room(i, class)
      BY <1>1, <3>1, <3>3 DEF BInv, RepairFacts, ClassLeft, Room, Unchecked
    <3>5. QED
      BY <1>1, <1>2, <3>1, <3>2, <3>4, RecoveryNames DEF Repairer, RecoveryStages, Planes
  <2>3. CASE on # "fix"
    <3>1. d.on # "fix" /\ d.to = LastResort[p]
      BY <2>1, <2>3
    <3>2. d.to \in {"blocked", "consultant", None} /\ (p = "learning" => d.to = None)
      BY <3>1 DEF LastResort, Planes
    <3>3. d.to \notin FixPolicy /\ d.to \notin {"mechanic", "troubleshooter", "handoff"}
      BY <3>2, RecoveryNames, GraphAssumption, ConstantsAssumption DEF RecoveryStages
    <3>4. QED
      BY <1>2, <3>1, <3>2, <3>3
  <2>4. QED
    BY <2>2, <2>3
<1>8. CASE ~Exhausted(mem, p, on, class) /\ on = "done" /\ n \in DOMAIN Resume
  <2>1. PICK m \in Resume[n] : d = Decide(m, None)
    BY <1>8 DEF Routes, default
  <2>2. m \in Nodes
    BY <1>8, ConstantsAssumption
  <2>3. d.on = "done" /\ d.to \in Nodes /\ d.class = None
    BY <1>8, <2>1, <2>2
  <2>4. QED
    BY <1>2, <2>3, RecoveryNames
<1>9. CASE ~Exhausted(mem, p, on, class) /\ ~(on = "done" /\ n \in DOMAIN Resume)
  <2>1. PICK e \in Edges : /\ e.from = n /\ e.on = on
                           /\ d = Decide(e.to, IF on = "blocked" /\ p # "learning" THEN class ELSE None)
    BY <1>9 DEF Routes, default
  <2>2. d.to = e.to /\ d.on = on /\ d.class = IF on = "blocked" /\ p # "learning" THEN class ELSE None
    BY <2>1
  <2>3. e.to \in Nodes \cup Ends
    BY ConstantsAssumption
  <2>4. CASE on = "fix"
    <3>1. n \in FixPolicy /\ d.to \notin RecoveryStages /\ p = "execution" /\ mem.fix < MaxFix
      BY <1>1, <1>3, <1>5, <1>9, <2>1, <2>2, <2>4, RecoveryAssumption DEF Exhausted
    <3>2. d.to # Repairer[p] /\ d.class = None
      BY <2>2, <2>4, <3>1 DEF Repairer, RecoveryStages, Planes
    <3>3. QED
      BY <1>2, <2>2, <2>4, <3>1, <3>2
  <2>5. CASE on = "blocked"
    <3>1. d.to \notin FixPolicy /\ d.on # "fix"
      BY <2>1, <2>2, <2>5, RecoveryAssumption
    <3>2. d.to = "handoff" => p = "execution"
      BY <1>1, <2>1, <2>2, RecoveryAssumption
    <3>3. ASSUME d.to \in {"mechanic", "troubleshooter"}, d.class # None PROVE Room(i, class)
      <4>1. n \in BlockPolicy /\ p # "learning"
        BY <2>1, <2>2, <2>5, <3>3, RecoveryAssumption
      <4>2. Foreground(mem) = p /\ p \in Active(mem)
        BY <4>1 DEF Foreground, Active, Planes, BInv, RepairFacts, Apart
      <4>3. Attempts(mem, p, class) = counters[i].repair[class]
        BY <4>2 DEF Attempts
      <4>4. counters[i].repair[class] < MaxRepair
        BY <1>4, <1>5, <1>6, <1>9, <2>5, <4>1, <4>3 DEF Exhausted
      <4>5. counters[i].repair[class] \in Nat /\ MaxRepair <= Limit(class) /\ Limit(class) \in Nat
        BY <1>4, <1>5, <1>6
      <4>6. QED
        BY <1>6, <4>4, <4>5 DEF Room
    <3>4. d.class # None => d.class = class
      BY <2>2
    <3>5. QED
      BY <1>2, <2>2, <3>1, <3>2, <3>3, <3>4
  <2>6. CASE on \notin {"fix", "blocked"}
    BY <1>1, <1>2, <2>1, <2>2, <2>6, RecoveryAssumption
  <2>7. QED
    BY <2>4, <2>5, <2>6
<1>10. QED
  BY <1>7, <1>8, <1>9

(* An end is reached by an edge of the graph, or by planning that is exhausted. *)
LEMMA RoutesEnds ==
  ASSUME NEW s, NEW p \in Planes, NEW on \in Outcomes, NEW reported,
         s.node[p] \in FixPolicy => p = "execution", NEW d \in Routes(s, p, on, reported)
  PROVE  /\ d.on = on /\ (on = "done" => d.class = None)
         /\ d.to \in Ends => p = "planning" \/ [from |-> s.node[p], on |-> on, to |-> d.to] \in Edges
<1> DEFINE n == s.node[p]
           default == IF on = "fix" THEN "fix_cycle_exhausted" ELSE n
           class == FailureClass(s, reported, default)
           Decide(to, c) == [plane |-> p, on |-> on, to |-> to, class |-> c]
<1> HIDE DEF default
<1>1. CASE Exhausted(s, p, on, class)
  <2>1. d = Decide(IF on = "fix" THEN Repairer[p] ELSE LastResort[p], class)
    BY <1>1 DEF Routes, default
  <2>2. on = "fix" => p = "execution"
    BY <1>1 DEF Exhausted
  <2>3. on # "done"
    BY <1>1 DEF Exhausted
  <2>4. d.to \in Ends => p = "planning"
    BY <2>1, <2>2, ConstantsAssumption, GraphAssumption
    DEF Repairer, LastResort, Planes, RecoveryStages
  <2>5. QED
    BY <2>1, <2>3, <2>4
<1>2. CASE ~Exhausted(s, p, on, class) /\ on = "done" /\ n \in DOMAIN Resume
  <2>1. PICK m \in Resume[n] : d = Decide(m, None)
    BY <1>2 DEF Routes, default
  <2>2. m \in Nodes /\ m \notin Ends
    BY <1>2, ConstantsAssumption
  <2>3. QED
    BY <2>1, <2>2
<1>3. CASE ~Exhausted(s, p, on, class) /\ ~(on = "done" /\ n \in DOMAIN Resume)
  <2>1. PICK e \in Edges : /\ e.from = n /\ e.on = on
                           /\ d = Decide(e.to, IF on = "blocked" /\ p # "learning" THEN class ELSE None)
    BY <1>3 DEF Routes, default
  <2>2. e = [from |-> n, on |-> on, to |-> e.to]
    BY <2>1, ConstantsAssumption
  <2>3. QED
    BY <2>1, <2>2
<1>4. QED
  BY <1>1, <1>2, <1>3

(* What is decided of a run once the effect of its stage has been applied. *)
LEMMA DecisionFacts ==
  ASSUME BInv, pc = "idle", NEW p \in Planes, mem.item[p] # None,
         mem.node[p] # None, mem.item[p] \in Takes[mem.node[p]],
         NEW on \in Outcomes, NEW reported \in Reported \cup {None},
         on # "blocked" => reported = None,
         NEW r \in Routes(mem, p, on, reported), NEW d \in Disposed(r, mem.node[p])
  PROVE  /\ d \in Decisions /\ d.plane = p
         /\ d.on = "fix" /\ d.to \in Nodes /\ d.to # Repairer[p] =>
              p = "execution" /\ d.to \notin RecoveryStages /\ mem.fix < MaxFix
         /\ d.on = "fix" /\ d.to = Repairer[p] => carried \/ counters[mem.item[p]].fix >= MaxFix
         /\ d.to \in {"mechanic", "troubleshooter"} /\ d.class # None => Room(mem.item[p], d.class)
         /\ p = "learning" => d.class = None \/ d.to = None
         /\ d.to \in FixPolicy => d.class = None
         /\ d.to = "handoff" => p = "execution"
         /\ d.to \in Ends =>
              p = "planning" \/ [from |-> mem.node[p], on |-> d.on, to |-> d.to] \in Edges
<1>1. mem.node[p] \in Nodes /\ PlaneOf[mem.item[p]] = p
  BY DEF BInv, IInv, TypeOK, Snapshots, Owned
<1>2. /\ r \in Decisions /\ r.plane = p /\ r.on = on /\ (on = "done" => r.class = None)
      /\ r.on = "fix" /\ r.to \in Nodes /\ r.to # Repairer[p] =>
           p = "execution" /\ r.to \notin RecoveryStages /\ mem.fix < MaxFix
      /\ r.on = "fix" /\ r.to = Repairer[p] => carried \/ counters[mem.item[p]].fix >= MaxFix
      /\ r.to \in {"mechanic", "troubleshooter"} /\ r.class # None => Room(mem.item[p], r.class)
      /\ p = "learning" => r.class = None \/ r.to = None
      /\ r.to \in FixPolicy => r.class = None
      /\ r.to = "handoff" => p = "execution"
      /\ r.to \in Ends => p = "planning" \/ [from |-> mem.node[p], on |-> on, to |-> r.to] \in Edges
  <2>1. mem.node[p] \in FixPolicy => p = "execution"
    BY <1>1, RecoveryAssumption
  <2>2. QED
    BY <2>1, RoutesFacts, RoutesEnds
<1>3. /\ d \in Decisions /\ d.plane = r.plane /\ d.on = r.on
      /\ d = r \/ (mem.node[p] = "planner" /\ r.on \in {"done", "blocked"})
      /\ d.to = r.to \/ d.to \in Nodes \cup {"complete", "blocked"}
      /\ d.to = r.to \/ d.to \in {"complete", "blocked"}
           \/ \E f \in Edges : f.from = mem.node[p] /\ f.on = r.on /\ f.to = d.to
      /\ d.class = r.class \/ d.to \in {"complete", "blocked"}
  BY <1>1, <1>2, DisposedType
<1>4. CASE d = r
  BY <1>2, <1>4
<1>5. CASE d # r
  <2>1. d.plane = p /\ d.on # "fix" /\ mem.node[p] = "planner" /\ p = "planning"
    BY <1>1, <1>2, <1>3, <1>5, RecoveryAssumption
  <2>2. Room(mem.item[p], d.class)
    BY <1>1, <2>1 DEF Room
  <2>3. d.to \in FixPolicy => d.class = None
    <3>1. SUFFICES ASSUME d.to \in FixPolicy PROVE d.class = None
      OBVIOUS
    <3>2. d.to \in Nodes /\ d.to \notin {"complete", "blocked"}
      BY <3>1, ConstantsAssumption DEF Ends
    <3>3. d.class = r.class
      BY <1>3, <3>2
    <3>4. CASE d.to = r.to
      BY <1>2, <3>1, <3>3, <3>4
    <3>5. CASE d.to # r.to
      <4>1. PICK f \in Edges : f.from = mem.node[p] /\ f.on = r.on /\ f.to = d.to
        BY <1>3, <3>2, <3>5
      <4>2. r.on # "blocked"
        BY <3>1, <4>1, RecoveryAssumption
      <4>3. r.on = "done"
        BY <1>3, <1>5, <4>2
      <4>4. QED
        BY <1>2, <3>3, <4>3
    <3>6. QED
      BY <3>4, <3>5
  <2>4. d.to # "handoff"
    <3>1. r.to # "handoff"
      BY <1>2, <2>1
    <3>2. QED
      BY <1>3, <3>1, ConstantsAssumption DEF Ends
  <2>5. QED
    BY <1>3, <2>1, <2>2, <2>3, <2>4
<1>6. QED
  BY <1>4, <1>5

-----------------------------------------------------------------------------
(* The steps and the budgets *)

(* The types the budgets are about. *)
LEMMA BudgetTypes ==
  ASSUME IInv
  PROVE  /\ fixes \in Nat /\ wipes \in Nat /\ MaxFix \in Nat /\ faults \in Nat
         /\ mem \in Snapshots /\ saved \in Snapshots /\ mem.fix \in Nat /\ saved.fix \in Nat
         /\ \A i \in Items : counters[i].fix \in Nat
         /\ \A i \in Items : \A c \in Classes : counters[i].repair[c] \in Nat
         /\ \A c : Limit(c) \in Nat
         /\ \A p \in Planes : mem.item[p] # None => mem.item[p] \in Items /\ PlaneOf[mem.item[p]] = p
         /\ \A p \in Planes : saved.item[p] # None => saved.item[p] \in Items /\ PlaneOf[saved.item[p]] = p
         /\ mem.class \in Classes \cup {None} /\ saved.class \in Classes \cup {None}
  BY ConstantsAssumption DEF IInv, TypeOK, Snapshots, Owned, Limit, StaleLimit

(* Leave, whatever ends the run: the fix count goes with it. *)
LEMMA LeaveBudgets ==
  ASSUME BInv, IInv', pc \in {"apply", "counted", "filed"}, NEW to, NEW class,
         Leave(todo.plane, to, class), fixes' = fixes,
         faults' = faults + 1 \/ (faults' = faults /\ (todo.plane # "learning" \/ class = None))
  PROVE  FixFacts' /\ RepairFacts'
<1> DEFINE p == todo.plane
           i == mem.item[p]
           x == mem.item["execution"]
<1>1. p \in Planes /\ i \in Items /\ PlaneOf[i] = p /\ mem \in Snapshots /\ i # None
  BY DEF BInv, IInv, TypeOK, Decisions, Applying, Owned, Snapshots
<1>2. /\ mem'.item = [mem.item EXCEPT ![p] = None] /\ mem'.fix = 0 /\ mem'.class = class
      /\ \A q \in Planes \ {p} : mem'.node[q] = mem.node[q]
      /\ saved' = mem'
  BY <1>1 DEF Leave, Cleared, Snapshots
<1>3. counters' = [counters EXCEPT ![i] = NoEntry] /\ pc' = "idle"
      /\ wipes' = IF mem.fix > 0 /\ p # "execution" /\ "execution" \in Active(mem)
                  THEN wipes + 1 ELSE wipes
  BY DEF Leave
<1>4. \A j \in Items \ {i} : counters'[j] = counters[j]
  BY <1>3 DEF BInv, IInv, TypeOK
<1>5. \A c \in Classes : counters'[i].repair[c] = 0
  BY <1>1, <1>3 DEF NoEntry, BInv, IInv, TypeOK
<1>6. mem'.item["execution"] # None => /\ p # "execution" /\ mem'.item["execution"] = x
                                       /\ x \in Items \ {i} /\ "execution" \in Active(mem)
  BY <1>1, <1>2, BudgetTypes DEF Planes, Snapshots, Active, BInv
<1>7. FixFacts'
  <2>1. wipes' >= wipes /\ wipes' \in Nat
    BY <1>3, BudgetTypes DEF BInv
  <2>2. FixBudget'
    BY <2>1, BudgetTypes DEF BInv, FixFacts, FixBudget
  <2>3. ExhaustionEarned' /\ FixGranted'
    BY <1>3 DEF ExhaustionEarned, FixGranted
  <2>4. FixLeft(mem)' /\ FixLeft(saved)'
    BY <1>2 DEF FixLeft
  <2>5. FixSpent(mem)'
    <3>1. SUFFICES ASSUME mem'.item["execution"] # None
                   PROVE  fixes <= counters[x].fix /\ (0 < MaxFix => fixes < MaxFix + wipes')
      BY <1>2, <1>4, <1>6, BudgetTypes DEF FixSpent, BInv
    <3>2. fixes <= counters[x].fix /\ (mem.fix < MaxFix => fixes < MaxFix + wipes)
          /\ fixes <= MaxFix + wipes
      BY <1>6, <3>1 DEF BInv, FixFacts, FixSpent, Active, FixBudget
    <3>3. CASE mem.fix > 0
      BY <1>3, <1>6, <3>1, <3>2, <3>3, BudgetTypes DEF BInv
    <3>4. CASE ~(mem.fix > 0)
      BY <1>3, <1>6, <3>1, <3>2, <3>4, BudgetTypes DEF BInv
    <3>5. QED
      BY <3>3, <3>4
  <2>6. FixSpent(saved)'
    BY <1>2, <2>5 DEF FixSpent
  <2>7. QED
    BY <2>2, <2>3, <2>4, <2>5, <2>6 DEF FixFacts
<1>8. faults' \in Nat /\ faults' >= faults
  BY BudgetTypes DEF BInv
<1>9. RepairBudget'
  <2>1. ASSUME NEW j \in Items, NEW c \in Classes \ Unchecked, PlaneOf[j] # "planning"
        PROVE  counters'[j].repair[c] <= Limit(c) + faults'
    <3>1. CASE j = i
      BY <1>5, <1>8, <3>1, BudgetTypes DEF BInv
    <3>2. CASE j # i
      BY <1>4, <1>8, <2>1, <3>2, BudgetTypes DEF BInv, RepairFacts, RepairBudget
    <3>3. QED
      BY <3>1, <3>2
  <2>2. QED
    BY <2>1 DEF RepairBudget
<1>10. Apart(mem)' /\ Apart(saved)'
  BY <1>1, <1>2 DEF Apart, BInv, RepairFacts, Snapshots, Planes
<1>11. ClassLeft(mem)'
  <2>1. CASE faults' = faults + 1
    <3>1. SUFFICES ASSUME mem'.item["execution"] # None, mem'.class # None
                   PROVE  Room(mem.item["execution"], mem.class)'
      BY <1>6 DEF ClassLeft, Room
    <3>2. mem'.class \in Classes /\ mem.item["execution"] \in Items
      BY <1>6, <3>1 DEF IInv, TypeOK, Snapshots
    <3>3. counters[x].repair[mem'.class] <= Limit(mem'.class) + faults \/ mem'.class \in Unchecked \/ PlaneOf[x] = "planning"
      BY <3>2 DEF BInv, RepairFacts, RepairBudget
    <3>4. QED
      BY <1>4, <1>6, <2>1, <3>1, <3>2, <3>3, BudgetTypes DEF Room, BInv
  <2>2. CASE p # "learning"
    <3>1. mem'.item["execution"] = None
      BY <1>1, <1>2, <2>2 DEF BInv, RepairFacts, Apart, Planes, Snapshots
    <3>2. QED
      BY <3>1 DEF ClassLeft
  <2>3. CASE class = None
    BY <1>2, <2>3 DEF ClassLeft
  <2>4. QED
    BY <2>1, <2>2, <2>3
<1>12. Routed'
  BY <1>3 DEF Routed
<1>13. QED
  BY <1>3, <1>7, <1>9, <1>10, <1>11, <1>12 DEF RepairFacts

(* A repair that is scheduled counts nothing. *)
LEMMA RecoverBudgets ==
  ASSUME BInv, IInv', pc \in {"apply", "counted", "filed"}, Recover, fixes' = fixes,
         faults' = faults + 1 \/ (faults' = faults /\ todo.plane \in {"planning", "execution"})
  PROVE  FixFacts' /\ RepairFacts'
<1>1. /\ mem'.item = mem.item /\ mem'.fix = mem.fix /\ saved' = mem'
      /\ mem'.node = [mem.node EXCEPT ![todo.plane] = Repairer[todo.plane]]
      /\ mem'.class = "post_stage_apply_failed" /\ pc' = "idle"
      /\ UNCHANGED <<counters, wipes, carried>>
  BY BudgetTypes DEF Recover, Snapshots, BInv
<1>2. FixFacts'
  BY <1>1 DEF BInv, FixFacts, FixBudget, ExhaustionEarned, FixGranted, FixLeft, FixSpent
<1>3. faults' \in Nat /\ faults' >= faults
  BY BudgetTypes DEF BInv
<1>4. RepairBudget'
  BY <1>1, <1>3, BudgetTypes DEF BInv, RepairFacts, RepairBudget
<1>5. ClassLeft(mem)'
  <2>1. CASE faults' = faults + 1
    <3>1. SUFFICES ASSUME mem.item["execution"] # None
                   PROVE  Room(mem.item["execution"], "post_stage_apply_failed")'
      BY <1>1 DEF ClassLeft, Room
    <3>2. "post_stage_apply_failed" \in Classes /\ mem.item["execution"] \in Items
      BY <3>1, BudgetTypes DEF Classes, BInv, Planes
    <3>3. QED
      BY <1>1, <2>1, <3>2, BudgetTypes DEF Room, BInv, RepairFacts, RepairBudget
  <2>2. CASE todo.plane = "execution"
    <3>1. mem'.node["execution"] = "troubleshooter"
      BY <1>1, <2>2, BudgetTypes DEF Repairer, Planes, Snapshots, BInv
    <3>2. QED
      BY <3>1, RecoveryNames DEF ClassLeft, RecoveryStages
  <2>3. CASE todo.plane = "planning"
    <3>1. mem'.item["execution"] = None
      BY <1>1, <2>3 DEF BInv, IInv, Applying, RepairFacts, Apart
    <3>2. QED
      BY <3>1 DEF ClassLeft
  <2>4. QED
    BY <2>1, <2>2, <2>3
<1>6. Apart(mem)' /\ Apart(saved)' /\ Routed'
  BY <1>1 DEF BInv, RepairFacts, Apart, Routed
<1>7. QED
  BY <1>1, <1>2, <1>4, <1>5, <1>6 DEF RepairFacts

(* No run is left, and counts are only forgotten. *)
LEMMA GiveBackBudgets ==
  ASSUME BInv, IInv', pc = "idle", pc' = "idle",
         \A q \in Planes : mem'.item[q] = None, mem'.fix = 0, saved' = mem',
         \A i \in Items : counters'[i] \in {counters[i], NoEntry},
         UNCHANGED <<todo, faults, fixes, wipes>>
  PROVE  FixFacts' /\ RepairFacts'
<1>1. mem'.item["execution"] = None
  BY DEF Planes
<1>2. FixFacts'
  BY <1>1 DEF BInv, FixFacts, FixBudget, ExhaustionEarned, FixGranted, FixLeft, FixSpent
<1>3. RepairBudget'
  <2>1. ASSUME NEW i \in Items, NEW c \in Classes \ Unchecked, PlaneOf[i] # "planning"
        PROVE  counters'[i].repair[c] <= Limit(c) + faults
    <3>1. CASE counters'[i] = counters[i]
      BY <2>1, <3>1 DEF BInv, RepairFacts, RepairBudget
    <3>2. CASE counters'[i] = NoEntry
      BY <3>2, BudgetTypes DEF NoEntry, BInv
    <3>3. QED
      BY <3>1, <3>2
  <2>2. QED
    BY <2>1 DEF RepairBudget
<1>4. QED
  BY <1>1, <1>2, <1>3 DEF RepairFacts, Apart, Routed, ClassLeft

(* In the first state nothing is counted. *)
LEMMA InitBudgets == Init => BInv
<1> SUFFICES ASSUME Init PROVE BInv
  OBVIOUS
<1>1. IInv
  BY InitHolds
<1>2. mem = Fresh /\ saved = Fresh /\ pc = "off" /\ fixes = 0 /\ wipes = 0 /\ faults = 0
      /\ counters = [i \in Items |-> NoEntry]
  BY DEF Init
<1>3. Fresh.fix = 0 /\ Fresh.item["execution"] = None
  BY DEF Fresh, Planes
<1>4. FixFacts
  BY <1>1, <1>2, <1>3, BudgetTypes
  DEF FixFacts, FixBudget, ExhaustionEarned, FixGranted, FixLeft, FixSpent
<1>5. RepairBudget
  BY <1>1, <1>2, BudgetTypes DEF RepairBudget, NoEntry
<1>6. QED
  BY <1>1, <1>2, <1>3, <1>4, <1>5 DEF BInv, RepairFacts, Apart, Routed, ClassLeft

(* Startup counts the repair it orders: of a task only below the limit. *)
LEMMA StartBudgets == ASSUME BInv, IInv', Start PROVE FixFacts' /\ RepairFacts'
<1> DEFINE p == Foreground(saved)
           n == StaleStage(p)
           i == saved.item[p]
           c == "stale_active_ownership"
           resumed == [saved EXCEPT !.running = TRUE, !.node[p] = n, !.class = c]
           decision == [plane |-> p, on |-> "blocked", to |-> n, class |-> c]
<1>1. pc = "off" /\ pc' = "started" /\ UNCHANGED <<place, saved, children, taken, bounds, history>>
  BY DEF Start
<1>2. \/ /\ Active(saved) # {} /\ p # "learning" /\ mem' = resumed
         /\ todo' = decision /\ counters' = Counted(decision, i)
      \/ mem' = [saved EXCEPT !.running = TRUE] /\ UNCHANGED <<todo, counters>>
  BY Zenon DEF Start
<1>3. saved \in Snapshots
  BY BudgetTypes DEF BInv
<1>4. CASE mem' = [saved EXCEPT !.running = TRUE] /\ UNCHANGED <<todo, counters>>
  <2>1. mem'.item = saved.item /\ mem'.node = saved.node /\ mem'.class = saved.class /\ mem'.fix = saved.fix
    BY <1>3, <1>4 DEF Snapshots
  <2>2. FixFacts'
    BY <1>1, <1>4, <2>1 DEF BInv, FixFacts, FixBudget, ExhaustionEarned, FixGranted, FixLeft, FixSpent, history
  <2>3. RepairFacts'
    BY <1>1, <1>4, <2>1
    DEF BInv, RepairFacts, RepairBudget, Apart, Routed, ClassLeft, Room, bounds
  <2>4. QED
    BY <2>2, <2>3
<1>5. CASE /\ Active(saved) # {} /\ p # "learning" /\ mem' = resumed
           /\ todo' = decision /\ counters' = Counted(decision, i)
  <2>1. p \in {"planning", "execution"} /\ p \in Active(saved)
    BY <1>5 DEF Foreground, Active, Planes
  <2>2. i \in Items /\ PlaneOf[i] = p /\ i # None
    BY <2>1, BudgetTypes DEF Planes, BInv, Active
  <2>3. n \in RecoveryStages /\ n \in Nodes /\ c \in Classes
    BY <2>1, RecoveryNames DEF StaleStage, Repairer, RecoveryStages, Planes, Classes
  <2>4. decision \in Decisions
    BY <2>1, <2>3 DEF Decisions, Planes, Outcomes
  <2>5. /\ mem'.item = saved.item /\ mem'.fix = saved.fix
        /\ mem'.node = [saved.node EXCEPT ![p] = n]
    BY <1>3, <1>5 DEF Snapshots
  <2> DEFINE d == decision
  <2>6. d.class = c /\ d.to = n /\ d.on = "blocked" /\ d.plane = p /\ c # None
    BY <2>3, ConstantsAssumption
  <2>7. counters \in CounterType
    BY DEF BInv, IInv, TypeOK, CounterType
  <2> HIDE DEF decision, n, i, p, resumed
  <2>8. /\ \A j \in Items \ {i} : counters'[j] = counters[j]
        /\ \A k \in Classes : counters'[i].repair[k] =
             IF n \in {"troubleshooter", "mechanic"} /\ k = c
             THEN counters[i].repair[k] + 1 ELSE counters[i].repair[k]
        /\ counters'[i].fix = counters[i].fix
    BY <1>5, <2>2, <2>4, <2>6, <2>7, CountedFacts
  <2>9. \A j \in Items : counters'[j].fix = counters[j].fix
    BY <2>8
  <2>10. FixFacts'
    <3>1. FixLeft(mem)' /\ FixLeft(saved)'
      BY <1>1, <2>5, <2>9, BudgetTypes DEF BInv, FixFacts, FixLeft, Planes, history
    <3>2. FixSpent(mem)' /\ FixSpent(saved)'
      BY <1>1, <2>5, <2>9, BudgetTypes DEF BInv, FixFacts, FixSpent, Planes, history
    <3>3. QED
      BY <1>1, <3>1, <3>2 DEF BInv, FixFacts, FixBudget, ExhaustionEarned, FixGranted, history
  <2>11. RepairBudget'
    <3>1. ASSUME NEW j \in Items, NEW k \in Classes \ Unchecked, PlaneOf[j] # "planning"
          PROVE  counters'[j].repair[k] <= Limit(k) + faults
      <4>1. counters[j].repair[k] <= Limit(k) + faults
        BY <3>1 DEF BInv, RepairFacts, RepairBudget
      <4>2. CASE j = i /\ k = c /\ n \in {"troubleshooter", "mechanic"}
        <5>1. p = "execution" /\ n # "consultant"
          BY <2>1, <2>2, <4>2, <3>1
        <5>2. Attempts(saved, p, c) = counters[i].repair[c]
          BY <2>1 DEF Attempts, p, i
        <5>3. ~(Attempts(saved, p, c) >= StaleLimit)
          BY <5>1 DEF StaleStage, n
        <5>4. StaleLimit <= Limit(c) /\ Limit(c) \in Nat /\ faults \in Nat /\ counters[i].repair[c] \in Nat
          BY <2>2, <2>3, BudgetTypes, ConstantsAssumption DEF Limit, StaleLimit, BInv
        <5>5. QED
          BY <2>2, <2>3, <2>8, <4>2, <5>2, <5>3, <5>4 DEF StaleLimit
      <4>3. CASE ~(j = i /\ k = c /\ n \in {"troubleshooter", "mechanic"})
        BY <2>8, <4>1, <4>3
      <4>4. QED
        BY <4>2, <4>3
    <3>2. QED
      BY <1>1, <3>1 DEF RepairBudget, bounds
  <2>12. ClassLeft(mem)'
    <3>1. CASE p = "execution"
      <4>1. mem'.node["execution"] \notin FixPolicy
        BY <1>3, <2>3, <2>5, <3>1, RecoveryNames DEF Snapshots, Planes
      <4>2. QED
        BY <4>1 DEF ClassLeft
    <3>2. CASE p = "planning"
      <4>1. mem'.item["execution"] = None
        BY <2>2, <2>5, <3>2 DEF BInv, RepairFacts, Apart, i
      <4>2. QED
        BY <4>1 DEF ClassLeft
    <3>3. QED
      BY <2>1, <3>1, <3>2
  <2>13. QED
    BY <1>1, <2>5, <2>10, <2>11, <2>12 DEF BInv, RepairFacts, Apart, Routed
<1>6. QED
  BY <1>2, <1>4, <1>5

(* The resumed snapshot is saved. *)
LEMMA StartSaveBudgets == ASSUME BInv, IInv', StartSave PROVE FixFacts' /\ RepairFacts'
<1>1. pc = "started" /\ pc' = "idle" /\ saved' = mem
      /\ UNCHANGED <<mem, counters, bounds, fixes, wipes, carried>>
  BY DEF StartSave
<1>2. FixFacts'
  BY <1>1 DEF BInv, FixFacts, FixBudget, ExhaustionEarned, FixGranted, FixLeft, FixSpent
<1>3. RepairFacts'
  BY <1>1 DEF BInv, RepairFacts, RepairBudget, Apart, Routed, ClassLeft, Room, bounds
<1>4. QED
  BY <1>2, <1>3

(* A claimed item has a new run without a failure; a task starts to count. *)
LEMMA ClaimBudgets == ASSUME BInv, IInv', NEW i \in Items, Claim(i) PROVE FixFacts' /\ RepairFacts'
<1> DEFINE p == PlaneOf[i]
<1>1. p \in Planes /\ mem \in Snapshots
  BY ConstantsAssumption, BudgetTypes DEF BInv
<1>2. /\ mem'.item = [mem.item EXCEPT ![p] = i] /\ mem'.class = None /\ mem'.fix = mem.fix
      /\ saved' = mem'
  BY <1>1 DEF Claim, Snapshots
<1>3. /\ pc = "idle" /\ p \notin Active(mem) /\ \A q \in Active(mem) : {p, q} \in Concurrent
      /\ UNCHANGED <<counters, pc, todo, children, bounds, carried>>
      /\ IF p = "execution" THEN fixes' = 0 /\ wipes' = 0 ELSE UNCHANGED <<fixes, wipes>>
  BY DEF Claim
<1>4. mem.item[p] = None /\ "execution" \in Planes
  BY <1>1, <1>3 DEF Active, Planes
<1>5. \A j \in Items : counters[j].fix \in Nat
  BY BudgetTypes DEF BInv
<1>6. MaxFix \in Nat
  BY ConstantsAssumption
<1>7. FixFacts'
  <2>1. FixBudget'
    BY <1>3, <1>6 DEF FixBudget, BInv, FixFacts
  <2>2. ExhaustionEarned' /\ FixGranted'
    BY <1>3 DEF ExhaustionEarned, FixGranted
  <2>3. FixLeft(mem)'
    <3>1. CASE p = "execution"
      BY <1>2, <1>3, <1>4, <3>1 DEF FixLeft, BInv, FixFacts
    <3>2. CASE p # "execution"
      <4>1. mem'.item["execution"] = mem.item["execution"]
        BY <1>1, <1>2, <1>4, <3>2 DEF Snapshots
      <4>2. QED
        BY <1>2, <1>3, <4>1 DEF FixLeft, BInv, FixFacts
    <3>3. QED
      BY <3>1, <3>2
  <2>4. FixSpent(mem)'
    <3>1. CASE p = "execution"
      <4>1. mem'.item["execution"] = i
        BY <1>1, <1>2, <3>1 DEF Snapshots
      <4>2. QED
        BY <1>2, <1>3, <1>5, <1>6, <3>1, <4>1, BudgetTypes DEF FixSpent, BInv
    <3>2. CASE p # "execution"
      <4>1. mem'.item["execution"] = mem.item["execution"]
        BY <1>1, <1>2, <1>4, <3>2 DEF Snapshots
      <4>2. QED
        BY <1>2, <1>3, <3>2, <4>1 DEF FixSpent, BInv, FixFacts
    <3>3. QED
      BY <3>1, <3>2
  <2>5. FixLeft(saved)' /\ FixSpent(saved)'
    BY <1>2, <2>3, <2>4 DEF FixLeft, FixSpent
  <2>6. QED
    BY <2>1, <2>2, <2>3, <2>4, <2>5 DEF FixFacts
<1>8. RepairBudget' /\ Routed' /\ ClassLeft(mem)'
  BY <1>2, <1>3 DEF BInv, RepairFacts, RepairBudget, Routed, ClassLeft, bounds
<1>9. Apart(mem)'
  <2>1. p = "planning" => "execution" \notin Active(mem)
    BY <1>3, RecoveryAssumption
  <2>2. p = "execution" => "planning" \notin Active(mem)
    <3>1. SUFFICES ASSUME p = "execution", "planning" \in Active(mem) PROVE FALSE
      OBVIOUS
    <3>2. {"execution", "planning"} \in Concurrent
      BY <1>3, <3>1
    <3>3. {"execution", "planning"} = {"planning", "execution"}
      OBVIOUS
    <3>4. QED
      BY <3>2, <3>3, RecoveryAssumption
  <2>3. QED
    BY <1>1, <1>2, <2>1, <2>2 DEF Apart, Active, Planes, Snapshots, BInv, RepairFacts
<1>10. QED
  BY <1>2, <1>3, <1>7, <1>8, <1>9 DEF RepairFacts, Apart

(* The router looks at the counters before it grants a fix or a repair. *)
LEMMA StageBudgets == ASSUME BInv, IInv', NEW p \in Planes, Stage(p) PROVE FixFacts' /\ RepairFacts'
<1>1. /\ pc = "idle" /\ mem.item[p] # None /\ mem.node[p] # None
      /\ mem.item[p] \in Takes[mem.node[p]]
  BY DEF Stage, Active
<1>2. PICK on \in Outcomes, reported \in Reported \cup {None} :
        /\ on # "blocked" => reported = None /\ help < MaxHelp
        /\ \E r \in Routes(mem, p, on, reported) : todo' \in Disposed(r, mem.node[p])
  BY Zenon DEF Stage
<1>3. mem' = [mem EXCEPT !.class = todo'.class] /\ saved' = mem' /\ pc' = "apply"
      /\ UNCHANGED <<counters, faults, history>>
  BY DEF Stage
<1>4. /\ mem'.item = mem.item /\ mem'.node = mem.node /\ mem'.fix = mem.fix
      /\ mem'.class = todo'.class
  BY <1>3, BudgetTypes DEF Snapshots, BInv
<1>5. mem.node[p] \in Nodes
  BY <1>1, BudgetTypes DEF BInv, Snapshots
<1> DEFINE d == todo'
<1>6. /\ d \in Decisions /\ d.plane = p
      /\ d.on = "fix" /\ d.to \in Nodes /\ d.to # Repairer[p] =>
           p = "execution" /\ d.to \notin RecoveryStages /\ mem.fix < MaxFix
      /\ d.on = "fix" /\ d.to = Repairer[p] => carried \/ counters[mem.item[p]].fix >= MaxFix
      /\ d.to \in {"mechanic", "troubleshooter"} /\ d.class # None => Room(mem.item[p], d.class)
      /\ p = "learning" => d.class = None \/ d.to = None
      /\ d.to \in FixPolicy => d.class = None
      /\ d.to = "handoff" => p = "execution"
      /\ d.to \in Ends =>
           p = "planning" \/ [from |-> mem.node[p], on |-> d.on, to |-> d.to] \in Edges
  <2>1. PICK r \in Routes(mem, p, on, reported) : d \in Disposed(r, mem.node[p])
    BY <1>2
  <2>2. QED
    BY <1>1, <1>2, <2>1, DecisionFacts
<1> HIDE DEF d
<1>7. item' = mem.item[p]
  BY <1>4, <1>6 DEF item, d
<1>8. FixFacts'
  <2>1. FixBudget' /\ FixLeft(mem)' /\ FixLeft(saved)' /\ FixSpent(mem)' /\ FixSpent(saved)'
    BY <1>3, <1>4 DEF BInv, FixFacts, FixBudget, FixLeft, FixSpent, history
  <2>2. ExhaustionEarned'
    BY <1>3, <1>6, <1>7 DEF ExhaustionEarned, d, history
  <2>3. FixGranted'
    BY <1>3, <1>4, <1>6 DEF FixGranted, d
  <2>4. QED
    BY <2>1, <2>2, <2>3 DEF FixFacts
<1>9. RepairBudget' /\ Apart(mem)' /\ Apart(saved)'
  BY <1>3, <1>4 DEF BInv, RepairFacts, RepairBudget, Apart
<1>10. Routed'
  BY <1>1, <1>3, <1>4, <1>5, <1>6, <1>7 DEF Routed, Room, Mapped, d
<1>11. QED
  BY <1>3, <1>8, <1>9, <1>10 DEF RepairFacts

(* Counting uses up what the decision was granted. *)
LEMMA CountRouteBudgets == ASSUME BInv, IInv', CountRoute PROVE FixFacts' /\ RepairFacts'
<1> DEFINE k == IF counters'[item].fix # counters[item].fix THEN counters'[item].fix ELSE mem.fix
           cls == IF todo.class = None THEN "recoverable_failure" ELSE todo.class
<1>1. /\ pc = "apply" /\ todo.to \in Nodes /\ counters' = Counted(todo, item) /\ pc' = "counted"
      /\ UNCHANGED <<place, saved, todo, children, taken, bounds, history>>
  BY DEF CountRoute
<1>2. mem' = [mem EXCEPT !.node[todo.plane] = todo.to, !.fix = k]
  BY DEF CountRoute
<1>3. todo \in Decisions /\ todo.plane \in Planes /\ item \in Items /\ PlaneOf[item] = todo.plane
  BY <1>1, BudgetTypes DEF BInv, IInv, TypeOK, Decisions, Applying, item
<1> HIDE DEF k
<1>4. /\ mem'.item = mem.item /\ mem'.class = mem.class /\ mem'.fix = k
      /\ mem'.node = [mem.node EXCEPT ![todo.plane] = todo.to]
  BY <1>2, BudgetTypes DEF Snapshots, BInv
<1>5. counters \in CounterType
  BY DEF BInv, IInv, TypeOK, CounterType
<1>6. /\ cls \in Classes
      /\ \A j \in Items \ {item} : counters'[j] = counters[j]
      /\ \A c \in Classes : counters'[item].repair[c] =
           IF todo.to \in {"troubleshooter", "mechanic"} /\ c = cls
           THEN counters[item].repair[c] + 1 ELSE counters[item].repair[c]
      /\ counters'[item].fix =
           IF todo.to \notin {"troubleshooter", "mechanic", "consultant"} /\ todo.on = "fix"
           THEN counters[item].fix + 1 ELSE counters[item].fix
  BY <1>1, <1>3, <1>5, CountedFacts
<1> HIDE DEF cls
<1>7. \A j \in Items : counters'[j].fix >= counters[j].fix /\ counters[j].fix \in Nat /\ counters'[j].fix \in Nat
  BY <1>6, <1>3, BudgetTypes DEF BInv
<1>8. item' = item
  BY <1>1, <1>4 DEF item
<1>9. ASSUME todo.to \notin {"troubleshooter", "mechanic", "consultant"} /\ todo.on = "fix"
      PROVE  FixGranted' /\ FixLeft(mem)' /\ FixSpent(mem)'
  <2>1. todo.to # Repairer[todo.plane]
    BY <1>1, <1>3, <1>9, RecoveryNames DEF Repairer, Planes
  <2>2. todo.plane = "execution" /\ mem.fix < MaxFix /\ item = mem.item["execution"] /\ item # None
    BY <1>1, <1>3, <1>9, <2>1, RecoveryNames DEF FixGranted, BInv, FixFacts, item
  <2>3. counters'[item].fix = counters[item].fix + 1 /\ k = counters'[item].fix
    BY <1>3, <1>6, <1>7, <1>9 DEF k
  <2>4. fixes <= counters[item].fix /\ fixes < MaxFix + wipes
    BY <2>2 DEF BInv, FixFacts, FixSpent
  <2>5. fixes < counters'[item].fix
    BY <1>3, <1>7, <2>3, <2>4, BudgetTypes DEF BInv
  <2>6. FixGranted'
    BY <1>1, <1>4, <1>8, <1>9, <2>2, <2>3, <2>4, <2>5 DEF FixGranted, history, RecoveryStages
  <2>7. FixLeft(mem)'
    BY <1>1, <1>3, <1>4, <2>2, <2>3, <1>7 DEF FixLeft, history
  <2>8. FixSpent(mem)'
    BY <1>1, <1>3, <1>4, <2>2, <2>4, <2>5, <1>7, BudgetTypes DEF FixSpent, history, BInv
  <2>9. QED
    BY <2>6, <2>7, <2>8
<1>10. ASSUME ~(todo.to \notin {"troubleshooter", "mechanic", "consultant"} /\ todo.on = "fix")
       PROVE  FixGranted' /\ FixLeft(mem)' /\ FixSpent(mem)'
  <2>1. k = mem.fix /\ \A j \in Items : counters'[j].fix = counters[j].fix
    BY <1>3, <1>6, <1>10 DEF k
  <2>2. FixLeft(mem)' /\ FixSpent(mem)'
    BY <1>1, <1>4, <2>1, BudgetTypes DEF FixLeft, FixSpent, history, BInv, FixFacts, Planes
  <2>3. FixGranted'
    <3>1. SUFFICES ASSUME todo.on = "fix", todo.to # Repairer[todo.plane] PROVE FALSE
      BY <1>1 DEF FixGranted
    <3>2. todo.to \in RecoveryStages /\ todo.to \notin RecoveryStages
      BY <1>1, <1>10, <3>1 DEF FixGranted, BInv, FixFacts, RecoveryStages
    <3>3. QED
      BY <3>2
  <2>4. QED
    BY <2>2, <2>3
<1>11. FixFacts'
  <2>1. FixGranted' /\ FixLeft(mem)' /\ FixSpent(mem)'
    BY <1>9, <1>10
  <2>2. FixLeft(saved)' /\ FixSpent(saved)'
    <3>1. saved.item["execution"] # None => saved.item["execution"] \in Items
      BY BudgetTypes DEF BInv, Planes
    <3>2. QED
      BY <1>1, <1>7, <3>1, BudgetTypes DEF FixLeft, FixSpent, history, BInv, FixFacts
  <2>3. QED
    BY <1>1, <2>1, <2>2 DEF FixFacts, FixBudget, ExhaustionEarned, history, BInv
<1>12. RepairBudget'
  <2>1. ASSUME NEW j \in Items, NEW c \in Classes \ Unchecked, PlaneOf[j] # "planning"
        PROVE  counters'[j].repair[c] <= Limit(c) + faults
    <3>1. counters[j].repair[c] <= Limit(c) + faults
      BY <2>1 DEF BInv, RepairFacts, RepairBudget
    <3>2. CASE j = item /\ c = cls /\ todo.to \in {"troubleshooter", "mechanic"}
      <4>1. todo.class # None /\ cls = todo.class
        BY <2>1, <3>2 DEF cls, Unchecked
      <4>2. Room(item, cls)
        BY <1>1, <3>2, <4>1 DEF BInv, RepairFacts, Routed
      <4>3. counters[item].repair[cls] < Limit(cls) + faults
        BY <2>1, <3>2, <4>2 DEF Room
      <4>4. QED
        BY <1>3, <1>6, <3>2, <4>3, BudgetTypes DEF BInv
    <3>3. CASE ~(j = item /\ c = cls /\ todo.to \in {"troubleshooter", "mechanic"})
      BY <1>6, <3>1, <3>3
    <3>4. QED
      BY <3>2, <3>3
  <2>2. QED
    BY <1>1, <2>1 DEF RepairBudget, bounds
<1>13. Routed'
  <2>1. mem'.node[todo.plane] = todo.to
    BY <1>3, <1>4, BudgetTypes DEF Snapshots, BInv
  <2>2. QED
    BY <1>1, <1>4, <2>1 DEF Routed, BInv, RepairFacts
<1>14. QED
  BY <1>1, <1>4, <1>11, <1>12, <1>13 DEF BInv, RepairFacts, Apart

(* A fixer is entered with what is left of its budget. *)
LEMMA SaveRouteBudgets == ASSUME BInv, IInv', SaveRoute PROVE FixFacts' /\ RepairFacts'
<1>1. /\ pc = "counted" /\ pc' = "idle" /\ saved' = mem /\ todo' = Idle
      /\ UNCHANGED <<place, mem, counters, children, taken, bounds, runs, wipes, carried>>
      /\ fixes' = IF todo.on = "fix" /\ todo.to # Repairer[todo.plane] THEN fixes + 1 ELSE fixes
  BY DEF SaveRoute
<1>2. todo.plane \in Planes /\ mem.item[todo.plane] # None
      /\ todo.to \in Nodes /\ mem.node[todo.plane] = todo.to
  BY <1>1 DEF BInv, IInv, TypeOK, Decisions, Applying, RepairFacts, Routed
<1>3. FixFacts'
  <2>1. CASE todo.on = "fix" /\ todo.to # Repairer[todo.plane]
    <3>1. /\ todo.plane = "execution" /\ mem.fix = counters[item].fix
          /\ fixes < counters[item].fix /\ fixes < MaxFix + wipes
          /\ item = mem.item["execution"] /\ item \in Items
      BY <1>1, <1>2, <2>1, BudgetTypes DEF BInv, FixFacts, FixGranted, item
    <3>2. fixes + 1 <= MaxFix + wipes /\ fixes + 1 <= counters[item].fix
          /\ (mem.fix < MaxFix => fixes + 1 < MaxFix + wipes)
      BY <3>1, BudgetTypes DEF BInv
    <3>3. FixBudget' /\ FixSpent(mem)'
      BY <1>1, <2>1, <3>1, <3>2 DEF FixBudget, FixSpent
    <3>4. QED
      BY <1>1, <3>3 DEF BInv, FixFacts, ExhaustionEarned, FixGranted, FixLeft, FixSpent
  <2>2. CASE ~(todo.on = "fix" /\ todo.to # Repairer[todo.plane])
    BY <1>1, <2>2 DEF BInv, FixFacts, FixBudget, ExhaustionEarned, FixGranted, FixLeft, FixSpent
  <2>3. QED
    BY <2>1, <2>2
<1>4. ClassLeft(mem)
  <2>1. CASE todo.plane = "execution"
    BY <1>1, <1>2, <2>1 DEF ClassLeft, BInv, RepairFacts, Routed
  <2>2. CASE todo.plane = "planning"
    BY <1>2, <2>2 DEF ClassLeft, BInv, RepairFacts, Apart
  <2>3. CASE todo.plane = "learning"
    BY <1>1, <1>2, <2>3, RecoveryNames DEF ClassLeft, BInv, RepairFacts, Routed
  <2>4. QED
    BY <1>2, <2>1, <2>2, <2>3 DEF Planes
<1>5. RepairFacts'
  BY <1>1, <1>4 DEF BInv, RepairFacts, RepairBudget, Apart, Routed, ClassLeft, Room, bounds
<1>6. QED
  BY <1>3, <1>5

(* The end of a run: one of the learning plane ends without a failure class. *)
LEMMA FinishBudgets == ASSUME BInv, IInv', Finish PROVE FixFacts' /\ RepairFacts'
<1> DEFINE to == IF todo.to \in {"complete", "promote"} THEN "done" ELSE "blocked"
<1>1. pc \in {"apply", "filed"} /\ fixes' = fixes /\ faults' = faults
      /\ (pc = "apply" => todo.to \in {"complete", "blocked"})
  BY DEF Finish, bounds
<1>2. IF Mapped THEN Leave(todo.plane, to, todo.class) ELSE Recover
  BY Zenon DEF Finish
<1>3. todo.to \in Ends /\ todo.to # None
  BY <1>1, RecoveryNames DEF BInv, RepairFacts, Routed, Ends
<1>4. CASE Mapped
  <2>1. todo.plane # "learning" \/ todo.class = None
    BY <1>1, <1>3 DEF BInv, RepairFacts, Routed
  <2> HIDE DEF to
  <2>2. QED
    BY <1>1, <1>2, <1>4, <2>1, LeaveBudgets
<1>5. CASE ~Mapped
  <2>1. todo.plane = "planning"
    BY <1>1, <1>3, <1>5 DEF BInv, RepairFacts, Routed
  <2>2. QED
    BY <1>1, <1>2, <1>5, <2>1, RecoverBudgets
<1>6. QED
  BY <1>4, <1>5

(* A probe whose packet is rejected is of the planning plane. *)
LEMMA RejectPacketBudgets == ASSUME BInv, IInv', RejectPacket PROVE FixFacts' /\ RepairFacts'
<1>1. pc = "apply" /\ mem.node[todo.plane] = "recon" /\ fixes' = fixes /\ faults' = faults
      /\ Leave(todo.plane, "blocked", "recon_handoff_invalid")
  BY DEF RejectPacket, bounds
<1>2. todo.plane \in Planes /\ mem.item[todo.plane] # None
  BY <1>1 DEF BInv, IInv, TypeOK, Decisions, Applying
<1>3. PlaneOf[mem.item[todo.plane]] = "planning"
  BY <1>1, RecoveryAssumption DEF BInv, RepairFacts, Routed
<1>4. todo.plane # "learning"
  BY <1>2, <1>3, BudgetTypes DEF BInv
<1>5. QED
  BY <1>1, <1>4, LeaveBudgets

(* A step that files a document for the run. *)
LEMMA FiledBudgets ==
  ASSUME BInv, IInv', pc = "apply", pc' = "filed", todo.to \in {"handoff", "promote"},
         UNCHANGED <<saved, mem, counters, todo, bounds, fixes, wipes, carried>>
  PROVE  FixFacts' /\ RepairFacts'
<1>1. FixFacts'
  BY DEF BInv, FixFacts, FixBudget, ExhaustionEarned, FixGranted, FixLeft, FixSpent
<1>2. RepairFacts'
  BY DEF BInv, RepairFacts, RepairBudget, Apart, Routed, Mapped, ClassLeft, Room, bounds
<1>3. QED
  BY <1>1, <1>2

(* Only tasks are handed off, or repaired when their incident is there. *)
LEMMA HandoffBudgets == ASSUME BInv, IInv', Handoff PROVE FixFacts' /\ RepairFacts'
<1>1. pc = "apply" /\ todo.to = "handoff" /\ UNCHANGED <<bounds, runs, fixes>>
  BY DEF Handoff
<1>2. CASE item \in taken
  <2>1. Recover /\ todo.plane = "execution"
    BY <1>1, <1>2 DEF Handoff, BInv, RepairFacts, Routed
  <2>2. QED
    BY <1>1, <2>1, RecoverBudgets DEF bounds
<1>3. CASE item \notin taken
  BY <1>1, <1>3, FiledBudgets DEF Handoff, bounds
<1>4. QED
  BY <1>2, <1>3

(* What a daemon that is gone leaves: a fault is a failure more to allow for. *)
LEMMA OffBudgets ==
  ASSUME BInv, IInv', Off, saved' = saved \/ saved' = [mem EXCEPT !.running = FALSE],
         faults' = faults + 1, UNCHANGED <<counters, fixes, wipes, carried>>
  PROVE  FixFacts' /\ RepairFacts'
<1>1. mem'.fix = 0 /\ mem'.item["execution"] = None /\ pc' = "off"
  BY DEF Off, Fresh, Planes
<1>2. \/ saved' = saved
      \/ saved'.item = mem.item /\ saved'.fix = mem.fix
  BY BudgetTypes DEF Snapshots, BInv
<1>3. FixFacts'
  <2>1. FixLeft(saved)' /\ FixSpent(saved)'
    BY <1>2 DEF BInv, FixFacts, FixLeft, FixSpent
  <2>2. QED
    BY <1>1, <2>1 DEF BInv, FixFacts, FixBudget, ExhaustionEarned, FixGranted, FixLeft, FixSpent
<1>4. RepairBudget'
  BY BudgetTypes DEF BInv, RepairFacts, RepairBudget
<1>5. ClassLeft(saved)'
  <2>1. SUFFICES ASSUME saved'.item["execution"] # None, saved'.class # None
                 PROVE  Room(saved.item["execution"], saved.class)'
    BY DEF ClassLeft, Room
  <2>2. saved'.item["execution"] \in Items /\ saved'.class \in Classes
    <3>1. saved' \in Snapshots
      BY DEF IInv, TypeOK
    <3>2. QED
      BY <2>1, <3>1 DEF Snapshots, Planes
  <2>3. QED
    BY <2>2, BudgetTypes DEF Room, BInv, RepairFacts, RepairBudget
<1>6. Apart(mem)' /\ Apart(saved)' /\ Routed'
  BY <1>1, <1>2 DEF BInv, RepairFacts, Apart, Routed
<1>7. QED
  BY <1>1, <1>3, <1>4, <1>5, <1>6 DEF RepairFacts

(* A step of an application fails: one fault more. *)
LEMMA ApplyFailsBudgets == ASSUME BInv, IInv', ApplyFails PROVE FixFacts' /\ RepairFacts'
<1>1. \/ Leave(todo.plane, "blocked", "recon_handoff_invalid")
      \/ /\ saved' = [mem EXCEPT !.running = FALSE] /\ Off
         /\ UNCHANGED <<place, counters, wipes, carried>>
      \/ Recover
  BY Zenon DEF ApplyFails
<1>2. pc \in {"apply", "counted", "filed"} /\ faults' = faults + 1 /\ fixes' = fixes
  BY DEF ApplyFails
<1>3. CASE Leave(todo.plane, "blocked", "recon_handoff_invalid")
  BY <1>2, <1>3, LeaveBudgets
<1>4. CASE saved' = [mem EXCEPT !.running = FALSE] /\ Off
           /\ UNCHANGED <<place, counters, wipes, carried>>
  BY <1>2, <1>4, OffBudgets
<1>5. CASE Recover
  BY <1>2, <1>5, RecoverBudgets
<1>6. QED
  BY <1>1, <1>3, <1>4, <1>5

(* A scoped retry forgets the counts of its item; the fix count of the
   snapshot stays beside another run, and is then one left behind. *)
LEMMA RetryBudgets == ASSUME BInv, IInv', NEW p \in Planes, Retry(p) PROVE FixFacts' /\ RepairFacts'
<1> DEFINE i == mem.item[p]
           x == mem.item["execution"]
<1>1. i \in Items /\ PlaneOf[i] = p /\ mem \in Snapshots /\ "execution" \in Planes
  BY BudgetTypes DEF Retry, Active, BInv, Planes
<1>2. /\ pc = "idle" /\ counters' = [counters EXCEPT ![i] = NoEntry] /\ saved' = mem'
      /\ mem' = IF Active(mem) = {p} THEN [Fresh EXCEPT !.running = TRUE]
                ELSE [Cleared(mem, p, None) EXCEPT !.fix = mem.fix]
      /\ UNCHANGED <<pc, todo, faults, fixes, wipes>>
  BY DEF Retry
<1>3. carried' = (mem'.fix > 0 /\ (carried \/ p = "execution"))
  BY DEF Retry
<1>4. \A j \in Items : counters'[j] = IF j = i THEN NoEntry ELSE counters[j]
  BY <1>2 DEF BInv, IInv, TypeOK
<1>5. CASE Active(mem) = {p}
  <2>1. mem'.fix = 0 /\ \A q \in Planes : mem'.item[q] = None
    BY <1>2, <1>5 DEF Fresh
  <2>2. QED
    BY <1>2, <1>4, <2>1, GiveBackBudgets
<1>6. CASE Active(mem) # {p}
  <2>1. /\ mem'.item = [mem.item EXCEPT ![p] = None] /\ mem'.fix = mem.fix /\ mem'.class = None
    BY <1>1, <1>2, <1>6 DEF Cleared, Snapshots
  <2>2. mem'.item["execution"] # None =>
          /\ mem'.item["execution"] = x /\ p # "execution" /\ x \in Items /\ x # i
    BY <1>1, <2>1, BudgetTypes DEF Snapshots, BInv
  <2>3. FixLeft(mem)'
    <3>1. CASE mem.fix = 0
      BY <2>1, <3>1 DEF FixLeft
    <3>2. CASE mem.fix # 0 /\ (carried \/ p = "execution")
      <4>1. mem'.fix > 0 /\ (carried \/ p = "execution")
        BY <2>1, <3>2, BudgetTypes DEF BInv
      <4>2. carried'
        BY <1>3, <4>1, Zenon
      <4>3. QED
        BY <4>2, Zenon DEF FixLeft
    <3>3. CASE mem.fix # 0 /\ ~(carried \/ p = "execution")
      <4>1. x # None /\ mem.fix <= counters[x].fix
        BY <3>3 DEF BInv, FixFacts, FixLeft
      <4>2. mem'.item["execution"] = x
        BY <1>1, <2>1, <3>3 DEF Snapshots
      <4>3. counters'[x] = counters[x]
        BY <1>4, <2>2, <4>1, <4>2
      <4>4. QED
        BY <2>1, <4>1, <4>2, <4>3 DEF FixLeft
    <3>4. QED
      BY <3>1, <3>2, <3>3
  <2>4. FixSpent(mem)'
    BY <1>2, <1>4, <2>1, <2>2 DEF FixSpent, BInv, FixFacts
  <2>5. FixFacts'
    BY <1>2, <2>3, <2>4
    DEF BInv, FixFacts, FixBudget, ExhaustionEarned, FixGranted, FixLeft, FixSpent
  <2>6. RepairBudget'
    <3>1. ASSUME NEW j \in Items, NEW c \in Classes \ Unchecked, PlaneOf[j] # "planning"
          PROVE  counters'[j].repair[c] <= Limit(c) + faults
      BY <1>4, <3>1, BudgetTypes DEF NoEntry, BInv, RepairFacts, RepairBudget
    <3>2. QED
      BY <1>2, <3>1 DEF RepairBudget
  <2>7. RepairFacts'
    BY <1>1, <1>2, <2>1, <2>6 DEF RepairFacts, Apart, Routed, ClassLeft, BInv, Planes, Snapshots
  <2>8. QED
    BY <2>5, <2>7
<1>7. QED
  BY <1>5, <1>6

(* A clear-stale, and a run that does not fit its stage, leave no run. *)
LEMMA ClearStaleBudgets == ASSUME BInv, IInv', ClearStale PROVE FixFacts' /\ RepairFacts'
<1>1. mem'.fix = 0 /\ \A q \in Planes : mem'.item[q] = None
  BY DEF ClearStale, Fresh
<1>2. QED
  BY <1>1, GiveBackBudgets DEF ClearStale

LEMMA DisownBudgets == ASSUME BInv, IInv', NEW p \in Planes, Disown(p) PROVE FixFacts' /\ RepairFacts'
<1>1. mem'.fix = 0 /\ \A q \in Planes : mem'.item[q] = None
  BY DEF Disown, Fresh
<1>2. \A i \in Items : counters'[i] \in {counters[i], NoEntry}
  BY DEF Disown, BInv, IInv, TypeOK
<1>3. QED
  BY <1>1, <1>2, GiveBackBudgets DEF Disown, bounds

(* Every step keeps the budgets. *)
LEMMA NextBudgets == BInv /\ [Next]_vars => BInv'
<1> SUFFICES ASSUME BInv, [Next]_vars PROVE BInv'
  OBVIOUS
<1>1. IInv'
  BY NextKeeps DEF BInv
<1> SUFFICES FixFacts' /\ RepairFacts'
  BY <1>1 DEF BInv
<1>2. CASE Start
  BY <1>1, <1>2, StartBudgets
<1>3. CASE DaemonStep
  <2>1. CASE StartSave
    BY <1>1, <2>1, StartSaveBudgets
  <2>2. CASE CountRoute
    BY <1>1, <2>2, CountRouteBudgets
  <2>3. CASE SaveRoute
    BY <1>1, <2>3, SaveRouteBudgets
  <2>4. CASE Finish
    BY <1>1, <2>4, FinishBudgets
  <2>5. CASE Handoff
    BY <1>1, <2>5, HandoffBudgets
  <2>6. CASE Promote
    BY <1>1, <2>6, FiledBudgets DEF Promote, history
  <2>7. CASE RejectPacket
    BY <1>1, <2>7, RejectPacketBudgets
  <2>8. ASSUME NEW i \in Items, Claim(i) PROVE FixFacts' /\ RepairFacts'
    BY <1>1, <2>8, ClaimBudgets
  <2>9. ASSUME NEW p \in Planes, Stage(p) \/ Disown(p) PROVE FixFacts' /\ RepairFacts'
    BY <1>1, <2>9, StageBudgets, DisownBudgets
  <2>10. QED
    BY <1>3, <2>1, <2>2, <2>3, <2>4, <2>5, <2>6, <2>7, <2>8, <2>9 DEF DaemonStep
<1>4. CASE ApplyFails
  BY <1>1, <1>4, ApplyFailsBudgets
<1>5. CASE Crash
  BY <1>1, <1>5, OffBudgets DEF Crash, history
<1>6. CASE Stop
  BY <1>1, <1>6, OffBudgets DEF Stop, history
<1>7. ASSUME NEW p \in Planes, Retry(p) PROVE FixFacts' /\ RepairFacts'
  BY <1>1, <1>7, RetryBudgets
<1>8. CASE ClearStale
  BY <1>1, <1>8, ClearStaleBudgets
<1>9. CASE UNCHANGED vars
  <2>1. FixFacts'
    BY <1>9 DEF BInv, FixFacts, FixBudget, ExhaustionEarned, FixGranted, FixLeft, FixSpent, vars, item
  <2>2. RepairFacts'
    BY <1>9 DEF BInv, RepairFacts, RepairBudget, Apart, Routed, Mapped, ClassLeft, Room, vars, bounds, item
  <2>3. QED
    BY <2>1, <2>2
<1>10. QED
  BY <1>2, <1>3, <1>4, <1>5, <1>6, <1>7, <1>8, <1>9 DEF Next

LEMMA BudgetsInductive == Spec => []BInv
  BY InitBudgets, NextBudgets, PTL DEF Spec

(* The fixer runs at most as often for a claimed task as the policy of its
   graph allows, whatever restarts and detours come between: FIX_NEEDED is
   routed by the count of the snapshot, which a crash leaves behind the
   counters and a retry leaves to another task. *)
THEOREM FixesBounded == Spec => []FixBudget
<1>1. BInv => FixBudget
  BY DEF BInv, FixFacts
<1>2. QED
  BY <1>1, BudgetsInductive, PTL

(* A fix cycle is declared exhausted only for a task that has been through
   it, a count left behind by a retry apart. *)
THEOREM ExhaustionIsEarned == Spec => []ExhaustionEarned
<1>1. BInv => ExhaustionEarned
  BY DEF BInv, FixFacts
<1>2. QED
  BY <1>1, BudgetsInductive, PTL

(* No failure class of an item is repaired more often than its policy allows
   and one time more for every fault: the router and startup count what they
   grant before the snapshot shows it. *)
THEOREM RepairsBounded == Spec => []RepairBudget
<1>1. BInv => RepairBudget
  BY DEF BInv, RepairFacts
<1>2. QED
  BY <1>1, BudgetsInductive, PTL
=============================================================================
