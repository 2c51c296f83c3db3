------------------------ MODULE WorkspaceControlProofs ------------------------
(***************************************************************************)
(* What the four modules of WorkspaceControl keep, for all ideas, orders,  *)
(* rules, packages and epochs.  Each has an inductive invariant of its     *)
(* own; that of the composition is their conjunction, and a step of one    *)
(* module leaves the variables of the others alone.                        *)
(*                                                                         *)
(*   orders and ideas   IntakeInv: an order is settled or a file still     *)
(*                      says it, and an idea whose text was noted has it   *)
(*                      in its artifact                                    *)
(*   the token ledger   SpendInv: one line for a result, none is missing   *)
(*                      between the repair and the pause, and what was     *)
(*                      judged is what a stage is started on               *)
(*   the assets         AssetsInv: how far a deployment is, and what the   *)
(*                      unfinished upgrades may have left behind           *)
(*   the epoch          EpochInv: whose marker is on disk, and which       *)
(*                      documents a reset still has to move                *)
(***************************************************************************)
EXTENDS WorkspaceControl, FiniteSetTheorems, WellFoundedInduction, TLAPS
-----------------------------------------------------------------------------
(* Orders and ideas                                                         *)

Texts == {"clear", "garbled"}

\* What a command file says names what there can be.
Says(c) ==
    /\ c.kind \in Inbox!Kinds
    /\ c.kind = "add_idea" => c.arg \in Ideas
    /\ c.kind \in {"add_spec", "cancel_work_item"} => c.arg \in Specs

Commands ==
    {c \in [kind : Inbox!Kinds, arg : Ideas \cup Specs, deferred : BOOLEAN, num : Int, order : Int] :
        Says(c)}

IntakeTyped ==
    /\ spec \in [Specs -> Inbox!SpecStates] /\ artifact \in [Specs -> 0..MaxWrites]
    /\ made \in [Specs -> Int] /\ cancels \in [Specs -> Int]
    /\ writes \in 0..MaxWrites
    /\ inbox \in [Ideas -> [write : 0..MaxWrites, text : Texts]] /\ seen \in [Ideas -> 0..MaxWrites]
    /\ \A i \in Ideas : inbox[i].write <= writes /\ seen[i] <= writes
    /\ recent \subseteq Ideas /\ events \subseteq Ideas
    /\ events # {} => pc \in {"read", "file"}
    /\ given \in Seq(Orders) /\ settled \in Seq(SUBSET Inbox!Verdicts) /\ Len(given) = Len(settled)
    /\ files \subseteq Commands /\ (\A f \in files : f.order \in 1..Len(given))
    /\ todo \subseteq files /\ verdict \in Inbox!Verdicts /\ counter \in Int
    /\ IF pc \in {"archive", "remove"} THEN cur \in files \ todo ELSE cur = Inbox!None

\* An order that is handled is settled, or its copy written, before its file goes.
OrdersKept ==
    /\ \A k \in 1..Len(given) : settled[k] # {} \/ \E f \in files : f.order = k
    /\ pc \in {"archive", "remove"} /\ verdict = "deferred" =>
          \E f \in files \ {cur} : f.order = cur.order
    /\ pc = "remove" /\ verdict # "deferred" => settled[cur.order] # {}

\* Whenever an id can be filed again, each of its specs has been cancelled.
WorkedOnce ==
    \A s \in Specs : made[s] <= cancels[s] + (IF Inbox!Taken(s) THEN 1 ELSE 0)

\* The idea that is being handled has its text kept already.
Noted(i) == Inbox!OwnId(i) /\ inbox[i] = [write |-> seen[i], text |-> "clear"] /\ seen[i] # 0

TextsKept ==
    \A i \in Ideas :
        Noted(i) /\ (i \notin events \/ (pc = "file" /\ Inbox!First(i))) => artifact[SpecOf[i]] = seen[i]

IntakeInv == IntakeTyped /\ OrdersKept /\ WorkedOnce /\ TextsKept

\* Nothing has been given, and nothing found.
LEMMA IntakeStart == ASSUME Inbox!Init PROVE IntakeInv
<1> USE IntakeAssumption
<1>1. /\ spec \in [Specs -> Inbox!SpecStates] /\ artifact \in [Specs -> 0..MaxWrites]
      /\ inbox \in [Ideas -> [write : 0..MaxWrites, text : Texts]] /\ seen \in [Ideas -> 0..MaxWrites]
      /\ \A i \in Ideas : inbox[i].write = 0 /\ seen[i] = 0
  BY DEF Inbox!Init, Inbox!SpecStates, Inbox!NoFile, Texts
<1>2. IntakeTyped
  BY <1>1 DEF Inbox!Init, IntakeTyped, Inbox!Verdicts
<1> QED
  BY <1>1, <1>2 DEF Inbox!Init, IntakeInv, OrdersKept, WorkedOnce, TextsKept, Noted

-----------------------------------------------------------------------------
\* The kinds of change a step makes to ideas and to specs.
Saved ==
    \E i \in Ideas, d \in [write : {0, writes + 1}, text : Texts] :
        writes < MaxWrites /\ writes' = writes + 1 /\ inbox' = [inbox EXCEPT ![i] = d]

Filed ==
    \E s \in Specs :
        /\ ~Inbox!Taken(s) /\ spec' = [spec EXCEPT ![s] = "queue"] /\ cancels' = cancels
        /\ made' = made \/ made' = [made EXCEPT ![s] = @ + 1]

Cancelled ==
    \E s \in Specs :
        /\ Inbox!Taken(s) /\ spec' = [spec EXCEPT ![s] = "cancelled"]
        /\ cancels' = [cancels EXCEPT ![s] = @ + 1] /\ made' = made

Runs ==
    \E s \in Specs, e \in {"active", "done", "blocked"} :
        Inbox!Taken(s) /\ spec' = [spec EXCEPT ![s] = e] /\ UNCHANGED <<made, cancels>>

\* An order that is performed changes an idea or a spec.
LEMMA PerformMeans ==
  ASSUME IntakeTyped, NEW c, Says(c), NEW ok \in BOOLEAN, Inbox!Perform(c, ok), made' = made
  PROVE  /\ UNCHANGED <<inbox, writes>> \/ Saved
         /\ UNCHANGED <<spec, made, cancels>> \/ Filed \/ Cancelled
<1>1. CASE c.kind = "add_idea" /\ Inbox!Stage(c.arg, ok)
  <2>1. CASE ok
    <3>1. /\ inbox' = [inbox EXCEPT ![c.arg] = [write |-> writes + 1, text |-> "clear"]]
          /\ writes' = writes + 1 /\ writes < MaxWrites /\ c.arg \in Ideas
          /\ UNCHANGED <<spec, cancels>>
      BY <1>1, <2>1 DEF Inbox!Stage, Says
    <3>2. [write |-> writes + 1, text |-> "clear"] \in [write : {0, writes + 1}, text : Texts]
      BY DEF Texts
    <3> QED
      BY <3>1, <3>2 DEF Saved
  <2>2. CASE ~ok
    BY <1>1, <2>2 DEF Inbox!Stage
  <2> QED
    BY <2>1, <2>2
<1>2. CASE c.kind = "add_spec" /\ Inbox!AddSpec(c.arg, ok)
  BY <1>2 DEF Inbox!AddSpec, Filed, Says
<1>3. CASE c.kind = "cancel_work_item" /\ Inbox!Cancel(c.arg, ok)
  BY <1>3 DEF Inbox!Cancel, Cancelled, Says, Inbox!Cancelable, Inbox!Taken
<1>4. CASE c.kind = "unreadable" /\ UNCHANGED <<spec, inbox, writes, cancels>>
  BY <1>4
<1> QED
  BY <1>1, <1>2, <1>3, <1>4 DEF Inbox!Perform

\* Neither loses track of types or of the count of specs.
LEMMA SavedKeeps ==
  ASSUME IntakeTyped, UNCHANGED <<inbox, writes>> \/ Saved
  PROVE  /\ writes' \in 0..MaxWrites /\ inbox' \in [Ideas -> [write : 0..MaxWrites, text : Texts]]
         /\ \A i \in Ideas : inbox'[i].write <= writes' /\ seen[i] <= writes'
         /\ \A i \in Ideas : inbox'[i] = inbox[i] \/ inbox'[i].write = 0 \/ inbox'[i].write > seen[i]
<1> USE IntakeAssumption DEF IntakeTyped
<1>1. CASE UNCHANGED <<inbox, writes>>
  BY <1>1
<1>2. CASE Saved
  <2>1. PICK i \in Ideas, d \in [write : {0, writes + 1}, text : Texts] :
          writes < MaxWrites /\ writes' = writes + 1 /\ inbox' = [inbox EXCEPT ![i] = d]
    BY <1>2 DEF Saved
  <2>2. writes + 1 \in 0..MaxWrites /\ d \in [write : 0..MaxWrites, text : Texts]
    BY <2>1
  <2>3. inbox' \in [Ideas -> [write : 0..MaxWrites, text : Texts]]
    BY <2>1, <2>2
  <2>4. \A j \in Ideas : seen[j] \in Int /\ inbox[j].write \in Int
    OBVIOUS
  <2>5. \A j \in Ideas : inbox'[j] = IF j = i THEN d ELSE inbox[j]
    BY <2>1
  <2> QED
    BY <2>1, <2>2, <2>3, <2>4, <2>5
<1> QED
  BY <1>1, <1>2

LEMMA SpecsKeep ==
  ASSUME IntakeTyped, WorkedOnce, UNCHANGED <<spec, made, cancels>> \/ Filed \/ Cancelled \/ Runs
  PROVE  /\ spec' \in [Specs -> Inbox!SpecStates] /\ made' \in [Specs -> Int]
         /\ cancels' \in [Specs -> Int]
         /\ WorkedOnce'
<1> USE DEF IntakeTyped
<1>1. CASE UNCHANGED <<spec, made, cancels>>
  BY <1>1 DEF WorkedOnce, Inbox!Taken
<1>2. CASE Filed
  <2>1. PICK s \in Specs :
        /\ ~Inbox!Taken(s) /\ spec' = [spec EXCEPT ![s] = "queue"] /\ cancels' = cancels
        /\ made' = made \/ made' = [made EXCEPT ![s] = @ + 1]
    BY <1>2 DEF Filed
  <2>2. spec' \in [Specs -> Inbox!SpecStates] /\ made' \in [Specs -> Int]
    BY <2>1 DEF Inbox!SpecStates
  <2> QED
    BY <2>1, <2>2 DEF WorkedOnce, Inbox!Taken
<1>3. CASE Cancelled
  <2>1. PICK s \in Specs :
        /\ Inbox!Taken(s) /\ spec' = [spec EXCEPT ![s] = "cancelled"]
        /\ cancels' = [cancels EXCEPT ![s] = @ + 1] /\ made' = made
    BY <1>3 DEF Cancelled
  <2>2. spec' \in [Specs -> Inbox!SpecStates] /\ cancels' \in [Specs -> Int]
    BY <2>1 DEF Inbox!SpecStates
  <2> QED
    BY <2>1, <2>2 DEF WorkedOnce, Inbox!Taken
<1>4. CASE Runs
  <2>1. PICK s \in Specs, e \in {"active", "done", "blocked"} :
        Inbox!Taken(s) /\ spec' = [spec EXCEPT ![s] = e] /\ UNCHANGED <<made, cancels>>
    BY <1>4 DEF Runs
  <2>2. spec' \in [Specs -> Inbox!SpecStates]
    BY <2>1 DEF Inbox!SpecStates
  <2> QED
    BY <2>1, <2>2 DEF WorkedOnce, Inbox!Taken
<1> QED
  BY <1>1, <1>2, <1>3, <1>4

-----------------------------------------------------------------------------
\* A change to an idea does not make it look like what was noted of it.
LEMMA TextsStay ==
  ASSUME IntakeTyped, TextsKept, UNCHANGED <<inbox, writes>> \/ Saved,
         UNCHANGED <<artifact, seen, events>>, pc' = pc \/ pc' # "file"
  PROVE  TextsKept'
<1> USE IntakeAssumption
<1>1. SUFFICES ASSUME NEW i \in Ideas, Noted(i)', i \notin events' \/ (pc' = "file" /\ Inbox!First(i)')
               PROVE  artifact'[SpecOf[i]] = seen'[i]
  BY DEF TextsKept
<1>2. inbox'[i] = [write |-> seen[i], text |-> "clear"] /\ seen[i] # 0 /\ seen[i] \in Int
  BY <1>1 DEF Noted, IntakeTyped
<1>3. inbox'[i].write = seen[i]
  BY <1>2
<1>4. inbox'[i] = inbox[i]
  <2>1. inbox'[i] = inbox[i] \/ inbox'[i].write = 0 \/ inbox'[i].write > seen[i]
    BY SavedKeeps
  <2> QED
    BY <1>2, <1>3, <2>1
<1>5. Noted(i)
  BY <1>1, <1>2, <1>4 DEF Noted, Inbox!OwnId
<1>6. i \notin events \/ (pc = "file" /\ Inbox!First(i))
  BY <1>1 DEF Inbox!First
<1> QED
  BY <1>5, <1>6 DEF TextsKept

\* The steps that leave the mailbox alone.
LEMMA OrdersStay ==
  ASSUME OrdersKept, UNCHANGED <<given, settled, files, cur, verdict>>,
         pc' = pc \/ pc' \notin {"archive", "remove"}
  PROVE  OrdersKept'
  BY DEF OrdersKept

\* An order names what there can be.
LEMMA OrderSays ==
  ASSUME NEW o \in Orders PROVE Says(o) /\ o.arg \in Ideas \cup Specs
<1> USE IntakeAssumption DEF Says, Inbox!Kinds
<1>1. CASE o \in [kind : {"add_idea"}, arg : Ideas]
  BY <1>1
<1>2. CASE o \in [kind : {"add_spec", "cancel_work_item"}, arg : Specs]
  BY <1>2
<1>3. CASE o \in [kind : {"unreadable"}, arg : Ideas \cup Specs]
  BY <1>3
<1> QED
  BY <1>1, <1>2, <1>3

\* An order that is given is filed, or settled at once.
LEMMA PostKeeps ==
  ASSUME IntakeInv, NEW o \in Orders, Inbox!Post(o) PROVE IntakeInv'
<1> USE DEF IntakeInv
<1> DEFINE n == Len(given)
           f == [kind |-> o.kind, arg |-> o.arg, deferred |-> FALSE, num |-> n + 1, order |-> n + 1]
<1>1. /\ given' = Append(given, o) /\ settled' = Append(settled, {}) /\ files' = files \cup {f}
      /\ UNCHANGED <<spec, artifact, inbox, todo, cur, verdict, counter, seen, recent, events, pc, made,
                     cancels, writes>>
  BY DEF Inbox!Post, Inbox!Give, Inbox!work, Inbox!watcher, Inbox!bounds
<1>2. n \in Nat /\ Len(settled) = n
  BY DEF IntakeTyped
<1>3. f \in Commands
  BY <1>2, OrderSays DEF Commands, Says
<1>4. f.order = n + 1
  OBVIOUS
<1> HIDE DEF f
<1>5. /\ given' \in Seq(Orders) /\ settled' \in Seq(SUBSET Inbox!Verdicts)
      /\ Len(given') = n + 1 /\ Len(settled') = n + 1
      /\ \A k \in 1..n : settled'[k] = settled[k]
  BY <1>1, <1>2 DEF IntakeTyped
<1> HIDE DEF n
<1>6. files' \subseteq Commands /\ (\A g \in files' : g.order \in 1..Len(given'))
  BY <1>1, <1>2, <1>3, <1>4, <1>5 DEF IntakeTyped, n
<1>7. IF pc \in {"archive", "remove"} THEN cur \in files' \ todo ELSE cur = Inbox!None
  BY <1>1 DEF IntakeTyped
<1>8. IntakeTyped'
  BY <1>1, <1>5, <1>6, <1>7 DEF IntakeTyped
<1>9. OrdersKept'
  <2>1. ASSUME NEW k \in 1..Len(given') PROVE settled'[k] # {} \/ \E g \in files' : g.order = k
    BY <1>1, <1>2, <1>4, <1>5 DEF OrdersKept, n
  <2>2. ASSUME pc \in {"archive", "remove"} PROVE settled'[cur.order] = settled[cur.order]
    BY <1>5, <2>2 DEF IntakeTyped, n
  <2> QED
    BY <1>1, <2>1, <2>2 DEF OrdersKept
<1>10. TextsKept'
  BY <1>1, TextsStay
<1> QED
  BY <1>1, <1>8, <1>9, <1>10, SpecsKeep

LEMMA DirectKeeps ==
  ASSUME IntakeInv, NEW o \in Orders, Inbox!Direct(o) PROVE IntakeInv'
<1> USE DEF IntakeInv
<1> DEFINE n == Len(given)
<1>1. PICK ok \in BOOLEAN :
        /\ Inbox!Perform(o, ok) \/ UNCHANGED <<spec, inbox, writes, cancels>>
        /\ settled' = Append(settled, {IF ok THEN "applied" ELSE "failed"})
  BY DEF Inbox!Direct
<1>2. /\ given' = Append(given, o) /\ pc = "off"
      /\ UNCHANGED <<artifact, files, todo, cur, verdict, counter, seen, recent, events, pc, made>>
  BY DEF Inbox!Direct, Inbox!Give, Inbox!mailbox, Inbox!watcher
<1>3. /\ UNCHANGED <<inbox, writes>> \/ Saved
      /\ UNCHANGED <<spec, made, cancels>> \/ Filed \/ Cancelled
  BY <1>1, <1>2, OrderSays, PerformMeans
<1>4. n \in Nat /\ Len(settled) = n
  BY DEF IntakeTyped
<1>5. PICK v \in Inbox!Verdicts : settled' = Append(settled, {v})
  BY <1>1 DEF Inbox!Verdicts
<1>6. /\ given' \in Seq(Orders) /\ settled' \in Seq(SUBSET Inbox!Verdicts)
      /\ Len(given') = n + 1 /\ Len(settled') = n + 1
      /\ \A k \in 1..n : settled'[k] = settled[k]
      /\ settled'[n + 1] # {}
  <2>1. given' \in Seq(Orders) /\ Len(given') = n + 1
    BY <1>2, <1>4 DEF IntakeTyped
  <2>2. settled \in Seq(SUBSET Inbox!Verdicts) /\ {v} \in SUBSET Inbox!Verdicts
    BY DEF IntakeTyped
  <2> QED
    BY <1>4, <1>5, <2>1, <2>2
<1> HIDE DEF n
<1>7. \A g \in files : g.order \in 1..Len(given')
  BY <1>4, <1>6 DEF IntakeTyped, n
<1>8. IntakeTyped'
  BY <1>2, <1>3, <1>6, <1>7, SavedKeeps, SpecsKeep DEF IntakeTyped
<1>9. OrdersKept'
  BY <1>2, <1>4, <1>6 DEF OrdersKept, n
<1>10. TextsKept'
  BY <1>2, <1>3, TextsStay
<1> QED
  BY <1>3, <1>8, <1>9, <1>10, SpecsKeep

\* A deferral writes a copy under a new name, or the order is settled as collided.
LEMMA DeferMeans ==
  ASSUME IntakeTyped, NEW f \in files, Inbox!Defer(f)
  PROVE  /\ UNCHANGED <<spec, inbox, writes, cancels>> /\ counter' \in Int
         /\ \/ verdict' = "collided" /\ files' = files
            \/ /\ verdict' = "deferred"
               /\ \E g \in Commands : g.order = f.order /\ g # f /\ files' = files \cup {g}
<1> USE DEF IntakeTyped
<1> DEFINE g == [f EXCEPT !.deferred = TRUE, !.num = counter]
<1>1. /\ UNCHANGED <<spec, inbox, writes, cancels>> /\ counter' = counter + 1
      /\ IF Inbox!Name(g) \in {Inbox!Name(h) : h \in files}
         THEN verdict' = "collided" /\ files' = files
         ELSE verdict' = "deferred" /\ files' = files \cup {g}
  BY DEF Inbox!Defer
<1>2. f \in Commands /\ counter \in Int
  OBVIOUS
<1>3. g \in Commands /\ g.order = f.order
  BY <1>2 DEF Commands, Says
<1> HIDE DEF g
<1>4. CASE Inbox!Name(g) \in {Inbox!Name(h) : h \in files}
  BY <1>1, <1>2, <1>4
<1>5. CASE Inbox!Name(g) \notin {Inbox!Name(h) : h \in files}
  <2>1. g # f
    BY <1>5
  <2> QED
    BY <1>1, <1>2, <1>3, <1>5, <2>1
<1> QED
  BY <1>4, <1>5

\* The daemon handles the next command file: ...
LEMMA ApplyKeeps ==
  ASSUME IntakeInv, NEW f \in files, Inbox!Apply(f) PROVE IntakeInv'
<1> USE DEF IntakeInv
<1>1. /\ pc = "take" /\ pc' = "archive" /\ f \in todo /\ todo' = todo \ {f} /\ cur' = f
      /\ UNCHANGED <<artifact, seen, recent, events, given, settled, made>>
  BY DEF Inbox!Apply, Inbox!watcher
<1>2. f \in Commands /\ Says(f)
  BY DEF IntakeTyped, Commands
<1>3. /\ UNCHANGED <<inbox, writes>> \/ Saved
      /\ UNCHANGED <<spec, made, cancels>> \/ Filed \/ Cancelled
      /\ counter' \in Int /\ verdict' \in Inbox!Verdicts
      /\ \/ verdict' # "deferred" /\ files' = files
         \/ \E g \in Commands : g.order = f.order /\ g # f /\ files' = files \cup {g}
  <2>1. CASE f.kind = "cancel_work_item" /\ Inbox!Busy
    <3>1. Inbox!Defer(f)
      BY <2>1 DEF Inbox!Apply
    <3> QED
      BY <1>1, <3>1, DeferMeans DEF Inbox!Verdicts
  <2>2. CASE ~(f.kind = "cancel_work_item" /\ Inbox!Busy)
    <3>1. PICK ok \in BOOLEAN :
            /\ Inbox!Perform(f, ok) /\ verdict' = IF ok THEN "applied" ELSE "failed"
            /\ UNCHANGED <<files, counter>>
      BY <2>2 DEF Inbox!Apply
    <3>2. counter' \in Int
      BY <3>1 DEF IntakeTyped
    <3> QED
      BY <1>1, <1>2, <3>1, <3>2, PerformMeans DEF Inbox!Verdicts
  <2> QED
    BY <2>1, <2>2
<1>4. files \subseteq files' /\ files' \subseteq Commands /\ (\A g \in files' : g.order \in 1..Len(given))
  BY <1>3 DEF IntakeTyped
<1>5. cur' \in files' \ todo' /\ todo' \subseteq files'
  BY <1>1, <1>4 DEF IntakeTyped
<1>6. IntakeTyped'
  BY <1>1, <1>3, <1>4, <1>5, SavedKeeps, SpecsKeep DEF IntakeTyped
<1>7. OrdersKept'
  <2>1. verdict' = "deferred" => \E g \in files' \ {f} : g.order = f.order
    BY <1>3
  <2> QED
    BY <1>1, <1>4, <2>1 DEF OrdersKept
<1>8. TextsKept'
  BY <1>1, <1>3, TextsStay
<1> QED
  BY <1>3, <1>6, <1>7, <1>8, SpecsKeep

\* ... it is archived ...
LEMMA ArchiveKeeps ==
  ASSUME IntakeInv, Inbox!Archive PROVE IntakeInv'
<1> USE DEF IntakeInv
<1>1. /\ pc = "archive" /\ pc' = "remove"
      /\ counter' \in {counter, counter + 1}
      /\ \/ verdict = "deferred" /\ settled' = settled
         \/ verdict # "deferred" /\ settled' = [settled EXCEPT ![cur.order] = @ \cup {verdict}]
      /\ UNCHANGED <<spec, artifact, inbox, files, todo, cur, verdict, seen, recent, events, given, made,
                     cancels, writes>>
  BY DEF Inbox!Archive, Inbox!work, Inbox!watcher, Inbox!bounds
<1>2. cur \in files /\ cur.order \in 1..Len(settled) /\ verdict \in Inbox!Verdicts
  BY <1>1 DEF IntakeTyped
<1>3. /\ settled' \in Seq(SUBSET Inbox!Verdicts) /\ Len(settled') = Len(settled)
      /\ \A k \in 1..Len(settled) : settled[k] \subseteq settled'[k]
      /\ verdict # "deferred" => settled'[cur.order] # {}
  <2>1. settled \in Seq(SUBSET Inbox!Verdicts)
    BY DEF IntakeTyped
  <2>2. CASE verdict = "deferred"
    BY <1>1, <2>1, <2>2
  <2>3. CASE verdict # "deferred"
    <3> DEFINE k == cur.order
               s == settled[k] \cup {verdict}
    <3>1. s \in SUBSET Inbox!Verdicts /\ s # {} /\ settled[k] \subseteq s
      BY <1>2, <2>1
    <3>2. settled' = [settled EXCEPT ![k] = s] /\ k \in 1..Len(settled)
      BY <1>1, <1>2, <2>3
    <3> HIDE DEF k, s
    <3>3. settled' \in Seq(SUBSET Inbox!Verdicts) /\ Len(settled') = Len(settled) /\ settled'[k] = s
      BY <2>1, <3>1, <3>2
    <3>4. \A j \in 1..Len(settled) : settled[j] \subseteq settled'[j]
      BY <2>1, <3>1, <3>2
    <3> QED
      BY <3>1, <3>3, <3>4 DEF k
  <2> QED
    BY <2>2, <2>3
<1>4. IntakeTyped'
  BY <1>1, <1>3 DEF IntakeTyped
<1>5. OrdersKept'
  <2>1. Len(given) = Len(settled)
    BY DEF IntakeTyped
  <2> QED
    BY <1>1, <1>3, <2>1 DEF OrdersKept
<1>6. TextsKept'
  BY <1>1, TextsStay
<1> QED
  BY <1>1, <1>4, <1>5, <1>6, SpecsKeep

\* ... and its file is removed.
LEMMA RemoveKeeps ==
  ASSUME IntakeInv, Inbox!Remove PROVE IntakeInv'
<1> USE DEF IntakeInv
<1>1. /\ pc = "remove" /\ pc' = "take" /\ files' = files \ {cur} /\ cur' = Inbox!None
      /\ UNCHANGED <<spec, artifact, inbox, todo, verdict, counter, seen, recent, events, given, settled,
                     made, cancels, writes>>
  BY DEF Inbox!Remove, Inbox!work, Inbox!watcher, Inbox!history, Inbox!bounds
<1>2. IntakeTyped'
  BY <1>1 DEF IntakeTyped
<1>3. OrdersKept'
  <2>1. settled[cur.order] # {} \/ \E g \in files \ {cur} : g.order = cur.order
    BY <1>1 DEF OrdersKept
  <2> QED
    BY <1>1, <2>1 DEF OrdersKept
<1>4. TextsKept'
  BY <1>1, TextsStay
<1> QED
  BY <1>1, <1>2, <1>3, <1>4, SpecsKeep

\* The watcher reports what has changed, ...
LEMMA PollKeeps ==
  ASSUME IntakeInv, Inbox!Poll PROVE IntakeInv'
<1> USE DEF IntakeInv
<1> DEFINE present == {i \in Ideas : inbox[i].write # 0}
           emitted == {i \in present : seen[i] # inbox[i].write} \ recent
<1>1. /\ pc = "take" /\ pc' = "read" /\ events' = emitted /\ recent' = (recent \cap present) \cup emitted
      /\ seen' = [i \in Ideas |-> IF i \in emitted \/ inbox[i].write = 0 THEN inbox[i].write ELSE seen[i]]
      /\ UNCHANGED <<spec, artifact, inbox, files, todo, cur, verdict, counter, given, settled, made,
                     cancels, writes>>
  BY DEF Inbox!Poll, Inbox!work, Inbox!mailbox, Inbox!history, Inbox!bounds
<1>2. emitted \subseteq Ideas
  OBVIOUS
<1> HIDE DEF present, emitted
<1>3. seen' \in [Ideas -> 0..MaxWrites] /\ \A i \in Ideas : seen'[i] <= writes
  BY <1>1 DEF IntakeTyped
<1>4. IntakeTyped'
  BY <1>1, <1>2, <1>3 DEF IntakeTyped
<1>5. ASSUME NEW i \in Ideas, Noted(i)', i \notin events' PROVE artifact[SpecOf[i]] = seen'[i]
  <2>1. seen'[i] = seen[i]
    BY <1>1, <1>5 DEF Noted
  <2>2. Noted(i)
    BY <1>1, <1>5, <2>1 DEF Noted, Inbox!OwnId
  <2>3. i \notin events
    BY <1>1 DEF IntakeTyped
  <2> QED
    BY <2>1, <2>2, <2>3 DEF TextsKept
<1>6. TextsKept'
  BY <1>1, <1>5 DEF TextsKept
<1> QED
  BY <1>1, <1>4, <1>6, SpecsKeep, OrdersStay

\* ... reads it, one idea after the other, ...
LEMMA ReadKeeps ==
  ASSUME IntakeInv, NEW i \in Ideas, Inbox!ReadIdea(i) PROVE IntakeInv'
<1> USE IntakeAssumption DEF IntakeInv
<1>1. /\ pc = "read" /\ Inbox!First(i)
      /\ UNCHANGED <<spec, inbox, files, todo, cur, verdict, counter, seen, recent, given, settled, made,
                     cancels, writes>>
  BY DEF Inbox!ReadIdea, Inbox!mailbox, Inbox!history, Inbox!bounds
<1>2. CASE inbox[i].write # 0 /\ inbox[i].text = "clear"
  <2>1. /\ artifact' = [artifact EXCEPT ![SpecOf[i]] = inbox[i].write] /\ pc' = "file" /\ events' = events
    BY <1>2 DEF Inbox!ReadIdea
  <2>2. IntakeTyped'
    BY <1>1, <2>1 DEF IntakeTyped
  <2>3. ASSUME NEW j \in Ideas, Noted(j)', j \notin events' \/ Inbox!First(j)'
        PROVE  artifact'[SpecOf[j]] = seen'[j]
    <3>1. Noted(j) /\ (j \notin events \/ Inbox!First(j))
      BY <1>1, <2>1, <2>3 DEF Noted, Inbox!OwnId, Inbox!First
    <3>2. CASE j = i
      BY <1>1, <2>1, <3>1, <3>2 DEF Noted, IntakeTyped
    <3>3. CASE j # i
      <4>1. j \notin events
        BY <1>1, <3>1, <3>3 DEF Inbox!First
      <4>2. SpecOf[j] # SpecOf[i]
        BY <3>1, <3>3 DEF Noted, Inbox!OwnId
      <4> QED
        BY <1>1, <2>1, <3>1, <4>1, <4>2 DEF TextsKept, IntakeTyped
    <3> QED
      BY <3>2, <3>3
  <2>4. TextsKept'
    BY <2>3 DEF TextsKept
  <2> QED
    BY <1>1, <2>1, <2>2, <2>4, SpecsKeep, OrdersStay
<1>3. CASE ~(inbox[i].write # 0 /\ inbox[i].text = "clear")
  <2>1. events' = events \ {i} /\ artifact' = artifact /\ pc' = pc
    BY <1>3 DEF Inbox!ReadIdea
  <2>2. IntakeTyped'
    BY <1>1, <2>1 DEF IntakeTyped
  <2>3. ASSUME NEW j \in Ideas, Noted(j)', j \notin events' PROVE artifact[SpecOf[j]] = seen[j]
    <3>1. Noted(j)
      BY <1>1, <2>3 DEF Noted, Inbox!OwnId
    <3>2. j # i
      BY <1>3, <3>1 DEF Noted
    <3> QED
      BY <2>1, <2>3, <3>1, <3>2 DEF TextsKept
  <2>4. TextsKept'
    BY <1>1, <2>1, <2>3 DEF TextsKept
  <2> QED
    BY <1>1, <2>1, <2>2, <2>4, SpecsKeep, OrdersStay
<1> QED
  BY <1>2, <1>3

\* ... and files its spec unless its id is taken.
LEMMA FileKeeps ==
  ASSUME IntakeInv, NEW i \in Ideas, Inbox!FileSpec(i) PROVE IntakeInv'
<1> USE IntakeAssumption DEF IntakeInv
<1>1. /\ pc = "file" /\ pc' = "read" /\ Inbox!First(i) /\ events' = events \ {i}
      /\ UNCHANGED <<artifact, inbox, files, todo, cur, verdict, counter, seen, recent, given, settled,
                     cancels, writes>>
  BY DEF Inbox!FileSpec, Inbox!mailbox, Inbox!bounds
<1>2. UNCHANGED <<spec, made, cancels>> \/ Filed
  <2>1. SpecOf[i] \in Specs
    OBVIOUS
  <2> QED
    BY <2>1 DEF Inbox!FileSpec, Inbox!Represented, Filed
<1>3. IntakeTyped'
  BY <1>1, <1>2, SpecsKeep DEF IntakeTyped
<1>4. ASSUME NEW j \in Ideas, Noted(j)', j \notin events' PROVE artifact[SpecOf[j]] = seen[j]
  <2>1. Noted(j)
    BY <1>1, <1>4 DEF Noted, Inbox!OwnId
  <2> QED
    BY <1>1, <1>4, <2>1 DEF TextsKept
<1>5. TextsKept'
  BY <1>1, <1>4 DEF TextsKept
<1> QED
  BY <1>1, <1>2, <1>3, <1>5, SpecsKeep, OrdersStay

\* A daemon that starts or ends forgets what it has seen.
LEMMA ForgetKeeps ==
  ASSUME IntakeInv, Inbox!Start \/ Inbox!End PROVE IntakeInv'
<1> USE IntakeAssumption DEF IntakeInv
<1>1. /\ pc' \in {"off", "list"} /\ counter' = 0 /\ todo' = {} /\ cur' = Inbox!None
      /\ verdict' = "applied" /\ seen' = [i \in Ideas |-> 0] /\ recent' = {} /\ events' = {}
      /\ UNCHANGED <<spec, artifact, inbox, files, given, settled, made, cancels, writes>>
  BY DEF Inbox!Start, Inbox!End, Inbox!work, Inbox!history, Inbox!bounds
<1>2. IntakeTyped'
  BY <1>1 DEF IntakeTyped, Inbox!Verdicts
<1>3. OrdersKept'
  BY <1>1 DEF OrdersKept
<1>4. TextsKept'
  BY <1>1 DEF TextsKept, Noted
<1> QED
  BY <1>1, <1>2, <1>3, <1>4, SpecsKeep

\* Whatever the daemon, its users and its watcher do, the invariant is kept.
LEMMA IntakeStep ==
  ASSUME IntakeInv, Inbox!Next \/ UNCHANGED intakeVars PROVE IntakeInv'
<1> USE IntakeAssumption DEF IntakeInv
<1>1. CASE \E f \in files : Inbox!Apply(f)
  BY <1>1, ApplyKeeps
<1>2. CASE \E i \in Ideas : Inbox!ReadIdea(i) \/ Inbox!FileSpec(i)
  BY <1>2, ReadKeeps, FileKeeps
<1>3. CASE \E o \in Orders : Inbox!Post(o) \/ Inbox!Direct(o)
  BY <1>3, PostKeeps, DirectKeeps
<1>4. CASE Inbox!List
  <2>1. /\ pc = "list" /\ pc' = "take" /\ todo' = files
        /\ UNCHANGED <<spec, artifact, inbox, files, cur, verdict, counter, seen, recent, events, given,
                       settled, made, cancels, writes>>
    BY <1>4 DEF Inbox!List, Inbox!work, Inbox!watcher, Inbox!history, Inbox!bounds
  <2>2. IntakeTyped'
    BY <2>1 DEF IntakeTyped
  <2>3. TextsKept'
    BY <2>1, TextsStay
  <2> QED
    BY <2>1, <2>2, <2>3, SpecsKeep, OrdersStay
<1>5. CASE \E i \in Ideas : Inbox!DeleteIdea(i) \/ \E text \in Texts : Inbox!SaveIdea(i, text)
  <2>1. /\ Saved
        /\ UNCHANGED <<spec, artifact, files, todo, cur, verdict, counter, seen, recent, events, pc, given,
                       settled, made, cancels>>
    BY <1>5 DEF Inbox!DeleteIdea, Inbox!SaveIdea, Inbox!NoFile, Inbox!work, Inbox!mailbox,
                Inbox!watcher, Inbox!history, Saved, Texts
  <2>2. IntakeTyped'
    BY <2>1, SavedKeeps DEF IntakeTyped
  <2>3. TextsKept'
    BY <2>1, TextsStay
  <2> QED
    BY <2>1, <2>2, <2>3, SpecsKeep, OrdersStay
<1>6. CASE Inbox!DebounceEnds
  <2>1. /\ recent' = {}
        /\ UNCHANGED <<spec, artifact, inbox, files, todo, cur, verdict, counter, seen, events, pc, given,
                       settled, made, cancels, writes>>
    BY <1>6 DEF Inbox!DebounceEnds, Inbox!work, Inbox!mailbox, Inbox!history, Inbox!bounds
  <2>2. IntakeTyped'
    BY <2>1 DEF IntakeTyped
  <2>3. TextsKept'
    BY <2>1, TextsStay
  <2> QED
    BY <2>1, <2>2, <2>3, SpecsKeep, OrdersStay
<1>7. CASE \/ \E s \in Specs : Inbox!Claim(s) \/ Inbox!EndRun(s, "done") \/ Inbox!EndRun(s, "blocked")
           \/ Inbox!NextStage \/ Inbox!IdleCycle
  <2>1. /\ pc = "read" /\ pc' = "list" /\ events = {} /\ counter' \in {counter, counter + 1}
        /\ UNCHANGED <<artifact, inbox, files, todo, cur, verdict, seen, recent, events, given, settled,
                       made, cancels, writes>>
    BY <1>7 DEF Inbox!Claim, Inbox!EndRun, Inbox!NextStage, Inbox!IdleCycle, Inbox!work,
                Inbox!mailbox, Inbox!watcher, Inbox!history, Inbox!bounds
  <2>2. UNCHANGED <<spec, made, cancels>> \/ Runs
    BY <1>7, <2>1 DEF Inbox!Claim, Inbox!EndRun, Inbox!NextStage, Inbox!IdleCycle, Inbox!work, Runs,
                      Inbox!Taken
  <2>3. IntakeTyped'
    <3>1. /\ spec' \in [Specs -> Inbox!SpecStates]
          /\ made' \in [Specs -> Int] /\ cancels' \in [Specs -> Int]
      BY <2>2, SpecsKeep
    <3>2. counter' \in Int
      BY <2>1 DEF IntakeTyped
    <3> QED
      BY <2>1, <3>1, <3>2 DEF IntakeTyped
  <2>4. TextsKept'
    BY <2>1, TextsStay
  <2> QED
    BY <2>1, <2>2, <2>3, <2>4, SpecsKeep, OrdersStay
<1>8. CASE UNCHANGED intakeVars
  <2>1. UNCHANGED <<spec, artifact, inbox, files, todo, cur, verdict, counter, seen, recent, events, pc,
                    given, settled, made, cancels, writes>>
    BY <1>8 DEF intakeVars
  <2>2. IntakeTyped'
    BY <2>1 DEF IntakeTyped
  <2>3. TextsKept'
    BY <2>1, TextsStay
  <2> QED
    BY <2>1, <2>2, <2>3, SpecsKeep, OrdersStay
<1> QED
  BY <1>1, <1>2, <1>3, <1>4, <1>5, <1>6, <1>7, <1>8, ArchiveKeeps, RemoveKeeps, PollKeeps, ForgetKeeps
     DEF Inbox!Next, Inbox!Daemon, Inbox!Operator, Texts

\* What the invariant says of types, orders and ideas.
LEMMA IntakeMeans ==
  ASSUME IntakeInv
  PROVE  Inbox!TypeOK /\ Inbox!NoCommandLost /\ Inbox!NotedIsKept /\ Inbox!IdeaRunsOnce
<1> USE DEF IntakeInv
<1>1. /\ DOMAIN given = 1..Len(given)
      /\ \A f \in files : f.kind \in Inbox!Kinds
      /\ cur # Inbox!None => cur.kind \in Inbox!Kinds
  BY DEF IntakeTyped, Commands
<1>2. Inbox!TypeOK
  BY <1>1 DEF IntakeTyped, Inbox!TypeOK, Texts
<1>3. Inbox!NoCommandLost
  BY <1>1 DEF OrdersKept, Inbox!NoCommandLost
<1>4. Inbox!NotedIsKept
  BY DEF TextsKept, Noted, Inbox!NotedIsKept
<1>5. Inbox!IdeaRunsOnce
  BY DEF WorkedOnce, Inbox!IdeaRunsOnce, IntakeTyped
<1> QED
  BY <1>2, <1>3, <1>4, <1>5

-----------------------------------------------------------------------------
(* The token ledger                                                         *)

Ran == [key : 1..MaxStarts, at : 0..MaxTime, tokens : Costs]

Lines == [key : 1..MaxStarts, at : 0..MaxTime, tokens : Costs, session : 1..MaxSessions]

BudgetTyped ==
    /\ clock \in 0..MaxTime /\ now \in 0..clock /\ session \in 0..MaxSessions
    /\ sessions \in 0..MaxSessions /\ (cycle # "off" => session # 0)
    /\ sources \cup saved \subseteq {Budget!Operator, Budget!Governance}
    /\ results \subseteq Ran /\ (\A x \in results : x.at <= clock)
    /\ outcomes \in Seq(Ran) /\ Len(outcomes) <= 2
    /\ \A n \in 1..Len(outcomes) : outcomes[n].at <= clock
    /\ cycle = "record" => outcomes # <<>>
    /\ ledger \in Seq(Lines)
    /\ started \in 0..MaxStarts

\* A stage is counted once, and from the repair to the pause none is missing.
CountedOnce ==
    /\ \A j, k \in DOMAIN ledger : ledger[j].key = ledger[k].key => j = k
    /\ cycle \in {"judge", "apply"} /\ enabled => \A x \in results : Budget!Recorded(x)

BudgetInv == BudgetTyped /\ CountedOnce

\* A workspace starts without a daemon and with an empty ledger.
LEMMA BudgetStart == ASSUME Budget!Init PROVE BudgetInv
  BY BudgetAssumption DEF Budget!Init, BudgetInv, BudgetTyped, CountedOnce

\* A line is added for a stage that has none.
LEMMA LineAdded ==
  ASSUME BudgetInv, session # 0, NEW x \in Ran, ~Budget!Recorded(x),
         ledger' = Append(ledger, Budget!Entry(x))
  PROVE  /\ ledger' \in Seq(Lines)
         /\ \A j, k \in DOMAIN ledger' : ledger'[j].key = ledger'[k].key => j = k
<1>1. Budget!Entry(x) \in Lines /\ Budget!Entry(x).key = x.key
  BY BudgetAssumption DEF BudgetInv, BudgetTyped, Budget!Entry, Ran, Lines
<1>2. ledger \in Seq(Lines) /\ \A j \in DOMAIN ledger : ledger[j].key # x.key
  BY DEF BudgetInv, BudgetTyped, Budget!Recorded, Budget!Entries
<1>3. \A j, k \in DOMAIN ledger : ledger[j].key = ledger[k].key => j = k
  BY DEF BudgetInv, CountedOnce
<1> DEFINE e == Budget!Entry(x)
<1>4. ledger' = Append(ledger, e) /\ e \in Lines /\ e.key = x.key
  BY <1>1
<1> HIDE DEF e
<1>5. ledger' \in Seq(Lines)
  BY <1>2, <1>4
<1>6. /\ DOMAIN ledger' = 1..Len(ledger) + 1 /\ DOMAIN ledger = 1..Len(ledger) /\ Len(ledger) \in Nat
      /\ \A j \in DOMAIN ledger : ledger'[j] = ledger[j]
      /\ ledger'[Len(ledger) + 1] = e
  BY <1>2, <1>4
<1> QED
  BY <1>2, <1>3, <1>4, <1>5, <1>6

\* Every step of the daemon and of an operator keeps the invariant.
LEMMA BudgetStep ==
  ASSUME BudgetInv, Budget!Next \/ UNCHANGED budgetVars PROVE BudgetInv'
<1> USE BudgetAssumption DEF BudgetInv, Budget!disk
<1>1. CASE Budget!TimePasses
  <2>1. /\ clock < MaxTime /\ clock' = clock + 1
        /\ UNCHANGED <<now, session, enabled, sources, saved, state, results, ledger, outcomes, cycle,
                       started, sessions, pauses>>
    BY <1>1 DEF Budget!TimePasses
  <2>2. results \subseteq Ran /\ (\A x \in results : x.at \in Int)
    BY DEF BudgetTyped, Ran
  <2>3. \A n \in 1..Len(outcomes) : outcomes[n].at \in Int
    <3>1. \A n \in 1..Len(outcomes) : outcomes[n] \in Ran
      BY DEF BudgetTyped
    <3> QED
      BY <3>1 DEF Ran
  <2> QED
    BY <2>1, <2>2, <2>3 DEF BudgetTyped, CountedOnce, Budget!Recorded, Budget!Entries
<1>2. CASE Budget!Start \/ Budget!Crash
  <2>1. /\ UNCHANGED <<clock, enabled, saved, results, ledger, started>>
        /\ cycle' \in {"off", "drain"} /\ outcomes' \in {outcomes, <<>>}
        /\ now' \in {now, clock} /\ sources' \in {saved, {}}
        /\ session' \in 0..MaxSessions /\ sessions' \in 0..MaxSessions
        /\ cycle' = "drain" => session' # 0
    BY <1>2 DEF Budget!Start, Budget!Crash, BudgetTyped
  <2>2. /\ outcomes' \in Seq(Ran) /\ Len(outcomes') <= 2
        /\ \A n \in 1..Len(outcomes') : outcomes'[n].at <= clock'
    <3>1. CASE outcomes' = outcomes
      BY <2>1, <3>1 DEF BudgetTyped
    <3>2. CASE outcomes' = <<>>
      BY <3>2
    <3> QED
      BY <2>1, <3>1, <3>2
  <2>3. now' \in 0..clock'
    BY <2>1 DEF BudgetTyped
  <2> QED
    BY <2>1, <2>2, <2>3 DEF BudgetTyped, CountedOnce
<1>3. CASE (\E on \in BOOLEAN : Budget!MailboxPause(on)) \/ Budget!Reload \/ Budget!PauseDirect
           \/ Budget!ResumeDirect
  <2>1. /\ UNCHANGED <<clock, now, session, results, ledger, outcomes, cycle, started, sessions>>
        /\ sources' \cup saved' \subseteq {Budget!Operator, Budget!Governance}
        /\ cycle \in {"ingest", "off"}
    BY <1>3 DEF Budget!MailboxPause, Budget!Reload, Budget!PauseDirect, Budget!ResumeDirect, BudgetTyped
  <2> QED
    BY <2>1 DEF BudgetTyped, CountedOnce
<1>4. CASE Budget!Persist
  <2>1. /\ outcomes # <<>> /\ cycle' = "record" /\ cycle = "drain"
        /\ results' = results \cup {Head(outcomes)} /\ now' = Head(outcomes).at
        /\ UNCHANGED <<clock, session, enabled, sources, saved, ledger, outcomes, started, sessions>>
    BY <1>4 DEF Budget!Persist
  <2>2. Head(outcomes) \in Ran /\ Head(outcomes).at \in 0..clock
    <3>1. outcomes \in Seq(Ran) /\ Head(outcomes) = outcomes[1] /\ 1 \in 1..Len(outcomes)
      BY <2>1 DEF BudgetTyped
    <3>2. outcomes[1] \in Ran /\ outcomes[1].at <= clock
      BY <3>1 DEF BudgetTyped
    <3> QED
      BY <3>1, <3>2 DEF Ran
  <2> QED
    BY <2>1, <2>2 DEF BudgetTyped, CountedOnce
<1>5. CASE Budget!Drained \/ Budget!Ingested
  <2>1. /\ UNCHANGED <<clock, session, enabled, sources, results, ledger, outcomes, started, sessions>>
        /\ cycle' \in {"ingest", "reconcile"} /\ cycle # "off"
        /\ now' \in {now, clock} /\ saved' \in {saved, sources}
    BY <1>5 DEF Budget!Drained, Budget!Ingested
  <2> QED
    BY <2>1 DEF BudgetTyped, CountedOnce
<1>6. CASE Budget!Record
  <2>1. /\ UNCHANGED <<clock, now, session, enabled, sources, saved, results, outcomes, started, sessions>>
        /\ cycle = "record" /\ cycle' = "reconcile"
        /\ \/ ledger' = ledger
           \/ ~Budget!Recorded(Head(outcomes)) /\ ledger' = Append(ledger, Budget!Entry(Head(outcomes)))
    BY <1>6 DEF Budget!Record
  <2>2. Head(outcomes) \in Ran
    BY <2>1 DEF BudgetTyped
  <2>3. /\ ledger' \in Seq(Lines)
        /\ \A j, k \in DOMAIN ledger' : ledger'[j].key = ledger'[k].key => j = k
    BY <2>1, <2>2, LineAdded DEF BudgetTyped, CountedOnce
  <2> QED
    BY <2>1, <2>3 DEF BudgetTyped, CountedOnce
<1>7. CASE Budget!Reconcile
  <2>1. /\ UNCHANGED <<clock, now, session, enabled, sources, saved, results, outcomes, started, sessions>>
        /\ cycle = "reconcile"
    BY <1>7 DEF Budget!Reconcile
  <2>2. CASE enabled /\ Budget!Missing # {}
    <3>1. PICK x \in Budget!Missing : ledger' = Append(ledger, Budget!Entry(x))
      BY <1>7, <2>2 DEF Budget!Reconcile
    <3>2. x \in Ran /\ ~Budget!Recorded(x)
      BY <3>1 DEF Budget!Missing, BudgetTyped
    <3>3. cycle' = cycle
      BY <1>7, <2>2 DEF Budget!Reconcile
    <3>4. /\ ledger' \in Seq(Lines)
          /\ \A j, k \in DOMAIN ledger' : ledger'[j].key = ledger'[k].key => j = k
      BY <2>1, <3>1, <3>2, LineAdded DEF BudgetTyped
    <3> QED
      BY <2>1, <3>3, <3>4 DEF BudgetTyped, CountedOnce
  <2>3. CASE ~(enabled /\ Budget!Missing # {})
    <3>1. cycle' = "judge" /\ ledger' = ledger
      BY <1>7, <2>3 DEF Budget!Reconcile
    <3>2. enabled => \A x \in results : Budget!Recorded(x)
      BY <2>3 DEF Budget!Missing
    <3> QED
      BY <2>1, <3>1, <3>2 DEF BudgetTyped, CountedOnce, Budget!Recorded, Budget!Entries
  <2> QED
    BY <2>2, <2>3
<1>8. CASE Budget!Judge
  <2>1. /\ UNCHANGED <<clock, now, session, enabled, sources, saved, results, ledger, outcomes, started,
                       sessions>>
        /\ cycle = "judge" /\ cycle' = "apply"
    BY <1>8 DEF Budget!Judge
  <2> QED
    BY <2>1 DEF BudgetTyped, CountedOnce, Budget!Recorded, Budget!Entries
<1>9. CASE Budget!Apply
  <2>1. /\ UNCHANGED <<clock, now, session, enabled, results, ledger, started, sessions>>
        /\ cycle = "apply" /\ cycle' \in {"drain", "dispatch"}
        /\ sources' \subseteq sources \cup {Budget!Governance} /\ saved' = sources'
        /\ \/ outcomes # <<>> /\ outcomes' = Tail(outcomes)
           \/ outcomes' = outcomes
    BY <1>9 DEF Budget!Apply
  <2>2. /\ outcomes' \in Seq(Ran) /\ Len(outcomes') <= 2
        /\ \A n \in 1..Len(outcomes') : outcomes'[n].at <= clock
    <3>1. /\ outcomes \in Seq(Ran) /\ Len(outcomes) <= 2
          /\ \A n \in 1..Len(outcomes) : outcomes[n].at <= clock
      BY DEF BudgetTyped
    <3>2. CASE outcomes' = outcomes
      BY <3>1, <3>2
    <3>3. CASE outcomes # <<>> /\ outcomes' = Tail(outcomes)
      <4>1. /\ outcomes' \in Seq(Ran) /\ Len(outcomes') = Len(outcomes) - 1
            /\ \A n \in 1..Len(outcomes') : n + 1 \in 1..Len(outcomes) /\ outcomes'[n] = outcomes[n + 1]
        BY <3>1, <3>3
      <4> QED
        BY <3>1, <4>1
    <3> QED
      BY <2>1, <3>2, <3>3
  <2> QED
    BY <2>1, <2>2 DEF BudgetTyped, CountedOnce
<1>10. CASE Budget!Dispatch
  <2>1. /\ UNCHANGED <<clock, now, session, enabled, sources, saved, results, ledger, sessions>>
        /\ cycle = "dispatch" /\ cycle' = "drain"
    BY <1>10 DEF Budget!Dispatch
  <2>2. \/ UNCHANGED <<outcomes, started>>
        \/ \E c \in Costs : /\ started < MaxStarts /\ started' = started + 1
                            /\ outcomes' = <<Budget!Ran(started + 1, c)>>
        \/ \E c, d \in Costs : /\ started + 1 < MaxStarts /\ started' = started + 2
                               /\ outcomes' = <<Budget!Ran(started + 1, c), Budget!Ran(started + 2, d)>>
    BY <1>10 DEF Budget!Dispatch
  <2>3. ASSUME NEW k \in 1..MaxStarts, NEW c \in Costs
        PROVE  Budget!Ran(k, c) \in Ran /\ Budget!Ran(k, c).at <= clock
    BY DEF Budget!Ran, Ran, BudgetTyped
  <2> DEFINE Fits(o) == o \in Seq(Ran) /\ Len(o) <= 2 /\ \A n \in 1..Len(o) : o[n].at <= clock
  <2>4. Fits(outcomes') /\ started' \in 0..MaxStarts
    <3>1. CASE UNCHANGED <<outcomes, started>>
      BY <3>1 DEF BudgetTyped
    <3>2. ASSUME NEW c \in Costs, started < MaxStarts, started' = started + 1,
                 outcomes' = <<Budget!Ran(started + 1, c)>>
          PROVE  Fits(outcomes') /\ started' \in 0..MaxStarts
      <4> DEFINE a == Budget!Ran(started + 1, c)
      <4>1. started + 1 \in 1..MaxStarts
        BY <3>2 DEF BudgetTyped
      <4>2. a \in Ran /\ a.at <= clock
        BY <2>3, <4>1
      <4>3. outcomes' = <<a>>
        BY <3>2
      <4> HIDE DEF a
      <4>4. Fits(<<a>>)
        BY <4>2
      <4> QED
        BY <3>2, <4>1, <4>3, <4>4
    <3>3. ASSUME NEW c \in Costs, NEW d \in Costs, started + 1 < MaxStarts, started' = started + 2,
                 outcomes' = <<Budget!Ran(started + 1, c), Budget!Ran(started + 2, d)>>
          PROVE  Fits(outcomes') /\ started' \in 0..MaxStarts
      <4> DEFINE a == Budget!Ran(started + 1, c)
                 b == Budget!Ran(started + 2, d)
      <4>1. {started + 1, started + 2} \subseteq 1..MaxStarts
        BY <3>3 DEF BudgetTyped
      <4>2. a \in Ran /\ b \in Ran /\ a.at <= clock /\ b.at <= clock
        BY <2>3, <3>3, <4>1
      <4>3. outcomes' = <<a, b>>
        BY <3>3
      <4> HIDE DEF a, b
      <4>4. Fits(<<a, b>>)
        BY <4>2
      <4> QED
        BY <3>3, <4>1, <4>3, <4>4
    <3> QED
      BY <2>2, <3>1, <3>2, <3>3
  <2> QED
    BY <2>1, <2>4 DEF BudgetTyped, CountedOnce
<1>11. CASE UNCHANGED budgetVars
  BY <1>11 DEF budgetVars, BudgetTyped, CountedOnce, Budget!Recorded, Budget!Entries
<1> QED
  BY <1>1, <1>2, <1>3, <1>4, <1>5, <1>6, <1>7, <1>8, <1>9, <1>10, <1>11 DEF Budget!Next, Budget!Cycle

\* What the invariant says of types and tokens.
LEMMA BudgetMeans == ASSUME BudgetInv PROVE Budget!TypeOK /\ Budget!EveryTokenCounted
<1>1. \A e \in Budget!Entries : e \in Lines
  BY DEF BudgetInv, BudgetTyped, Budget!Entries
<1>2. Budget!TypeOK
  BY <1>1 DEF BudgetInv, BudgetTyped, Ran, Lines, Budget!TypeOK
<1> QED
  BY <1>2 DEF BudgetInv, CountedOnce, Budget!EveryTokenCounted

-----------------------------------------------------------------------------
(* Sums of tokens.  Induction is over sets of numbers, which the provers    *)
(* can do: what holds of 0 and of each successor holds of every number.     *)

\* In a well-founded order a set that is not empty has a minimal element.
LEMMA LeastOf ==
  ASSUME NEW R, NEW W, IsWellFoundedOn(R, W), NEW S, S \subseteq W, S # {}
  PROVE  \E x \in S : \A y \in S : ~ (<<y, x>> \in R)
BY WFMin

\* The order of the natural numbers is well founded.
LEMMA BelowWellFounded == IsWellFoundedOn({ss \in Nat \X Nat : ss[1] < ss[2]}, Nat)
BY NatLessThanWellFounded DEF OpToRel

\* A set with 0 and the successor of each member has every natural number.
LEMMA EveryNumber ==
  ASSUME NEW K, 0 \in K, \A n \in Nat : n \in K => n + 1 \in K
  PROVE  Nat \subseteq K
<1> DEFINE R == {ss \in Nat \X Nat : ss[1] < ss[2]}
<1> SUFFICES ASSUME Nat \ K # {} PROVE FALSE
  OBVIOUS
<1>1. PICK x \in Nat \ K : \A y \in Nat \ K : ~ (<<y, x>> \in R)
  <2>1. IsWellFoundedOn(R, Nat)
    BY BelowWellFounded
  <2> HIDE DEF R
  <2>2. QED
    BY <2>1, LeastOf
<1>2. x - 1 \in Nat /\ x - 1 < x /\ x = (x - 1) + 1
  BY <1>1
<1>3. <<x - 1, x>> \in Nat \X Nat /\ <<x - 1, x>>[1] = x - 1 /\ <<x - 1, x>>[2] = x
  BY <1>2
<1>4. x - 1 \in K
  BY <1>1, <1>2, <1>3
<1>5. x \in K
  BY <1>2, <1>4
<1> QED
  BY <1>1, <1>5

\* A set whose tokens can be added up.
Counted(S) == IsFiniteSet(S) /\ \A x \in S : x.tokens \in Nat

\* The sum over s, given those over smaller sets, and the function that gives it for
\* every subset of S: the recursion of MapThenSumSet.
Summed(g, s) == IF s = {} THEN 0 ELSE LET x == CHOOSE x \in s : TRUE IN x.tokens + g[s \ {x}]

IsSums(g, S) == g = [s \in SUBSET S |-> Summed(g, s)]

Sums(S) == CHOOSE g : IsSums(g, S)

\* What a rule has spent, by way of the sums over all subsets.
LEMMA SpentIsSum == ASSUME NEW S PROVE Budget!Spent(S) = Sums(S)[S]
  BY DEF Budget!Spent, Budget!MapThenSumSet, Budget!MapThenFoldSet, Sums, IsSums, Summed

\* What a set has without one of its members.
LEMMA OneLess ==
  ASSUME NEW S, Counted(S), NEW s \in SUBSET S
  PROVE  /\ Counted(s) /\ Cardinality(s) \in Nat /\ Cardinality(s) <= Cardinality(S)
         /\ s # {} => Cardinality(s) > 0 /\ (CHOOSE x \in s : TRUE) \in s
         /\ \A x \in s : /\ s \ {x} \in SUBSET S /\ Cardinality(s \ {x}) = Cardinality(s) - 1
                         /\ x.tokens \in Nat
<1>1. IsFiniteSet(s) /\ Cardinality(s) <= Cardinality(S)
  BY FS_Subset DEF Counted
<1>2. Cardinality(s) \in Nat
  BY <1>1, FS_CardinalityType
<1>3. s # {} => Cardinality(s) > 0
  BY <1>1, <1>2, FS_EmptySet
<1>4. \A x \in s : Cardinality(s \ {x}) = Cardinality(s) - 1
  BY <1>1, FS_RemoveElement
<1> QED
  BY <1>1, <1>2, <1>3, <1>4 DEF Counted

\* The function of sums exists.
LEMMA SumsExist ==
  ASSUME NEW S, Counted(S)
  PROVE  IsSums(Sums(S), S)
<1> DEFINE Upto(n) == \E g \in [SUBSET S -> Nat] :
                        \A s \in SUBSET S : Cardinality(s) <= n => g[s] = Summed(g, s)
           K == {n \in Nat : Upto(n)}
<1>1. 0 \in K
  <2> DEFINE g == [s \in SUBSET S |-> 0]
  <2>1. \A s \in SUBSET S : Cardinality(s) <= 0 => s = {}
    BY OneLess
  <2>2. g \in [SUBSET S -> Nat] /\ \A s \in SUBSET S : Cardinality(s) <= 0 => g[s] = Summed(g, s)
    BY <2>1 DEF Summed
  <2> QED
    BY <2>2
<1>2. ASSUME NEW n \in Nat, Upto(n) PROVE Upto(n + 1)
  <2>1. PICK g \in [SUBSET S -> Nat] : \A s \in SUBSET S : Cardinality(s) <= n => g[s] = Summed(g, s)
    BY <1>2
  <2> DEFINE f == [s \in SUBSET S |-> Summed(g, s)]
  <2>2. ASSUME NEW s \in SUBSET S PROVE Summed(g, s) \in Nat
    <3>1. CASE s = {}
      BY <3>1 DEF Summed
    <3>2. CASE s # {}
      <4> DEFINE x == CHOOSE x \in s : TRUE
      <4>1. x \in s /\ x.tokens \in Nat /\ s \ {x} \in SUBSET S
        BY <3>2, OneLess
      <4>2. g[s \ {x}] \in Nat
        BY <4>1
      <4>3. Summed(g, s) = x.tokens + g[s \ {x}]
        BY <3>2 DEF Summed
      <4> HIDE DEF x
      <4> QED
        BY <4>1, <4>2, <4>3
    <3> QED
      BY <3>1, <3>2
  <2>3. f \in [SUBSET S -> Nat]
    BY <2>2
  <2>4. ASSUME NEW s \in SUBSET S, Cardinality(s) <= n + 1 PROVE f[s] = Summed(f, s)
    <3>1. CASE s = {}
      BY <3>1 DEF Summed
    <3>2. CASE s # {}
      <4> DEFINE x == CHOOSE x \in s : TRUE
      <4>1. /\ x \in s /\ s \ {x} \in SUBSET S
            /\ Cardinality(s \ {x}) = Cardinality(s) - 1 /\ Cardinality(s) \in Nat
        BY <3>2, OneLess
      <4>2. Summed(g, s) = x.tokens + g[s \ {x}] /\ Summed(f, s) = x.tokens + f[s \ {x}]
        BY <3>2 DEF Summed
      <4> HIDE DEF x
      <4>3. g[s \ {x}] = Summed(g, s \ {x})
        BY <2>1, <2>4, <4>1
      <4>4. f[s \ {x}] = Summed(g, s \ {x}) /\ f[s] = Summed(g, s)
        BY <4>1
      <4> QED
        BY <4>2, <4>3, <4>4
    <3> QED
      BY <3>1, <3>2
  <2> HIDE DEF f
  <2> QED
    BY <2>3, <2>4
<1> HIDE DEF Upto
<1>3. \A n \in Nat : n \in K => n + 1 \in K
  BY <1>2
<1> HIDE DEF K
<1>4. Nat \subseteq K
  BY <1>1, <1>3, EveryNumber
<1> USE DEF K, Upto
<1>5. S \in SUBSET S /\ Cardinality(S) \in Nat
  BY OneLess
<1>6. PICK g \in [SUBSET S -> Nat] :
        \A s \in SUBSET S : Cardinality(s) <= Cardinality(S) => g[s] = Summed(g, s)
  BY <1>4, <1>5
<1>7. \A s \in SUBSET S : g[s] = Summed(g, s)
  BY <1>6, OneLess
<1>8. g = [s \in SUBSET S |-> Summed(g, s)]
  BY <1>6, <1>7
<1>9. IsSums(g, S)
  BY <1>8 DEF IsSums
<1> QED
  BY <1>9 DEF Sums

\* Sums over the subsets of a set are those over the subsets of a larger one.
LEMMA SumsAgree ==
  ASSUME NEW T, Counted(T), NEW S, S \subseteq T, NEW f, NEW g, IsSums(f, S), IsSums(g, T)
  PROVE  \A s \in SUBSET S : f[s] = g[s] /\ f[s] \in Nat
<1> DEFINE Upto(n) == \A s \in SUBSET S : Cardinality(s) <= n => f[s] = g[s] /\ f[s] \in Nat
           K == {n \in Nat : Upto(n)}
<1>0. /\ \A s \in SUBSET S : f[s] = Summed(f, s)
      /\ \A s \in SUBSET T : g[s] = Summed(g, s)
  BY DEF IsSums
<1>1. 0 \in K
  <2>1. \A s \in SUBSET S : Cardinality(s) <= 0 => s = {}
    BY OneLess
  <2>2. f[{}] = 0 /\ g[{}] = 0
    BY <1>0 DEF Summed
  <2>3. ASSUME NEW s \in SUBSET S, Cardinality(s) <= 0 PROVE f[s] = g[s] /\ f[s] \in Nat
    <3>1. s = {}
      BY <2>1, <2>3
    <3> QED
      BY <2>2, <3>1
  <2>4. Upto(0)
    BY <2>3
  <2> QED
    BY <2>4
<1>2. ASSUME NEW n \in Nat, Upto(n) PROVE Upto(n + 1)
  <2> SUFFICES ASSUME NEW s \in SUBSET S, Cardinality(s) <= n + 1 PROVE f[s] = g[s] /\ f[s] \in Nat
    OBVIOUS
  <2>1. CASE s = {}
    <3>1. f[s] = Summed(f, s) /\ g[s] = Summed(g, s)
      BY <1>0
    <3>2. Summed(f, s) = 0 /\ Summed(g, s) = 0
      BY <2>1 DEF Summed
    <3> QED
      BY <3>1, <3>2
  <2>2. CASE s # {}
    <3> DEFINE x == CHOOSE x \in s : TRUE
               r == s \ {x}
    <3>1. /\ x \in s /\ x.tokens \in Nat /\ s \in SUBSET T /\ r \in SUBSET S
          /\ Cardinality(r) = Cardinality(s) - 1 /\ Cardinality(s) \in Nat
      BY <2>2, OneLess
    <3>2. Summed(f, s) = x.tokens + f[r] /\ Summed(g, s) = x.tokens + g[r]
      BY <2>2 DEF Summed
    <3> HIDE DEF x, r
    <3>3. Cardinality(r) <= n
      BY <3>1
    <3>4. f[r] = g[r] /\ f[r] \in Nat
      BY <1>2, <3>1, <3>3
    <3>5. f[s] = Summed(f, s) /\ g[s] = Summed(g, s)
      BY <1>0, <3>1
    <3> QED
      BY <3>1, <3>2, <3>4, <3>5
  <2> QED
    BY <2>1, <2>2
<1> HIDE DEF Upto
<1>3. \A n \in Nat : n \in K => n + 1 \in K
  BY <1>2
<1> HIDE DEF K
<1>4. Nat \subseteq K
  BY <1>1, <1>3, EveryNumber
<1> USE DEF K
<1>5. ASSUME NEW s \in SUBSET S PROVE f[s] = g[s] /\ f[s] \in Nat
  <2>1. PICK n \in Nat : n = Cardinality(s)
    BY OneLess
  <2>2. Upto(n)
    BY <1>4
  <2> USE DEF Upto
  <2> QED
    BY <2>1, <2>2
<1> QED
  BY <1>5

\* What is spent is a number, nothing for nothing, and the sum of an entry and the rest.
LEMMA SpentOfChosen ==
  ASSUME NEW S, Counted(S)
  PROVE  /\ Budget!Spent(S) \in Nat
         /\ S = {} => Budget!Spent(S) = 0
         /\ S # {} => LET x == CHOOSE x \in S : TRUE
                      IN  Budget!Spent(S) = x.tokens + Budget!Spent(S \ {x})
<1>1. IsSums(Sums(S), S)
  BY SumsExist
<1>2. Budget!Spent(S) = Sums(S)[S] /\ Sums(S)[S] = Summed(Sums(S), S)
  BY <1>1, SpentIsSum DEF IsSums
<1>3. Sums(S)[S] \in Nat
  BY <1>1, SumsAgree
<1>4. CASE S = {}
  BY <1>2, <1>3, <1>4 DEF Summed
<1>5. CASE S # {}
  <2> DEFINE x == CHOOSE x \in S : TRUE
             R == S \ {x}
  <2>1. R \in SUBSET S /\ Counted(R)
    BY OneLess, FS_Subset DEF Counted
  <2>2. Summed(Sums(S), S) = x.tokens + Sums(S)[R]
    BY <1>5 DEF Summed
  <2> HIDE DEF x, R
  <2>3. IsSums(Sums(R), R)
    BY <2>1, SumsExist
  <2>4. Sums(R)[R] = Sums(S)[R]
    BY <1>1, <2>1, <2>3, SumsAgree
  <2>5. Budget!Spent(R) = Sums(R)[R]
    BY SpentIsSum
  <2>6. Budget!Spent(S) = x.tokens + Budget!Spent(R)
    BY <1>2, <2>2, <2>4, <2>5
  <2> USE DEF x, R
  <2> QED
    BY <1>2, <1>3, <1>5, <2>6
<1> QED
  BY <1>4, <1>5

\* Any member may be the one that is counted apart.
LEMMA SpentWithout ==
  ASSUME NEW T, Counted(T), NEW z \in T
  PROVE  Budget!Spent(T) = z.tokens + Budget!Spent(T \ {z})
<1> DEFINE Upto(n) == \A s \in SUBSET T : Cardinality(s) <= n =>
                        \A y \in s : Budget!Spent(s) = y.tokens + Budget!Spent(s \ {y})
           K == {n \in Nat : Upto(n)}
<1>1. 0 \in K
  <2>1. \A s \in SUBSET T : Cardinality(s) <= 0 => s = {}
    BY OneLess
  <2>2. Upto(0)
    BY <2>1
  <2> QED
    BY <2>2
<1>2. ASSUME NEW n \in Nat, Upto(n) PROVE Upto(n + 1)
  <2> SUFFICES ASSUME NEW s \in SUBSET T, Cardinality(s) <= n + 1, NEW y \in s
               PROVE  Budget!Spent(s) = y.tokens + Budget!Spent(s \ {y})
    OBVIOUS
  <2> DEFINE x == CHOOSE x \in s : TRUE
  <2>1. Counted(s) /\ s # {} /\ x \in s
    BY OneLess
  <2>2. Budget!Spent(s) = x.tokens + Budget!Spent(s \ {x})
    BY <2>1, SpentOfChosen
  <2> HIDE DEF x
  <2>3. CASE x = y
    BY <2>2, <2>3
  <2>4. CASE x # y
    <3> DEFINE p == s \ {x}
               q == s \ {y}
               r == s \ {x, y}
    <3>1. /\ p \in SUBSET T /\ q \in SUBSET T /\ r \in SUBSET T /\ Cardinality(s) \in Nat
          /\ Cardinality(p) = Cardinality(s) - 1 /\ Cardinality(q) = Cardinality(s) - 1
      BY <2>1, OneLess
    <3>2. y \in p /\ x \in q /\ p \ {y} = r /\ q \ {x} = r
      BY <2>1, <2>4
    <3> HIDE DEF p, q, r
    <3>3. Cardinality(p) <= n /\ Cardinality(q) <= n
      BY <3>1
    <3>4. /\ Budget!Spent(p) = y.tokens + Budget!Spent(r)
          /\ Budget!Spent(q) = x.tokens + Budget!Spent(r)
      BY <1>2, <3>1, <3>2, <3>3
    <3>5. Counted(r)
      BY <3>1, OneLess
    <3>6. x.tokens \in Nat /\ y.tokens \in Nat /\ Budget!Spent(r) \in Nat
      BY <2>1, <3>5, SpentOfChosen DEF Counted
    <3>7. Budget!Spent(s) = x.tokens + Budget!Spent(p)
      BY <2>2 DEF p
    <3>8. Budget!Spent(s) = y.tokens + Budget!Spent(q)
      BY <3>4, <3>6, <3>7
    <3> QED
      BY <3>8 DEF q
  <2> QED
    BY <2>3, <2>4
<1> HIDE DEF Upto
<1>3. \A n \in Nat : n \in K => n + 1 \in K
  BY <1>2
<1> HIDE DEF K
<1>4. Nat \subseteq K
  BY <1>1, <1>3, EveryNumber
<1> USE DEF K
<1>5. T \in SUBSET T
  OBVIOUS
<1>6. PICK n \in Nat : n = Cardinality(T)
  BY <1>5, OneLess
<1>7. Upto(n)
  BY <1>4
<1> USE DEF Upto
<1> QED
  BY <1>5, <1>6, <1>7

\* A set spends no more than another one that has, under each of its keys, the same
\* tokens.
LEMMA SpentLess ==
  ASSUME NEW S, NEW T, Counted(S), Counted(T),
         \A x \in S : \E y \in T : y.key = x.key /\ y.tokens = x.tokens,
         \A x, y \in S : x.key = y.key => x = y
  PROVE  Budget!Spent(S) <= Budget!Spent(T)
<1> DEFINE Within(s, t) == \A x \in s : \E y \in t : y.key = x.key /\ y.tokens = x.tokens
           Upto(n) == \A s \in SUBSET S, t \in SUBSET T :
                        Cardinality(s) <= n /\ Within(s, t) => Budget!Spent(s) <= Budget!Spent(t)
           K == {n \in Nat : Upto(n)}
<1>1. 0 \in K
  <2>1. ASSUME NEW s \in SUBSET S, NEW t \in SUBSET T, Cardinality(s) <= 0
        PROVE  Budget!Spent(s) <= Budget!Spent(t)
    <3>1. s = {} /\ Counted(s) /\ Counted(t)
      BY <2>1, OneLess
    <3>2. Budget!Spent(s) = 0 /\ Budget!Spent(t) \in Nat
      BY <3>1, SpentOfChosen
    <3> QED
      BY <3>2
  <2>2. Upto(0)
    BY <2>1
  <2> QED
    BY <2>2
<1>2. ASSUME NEW n \in Nat, Upto(n) PROVE Upto(n + 1)
  <2> SUFFICES ASSUME NEW s \in SUBSET S, NEW t \in SUBSET T, Cardinality(s) <= n + 1, Within(s, t)
               PROVE  Budget!Spent(s) <= Budget!Spent(t)
    OBVIOUS
  <2>1. Counted(s) /\ Counted(t)
    BY OneLess
  <2>2. CASE s = {}
    <3>1. Budget!Spent(s) = 0 /\ Budget!Spent(t) \in Nat
      BY <2>1, <2>2, SpentOfChosen
    <3> QED
      BY <3>1
  <2>3. CASE s # {}
    <3>1. PICK x \in s : TRUE
      BY <2>3
    <3>2. PICK y \in t : y.key = x.key /\ y.tokens = x.tokens
      BY <3>1
    <3> DEFINE p == s \ {x}
               q == t \ {y}
    <3>3. Within(p, q)
      <4> SUFFICES ASSUME NEW u \in s, u # x
                   PROVE  \E v \in q : v.key = u.key /\ v.tokens = u.tokens
        OBVIOUS
      <4>1. PICK v \in t : v.key = u.key /\ v.tokens = u.tokens
        OBVIOUS
      <4>2. v # y
        BY <3>2, <4>1
      <4> QED
        BY <4>1, <4>2
    <3>4. /\ p \in SUBSET S /\ q \in SUBSET T /\ Cardinality(s) \in Nat
          /\ Cardinality(p) = Cardinality(s) - 1
      BY <3>1, OneLess
    <3>5. /\ Budget!Spent(s) = x.tokens + Budget!Spent(p)
          /\ Budget!Spent(t) = y.tokens + Budget!Spent(q)
      BY <2>1, <3>1, <3>2, SpentWithout
    <3> HIDE DEF p, q, Within
    <3>6. Cardinality(p) <= n
      BY <3>4
    <3>7. Budget!Spent(p) <= Budget!Spent(q)
      BY <1>2, <3>3, <3>4, <3>6
    <3>8. /\ Counted(p) /\ Counted(q) /\ x.tokens \in Nat
      BY <2>1, <3>1, <3>4, OneLess DEF Counted
    <3>9. Budget!Spent(p) \in Nat /\ Budget!Spent(q) \in Nat
      BY <3>8, SpentOfChosen
    <3> QED
      BY <3>2, <3>5, <3>7, <3>8, <3>9
  <2> QED
    BY <2>2, <2>3
<1> HIDE DEF Upto
<1>3. \A n \in Nat : n \in K => n + 1 \in K
  BY <1>2
<1> HIDE DEF K
<1>4. Nat \subseteq K
  BY <1>1, <1>3, EveryNumber
<1> USE DEF K
<1>5. S \in SUBSET S /\ T \in SUBSET T
  OBVIOUS
<1>6. PICK n \in Nat : n = Cardinality(S)
  BY <1>5, OneLess
<1>7. Upto(n)
  BY <1>4
<1> USE DEF Upto
<1> QED
  BY <1>5, <1>6, <1>7

-----------------------------------------------------------------------------
(* No stage over a budget                                                   *)

\* A result is known by its key; those still to be applied are none on disk but for
\* the one that is being worked on.
OutcomesApart ==
    /\ IsFiniteSet(results) /\ (\A x \in results : x.key <= started)
    /\ \A x, y \in results : x.key = y.key => x = y
    /\ \A m, n \in 1..Len(outcomes) : outcomes[m].key = outcomes[n].key => m = n
    /\ \A n \in 1..Len(outcomes) : outcomes[n].key <= started
    /\ \A x \in results, n \in 1..Len(outcomes) : x.key = outcomes[n].key =>
          n = 1 /\ x = outcomes[1] /\ cycle \in {"record", "reconcile", "judge", "apply"}
    /\ cycle = "record" => outcomes[1] \in results
    /\ cycle \in {"ingest", "dispatch"} => outcomes = <<>>

\* A line of the ledger tells of a result on disk.
LinesTrue ==
    /\ IsFiniteSet(Budget!Entries)
    /\ \A e \in Budget!Entries :
          \E x \in results : x.key = e.key /\ x.at = e.at /\ x.tokens = e.tokens

\* No rule is exceeded by what the ledger says at the time of the cycle.
Afforded == \A r \in Rules : Budget!Spent(Budget!Window(r, now)) < r.threshold

\* From the judgement to the dispatch.
JudgedRight ==
    /\ cycle = "apply" /\ enabled /\ state.blockers = {} => Afforded
    /\ cycle = "dispatch" /\ enabled /\ sources = {} =>
          Afforded /\ \A x \in results : Budget!Recorded(x)

SpendInv == BudgetInv /\ OutcomesApart /\ LinesTrue /\ JudgedRight

\* Nothing was run, so nothing was spent.
LEMMA SpendStart == ASSUME Budget!Init PROVE SpendInv
<1>1. Budget!Entries = {} /\ IsFiniteSet({})
  BY FS_EmptySet DEF Budget!Init, Budget!Entries
<1> QED
  BY <1>1, BudgetStart DEF Budget!Init, SpendInv, OutcomesApart, LinesTrue, JudgedRight

\* The entries of the ledger are counted.
LEMMA EntriesCounted ==
  ASSUME BudgetInv, IsFiniteSet(Budget!Entries), NEW r, NEW t
  PROVE  Counted(Budget!Window(r, t))
<1>1. Budget!Window(r, t) \subseteq Budget!Entries
  BY DEF Budget!Window
<1>2. \A e \in Budget!Entries : e \in Lines
  BY DEF BudgetInv, BudgetTyped, Budget!Entries
<1>3. \A e \in Budget!Entries : e.tokens \in Nat
  BY <1>2, BudgetAssumption DEF Lines
<1> QED
  BY <1>1, <1>3, FS_Subset DEF Counted

\* A line is added for a result on disk.
LEMMA LinesGrow ==
  ASSUME BudgetInv, LinesTrue, results' = results, NEW x \in results,
         ledger' = Append(ledger, Budget!Entry(x))
  PROVE  LinesTrue'
<1> DEFINE e == Budget!Entry(x)
<1>1. e.key = x.key /\ e.at = x.at /\ e.tokens = x.tokens
  BY DEF Budget!Entry
<1>2. Budget!Entries' = Budget!Entries \cup {e}
  <2>1. ledger' = Append(ledger, e)
    OBVIOUS
  <2> HIDE DEF e
  <2>2. ledger \in Seq(Lines)
    BY DEF BudgetInv, BudgetTyped
  <2>3. /\ DOMAIN ledger' = 1..Len(ledger) + 1 /\ DOMAIN ledger = 1..Len(ledger) /\ Len(ledger) \in Nat
        /\ \A j \in DOMAIN ledger : ledger'[j] = ledger[j]
        /\ ledger'[Len(ledger) + 1] = e
    BY <2>1, <2>2
  <2>4. \A k \in DOMAIN ledger' : ledger'[k] = e \/ k \in DOMAIN ledger
    BY <2>3
  <2>5. Len(ledger) + 1 \in DOMAIN ledger' /\ DOMAIN ledger \subseteq DOMAIN ledger'
    BY <2>3
  <2> QED
    BY <2>3, <2>4, <2>5 DEF Budget!Entries
<1>3. IsFiniteSet(Budget!Entries)'
  BY <1>2, FS_AddElement DEF LinesTrue
<1> HIDE DEF e
<1> QED
  BY <1>1, <1>2, <1>3 DEF LinesTrue

\* Every step of the daemon and of an operator keeps the books right.
LEMMA SpendStep ==
  ASSUME SpendInv, Budget!Next \/ UNCHANGED budgetVars PROVE SpendInv'
<1> USE BudgetAssumption DEF SpendInv, Budget!disk
<1>0. BudgetInv'
  BY BudgetStep
<1>1. CASE \/ Budget!TimePasses \/ Budget!Start \/ (\E on \in BOOLEAN : Budget!MailboxPause(on))
           \/ Budget!Reload \/ Budget!PauseDirect \/ Budget!ResumeDirect \/ Budget!Drained
           \/ Budget!Ingested \/ UNCHANGED budgetVars
  <2>1. /\ UNCHANGED <<results, outcomes, started, ledger>>
        /\ \/ UNCHANGED <<now, session, sources, state, cycle, enabled>>
           \/ UNCHANGED <<now, session, state, cycle>> /\ cycle \in {"ingest", "off"}
           \/ cycle = "drain" /\ cycle' = "ingest" /\ outcomes = <<>>
           \/ cycle = "ingest" /\ cycle' = "reconcile"
           \/ cycle = "off" /\ cycle' = "drain"
    BY <1>1 DEF Budget!TimePasses, Budget!Start, Budget!MailboxPause, Budget!Reload, Budget!PauseDirect,
                Budget!ResumeDirect, Budget!Drained, Budget!Ingested, budgetVars
  <2>2. OutcomesApart'
    BY <2>1 DEF OutcomesApart
  <2>3. LinesTrue'
    BY <2>1 DEF LinesTrue, Budget!Entries
  <2>4. JudgedRight'
    BY <2>1 DEF JudgedRight, Afforded, Budget!Window, Budget!Recorded, Budget!Entries
  <2> QED
    BY <1>0, <2>2, <2>3, <2>4
<1>2. CASE Budget!Crash
  <2>1. UNCHANGED <<results, started, ledger>> /\ cycle' = "off" /\ outcomes' = <<>>
    BY <1>2 DEF Budget!Crash
  <2> QED
    BY <1>0, <2>1 DEF OutcomesApart, LinesTrue, JudgedRight, Budget!Entries
<1>3. CASE Budget!Persist
  <2>1. /\ outcomes # <<>> /\ cycle = "drain" /\ cycle' = "record"
        /\ results' = results \cup {outcomes[1]} /\ UNCHANGED <<outcomes, started, ledger>>
    BY <1>3 DEF Budget!Persist, BudgetInv, BudgetTyped
  <2>2. 1 \in 1..Len(outcomes)
    BY <2>1 DEF BudgetInv, BudgetTyped
  <2>3. IsFiniteSet(results \cup {outcomes[1]})
    BY FS_AddElement DEF OutcomesApart
  <2>4. OutcomesApart'
    BY <2>1, <2>2, <2>3 DEF OutcomesApart
  <2>5. LinesTrue'
    BY <2>1 DEF LinesTrue, Budget!Entries
  <2> QED
    BY <1>0, <2>1, <2>4, <2>5 DEF JudgedRight
<1>4. CASE Budget!Record \/ Budget!Reconcile
  <2>1. /\ UNCHANGED <<results, outcomes, started>> /\ cycle \in {"record", "reconcile"}
        /\ cycle' \in {"reconcile", "judge"}
        /\ \/ ledger' = ledger
           \/ \E x \in results : ledger' = Append(ledger, Budget!Entry(x))
    <3>1. CASE Budget!Record
      <4>1. Head(outcomes) \in results
        BY <3>1 DEF Budget!Record, OutcomesApart, BudgetInv, BudgetTyped
      <4> QED
        BY <3>1, <4>1 DEF Budget!Record
    <3>2. CASE Budget!Reconcile
      BY <3>2 DEF Budget!Reconcile, Budget!Missing
    <3> QED
      BY <1>4, <3>1, <3>2
  <2>2. OutcomesApart'
    BY <2>1 DEF OutcomesApart
  <2>3. CASE ledger' = ledger
    BY <1>0, <2>1, <2>2, <2>3 DEF LinesTrue, JudgedRight, Budget!Entries
  <2>4. CASE \E x \in results : ledger' = Append(ledger, Budget!Entry(x))
    BY <1>0, <2>1, <2>2, <2>4, LinesGrow DEF JudgedRight
  <2> QED
    BY <2>1, <2>3, <2>4
<1>5. CASE Budget!Judge
  <2>1. /\ UNCHANGED <<results, outcomes, started, ledger, now, session, enabled>>
        /\ cycle = "judge" /\ cycle' = "apply"
        /\ enabled /\ state'.blockers = {} => Budget!TokenBlockers(now) = {}
    BY <1>5 DEF Budget!Judge
  <2>2. OutcomesApart' /\ LinesTrue'
    BY <2>1 DEF OutcomesApart, LinesTrue, Budget!Entries
  <2>3. ASSUME Budget!TokenBlockers(now) = {} PROVE Afforded
    <3> SUFFICES ASSUME NEW r \in Rules PROVE Budget!Spent(Budget!Window(r, now)) < r.threshold
      BY DEF Afforded
    <3>1. ~(Budget!Spent(Budget!Window(r, now)) >= r.threshold)
      BY <2>3 DEF Budget!TokenBlockers
    <3>2. Budget!Spent(Budget!Window(r, now)) \in Nat
      BY EntriesCounted, SpentOfChosen DEF LinesTrue
    <3> QED
      BY <3>1, <3>2
  <2>4. Afforded => Afforded'
    BY <2>1 DEF Afforded, Budget!Window, Budget!Entries
  <2> QED
    BY <1>0, <2>1, <2>2, <2>3, <2>4 DEF JudgedRight
<1>6. CASE Budget!Apply
  <2>1. /\ UNCHANGED <<results, started, ledger, now, session, enabled, state>>
        /\ cycle = "apply"
        /\ \/ outcomes # <<>> /\ cycle' = "drain" /\ outcomes' = Tail(outcomes)
           \/ outcomes = <<>> /\ cycle' = "dispatch" /\ outcomes' = outcomes
        /\ enabled /\ sources' = {} => state.blockers = {}
    BY <1>6 DEF Budget!Apply
  <2>2. OutcomesApart'
    <3>1. CASE outcomes' = outcomes /\ outcomes = <<>> /\ cycle' = "dispatch"
      BY <2>1, <3>1 DEF OutcomesApart
    <3>2. CASE outcomes # <<>> /\ cycle' = "drain" /\ outcomes' = Tail(outcomes)
      <4>1. /\ Len(outcomes') = Len(outcomes) - 1 /\ Len(outcomes) \in Nat
            /\ \A n \in 1..Len(outcomes') : n + 1 \in 1..Len(outcomes) /\ outcomes'[n] = outcomes[n + 1]
        BY <3>2 DEF BudgetInv, BudgetTyped
      <4>2. \A m, n \in 1..Len(outcomes') : outcomes'[m].key = outcomes'[n].key => m = n
        BY <4>1 DEF OutcomesApart
      <4>3. \A x \in results, n \in 1..Len(outcomes') : x.key # outcomes'[n].key
        BY <4>1 DEF OutcomesApart
      <4> QED
        BY <2>1, <3>2, <4>1, <4>2, <4>3 DEF OutcomesApart
    <3> QED
      BY <2>1, <3>1, <3>2
  <2>3. LinesTrue'
    BY <2>1 DEF LinesTrue, Budget!Entries
  <2>4. Afforded => Afforded'
    BY <2>1 DEF Afforded, Budget!Window, Budget!Entries
  <2>5. enabled => \A x \in results : Budget!Recorded(x)'
    BY <2>1 DEF BudgetInv, CountedOnce, Budget!Recorded, Budget!Entries
  <2> QED
    BY <1>0, <2>1, <2>2, <2>3, <2>4, <2>5 DEF JudgedRight
<1>7. CASE Budget!Dispatch
  <2>1. /\ UNCHANGED <<results, ledger>> /\ cycle = "dispatch" /\ cycle' = "drain" /\ outcomes = <<>>
        /\ \/ outcomes' = <<>> /\ started' = started
           \/ \E c \in Costs : outcomes' = <<Budget!Ran(started + 1, c)>> /\ started' = started + 1
           \/ \E c, d \in Costs :
                 /\ outcomes' = <<Budget!Ran(started + 1, c), Budget!Ran(started + 2, d)>>
                 /\ started' = started + 2
    BY <1>7 DEF Budget!Dispatch, OutcomesApart
  <2>2. started \in Int /\ \A x \in results : x.key \in Int
    BY DEF BudgetInv, BudgetTyped, Ran
  <2>3. OutcomesApart'
    <3>1. CASE outcomes' = <<>> /\ started' = started
      BY <2>1, <3>1 DEF OutcomesApart
    <3>2. ASSUME NEW c \in Costs, outcomes' = <<Budget!Ran(started + 1, c)>>, started' = started + 1
          PROVE  OutcomesApart'
      <4> DEFINE a == Budget!Ran(started + 1, c)
      <4>1. a.key = started + 1 /\ outcomes' = <<a>>
        BY <3>2 DEF Budget!Ran
      <4> HIDE DEF a
      <4>2. Len(outcomes') = 1 /\ outcomes'[1] = a
        BY <4>1
      <4> QED
        BY <2>1, <2>2, <3>2, <4>1, <4>2 DEF OutcomesApart
    <3>3. ASSUME NEW c \in Costs, NEW d \in Costs, started' = started + 2,
                 outcomes' = <<Budget!Ran(started + 1, c), Budget!Ran(started + 2, d)>>
          PROVE  OutcomesApart'
      <4> DEFINE a == Budget!Ran(started + 1, c)
                 b == Budget!Ran(started + 2, d)
      <4>1. a.key = started + 1 /\ b.key = started + 2 /\ outcomes' = <<a, b>>
        BY <3>3 DEF Budget!Ran
      <4> HIDE DEF a, b
      <4>2. Len(outcomes') = 2 /\ outcomes'[1] = a /\ outcomes'[2] = b
        BY <4>1
      <4>3. \A n \in 1..Len(outcomes') : n \in {1, 2} /\ outcomes'[n].key = started + n
        BY <4>1, <4>2
      <4>4. \A n \in {1, 2}, x \in results : x.key # started + n /\ x.key <= started'
        BY <2>2, <3>3 DEF OutcomesApart
      <4> QED
        BY <2>1, <2>2, <3>3, <4>3, <4>4 DEF OutcomesApart
    <3> QED
      BY <2>1, <3>1, <3>2, <3>3
  <2>4. LinesTrue'
    BY <2>1 DEF LinesTrue, Budget!Entries
  <2> QED
    BY <1>0, <2>1, <2>3, <2>4 DEF JudgedRight
<1> QED
  BY <1>1, <1>2, <1>3, <1>4, <1>5, <1>6, <1>7 DEF Budget!Next, Budget!Cycle

\* A window that ends later begins later.
LEMMA WindowsMove ==
  ASSUME NEW t \in Int, NEW u \in Int, t <= u
  PROVE  Budget!WeekStart(t) <= Budget!WeekStart(u) /\ t - Rolling <= u - Rolling
<1> USE BudgetAssumption
<1>1. \A n \in Int : /\ n % Week \in 0..Week - 1 /\ n \div Week \in Int
                     /\ n = Week * (n \div Week) + (n % Week)
  OBVIOUS
<1>2. ASSUME NEW p \in Int, NEW q \in Int, Week * p > Week * q PROVE Week * p >= Week * q + Week
  <2>1. p > q
    BY <1>2
  <2>2. Week * p >= Week * (q + 1)
    BY <2>1
  <2> QED
    BY <2>2
<1> DEFINE p == t \div Week
           q == u \div Week
           P == Week * p
           Q == Week * q
           a == t % Week
           b == u % Week
<1>3. /\ p \in Int /\ q \in Int /\ P \in Int /\ Q \in Int /\ a \in 0..Week - 1 /\ b \in 0..Week - 1
      /\ t = P + a /\ u = Q + b
  BY <1>1
<1>4. P > Q => P >= Q + Week
  <2> HIDE DEF p, q
  <2> QED
    BY <1>2, <1>3
<1>5. Budget!WeekStart(t) = t - a /\ Budget!WeekStart(u) = u - b
  BY DEF Budget!WeekStart
<1> HIDE DEF a, b, P, Q
<1> QED
  BY <1>3, <1>4, <1>5

\* A stage that is started finds every rule that looks at time within its budget.
LEMMA StartedWithin ==
  ASSUME SpendInv, Budget!Next \/ UNCHANGED budgetVars, started' # started, enabled,
         NEW r \in Rules, r.window \in {"rolling_5h", "calendar_week"}
  PROVE  Budget!Spent({x \in results : Budget!InWindow(x, r.window, clock, session)}) < r.threshold
<1> USE BudgetAssumption DEF SpendInv
<1> DEFINE S == {x \in results : Budget!InWindow(x, r.window, clock, session)}
           T == Budget!Window(r, now)
<1>1. Budget!Dispatch /\ cycle = "dispatch" /\ sources = {}
  <2>1. Budget!Dispatch
    BY DEF Budget!Next, Budget!Cycle, Budget!TimePasses, Budget!Start, Budget!Crash, Budget!MailboxPause,
           Budget!Reload, Budget!PauseDirect, Budget!ResumeDirect, Budget!Persist, Budget!Drained,
           Budget!Ingested, Budget!Record, Budget!Reconcile, Budget!Judge, Budget!Apply, budgetVars
  <2> QED
    BY <2>1 DEF Budget!Dispatch
<1>2. Afforded /\ \A x \in results : Budget!Recorded(x)
  BY <1>1 DEF JudgedRight
<1>3. results \subseteq Ran /\ clock \in Int /\ now \in Int /\ now <= clock
  BY DEF BudgetInv, BudgetTyped
<1>4. Counted(S)
  BY <1>3, FS_Subset DEF OutcomesApart, Counted, Ran
<1>5. Counted(T)
  BY EntriesCounted DEF LinesTrue
<1>6. ASSUME NEW x \in S PROVE \E y \in T : y.key = x.key /\ y.tokens = x.tokens
  <2>1. PICK e \in Budget!Entries : e.key = x.key
    BY <1>2 DEF Budget!Recorded
  <2>2. e.at = x.at /\ e.tokens = x.tokens
    BY <2>1 DEF LinesTrue, OutcomesApart
  <2>3. x.at \in Int
    BY <1>3 DEF Ran
  <2>4. Budget!WeekStart(now) <= Budget!WeekStart(clock) /\ now - Rolling <= clock - Rolling
    BY <1>3, WindowsMove
  <2>5. Budget!WeekStart(now) \in Int /\ Budget!WeekStart(clock) \in Int
    BY <1>3 DEF Budget!WeekStart
  <2>6. Budget!InWindow(e, r.window, now, session)
    <3>1. CASE r.window = "rolling_5h"
      BY <1>3, <2>2, <2>3, <2>4, <3>1 DEF Budget!InWindow
    <3>2. CASE r.window = "calendar_week"
      BY <1>3, <2>2, <2>3, <2>4, <2>5, <3>2 DEF Budget!InWindow
    <3> QED
      BY <3>1, <3>2
  <2> QED
    BY <2>1, <2>2, <2>6 DEF Budget!Window
<1>7. \A x, y \in S : x.key = y.key => x = y
  BY DEF OutcomesApart
<1> HIDE DEF S, T
<1>8. Budget!Spent(S) <= Budget!Spent(T)
  BY <1>4, <1>5, <1>6, <1>7, SpentLess
<1> USE DEF T
<1>9. Budget!Spent(T) < r.threshold
  BY <1>2 DEF Afforded
<1>10. Budget!Spent(S) \in Nat /\ Budget!Spent(T) \in Nat /\ r.threshold \in Nat
  BY <1>4, <1>5, SpentOfChosen
<1> HIDE DEF T
<1>11. Budget!Spent(S) < r.threshold
  BY <1>8, <1>9, <1>10
<1> USE DEF S
<1> QED
  BY <1>11

-----------------------------------------------------------------------------
(* The assets                                                               *)

Written == {"v1", "v2", "none"}

Deployments ==
    [at : {"idle", "looking", "missing", "open", "writing"}, v : 0..Versions, next : 1..AssetCount + 1,
     todo : SUBSET Assets!Assets]

\* A deployment is of some package there is, at some asset there is.
AssetsTyped ==
    /\ package \in 1..Versions
    /\ asset \in [Assets!Assets -> Assets!Content]
    /\ deploy \in Deployments /\ upgrade \in Deployments
    /\ deploy.at # "idle" => deploy.v \in 1..package
    /\ deploy.at \in {"missing", "open"} =>
          deploy.next \in Assets!Assets /\ Shipped[deploy.v][deploy.next] # "none"
    /\ upgrade.at # "idle" => upgrade.v \in 1..package
    /\ edits \in 0..MaxEdits /\ crashes \in 0..MaxCrashes
    /\ touched \subseteq Assets!Assets /\ lateI \subseteq Assets!Assets /\ lateU \subseteq Assets!Assets

\* The manifest is of a package that none of the unfinished upgrades is older than.
Recorded ==
    /\ half \subseteq 1..package
    /\ manifest = Assets!NoManifest => half = {} /\ upgrade.at = "idle"
    /\ manifest # Assets!NoManifest =>
          \E m \in 1..package : manifest = Shipped[m] /\ \A h \in half : m <= h

\* Neither deployment is about to write over a file of an operator's, unless it
\* was written after the look.
Cautious ==
    /\ deploy.at = "missing" /\ asset[deploy.next] = "own" => deploy.next \in lateI
    /\ \A a \in upgrade.todo : asset[a] = "own" => a \in lateU

\* How far the deployment is that writes the first manifest: every asset nobody
\* touched is there up to the one it looks at.
Deployed(a) ==
    IF deploy.at # "idle" /\ a < deploy.next /\ Shipped[deploy.v][a] # "none"
    THEN asset[a] = Shipped[deploy.v][a]
    ELSE asset[a] = IF deploy.at = "open" /\ a = deploy.next THEN "torn" ELSE "none"

FirstDeployment == manifest = Assets!NoManifest => \A a \in Assets!Assets \ touched : Deployed(a)

\* An untouched asset holds what the manifest or an unfinished upgrade gives it.
Accounted ==
    manifest # Assets!NoManifest =>
        \A a \in Assets!Entries(manifest) \ touched : Assets!Steady(a) =>
            /\ asset[a] # "none"
            /\ asset[a] = manifest[a] \/ \E h \in half : asset[a] = Shipped[h][a]

\* What an upgrade under way no longer has to write is there.
UpgradeSound ==
    upgrade.at # "idle" =>
        /\ upgrade.at = "writing" /\ upgrade.v \in half
        /\ \A a \in upgrade.todo : Shipped[upgrade.v][a] # "none"
        /\ \A a \in Assets!Assets \ (touched \cup upgrade.todo) :
              Assets!Steady(a) /\ Shipped[upgrade.v][a] # "none" => asset[a] = Shipped[upgrade.v][a]

AssetsInv == AssetsTyped /\ Recorded /\ Cautious /\ FirstDeployment /\ Accounted /\ UpgradeSound

\* What a package ships is neither an operator's nor half a file.
LEMMA ShippedTyped ==
  ASSUME NEW v \in 1..Versions, NEW a \in Assets!Assets
  PROVE  Shipped[v][a] \in Written /\ Shipped[v][a] \in Assets!Content \ {"own", "torn"}
  BY AssetsAssumption DEF Written, Assets!Assets, Assets!Content

\* A process that is not running.
LEMMA IdleTyped ==
  Assets!Idle \in Deployments /\ Assets!Idle.at = "idle" /\ Assets!Idle.todo = {}
  BY AssetsAssumption DEF Assets!Idle, Deployments

\* The first deployment starts from nothing.
LEMMA AssetsStart == ASSUME Assets!Init PROVE AssetsInv
<1> USE AssetsAssumption DEF Assets!Init
<1>1. asset \in [Assets!Assets -> Assets!Content] /\ \A a \in Assets!Assets : asset[a] = "none"
  BY DEF Assets!Content
<1>2. AssetsTyped /\ Recorded /\ Cautious
  BY <1>1, IdleTyped DEF AssetsTyped, Recorded, Cautious
<1>3. FirstDeployment
  BY <1>1, IdleTyped DEF FirstDeployment, Deployed
<1>4. Accounted /\ UpgradeSound
  BY IdleTyped DEF Accounted, UpgradeSound
<1> QED
  BY <1>2, <1>3, <1>4 DEF AssetsInv

\* What the initialization does in a step, in terms of its place.
LEMMA DeployMeans ==
  ASSUME AssetsTyped, \/ Assets!InitStart \/ Assets!InitLooks \/ Assets!InitCreates
                      \/ Assets!InitFills \/ Assets!InitEnds \/ Assets!InitDies
  PROVE  /\ deploy' \in Deployments
         /\ deploy'.at # "idle" => deploy'.v \in 1..package
         /\ deploy'.at \in {"missing", "open"} =>
               deploy'.next \in Assets!Assets /\ Shipped[deploy'.v][deploy'.next] # "none"
         /\ UNCHANGED <<package, upgrade, edits, lateU, half>>
<1> USE AssetsAssumption DEF AssetsTyped, Assets!Assets
<1>1. CASE Assets!InitStart
  <2>1. PICK v \in 1..package : deploy' = [at |-> "looking", v |-> v, next |-> 1, todo |-> {}]
    BY <1>1 DEF Assets!InitStart, Assets!Idle
  <2>2. v \in 0..Versions /\ 1 \in 1..AssetCount + 1
    BY <2>1
  <2>3. deploy' \in Deployments
    BY <2>1, <2>2 DEF Deployments
  <2> QED
    BY <1>1, <2>1, <2>3 DEF Assets!InitStart
<1>2. CASE Assets!InitLooks
  <2>1. /\ deploy.at = "looking" /\ deploy.next <= AssetCount
        /\ UNCHANGED <<package, upgrade, edits, lateU, half>>
    BY <1>2 DEF Assets!InitLooks
  <2>2. deploy.next \in 1..AssetCount
    BY <2>1 DEF Deployments
  <2>3. CASE deploy' = [deploy EXCEPT !.at = "missing"] /\ Shipped[deploy.v][deploy.next] # "none"
    BY <2>1, <2>2, <2>3 DEF Deployments
  <2>4. CASE deploy' = [deploy EXCEPT !.next = deploy.next + 1]
    <3>1. \A p \in Deployments, n \in 1..AssetCount + 1 :
            LET q == [p EXCEPT !.next = n]
            IN  q \in Deployments /\ q.at = p.at /\ q.v = p.v
      BY DEF Deployments
    <3>2. deploy.next + 1 \in 1..AssetCount + 1
      BY <2>2
    <3> QED
      BY <2>1, <2>4, <3>1, <3>2
  <2> QED
    BY <1>2, <2>3, <2>4 DEF Assets!InitLooks
<1>3. CASE Assets!InitCreates
  BY <1>3 DEF Assets!InitCreates, Deployments
<1>4. CASE Assets!InitFills
  <2>1. /\ deploy.at = "open" /\ UNCHANGED <<package, upgrade, edits, lateU, half>>
        /\ deploy' = [deploy EXCEPT !.at = "looking", !.next = deploy.next + 1]
    BY <1>4 DEF Assets!InitFills
  <2>2. \A p \in Deployments, n \in 1..AssetCount + 1 :
          LET q == [p EXCEPT !.at = "looking", !.next = n]
          IN  q \in Deployments /\ q.at = "looking" /\ q.v = p.v
    BY DEF Deployments
  <2>3. deploy.next + 1 \in 1..AssetCount + 1
    BY <2>1
  <2> QED
    BY <2>1, <2>2, <2>3
<1>5. CASE Assets!InitEnds \/ Assets!InitDies
  BY <1>5, IdleTyped DEF Assets!InitEnds, Assets!InitDies
<1> QED
  BY <1>1, <1>2, <1>3, <1>4, <1>5

\* A preview that ends without a conflict: what it leaves out and what it takes.
LEMMA PreviewMeans ==
  ASSUME AssetsInv, manifest # Assets!NoManifest, NEW a \in Assets!Named(manifest, package), NEW l,
         Assets!Disposition(a, manifest, package, l) # "conflict"
  PROVE  LET taken == Assets!Disposition(a, manifest, package, l) \in {"safe_package_update", "missing"}
         IN  /\ taken => asset[a] # "own" /\ Shipped[package][a] # "none"
             /\ ~taken /\ a \notin touched /\ Assets!Steady(a) /\ Shipped[package][a] # "none" =>
                   asset[a] = Shipped[package][a]
<1> USE AssetsAssumption DEF AssetsInv, AssetsTyped
<1>1. PICK m \in 1..package : manifest = Shipped[m] /\ \A h \in half : m <= h
  BY DEF Recorded
<1>2. a \in Assets!Assets /\ m \in 1..Versions /\ (manifest[a] # "none" \/ Shipped[package][a] # "none")
  BY <1>1 DEF Assets!Named, Assets!Entries, Assets!BaselineManifest
<1>3. manifest[a] \notin {"own", "torn"}
  BY <1>1, <1>2, ShippedTyped
<1>4. CASE manifest[a] = "none"
  BY <1>2, <1>4 DEF Assets!Disposition
<1>5. CASE manifest[a] # "none" /\ Shipped[package][a] = "none"
  BY <1>5 DEF Assets!Disposition
<1>6. CASE manifest[a] # "none" /\ Shipped[package][a] # "none"
  <2>1. CASE asset[a] = "none"
    <3>1. Assets!Disposition(a, manifest, package, l) = "missing"
      BY <1>6, <2>1 DEF Assets!Disposition
    <3> QED
      BY <1>6, <2>1, <3>1
  <2>2. CASE asset[a] = manifest[a] /\ asset[a] # "none"
    BY <1>3, <1>6, <2>2 DEF Assets!Disposition
  <2>3. CASE asset[a] # manifest[a] /\ asset[a] # "none" /\ Shipped[package][a] # manifest[a]
    BY <1>6, <2>3 DEF Assets!Disposition
  <2>4. CASE asset[a] # manifest[a] /\ asset[a] # "none" /\ Shipped[package][a] = manifest[a]
    <3>1. Assets!Disposition(a, manifest, package, l) = "local_only_modification"
      BY <1>6, <2>4 DEF Assets!Disposition
    <3>2. SUFFICES ASSUME a \notin touched, Assets!Steady(a) PROVE FALSE
      BY <3>1
    <3>3. a \in Assets!Entries(manifest) \ touched
      BY <1>2, <1>6, <3>2 DEF Assets!Entries
    <3>4. PICK h \in half : asset[a] = Shipped[h][a]
      BY <2>4, <3>2, <3>3 DEF Accounted
    <3>5. h \in 1..package /\ m <= h /\ h \in 1..Versions /\ package \in 1..Versions
      BY <1>1 DEF Recorded
    <3>6. CASE m = h \/ h = package
      BY <1>1, <2>4, <3>4, <3>6
    <3>7. CASE m # h /\ h # package
      <4>1. m < h /\ h < package
        BY <3>5, <3>7
      <4>2. Shipped[h][a] = Shipped[m][a]
        BY <1>1, <1>2, <2>4, <3>2, <3>5, <4>1 DEF Assets!Steady
      <4> QED
        BY <1>1, <2>4, <3>4, <4>2
    <3> QED
      BY <3>6, <3>7
  <2> QED
    BY <2>1, <2>2, <2>3, <2>4
<1> QED
  BY <1>4, <1>5, <1>6

\* A deployment has always some package and some asset.
LEMMA TypedKeeps ==
  ASSUME AssetsInv, Assets!Next \/ UNCHANGED assetVars
  PROVE  AssetsTyped'
<1> USE AssetsAssumption DEF AssetsInv, AssetsTyped
<1>1. CASE \/ Assets!InitStart \/ Assets!InitLooks \/ Assets!InitCreates
           \/ Assets!InitFills \/ Assets!InitEnds \/ Assets!InitDies
  <2>1. /\ deploy' \in Deployments
        /\ deploy'.at # "idle" => deploy'.v \in 1..package
        /\ deploy'.at \in {"missing", "open"} =>
              deploy'.next \in Assets!Assets /\ Shipped[deploy'.v][deploy'.next] # "none"
        /\ UNCHANGED <<package, upgrade, edits, lateU, half>>
    BY <1>1, DeployMeans
  <2>2. /\ crashes' \in 0..MaxCrashes
        /\ touched' \subseteq Assets!Assets /\ lateI' \subseteq Assets!Assets
    <3>1. CASE Assets!InitDies
      BY <3>1 DEF Assets!InitDies
    <3>2. CASE Assets!InitLooks
      BY <3>2 DEF Assets!InitLooks
    <3>3. CASE Assets!InitCreates
      <4>1. touched' \subseteq touched \cup {deploy.next} /\ UNCHANGED <<crashes, lateI>>
        BY <3>3 DEF Assets!InitCreates
      <4>2. deploy.next \in Assets!Assets
        BY <3>3 DEF Assets!InitCreates
      <4> QED
        BY <4>1, <4>2
    <3> QED
      BY <1>1, <3>1, <3>2, <3>3 DEF Assets!InitStart, Assets!InitFills, Assets!InitEnds
  <2>3. asset' \in [Assets!Assets -> Assets!Content]
    <3>1. CASE Assets!InitFills
      <4>1. deploy.v \in 1..Versions /\ deploy.next \in Assets!Assets
        BY <3>1 DEF Assets!InitFills
      <4>2. Shipped[deploy.v][deploy.next] \in Assets!Content
        BY <4>1, ShippedTyped
      <4> QED
        BY <3>1, <4>1, <4>2 DEF Assets!InitFills
    <3>2. CASE Assets!InitCreates
      BY <3>2 DEF Assets!InitCreates, Assets!Content
    <3> QED
      BY <1>1, <3>1, <3>2 DEF Assets!InitStart, Assets!InitLooks, Assets!InitEnds, Assets!InitDies
  <2> QED
    BY <2>1, <2>2, <2>3
<1>2. ASSUME NEW a \in Assets!Assets, Assets!Edit(a) PROVE AssetsTyped'
  <2>1. PICK c \in Assets!Content : asset' = [asset EXCEPT ![a] = c]
    BY <1>2 DEF Assets!Edit, Assets!Content
  <2> QED
    BY <1>2, <2>1 DEF Assets!Edit
<1>3. CASE Assets!NewPackage
  BY <1>3 DEF Assets!NewPackage
<1>4. CASE Assets!UpgradePreview
  <2>1. PICK t \in SUBSET Assets!Assets :
          upgrade' = [at |-> "writing", v |-> package, next |-> 1, todo |-> t]
    BY <1>4 DEF Assets!UpgradePreview, Assets!Idle, Assets!Named, Assets!Entries
  <2>2. package \in 0..Versions /\ 1 \in 1..AssetCount + 1 /\ package \in 1..package
    OBVIOUS
  <2>3. upgrade' \in Deployments /\ upgrade'.v \in 1..package
    BY <2>1, <2>2 DEF Deployments
  <2>4. UNCHANGED <<package, asset, deploy, edits, crashes, touched, lateI>> /\ lateU' = {}
    BY <1>4 DEF Assets!UpgradePreview
  <2> QED
    BY <2>3, <2>4
<1>5. CASE Assets!UpgradeWrites
  <2>1. PICK a \in upgrade.todo : /\ asset' = [asset EXCEPT ![a] = Shipped[upgrade.v][a]]
                                  /\ upgrade' = [upgrade EXCEPT !.todo = upgrade.todo \ {a}]
    BY <1>5 DEF Assets!UpgradeWrites, Assets!WrittenAtomically
  <2>2. a \in Assets!Assets /\ upgrade.v \in 1..Versions
    BY <1>5 DEF Assets!UpgradeWrites, Deployments
  <2>3. asset' \in [Assets!Assets -> Assets!Content]
    BY <2>1, <2>2, ShippedTyped
  <2>4. upgrade' \in Deployments /\ upgrade'.v = upgrade.v /\ upgrade'.at = upgrade.at
    BY <2>1 DEF Deployments
  <2> QED
    BY <1>5, <2>3, <2>4 DEF Assets!UpgradeWrites
<1>6. CASE Assets!UpgradeRecords \/ Assets!UpgradeDies
  BY <1>6, IdleTyped DEF Assets!UpgradeRecords, Assets!UpgradeDies
<1>7. CASE UNCHANGED assetVars
  BY <1>7 DEF assetVars
<1> QED
  BY <1>1, <1>2, <1>3, <1>4, <1>5, <1>6, <1>7 DEF Assets!Next

\* An upgrade records its own package, and no younger one is unfinished then.
LEMMA RecordedKeeps ==
  ASSUME AssetsInv, Assets!Next \/ UNCHANGED assetVars
  PROVE  Recorded'
<1> USE AssetsAssumption DEF AssetsInv, AssetsTyped, Recorded
<1>1. CASE \/ Assets!InitStart \/ Assets!InitLooks \/ Assets!InitCreates \/ Assets!InitFills
           \/ Assets!InitDies \/ (\E a \in Assets!Assets : Assets!Edit(a)) \/ UNCHANGED assetVars
  <2>1. UNCHANGED <<package, manifest, half, upgrade>>
    BY <1>1 DEF assetVars, Assets!InitStart, Assets!InitLooks, Assets!InitCreates, Assets!InitFills,
                Assets!InitDies, Assets!Edit
  <2> QED
    BY <2>1
<1>2. CASE Assets!InitEnds
  <2>1. UNCHANGED <<package, half, upgrade>> /\ deploy.v \in 1..package
    BY <1>2 DEF Assets!InitEnds
  <2>2. CASE manifest = Assets!NoManifest
    <3>1. manifest' = Shipped[deploy.v]
      BY <1>2, <2>2 DEF Assets!InitEnds, Assets!BaselineManifest
    <3> QED
      BY <2>1, <2>2, <3>1
  <2>3. CASE manifest # Assets!NoManifest
    BY <1>2, <2>1, <2>3 DEF Assets!InitEnds
  <2> QED
    BY <2>2, <2>3
<1>3. CASE Assets!NewPackage
  <2>1. /\ package' = package + 1 /\ 1..package \subseteq 1..package'
        /\ UNCHANGED <<manifest, half, upgrade>>
    BY <1>3 DEF Assets!NewPackage
  <2> QED
    BY <2>1
<1>4. CASE Assets!UpgradePreview
  <2>1. manifest # Assets!NoManifest /\ half' = half \cup {package} /\ UNCHANGED <<package, manifest>>
    BY <1>4 DEF Assets!UpgradePreview
  <2> QED
    BY <2>1
<1>5. CASE Assets!UpgradeWrites \/ Assets!UpgradeDies
  <2>1. UNCHANGED <<package, manifest, half>> /\ (upgrade.at = "idle" => upgrade'.at = "idle")
    BY <1>5 DEF Assets!UpgradeWrites, Assets!UpgradeDies
  <2> QED
    BY <2>1
<1>6. CASE Assets!UpgradeRecords
  <2>1. /\ manifest' = Shipped[upgrade.v] /\ half' = {} /\ package' = package
        /\ upgrade.v \in 1..package /\ upgrade'.at = "idle"
    BY <1>6, IdleTyped DEF Assets!UpgradeRecords, Assets!BaselineManifest
  <2> QED
    BY <2>1
<1> QED
  BY <1>1, <1>2, <1>3, <1>4, <1>5, <1>6 DEF Assets!Next

\* A step that replaces a file of an operator's is the operator's own, or was
\* taken over an edit that came after the look.
LEMMA EditKept ==
  ASSUME AssetsInv, Assets!Next \/ UNCHANGED assetVars, NEW a \in Assets!Assets,
         asset[a] = "own", asset'[a] # "own"
  PROVE  \/ edits' = edits + 1
         \/ deploy' # deploy /\ a \in lateI
         \/ upgrade' # upgrade /\ a \in lateU
<1> USE DEF AssetsInv, AssetsTyped
<1>1. CASE \E b \in Assets!Assets : Assets!Edit(b)
  BY <1>1 DEF Assets!Edit
<1>2. CASE Assets!InitCreates
  <2>1. deploy' = [deploy EXCEPT !.at = "open"] /\ deploy.at = "missing"
    BY <1>2 DEF Assets!InitCreates
  <2>2. deploy' # deploy
    BY <2>1 DEF Deployments
  <2>3. a = deploy.next
    BY <1>2 DEF Assets!InitCreates
  <2> QED
    BY <2>1, <2>2, <2>3 DEF Cautious
<1>3. CASE Assets!InitFills
  BY <1>3 DEF Assets!InitFills
<1>4. CASE Assets!UpgradeWrites
  <2>1. PICK b \in upgrade.todo : /\ asset' = [asset EXCEPT ![b] = Shipped[upgrade.v][b]]
                                  /\ upgrade' = [upgrade EXCEPT !.todo = upgrade.todo \ {b}]
    BY <1>4 DEF Assets!UpgradeWrites, Assets!WrittenAtomically
  <2>2. b = a
    BY <2>1
  <2>3. upgrade' # upgrade
    BY <2>1 DEF Deployments
  <2> QED
    BY <2>2, <2>3 DEF Cautious
<1>5. CASE ~(\E b \in Assets!Assets : Assets!Edit(b)) /\ ~Assets!InitCreates /\ ~Assets!InitFills
           /\ ~Assets!UpgradeWrites
  <2>1. UNCHANGED asset
    BY <1>5 DEF Assets!Next, Assets!NewPackage, Assets!InitStart, Assets!InitLooks, Assets!InitEnds,
                Assets!UpgradePreview, Assets!UpgradeRecords, Assets!InitDies, Assets!UpgradeDies,
                assetVars
  <2> QED
    BY <2>1
<1> QED
  BY <1>1, <1>2, <1>3, <1>4, <1>5

\* Who changes an asset that still counts as untouched afterwards.
LEMMA UntouchedMeans ==
  ASSUME AssetsInv, Assets!Next \/ UNCHANGED assetVars, NEW a \in Assets!Assets \ touched'
  PROVE  /\ a \notin touched
         /\ \/ asset'[a] = asset[a]
            \/ Assets!InitCreates /\ a = deploy.next /\ asset[a] = "none" /\ asset'[a] = "torn"
            \/ /\ Assets!InitFills /\ a = deploy.next
               /\ asset[a] = "torn" /\ asset'[a] = Shipped[deploy.v][a]
            \/ /\ Assets!UpgradeWrites /\ a \in upgrade.todo /\ a \notin upgrade'.todo
               /\ asset'[a] = Shipped[upgrade.v][a]
<1> USE DEF AssetsInv, AssetsTyped
<1>1. CASE \E b \in Assets!Assets : Assets!Edit(b)
  <2>1. PICK b \in Assets!Assets : Assets!Edit(b)
    BY <1>1
  <2>2. touched' = touched \cup {b} /\ \E c \in Assets!Content : asset' = [asset EXCEPT ![b] = c]
    BY <2>1 DEF Assets!Edit, Assets!Content
  <2> QED
    BY <2>2
<1>2. CASE Assets!InitCreates
  BY <1>2 DEF Assets!InitCreates
<1>3. CASE Assets!InitFills
  BY <1>3 DEF Assets!InitFills
<1>4. CASE Assets!UpgradeWrites
  <2>1. PICK b \in upgrade.todo : /\ asset' = [asset EXCEPT ![b] = Shipped[upgrade.v][b]]
                                  /\ upgrade' = [upgrade EXCEPT !.todo = upgrade.todo \ {b}]
    BY <1>4 DEF Assets!UpgradeWrites, Assets!WrittenAtomically
  <2>2. touched' = touched /\ upgrade'.todo = upgrade.todo \ {b}
    BY <1>4, <2>1 DEF Assets!UpgradeWrites, Deployments
  <2>3. CASE a = b
    BY <1>4, <2>1, <2>2, <2>3 DEF Deployments
  <2>4. CASE a # b
    BY <2>1, <2>2, <2>4
  <2> QED
    BY <2>3, <2>4
<1>5. CASE ~(\E b \in Assets!Assets : Assets!Edit(b)) /\ ~Assets!InitCreates /\ ~Assets!InitFills
           /\ ~Assets!UpgradeWrites
  <2>1. UNCHANGED asset /\ touched \subseteq touched'
    BY <1>5 DEF Assets!Next, Assets!NewPackage, Assets!InitStart, Assets!InitLooks, Assets!InitEnds,
                Assets!UpgradePreview, Assets!UpgradeRecords, Assets!InitDies, Assets!UpgradeDies,
                assetVars
  <2> QED
    BY <2>1
<1> QED
  BY <1>1, <1>2, <1>3, <1>4, <1>5

\* No step lets a deployment forget what it must spare.
LEMMA CautiousKeeps ==
  ASSUME AssetsInv, Assets!Next \/ UNCHANGED assetVars
  PROVE  Cautious'
<1> USE AssetsAssumption DEF AssetsInv, AssetsTyped
<1>1. upgrade.todo \subseteq Assets!Assets
  BY DEF Deployments
<1>2. ASSUME NEW a \in Assets!Assets, Assets!Edit(a) PROVE Cautious'
  <2>1. /\ \A b \in Assets!Assets : b # a => asset'[b] = asset[b]
        /\ UNCHANGED <<deploy, upgrade>> /\ lateI' = lateI \cup {a} /\ lateU' = lateU \cup {a}
    BY <1>2 DEF Assets!Edit
  <2> QED
    BY <1>1, <2>1 DEF Cautious
<1>3. CASE Assets!InitLooks
  <2>1. UNCHANGED <<asset, upgrade, lateU>>
    BY <1>3 DEF Assets!InitLooks
  <2>2. deploy'.at = "missing" => asset[deploy'.next] = "none"
    BY <1>3 DEF Assets!InitLooks, Deployments
  <2> QED
    BY <2>1, <2>2 DEF Cautious
<1>4. CASE Assets!UpgradePreview
  <2>1. PICK l \in Assets!Localizable(manifest, package) :
          /\ \A a \in Assets!Named(manifest, package) :
                Assets!Disposition(a, manifest, package, l) # "conflict"
          /\ upgrade'.todo = {a \in Assets!Named(manifest, package) :
                Assets!Disposition(a, manifest, package, l) \in {"safe_package_update", "missing"}}
    BY <1>4 DEF Assets!UpgradePreview, Assets!Idle
  <2>2. manifest # Assets!NoManifest /\ UNCHANGED <<asset, deploy, lateI>>
    BY <1>4 DEF Assets!UpgradePreview
  <2>3. \A a \in upgrade'.todo : asset[a] # "own"
    BY <2>1, <2>2, PreviewMeans
  <2> QED
    BY <2>2, <2>3 DEF Cautious
<1>5. CASE Assets!UpgradeWrites
  <2>1. PICK a \in upgrade.todo : /\ asset' = [asset EXCEPT ![a] = Shipped[upgrade.v][a]]
                                  /\ upgrade' = [upgrade EXCEPT !.todo = upgrade.todo \ {a}]
    BY <1>5 DEF Assets!UpgradeWrites, Assets!WrittenAtomically
  <2>2. Shipped[upgrade.v][a] # "own" /\ upgrade'.todo \subseteq upgrade.todo
    BY <1>1, <1>5, <2>1, ShippedTyped DEF Assets!UpgradeWrites, Deployments
  <2>3. \A b \in Assets!Assets : asset'[b] = "own" => asset[b] = "own"
    BY <2>1, <2>2
  <2>4. UNCHANGED <<deploy, lateI, lateU>>
    BY <1>5 DEF Assets!UpgradeWrites
  <2> QED
    BY <1>1, <2>2, <2>3, <2>4 DEF Cautious
<1>6. CASE \/ Assets!InitStart \/ Assets!InitCreates \/ Assets!InitFills \/ Assets!InitEnds
           \/ Assets!InitDies
  <2>1. /\ deploy'.at # "missing" /\ UNCHANGED <<upgrade, lateU>>
        /\ \A a \in Assets!Assets : asset'[a] = "own" => asset[a] = "own"
    <3>1. CASE Assets!InitStart \/ Assets!InitEnds \/ Assets!InitDies
      BY <3>1, IdleTyped DEF Assets!InitStart, Assets!InitEnds, Assets!InitDies, Deployments
    <3>2. CASE Assets!InitCreates
      BY <3>2 DEF Assets!InitCreates, Deployments
    <3>3. CASE Assets!InitFills
      <4>1. Shipped[deploy.v][deploy.next] # "own"
        BY <3>3, ShippedTyped DEF Assets!InitFills
      <4>2. asset' = [asset EXCEPT ![deploy.next] =
                        IF asset[deploy.next] = "torn"
                        THEN Shipped[deploy.v][deploy.next] ELSE asset[deploy.next]]
        BY <3>3 DEF Assets!InitFills
      <4>3. deploy'.at = "looking" /\ UNCHANGED <<upgrade, lateU>>
        BY <3>3 DEF Assets!InitFills, Deployments
      <4> QED
        BY <4>1, <4>2, <4>3
    <3> QED
      BY <1>6, <3>1, <3>2, <3>3
  <2> QED
    BY <1>1, <2>1 DEF Cautious
<1>7. CASE Assets!NewPackage \/ Assets!UpgradeRecords \/ Assets!UpgradeDies \/ UNCHANGED assetVars
  BY <1>7, IdleTyped DEF Cautious, Assets!NewPackage, Assets!UpgradeRecords, Assets!UpgradeDies, assetVars
<1> QED
  BY <1>2, <1>3, <1>4, <1>5, <1>6, <1>7 DEF Assets!Next

\* A package that ships anything has a manifest.
LEMMA ManifestOfPackage ==
  ASSUME NEW v \in 1..Versions, NEW a \in Assets!Assets
  PROVE  Shipped[v] # Assets!NoManifest
<1>1. Shipped[v] \in [1..AssetCount -> Written] /\ 1 \in 1..AssetCount
  BY AssetsAssumption DEF Assets!Assets, Written
<1>2. DOMAIN Shipped[v] = 1..AssetCount
  BY <1>1
<1>3. DOMAIN Assets!NoManifest = {}
  BY DEF Assets!NoManifest
<1> QED
  BY <1>1, <1>2, <1>3

\* Until there is a manifest, assets are there up to where the deployment is.
LEMMA FirstKeeps ==
  ASSUME AssetsInv, Assets!Next \/ UNCHANGED assetVars
  PROVE  FirstDeployment'
<1> USE AssetsAssumption DEF AssetsInv, AssetsTyped
<1> SUFFICES ASSUME manifest' = Assets!NoManifest, NEW a \in Assets!Assets \ touched'
             PROVE  Deployed(a)'
  BY DEF FirstDeployment, Assets!NoManifest, Assets!Assets
<1>1. a \notin touched /\ a \in 1..AssetCount
  BY UntouchedMeans DEF Assets!Assets
<1>2. ~Assets!UpgradeRecords
  BY <1>1, ManifestOfPackage DEF Assets!UpgradeRecords, Assets!BaselineManifest
<1>3. manifest = Assets!NoManifest /\ upgrade.at = "idle"
  BY <1>2 DEF Recorded, Assets!Next, Assets!NewPackage, Assets!Edit, Assets!InitStart, Assets!InitLooks,
              Assets!InitCreates, Assets!InitFills, Assets!InitEnds, Assets!UpgradePreview,
              Assets!UpgradeWrites, Assets!InitDies, Assets!UpgradeDies, assetVars
<1>4. Deployed(a)
  BY <1>1, <1>3 DEF FirstDeployment
<1>5. ~Assets!UpgradePreview /\ ~Assets!UpgradeWrites /\ ~Assets!UpgradeDies
  BY <1>3 DEF Assets!UpgradePreview, Assets!UpgradeWrites, Assets!UpgradeDies
<1>6. CASE Assets!InitStart
  <2>1. deploy.at = "idle" /\ deploy'.at = "looking" /\ deploy'.next = 1 /\ UNCHANGED asset
    BY <1>6 DEF Assets!InitStart, Assets!Idle
  <2> QED
    BY <1>1, <1>4, <2>1 DEF Deployed
<1>7. CASE Assets!InitLooks
  <2>1. /\ deploy.at = "looking" /\ deploy'.at \notin {"open", "idle"} /\ deploy'.v = deploy.v
        /\ UNCHANGED asset
    BY <1>7 DEF Assets!InitLooks, Deployments
  <2>2. CASE deploy'.next = deploy.next
    BY <1>4, <2>1, <2>2 DEF Deployed
  <2>3. CASE deploy'.next # deploy.next
    <3>1. /\ deploy'.next = deploy.next + 1
          /\ Shipped[deploy.v][deploy.next] = "none" \/ asset[deploy.next] # "none"
      BY <1>7, <2>3 DEF Assets!InitLooks, Deployments
    <3>2. deploy.next \in Int
      BY DEF Deployments
    <3>3. CASE a = deploy.next
      BY <1>1, <1>4, <2>1, <3>1, <3>2, <3>3 DEF Deployed
    <3>4. CASE a # deploy.next
      <4>1. a < deploy.next <=> a < deploy'.next
        BY <1>1, <3>1, <3>2, <3>4
      <4> QED
        BY <1>4, <2>1, <4>1 DEF Deployed
    <3> QED
      BY <3>3, <3>4
  <2> QED
    BY <2>2, <2>3
<1>8. CASE Assets!InitCreates
  <2>1. deploy.at = "missing" /\ deploy'.at = "open" /\ deploy'.v = deploy.v /\ deploy'.next = deploy.next
    BY <1>8 DEF Assets!InitCreates, Deployments
  <2>2. asset'[a] = IF a = deploy.next THEN "torn" ELSE asset[a]
    BY <1>8 DEF Assets!InitCreates
  <2>3. deploy.next \in Int
    BY DEF Deployments
  <2> QED
    BY <1>1, <1>4, <2>1, <2>2, <2>3 DEF Deployed
<1>9. CASE Assets!InitFills
  <2>1. /\ deploy.at = "open" /\ deploy'.at = "looking"
        /\ deploy'.v = deploy.v /\ deploy'.next = deploy.next + 1
    <3>1. deploy.at = "open" /\ deploy' = [deploy EXCEPT !.at = "looking", !.next = deploy.next + 1]
      BY <1>9 DEF Assets!InitFills
    <3>2. \A p \in Deployments, n \in Int :
            LET q == [p EXCEPT !.at = "looking", !.next = n]
            IN  q.at = "looking" /\ q.v = p.v /\ q.next = n
      BY DEF Deployments
    <3>3. deploy.next + 1 \in Int
      BY DEF Deployments
    <3> QED
      BY <3>1, <3>2, <3>3
  <2>2. deploy.next \in 1..AssetCount /\ Shipped[deploy.v][deploy.next] # "none"
    BY <2>1 DEF Assets!Assets
  <2>3. CASE a = deploy.next
    <3>1. asset[a] = "torn"
      BY <1>4, <2>1, <2>2, <2>3 DEF Deployed
    <3>2. asset'[a] = Shipped[deploy.v][a]
      BY <1>9, <2>3, <3>1 DEF Assets!InitFills
    <3> QED
      BY <1>1, <2>1, <2>2, <2>3, <3>2 DEF Deployed
  <2>4. CASE a # deploy.next
    <3>1. asset'[a] = asset[a] /\ (a < deploy.next <=> a < deploy'.next)
      BY <1>1, <1>9, <2>1, <2>2, <2>4 DEF Assets!InitFills
    <3> QED
      BY <1>4, <2>1, <2>4, <3>1 DEF Deployed
  <2> QED
    BY <2>3, <2>4
<1>10. CASE Assets!InitEnds
  <2>1. deploy.v \in 1..Versions /\ manifest' = Shipped[deploy.v]
    BY <1>3, <1>10 DEF Assets!InitEnds, Assets!BaselineManifest
  <2> QED
    BY <1>1, <2>1, ManifestOfPackage
<1>11. CASE Assets!InitDies
  <2>1. asset'[a] = "none" /\ deploy'.at = "idle"
    BY <1>3, <1>11, IdleTyped DEF Assets!InitDies
  <2> QED
    BY <2>1 DEF Deployed
<1>12. CASE Assets!NewPackage \/ (\E b \in Assets!Assets : Assets!Edit(b)) \/ UNCHANGED assetVars
  <2>1. deploy' = deploy /\ asset'[a] = asset[a]
    BY <1>12, UntouchedMeans DEF Assets!NewPackage, Assets!Edit, Assets!InitCreates, Assets!InitFills,
                                 Assets!UpgradeWrites, assetVars
  <2> QED
    BY <1>4, <2>1 DEF Deployed
<1> QED
  BY <1>2, <1>5, <1>6, <1>7, <1>8, <1>9, <1>10, <1>11, <1>12 DEF Assets!Next

\* What the manifest says of an untouched asset stays true: an upgrade takes its
\* package into account before it writes, and records what is there.
LEMMA AccountedKeeps ==
  ASSUME AssetsInv, Assets!Next \/ UNCHANGED assetVars
  PROVE  Accounted'
<1> USE AssetsAssumption DEF AssetsInv, AssetsTyped
<1> SUFFICES ASSUME manifest' # Assets!NoManifest, NEW a \in Assets!Assets, manifest'[a] # "none",
                    a \notin touched', Assets!Steady(a)
             PROVE  /\ asset'[a] # "none"
                    /\ asset'[a] = manifest'[a] \/ \E h \in half' : asset'[a] = Shipped[h][a]
  BY DEF Accounted, Assets!NoManifest, Assets!Entries, Assets!Assets, Assets!Steady
<1>1. a \notin touched /\ a \in 1..AssetCount
  BY UntouchedMeans DEF Assets!Assets
<1>2. CASE manifest = Assets!NoManifest
  <2>1. Assets!InitEnds
    BY <1>2 DEF Recorded, Assets!Next, Assets!NewPackage, Assets!Edit, Assets!InitStart, Assets!InitLooks,
                Assets!InitCreates, Assets!InitFills, Assets!UpgradePreview, Assets!UpgradeWrites,
                Assets!UpgradeRecords, Assets!InitDies, Assets!UpgradeDies, assetVars
  <2>2. /\ manifest' = Shipped[deploy.v] /\ asset' = asset
        /\ deploy.at = "looking" /\ deploy.next > AssetCount
    BY <1>2, <2>1 DEF Assets!InitEnds, Assets!BaselineManifest
  <2>3. a < deploy.next /\ Deployed(a)
    BY <1>1, <1>2, <2>2 DEF FirstDeployment, Deployments
  <2> QED
    BY <2>2, <2>3 DEF Deployed
<1>3. CASE Assets!UpgradeRecords
  <2>1. /\ manifest' = Shipped[upgrade.v] /\ asset' = asset
        /\ upgrade.at = "writing" /\ upgrade.todo = {}
    BY <1>3 DEF Assets!UpgradeRecords, Assets!BaselineManifest
  <2> QED
    BY <1>1, <2>1 DEF UpgradeSound
<1>4. CASE manifest # Assets!NoManifest /\ ~Assets!UpgradeRecords
  <2>1. manifest' = manifest /\ half \subseteq half'
    BY <1>4 DEF Assets!Next, Assets!NewPackage, Assets!Edit, Assets!InitStart, Assets!InitLooks,
                Assets!InitCreates, Assets!InitFills, Assets!InitEnds, Assets!UpgradePreview,
                Assets!UpgradeWrites, Assets!InitDies, Assets!UpgradeDies, assetVars
  <2>2. /\ asset[a] # "none"
        /\ asset[a] = manifest[a] \/ \E h \in half : asset[a] = Shipped[h][a]
    BY <1>1, <1>4, <2>1 DEF Accounted, Assets!Entries
  <2>3. asset[a] # "torn"
    <3>1. PICK m \in 1..Versions : manifest = Shipped[m]
      BY <1>4 DEF Recorded
    <3>2. half \subseteq 1..Versions
      BY DEF Recorded
    <3> QED
      BY <2>2, <3>1, <3>2, ShippedTyped
  <2>4. CASE asset'[a] = asset[a]
    BY <2>1, <2>2, <2>4
  <2>5. CASE Assets!UpgradeWrites /\ a \in upgrade.todo /\ asset'[a] = Shipped[upgrade.v][a]
    <3>1. upgrade.v \in half /\ Shipped[upgrade.v][a] # "none"
      BY <2>5 DEF UpgradeSound, Assets!UpgradeWrites
    <3> QED
      BY <2>1, <2>5, <3>1
  <2> QED
    BY <2>2, <2>3, <2>4, <2>5, UntouchedMeans
<1> QED
  BY <1>2, <1>3, <1>4

\* What an upgrade has left out or written is there until it records it.
LEMMA SoundKeeps ==
  ASSUME AssetsInv, Assets!Next \/ UNCHANGED assetVars
  PROVE  UpgradeSound'
<1> USE AssetsAssumption DEF AssetsInv, AssetsTyped
<1>1. CASE Assets!UpgradePreview
  <2>1. PICK l \in Assets!Localizable(manifest, package) :
          /\ \A a \in Assets!Named(manifest, package) :
                Assets!Disposition(a, manifest, package, l) # "conflict"
          /\ upgrade' = [at |-> "writing", v |-> package, next |-> 1,
                         todo |-> {a \in Assets!Named(manifest, package) :
                           Assets!Disposition(a, manifest, package, l) \in {"safe_package_update", "missing"}}]
    BY <1>1 DEF Assets!UpgradePreview, Assets!Idle
  <2>2. manifest # Assets!NoManifest /\ half' = half \cup {package} /\ UNCHANGED <<asset, touched>>
    BY <1>1 DEF Assets!UpgradePreview
  <2>3. \A a \in upgrade'.todo : Shipped[package][a] # "none"
    BY <2>1, <2>2, PreviewMeans
  <2>4. ASSUME NEW a \in Assets!Assets, a \notin touched, a \notin upgrade'.todo, Assets!Steady(a),
               Shipped[package][a] # "none"
        PROVE  asset[a] = Shipped[package][a]
    <3>1. a \in Assets!Named(manifest, package)
      BY <2>4 DEF Assets!Named, Assets!Entries, Assets!BaselineManifest
    <3> QED
      BY <2>1, <2>2, <2>4, <3>1, PreviewMeans
  <2>5. upgrade'.at = "writing" /\ upgrade'.v = package
    BY <2>1
  <2> QED
    BY <2>2, <2>3, <2>4, <2>5 DEF UpgradeSound, Assets!Steady
<1>2. CASE Assets!UpgradeRecords \/ Assets!UpgradeDies
  BY <1>2, IdleTyped DEF UpgradeSound, Assets!UpgradeRecords, Assets!UpgradeDies
<1>3. CASE ~Assets!UpgradePreview /\ ~Assets!UpgradeRecords /\ ~Assets!UpgradeDies
  <2>1. half' = half /\ (upgrade' = upgrade \/ Assets!UpgradeWrites)
    BY <1>3 DEF Assets!Next, Assets!NewPackage, Assets!Edit, Assets!InitStart, Assets!InitLooks,
                Assets!InitCreates, Assets!InitFills, Assets!InitEnds, Assets!UpgradeWrites,
                Assets!InitDies, assetVars
  <2>2. upgrade'.at = upgrade.at /\ upgrade'.v = upgrade.v /\ upgrade'.todo \subseteq upgrade.todo
    <3>1. CASE Assets!UpgradeWrites
      <4>1. PICK b \in upgrade.todo : upgrade' = [upgrade EXCEPT !.todo = upgrade.todo \ {b}]
        BY <3>1 DEF Assets!UpgradeWrites
      <4> QED
        BY <4>1 DEF Deployments
    <3> QED
      BY <2>1, <3>1
  <2>3. SUFFICES ASSUME upgrade.at # "idle"
                 PROVE  \A a \in Assets!Assets \ (touched' \cup upgrade'.todo) :
                           Assets!Steady(a) /\ Shipped[upgrade.v][a] # "none" =>
                             asset'[a] = Shipped[upgrade.v][a]
    BY <2>1, <2>2 DEF UpgradeSound, Assets!Steady
  <2>4. SUFFICES ASSUME NEW a \in Assets!Assets \ touched', a \notin upgrade'.todo,
                        Assets!Steady(a), Shipped[upgrade.v][a] # "none"
                 PROVE  asset'[a] = Shipped[upgrade.v][a]
    OBVIOUS
  <2>5. a \notin touched
    BY UntouchedMeans
  <2>6. CASE Assets!UpgradeWrites /\ a \in upgrade.todo
    <3>1. PICK b \in upgrade.todo : /\ asset' = [asset EXCEPT ![b] = Shipped[upgrade.v][b]]
                                    /\ upgrade' = [upgrade EXCEPT !.todo = upgrade.todo \ {b}]
      BY <2>6 DEF Assets!UpgradeWrites, Assets!WrittenAtomically
    <3>2. upgrade'.todo = upgrade.todo \ {b}
      BY <3>1 DEF Deployments
    <3>3. a = b
      BY <2>4, <2>6, <3>2
    <3> QED
      BY <3>1, <3>3
  <2>7. CASE a \notin upgrade.todo
    <3>1. asset[a] = Shipped[upgrade.v][a]
      BY <2>3, <2>4, <2>5, <2>7 DEF UpgradeSound
    <3>2. asset[a] \notin {"none", "torn"}
      BY <2>3, <2>4, <3>1, ShippedTyped
    <3> QED
      BY <2>7, <3>1, <3>2, UntouchedMeans
  <2>8. CASE ~Assets!UpgradeWrites
    BY <2>1, <2>4, <2>7, <2>8
  <2> QED
    BY <2>6, <2>7, <2>8
<1> QED
  BY <1>1, <1>2, <1>3

\* Every step of a package, an operator and a deployment keeps the invariant.
LEMMA AssetsStep ==
  ASSUME AssetsInv, Assets!Next \/ UNCHANGED assetVars
  PROVE  AssetsInv'
  BY TypedKeeps, RecordedKeeps, CautiousKeeps, FirstKeeps, AccountedKeeps, SoundKeeps DEF AssetsInv

\* What the invariant says in the model's own terms.
LEMMA AssetsMean == ASSUME AssetsInv PROVE Assets!TypeOK /\ Assets!ManifestTrue
<1> USE AssetsAssumption DEF AssetsInv, AssetsTyped
<1>1. manifest = Assets!NoManifest \/ manifest \in [Assets!Assets -> Assets!Content]
  BY DEF Recorded, Assets!Assets, Assets!Content
<1>2. half \subseteq 1..Versions
  BY DEF Recorded
<1>3. Assets!TypeOK
  BY <1>1, <1>2 DEF Assets!TypeOK, Deployments
<1>4. Assets!ManifestTrue
  BY DEF Accounted, Assets!ManifestTrue
<1> QED
  BY <1>3, <1>4

-----------------------------------------------------------------------------
(* The workspace and its epoch                                              *)

Processes ==
    [at : {"idle", "unowned", "moving", "files", "open", "marking", "recording"},
     v : 0..Epochs, next : 1..4]

EpochTyped ==
    /\ epoch \in 1..Epochs
    /\ docs \in [Epoch!Dirs -> 0..Epochs + 1]
    /\ default \in [Epoch!Files -> {"none", "torn", "ok"}]
    /\ marker \in 0..Epochs
    /\ marker # 0 <=> default["marker"] = "ok"
    /\ docs["state"] = Epoch!Absent =>
          lock = "none" /\ \A f \in Epoch!InState : default[f] = "none"
    /\ lock \in {"none", "live", "stale"}
    /\ daemon \in [at : {"down", "checked", "locked", "running"}, v : 0..Epochs]
    /\ init \in Processes /\ (init.at # "idle" => init.v # 0)
    /\ reset \in Processes /\ (reset.at # "idle" => reset.v # 0)
    /\ resetLock \in BOOLEAN /\ forged \in BOOLEAN /\ raced \in BOOLEAN
    /\ faults \in 0..MaxFaults

\* A daemon that holds the lock is not reset under, ...
LockHeld ==
    daemon.at \in {"locked", "running"} => raced \/ (lock = "live" /\ reset.at = "idle")

\* ... the marker, if there is one, is that of the documents and of the daemon, ...
MarkerTrue ==
    /\ marker # 0 => ~Epoch!Stale(marker) \/ forged \/ raced
    /\ daemon.at # "down" =>
          /\ marker \in {0, daemon.v} \/ forged \/ raced
          /\ ~Epoch!Stale(daemon.v) \/ forged \/ raced

\* ... and a reset that has moved the documents away finds none when it marks.
MovedAway ==
    \/ reset.at = "moving" /\ reset.next > 2
    \/ reset.at \in {"files", "open", "marking"}

MovedStaysAway ==
    /\ reset.at = "unowned" => reset.next = 1
    /\ MovedAway => docs["work"] \in {Epoch!Empty, Epoch!Absent} \/ raced

EpochInv == EpochTyped /\ LockHeld /\ MarkerTrue /\ MovedStaysAway

\* The defaults and directories by name.
LEMMA EpochNames ==
  /\ Epoch!Dirs = {"state", "work", "blueprints"} /\ Epoch!Empty = 0 /\ Epoch!Absent = Epochs + 1
  /\ Epoch!InState = {"snapshot", "marker", "manifest"}
  /\ Epoch!Files = {"snapshot", "marker", "manifest", "config"}
  /\ Len(Epoch!Payloads) = 3 /\ \A n \in 1..3 : Epoch!Payloads[n] \in Epoch!Files
  /\ Len(Epoch!MutableNames) = 2
  /\ Epoch!MutableNames[1] = "state" /\ Epoch!MutableNames[2] = "work"
BY DEF Epoch!Dirs, Epoch!Empty, Epoch!Absent, Epoch!InState, Epoch!Files, Epoch!Payloads,
       Epoch!MutableNames

\* A workspace starts with nothing.
LEMMA EpochStart == ASSUME Epoch!Init PROVE EpochInv
<1> USE EpochAssumption
<1>1. Epoch!Idle \in Processes
  BY DEF Epoch!Idle, Processes
<1>2. EpochTyped
  <2>1. docs \in [Epoch!Dirs -> 0..Epochs + 1] /\ default \in [Epoch!Files -> {"none", "torn", "ok"}]
    BY EpochNames DEF Epoch!Init
  <2>2. default["marker"] # "ok" /\ \A f \in Epoch!InState : default[f] = "none"
    BY EpochNames DEF Epoch!Init
  <2>3. daemon \in [at : {"down", "checked", "locked", "running"}, v : 0..Epochs]
    BY DEF Epoch!Init
  <2>4. {resetLock, forged, raced} \subseteq BOOLEAN
    BY DEF Epoch!Init
  <2> QED
    BY <1>1, <2>1, <2>2, <2>3, <2>4 DEF Epoch!Init, EpochTyped, Epoch!Idle
<1> QED
  BY <1>2 DEF Epoch!Init, EpochInv, LockHeld, MarkerTrue, MovedStaysAway, MovedAway, Epoch!Idle

\* Directories that are made where they are missing are empty.
LEMMA OpenedTyped ==
  ASSUME EpochTyped, NEW f \in Epoch!Files
  PROVE  /\ Epoch!OpenedIn(f) \in [Epoch!Dirs -> 0..Epochs + 1]
         /\ Epoch!OpenedIn(f)["work"] = docs["work"]
         /\ docs["state"] # Epoch!Absent => Epoch!OpenedIn(f)["state"] # Epoch!Absent
         /\ f \in Epoch!InState => Epoch!OpenedIn(f)["state"] # Epoch!Absent
<1> USE EpochAssumption
<1>1. Epoch!Created("state", docs["state"]) \in 0..Epochs
  BY EpochNames DEF EpochTyped, Epoch!Created
<1> QED
  BY <1>1, EpochNames DEF EpochTyped, Epoch!OpenedIn

LEMMA CreatedTyped ==
  ASSUME EpochTyped
  PROVE  /\ Epoch!AllCreated \in [Epoch!Dirs -> 0..Epochs + 1]
         /\ Epoch!AllCreated["work"] \in {docs["work"], Epoch!Empty}
         /\ docs["work"] = Epoch!Absent => Epoch!AllCreated["work"] = Epoch!Empty
         /\ Epoch!AllCreated["state"] # Epoch!Absent
  BY EpochAssumption, EpochNames DEF EpochTyped, Epoch!AllCreated, Epoch!Created

\* What one file of an initialization leaves, whoever runs it.
LEMMA FileStepMeans ==
  ASSUME EpochTyped, NEW p \in Processes, NEW q, p.next <= 3, Epoch!FileStep(p, q)
  PROVE  /\ q \in Processes /\ q.at \in {"files", "open"} /\ p.at \in {"files", "open"} /\ q.v = p.v
         /\ docs' \in [Epoch!Dirs -> 0..Epochs + 1] /\ docs'["work"] = docs["work"]
         /\ default' \in [Epoch!Files -> {"none", "torn", "ok"}]
         /\ docs'["state"] = Epoch!Absent =>
              docs["state"] = Epoch!Absent /\ \A f \in Epoch!InState : default'[f] = "none"
         /\ \/ /\ marker' = marker /\ forged' = forged
               /\ default'["marker"] = "ok" <=> default["marker"] = "ok"
            \/ /\ marker' = p.v /\ forged' = (forged \/ Epoch!Foreign(p.v))
               /\ default'["marker"] = "ok"
<1> USE EpochAssumption, EpochNames
<1> DEFINE f == Epoch!Payloads[p.next]
<1>0. p.next \in 1..3 /\ f \in Epoch!Files
  BY DEF Processes
<1>1. CASE p.at = "files" /\ ~Epoch!Missing(p)
  <2>1. q = [p EXCEPT !.next = @ + 1] /\ UNCHANGED <<docs, default, marker, forged>>
    BY <1>1 DEF Epoch!FileStep
  <2> QED
    BY <1>0, <1>1, <2>1 DEF Processes, EpochTyped
<1>2. CASE p.at = "files" /\ Epoch!Missing(p)
  <2>1. /\ q = [p EXCEPT !.at = "open"] /\ default' = [default EXCEPT ![f] = "torn"]
        /\ docs' = Epoch!OpenedIn(f) /\ UNCHANGED <<marker, forged>>
    BY <1>2 DEF Epoch!FileStep
  <2>2. default[f] = "none"
    BY <1>2 DEF Epoch!Missing
  <2>3. q \in Processes /\ q.at = "open" /\ q.v = p.v
    BY <1>0, <2>1 DEF Processes
  <2>4. f \notin Epoch!InState => docs' = docs
    BY <2>1 DEF Epoch!OpenedIn
  <2> QED
    BY <1>0, <1>2, <2>1, <2>2, <2>3, <2>4, OpenedTyped DEF EpochTyped
<1>3. CASE p.at = "open"
  <2>1. /\ q = [p EXCEPT !.at = "files", !.next = @ + 1] /\ docs' = docs
        /\ IF default[f] = "torn"
           THEN /\ default' = [default EXCEPT ![f] = "ok"]
                /\ marker' = IF f = "marker" THEN p.v ELSE marker
                /\ forged' = (forged \/ (f = "marker" /\ Epoch!Foreign(p.v)))
           ELSE UNCHANGED <<default, marker, forged>>
    BY <1>3 DEF Epoch!FileStep
  <2>2. q \in Processes /\ q.at = "files" /\ q.v = p.v
    <3>1. p.next + 1 \in 1..4
      BY <1>0
    <3> QED
      BY <2>1, <3>1 DEF Processes
  <2>3. CASE default[f] # "torn"
    BY <1>3, <2>1, <2>2, <2>3 DEF EpochTyped
  <2>4. CASE default[f] = "torn" /\ f # "marker"
    <3>1. forged' = forged
      BY <2>1, <2>4 DEF EpochTyped
    <3> QED
      BY <1>0, <1>3, <2>1, <2>2, <2>4, <3>1 DEF EpochTyped
  <2>5. CASE default[f] = "torn" /\ f = "marker"
    <3>1. forged' = (forged \/ Epoch!Foreign(p.v))
      BY <2>1, <2>5
    <3> QED
      BY <1>0, <1>3, <2>1, <2>2, <2>5, <3>1 DEF EpochTyped
  <2> QED
    BY <2>3, <2>4, <2>5
<1> QED
  BY <1>1, <1>2, <1>3 DEF Epoch!FileStep

\* What a process that is not running is.
LEMMA EpochIdle == Epoch!Idle \in Processes /\ Epoch!Idle.at = "idle"
BY EpochAssumption DEF Epoch!Idle, Processes

\* A file of the initialization leaves the facts about documents and markers as
\* they are, or records that it forged a marker.
LEMMA FileKeepsMarker ==
  ASSUME EpochTyped, MarkerTrue, NEW p \in Processes, UNCHANGED daemon, raced => raced',
         docs'["work"] = docs["work"],
         \/ marker' = marker /\ forged' = forged
         \/ marker' = p.v /\ forged' = (forged \/ Epoch!Foreign(p.v))
  PROVE  MarkerTrue'
<1>1. docs["work"] \in 0..Epochs + 1
  BY EpochNames DEF EpochTyped
<1>2. CASE marker' = marker /\ forged' = forged
  BY <1>2 DEF MarkerTrue, Epoch!Stale
<1>3. CASE marker' = p.v /\ forged' = (forged \/ Epoch!Foreign(p.v))
  BY <1>3 DEF MarkerTrue, Epoch!Stale, Epoch!Foreign
<1> QED
  BY <1>2, <1>3

\* What initialization and reset do to files keeps the types.
LEMMA FileKeepsTypes ==
  ASSUME EpochTyped, NEW p \in Processes, NEW q, p.next <= 3, p.v # 0, Epoch!FileStep(p, q),
         UNCHANGED <<epoch, lock, daemon, resetLock, faults, raced>>
  PROVE  /\ docs' \in [Epoch!Dirs -> 0..Epochs + 1]
         /\ default' \in [Epoch!Files -> {"none", "torn", "ok"}]
         /\ marker' \in 0..Epochs /\ forged' \in BOOLEAN
         /\ marker' # 0 <=> default'["marker"] = "ok"
         /\ docs'["state"] = Epoch!Absent =>
              lock' = "none" /\ \A f \in Epoch!InState : default'[f] = "none"
<1>1. p.v \in 1..Epochs
  BY EpochAssumption DEF Processes
<1>2. forged' \in BOOLEAN
  BY FileStepMeans DEF EpochTyped
<1> QED
  BY <1>1, <1>2, FileStepMeans DEF EpochTyped

\* The manifest is written into a directory that is there.
LEMMA ManifestKeeps ==
  ASSUME EpochTyped, Epoch!ManifestWritten
  PROVE  /\ docs' \in [Epoch!Dirs -> 0..Epochs + 1] /\ docs'["state"] # Epoch!Absent
         /\ docs'["work"] = docs["work"]
         /\ default' \in [Epoch!Files -> {"none", "torn", "ok"}]
         /\ default'["marker"] = default["marker"]
  BY EpochNames, OpenedTyped DEF EpochTyped, Epoch!ManifestWritten

\* A reset goes on to its next part.
LEMMA NextPart ==
  ASSUME NEW p \in Processes, NEW q, NEW at \in {"files", "marking"},
         q = [p EXCEPT !.at = at, !.next = 1]
  PROVE  q \in Processes /\ q.v = p.v /\ q.at = at
<1>1. q = [at |-> at, v |-> p.v, next |-> 1]
  BY DEF Processes
<1>2. p.v \in 0..Epochs /\ 1 \in 1..4
  BY DEF Processes
<1> QED
  BY <1>1, <1>2 DEF Processes

\* Every step of the daemon, of a command or of an operator keeps the invariant.
LEMMA EpochStep ==
  ASSUME EpochInv, Epoch!Next \/ UNCHANGED epochVars PROVE EpochInv'
<1> USE EpochAssumption, EpochNames DEF EpochInv
<1>1. CASE Epoch!NewPackage
  BY <1>1 DEF Epoch!NewPackage, EpochTyped, LockHeld, MarkerTrue, MovedStaysAway, MovedAway, Epoch!Stale
<1>2. ASSUME NEW f \in Epoch!Files, Epoch!Damage(f) PROVE EpochInv'
  <2>1. PICK c \in {"none", "torn"} : default' = [default EXCEPT ![f] = c]
    BY <1>2 DEF Epoch!Damage
  <2>2. /\ UNCHANGED <<epoch, docs, lock, daemon, init, reset, resetLock, forged, raced>>
        /\ marker' = (IF f = "marker" THEN 0 ELSE marker) /\ default[f] = "ok"
        /\ faults < MaxFaults /\ faults' = faults + 1
    BY <1>2 DEF Epoch!Damage
  <2>3. EpochTyped'
    BY <2>1, <2>2 DEF EpochTyped
  <2> QED
    BY <2>2, <2>3 DEF LockHeld, MarkerTrue, MovedStaysAway, MovedAway, Epoch!Stale
<1>3. CASE Epoch!InitStart
  <2>1. /\ init' = [at |-> "files", v |-> epoch, next |-> 1] /\ docs' = Epoch!AllCreated
        /\ UNCHANGED <<epoch, default, marker, lock, daemon, reset, resetLock, faults, forged, raced>>
    BY <1>3 DEF Epoch!InitStart
  <2>2. init' \in Processes
    BY <2>1 DEF EpochTyped, Processes
  <2>3. EpochTyped'
    BY <2>1, <2>2, CreatedTyped DEF EpochTyped
  <2> QED
    BY <2>1, <2>3, CreatedTyped DEF LockHeld, MarkerTrue, MovedStaysAway, MovedAway, Epoch!Stale
<1>4. CASE Epoch!InitFile
  <2>1. /\ init \in Processes /\ init.next <= 3 /\ Epoch!FileStep(init, init')
        /\ init.v # 0 /\ UNCHANGED <<epoch, lock, daemon, reset, resetLock, faults, raced>>
    BY <1>4 DEF Epoch!InitFile, EpochTyped
  <2>2. EpochTyped'
    BY <2>1, FileStepMeans, FileKeepsTypes DEF EpochTyped
  <2>3. MarkerTrue' /\ docs'["work"] = docs["work"] /\ (forged => forged')
    BY <2>1, FileStepMeans, FileKeepsMarker
  <2> QED
    BY <2>1, <2>2, <2>3 DEF LockHeld, MovedStaysAway, MovedAway
<1>5. CASE Epoch!InitEnds
  <2>1. /\ init' = Epoch!Idle /\ Epoch!ManifestWritten
        /\ UNCHANGED <<epoch, marker, lock, daemon, reset, resetLock, faults, forged, raced>>
    BY <1>5 DEF Epoch!InitEnds
  <2>2. EpochTyped'
    BY <2>1, EpochIdle, ManifestKeeps DEF EpochTyped
  <2> QED
    BY <2>1, <2>2, ManifestKeeps DEF LockHeld, MarkerTrue, MovedStaysAway, MovedAway, Epoch!Stale
<1>6. CASE Epoch!DaemonChecks
  <2>1. /\ daemon' = [at |-> "checked", v |-> epoch] /\ marker = epoch
        /\ UNCHANGED <<epoch, docs, default, marker, lock, init, reset, resetLock, faults, forged, raced>>
    BY <1>6 DEF Epoch!DaemonChecks, Epoch!MarkerCurrent
  <2>2. EpochTyped'
    BY <2>1 DEF EpochTyped
  <2>3. MarkerTrue'
    BY <2>1 DEF MarkerTrue, EpochTyped, Epoch!Stale
  <2> QED
    BY <2>1, <2>2, <2>3 DEF LockHeld, MovedStaysAway, MovedAway
<1>7. CASE Epoch!DaemonLocks
  <2>1. UNCHANGED <<epoch, default, marker, init, reset, resetLock, faults, forged>>
    BY <1>7 DEF Epoch!DaemonLocks
  <2>2. CASE lock = "none"
    <3>1. /\ lock' = "live" /\ docs' = Epoch!OpenedIn("manifest")
          /\ daemon' = [daemon EXCEPT !.at = "locked"] /\ raced' = (raced \/ reset.at # "idle")
          /\ daemon.at = "checked"
      BY <1>7, <2>2 DEF Epoch!DaemonLocks
    <3>2. EpochTyped'
      BY <2>1, <3>1, OpenedTyped DEF EpochTyped
    <3>3. MarkerTrue'
      BY <2>1, <3>1, OpenedTyped DEF MarkerTrue, EpochTyped, Epoch!Stale
    <3> QED
      BY <2>1, <3>1, <3>2, <3>3, OpenedTyped DEF LockHeld, MovedStaysAway, MovedAway
  <2>3. CASE lock # "none"
    <3>1. daemon' = [at |-> "down", v |-> 0] /\ UNCHANGED <<lock, docs, raced>>
      BY <1>7, <2>3 DEF Epoch!DaemonLocks
    <3>2. EpochTyped'
      BY <2>1, <3>1 DEF EpochTyped
    <3> QED
      BY <2>1, <3>1, <3>2 DEF LockHeld, MarkerTrue, MovedStaysAway, MovedAway, Epoch!Stale
  <2> QED
    BY <2>2, <2>3
<1>8. CASE Epoch!DaemonLoads
  <2>1. UNCHANGED <<epoch, docs, default, marker, init, reset, resetLock, faults, forged, raced>>
    BY <1>8 DEF Epoch!DaemonLoads
  <2>2. \/ daemon' = [daemon EXCEPT !.at = "running"] /\ lock' = lock /\ daemon.at = "locked"
        \/ daemon' = [at |-> "down", v |-> 0] /\ lock' = "none"
    BY <1>8 DEF Epoch!DaemonLoads
  <2>3. EpochTyped'
    BY <2>1, <2>2 DEF EpochTyped
  <2>4. MarkerTrue'
    BY <2>1, <2>2 DEF MarkerTrue, EpochTyped, Epoch!Stale
  <2> QED
    BY <2>1, <2>2, <2>3, <2>4 DEF LockHeld, MovedStaysAway, MovedAway
<1>9. ASSUME NEW d \in Epoch!Dirs, Epoch!DaemonWrites(d) PROVE EpochInv'
  <2>1. /\ docs' = [docs EXCEPT ![d] = daemon.v] /\ d # "state" /\ daemon.at = "running"
        /\ UNCHANGED <<epoch, default, marker, lock, daemon, init, reset, resetLock, faults, forged, raced>>
    BY <1>9 DEF Epoch!DaemonWrites
  <2>2. daemon.v \in 0..Epochs + 1
    BY DEF EpochTyped
  <2>3. EpochTyped'
    BY <2>1, <2>2 DEF EpochTyped
  <2>4. docs'["work"] \in {docs["work"], daemon.v}
    BY <2>1 DEF EpochTyped
  <2>5. MarkerTrue'
    BY <2>1, <2>4 DEF MarkerTrue, Epoch!Stale
  <2>6. MovedAway => raced
    BY <2>1 DEF LockHeld, MovedAway
  <2> QED
    BY <2>1, <2>3, <2>5, <2>6 DEF LockHeld, MovedStaysAway, MovedAway
<1>10. CASE Epoch!DaemonStops \/ Epoch!DaemonDies \/ Epoch!ClearStale
  <2>1. UNCHANGED <<epoch, docs, default, marker, init, reset, resetLock, forged, raced>>
    BY <1>10 DEF Epoch!DaemonStops, Epoch!DaemonDies, Epoch!ClearStale
  <2>2. \/ daemon' = [at |-> "down", v |-> 0] /\ lock' \in {lock, "none"}
        \/ daemon' = [at |-> "down", v |-> 0] /\ lock' = "stale" /\ lock = "live"
        \/ daemon' = daemon /\ lock' = "none" /\ lock = "stale"
    BY <1>10 DEF Epoch!DaemonStops, Epoch!DaemonDies, Epoch!ClearStale
  <2>3. faults' \in 0..MaxFaults
    BY <1>10 DEF Epoch!DaemonStops, Epoch!DaemonDies, Epoch!ClearStale, EpochTyped
  <2>4. EpochTyped'
    BY <2>1, <2>2, <2>3 DEF EpochTyped
  <2>5. MarkerTrue'
    BY <2>1, <2>2 DEF MarkerTrue, Epoch!Stale
  <2> QED
    BY <2>1, <2>2, <2>4, <2>5 DEF LockHeld, MovedStaysAway, MovedAway
<1>11. CASE Epoch!ResetStart
  <2>1. /\ reset' = [at |-> "unowned", v |-> epoch, next |-> 1] /\ lock # "live"
        /\ UNCHANGED <<epoch, docs, default, marker, lock, daemon, init, resetLock, faults, forged, raced>>
    BY <1>11 DEF Epoch!ResetStart
  <2>2. reset' \in Processes /\ reset'.v # 0
    BY <2>1 DEF EpochTyped, Processes
  <2>3. EpochTyped'
    BY <2>1, <2>2 DEF EpochTyped
  <2> QED
    BY <2>1, <2>3 DEF LockHeld, MarkerTrue, MovedStaysAway, MovedAway, Epoch!Stale
<1>12. CASE Epoch!ResetLocks
  <2>1. UNCHANGED <<epoch, docs, default, marker, lock, daemon, init, faults, forged, raced>>
    BY <1>12 DEF Epoch!ResetLocks
  <2>2. \/ reset' = Epoch!Idle /\ resetLock' = resetLock
        \/ reset' = [reset EXCEPT !.at = "moving"] /\ resetLock' = TRUE
    BY <1>12 DEF Epoch!ResetLocks
  <2>3. reset.at = "unowned" /\ reset.next = 1
    BY <1>12 DEF Epoch!ResetLocks, MovedStaysAway
  <2>4. /\ reset' \in Processes /\ (reset'.at # "idle" => reset'.v # 0)
        /\ reset'.at \in {"idle", "moving"} /\ reset'.next = 1
    BY <2>2, <2>3, EpochIdle DEF EpochTyped, Processes, Epoch!Idle
  <2>5. EpochTyped'
    BY <2>1, <2>2, <2>4 DEF EpochTyped
  <2>6. LockHeld'
    BY <2>1, <2>3 DEF LockHeld
  <2> QED
    BY <2>1, <2>4, <2>5, <2>6 DEF MarkerTrue, MovedStaysAway, MovedAway, Epoch!Stale
<1>13. CASE Epoch!ResetMoves
  <2>1. /\ reset.at = "moving" /\ reset.next \in {1, 2} /\ reset' = [reset EXCEPT !.next = @ + 1]
        /\ UNCHANGED <<epoch, daemon, init, resetLock, faults, forged, raced>>
    BY <1>13 DEF Epoch!ResetMoves, EpochTyped, Processes
  <2>2. /\ reset' \in Processes /\ reset'.v = reset.v /\ reset'.at = "moving"
        /\ reset'.next = reset.next + 1 /\ reset.v # 0
    BY <2>1 DEF EpochTyped, Processes
  <2>3. raced \/ daemon.at \notin {"locked", "running"}
    BY <2>1 DEF LockHeld
  <2>4. CASE reset.next = 1
    <3>1. /\ docs' = [docs EXCEPT !["state"] = Epoch!Absent]
          /\ default' = [f \in Epoch!Files |-> IF f \in Epoch!InState THEN "none" ELSE default[f]]
          /\ marker' = 0 /\ lock' = "none"
      BY <1>13, <2>4 DEF Epoch!ResetMoves
    <3>2. EpochTyped'
      BY <2>1, <2>2, <3>1 DEF EpochTyped
    <3>3. docs'["work"] = docs["work"]
      BY <3>1 DEF EpochTyped
    <3>4. MarkerTrue'
      BY <2>1, <3>1, <3>3 DEF MarkerTrue, Epoch!Stale
    <3> QED
      BY <2>1, <2>2, <2>3, <2>4, <3>2, <3>4 DEF LockHeld, MovedStaysAway, MovedAway
  <2>5. CASE reset.next = 2
    <3>1. docs' = [docs EXCEPT !["work"] = Epoch!Absent] /\ UNCHANGED <<default, marker, lock>>
      BY <1>13, <2>5 DEF Epoch!ResetMoves
    <3>2. docs'["work"] = Epoch!Absent
      BY <3>1 DEF EpochTyped
    <3>3. EpochTyped'
      BY <2>1, <2>2, <3>1 DEF EpochTyped
    <3>4. MarkerTrue'
      BY <2>1, <3>1, <3>2 DEF MarkerTrue, Epoch!Stale
    <3> QED
      BY <2>1, <2>2, <2>3, <3>1, <3>2, <3>3, <3>4 DEF LockHeld, MovedStaysAway, MovedAway
  <2> QED
    BY <2>1, <2>4, <2>5
<1>14. CASE Epoch!ResetCreates
  <2>1. /\ reset.at = "moving" /\ reset.next > 2 /\ docs' = Epoch!AllCreated
        /\ reset' = [reset EXCEPT !.at = "files", !.next = 1]
        /\ UNCHANGED <<epoch, default, marker, lock, daemon, init, resetLock, faults, forged, raced>>
    BY <1>14 DEF Epoch!ResetCreates
  <2>2. reset' \in Processes /\ reset'.v = reset.v /\ reset.v # 0 /\ reset'.at = "files"
    <3>1. reset \in Processes /\ reset.v # 0
      BY <2>1 DEF EpochTyped
    <3> QED
      BY <2>1, <3>1, NextPart
  <2>3. EpochTyped'
    BY <2>1, <2>2, CreatedTyped DEF EpochTyped
  <2>4. MovedAway
    BY <2>1 DEF MovedAway
  <2>5. MarkerTrue'
    BY <2>1, CreatedTyped DEF MarkerTrue, Epoch!Stale
  <2> QED
    BY <2>1, <2>2, <2>3, <2>4, <2>5, CreatedTyped DEF LockHeld, MovedStaysAway
<1>15. CASE Epoch!ResetFile
  <2>1. /\ reset \in Processes /\ reset.next <= 3 /\ Epoch!FileStep(reset, reset')
        /\ reset.at \in {"files", "open"}
        /\ reset.v # 0 /\ UNCHANGED <<epoch, lock, daemon, init, resetLock, faults, raced>>
    BY <1>15 DEF Epoch!ResetFile, EpochTyped
  <2>2. /\ reset' \in Processes /\ reset'.v = reset.v /\ reset'.at \in {"files", "open"}
        /\ docs'["work"] = docs["work"]
    BY <2>1, FileStepMeans
  <2>3. EpochTyped'
    BY <2>1, <2>2, FileKeepsTypes DEF EpochTyped
  <2>4. MarkerTrue'
    BY <2>1, FileStepMeans, FileKeepsMarker
  <2> QED
    BY <2>1, <2>2, <2>3, <2>4 DEF LockHeld, MovedStaysAway, MovedAway
<1>16. CASE Epoch!ResetManifest
  <2>1. /\ reset.at = "files" /\ reset' = [reset EXCEPT !.at = "marking", !.next = 1]
        /\ Epoch!ManifestWritten
        /\ UNCHANGED <<epoch, marker, lock, daemon, init, resetLock, faults, forged, raced>>
    BY <1>16 DEF Epoch!ResetManifest
  <2>2. reset' \in Processes /\ reset'.v = reset.v /\ reset.v # 0 /\ reset'.at = "marking"
    <3>1. reset \in Processes /\ reset.v # 0
      BY <2>1 DEF EpochTyped
    <3> QED
      BY <2>1, <3>1, NextPart
  <2>3. EpochTyped'
    BY <2>1, <2>2, ManifestKeeps DEF EpochTyped
  <2>4. MarkerTrue'
    BY <2>1, ManifestKeeps DEF MarkerTrue, Epoch!Stale
  <2> QED
    BY <2>1, <2>2, <2>3, <2>4, ManifestKeeps DEF LockHeld, MovedStaysAway, MovedAway
<1>17. CASE Epoch!ResetMarks
  <2>1. /\ reset.at = "marking" /\ reset' = [reset EXCEPT !.at = "recording"]
        /\ default' = [default EXCEPT !["marker"] = "ok"] /\ marker' = reset.v
        /\ docs' = Epoch!OpenedIn("marker") /\ forged' = (forged \/ Epoch!Foreign(reset.v))
        /\ UNCHANGED <<epoch, lock, daemon, init, resetLock, faults, raced>>
    BY <1>17 DEF Epoch!ResetMarks
  <2>2. reset' \in Processes /\ reset'.v = reset.v /\ reset.v # 0 /\ reset'.at = "recording"
    BY <2>1 DEF EpochTyped, Processes
  <2>3. reset.v \in 0..Epochs /\ forged' \in BOOLEAN
    BY <2>1 DEF EpochTyped, Processes
  <2>4. EpochTyped'
    BY <2>1, <2>2, <2>3, OpenedTyped DEF EpochTyped
  <2>5. MarkerTrue'
    BY <2>1, OpenedTyped, FileKeepsMarker DEF EpochTyped
  <2> QED
    BY <2>1, <2>2, <2>4, <2>5 DEF LockHeld, MovedStaysAway, MovedAway
<1>18. CASE Epoch!ResetEnds \/ Epoch!ResetFails \/ Epoch!CommandDies
  <2>1. UNCHANGED <<epoch, docs, default, marker, lock, daemon, forged, raced>>
    BY <1>18 DEF Epoch!ResetEnds, Epoch!ResetFails, Epoch!CommandDies
  <2>2. init' \in {init, Epoch!Idle} /\ reset' \in {reset, Epoch!Idle}
    BY <1>18 DEF Epoch!ResetEnds, Epoch!ResetFails, Epoch!CommandDies
  <2>3. resetLock' \in BOOLEAN /\ faults' \in 0..MaxFaults
    <3>1. CASE Epoch!ResetEnds
      BY <3>1 DEF Epoch!ResetEnds, EpochTyped
    <3>2. CASE Epoch!ResetFails
      <4>1. resetLock' = FALSE /\ faults < MaxFaults /\ faults' = faults + 1
        BY <3>2 DEF Epoch!ResetFails
      <4>2. faults' \in 0..MaxFaults
        BY <4>1 DEF EpochTyped
      <4> QED
        BY <4>1, <4>2
    <3>3. CASE Epoch!CommandDies
      BY <3>3 DEF Epoch!CommandDies, EpochTyped
    <3> QED
      BY <1>18, <3>1, <3>2, <3>3
  <2>4. EpochTyped'
    BY <2>1, <2>2, <2>3, EpochIdle DEF EpochTyped
  <2> QED
    BY <2>1, <2>2, <2>4, EpochIdle DEF LockHeld, MarkerTrue, MovedStaysAway, MovedAway, Epoch!Stale
<1>19. CASE UNCHANGED epochVars
  BY <1>19 DEF epochVars, EpochTyped, LockHeld, MarkerTrue, MovedStaysAway, MovedAway, Epoch!Stale
<1> QED
  BY <1>1, <1>2, <1>3, <1>4, <1>5, <1>6, <1>7, <1>8, <1>9, <1>10, <1>11, <1>12, <1>13, <1>14, <1>15,
     <1>16, <1>17, <1>18, <1>19 DEF Epoch!Next

\* What the invariant says of a running daemon, of the doctor and of types.
LEMMA EpochMeans ==
  ASSUME EpochInv PROVE Epoch!TypeOK /\ Epoch!RunsOnItsEpoch /\ Epoch!DoctorSound
<1> USE EpochAssumption, EpochNames DEF EpochInv, EpochTyped
<1>1. Epoch!TypeOK
  BY DEF Epoch!TypeOK, Processes
<1>2. Epoch!RunsOnItsEpoch
  BY DEF Epoch!RunsOnItsEpoch, MarkerTrue
<1>3. ASSUME Epoch!DoctorErrors = {}, Epoch!DoctorWarnings = {}
      PROVE  /\ Epoch!Initialized /\ Epoch!MarkerCurrent(epoch)
             /\ lock = "none" /\ Epoch!StateLoads
             /\ docs["work"] \in {Epoch!Empty, epoch}
  <2>1. /\ \A d \in Epoch!Dirs \ {"blueprints"} : docs[d] # Epoch!Absent
        /\ default["config"] # "none"
    BY <1>3 DEF Epoch!DoctorErrors, Epoch!LayoutErrors
  <2>2. default["manifest"] = "ok" /\ default["snapshot"] = "ok"
    BY <1>3 DEF Epoch!DoctorErrors, Epoch!ManifestErrors, Epoch!StateErrors
  <2>3. lock = "none"
    BY <1>3 DEF Epoch!DoctorErrors, Epoch!DoctorWarnings, Epoch!LockErrors, Epoch!LockWarnings
  <2>4. marker = epoch
    BY <1>3 DEF Epoch!DoctorWarnings, Epoch!MarkerWarnings
  <2>5. docs["work"] \notin 1..Epochs \ {epoch}
    BY <1>3 DEF Epoch!DoctorErrors, Epoch!QueueErrors
  <2>6. docs["work"] \in 0..Epochs + 1
    OBVIOUS
  <2> QED
    BY <2>1, <2>2, <2>3, <2>4, <2>5, <2>6
       DEF Epoch!Initialized, Epoch!Required, Epoch!MarkerCurrent, Epoch!StateLoads
<1> QED
  BY <1>1, <1>2, <1>3 DEF Epoch!DoctorSound

\* A reset marks only documents that are its own.
LEMMA MarksClean ==
  ASSUME EpochInv, reset.at = "marking" PROVE ~Epoch!Stale(reset.v) \/ raced
  BY EpochAssumption, EpochNames DEF EpochInv, MovedStaysAway, MovedAway, Epoch!Stale

-----------------------------------------------------------------------------
(* The composition                                                          *)

ControlInv == IntakeInv /\ SpendInv /\ AssetsInv /\ EpochInv

\* The four modules start together.
LEMMA ControlStart == ASSUME ControlInit PROVE ControlInv
  BY IntakeStart, SpendStart, AssetsStart, EpochStart DEF ControlInit, ControlInv

\* A step of the composition is, for each module, one of its own or none.
LEMMA StepOfEach ==
  ASSUME [ControlNext]_controlVars
  PROVE  /\ Inbox!Next \/ UNCHANGED intakeVars
         /\ Budget!Next \/ UNCHANGED budgetVars
         /\ Assets!Next \/ UNCHANGED assetVars
         /\ Epoch!Next \/ UNCHANGED epochVars
  BY DEF ControlNext, controlVars

\* No step of any of them breaks what the four keep.
LEMMA ControlStep == ASSUME ControlInv, [ControlNext]_controlVars PROVE ControlInv'
  BY StepOfEach, IntakeStep, SpendStep, AssetsStep, EpochStep DEF ControlInv

\* The invariant the theorems below are read from.
THEOREM ControlKeeps == ControlSpec => []ControlInv
  BY ControlStart, ControlStep, PTL DEF ControlSpec

-----------------------------------------------------------------------------
(* The properties of the run                                                *)

\* Every variable of the four modules keeps its type.
THEOREM TypesCorrect == ControlSpec => []TypesOK
<1>1. ControlInv => TypesOK
  BY IntakeMeans, BudgetMeans, AssetsMean, EpochMeans DEF ControlInv, SpendInv, TypesOK
<1>2. QED
  BY <1>1, ControlKeeps, PTL

\* No command is lost between its file and its answer, no noted idea loses its
\* text and none runs twice without a cancellation (drain_mailbox_with_context and
\* the watch of the ideas directory), and when governance judges each stage result
\* has exactly one line in the ledger (reconcile_usage_ledger_from_stage_results).
THEOREM NothingIsLost == ControlSpec => []NothingLostOrTwice
<1>1. ControlInv => NothingLostOrTwice
  BY IntakeMeans, BudgetMeans DEF ControlInv, SpendInv, NothingLostOrTwice
<1>2. QED
  BY <1>1, ControlKeeps, PTL

\* Whatever crashes, reloads and pauses fall between its steps, the daemon starts a
\* stage only while what the results on disk have spent is within every rule that
\* looks at time (evaluate_and_apply_usage_governance, dispatch_ready_work_at).
THEOREM BudgetsHold == ControlSpec => NoStageOverBudget
<1>1. ASSUME ControlInv, [ControlNext]_controlVars
      PROVE  started' # started /\ enabled =>
                \A r \in Rules : r.window \in {"rolling_5h", "calendar_week"} =>
                   Budget!Spent({x \in results : Budget!InWindow(x, r.window, clock, session)})
                     < r.threshold
  BY <1>1, StepOfEach, StartedWithin DEF ControlInv
<1>2. QED
  BY <1>1, ControlKeeps, PTL DEF ControlSpec, NoStageOverBudget, Budget!NoStageOverBudget

\* The manifest tells what untouched assets hold, through interrupted deployments and
\* upgrades (apply_baseline_upgrade); a daemon runs on documents of its own epoch
\* but for forged markers and raced resets, and what the doctor passes starts
\* (validate_runtime_epoch_marker, the doctor's checks).
THEOREM FilesAreTrue == ControlSpec => []FilesTellTheTruth
<1>1. ControlInv => FilesTellTheTruth
  BY AssetsMean, EpochMeans DEF ControlInv, FilesTellTheTruth
<1>2. QED
  BY <1>1, ControlKeeps, PTL

\* What an operator wrote survives initializations and upgrades, but for edits made
\* after the command had looked (preview_baseline_upgrade_with_candidate,
\* write_bytes_if_missing), and a reset that marks the workspace has moved what is
\* of another epoch (archive_reset_workspace_schema_with_options).
THEOREM WritesStayInPlace == ControlSpec => WritesInPlace
<1>1. ASSUME ControlInv, [ControlNext]_controlVars
      PROVE  \A a \in Assets!Assets :
                asset[a] = "own" /\ asset'[a] # "own" =>
                    \/ edits' = edits + 1
                    \/ deploy' # deploy /\ a \in lateI
                    \/ upgrade' # upgrade /\ a \in lateU
  BY <1>1, StepOfEach, EditKept DEF ControlInv
<1>2. ASSUME ControlInv
      PROVE  reset.at = "marking" => ~Epoch!Stale(reset.v) \/ raced
  BY <1>2, MarksClean DEF ControlInv
<1>3. ControlSpec => Assets!EditsKept
  BY <1>1, ControlKeeps, PTL DEF ControlSpec, Assets!EditsKept
<1>4. ControlSpec => Epoch!ResetClean
  BY <1>2, ControlKeeps, PTL DEF ControlSpec, Epoch!ResetClean
<1> QED
  BY <1>3, <1>4 DEF WritesInPlace
=============================================================================
