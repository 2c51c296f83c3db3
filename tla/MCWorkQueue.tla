---------------------------- MODULE MCWorkQueue ----------------------------
(* Tasks that may depend on one another, and the kinds of the planning plane, *)
(* moved by the runtime and one command-line invocation.                      *)
EXTENDS WorkQueue, TLC

CONSTANTS t1, t2, t3, s1, p1, i1, r, c1

Doc(deps, root) == [deps |-> deps, root |-> root]

\* t2 may replace t1 while depending on it; t3 depends on both.
MCDraft ==
    (t1 :> {Doc(<<>>, r)}) @@
    (t2 :> {Doc(<<t1>>, r)}) @@
    (t3 :> {Doc(<<t1, t2>>, NoRoot)}) @@
    (p1 :> {Doc(<<>>, NoRoot)}) @@
    (s1 :> {Doc(<<>>, r)}) @@
    (i1 :> {Doc(<<>>, r)})

\* The probe is older than the spec and the spec older than the incident.
MCAge == (t1 :> 1) @@ (t2 :> 2) @@ (t3 :> 3) @@ (p1 :> 1) @@ (s1 :> 2) @@ (i1 :> 3)

\* Work of different planes shares no directory: a behaviour files tasks, or two
\* items of the planning plane, and with tasks on file operations do not overlap.
Narrow ==
    /\ filed \subseteq Task \/ filed \cap Task = {}
    /\ ~(Spec \cup Probe \cup Incident \subseteq filed)
    /\ overlapped => filed \cap Task = {}
=============================================================================
