----------------------------- MODULE WorkLedger -----------------------------
(***************************************************************************)
(* What the queue promises to the rest of the runtime, with no files, scans *)
(* or half-done operations: every item has places in the lifecycle, changes *)
(* them by the intents below, one at a time and each at once, and by        *)
(* nothing else, and never leaves `done`.  Until operations have raced, an  *)
(* item is filed or retried only when it is nowhere else, and goes to no    *)
(* place it has already; a blocked task may also be filed again.  After a   *)
(* race what returns to the queue may replace a file that is there.         *)
(***************************************************************************)
CONSTANTS
    Items,
    Planes,     \* sets of items, one for each plane
    Tasks,      \* the items that may be filed again while blocked, and retried
    Incidents   \* the items an operator may close while they are worked on

VARIABLES
    places,     \* the lifecycle states in which each item has a file
    archived,   \* the items put into an archive or the quarantine
    raced       \* two operations have been in progress at a time

vars == <<places, archived, raced>>

State == {"queue", "active", "done", "blocked"}

Init ==
    /\ places = [x \in Items |-> {}]
    /\ archived = {}
    /\ raced = FALSE

Move(x, s, t) ==
    /\ s \in places[x]
    /\ t \in places[x] => raced /\ t = "queue"
    /\ places' = [places EXCEPT ![x] = (places[x] \ {s}) \cup {t}]
    /\ UNCHANGED archived

\* An item is filed once; a blocked task may be filed again.
File(x) ==
    /\ \/ raced
       \/ places[x] = {}
       \/ places[x] = {"blocked"} /\ x \in Tasks
    /\ places' = [places EXCEPT ![x] = places[x] \cup {"queue"}]
    /\ UNCHANGED archived

\* A plane works on one item at a time.
Claim(x) ==
    /\ "queue" \in places[x]
    /\ \A plane \in Planes : x \in plane => \A y \in plane : "active" \notin places[y]
    /\ Move(x, "queue", "active")

\* Work ends, or is given back to the queue.
Finish(x, s) == Move(x, "active", s)

Retry(x) ==
    /\ x \in Tasks
    /\ raced \/ places[x] = {"blocked"}
    /\ Move(x, "blocked", "queue")

\* What is done stays; what is worked on stays, unless it is an incident.
Archive(S, s) ==
    /\ s # "done" /\ (s = "active" => S \subseteq Incidents)
    /\ \A x \in S : s \in places[x]
    /\ places' = [x \in Items |-> IF x \in S THEN places[x] \ {s} ELSE places[x]]
    /\ archived' = archived \cup S

Next ==
    /\ raced => raced'
    /\ \/ UNCHANGED <<places, archived>>
       \/ \E x \in Items : File(x) \/ Claim(x) \/ Retry(x)
       \/ \E x \in Items, s \in State : Finish(x, s)
       \/ \E S \in SUBSET Items, s \in State : Archive(S, s)

LedgerSpec == Init /\ [][Next]_vars
=============================================================================
