------------------------- MODULE RuntimeLockProofs -------------------------
(***************************************************************************)
(* What the ownership lock guarantees for any number of startups,           *)
(* clear-stale invocations and pids.                                        *)
(***************************************************************************)
EXTENDS RuntimeLock, TLAPS

\* A running startup that created the file still finds it at the path, unless a
\* clear-stale misfired.
HolderAtPath ==
    (\A o \in Operator : pc[o] # "misfired") =>
        \A d \in Daemon : pc[d] \in Holding => lock = d

\* How far a startup has come when its file, or its whole record, exists.
FileProgress ==
    /\ \A d \in written : pc[d] \notin {"new", "create", "write"}
    /\ \A d \in Daemon : pc[d] \in {"owner", "unlink"} => d \in written
    /\ lock \in Daemon => pc[lock] \notin {"new", "create", "done"}

\* What a clear-stale has read when it judges, and when it has judged.
VerdictFacts ==
    \A o \in Operator :
        /\ pc[o] = "classify" => seen[o] \in written
        /\ pc[o] = "unlinkStale" => seen[o] \in written /\ pc[seen[o]] \in Finished

IInv == TypeOK /\ HolderAtPath /\ FileProgress /\ VerdictFacts

-----------------------------------------------------------------------------
\* The initial states have the types and satisfy the invariant.
LEMMA InitIInv == Init => IInv
BY DisjointRoles DEF Init, IInv, TypeOK, HolderAtPath, FileProgress, VerdictFacts,
    LockFile, Label, Holding, Finished, Proc

\* Every step keeps the variables in their types.
LEMMA TypeStep == TypeOK /\ [Next]_vars => TypeOK'
<1>1. SUFFICES ASSUME TypeOK, [Next]_vars PROVE TypeOK'
  OBVIOUS
<1>2. ASSUME NEW p \in Proc, Start(p) PROVE TypeOK'
  BY <1>1, <1>2 DEF TypeOK, Start, Become, Goto, Label, Proc
<1>3. ASSUME NEW p \in Proc, Crash(p) PROVE TypeOK'
  BY <1>1, <1>3 DEF TypeOK, Crash, Goto, Label, Finished
<1>4. ASSUME NEW d \in Daemon, DaemonStep(d) PROVE TypeOK'
  BY <1>1, <1>4 DEF TypeOK, DaemonStep, CreateNew, WriteRecord, WriteFails,
     WriteAndUnlinkFail, UnlinkFails, ReleaseRead, ReleaseUnlink, Become, Goto, Label, Holding, Finished, LockFile, Proc
<1>5. ASSUME NEW o \in Operator, OperatorStep(o) PROVE TypeOK'
  BY <1>1, <1>5 DEF TypeOK, OperatorStep, ClearRead, ClearClassify, ClearUnlink, UnlinkFails,
     Become, Goto, Label, Finished, LockFile, Proc
<1>6. ASSUME NEW i \in Pid, OtherStarts(i) \/ OtherExits(i) PROVE TypeOK'
  BY <1>1, <1>6 DEF TypeOK, OtherStarts, OtherExits
<1>7. CASE UNCHANGED vars
  BY <1>1, <1>7 DEF TypeOK, vars
<1>8. QED
  BY <1>1, <1>2, <1>3, <1>4, <1>5, <1>6, <1>7 DEF Next

\* A finished process takes no further step.
LEMMA FinishedStays ==
  ASSUME TypeOK, [Next]_vars, NEW p \in Proc, pc[p] \in Finished
  PROVE  pc'[p] = pc[p]
<1>1. ASSUME NEW q \in Proc, Start(q) \/ Crash(q) PROVE pc'[p] = pc[p]
  BY <1>1 DEF TypeOK, Start, Crash, Running, Become, Goto, Finished
<1>2. ASSUME NEW d \in Daemon, DaemonStep(d) PROVE pc'[p] = pc[p]
  BY <1>2 DEF TypeOK, DaemonStep, CreateNew, WriteRecord, WriteFails,
     WriteAndUnlinkFail, UnlinkFails, ReleaseRead, ReleaseUnlink, Become, Goto, Finished
<1>3. ASSUME NEW o \in Operator, OperatorStep(o) PROVE pc'[p] = pc[p]
  BY <1>3 DEF TypeOK, OperatorStep, ClearRead, ClearClassify, ClearUnlink, UnlinkFails,
     Become, Goto, Finished
<1>4. ASSUME NEW i \in Pid, OtherStarts(i) \/ OtherExits(i) PROVE pc'[p] = pc[p]
  BY <1>4 DEF OtherStarts, OtherExits
<1>5. CASE UNCHANGED vars
  BY <1>5 DEF vars
<1>6. QED
  BY <1>1, <1>2, <1>3, <1>4, <1>5 DEF Next

-----------------------------------------------------------------------------
\* The path is only freed by the holder itself, so the next create_new finds it
\* taken for as long as a holder runs.
LEMMA HolderStep == IInv /\ [Next]_vars => HolderAtPath'
<1>1. SUFFICES ASSUME IInv, [Next]_vars,
                      \A o \in Operator : pc'[o] # "misfired",
                      NEW d \in Daemon, pc'[d] \in Holding
               PROVE  lock' = d
  BY DEF HolderAtPath
<1>2. \A o \in Operator : pc[o] # "misfired"
  <2>1. ASSUME NEW o \in Operator, pc[o] = "misfired" PROVE FALSE
    BY <1>1, <2>1, FinishedStays DEF IInv, Finished, Proc
  <2>2. QED BY <2>1
<1>3. \A e \in Daemon : pc[e] \in Holding => lock = e
  BY <1>1, <1>2 DEF IInv, HolderAtPath
<1>4. ASSUME NEW p \in Proc, Start(p) \/ Crash(p) PROVE lock' = d
  BY <1>1, <1>3, <1>4 DEF IInv, TypeOK, Start, Crash, Become, Goto, Holding, Proc
<1>5. ASSUME NEW e \in Daemon, DaemonStep(e) PROVE lock' = d
  <2>1. CASE CreateNew(e)
    BY <1>1, <1>3, <2>1, DisjointRoles DEF IInv, TypeOK, CreateNew, Goto, Holding, Proc
  <2>2. CASE WriteRecord(e)
    BY <1>1, <1>3, <2>2 DEF IInv, TypeOK, WriteRecord, Become, Goto, Holding, Proc
  <2>3. CASE WriteFails(e) \/ ReleaseUnlink(e)
    BY <1>1, <1>3, <2>3 DEF IInv, TypeOK, WriteFails, ReleaseUnlink, Become, Goto, Holding, Proc
  <2>4. CASE ReleaseRead(e)
    BY <1>1, <1>3, <2>4 DEF IInv, TypeOK, ReleaseRead, Goto, Holding, Proc
  <2>5. CASE WriteAndUnlinkFail(e) \/ UnlinkFails(e)
    BY <1>1, <1>3, <2>5 DEF IInv, TypeOK, WriteAndUnlinkFail, UnlinkFails, Become, Goto, Holding, Proc
  <2>6. QED BY <1>5, <2>1, <2>2, <2>3, <2>4, <2>5 DEF DaemonStep
<1>6. ASSUME NEW o \in Operator, OperatorStep(o) PROVE lock' = d
  <2>1. pc[d] \in Holding
    BY <1>1, <1>6, DisjointRoles DEF IInv, TypeOK, OperatorStep, ClearRead, ClearClassify,
       ClearUnlink, UnlinkFails, Become, Goto, Proc
  <2>2. CASE ClearRead(o) \/ ClearClassify(o) \/ UnlinkFails(o)
    BY <1>3, <2>1, <2>2 DEF ClearRead, ClearClassify, UnlinkFails
  <2>3. CASE ClearUnlink(o)
    BY <1>1, <1>3, <2>1, <2>3 DEF IInv, TypeOK, ClearUnlink, Goto, Proc
  <2>4. QED BY <1>6, <2>2, <2>3 DEF OperatorStep
<1>7. ASSUME NEW i \in Pid, OtherStarts(i) \/ OtherExits(i) PROVE lock' = d
  BY <1>1, <1>3, <1>7 DEF OtherStarts, OtherExits
<1>8. CASE UNCHANGED vars
  BY <1>1, <1>3, <1>8 DEF vars
<1>9. QED
  BY <1>1, <1>4, <1>5, <1>6, <1>7, <1>8 DEF Next

\* A startup's file and record appear in order, and its own endings remove the file.
LEMMA ProgressStep == IInv /\ [Next]_vars => FileProgress'
<1>1. SUFFICES ASSUME IInv, [Next]_vars PROVE FileProgress'
  OBVIOUS
<1> USE DisjointRoles
<1>2. ASSUME NEW p \in Proc, Start(p) \/ Crash(p) PROVE FileProgress'
  BY <1>1, <1>2 DEF IInv, TypeOK, FileProgress, Start, Crash, Running, Become, Goto, Finished, Proc
<1>3. ASSUME NEW d \in Daemon, CreateNew(d) PROVE FileProgress'
  BY <1>1, <1>3 DEF IInv, TypeOK, FileProgress, CreateNew, Goto, Proc
<1>4. ASSUME NEW d \in Daemon, WriteRecord(d) PROVE FileProgress'
  BY <1>1, <1>4 DEF IInv, TypeOK, FileProgress, WriteRecord, Become, Goto, Proc
<1>5. ASSUME NEW d \in Daemon, WriteFails(d) \/ ReleaseUnlink(d) PROVE FileProgress'
  BY <1>1, <1>5 DEF IInv, TypeOK, FileProgress, WriteFails, ReleaseUnlink, Become, Goto, Proc
<1>6. ASSUME NEW d \in Daemon, ReleaseRead(d) PROVE FileProgress'
  BY <1>1, <1>6 DEF IInv, TypeOK, FileProgress, ReleaseRead, Invalid, Goto, Proc
<1>7. ASSUME NEW d \in Daemon, WriteAndUnlinkFail(d) \/ UnlinkFails(d) PROVE FileProgress'
  BY <1>1, <1>7 DEF IInv, TypeOK, FileProgress, WriteAndUnlinkFail, UnlinkFails, Become, Goto, Proc
<1>8. ASSUME NEW o \in Operator, OperatorStep(o) PROVE FileProgress'
  BY <1>1, <1>8 DEF IInv, TypeOK, FileProgress, OperatorStep, ClearRead, ClearClassify,
     ClearUnlink, UnlinkFails, Become, Goto, Proc
<1>9. ASSUME NEW i \in Pid, OtherStarts(i) \/ OtherExits(i) PROVE FileProgress'
  BY <1>1, <1>9 DEF IInv, FileProgress, OtherStarts, OtherExits
<1>10. CASE UNCHANGED vars
  BY <1>1, <1>10 DEF IInv, FileProgress, vars
<1>11. QED
  BY <1>1, <1>2, <1>3, <1>4, <1>5, <1>6, <1>7, <1>8, <1>9, <1>10 DEF Next, DaemonStep

\* A stale verdict is given on a finished daemon's record and stays true.
LEMMA VerdictStep == IInv /\ [Next]_vars => VerdictFacts'
<1>1. SUFFICES ASSUME IInv, [Next]_vars, NEW o \in Operator
               PROVE  /\ pc'[o] = "classify" => seen'[o] \in written'
                      /\ pc'[o] = "unlinkStale" =>
                           seen'[o] \in written' /\ pc'[seen'[o]] \in Finished
  BY DEF VerdictFacts
<1>2. CASE pc'[o] = pc[o] /\ seen'[o] = seen[o] /\ written \subseteq written'
  BY <1>1, <1>2, FinishedStays DEF IInv, TypeOK, VerdictFacts, Proc
<1> USE DisjointRoles
<1>3. ASSUME NEW p \in Proc, Start(p) \/ Crash(p)
      PROVE  \/ pc'[o] = pc[o] /\ seen'[o] = seen[o] /\ written \subseteq written'
             \/ pc'[o] \notin {"classify", "unlinkStale"}
  BY <1>1, <1>3 DEF IInv, TypeOK, Start, Crash, Become, Goto, Proc
<1>4. ASSUME NEW d \in Daemon, DaemonStep(d)
      PROVE  pc'[o] = pc[o] /\ seen'[o] = seen[o] /\ written \subseteq written'
  BY <1>1, <1>4 DEF IInv, TypeOK, DaemonStep, CreateNew, WriteRecord, WriteFails,
     WriteAndUnlinkFail, UnlinkFails, ReleaseRead, ReleaseUnlink, Become, Goto, Proc
<1>5. ASSUME NEW q \in Operator, q # o, OperatorStep(q)
      PROVE  pc'[o] = pc[o] /\ seen'[o] = seen[o] /\ written \subseteq written'
  BY <1>1, <1>5 DEF IInv, TypeOK, OperatorStep, ClearRead, ClearClassify, ClearUnlink, UnlinkFails,
     Become, Goto, Proc
<1>6. ASSUME ClearRead(o)
      PROVE  /\ pc'[o] = "classify" => seen'[o] \in written'
             /\ pc'[o] # "unlinkStale"
  BY <1>1, <1>6 DEF IInv, TypeOK, ClearRead, Invalid, Goto, Proc
<1>7. ASSUME ClearClassify(o), pc'[o] = "unlinkStale"
      PROVE  seen'[o] \in written' /\ pc'[seen'[o]] \in Finished
  <2>1. /\ seen[o] \in written /\ seen[o] \in Daemon
        /\ Stale(seen[o])
        /\ seen' = seen /\ written' = written
    BY <1>1, <1>7 DEF IInv, TypeOK, VerdictFacts, ClearClassify, Become, Goto, Proc
  <2>2. ~Running(seen[o])
    BY <2>1 DEF Stale, PidRunning, Proc
  <2>3. pc[seen[o]] \in Finished
    BY <1>1, <2>1, <2>2 DEF IInv, FileProgress, Running
  <2>4. QED
    BY <1>1, <2>1, <2>3, FinishedStays DEF IInv, Proc
<1>8. ASSUME ClearClassify(o) PROVE pc'[o] # "classify"
  BY <1>1, <1>8 DEF IInv, TypeOK, ClearClassify, Become, Goto, Proc
<1>9. ASSUME ClearUnlink(o) \/ UnlinkFails(o) PROVE pc'[o] \notin {"classify", "unlinkStale"}
  BY <1>1, <1>9 DEF IInv, TypeOK, ClearUnlink, UnlinkFails, Goto, Proc
<1>10. ASSUME NEW i \in Pid, OtherStarts(i) \/ OtherExits(i)
       PROVE  pc'[o] = pc[o] /\ seen'[o] = seen[o] /\ written \subseteq written'
  BY <1>10 DEF OtherStarts, OtherExits
<1>11. CASE UNCHANGED vars
  BY <1>2, <1>11 DEF vars
<1>12. QED
  BY <1>1, <1>2, <1>3, <1>4, <1>5, <1>6, <1>7, <1>8, <1>9, <1>10, <1>11
     DEF Next, OperatorStep

-----------------------------------------------------------------------------
\* The invariant is inductive.
LEMMA Invariance == Spec => []IInv
<1>1. IInv /\ [Next]_vars => IInv'
  BY TypeStep, HolderStep, ProgressStep, VerdictStep DEF IInv
<1>2. QED
  BY InitIInv, <1>1, PTL DEF Spec

\* The variables of the lock protocol keep their types in every behaviour.
THEOREM TypeCorrect == Spec => []TypeOK
BY Invariance, PTL DEF IInv

\* Ownership is exclusive for any number of startups until a clear-stale unlinks
\* the file of a running one.
THEOREM Exclusive == Spec => []ExclusiveUntilMisfire
<1>1. IInv => ExclusiveUntilMisfire
  BY DEF IInv, HolderAtPath, ExclusiveUntilMisfire
<1>2. QED
  BY Invariance, <1>1, PTL

\* No startup that ends by itself leaves its own lock file behind.
THEOREM NoLeak == Spec => []NoLeakedLock
<1>1. IInv => NoLeakedLock
  BY DEF IInv, FileProgress, NoLeakedLock
<1>2. QED
  BY Invariance, <1>1, PTL

\* clear-stale never calls the record of a running daemon stale.
THEOREM StaleVerdict == Spec => []StaleVerdictSound
<1>1. IInv => StaleVerdictSound
  BY DEF IInv, VerdictFacts, StaleVerdictSound, Finished, Holding
<1>2. QED
  BY Invariance, <1>1, PTL
=============================================================================
