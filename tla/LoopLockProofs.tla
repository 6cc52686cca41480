---------------------------- MODULE LoopLockProofs ----------------------------
(***************************************************************************)
(* Mutual exclusion of the loop lock for any number of processes and any   *)
(* expiry, as long as no stale lock had to be broken: the exclusive create *)
(* decides, and only the process that created the file removes it.         *)
(***************************************************************************)
EXTENDS LoopLock, TLAPS

\* Before any lock is broken nobody is about to remove one, and the process
\* past its create is the one the lock file names.
IInv ==
  /\ TypeOK
  /\ ~broken => \A p \in Procs : pc[p] # "remove" /\ (InLoop(p) => file.by = p)

\* No lock and no process at first.
LEMMA InitIInv == Init => IInv
<1>1. 0 \in Ages
  BY LockAssumption DEF Ages
<1>2. Init => TypeOK
  BY <1>1 DEF Init, TypeOK, Places
<1> QED BY <1>2 DEF Init, IInv, InLoop

\* Ages stay ages.
LEMMA OlderAge == \A age \in Ages : Older(age) \in Ages
BY LockAssumption DEF Ages, Older

\* Every step keeps the types.
LEMMA NextTypeOK == TypeOK /\ [Next]_vars => TypeOK'
<1> SUFFICES ASSUME TypeOK, [Next]_vars PROVE TypeOK'
  OBVIOUS
<1> USE LockAssumption DEF TypeOK, Places, Goto
<1>0. 0 \in Ages
  BY DEF Ages
<1>1. ASSUME NEW p \in Procs, Acquire(p) PROVE TypeOK'
  <2>1. CASE FindNoLock(p)
    BY <2>1, <1>0 DEF FindNoLock
  <2>2. CASE FindStaleLock(p)
    BY <2>2 DEF FindStaleLock
  <2>3. CASE RemoveStale(p)
    BY <2>3, <1>0 DEF RemoveStale
  <2>4. CASE CreateLock(p)
    <3>1. [by |-> p, written |-> FALSE, age |-> stamp[p], mtime |-> 0] \in LockFile
      BY <1>0 DEF LockFile
    <3>2. file' \in LockFile
      BY <2>4, <3>1, Zenon DEF CreateLock
    <3>3. pc' \in [Procs -> Places] /\ UNCHANGED <<stamp, broken>>
      BY <2>4 DEF CreateLock
    <3> QED BY <3>2, <3>3
  <2>5. CASE CreateRefused(p)
    BY <2>5 DEF CreateRefused
  <2>6. CASE WriteLock(p)
    <3>1. CASE file.by = p
      <4>1. file \in LockFile
        BY <3>1 DEF NoFile
      <4>2. [file EXCEPT !.written = TRUE, !.mtime = 0] \in LockFile
        BY <4>1, <1>0 DEF LockFile
      <4> QED BY <2>6, <3>1, <4>2 DEF WriteLock
    <3>2. CASE file.by # p
      BY <2>6, <3>2 DEF WriteLock
    <3> QED BY <3>1, <3>2
  <2> QED BY <1>1, <2>1, <2>2, <2>3, <2>4, <2>5, <2>6 DEF Acquire
<1>2. ASSUME NEW p \in Procs, WriteFails(p) \/ Crash(p) PROVE TypeOK'
  BY <1>2 DEF WriteFails, Crash
<1>3. ASSUME NEW p \in Procs, Release(p) PROVE TypeOK'
  BY <1>3 DEF Release
<1>4. ASSUME NEW p \in Procs, Refresh(p) PROVE TypeOK'
  BY <1>4, <1>0 DEF Refresh, Refreshed, FileExists, LockFile, NoFile
<1>5. CASE Tick
  <2>1. stamp' \in [Procs -> Ages]
    BY <1>5, OlderAge DEF Tick
  <2>2. file' \in LockFile \cup {NoFile}
    <3>1. CASE file \in LockFile
      <4>1. [file EXCEPT !.age = Older(file.age), !.mtime = Older(file.mtime)] \in LockFile
        BY <3>1, OlderAge DEF LockFile
      <4> QED BY <1>5, <3>1, <4>1 DEF Tick
    <3>2. CASE file = NoFile
      BY <1>5, <3>2 DEF Tick, FileExists, NoFile
    <3> QED BY <3>1, <3>2
  <2> QED BY <1>5, <2>1, <2>2 DEF Tick
<1>6. CASE UNCHANGED vars
  BY <1>6 DEF vars
<1> QED BY <1>1, <1>2, <1>3, <1>4, <1>5, <1>6 DEF Next

\* Every step keeps the invariant.
LEMMA NextIInv == IInv /\ [Next]_vars => IInv'
<1> SUFFICES ASSUME IInv, [Next]_vars PROVE IInv'
  OBVIOUS
<1>1. TypeOK'
  BY NextTypeOK DEF IInv
<1>2. ASSUME ~broken', NEW q \in Procs
      PROVE  (pc[q] # "remove" /\ (InLoop(q) => file.by = q))'
  <2> USE <1>2, LockAssumption DEF IInv, TypeOK, Goto, InLoop
  <2>1. ASSUME NEW p \in Procs, Acquire(p)
        PROVE  (pc[q] # "remove" /\ (InLoop(q) => file.by = q))'
    <3>1. CASE FindNoLock(p)
      BY <3>1 DEF FindNoLock
    <3>2. CASE FindStaleLock(p)
      BY <3>2 DEF FindStaleLock
    <3>3. CASE RemoveStale(p)
      BY <3>3 DEF RemoveStale
    <3>4. CASE CreateLock(p)
      BY <3>4 DEF CreateLock, MayCreate, FileExists
    <3>5. CASE CreateRefused(p)
      BY <3>5 DEF CreateRefused
    <3>6. CASE WriteLock(p)
      BY <3>6 DEF WriteLock, LockFile, NoFile
    <3> QED BY <2>1, <3>1, <3>2, <3>3, <3>4, <3>5, <3>6 DEF Acquire
  <2>2. ASSUME NEW p \in Procs, WriteFails(p) \/ Crash(p)
        PROVE  (pc[q] # "remove" /\ (InLoop(q) => file.by = q))'
    BY <2>2 DEF WriteFails, Crash
  <2>3. ASSUME NEW p \in Procs, Release(p)
        PROVE  (pc[q] # "remove" /\ (InLoop(q) => file.by = q))'
    BY <2>3 DEF Release
  <2>4. ASSUME NEW p \in Procs, Refresh(p)
        PROVE  (pc[q] # "remove" /\ (InLoop(q) => file.by = q))'
    BY <2>4 DEF Refresh, Refreshed, LockFile, NoFile
  <2>5. CASE Tick
    BY <2>5 DEF Tick, LockFile, NoFile
  <2>6. CASE UNCHANGED vars
    BY <2>6 DEF vars
  <2> QED BY <2>1, <2>2, <2>3, <2>4, <2>5, <2>6 DEF Next
<1> QED BY <1>1, <1>2 DEF IInv

\* The lock file and the places of the processes agree (kill_switch.rs).
THEOREM LockInvariant == Spec => []IInv
BY InitIInv, NextIInv, PTL DEF Spec

\* Type correctness of the lock protocol.
THEOREM LockTypeCorrect == Spec => []TypeOK
<1>1. IInv => TypeOK
  BY DEF IInv
<1> QED BY <1>1, LockInvariant, PTL

\* Until a stale lock is broken at most one process is past the create, for
\* any number of processes, crashes, failed writes and releases.
THEOREM MutualExclusion == Spec => []ExclusiveUntilBroken
<1>1. IInv => ExclusiveUntilBroken
  BY DEF IInv, ExclusiveUntilBroken
<1> QED BY <1>1, LockInvariant, PTL

\* The lock file on disk is the one the process in the loop created.
FileIsHolders ==
  ~broken => \A p \in Procs : InLoop(p) => file.by = p

\* ... and until then the lock file is that process's own, so that only its own
\* guard can remove it.
THEOREM LockFileOwned == Spec => []FileIsHolders
<1>1. IInv => FileIsHolders
  BY DEF IInv, FileIsHolders
<1> QED BY <1>1, LockInvariant, PTL

=============================================================================
