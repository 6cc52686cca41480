------------------------------- MODULE LoopLock -------------------------------
(***************************************************************************)
(* The repository-wide loop lock of the goal engine (kill_switch.rs): a    *)
(* lock file whose creation is exclusive and whose content carries the     *)
(* time of acquisition.  acquire_lock is not one step: it reads the file,  *)
(* removes it when it is stale, creates it exclusively and then writes it, *)
(* each a system call between which other processes run.  A process may    *)
(* die anywhere and leave the file behind.                                 *)
(*                                                                         *)
(* Times are kept as ages, capped at MaxAge: nothing distinguishes ages    *)
(* beyond it, so the clock needs no bound.                                 *)
(***************************************************************************)
EXTENDS Naturals

CONSTANTS
  Procs,    \* the processes that may run a loop in the repository
  None,     \* no lock file
  MaxAge    \* LOOP_LOCK_MAX_AGE_SECS

ASSUME LockAssumption == None \notin Procs /\ MaxAge \in Nat \ {0}

VARIABLES
  pc,       \* where each process is in acquire_lock and its loop
  file,     \* the file .loop-active: who created it, and what it says
  stamp,    \* age of the acquired_at each process puts into its lock
  broken    \* history: some process has judged a lock stale

vars == <<pc, file, stamp, broken>>

\* idle: not in a loop; remove, create, write: inside acquire_lock; hold: the
\* LoopLockGuard is alive.
Places == {"idle", "remove", "create", "write", "hold"}

Ages == 0..MaxAge

\* written: the JSON content is there (a created, unwritten file does not
\* parse); age: of acquired_at; mtime: age of the file's modification time.
LockFile == [by: Procs, written: BOOLEAN, age: Ages, mtime: Ages]

NoFile == [by |-> None, written |-> FALSE, age |-> 0, mtime |-> 0]

FileExists == file.by # None

Goto(p, place) == pc' = [pc EXCEPT ![p] = place]

-----------------------------------------------------------------------------

\* read_lock_info and the age test.  A fresh lock refuses the caller, and so
\* does a file that does not parse.
FindNoLock(p) ==
  /\ pc[p] = "idle"
  /\ ~FileExists
  /\ Goto(p, "create")
  /\ stamp' = [stamp EXCEPT ![p] = 0]
  /\ UNCHANGED <<file, broken>>

\* Fault: the age test is inverted.
FaultIsStale(f) == f.by # None /\ f.written /\ f.age < MaxAge

IsStale(f) == f.by # None /\ f.written /\ f.age >= MaxAge

FindStaleLock(p) ==
  /\ pc[p] = "idle"
  /\ IsStale(file)
  /\ Goto(p, "remove")
  /\ broken' = TRUE
  /\ UNCHANGED <<file, stamp>>

\* remove_file on whatever the path names now; the new stamp is taken next.
RemoveStale(p) ==
  /\ pc[p] = "remove"
  /\ file' = NoFile
  /\ Goto(p, "create")
  /\ stamp' = [stamp EXCEPT ![p] = 0]
  /\ UNCHANGED broken

\* Fault: the file is created without O_EXCL.
FaultMayCreate == TRUE

\* O_CREAT | O_EXCL succeeds only where there is no file.
MayCreate == ~FileExists

CreateLock(p) ==
  /\ pc[p] = "create"
  /\ MayCreate
  /\ file' = [by |-> p, written |-> FALSE, age |-> stamp[p], mtime |-> 0]
  /\ Goto(p, "write")
  /\ UNCHANGED <<stamp, broken>>

CreateRefused(p) ==
  /\ pc[p] = "create"
  /\ ~MayCreate
  /\ Goto(p, "idle")
  /\ UNCHANGED <<file, stamp, broken>>

\* write_all goes to the inode p created, which the path may no longer name.
WriteLock(p) ==
  /\ pc[p] = "write"
  /\ file' = IF file.by = p THEN [file EXCEPT !.written = TRUE, !.mtime = 0] ELSE file
  /\ Goto(p, "hold")
  /\ UNCHANGED <<stamp, broken>>

\* A failed write returns the error and leaves the file as it is.
WriteFails(p) ==
  /\ pc[p] = "write"
  /\ Goto(p, "idle")
  /\ UNCHANGED <<file, stamp, broken>>

\* The guard's drop removes whatever file the path names.
Release(p) ==
  /\ pc[p] = "hold"
  /\ file' = NoFile
  /\ Goto(p, "idle")
  /\ UNCHANGED <<stamp, broken>>

\* Fault: the refresh pushes acquired_at forward instead of setting it to now.
FaultRefreshed(f) == [f EXCEPT !.age = f.age - 1]

\* refresh_lock: opened for append and closed again, only mtime changes.
Refreshed(f) == [f EXCEPT !.mtime = 0]

Refresh(p) ==
  /\ pc[p] = "hold"
  /\ FileExists
  /\ file' = Refreshed(file)
  /\ UNCHANGED <<pc, stamp, broken>>

\* The process dies: its guard never runs.
Crash(p) ==
  /\ pc[p] # "idle"
  /\ Goto(p, "idle")
  /\ UNCHANGED <<file, stamp, broken>>

Older(age) == IF age < MaxAge THEN age + 1 ELSE age

Tick ==
  /\ stamp' = [p \in Procs |-> Older(stamp[p])]
  /\ file' = IF FileExists
             THEN [file EXCEPT !.age = Older(file.age), !.mtime = Older(file.mtime)]
             ELSE file
  /\ UNCHANGED <<pc, broken>>

Init ==
  /\ pc = [p \in Procs |-> "idle"]
  /\ file = NoFile
  /\ stamp = [p \in Procs |-> 0]
  /\ broken = FALSE

Acquire(p) ==
  \/ FindNoLock(p) \/ FindStaleLock(p) \/ RemoveStale(p)
  \/ CreateLock(p) \/ CreateRefused(p) \/ WriteLock(p)

Next ==
  \/ \E p \in Procs :
       Acquire(p) \/ WriteFails(p) \/ Release(p) \/ Refresh(p) \/ Crash(p)
  \/ Tick

Spec == Init /\ [][Next]_vars

\* Callers keep trying to start loops (a scheduler restarts them), a call that
\* has begun runs on, and time passes.  Nothing makes a loop end.  A process
\* that judges the lock stale again and again is not killed before its
\* remove_file every single time.
Fairness ==
  /\ WF_vars(Tick)
  /\ \A p \in Procs : WF_vars(Acquire(p)) /\ SF_vars(RemoveStale(p))

FairSpec == Spec /\ Fairness

-----------------------------------------------------------------------------
(* Properties.                                                             *)

\* The variables hold places, lock files and ages.
TypeOK ==
  /\ pc \in [Procs -> Places]
  /\ file \in LockFile \cup {NoFile}
  /\ stamp \in [Procs -> Ages]
  /\ broken \in BOOLEAN

InLoop(p) == pc[p] \in {"write", "hold"}

\* As long as nobody had to break a stale lock, at most one process is past
\* the exclusive create, whatever crashed, failed to write or was released.
ExclusiveUntilBroken ==
  ~broken => \A p, q \in Procs : InLoop(p) /\ InLoop(q) => p = q

\* Two loops run at once only if one of their locks is past the expiry:
\* acquire_lock "fails if an active (non-stale) lock already exists".
FreshHoldersExclusive ==
  \A p, q \in Procs :
    /\ pc[p] = "hold" /\ stamp[p] < MaxAge
    /\ pc[q] = "hold" /\ stamp[q] < MaxAge
    => p = q

\* A written lock that no live process holds goes away: it expires and the
\* next caller removes it.
DeadLockExpires ==
  (FileExists /\ file.written /\ \A p \in Procs : ~InLoop(p))
    ~> (~FileExists \/ \E p \in Procs : InLoop(p))

=============================================================================
