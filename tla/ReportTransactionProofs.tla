----------------------- MODULE ReportTransactionProofs -----------------------
(***************************************************************************)
(* The safety properties of ReportTransaction, for every set of processes  *)
(* and every bound, from the inductive invariant IInv.                     *)
(***************************************************************************)
EXTENDS ReportTransactionInv, TLAPS

(* The types in two parts: the SMT backend takes a Boolean variable for a  *)
(* value, so the flags are proved apart from the other variables.          *)
DataTypeOK ==
  /\ {target, staged, backup, original, before} \subseteq Content
  /\ jrn \in {"none", "torn", "whole", "corrupt"} /\ phase \in Phases
  /\ lock \in Procs \cup {NoProc}
  /\ pc \in [Procs -> Labels] /\ mode \in [Procs -> {"start", "failed", "commit"}]
  /\ outcome \in [Procs -> {"none", "ok", "err", "conflict"}]
  /\ {ver, remote, faults, crashes, edits} \subseteq Nat

FlagsTypeOK == {txn, tail, existed, touched, committed, cut} \subseteq BOOLEAN

(* The phases, and the label that follows the append of each.              *)
LEMMA PhaseFacts ==
  /\ Appending = {"BackingUp", "BackedUp", "Installing", "Installed", "Restoring", "Restored"}
  /\ Phases = Appending \cup {"Prepared"}
BY DEF Appending, Phases

(* Where a process goes when a phase is journaled.                         *)
LEMMA AfterAppendFacts ==
  /\ existed => AfterAppend("BackingUp") = "backup"
  /\ ~existed => AfterAppend("BackingUp") = "BackedUp"
  /\ AfterAppend("BackedUp") = "Installing"
  /\ AfterAppend("Installing") = "check" /\ AfterAppend("Installed") = "cleanup"
  /\ AfterAppend("Restoring") = "unreplace" /\ AfterAppend("Restored") = "cleanup"
BY DEF AfterAppend

(* Recovery either refuses or goes on with one of four steps.              *)
LEMMA RecoveryLabels ==
  Recovery \in {"refuse", "cleanup", "Restoring", "unreplace", "finish"}
BY DEF Recovery, RecoverExisting, RecoverAbsent

(* What the types need of Content and of the labels.                       *)
LEMMA Contents ==
  /\ Absent \in Content /\ Edited \in Content /\ 0 \in Content
  /\ \A n \in Nat : DryRun(n) \in Content /\ Applied(n) \in Content
BY DEF Content, DryRun, Applied

(* The labels and phases that steps name are labels.                       *)
LEMMA LabelFacts ==
  /\ {"idle", "recover", "unreplace", "restore", "finish", "cleanup", "prepare", "stage",
      "manifest", "guard", "publish", "restage", "snapshot", "backup", "check",
      "install"} \subseteq Labels
  /\ Appending \subseteq Labels
  /\ {"BackingUp", "BackedUp", "Installing", "Installed", "Restoring", "Restored"} \subseteq Labels
BY DEF Labels, Appending, Phases

(* No step gives a flag anything but a Boolean.                            *)
LEMMA FlagsStep == FlagsTypeOK /\ [Next]_vars => FlagsTypeOK'
<1> SUFFICES ASSUME FlagsTypeOK, [Next]_vars PROVE FlagsTypeOK'
  OBVIOUS
<1> USE DEF FlagsTypeOK
<1>1. ASSUME NEW p \in Procs, Acquire(p) PROVE FlagsTypeOK'
  BY <1>1, Zenon DEF Acquire, disk
<1>2. ASSUME NEW p \in Procs, LockHeld(p) PROVE FlagsTypeOK'
  BY <1>2, Zenon DEF LockHeld, disk
<1>3. ASSUME NEW p \in Procs, Prepare(p) PROVE FlagsTypeOK'
  BY <1>3, Zenon DEF Prepare
<1>4. ASSUME NEW p \in Procs, PrepareRefuses(p) PROVE FlagsTypeOK'
  BY <1>4, Zenon DEF PrepareRefuses, disk
<1>5. ASSUME NEW p \in Procs, StageDryRun(p) PROVE FlagsTypeOK'
  BY <1>5, Zenon DEF StageDryRun, history
<1>6. ASSUME NEW p \in Procs, WriteManifest(p) PROVE FlagsTypeOK'
  BY <1>6, Zenon DEF WriteManifest, history
<1>7. ASSUME NEW p \in Procs, Declined(p) PROVE FlagsTypeOK'
  BY <1>7, Zenon DEF Declined, disk, history
<1>8. ASSUME NEW p \in Procs, Apply(p) PROVE FlagsTypeOK'
  BY <1>8, Zenon DEF Apply, disk
<1>9. ASSUME NEW p \in Procs, ApplyFails(p) PROVE FlagsTypeOK'
  BY <1>9, Zenon DEF ApplyFails, disk
<1>10. ASSUME NEW p \in Procs, Publish(p) PROVE FlagsTypeOK'
  BY <1>10, Zenon DEF Publish, disk, history
<1>11. ASSUME NEW p \in Procs, Restage(p) PROVE FlagsTypeOK'
  BY <1>11, Zenon DEF Restage, history
<1>12. ASSUME NEW p \in Procs, Snapshot(p) PROVE FlagsTypeOK'
  BY <1>12, Zenon DEF Snapshot, history
<1>13. ASSUME NEW p \in Procs, AppendPhase(p) PROVE FlagsTypeOK'
  BY <1>13, Zenon DEF AppendPhase, AppendFaults
<1>14. ASSUME NEW p \in Procs, BackUp(p) PROVE FlagsTypeOK'
  BY <1>14, Zenon DEF BackUp, history
<1>15. ASSUME NEW p \in Procs, CheckTarget(p) PROVE FlagsTypeOK'
  BY <1>15, Zenon DEF CheckTarget, disk, history
<1>16. ASSUME NEW p \in Procs, Install(p) PROVE FlagsTypeOK'
  BY <1>16, Zenon DEF Install, history
<1>17. ASSUME NEW p \in Procs, Recover(p) PROVE FlagsTypeOK'
  BY <1>17, Zenon DEF Recover, disk
<1>18. ASSUME NEW p \in Procs, Unreplace(p) PROVE FlagsTypeOK'
  BY <1>18, Zenon DEF Unreplace
<1>19. ASSUME NEW p \in Procs, Restore(p) PROVE FlagsTypeOK'
  BY <1>19, Zenon DEF Restore
<1>20. ASSUME NEW p \in Procs, Finish(p) PROVE FlagsTypeOK'
  BY <1>20, Zenon DEF Finish, disk
<1>21. ASSUME NEW p \in Procs, Cleanup(p) PROVE FlagsTypeOK'
  BY <1>21, Zenon DEF Cleanup, history
<1>22. ASSUME NEW p \in Procs, CleanupDone(p) PROVE FlagsTypeOK'
  BY <1>22, Zenon DEF CleanupDone
<1>23. ASSUME NEW p \in Procs, CleanupFails(p) PROVE FlagsTypeOK'
  BY <1>23, Zenon DEF CleanupFails, disk
<1>24. ASSUME NEW p \in Procs, Crash(p) PROVE FlagsTypeOK'
  BY <1>24, Zenon DEF Crash
<1>25. CASE OperatorEdits
  BY <1>25 DEF OperatorEdits
<1>26. CASE UNCHANGED vars
  BY <1>26 DEF vars, disk, history
<1> QED
  BY <1>1, <1>2, <1>3, <1>4, <1>5, <1>6, <1>7, <1>8, <1>9, <1>10, <1>11, <1>12, <1>13, <1>14,
     <1>15, <1>16, <1>17, <1>18, <1>19, <1>20, <1>21, <1>22, <1>23, <1>24, <1>25, <1>26 DEF Next,
     Step

(* Every step, a crash and an edit keep the types of the other variables.  *)
LEMMA DataStep == DataTypeOK /\ [Next]_vars => DataTypeOK'
<1> SUFFICES ASSUME DataTypeOK, [Next]_vars PROVE DataTypeOK'
  OBVIOUS
<1> USE Contents, LabelFacts, PhaseFacts
<1> USE DEF DataTypeOK, Fault, NoFault, Goto, Return, RollBack, Succeed, Fail, FinalReport
<1>1. ASSUME NEW p \in Procs, Acquire(p) PROVE DataTypeOK'
  BY <1>1 DEF Acquire, disk, budget
<1>2. ASSUME NEW p \in Procs, LockHeld(p) PROVE DataTypeOK'
  BY <1>2 DEF LockHeld, disk, procs, budget
<1>3. ASSUME NEW p \in Procs, Prepare(p) PROVE DataTypeOK'
  BY <1>3 DEF Prepare
<1>4. ASSUME NEW p \in Procs, PrepareRefuses(p) PROVE DataTypeOK'
  BY <1>4 DEF PrepareRefuses, disk, budget
<1>5. ASSUME NEW p \in Procs, StageDryRun(p) PROVE DataTypeOK'
  BY <1>5 DEF StageDryRun, history
<1>6. ASSUME NEW p \in Procs, WriteManifest(p) PROVE DataTypeOK'
  BY <1>6 DEF WriteManifest, history
<1>7. ASSUME NEW p \in Procs, Declined(p) PROVE DataTypeOK'
  BY <1>7 DEF Declined, disk, history, budget
<1>8. ASSUME NEW p \in Procs, Apply(p) PROVE DataTypeOK'
  BY <1>8 DEF Apply, disk, budget
<1>9. ASSUME NEW p \in Procs, ApplyFails(p) PROVE DataTypeOK'
  BY <1>9 DEF ApplyFails, disk, budget
<1>10. ASSUME NEW p \in Procs, Publish(p) PROVE DataTypeOK'
  BY <1>10 DEF Publish, disk, history
<1>11. ASSUME NEW p \in Procs, Restage(p) PROVE DataTypeOK'
  BY <1>11 DEF Restage, history
<1>12. ASSUME NEW p \in Procs, Snapshot(p) PROVE DataTypeOK'
  BY <1>12 DEF Snapshot, history
<1>13. ASSUME NEW p \in Procs, AppendPhase(p) PROVE DataTypeOK'
  BY <1>13, AfterAppendFacts DEF AppendPhase, AppendFaults, Appended
<1>14. ASSUME NEW p \in Procs, BackUp(p) PROVE DataTypeOK'
  BY <1>14 DEF BackUp, MoveToBackup, history
<1>15. ASSUME NEW p \in Procs, CheckTarget(p) PROVE DataTypeOK'
  BY <1>15 DEF CheckTarget, disk, history
<1>16. ASSUME NEW p \in Procs, Install(p) PROVE DataTypeOK'
  BY <1>16 DEF Install, MoveToTarget, history
<1>17. ASSUME NEW p \in Procs, Recover(p) PROVE DataTypeOK'
  BY <1>17, RecoveryLabels DEF Recover, AfterCleanup, disk, budget
<1>18. ASSUME NEW p \in Procs, Unreplace(p) PROVE DataTypeOK'
  BY <1>18 DEF Unreplace
<1>19. ASSUME NEW p \in Procs, Restore(p) PROVE DataTypeOK'
  BY <1>19 DEF Restore, MoveBack
<1>20. ASSUME NEW p \in Procs, Finish(p) PROVE DataTypeOK'
  BY <1>20 DEF Finish, disk
<1>21. ASSUME NEW p \in Procs, Cleanup(p) PROVE DataTypeOK'
  BY <1>21 DEF Cleanup, procs, history, budget
<1>22. ASSUME NEW p \in Procs, CleanupDone(p) PROVE DataTypeOK'
  BY <1>22 DEF CleanupDone, AfterCleanup, budget
<1>23. ASSUME NEW p \in Procs, CleanupFails(p) PROVE DataTypeOK'
  BY <1>23 DEF CleanupFails, disk
<1>24. ASSUME NEW p \in Procs, Crash(p) PROVE DataTypeOK'
  BY <1>24 DEF Crash
<1>25. CASE OperatorEdits
  BY <1>25 DEF OperatorEdits, procs
<1>26. CASE UNCHANGED vars
  BY <1>26 DEF vars, disk, procs, history, budget
<1> QED
  BY <1>1, <1>2, <1>3, <1>4, <1>5, <1>6, <1>7, <1>8, <1>9, <1>10, <1>11, <1>12, <1>13, <1>14,
     <1>15, <1>16, <1>17, <1>18, <1>19, <1>20, <1>21, <1>22, <1>23, <1>24, <1>25, <1>26 DEF Next,
     Step

(* The types of all but the flags, in every state.                         *)
LEMMA ReportTypes == Spec => []DataTypeOK
<1>1. Init => DataTypeOK
  BY Contents, LabelFacts, PhaseFacts DEF Init, DataTypeOK
<1> QED
  BY <1>1, DataStep, PTL DEF Spec

-----------------------------------------------------------------------------
(* The conjuncts of IInv that speak of the disk alone.                     *)
DiskPart == DiskInv /\ BackupInv /\ DecidedInv /\ KeptInv

(* A step that leaves the disk and what happened to it keeps what IInv     *)
(* says of them.                                                           *)
LEMMA DiskUnchanged ==
  ASSUME DiskPart, UNCHANGED <<disk, before, ver, touched, committed>>
  PROVE  DiskPart'
BY DEF DiskPart, disk, DiskInv, BackupInv, DecidedInv, Decided, Reports, KeptInv, Journaled

(* So does, for the whole of IInv, a step that changes only budgets.       *)
LEMMA IInvUnchanged ==
  ASSUME IInv, UNCHANGED <<disk, procs, remote, before, ver, touched, committed, cut>>
  PROVE  IInv'
<1>1. DiskPart'
  BY DiskUnchanged DEF IInv, DiskPart
<1>2. LockInv' /\ UndoableInv'
  BY DEF IInv, disk, procs, LockInv, UndoableInv, Undoable
<1>3. \A p \in Procs : StageInv(p)' /\ PublishInv(p)' /\ UndoInv(p)' /\ CleanupInv(p)'
  BY DEF IInv, disk, procs, StageInv, PublishInv, UndoInv, CleanupInv, Journaled, FinalReport,
     Decided, Reports
<1> QED
  BY <1>1, <1>2, <1>3 DEF IInv, DiskPart

(* A process that is idle owes the invariant nothing of its own.           *)
LEMMA IdleInv ==
  ASSUME NEW q \in Procs, pc'[q] = "idle"
  PROVE  StageInv(q)' /\ PublishInv(q)' /\ UndoInv(q)' /\ CleanupInv(q)'
BY DEF StageInv, PublishInv, UndoInv, CleanupInv, Publishing

(* No push has run.                                                        *)
LEMMA IInvInit == Init => IInv
<1> SUFFICES ASSUME Init PROVE IInv
  OBVIOUS
<1>1. \A p \in Procs : pc[p] = "idle"
  BY DEF Init
<1>2. LockInv
  BY NoProcIsNoProc DEF Init, LockInv
<1>3. DiskPart
  BY DEF Init, DiskPart, DiskInv, BackupInv, DecidedInv, Decided, KeptInv, Journaled
<1>4. UndoableInv
  BY DEF Init, UndoableInv
<1>5. \A p \in Procs : StageInv(p) /\ PublishInv(p) /\ UndoInv(p) /\ CleanupInv(p)
  BY <1>1 DEF StageInv, PublishInv, UndoInv, CleanupInv, Publishing
<1> QED
  BY <1>2, <1>3, <1>4, <1>5 DEF IInv, DiskPart

(* Every step of a push, its crash and an edit of the operator keep IInv.  *)
LEMMA IInvStep ==
  ASSUME DataTypeOK, IInv, [Next]_vars
  PROVE  IInv'
<1> USE NoProcIsNoProc, PhaseFacts
<1> USE DEF IInv, DataTypeOK, Fault, NoFault, Goto, Return, RollBack, Succeed, Fail
<1>1. ASSUME NEW p \in Procs, Acquire(p) PROVE IInv'
  <2>0. \A q \in Procs \ {p} : pc[q] = "idle" /\ pc'[q] = "idle"
    BY <1>1 DEF Acquire, LockInv
  <2>1. DiskPart'
    BY <1>1, DiskUnchanged DEF Acquire, DiskPart
  <2>2. LockInv'
    BY <1>1 DEF Acquire, LockInv
  <2>3. UndoableInv'
    BY <1>1 DEF Acquire, disk, UndoableInv, Undoable
  <2>4. StageInv(p)' /\ PublishInv(p)' /\ UndoInv(p)' /\ CleanupInv(p)'
    BY <1>1 DEF Acquire, StageInv, PublishInv, Publishing, UndoInv, CleanupInv
  <2> QED
    BY <2>0, <2>1, <2>2, <2>3, <2>4, IdleInv DEF DiskPart
<1>2. ASSUME NEW p \in Procs, LockHeld(p) PROVE IInv'
  BY <1>2, IInvUnchanged DEF LockHeld
<1>3. ASSUME NEW p \in Procs, Prepare(p) PROVE IInv'
  <2>0. \A q \in Procs \ {p} : pc[q] = "idle" /\ pc'[q] = "idle"
    BY <1>3 DEF Prepare, LockInv
  <2>1. DiskInv'
    BY <1>3 DEF Prepare, DiskInv, StageInv
  <2>2. BackupInv'
    BY <1>3 DEF Prepare, BackupInv, StageInv, DiskInv
  <2>3. DecidedInv'
    BY <1>3 DEF Prepare, DecidedInv, Decided
  <2>4. KeptInv'
    BY <1>3 DEF Prepare, KeptInv
  <2>5. LockInv'
    BY <1>3 DEF Prepare, LockInv
  <2>6. UndoableInv'
    BY <1>3 DEF Prepare, UndoableInv, StageInv, DiskInv
  <2>7. StageInv(p)' /\ PublishInv(p)' /\ UndoInv(p)' /\ CleanupInv(p)'
    BY <1>3 DEF Prepare, StageInv, DiskInv, PublishInv, Publishing, UndoInv, CleanupInv
  <2> QED
    BY <2>0, <2>1, <2>2, <2>3, <2>4, <2>5, <2>6, <2>7, IdleInv
<1>4. ASSUME NEW p \in Procs, PrepareRefuses(p) PROVE IInv'
  <2>0. \A q \in Procs \ {p} : pc[q] = "idle" /\ pc'[q] = "idle"
    BY <1>4 DEF PrepareRefuses, LockInv
  <2>1. DiskPart'
    BY <1>4, DiskUnchanged DEF PrepareRefuses, DiskPart
  <2>2. LockInv'
    BY <1>4 DEF PrepareRefuses, LockInv
  <2>3. UndoableInv'
    BY <1>4 DEF PrepareRefuses, disk, UndoableInv, StageInv
  <2>4. StageInv(p)' /\ PublishInv(p)' /\ UndoInv(p)' /\ CleanupInv(p)'
    BY <1>4 DEF PrepareRefuses, StageInv, PublishInv, Publishing, UndoInv, CleanupInv
  <2> QED
    BY <2>0, <2>1, <2>2, <2>3, <2>4, IdleInv DEF DiskPart
<1>5. ASSUME NEW p \in Procs, StageDryRun(p) PROVE IInv'
  <2>0. \A q \in Procs \ {p} : pc[q] = "idle" /\ pc'[q] = "idle"
    BY <1>5 DEF StageDryRun, LockInv
  <2>1. DiskInv'
    BY <1>5 DEF StageDryRun, history, DiskInv, StageInv
  <2>2. BackupInv'
    BY <1>5 DEF StageDryRun, BackupInv, StageInv
  <2>3. DecidedInv'
    BY <1>5 DEF StageDryRun, history, DecidedInv, Decided, StageInv
  <2>4. KeptInv'
    BY <1>5 DEF StageDryRun, KeptInv, Journaled, StageInv
  <2>5. LockInv'
    BY <1>5 DEF StageDryRun, LockInv
  <2>6. UndoableInv'
    BY <1>5 DEF StageDryRun, UndoableInv, StageInv
  <2>7. StageInv(p)' /\ PublishInv(p)' /\ UndoInv(p)' /\ CleanupInv(p)'
    BY <1>5 DEF StageDryRun, history, StageInv, PublishInv, Publishing, UndoInv, CleanupInv
  <2> QED
    BY <2>0, <2>1, <2>2, <2>3, <2>4, <2>5, <2>6, <2>7, IdleInv
<1>6. ASSUME NEW p \in Procs, WriteManifest(p) PROVE IInv'
  <2>0. \A q \in Procs \ {p} : pc[q] = "idle" /\ pc'[q] = "idle"
    BY <1>6 DEF WriteManifest, LockInv
  <2>1. DiskInv'
    BY <1>6 DEF WriteManifest, history, DiskInv, StageInv
  <2>2. BackupInv'
    BY <1>6 DEF WriteManifest, BackupInv, StageInv
  <2>3. DecidedInv'
    BY <1>6 DEF WriteManifest, history, DecidedInv, Decided, StageInv
  <2>4. KeptInv'
    BY <1>6 DEF WriteManifest, history, KeptInv, StageInv, DiskInv
  <2>5. LockInv'
    BY <1>6 DEF WriteManifest, LockInv
  <2>6. UndoableInv'
    BY <1>6 DEF WriteManifest, UndoableInv, Undoable, StageInv
  <2>7. StageInv(p)' /\ PublishInv(p)' /\ UndoInv(p)' /\ CleanupInv(p)'
    BY <1>6 DEF WriteManifest, history, StageInv, DiskInv, PublishInv, Publishing, PhaseAt,
       UndoInv, CleanupInv
  <2> QED
    BY <2>0, <2>1, <2>2, <2>3, <2>4, <2>5, <2>6, <2>7, IdleInv
<1>7. ASSUME NEW p \in Procs, Declined(p) PROVE IInv'
  <2>0. \A q \in Procs \ {p} : pc[q] = "idle" /\ pc'[q] = "idle"
    BY <1>7 DEF Declined, LockInv
  <2>1. DiskPart'
    BY <1>7, DiskUnchanged DEF Declined, history, DiskPart
  <2>2. LockInv'
    BY <1>7 DEF Declined, LockInv
  <2>3. UndoableInv'
    BY <1>7 DEF Declined, disk, UndoableInv, Undoable, PublishInv, Publishing, PhaseAt
  <2>4. StageInv(p)' /\ PublishInv(p)' /\ UndoInv(p)' /\ CleanupInv(p)'
    BY <1>7 DEF Declined, disk, history, StageInv, PublishInv, Publishing, PhaseAt, UndoInv,
       CleanupInv
  <2> QED
    BY <2>0, <2>1, <2>2, <2>3, <2>4, IdleInv DEF DiskPart
<1>8. ASSUME NEW p \in Procs, Apply(p) PROVE IInv'
  <2>0. \A q \in Procs \ {p} : pc[q] = "idle" /\ pc'[q] = "idle"
    BY <1>8 DEF Apply, LockInv
  <2>1. DiskPart'
    BY <1>8, DiskUnchanged DEF Apply, DiskPart
  <2>2. LockInv'
    BY <1>8 DEF Apply, LockInv
  <2>3. UndoableInv'
    BY <1>8 DEF Apply, disk, UndoableInv, Undoable
  <2>4. StageInv(p)' /\ PublishInv(p)' /\ UndoInv(p)' /\ CleanupInv(p)'
    BY <1>8 DEF Apply, disk, StageInv, PublishInv, Publishing, PhaseAt, UndoInv, CleanupInv
  <2> QED
    BY <2>0, <2>1, <2>2, <2>3, <2>4, IdleInv DEF DiskPart
<1>9. ASSUME NEW p \in Procs, ApplyFails(p) PROVE IInv'
  <2>0. \A q \in Procs \ {p} : pc[q] = "idle" /\ pc'[q] = "idle"
    BY <1>9 DEF ApplyFails, LockInv
  <2>1. DiskPart'
    BY <1>9, DiskUnchanged DEF ApplyFails, DiskPart
  <2>2. LockInv'
    BY <1>9 DEF ApplyFails, LockInv
  <2>3. UndoableInv'
    BY <1>9 DEF ApplyFails, disk, UndoableInv, Undoable
  <2>4. StageInv(p)' /\ PublishInv(p)' /\ UndoInv(p)' /\ CleanupInv(p)'
    BY <1>9 DEF ApplyFails, StageInv, PublishInv, Publishing, UndoInv, CleanupInv
  <2> QED
    BY <2>0, <2>1, <2>2, <2>3, <2>4, IdleInv DEF DiskPart
<1>10. ASSUME NEW p \in Procs, Publish(p) PROVE IInv'
  <2>0. \A q \in Procs \ {p} : pc[q] = "idle" /\ pc'[q] = "idle"
    BY <1>10 DEF Publish, LockInv
  <2>1. DiskPart'
    BY <1>10, DiskUnchanged DEF Publish, history, DiskPart
  <2>2. LockInv'
    BY <1>10 DEF Publish, LockInv
  <2>3. UndoableInv'
    BY <1>10 DEF Publish, disk, UndoableInv, Undoable, PublishInv, Publishing, PhaseAt
  <2>4. StageInv(p)' /\ PublishInv(p)' /\ UndoInv(p)' /\ CleanupInv(p)'
    BY <1>10 DEF Publish, disk, history, StageInv, PublishInv, Publishing, PhaseAt, UndoInv,
       CleanupInv
  <2> QED
    BY <2>0, <2>1, <2>2, <2>3, <2>4, IdleInv DEF DiskPart
<1>11. ASSUME NEW p \in Procs, Restage(p) PROVE IInv'
  <2>0. \A q \in Procs \ {p} : pc[q] = "idle" /\ pc'[q] = "idle"
    BY <1>11 DEF Restage, LockInv
  <2>1. DiskInv'
    BY <1>11 DEF Restage, history, DiskInv, PublishInv, Publishing
  <2>2. BackupInv'
    BY <1>11 DEF Restage, history, BackupInv
  <2>3. DecidedInv'
    BY <1>11 DEF Restage, DecidedInv, PublishInv, Publishing
  <2>4. KeptInv'
    BY <1>11 DEF Restage, history, KeptInv, PublishInv, Publishing, DiskInv
  <2>5. LockInv'
    BY <1>11 DEF Restage, LockInv
  <2>6. UndoableInv'
    BY <1>11 DEF Restage, UndoableInv, Undoable, PublishInv, Publishing, PhaseAt
  <2>7. StageInv(p)' /\ PublishInv(p)' /\ UndoInv(p)' /\ CleanupInv(p)'
    BY <1>11 DEF Restage, history, StageInv, DiskInv, PublishInv, Publishing, PhaseAt,
       FinalReport, UndoInv, CleanupInv
  <2> QED
    BY <2>0, <2>1, <2>2, <2>3, <2>4, <2>5, <2>6, <2>7, IdleInv
<1>12. ASSUME NEW p \in Procs, Snapshot(p) PROVE IInv'
  <2>0. \A q \in Procs \ {p} : pc[q] = "idle" /\ pc'[q] = "idle"
    BY <1>12 DEF Snapshot, LockInv
  <2>1. DiskInv'
    BY <1>12 DEF Snapshot, history, DiskInv, PublishInv, Publishing
  <2>2. BackupInv'
    BY <1>12 DEF Snapshot, history, BackupInv, PublishInv, Publishing
  <2>3. DecidedInv'
    BY <1>12 DEF Snapshot, DecidedInv, PublishInv, Publishing
  <2>4. KeptInv'
    BY <1>12 DEF Snapshot, history, KeptInv, PublishInv, Publishing
  <2>5. LockInv'
    BY <1>12 DEF Snapshot, LockInv
  <2>6. UndoableInv'
    BY <1>12 DEF Snapshot, UndoableInv, Undoable, PublishInv, Publishing, PhaseAt
  <2>7. StageInv(p)' /\ PublishInv(p)' /\ UndoInv(p)' /\ CleanupInv(p)'
    BY <1>12 DEF Snapshot, history, StageInv, PublishInv, Publishing, PhaseAt, FinalReport,
       UndoInv, CleanupInv
  <2> QED
    BY <2>0, <2>1, <2>2, <2>3, <2>4, <2>5, <2>6, <2>7, IdleInv
<1>13. ASSUME NEW p \in Procs, AppendPhase(p) PROVE IInv'
  <2>0. \A q \in Procs \ {p} : pc[q] = "idle" /\ pc'[q] = "idle"
    BY <1>13 DEF AppendPhase, LockInv
  <2>1. DiskInv'
    BY <1>13 DEF AppendPhase, AppendFaults, Appended, DiskInv, PublishInv, UndoInv, Journaled,
       PhaseAt, Publishing, CanAdvance
  <2>2. BackupInv'
    BY <1>13 DEF AppendPhase, BackupInv
  <2>3. DecidedInv'
    BY <1>13 DEF AppendPhase, AppendFaults, Appended, DecidedInv, UndoInv, Journaled,
       PublishInv, Publishing
  <2>4. KeptInv'
    BY <1>13 DEF AppendPhase, AppendFaults, KeptInv, Untouched, PublishInv, UndoInv,
       Publishing, PhaseAt, DiskInv
  <2>5. LockInv'
    BY <1>13, AfterAppendFacts DEF AppendPhase, LockInv
  <2>6. UndoableInv'
    BY <1>13 DEF AppendPhase, AppendFaults, UndoableInv, Undoable, PublishInv, UndoInv,
       Publishing, DiskInv
  <2>7. StageInv(p)'
    BY <1>13, AfterAppendFacts DEF AppendPhase, StageInv
  <2>8. PublishInv(p)'
    BY <1>13, AfterAppendFacts DEF AppendPhase, Appended, PublishInv, Publishing, PhaseAt,
       FinalReport, CanAdvance, Journaled, KeptInv
  <2>9. UndoInv(p)'
    BY <1>13, AfterAppendFacts DEF AppendPhase, Appended, UndoInv, Journaled
  <2>10. CleanupInv(p)'
    <3>1. CASE pc'[p] # "cleanup"
      BY <3>1 DEF CleanupInv
    <3>2. CASE pc[p] = "Installed" /\ pc'[p] = "cleanup"
      BY <1>13, <3>2 DEF AppendPhase, CleanupInv, PublishInv, Publishing, Decided, Reports,
         FinalReport
    <3>3. CASE pc[p] = "Restored" /\ pc'[p] = "cleanup"
      BY <1>13, <3>3 DEF AppendPhase, CleanupInv, UndoInv, Decided
    <3> QED
      BY <1>13, <3>1, <3>2, <3>3, AfterAppendFacts DEF AppendPhase
  <2> QED
    BY <2>0, <2>1, <2>2, <2>3, <2>4, <2>5, <2>6, <2>7, <2>8, <2>9, <2>10, IdleInv
<1>14. ASSUME NEW p \in Procs, BackUp(p) PROVE IInv'
  <2>0. \A q \in Procs \ {p} : pc[q] = "idle" /\ pc'[q] = "idle"
    BY <1>14 DEF BackUp, LockInv
  <2>1. DiskInv'
    BY <1>14 DEF BackUp, history, DiskInv, PublishInv, Publishing
  <2>2. BackupInv'
    BY <1>14 DEF BackUp, MoveToBackup, history, BackupInv, PublishInv, Publishing
  <2>3. DecidedInv'
    BY <1>14 DEF BackUp, DecidedInv, PublishInv, Publishing
  <2>4. KeptInv'
    BY <1>14 DEF BackUp, MoveToBackup, history, KeptInv, PublishInv, Publishing
  <2>5. LockInv'
    BY <1>14 DEF BackUp, LockInv
  <2>6. UndoableInv'
    BY <1>14 DEF BackUp, history, UndoableInv, Undoable, PublishInv, Publishing, PhaseAt
  <2>7. StageInv(p)' /\ PublishInv(p)' /\ UndoInv(p)' /\ CleanupInv(p)'
    BY <1>14 DEF BackUp, MoveToBackup, history, StageInv, PublishInv, Publishing, PhaseAt,
       FinalReport, UndoInv, CleanupInv
  <2> QED
    BY <2>0, <2>1, <2>2, <2>3, <2>4, <2>5, <2>6, <2>7, IdleInv
<1>15. ASSUME NEW p \in Procs, CheckTarget(p) PROVE IInv'
  <2>0. \A q \in Procs \ {p} : pc[q] = "idle" /\ pc'[q] = "idle"
    BY <1>15 DEF CheckTarget, LockInv
  <2>1. DiskPart'
    BY <1>15, DiskUnchanged DEF CheckTarget, history, DiskPart
  <2>2. LockInv'
    BY <1>15 DEF CheckTarget, LockInv
  <2>3. UndoableInv'
    BY <1>15 DEF CheckTarget, disk, history, UndoableInv, Undoable
  <2>4. StageInv(p)' /\ PublishInv(p)' /\ UndoInv(p)' /\ CleanupInv(p)'
    BY <1>15 DEF CheckTarget, disk, history, StageInv, PublishInv, Publishing, PhaseAt,
       FinalReport, UndoInv, CleanupInv
  <2> QED
    BY <2>0, <2>1, <2>2, <2>3, <2>4, IdleInv DEF DiskPart
<1>16. ASSUME NEW p \in Procs, Install(p) PROVE IInv'
  <2>0. \A q \in Procs \ {p} : pc[q] = "idle" /\ pc'[q] = "idle"
    BY <1>16 DEF Install, LockInv
  <2>1. DiskInv'
    BY <1>16 DEF Install, history, DiskInv, PublishInv, Publishing
  <2>2. BackupInv'
    BY <1>16 DEF Install, history, BackupInv
  <2>3. DecidedInv'
    BY <1>16 DEF Install, DecidedInv, PublishInv, Publishing
  <2>4. KeptInv'
    BY <1>16 DEF Install, MoveToTarget, history, KeptInv, PublishInv, Publishing, PhaseAt,
       DiskInv
  <2>5. LockInv'
    BY <1>16 DEF Install, LockInv
  <2>6. UndoableInv'
    BY <1>16 DEF Install, history, UndoableInv, Undoable, PublishInv, Publishing, DiskInv
  <2>7. StageInv(p)' /\ PublishInv(p)' /\ UndoInv(p)' /\ CleanupInv(p)'
    BY <1>16 DEF Install, MoveToTarget, history, StageInv, PublishInv, Publishing, PhaseAt,
       FinalReport, UndoInv, CleanupInv
  <2> QED
    BY <2>0, <2>1, <2>2, <2>3, <2>4, <2>5, <2>6, <2>7, IdleInv
<1>17. ASSUME NEW p \in Procs, Recover(p) PROVE IInv'
  <2>0. \A q \in Procs \ {p} : pc[q] = "idle" /\ pc'[q] = "idle"
    BY <1>17 DEF Recover, AfterCleanup, LockInv
  <2>1. DiskPart'
    BY <1>17, DiskUnchanged DEF Recover, DiskPart
  <2>2. LockInv'
    BY <1>17, RecoveryLabels DEF Recover, AfterCleanup, LockInv
  <2>3. UndoableInv'
    BY <1>17 DEF Recover, disk, UndoableInv, Undoable
  <2>4. StageInv(p)' /\ PublishInv(p)' /\ UndoInv(p)' /\ CleanupInv(p)'
    BY <1>17 DEF Recover, AfterCleanup, disk, StageInv, DiskInv, DecidedInv, Decided,
       PublishInv, Publishing, UndoInv, Journaled, CleanupInv, Reports, KeptInv, Recovery,
       RecoverExisting, RecoverAbsent, Matches, BackupInv
  <2> QED
    BY <2>0, <2>1, <2>2, <2>3, <2>4, IdleInv DEF DiskPart
<1>18. ASSUME NEW p \in Procs, Unreplace(p) PROVE IInv'
  <2>0. \A q \in Procs \ {p} : pc[q] = "idle" /\ pc'[q] = "idle"
    BY <1>18 DEF Unreplace, LockInv
  <2>1. DiskInv'
    BY <1>18 DEF Unreplace, DiskInv
  <2>2. BackupInv'
    BY <1>18 DEF Unreplace, BackupInv
  <2>3. DecidedInv'
    BY <1>18 DEF Unreplace, DecidedInv, UndoInv, Journaled
  <2>4. KeptInv'
    BY <1>18 DEF Unreplace, KeptInv, UndoInv
  <2>5. LockInv'
    BY <1>18 DEF Unreplace, LockInv
  <2>6. UndoableInv'
    BY <1>18 DEF Unreplace, UndoableInv, Undoable, UndoInv
  <2>7. StageInv(p)' /\ PublishInv(p)' /\ UndoInv(p)' /\ CleanupInv(p)'
    BY <1>18 DEF Unreplace, StageInv, DiskInv, Decided, PublishInv, Publishing, UndoInv,
       Journaled, CleanupInv
  <2> QED
    BY <2>0, <2>1, <2>2, <2>3, <2>4, <2>5, <2>6, <2>7, IdleInv
<1>19. ASSUME NEW p \in Procs, Restore(p) PROVE IInv'
  <2>0. \A q \in Procs \ {p} : pc[q] = "idle" /\ pc'[q] = "idle"
    BY <1>19 DEF Restore, LockInv
  <2>1. DiskInv'
    BY <1>19 DEF Restore, DiskInv, UndoInv, Journaled
  <2>2. BackupInv'
    BY <1>19 DEF Restore, MoveBack, BackupInv
  <2>3. DecidedInv'
    BY <1>19 DEF Restore, DecidedInv, UndoInv, Journaled
  <2>4. KeptInv'
    BY <1>19 DEF Restore, MoveBack, KeptInv, UndoInv
  <2>5. LockInv'
    BY <1>19 DEF Restore, LockInv
  <2>6. UndoableInv'
    BY <1>19 DEF Restore, MoveBack, UndoableInv, Undoable, UndoInv
  <2>7. StageInv(p)' /\ PublishInv(p)' /\ UndoInv(p)' /\ CleanupInv(p)'
    BY <1>19 DEF Restore, MoveBack, StageInv, PublishInv, Publishing, UndoInv, Journaled,
       CleanupInv
  <2> QED
    BY <2>0, <2>1, <2>2, <2>3, <2>4, <2>5, <2>6, <2>7, IdleInv
<1>20. ASSUME NEW p \in Procs, Finish(p) PROVE IInv'
  <2>0. \A q \in Procs \ {p} : pc[q] = "idle" /\ pc'[q] = "idle"
    BY <1>20 DEF Finish, LockInv
  <2>1. DiskPart'
    BY <1>20, DiskUnchanged DEF Finish, DiskPart
  <2>2. LockInv'
    BY <1>20 DEF Finish, LockInv
  <2>3. UndoableInv'
    BY <1>20 DEF Finish, disk, UndoableInv, Undoable
  <2>4. StageInv(p)' /\ PublishInv(p)' /\ UndoInv(p)' /\ CleanupInv(p)'
    BY <1>20 DEF Finish, disk, StageInv, PublishInv, Publishing, UndoInv, Journaled,
       CleanupInv
  <2> QED
    BY <2>0, <2>1, <2>2, <2>3, <2>4, IdleInv DEF DiskPart
<1>21. ASSUME NEW p \in Procs, Cleanup(p) PROVE IInv'
  <2>0. \A q \in Procs \ {p} : pc[q] = "idle" /\ pc'[q] = "idle"
    BY <1>21 DEF Cleanup, procs, LockInv
  <2>1. DiskInv'
    BY <1>21 DEF Cleanup, history, DiskInv
  <2>2. BackupInv'
    BY <1>21 DEF Cleanup, history, BackupInv
  <2>3. DecidedInv'
    BY <1>21 DEF Cleanup, history, DecidedInv, Decided, Reports, CleanupInv
  <2>4. KeptInv'
    BY <1>21 DEF Cleanup, history, KeptInv, Journaled, Untouched, Decided, Reports, CleanupInv
  <2>5. LockInv'
    BY <1>21 DEF Cleanup, procs, LockInv
  <2>6. UndoableInv'
    BY <1>21 DEF Cleanup, procs, UndoableInv
  <2>7. StageInv(p)' /\ PublishInv(p)' /\ UndoInv(p)' /\ CleanupInv(p)'
    BY <1>21 DEF Cleanup, procs, history, StageInv, Decided, PublishInv, Publishing,
       FinalReport, UndoInv, Journaled, CleanupInv, Reports
  <2> QED
    BY <2>0, <2>1, <2>2, <2>3, <2>4, <2>5, <2>6, <2>7, IdleInv
<1>22. ASSUME NEW p \in Procs, CleanupDone(p) PROVE IInv'
  <2>0. \A q \in Procs \ {p} : pc[q] = "idle" /\ pc'[q] = "idle"
    BY <1>22 DEF CleanupDone, AfterCleanup, LockInv
  <2>1. DiskInv'
    BY <1>22 DEF CleanupDone, DiskInv
  <2>2. BackupInv'
    BY <1>22 DEF CleanupDone, BackupInv
  <2>3. DecidedInv'
    BY <1>22 DEF CleanupDone, DecidedInv, Decided, Reports
  <2>4. KeptInv'
    BY <1>22 DEF CleanupDone, KeptInv, Journaled
  <2>5. LockInv'
    BY <1>22 DEF CleanupDone, AfterCleanup, LockInv
  <2>6. UndoableInv'
    BY <1>22 DEF CleanupDone, UndoableInv
  <2>7. StageInv(p)' /\ PublishInv(p)' /\ UndoInv(p)' /\ CleanupInv(p)'
    BY <1>22 DEF CleanupDone, AfterCleanup, StageInv, PublishInv, Publishing, UndoInv,
       CleanupInv
  <2> QED
    BY <2>0, <2>1, <2>2, <2>3, <2>4, <2>5, <2>6, <2>7, IdleInv
<1>23. ASSUME NEW p \in Procs, CleanupFails(p) PROVE IInv'
  <2>0. \A q \in Procs \ {p} : pc[q] = "idle" /\ pc'[q] = "idle"
    BY <1>23 DEF CleanupFails, LockInv
  <2>1. DiskPart'
    BY <1>23, DiskUnchanged DEF CleanupFails, DiskPart
  <2>2. LockInv'
    BY <1>23 DEF CleanupFails, LockInv
  <2>3. UndoableInv'
    BY <1>23 DEF CleanupFails, disk, CutShort, UndoableInv, Undoable, Journaled, CleanupInv,
       BackupInv
  <2>4. StageInv(p)' /\ PublishInv(p)' /\ UndoInv(p)' /\ CleanupInv(p)'
    BY <1>23 DEF CleanupFails, StageInv, PublishInv, Publishing, UndoInv, CleanupInv
  <2> QED
    BY <2>0, <2>1, <2>2, <2>3, <2>4, IdleInv DEF DiskPart
<1>24. ASSUME NEW p \in Procs, Crash(p) PROVE IInv'
  <2>0. \A q \in Procs \ {p} : pc[q] = "idle" /\ pc'[q] = "idle"
    BY <1>24 DEF Crash, LockInv
  <2>1. DiskInv'
    BY <1>24 DEF Crash, DiskInv, StageInv, PublishInv, UndoInv, Journaled, Publishing
  <2>2. BackupInv'
    BY <1>24 DEF Crash, BackupInv
  <2>3. DecidedInv'
    BY <1>24 DEF Crash, DecidedInv, Decided, Reports, StageInv
  <2>4. KeptInv'
    BY <1>24 DEF Crash, KeptInv, Journaled, Reports
  <2>5. LockInv'
    BY <1>24 DEF Crash, LockInv
  <2>6. UndoableInv'
    BY <1>24 DEF Crash, CutShort, UndoableInv, Undoable, Journaled, CleanupInv, BackupInv
  <2>7. StageInv(p)' /\ PublishInv(p)' /\ UndoInv(p)' /\ CleanupInv(p)'
    BY <1>24 DEF Crash, StageInv, PublishInv, Publishing, UndoInv, CleanupInv
  <2> QED
    BY <2>0, <2>1, <2>2, <2>3, <2>4, <2>5, <2>6, <2>7, IdleInv
<1>25. CASE OperatorEdits
  <2>1. LockInv'
    BY <1>25 DEF OperatorEdits, procs, LockInv
  <2>2. DiskPart'
    BY <1>25 DEF OperatorEdits, DiskPart, DiskInv, BackupInv, DecidedInv, KeptInv
  <2>3. UndoableInv'
    BY <1>25 DEF OperatorEdits, UndoableInv
  <2>4. ASSUME NEW p \in Procs PROVE StageInv(p)' /\ PublishInv(p)' /\ UndoInv(p)' /\ CleanupInv(p)'
    BY <1>25 DEF OperatorEdits, procs, StageInv, PublishInv, UndoInv, CleanupInv, Journaled,
       FinalReport
  <2> QED
    BY <2>1, <2>2, <2>3, <2>4 DEF DiskPart
<1>26. CASE UNCHANGED vars
  BY <1>26, IInvUnchanged DEF vars, history
<1> QED
  BY <1>1, <1>2, <1>3, <1>4, <1>5, <1>6, <1>7, <1>8, <1>9, <1>10, <1>11, <1>12, <1>13, <1>14,
     <1>15, <1>16, <1>17, <1>18, <1>19, <1>20, <1>21, <1>22, <1>23, <1>24, <1>25, <1>26 DEF Next,
     Step

(* The disk, the journal and the labels always fit together as IInv says.  *)
THEOREM ReportInvariantHolds == Spec => []IInv
<1>1. DataTypeOK /\ IInv /\ [Next]_vars => IInv'
  BY IInvStep
<1> QED
  BY <1>1, IInvInit, ReportTypes, PTL DEF Spec

(* Every variable keeps its type, and a push works only under the lock.    *)
THEOREM ReportTypeCorrect == Spec => []TypeOK
<1>1. Init => FlagsTypeOK
  BY DEF Init, FlagsTypeOK
<1>2. Spec => []FlagsTypeOK
  BY <1>1, FlagsStep, PTL DEF Spec
<1>3. DataTypeOK /\ FlagsTypeOK /\ IInv => TypeOK
  BY DEF DataTypeOK, FlagsTypeOK, TypeOK, IInv
<1> QED
  BY <1>2, <1>3, ReportTypes, ReportInvariantHolds, PTL

(* No failure and no crash loses the previous report: until the removal of *)
(* the transaction begins it is at the destination or in the backup.       *)
THEOREM ReportIsKept == Spec => []NoLoss
<1>1. DataTypeOK /\ IInv => NoLoss
  BY DEF DataTypeOK, IInv, DiskInv, DecidedInv, KeptInv, Decided, Reports, Journaled, NoLoss
<1> QED
  BY <1>1, ReportTypes, ReportInvariantHolds, PTL

(* A transaction that is gone left the previous report, or the report of   *)
(* the run it committed.                                                   *)
THEOREM PublicationIsAtomic == Spec => []AllOrNothing
<1>1. IInv => AllOrNothing
  BY DEF IInv, DiskInv, DecidedInv, Decided, Reports, AllOrNothing
<1> QED
  BY <1>1, ReportInvariantHolds, PTL

(* Recovery refuses only what an operator, a cut removal or a record glued *)
(* to an unterminated one has made of a transaction.                       *)
THEOREM RefusalsHaveCauses == Spec => []RefusalIsExplained
<1>1. DataTypeOK /\ IInv => RefusalIsExplained
  <2> SUFFICES ASSUME DataTypeOK, IInv, txn, lock = NoProc, Recovery = "refuse",
                      ~touched, ~cut, jrn # "corrupt"
               PROVE  FALSE
    BY DEF RefusalIsExplained
  <2> USE DEF DataTypeOK, IInv
  <2>1. jrn = "whole"
    BY DEF Recovery
  <2>2. \A p \in Procs : pc[p] # "cleanup"
    BY NoProcIsNoProc DEF LockInv
  <2>3. CASE ~existed
    BY <2>3 DEF Recovery, RecoverAbsent, DiskInv
  <2>4. CASE existed
    <3>1. Undoable /\ RecoverExisting = "refuse"
      BY <2>2, <2>4 DEF UndoableInv, Recovery
    <3>2. before # Absent
      BY <2>4 DEF DiskInv
    <3>3. CASE backup = Absent
      BY <2>1, <2>4, <3>1, <3>2, PhaseFacts
      DEF RecoverExisting, Undoable, KeptInv, Journaled, Untouched, Matches
    <3>4. CASE backup # Absent
      BY <3>1, <3>2, <3>4 DEF RecoverExisting, Undoable
    <3> QED
      BY <3>3, <3>4
  <2> QED
    BY <2>3, <2>4
<1> QED
  BY <1>1, ReportTypes, ReportInvariantHolds, PTL

(* What a step that writes to the stack or that reports success has done.  *)
ReportStep ==
  /\ remote' # remote =>
       /\ txn /\ jrn = "whole" /\ phase = "Prepared" /\ staged = DryRun(ver)
       /\ touched \/ target = before
  /\ \A p \in Procs : outcome'[p] # outcome[p] /\ outcome'[p] = "ok" =>
       ~txn' /\ (touched \/ target' = FinalReport)

(* Apply is the step that changes the stack; a push that is told it        *)
(* succeeded ends at CleanupDone.                                          *)
LEMMA ReportStepHolds == DataTypeOK /\ IInv /\ [Next]_vars => ReportStep
<1> SUFFICES ASSUME DataTypeOK, IInv, [Next]_vars PROVE ReportStep
  OBVIOUS
<1> USE DEF DataTypeOK, ReportStep, Return
<1>1. ASSUME NEW p \in Procs, Acquire(p) PROVE ReportStep
  BY <1>1 DEF Acquire
<1>2. ASSUME NEW p \in Procs, LockHeld(p) PROVE ReportStep
  BY <1>2 DEF LockHeld
<1>3. ASSUME NEW p \in Procs, Prepare(p) PROVE ReportStep
  BY <1>3 DEF Prepare
<1>4. ASSUME NEW p \in Procs, PrepareRefuses(p) PROVE ReportStep
  BY <1>4 DEF PrepareRefuses
<1>5. ASSUME NEW p \in Procs, StageDryRun(p) PROVE ReportStep
  BY <1>5 DEF StageDryRun, history
<1>6. ASSUME NEW p \in Procs, WriteManifest(p) PROVE ReportStep
  BY <1>6 DEF WriteManifest, history
<1>7. ASSUME NEW p \in Procs, Declined(p) PROVE ReportStep
  BY <1>7 DEF Declined, history
<1>8. ASSUME NEW p \in Procs, Apply(p) PROVE ReportStep
  BY <1>8 DEF Apply, IInv, PublishInv, PhaseAt, Publishing
<1>9. ASSUME NEW p \in Procs, ApplyFails(p) PROVE ReportStep
  BY <1>9 DEF ApplyFails
<1>10. ASSUME NEW p \in Procs, Publish(p) PROVE ReportStep
  BY <1>10 DEF Publish, history
<1>11. ASSUME NEW p \in Procs, Restage(p) PROVE ReportStep
  BY <1>11 DEF Restage, history
<1>12. ASSUME NEW p \in Procs, Snapshot(p) PROVE ReportStep
  BY <1>12 DEF Snapshot, history
<1>13. ASSUME NEW p \in Procs, AppendPhase(p) PROVE ReportStep
  BY <1>13 DEF AppendPhase
<1>14. ASSUME NEW p \in Procs, BackUp(p) PROVE ReportStep
  BY <1>14 DEF BackUp, history
<1>15. ASSUME NEW p \in Procs, CheckTarget(p) PROVE ReportStep
  BY <1>15 DEF CheckTarget, history
<1>16. ASSUME NEW p \in Procs, Install(p) PROVE ReportStep
  BY <1>16 DEF Install, history
<1>17. ASSUME NEW p \in Procs, Recover(p) PROVE ReportStep
  BY <1>17 DEF Recover, AfterCleanup, IInv, UndoInv
<1>18. ASSUME NEW p \in Procs, Unreplace(p) PROVE ReportStep
  BY <1>18 DEF Unreplace
<1>19. ASSUME NEW p \in Procs, Restore(p) PROVE ReportStep
  BY <1>19 DEF Restore
<1>20. ASSUME NEW p \in Procs, Finish(p) PROVE ReportStep
  BY <1>20 DEF Finish
<1>21. ASSUME NEW p \in Procs, Cleanup(p) PROVE ReportStep
  BY <1>21 DEF Cleanup, history
<1>22. ASSUME NEW p \in Procs, CleanupDone(p) PROVE ReportStep
  BY <1>22 DEF CleanupDone, AfterCleanup, IInv, CleanupInv
<1>23. ASSUME NEW p \in Procs, CleanupFails(p) PROVE ReportStep
  BY <1>23 DEF CleanupFails
<1>24. ASSUME NEW p \in Procs, Crash(p) PROVE ReportStep
  BY <1>24 DEF Crash
<1>25. CASE OperatorEdits
  BY <1>25 DEF OperatorEdits
<1>26. CASE UNCHANGED vars
  BY <1>26 DEF vars, history
<1> QED
  BY <1>1, <1>2, <1>3, <1>4, <1>5, <1>6, <1>7, <1>8, <1>9, <1>10, <1>11, <1>12, <1>13, <1>14,
     <1>15, <1>16, <1>17, <1>18, <1>19, <1>20, <1>21, <1>22, <1>23, <1>24, <1>25, <1>26 DEF Next,
     Step

(* The stack is written only under a journaled dry run, and a push that    *)
(* reports success has its report in place and nothing left to undo.       *)
THEOREM SuccessIsReported == Spec => AppliesAreReported
<1>1. DataTypeOK /\ IInv /\ [Next]_vars => ReportStep
  BY ReportStepHolds
<1> QED
  BY <1>1, ReportTypes, ReportInvariantHolds, PTL DEF Spec, ReportStep, AppliesAreReported
=============================================================================
