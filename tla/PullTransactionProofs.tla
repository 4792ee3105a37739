----------------------- MODULE PullTransactionProofs -----------------------
(***************************************************************************)
(* Theorems about PullTransaction, for every set of files and processes    *)
(* and every bound: its types, then the safety properties, from the        *)
(* inductive invariant IInv.                                               *)
(***************************************************************************)
EXTENDS PullTransactionInv, TLAPS

LEMMA Contents == Absent \in Content /\ Edited \in Content /\ \A n \in Nat : n \in Content
BY DEF Content

LEMMA LabelFacts ==
  /\ {"idle", "recover", "undo", "cleanup", "fetch", "stage", "backup", "check",
      "install"} \subseteq Labels
  /\ Appending \subseteq Labels /\ Appending \subseteq Phases /\ "Prepared" \in Phases
  /\ {"BackingUp", "BackedUp", "Installing", "Installed"} \subseteq Appending
BY DEF Labels, Appending, Phases

LEMMA AppendLabels == \A label \in Appending : AfterAppend(label) \in Labels
BY DEF AfterAppend, Labels, Appending, Phases

(* The flags are Boolean; they are kept apart from the other variables     *)
(* because the SMT backend takes a Boolean variable for a value.           *)
LEMMA FlagsStep == FlagsTypeOK /\ [Next]_vars => FlagsTypeOK'
<1> SUFFICES ASSUME FlagsTypeOK, [Next]_vars PROVE FlagsTypeOK'
  OBVIOUS
<1> USE DEF FlagsTypeOK
<1>1. ASSUME NEW p \in Procs, Acquire(p) PROVE FlagsTypeOK'
  BY <1>1, Zenon DEF Acquire, disk
<1>2. ASSUME NEW p \in Procs, LockHeld(p) PROVE FlagsTypeOK'
  BY <1>2, Zenon DEF LockHeld, disk
<1>3. ASSUME NEW p \in Procs, FetchFails(p) PROVE FlagsTypeOK'
  BY <1>3, Zenon DEF FetchFails, disk
<1>4. ASSUME NEW p \in Procs, NEW plan \in SUBSET Files, Begin(p, plan) PROVE FlagsTypeOK'
  BY <1>4, Zenon DEF Begin
<1>5. ASSUME NEW p \in Procs, Stage(p) PROVE FlagsTypeOK'
  BY <1>5, Zenon DEF Stage, history
<1>6. ASSUME NEW p \in Procs, WriteManifest(p) PROVE FlagsTypeOK'
  BY <1>6, Zenon DEF WriteManifest, history
<1>7. ASSUME NEW p \in Procs, AppendPhase(p) PROVE FlagsTypeOK'
  BY <1>7, Zenon DEF AppendPhase, Appended, history
<1>8. ASSUME NEW p \in Procs, BackUp(p) PROVE FlagsTypeOK'
  BY <1>8, Zenon DEF BackUp, history
<1>9. ASSUME NEW p \in Procs, CheckTarget(p) PROVE FlagsTypeOK'
  BY <1>9, Zenon DEF CheckTarget, disk, history
<1>10. ASSUME NEW p \in Procs, Install(p) PROVE FlagsTypeOK'
  BY <1>10, Zenon DEF Install
<1>11. ASSUME NEW p \in Procs, ReplacedAll(p) PROVE FlagsTypeOK'
  BY <1>11, Zenon DEF ReplacedAll, disk, history
<1>12. ASSUME NEW p \in Procs, Recover(p) PROVE FlagsTypeOK'
  BY <1>12, Zenon DEF Recover, AfterCleanup, disk
<1>13. ASSUME NEW p \in Procs, Undo(p) PROVE FlagsTypeOK'
  BY <1>13, Zenon DEF Undo, history
<1>14. ASSUME NEW p \in Procs, UndoDone(p) PROVE FlagsTypeOK'
  BY <1>14, Zenon DEF UndoDone, disk
<1>15. ASSUME NEW p \in Procs, Cleanup(p) PROVE FlagsTypeOK'
  BY <1>15, Zenon DEF Cleanup, RemoveJournal, RemoveStaged, RemoveBackup
<1>16. ASSUME NEW p \in Procs, CleanupDone(p) PROVE FlagsTypeOK'
  BY <1>16, Zenon DEF CleanupDone, AfterCleanup
<1>17. ASSUME NEW p \in Procs, CleanupFails(p) PROVE FlagsTypeOK'
  BY <1>17, Zenon DEF CleanupFails, disk
<1>18. ASSUME NEW p \in Procs, Crash(p) PROVE FlagsTypeOK'
  BY <1>18, Zenon DEF Crash
<1>19. ASSUME NEW f \in Files, OperatorEdits(f) PROVE FlagsTypeOK'
  BY <1>19 DEF OperatorEdits
<1>20. CASE UNCHANGED vars
  BY <1>20 DEF vars, disk, history
<1> QED
  BY <1>1, <1>2, <1>3, <1>4, <1>5, <1>6, <1>7, <1>8, <1>9, <1>10, <1>11, <1>12,
     <1>13, <1>14, <1>15, <1>16, <1>17, <1>18, <1>19, <1>20 DEF Next, Step

DataTypeOK == DiskTypeOK /\ ProcsTypeOK /\ HistoryTypeOK

LEMMA DataStep == DataTypeOK /\ [Next]_vars => DataTypeOK'
<1> SUFFICES ASSUME DataTypeOK, [Next]_vars PROVE DataTypeOK'
  OBVIOUS
<1> USE Contents, LabelFacts
<1> USE DEF DataTypeOK, DiskTypeOK, ProcsTypeOK, HistoryTypeOK, Fault, NoFault, Goto,
            Return, RollBack, Pop, Next1, Remember, UndoResult
<1>1. ASSUME NEW p \in Procs, Acquire(p) PROVE DataTypeOK'
  BY <1>1 DEF Acquire, disk, budget
<1>2. ASSUME NEW p \in Procs, LockHeld(p) PROVE DataTypeOK'
  BY <1>2 DEF LockHeld, disk, procs, budget
<1>3. ASSUME NEW p \in Procs, FetchFails(p) PROVE DataTypeOK'
  BY <1>3 DEF FetchFails, disk, budget
<1>4. ASSUME NEW p \in Procs, NEW plan \in SUBSET Files, Begin(p, plan) PROVE DataTypeOK'
  BY <1>4 DEF Begin
<1>5. ASSUME NEW p \in Procs, Stage(p) PROVE DataTypeOK'
  BY <1>5 DEF Stage, history
<1>6. ASSUME NEW p \in Procs, WriteManifest(p) PROVE DataTypeOK'
  BY <1>6 DEF WriteManifest, history
<1>7. ASSUME NEW p \in Procs, AppendPhase(p) PROVE DataTypeOK'
  BY <1>7, AppendLabels DEF AppendPhase, Appended, history
<1>8. ASSUME NEW p \in Procs, BackUp(p) PROVE DataTypeOK'
  BY <1>8 DEF BackUp, MoveToBackup, history
<1>9. ASSUME NEW p \in Procs, CheckTarget(p) PROVE DataTypeOK'
  BY <1>9 DEF CheckTarget, disk, history
<1>10. ASSUME NEW p \in Procs, Install(p) PROVE DataTypeOK'
  BY <1>10 DEF Install, MoveToTarget
<1>11. ASSUME NEW p \in Procs, ReplacedAll(p) PROVE DataTypeOK'
  BY <1>11 DEF ReplacedAll, disk, history, budget
<1>12. ASSUME NEW p \in Procs, Recover(p) PROVE DataTypeOK'
  BY <1>12 DEF Recover, AfterCleanup, disk, budget
<1>13. ASSUME NEW p \in Procs, Undo(p) PROVE DataTypeOK'
  <2> USE DEF history
  <2>1. PICK f \in todo[p] : \/ RemoveReplacement(p, f)
                             \/ RestoreBackup(p, f)
                             \/ RemoveInstalled(p, f)
                             \/ NothingToUndo(p, f)
    BY <1>13 DEF Undo
  <2>2. CASE RemoveReplacement(p, f)
    BY <1>13, <2>2 DEF Undo, RemoveReplacement
  <2>3. CASE RestoreBackup(p, f)
    BY <1>13, <2>3 DEF Undo, RestoreBackup, MoveToOriginal
  <2>4. CASE RemoveInstalled(p, f)
    BY <1>13, <2>4 DEF Undo, RemoveInstalled
  <2>5. CASE NothingToUndo(p, f)
    BY <1>13, <2>5 DEF Undo, NothingToUndo
  <2> QED
    BY <2>1, <2>2, <2>3, <2>4, <2>5
<1>14. ASSUME NEW p \in Procs, UndoDone(p) PROVE DataTypeOK'
  BY <1>14 DEF UndoDone, disk, budget
<1>15. ASSUME NEW p \in Procs, Cleanup(p) PROVE DataTypeOK'
  BY <1>15 DEF Cleanup, RemoveJournal, RemoveStaged, RemoveBackup, budget
<1>16. ASSUME NEW p \in Procs, CleanupDone(p) PROVE DataTypeOK'
  BY <1>16 DEF CleanupDone, AfterCleanup, budget
<1>17. ASSUME NEW p \in Procs, CleanupFails(p) PROVE DataTypeOK'
  BY <1>17 DEF CleanupFails, disk
<1>18. ASSUME NEW p \in Procs, Crash(p) PROVE DataTypeOK'
  BY <1>18 DEF Crash
<1>19. ASSUME NEW f \in Files, OperatorEdits(f) PROVE DataTypeOK'
  BY <1>19 DEF OperatorEdits, procs
<1>20. CASE UNCHANGED vars
  BY <1>20 DEF vars, disk, procs, history, budget
<1> QED
  BY <1>1, <1>2, <1>3, <1>4, <1>5, <1>6, <1>7, <1>8, <1>9, <1>10, <1>11, <1>12,
     <1>13, <1>14, <1>15, <1>16, <1>17, <1>18, <1>19, <1>20 DEF Next, Step

(* The types alone, in every state.                                        *)
LEMMA PullTypes == Spec => [](DataTypeOK /\ FlagsTypeOK)
<1>1. Init => DataTypeOK
  BY Contents, LabelFacts DEF Init, DataTypeOK, DiskTypeOK, ProcsTypeOK, HistoryTypeOK
<1>2. Init => FlagsTypeOK
  BY DEF Init, FlagsTypeOK
<1> QED
  BY <1>1, <1>2, DataStep, FlagsStep, PTL DEF Spec

-----------------------------------------------------------------------------
(***************************************************************************)
(* The safety properties.                                                  *)
(***************************************************************************)

(* A process that is idle owes the invariant nothing of its own.           *)
LEMMA IdleInv ==
  ASSUME NEW q \in Procs, pc'[q] = "idle"
  PROVE  StageInv(q)' /\ ReplaceInv(q)' /\ UndoInv(q)' /\ CleanupInv(q)'
BY DEF StageInv, ReplaceInv, UndoInv, CleanupInv, Replacing, Appending, Phases, Committing

(* IInv depends on these variables only.                                   *)
LEMMA UnchangedInv ==
  ASSUME IInv, UNCHANGED <<target, txn, staged, backup, jrn, tail, entries, existed, phase,
                           lock, pc, mode, todo, failed, before, ver, touched, gone, cut>>
  PROVE  IInv'
<1> USE DEF IInv, Ours
<1>1. LockInv' /\ DiskInv' /\ BackupInv' /\ DecidedInv' /\ CutInv'
  BY DEF LockInv, DiskInv, BackupInv, DecidedInv, CutInv, AllNew, AllOld, NoBackups
<1>2. \A f \in Ours : RecoverView(f)' = RecoverView(f)
  BY DEF RecoverView, HasBackup, WasInstalled
<1>3. UndoableInv'
  BY <1>2 DEF UndoableInv, Undoable, Committing
<1>4. ASSUME NEW p \in Procs PROVE StageInv(p)' /\ UndoInv(p)' /\ CleanupInv(p)'
  BY <1>2 DEF StageInv, UndoInv, CleanupInv, Committing, AllNew, AllOld, NoBackups, HasBackup
<1>5. ASSUME NEW p \in Procs PROVE ReplaceInv(p)'
  BY DEF ReplaceInv, EntryInv, Next1
<1> QED
  BY <1>1, <1>3, <1>4, <1>5

(* The labels of replace_one, and where an append leads.                   *)
LEMMA AppendFacts ==
  /\ Appending = {"BackingUp", "BackedUp", "Installing", "Installed"}
  /\ Replacing = {"BackingUp", "BackedUp", "Installing", "Installed",
                  "backup", "check", "install"}
  /\ AfterAppend("BackingUp") = "backup" /\ AfterAppend("BackedUp") = "Installing"
  /\ AfterAppend("Installing") = "check" /\ AfterAppend("Installed") = "BackingUp"
BY DEF Appending, Phases, Replacing, AfterAppend

(* The loop over the manifest has one next entry.                          *)
LEMMA OneNext ==
  ASSUME ProcsTypeOK, NEW p \in Procs, NEW f \in todo[p], Next1(p, f)
  PROVE  \A g \in todo[p] \ {f} : ~Next1(p, g)
BY FilesAreNumbered DEF ProcsTypeOK, Next1

(* Every step of a pull, its crash and an edit of the operator keep IInv.  *)
LEMMA IInvStep ==
  ASSUME DataTypeOK, IInv, [Next]_vars
  PROVE  IInv'
<1> USE Contents, NoProcIsNoProc
<1> USE DEF IInv, DataTypeOK, DiskTypeOK, ProcsTypeOK, HistoryTypeOK,
            Fault, NoFault, Goto, Return, RollBack, Pop
<1>1. ASSUME NEW p \in Procs, Acquire(p) PROVE IInv'
  <2>0. \A q \in Procs \ {p} : pc[q] = "idle" /\ pc'[q] = "idle"
    BY <1>1 DEF Acquire, disk, budget, LockInv, Appending, Phases
  <2>1. LockInv'
    BY <1>1, <2>0 DEF Acquire, disk, budget, LockInv
  <2>2. DiskInv'
    BY <1>1, <2>0 DEF Acquire, disk, budget, DiskInv, NoBackups
  <2>3. BackupInv'
    BY <1>1, <2>0 DEF Acquire, disk, budget, BackupInv, Ours
  <2>4. DecidedInv'
    BY <1>1, <2>0 DEF Acquire, disk, budget, DecidedInv, AllNew, AllOld, NoBackups, Ours
  <2>5. UndoableInv'
    BY <1>1, <2>0 DEF Acquire, disk, budget, UndoableInv, Undoable, Committing,
       RecoverView, HasBackup, WasInstalled, Ours
  <2>6. CutInv'
    BY <1>1, <2>0 DEF Acquire, disk, budget, CutInv
  <2>7. StageInv(p)'
    BY <1>1, <2>0 DEF Acquire, disk, budget, StageInv, NoBackups, AllOld, Ours
  <2>8. ReplaceInv(p)'
    BY <1>1, <2>0 DEF Acquire, disk, budget, ReplaceInv, EntryInv, Next1, Ours, Replacing,
       Appending, Phases
  <2>9. UndoInv(p)'
    BY <1>1, <2>0 DEF Acquire, disk, budget, UndoInv, HasBackup, RecoverView, WasInstalled, Ours
  <2>10. CleanupInv(p)'
    BY <1>1, <2>0 DEF Acquire, disk, budget, CleanupInv, Committing, AllNew, NoBackups,
       Ours, RecoverView, HasBackup, WasInstalled
  <2> QED
    BY <2>0, <2>1, <2>2, <2>3, <2>4, <2>5, <2>6, <2>7, <2>8, <2>9, <2>10, IdleInv
<1>2. ASSUME NEW p \in Procs, FetchFails(p) PROVE IInv'
  <2>0. \A q \in Procs \ {p} : pc[q] = "idle" /\ pc'[q] = "idle"
    BY <1>2 DEF FetchFails, disk, budget, LockInv, Appending, Phases
  <2>1. LockInv'
    BY <1>2, <2>0 DEF FetchFails, disk, budget, LockInv
  <2>2. DiskInv'
    BY <1>2, <2>0 DEF FetchFails, disk, budget, DiskInv, NoBackups
  <2>3. BackupInv'
    BY <1>2, <2>0 DEF FetchFails, disk, budget, BackupInv, Ours
  <2>4. DecidedInv'
    BY <1>2, <2>0 DEF FetchFails, disk, budget, DecidedInv, AllNew, AllOld, NoBackups, Ours
  <2>5. UndoableInv'
    BY <1>2, <2>0 DEF FetchFails, disk, budget, UndoableInv, Undoable, Committing,
       RecoverView, HasBackup, WasInstalled, Ours
  <2>6. CutInv'
    BY <1>2, <2>0 DEF FetchFails, disk, budget, CutInv
  <2>7. StageInv(p)'
    BY <1>2, <2>0 DEF FetchFails, disk, budget, StageInv, NoBackups, AllOld, Ours
  <2>8. ReplaceInv(p)'
    BY <1>2, <2>0 DEF FetchFails, disk, budget, ReplaceInv, EntryInv, Next1, Ours,
       Replacing, Appending, Phases
  <2>9. UndoInv(p)'
    BY <1>2, <2>0 DEF FetchFails, disk, budget, UndoInv, HasBackup, RecoverView,
       WasInstalled, Ours
  <2>10. CleanupInv(p)'
    BY <1>2, <2>0 DEF FetchFails, disk, budget, CleanupInv, Committing, AllNew, NoBackups,
       Ours, RecoverView, HasBackup, WasInstalled
  <2> QED
    BY <2>0, <2>1, <2>2, <2>3, <2>4, <2>5, <2>6, <2>7, <2>8, <2>9, <2>10, IdleInv
<1>3. ASSUME NEW p \in Procs, NEW plan \in SUBSET Files, Begin(p, plan) PROVE IInv'
  <2>0. \A q \in Procs \ {p} : pc[q] = "idle" /\ pc'[q] = "idle"
    BY <1>3 DEF Begin, LockInv, Appending, Phases
  <2>1. LockInv'
    BY <1>3, <2>0 DEF Begin, LockInv
  <2>2. DiskInv'
    BY <1>3, <2>0 DEF Begin, DiskInv, NoBackups, StageInv, AllOld, Ours
  <2>3. BackupInv'
    BY <1>3, <2>0 DEF Begin, BackupInv, Ours, StageInv, NoBackups, AllOld, DiskInv
  <2>4. DecidedInv'
    BY <1>3, <2>0 DEF Begin, DecidedInv, AllNew, AllOld, NoBackups, Ours, StageInv, DiskInv
  <2>5. UndoableInv'
    BY <1>3, <2>0 DEF Begin, UndoableInv, Undoable, Committing, RecoverView, HasBackup,
       WasInstalled, Ours, StageInv, NoBackups, AllOld, DiskInv
  <2>6. CutInv'
    BY <1>3, <2>0 DEF Begin, CutInv
  <2>7. StageInv(p)'
    BY <1>3, <2>0 DEF Begin, StageInv, NoBackups, AllOld, Ours, DiskInv
  <2>8. ReplaceInv(p)'
    BY <1>3, <2>0 DEF Begin, ReplaceInv, EntryInv, Next1, Ours, Replacing, Appending, Phases
  <2>9. UndoInv(p)'
    BY <1>3, <2>0 DEF Begin, UndoInv, HasBackup, RecoverView, WasInstalled, Ours
  <2>10. CleanupInv(p)'
    BY <1>3, <2>0 DEF Begin, CleanupInv, Committing, AllNew, NoBackups, Ours, RecoverView,
       HasBackup, WasInstalled
  <2> QED
    BY <2>0, <2>1, <2>2, <2>3, <2>4, <2>5, <2>6, <2>7, <2>8, <2>9, <2>10, IdleInv
<1>4. ASSUME NEW p \in Procs, Stage(p) PROVE IInv'
  <2>0. \A q \in Procs \ {p} : pc[q] = "idle" /\ pc'[q] = "idle"
    BY <1>4 DEF Stage, history, LockInv, Appending, Phases
  <2>1. LockInv'
    BY <1>4, <2>0 DEF Stage, history, LockInv
  <2>2. DiskInv'
    BY <1>4, <2>0 DEF Stage, history, DiskInv, NoBackups, StageInv, AllOld, Ours
  <2>3. BackupInv'
    BY <1>4, <2>0 DEF Stage, history, BackupInv, Ours
  <2>4. DecidedInv'
    BY <1>4, <2>0 DEF Stage, history, DecidedInv, AllNew, AllOld, NoBackups, Ours
  <2>5. UndoableInv'
    BY <1>4, <2>0 DEF Stage, history, UndoableInv, Undoable, Committing, RecoverView,
       HasBackup, WasInstalled, Ours, StageInv, NoBackups, AllOld
  <2>6. CutInv'
    BY <1>4, <2>0 DEF Stage, history, CutInv, StageInv, NoBackups, AllOld, Ours
  <2>7. StageInv(p)'
    BY <1>4, <2>0 DEF Stage, history, StageInv, NoBackups, AllOld, Ours
  <2>8. ReplaceInv(p)'
    BY <1>4, <2>0 DEF Stage, history, ReplaceInv, EntryInv, Next1, Ours, Replacing,
       Appending, Phases
  <2>9. UndoInv(p)'
    BY <1>4, <2>0 DEF Stage, history, UndoInv, HasBackup, RecoverView, WasInstalled, Ours
  <2>10. CleanupInv(p)'
    BY <1>4, <2>0 DEF Stage, history, CleanupInv, Committing, AllNew, NoBackups, Ours,
       RecoverView, HasBackup, WasInstalled
  <2> QED
    BY <2>0, <2>1, <2>2, <2>3, <2>4, <2>5, <2>6, <2>7, <2>8, <2>9, <2>10, IdleInv
<1>5. ASSUME NEW p \in Procs, WriteManifest(p) PROVE IInv'
  <2>0. \A q \in Procs \ {p} : pc[q] = "idle" /\ pc'[q] = "idle"
    BY <1>5 DEF WriteManifest, history, LockInv, Appending, Phases
  <2>1. LockInv'
    BY <1>5, <2>0 DEF WriteManifest, history, LockInv
  <2>2. DiskInv'
    BY <1>5, <2>0 DEF WriteManifest, history, DiskInv, NoBackups, StageInv, AllOld, Ours
  <2>3. BackupInv'
    BY <1>5, <2>0 DEF WriteManifest, history, BackupInv, Ours
  <2>4. DecidedInv'
    BY <1>5, <2>0 DEF WriteManifest, history, DecidedInv, AllNew, AllOld, NoBackups, Ours,
       StageInv
  <2>5. UndoableInv'
    BY <1>5, <2>0 DEF WriteManifest, history, UndoableInv, Undoable, Committing,
       RecoverView, HasBackup, WasInstalled, Ours, StageInv, NoBackups, AllOld,
       DiskInv
  <2>6. CutInv'
    BY <1>5, <2>0 DEF WriteManifest, history, CutInv
  <2>7. StageInv(p)'
    BY <1>5, <2>0 DEF WriteManifest, history, StageInv, NoBackups, AllOld, Ours
  <2>8. ReplaceInv(p)'
    <3>1. CASE pc'[p] = "recover"
      BY <1>5, <3>1 DEF WriteManifest, ReplaceInv, Replacing, Appending, Phases
    <3>2. CASE pc'[p] = "BackingUp"
      <4>1. /\ jrn' = "whole" /\ todo'[p] = entries /\ pc[p] = "stage" /\ todo[p] = {}
            /\ phase' = [f \in Files |-> "Prepared"]
            /\ UNCHANGED <<target, txn, staged, backup, tail, entries, existed, cut, gone>>
        BY <1>5, <3>2 DEF WriteManifest, history
      <4>2. /\ txn /\ staged = entries /\ NoBackups /\ ~cut /\ gone = {} /\ ~tail
        BY <4>1 DEF StageInv, DiskInv
      <4>3. entries \subseteq Files
        OBVIOUS
      <4>4. \A f \in todo'[p] : EntryInv(p, f)'
        BY <3>2, <4>1, <4>2, <4>3 DEF EntryInv, NoBackups
      <4> QED
        BY <4>1, <4>2, <4>3, <4>4 DEF ReplaceInv, NoBackups
    <3> QED
      BY <1>5, <3>1, <3>2 DEF WriteManifest
  <2>9. UndoInv(p)'
    BY <1>5, <2>0 DEF WriteManifest, history, UndoInv, HasBackup, RecoverView,
       WasInstalled, Ours
  <2>10. CleanupInv(p)'
    BY <1>5, <2>0 DEF WriteManifest, history, CleanupInv, Committing, AllNew, NoBackups,
       Ours, RecoverView, HasBackup, WasInstalled
  <2> QED
    BY <2>0, <2>1, <2>2, <2>3, <2>4, <2>5, <2>6, <2>7, <2>8, <2>9, <2>10, IdleInv
<1>6. ASSUME NEW p \in Procs, AppendPhase(p) PROVE IInv'
  <2>0. \A q \in Procs \ {p} : pc[q] = "idle" /\ pc'[q] = "idle"
    BY <1>6 DEF AppendPhase, Appended, CanAdvance, history, LockInv, Appending, Phases
  <2>1. LockInv'
    BY <1>6, <2>0, AppendFacts DEF AppendPhase, history, LockInv
  <2>2. DiskInv'
    BY <1>6, <2>0 DEF AppendPhase, Appended, CanAdvance, history, DiskInv, NoBackups,
       ReplaceInv, EntryInv, Next1, Ours, Replacing, Appending, Phases
  <2>3. BackupInv'
    BY <1>6, <2>0 DEF AppendPhase, Appended, CanAdvance, history, BackupInv, Ours
  <2>4. DecidedInv'
    BY <1>6, <2>0 DEF AppendPhase, Appended, CanAdvance, history, DecidedInv, AllNew,
       AllOld, NoBackups, Ours, ReplaceInv, EntryInv, Next1, Replacing, Appending,
       Phases
  <2>5. UndoableInv'
    BY <1>6, <2>0 DEF AppendPhase, Appended, CanAdvance, history, UndoableInv, Undoable,
       Committing, RecoverView, HasBackup, WasInstalled, Ours, ReplaceInv, EntryInv,
       Next1, Replacing, Appending, Phases
  <2>6. CutInv'
    BY <1>6, <2>0 DEF AppendPhase, Appended, CanAdvance, history, CutInv
  <2>7. StageInv(p)'
    BY <1>6, <2>0, AppendFacts DEF AppendPhase, history, StageInv
  <2>8. ReplaceInv(p)'
    <3>1. CASE pc'[p] = "recover"
      BY <3>1, AppendFacts DEF ReplaceInv
    <3>2. CASE pc'[p] # "recover"
      <4>1. PICK f \in todo[p] :
              /\ Next1(p, f)
              /\ phase' = [phase EXCEPT ![f] = pc[p]] /\ jrn' = Appended(f, pc[p])
              /\ pc'[p] = AfterAppend(pc[p])
              /\ todo'[p] = IF pc[p] = "Installed" THEN todo[p] \ {f} ELSE todo[p]
              /\ UNCHANGED <<tail, target, txn, staged, backup, entries, existed,
                             before, ver, touched, gone, cut>>
              /\ pc[p] \in Appending
        BY <1>6, <3>2, AppendFacts DEF AppendPhase, history
      <4>2. /\ txn /\ jrn = "whole" /\ ~tail /\ ~cut /\ gone = {}
            /\ todo[p] \subseteq entries /\ EntryInv(p, f)
        BY <4>1, AppendFacts DEF ReplaceInv
      <4>3. \A g \in todo[p] \ {f} :
              phase[g] = "Prepared" /\ g \in staged /\ backup[g] = Absent /\ ~Next1(p, g)
        BY <4>1, AppendFacts, OneNext DEF ReplaceInv
      <4>4. jrn' = "whole"
        BY <4>1, <4>2, AppendFacts DEF EntryInv, Appended, CanAdvance
      <4>5. CASE pc[p] = "Installed"
        <5>1. todo'[p] = todo[p] \ {f} /\ pc'[p] = "BackingUp" /\ phase'[f] = "Installed"
          BY <4>1, <4>2, <4>5, AppendFacts
        <5>2. \A g \in entries \ todo[p] :
                phase[g] = "Installed" /\ g \notin staged /\ (g \in Ours => target[g] = ver)
          BY <4>1, AppendFacts DEF ReplaceInv
        <5>3. f \notin staged /\ (f \in Ours => target[f] = ver)
          BY <4>2, <4>5 DEF EntryInv
        <5>4. \A g \in todo'[p] : EntryInv(p, g)'
          BY <4>1, <4>3, <5>1, <4>2, <4>5 DEF EntryInv
        <5>5. \A g \in todo'[p] : phase'[g] = "Prepared" /\ g \in staged' /\ backup'[g] = Absent
          BY <4>1, <4>3, <5>1, <4>2
        <5>6. \A g \in entries' \ todo'[p] :
                phase'[g] = "Installed" /\ g \notin staged' /\ (g \in Ours' => target'[g] = ver')
          BY <4>1, <4>2, <5>1, <5>2, <5>3 DEF Ours
        <5> QED
          BY <4>1, <4>2, <4>4, <5>1, <5>4, <5>5, <5>6 DEF ReplaceInv
      <4>6. CASE pc[p] # "Installed"
        <5>1. todo'[p] = todo[p] /\ phase'[f] = pc[p]
          BY <4>1, <4>2, <4>6
        <5>2. EntryInv(p, f)'
          BY <4>1, <4>2, <4>6, <5>1, AppendFacts DEF EntryInv
        <5>3. \A g \in todo'[p] \ {f} :
                phase'[g] = "Prepared" /\ g \in staged' /\ backup'[g] = Absent /\ ~Next1(p, g)'
          BY <4>1, <4>2, <4>3, <5>1 DEF Next1
        <5>4. Next1(p, f)'
          BY <4>1, <5>1 DEF Next1
        <5>5. \A g \in entries' \ todo'[p] :
                phase'[g] = "Installed" /\ g \notin staged' /\ (g \in Ours' => target'[g] = ver')
          BY <4>1, <4>2, <5>1, AppendFacts DEF Ours, ReplaceInv
        <5> QED
          BY <4>1, <4>2, <4>4, <5>1, <5>2, <5>3, <5>4, <5>5 DEF ReplaceInv
      <4> QED
        BY <4>5, <4>6
    <3> QED
      BY <3>1, <3>2
  <2>9. UndoInv(p)'
    <3>1. AfterAppend(pc[p]) \notin {"recover", "undo"}
      BY <1>6, AppendFacts DEF AppendPhase
    <3>2. \/ pc'[p] = AfterAppend(pc[p])
          \/ pc'[p] = "recover" /\ mode'[p] = "rollback"
      BY <1>6 DEF AppendPhase
    <3> QED
      BY <3>1, <3>2 DEF UndoInv
  <2>10. CleanupInv(p)'
    BY <1>6, <2>0, AppendFacts DEF AppendPhase, CleanupInv, Committing
  <2> QED
    BY <2>0, <2>1, <2>2, <2>3, <2>4, <2>5, <2>6, <2>7, <2>8, <2>9, <2>10, IdleInv
<1>7. ASSUME NEW p \in Procs, BackUp(p) PROVE IInv'
  <2>0. \A q \in Procs \ {p} : pc[q] = "idle" /\ pc'[q] = "idle"
    BY <1>7 DEF BackUp, MoveToBackup, history, LockInv, Appending, Phases
  <2>1. LockInv'
    BY <1>7, <2>0 DEF BackUp, MoveToBackup, history, LockInv
  <2>2. DiskInv'
    BY <1>7, <2>0 DEF BackUp, MoveToBackup, history, DiskInv, NoBackups, ReplaceInv,
       EntryInv, Next1, Ours, Replacing, Appending, Phases
  <2>3. BackupInv'
    BY <1>7, <2>0 DEF BackUp, MoveToBackup, history, BackupInv, Ours, ReplaceInv,
       EntryInv, Next1, Replacing, Appending, Phases, UndoableInv, Undoable,
       Committing, RecoverView, HasBackup, WasInstalled
  <2>4. DecidedInv'
    BY <1>7, <2>0 DEF BackUp, MoveToBackup, history, DecidedInv, AllNew, AllOld,
       NoBackups, Ours, ReplaceInv, EntryInv, Next1, Replacing, Appending, Phases
  <2>5. UndoableInv'
    BY <1>7, <2>0 DEF BackUp, MoveToBackup, history, UndoableInv, Undoable, Committing,
       RecoverView, HasBackup, WasInstalled, Ours, ReplaceInv, EntryInv, Next1,
       Replacing, Appending, Phases
  <2>6. CutInv'
    BY <1>7, <2>0 DEF BackUp, MoveToBackup, history, CutInv
  <2>7. StageInv(p)'
    BY <1>7, <2>0 DEF BackUp, MoveToBackup, history, StageInv, NoBackups, AllOld, Ours
  <2>8. ReplaceInv(p)'
    <3>1. CASE pc'[p] = "recover"
      BY <3>1, AppendFacts DEF ReplaceInv
    <3>2. CASE pc'[p] # "recover"
      <4>1. PICK f \in todo[p] :
              /\ Next1(p, f)
              /\ pc[p] = "backup" /\ pc'[p] = "BackedUp"
              /\ \/ f \notin existed /\ UNCHANGED <<target, backup>>
                 \/ f \in existed /\ target[f] # Absent
                    /\ target' = [target EXCEPT ![f] = Absent]
                    /\ backup' = [backup EXCEPT ![f] = target[f]]
              /\ UNCHANGED <<todo, jrn, tail, phase, txn, staged, entries, existed,
                             before, ver, touched, gone, cut>>
        BY <1>7, <3>2 DEF BackUp, MoveToBackup, history
      <4>2. /\ txn /\ jrn = "whole" /\ ~tail /\ ~cut /\ gone = {}
            /\ todo[p] \subseteq entries /\ EntryInv(p, f)
        BY <4>1, AppendFacts DEF ReplaceInv
      <4>3. \A g \in todo[p] \ {f} :
              phase[g] = "Prepared" /\ g \in staged /\ backup[g] = Absent /\ ~Next1(p, g)
        BY <4>1, AppendFacts, OneNext DEF ReplaceInv
      <4>4. EntryInv(p, f)'
        BY <4>1, <4>2 DEF EntryInv
      <4>5. \A g \in todo'[p] \ {f} :
              phase'[g] = "Prepared" /\ g \in staged' /\ backup'[g] = Absent /\ ~Next1(p, g)'
        BY <4>1, <4>2, <4>3 DEF Next1
      <4>6. Next1(p, f)'
        BY <4>1 DEF Next1
      <4>7. \A g \in entries' \ todo'[p] :
              phase'[g] = "Installed" /\ g \notin staged' /\ (g \in Ours' => target'[g] = ver')
        <5>1. \A g \in entries \ todo[p] :
                phase[g] = "Installed" /\ g \notin staged /\ (g \in Ours => target[g] = ver)
          BY <4>1, AppendFacts DEF ReplaceInv
        <5> QED
          BY <4>1, <4>2, <5>1 DEF Ours
      <4> QED
        BY <4>1, <4>2, <4>4, <4>5, <4>6, <4>7 DEF ReplaceInv
    <3> QED
      BY <3>1, <3>2
  <2>9. UndoInv(p)'
    BY <1>7, <2>0 DEF BackUp, MoveToBackup, history, UndoInv, HasBackup, RecoverView,
       WasInstalled, Ours
  <2>10. CleanupInv(p)'
    BY <1>7, <2>0 DEF BackUp, MoveToBackup, history, CleanupInv, Committing, AllNew,
       NoBackups, Ours, RecoverView, HasBackup, WasInstalled
  <2> QED
    BY <2>0, <2>1, <2>2, <2>3, <2>4, <2>5, <2>6, <2>7, <2>8, <2>9, <2>10, IdleInv
<1>8. ASSUME NEW p \in Procs, CheckTarget(p) PROVE IInv'
  <2>0. \A q \in Procs \ {p} : pc[q] = "idle" /\ pc'[q] = "idle"
    BY <1>8 DEF CheckTarget, disk, history, LockInv, Appending, Phases
  <2>1. LockInv'
    BY <1>8, <2>0 DEF CheckTarget, disk, history, LockInv
  <2>2. DiskInv'
    BY <1>8, <2>0 DEF CheckTarget, disk, history, DiskInv, NoBackups
  <2>3. BackupInv'
    BY <1>8, <2>0 DEF CheckTarget, disk, history, BackupInv, Ours
  <2>4. DecidedInv'
    BY <1>8, <2>0 DEF CheckTarget, disk, history, DecidedInv, AllNew, AllOld, NoBackups, Ours
  <2>5. UndoableInv'
    BY <1>8, <2>0 DEF CheckTarget, disk, history, UndoableInv, Undoable, Committing,
       RecoverView, HasBackup, WasInstalled, Ours
  <2>6. CutInv'
    BY <1>8, <2>0 DEF CheckTarget, disk, history, CutInv
  <2>7. StageInv(p)'
    BY <1>8, <2>0 DEF CheckTarget, disk, history, StageInv, NoBackups, AllOld, Ours
  <2>8. ReplaceInv(p)'
    BY <1>8, <2>0 DEF CheckTarget, disk, history, ReplaceInv, EntryInv, Next1, Ours,
       Replacing, Appending, Phases
  <2>9. UndoInv(p)'
    BY <1>8, <2>0 DEF CheckTarget, disk, history, UndoInv, HasBackup, RecoverView,
       WasInstalled, Ours
  <2>10. CleanupInv(p)'
    BY <1>8, <2>0 DEF CheckTarget, disk, history, CleanupInv, Committing, AllNew,
       NoBackups, Ours, RecoverView, HasBackup, WasInstalled
  <2> QED
    BY <2>0, <2>1, <2>2, <2>3, <2>4, <2>5, <2>6, <2>7, <2>8, <2>9, <2>10, IdleInv
<1>9. ASSUME NEW p \in Procs, Install(p) PROVE IInv'
  <2>0. \A q \in Procs \ {p} : pc[q] = "idle" /\ pc'[q] = "idle"
    BY <1>9 DEF Install, MoveToTarget, LockInv, Appending, Phases
  <2>1. LockInv'
    BY <1>9, <2>0 DEF Install, MoveToTarget, LockInv
  <2>2. DiskInv'
    BY <1>9, <2>0 DEF Install, MoveToTarget, DiskInv, NoBackups, ReplaceInv, EntryInv,
       Next1, Ours, Replacing, Appending, Phases
  <2>3. BackupInv'
    BY <1>9, <2>0 DEF Install, MoveToTarget, BackupInv, Ours, ReplaceInv, EntryInv, Next1,
       Replacing, Appending, Phases
  <2>4. DecidedInv'
    BY <1>9, <2>0 DEF Install, MoveToTarget, DecidedInv, AllNew, AllOld, NoBackups, Ours,
       ReplaceInv, EntryInv, Next1, Replacing, Appending, Phases
  <2>5. UndoableInv'
    <3>1. CASE UNCHANGED <<target, staged>>
      BY <1>9, <2>0, <3>1 DEF Install, UndoableInv, Undoable, Committing, RecoverView,
         HasBackup, WasInstalled, Ours, ReplaceInv, Replacing, Appending, Phases
    <3>2. CASE ~ UNCHANGED <<target, staged>>
      <4>1. PICK f \in todo[p] : Next1(p, f) /\ MoveToTarget(f)
        BY <1>9, <3>2 DEF Install
      <4>2. /\ pc[p] = "install"
            /\ UNCHANGED <<txn, backup, jrn, tail, entries, existed, phase, before, ver,
                           touched, gone, cut>>
        BY <1>9 DEF Install
      <4>3. /\ EntryInv(p, f) /\ todo[p] \subseteq entries /\ ~cut /\ gone = {}
        BY <4>1, <4>2, AppendFacts DEF ReplaceInv
      <4>4. f \in Files /\ phase[f] = "Installing"
        BY <4>2, <4>3 DEF EntryInv
      <4>5. jrn = "whole" => Undoable
        BY <4>2, <4>3 DEF UndoableInv
      <4>6. f \in Ours => RecoverView(f)' = before[f] \/ jrn # "whole"
        BY <4>1, <4>2, <4>3, <4>4 DEF MoveToTarget, RecoverView, HasBackup, WasInstalled,
           EntryInv, Ours, BackupInv, DiskInv
      <4>7. \A g \in Ours \ {f} : RecoverView(g)' = RecoverView(g)
        BY <4>1, <4>2, <4>4 DEF MoveToTarget, RecoverView, HasBackup, WasInstalled, Ours
      <4> QED
        BY <4>2, <4>5, <4>6, <4>7 DEF UndoableInv, Undoable, Ours
    <3> QED
      BY <3>1, <3>2
  <2>6. CutInv'
    BY <1>9, <2>0 DEF Install, MoveToTarget, CutInv
  <2>7. StageInv(p)'
    BY <1>9, <2>0 DEF Install, MoveToTarget, StageInv, NoBackups, AllOld, Ours
  <2>8. ReplaceInv(p)'
    <3>1. CASE pc'[p] = "recover"
      BY <3>1, AppendFacts DEF ReplaceInv
    <3>2. CASE pc'[p] # "recover"
      <4>1. PICK f \in todo[p] :
              /\ Next1(p, f)
              /\ pc[p] = "install" /\ pc'[p] = "Installed"
              /\ staged' = staged \ {f} /\ target' = [target EXCEPT ![f] = ver]
              /\ UNCHANGED <<todo, jrn, tail, phase, txn, backup, entries, existed,
                             before, ver, touched, gone, cut>>
        BY <1>9, <3>2 DEF Install, MoveToTarget
      <4>2. /\ txn /\ jrn = "whole" /\ ~tail /\ ~cut /\ gone = {}
            /\ todo[p] \subseteq entries /\ EntryInv(p, f)
        BY <4>1, AppendFacts DEF ReplaceInv
      <4>3. \A g \in todo[p] \ {f} :
              phase[g] = "Prepared" /\ g \in staged /\ backup[g] = Absent /\ ~Next1(p, g)
        BY <4>1, AppendFacts, OneNext DEF ReplaceInv
      <4>4. EntryInv(p, f)'
        BY <4>1, <4>2 DEF EntryInv, Ours
      <4>5. \A g \in todo'[p] \ {f} :
              phase'[g] = "Prepared" /\ g \in staged' /\ backup'[g] = Absent /\ ~Next1(p, g)'
        BY <4>1, <4>2, <4>3 DEF Next1
      <4>6. Next1(p, f)'
        BY <4>1 DEF Next1
      <4>7. \A g \in entries' \ todo'[p] :
              phase'[g] = "Installed" /\ g \notin staged' /\ (g \in Ours' => target'[g] = ver')
        <5>1. \A g \in entries \ todo[p] :
                phase[g] = "Installed" /\ g \notin staged /\ (g \in Ours => target[g] = ver)
          BY <4>1, AppendFacts DEF ReplaceInv
        <5> QED
          BY <4>1, <4>2, <5>1 DEF Ours
      <4> QED
        BY <4>1, <4>2, <4>4, <4>5, <4>6, <4>7 DEF ReplaceInv
    <3> QED
      BY <3>1, <3>2
  <2>9. UndoInv(p)'
    BY <1>9, <2>0 DEF Install, MoveToTarget, UndoInv, HasBackup, RecoverView, WasInstalled, Ours
  <2>10. CleanupInv(p)'
    BY <1>9, <2>0 DEF Install, MoveToTarget, CleanupInv, Committing, AllNew, NoBackups,
       Ours, RecoverView, HasBackup, WasInstalled
  <2> QED
    BY <2>0, <2>1, <2>2, <2>3, <2>4, <2>5, <2>6, <2>7, <2>8, <2>9, <2>10, IdleInv
<1>10. ASSUME NEW p \in Procs, ReplacedAll(p) PROVE IInv'
  <2>0. \A q \in Procs \ {p} : pc[q] = "idle" /\ pc'[q] = "idle"
    BY <1>10 DEF ReplacedAll, disk, history, budget, LockInv, Appending, Phases
  <2>1. LockInv'
    BY <1>10, <2>0 DEF ReplacedAll, disk, history, budget, LockInv
  <2>2. DiskInv'
    BY <1>10, <2>0 DEF ReplacedAll, disk, history, budget, DiskInv, NoBackups
  <2>3. BackupInv'
    BY <1>10, <2>0 DEF ReplacedAll, disk, history, budget, BackupInv, Ours
  <2>4. DecidedInv'
    BY <1>10, <2>0 DEF ReplacedAll, disk, history, budget, DecidedInv, AllNew, AllOld,
       NoBackups, Ours
  <2>5. UndoableInv'
    BY <1>10, <2>0 DEF ReplacedAll, disk, history, budget, UndoableInv, Undoable,
       Committing, RecoverView, HasBackup, WasInstalled, Ours, ReplaceInv, EntryInv,
       Next1, Replacing, Appending, Phases
  <2>6. CutInv'
    BY <1>10, <2>0 DEF ReplacedAll, disk, history, budget, CutInv
  <2>7. StageInv(p)'
    BY <1>10, <2>0 DEF ReplacedAll, disk, history, budget, StageInv, NoBackups, AllOld, Ours
  <2>8. ReplaceInv(p)'
    BY <1>10, <2>0 DEF ReplacedAll, disk, history, budget, ReplaceInv, EntryInv, Next1,
       Ours, Replacing, Appending, Phases
  <2>9. UndoInv(p)'
    BY <1>10, <2>0 DEF ReplacedAll, disk, history, budget, UndoInv, HasBackup,
       RecoverView, WasInstalled, Ours
  <2>10. CleanupInv(p)'
    BY <1>10, <2>0 DEF ReplacedAll, disk, history, budget, CleanupInv, Committing, AllNew,
       NoBackups, Ours, RecoverView, HasBackup, WasInstalled, ReplaceInv, EntryInv,
       Next1, Replacing, Appending, Phases, DiskInv
  <2> QED
    BY <2>0, <2>1, <2>2, <2>3, <2>4, <2>5, <2>6, <2>7, <2>8, <2>9, <2>10, IdleInv
<1>11. ASSUME NEW p \in Procs, Recover(p) PROVE IInv'
  <2>0. \A q \in Procs \ {p} : pc[q] = "idle" /\ pc'[q] = "idle"
    BY <1>11 DEF Recover, AfterCleanup, Unprepared, Unreadable, disk, budget, LockInv,
       Appending, Phases
  <2>1. LockInv'
    BY <1>11, <2>0 DEF Recover, AfterCleanup, Unprepared, Unreadable, disk, budget, LockInv
  <2>2. DiskInv'
    BY <1>11, <2>0 DEF Recover, AfterCleanup, Unprepared, Unreadable, disk, budget,
       DiskInv, NoBackups
  <2>3. BackupInv'
    BY <1>11, <2>0 DEF Recover, AfterCleanup, Unprepared, Unreadable, disk, budget,
       BackupInv, Ours
  <2>4. DecidedInv'
    BY <1>11, <2>0 DEF Recover, AfterCleanup, Unprepared, Unreadable, disk, budget,
       DecidedInv, AllNew, AllOld, NoBackups, Ours
  <2>5. UndoableInv'
    BY <1>11, <2>0 DEF Recover, AfterCleanup, Unprepared, Unreadable, disk, budget,
       UndoableInv, Undoable, Committing, RecoverView, HasBackup, WasInstalled, Ours,
       UndoInv
  <2>6. CutInv'
    BY <1>11, <2>0 DEF Recover, AfterCleanup, Unprepared, Unreadable, disk, budget, CutInv
  <2>7. StageInv(p)'
    BY <1>11, <2>0 DEF Recover, AfterCleanup, Unprepared, Unreadable, disk, budget,
       StageInv, NoBackups, AllOld, Ours, DiskInv
  <2>8. ReplaceInv(p)'
    BY <1>11, <2>0 DEF Recover, AfterCleanup, Unprepared, Unreadable, disk, budget,
       ReplaceInv, EntryInv, Next1, Ours, Replacing, Appending, Phases
  <2>9. UndoInv(p)'
    BY <1>11, <2>0 DEF Recover, AfterCleanup, Unprepared, Unreadable, disk, budget,
       UndoInv, HasBackup, RecoverView, WasInstalled, Ours, DiskInv, NoBackups
  <2>10. CleanupInv(p)'
    BY <1>11, <2>0 DEF Recover, AfterCleanup, Unprepared, Unreadable, disk, budget,
       CleanupInv, Committing, AllNew, NoBackups, Ours, RecoverView, HasBackup,
       WasInstalled, UndoInv
  <2> QED
    BY <2>0, <2>1, <2>2, <2>3, <2>4, <2>5, <2>6, <2>7, <2>8, <2>9, <2>10, IdleInv
<1>12. ASSUME NEW p \in Procs, Undo(p) PROVE IInv'
  <2>0. \A q \in Procs \ {p} : pc[q] = "idle" /\ pc'[q] = "idle"
    BY <1>12 DEF Undo, RemoveReplacement, RestoreBackup, MoveToOriginal, RemoveInstalled,
       NothingToUndo, Remember, UndoResult, history, LockInv, Appending, Phases
  <2>1. LockInv'
    BY <1>12, <2>0 DEF Undo, RemoveReplacement, RestoreBackup, MoveToOriginal,
       RemoveInstalled, NothingToUndo, Remember, UndoResult, history, LockInv
  <2>2. DiskInv'
    BY <1>12, <2>0 DEF Undo, RemoveReplacement, RestoreBackup, MoveToOriginal,
       RemoveInstalled, NothingToUndo, Remember, UndoResult, history, DiskInv,
       NoBackups, UndoInv, HasBackup, RecoverView, WasInstalled, Ours
  <2>3. BackupInv'
    BY <1>12, <2>0 DEF Undo, RemoveReplacement, RestoreBackup, MoveToOriginal,
       RemoveInstalled, NothingToUndo, Remember, UndoResult, history, BackupInv, Ours,
       UndoInv, HasBackup, RecoverView, WasInstalled
  <2>4. DecidedInv'
    BY <1>12, <2>0 DEF Undo, RemoveReplacement, RestoreBackup, MoveToOriginal,
       RemoveInstalled, NothingToUndo, Remember, UndoResult, history, DecidedInv,
       AllNew, AllOld, NoBackups, Ours, UndoInv, HasBackup, RecoverView, WasInstalled
  <2>5. UndoableInv'
    BY <1>12, <2>0 DEF Undo, RemoveReplacement, RestoreBackup, MoveToOriginal,
       RemoveInstalled, NothingToUndo, Remember, UndoResult, history, UndoableInv,
       Undoable, Committing, RecoverView, HasBackup, WasInstalled, Ours, UndoInv
  <2>6. CutInv'
    BY <1>12, <2>0 DEF Undo, RemoveReplacement, RestoreBackup, MoveToOriginal,
       RemoveInstalled, NothingToUndo, Remember, UndoResult, history, CutInv
  <2>7. StageInv(p)'
    BY <1>12, <2>0 DEF Undo, RemoveReplacement, RestoreBackup, MoveToOriginal,
       RemoveInstalled, NothingToUndo, Remember, UndoResult, history, StageInv,
       NoBackups, AllOld, Ours
  <2>8. ReplaceInv(p)'
    BY <1>12, <2>0 DEF Undo, RemoveReplacement, RestoreBackup, MoveToOriginal,
       RemoveInstalled, NothingToUndo, Remember, UndoResult, history, ReplaceInv,
       EntryInv, Next1, Ours, Replacing, Appending, Phases
  <2>9. UndoInv(p)'
    BY <1>12, <2>0 DEF Undo, RemoveReplacement, RestoreBackup, MoveToOriginal,
       RemoveInstalled, NothingToUndo, Remember, UndoResult, history, UndoInv,
       HasBackup, RecoverView, WasInstalled, Ours
  <2>10. CleanupInv(p)'
    BY <1>12, <2>0 DEF Undo, RemoveReplacement, RestoreBackup, MoveToOriginal,
       RemoveInstalled, NothingToUndo, Remember, UndoResult, history, CleanupInv,
       Committing, AllNew, NoBackups, Ours, RecoverView, HasBackup, WasInstalled
  <2> QED
    BY <2>0, <2>1, <2>2, <2>3, <2>4, <2>5, <2>6, <2>7, <2>8, <2>9, <2>10, IdleInv
<1>13. ASSUME NEW p \in Procs, UndoDone(p) PROVE IInv'
  <2>0. \A q \in Procs \ {p} : pc[q] = "idle" /\ pc'[q] = "idle"
    BY <1>13 DEF UndoDone, disk, budget, LockInv, Appending, Phases
  <2>1. LockInv'
    BY <1>13, <2>0 DEF UndoDone, disk, budget, LockInv
  <2>2. DiskInv'
    BY <1>13, <2>0 DEF UndoDone, disk, budget, DiskInv, NoBackups
  <2>3. BackupInv'
    BY <1>13, <2>0 DEF UndoDone, disk, budget, BackupInv, Ours
  <2>4. DecidedInv'
    BY <1>13, <2>0 DEF UndoDone, disk, budget, DecidedInv, AllNew, AllOld, NoBackups, Ours
  <2>5. UndoableInv'
    BY <1>13, <2>0 DEF UndoDone, disk, budget, UndoableInv, Undoable, Committing,
       RecoverView, HasBackup, WasInstalled, Ours
  <2>6. CutInv'
    BY <1>13, <2>0 DEF UndoDone, disk, budget, CutInv
  <2>7. StageInv(p)'
    BY <1>13, <2>0 DEF UndoDone, disk, budget, StageInv, NoBackups, AllOld, Ours
  <2>8. ReplaceInv(p)'
    BY <1>13, <2>0 DEF UndoDone, disk, budget, ReplaceInv, EntryInv, Next1, Ours,
       Replacing, Appending, Phases
  <2>9. UndoInv(p)'
    BY <1>13, <2>0 DEF UndoDone, disk, budget, UndoInv, HasBackup, RecoverView,
       WasInstalled, Ours
  <2>10. CleanupInv(p)'
    BY <1>13, <2>0 DEF UndoDone, disk, budget, CleanupInv, Committing, AllNew, NoBackups,
       Ours, RecoverView, HasBackup, WasInstalled, UndoInv, DiskInv
  <2> QED
    BY <2>0, <2>1, <2>2, <2>3, <2>4, <2>5, <2>6, <2>7, <2>8, <2>9, <2>10, IdleInv
<1>14. ASSUME NEW p \in Procs, Cleanup(p) PROVE IInv'
  <2>0. \A q \in Procs \ {p} : pc[q] = "idle" /\ pc'[q] = "idle"
    BY <1>14 DEF Cleanup, RemoveJournal, RemoveStaged, RemoveBackup, budget, LockInv,
       Appending, Phases
  <2>1. LockInv'
    BY <1>14, <2>0 DEF Cleanup, RemoveJournal, RemoveStaged, RemoveBackup, budget, LockInv
  <2>2. DiskInv'
    BY <1>14, <2>0 DEF Cleanup, RemoveJournal, RemoveStaged, RemoveBackup, budget,
       DiskInv, NoBackups, CleanupInv, Committing, AllNew, Ours, RecoverView,
       HasBackup, WasInstalled
  <2>3. BackupInv'
    <3>1. CASE backup' = backup
      BY <1>14, <3>1 DEF Cleanup, BackupInv, Ours
    <3>2. ASSUME NEW f \in Files, RemoveBackup(p, f) PROVE BackupInv'
      <4>1. target[f] \in {before[f], ver} \ {Absent} \/ f \notin Ours \cap existed
        BY <1>14, <3>2, ContentsDiffer DEF Cleanup, CleanupInv, DecidedInv, Committing,
           AllNew, AllOld, NoBackups, Ours, DiskInv, RemoveBackup
      <4> QED
        BY <1>14, <3>2, <4>1 DEF Cleanup, RemoveBackup, BackupInv, Ours
    <3> QED
      BY <1>14, <3>1, <3>2 DEF Cleanup, RemoveJournal, RemoveStaged
  <2>4. DecidedInv'
    BY <1>14, <2>0 DEF Cleanup, RemoveJournal, RemoveStaged, RemoveBackup, budget,
       DecidedInv, AllNew, AllOld, NoBackups, Ours, CleanupInv, Committing,
       RecoverView, HasBackup, WasInstalled, UndoableInv, Undoable
  <2>5. UndoableInv'
    <3>0. UNCHANGED <<target, entries, existed, phase, pc, mode, touched, before, ver, cut>>
      BY <1>14 DEF Cleanup
    <3>1. CASE RemoveJournal(p)
      BY <3>1 DEF RemoveJournal, UndoableInv
    <3>2. ASSUME NEW f \in Files, RemoveStaged(p, f) PROVE UndoableInv'
      <4>1. CASE Committing(p)
        BY <3>2, <4>1 DEF RemoveStaged, CleanupInv
      <4>2. CASE ~Committing(p)
        <5>1. jrn = "whole" => (Undoable \/ cut) /\ NoBackups /\ \A g \in Ours : RecoverView(g) = target[g]
          BY <1>14, <2>0, <4>2 DEF Cleanup, UndoableInv, CleanupInv, Committing
        <5> QED
          BY <1>14, <3>0, <3>2, <4>2, <5>1 DEF RemoveStaged, UndoableInv, Undoable,
             CutInv, Ours,
             RecoverView, HasBackup, WasInstalled, NoBackups, DiskInv
      <4> QED
        BY <4>1, <4>2
    <3>3. ASSUME NEW f \in Files, RemoveBackup(p, f) PROVE UndoableInv'
      <4>1. CASE mode[p] = "commit"
        <5>1. Committing(p) /\ Committing(p)'
          BY <1>14, <3>0, <4>1 DEF Cleanup, Committing
        <5> QED
          BY <3>3, <4>1, <5>1 DEF RemoveBackup, UndoableInv
      <4>2. CASE mode[p] # "commit"
        BY <1>14, <3>3, <4>2 DEF Cleanup, RemoveBackup, CleanupInv, UndoableInv,
           Committing, NoBackups
      <4> QED
        BY <4>1, <4>2
    <3> QED
      BY <1>14, <3>1, <3>2, <3>3 DEF Cleanup
  <2>6. CutInv'
    BY <1>14, <2>0 DEF Cleanup, RemoveJournal, RemoveStaged, RemoveBackup, budget, CutInv,
       CleanupInv, Committing, AllNew, NoBackups, Ours, RecoverView, HasBackup,
       WasInstalled
  <2>7. StageInv(p)'
    BY <1>14, <2>0 DEF Cleanup, RemoveJournal, RemoveStaged, RemoveBackup, budget,
       StageInv, NoBackups, AllOld, Ours
  <2>8. ReplaceInv(p)'
    BY <1>14, <2>0 DEF Cleanup, RemoveJournal, RemoveStaged, RemoveBackup, budget,
       ReplaceInv, EntryInv, Next1, Ours, Replacing, Appending, Phases
  <2>9. UndoInv(p)'
    BY <1>14, <2>0 DEF Cleanup, RemoveJournal, RemoveStaged, RemoveBackup, budget,
       UndoInv, HasBackup, RecoverView, WasInstalled, Ours
  <2>10. CleanupInv(p)'
    BY <1>14, <2>0 DEF Cleanup, RemoveJournal, RemoveStaged, RemoveBackup, budget,
       CleanupInv, Committing, AllNew, NoBackups, Ours, RecoverView, HasBackup,
       WasInstalled, DiskInv, UndoableInv, Undoable, CutInv
  <2> QED
    BY <2>0, <2>1, <2>2, <2>3, <2>4, <2>5, <2>6, <2>7, <2>8, <2>9, <2>10, IdleInv
<1>15. ASSUME NEW p \in Procs, CleanupDone(p) PROVE IInv'
  <2>0. \A q \in Procs \ {p} : pc[q] = "idle" /\ pc'[q] = "idle"
    BY <1>15 DEF CleanupDone, AfterCleanup, budget, LockInv, Appending, Phases
  <2>1. LockInv'
    BY <1>15, <2>0 DEF CleanupDone, AfterCleanup, budget, LockInv
  <2>2. DiskInv'
    BY <1>15, <2>0 DEF CleanupDone, AfterCleanup, budget, DiskInv, NoBackups
  <2>3. BackupInv'
    BY <1>15, <2>0 DEF CleanupDone, AfterCleanup, budget, BackupInv, Ours
  <2>4. DecidedInv'
    BY <1>15, <2>0 DEF CleanupDone, AfterCleanup, budget, DecidedInv, AllNew, AllOld,
       NoBackups, Ours
  <2>5. UndoableInv'
    BY <1>15, <2>0 DEF CleanupDone, AfterCleanup, budget, UndoableInv, Undoable,
       Committing, RecoverView, HasBackup, WasInstalled, Ours
  <2>6. CutInv'
    BY <1>15, <2>0 DEF CleanupDone, AfterCleanup, budget, CutInv
  <2>7. StageInv(p)'
    BY <1>15, <2>0 DEF CleanupDone, AfterCleanup, budget, StageInv, NoBackups, AllOld, Ours
  <2>8. ReplaceInv(p)'
    BY <1>15, <2>0 DEF CleanupDone, AfterCleanup, budget, ReplaceInv, EntryInv, Next1,
       Ours, Replacing, Appending, Phases
  <2>9. UndoInv(p)'
    BY <1>15, <2>0 DEF CleanupDone, AfterCleanup, budget, UndoInv, HasBackup, RecoverView,
       WasInstalled, Ours
  <2>10. CleanupInv(p)'
    BY <1>15, <2>0 DEF CleanupDone, AfterCleanup, budget, CleanupInv, Committing, AllNew,
       NoBackups, Ours, RecoverView, HasBackup, WasInstalled
  <2> QED
    BY <2>0, <2>1, <2>2, <2>3, <2>4, <2>5, <2>6, <2>7, <2>8, <2>9, <2>10, IdleInv
<1>16. ASSUME NEW p \in Procs, CleanupFails(p) PROVE IInv'
  <2>0. \A q \in Procs \ {p} : pc[q] = "idle" /\ pc'[q] = "idle"
    BY <1>16 DEF CleanupFails, disk, LockInv, Appending, Phases
  <2>1. LockInv'
    BY <1>16, <2>0 DEF CleanupFails, disk, LockInv
  <2>2. DiskInv'
    BY <1>16, <2>0 DEF CleanupFails, disk, DiskInv, NoBackups
  <2>3. BackupInv'
    BY <1>16, <2>0 DEF CleanupFails, disk, BackupInv, Ours
  <2>4. DecidedInv'
    BY <1>16, <2>0 DEF CleanupFails, disk, DecidedInv, AllNew, AllOld, NoBackups, Ours
  <2>5. UndoableInv'
    BY <1>16, <2>0 DEF CleanupFails, disk, UndoableInv, Undoable, Committing, RecoverView,
       HasBackup, WasInstalled, Ours, CleanupInv, AllNew, NoBackups
  <2>6. CutInv'
    BY <1>16, <2>0 DEF CleanupFails, disk, CutInv
  <2>7. StageInv(p)'
    BY <1>16, <2>0 DEF CleanupFails, disk, StageInv, NoBackups, AllOld, Ours
  <2>8. ReplaceInv(p)'
    BY <1>16, <2>0 DEF CleanupFails, disk, ReplaceInv, EntryInv, Next1, Ours, Replacing,
       Appending, Phases
  <2>9. UndoInv(p)'
    BY <1>16, <2>0 DEF CleanupFails, disk, UndoInv, HasBackup, RecoverView, WasInstalled, Ours
  <2>10. CleanupInv(p)'
    BY <1>16, <2>0 DEF CleanupFails, disk, CleanupInv, Committing, AllNew, NoBackups,
       Ours, RecoverView, HasBackup, WasInstalled
  <2> QED
    BY <2>0, <2>1, <2>2, <2>3, <2>4, <2>5, <2>6, <2>7, <2>8, <2>9, <2>10, IdleInv
<1>17. ASSUME NEW p \in Procs, Crash(p) PROVE IInv'
  <2>0. \A q \in Procs \ {p} : pc[q] = "idle" /\ pc'[q] = "idle"
    BY <1>17 DEF Crash, LockInv, Appending, Phases
  <2>1. LockInv'
    BY <1>17, <2>0 DEF Crash, LockInv
  <2>2. DiskInv'
    BY <1>17, <2>0 DEF Crash, DiskInv, NoBackups, StageInv, AllOld, Ours, ReplaceInv,
       EntryInv, Next1, Replacing, Appending, Phases
  <2>3. BackupInv'
    BY <1>17, <2>0 DEF Crash, BackupInv, Ours
  <2>4. DecidedInv'
    BY <1>17, <2>0 DEF Crash, DecidedInv, AllNew, AllOld, NoBackups, Ours, StageInv,
       ReplaceInv, EntryInv, Next1, Replacing, Appending, Phases
  <2>5. UndoableInv'
    <3>1. CASE jrn' # "whole"
      BY <3>1 DEF UndoableInv
    <3>2. CASE jrn' = "whole"
      <4>1. jrn = "whole"
        BY <1>17, <3>2 DEF Crash
      <4>2. \A f \in Ours : RecoverView(f)' = RecoverView(f)
        BY <1>17, <3>2, <4>1 DEF Crash, RecoverView, HasBackup, WasInstalled
      <4>3. CASE Undoable \/ cut
        BY <1>17, <4>2, <4>3 DEF Crash, UndoableInv, Undoable, Ours
      <4>4. CASE gone # {} /\ \E q \in Procs : Committing(q)
        <5>1. pc[p] = "cleanup"
          BY <2>0, <4>4 DEF Committing
        <5> QED
          BY <1>17, <4>1, <4>4, <5>1 DEF Crash, UndoableInv
      <4> QED
        BY <4>1, <4>3, <4>4 DEF UndoableInv
    <3> QED
      BY <3>1, <3>2
  <2>6. CutInv'
    BY <1>17, <2>0 DEF Crash, CutInv
  <2>7. StageInv(p)'
    BY <1>17, <2>0 DEF Crash, StageInv, NoBackups, AllOld, Ours
  <2>8. ReplaceInv(p)'
    BY <1>17, <2>0 DEF Crash, ReplaceInv, EntryInv, Next1, Ours, Replacing, Appending, Phases
  <2>9. UndoInv(p)'
    BY <1>17, <2>0 DEF Crash, UndoInv, HasBackup, RecoverView, WasInstalled, Ours
  <2>10. CleanupInv(p)'
    BY <1>17, <2>0 DEF Crash, CleanupInv, Committing, AllNew, NoBackups, Ours,
       RecoverView, HasBackup, WasInstalled
  <2> QED
    BY <2>0, <2>1, <2>2, <2>3, <2>4, <2>5, <2>6, <2>7, <2>8, <2>9, <2>10, IdleInv
<1>18. ASSUME NEW p \in Procs, LockHeld(p) PROVE IInv'
  BY <1>18, UnchangedInv DEF LockHeld, disk, procs
<1>19. ASSUME NEW f \in Files, OperatorEdits(f) PROVE IInv'
  <2>0. /\ edits' = edits + 1 /\ touched' = touched \cup {f}
        /\ \A g \in Files \ {f} : target'[g] = target[g]
        /\ UNCHANGED <<txn, staged, backup, jrn, tail, entries, existed, phase, lock, pc,
                       mode, todo, failed, before, ver, gone, cut>>
        /\ Ours' \subseteq Ours \ {f}
    BY <1>19 DEF OperatorEdits, procs, Ours
  <2>1. LockInv' /\ DiskInv' /\ CutInv'
    BY <2>0 DEF LockInv, DiskInv, CutInv, NoBackups
  <2>2. BackupInv'
    BY <2>0 DEF BackupInv
  <2>3. DecidedInv'
    BY <2>0 DEF DecidedInv, AllNew, AllOld, NoBackups, Ours
  <2>4. \A g \in Ours' : RecoverView(g)' = RecoverView(g)
    BY <2>0 DEF RecoverView, HasBackup, WasInstalled, Ours
  <2>5. UndoableInv'
    BY <2>0, <2>4 DEF UndoableInv, Undoable, Committing
  <2>6. ASSUME NEW p \in Procs PROVE StageInv(p)' /\ UndoInv(p)' /\ CleanupInv(p)'
    BY <2>0, <2>4 DEF StageInv, UndoInv, CleanupInv, Committing, AllNew, AllOld, NoBackups,
       Ours, HasBackup
  <2>7. ASSUME NEW p \in Procs PROVE ReplaceInv(p)'
    BY <2>0 DEF ReplaceInv, EntryInv, Next1, Ours
  <2> QED
    BY <2>1, <2>2, <2>3, <2>5, <2>6, <2>7
<1>20. CASE UNCHANGED vars
  BY <1>20, UnchangedInv DEF vars, disk, procs, history
<1> QED
  BY <1>1, <1>2, <1>3, <1>4, <1>5, <1>6, <1>7, <1>8, <1>9, <1>10, <1>11, <1>12,
     <1>13, <1>14, <1>15, <1>16, <1>17, <1>18, <1>19, <1>20 DEF Next, Step

(* No backup and no journal: the mirror is its own previous version.       *)
LEMMA IInvInit == Init => IInv
<1> SUFFICES ASSUME Init PROVE IInv
  OBVIOUS
<1>1. /\ lock = NoProc /\ \A p \in Procs : pc[p] = "idle"
      /\ entries = {} /\ existed = {} /\ staged = {} /\ gone = {} /\ jrn = "none"
      /\ ~txn /\ ~tail /\ ~cut /\ NoBackups
  BY DEF Init, NoBackups
<1>2. LockInv
  BY <1>1, NoProcIsNoProc DEF LockInv
<1>3. DiskInv
  BY <1>1 DEF DiskInv, NoBackups
<1>4. BackupInv /\ UndoableInv /\ CutInv
  BY <1>1 DEF BackupInv, UndoableInv, CutInv, Ours
<1>5. DecidedInv
  BY <1>1 DEF DecidedInv, AllOld, Ours
<1>6. ASSUME NEW p \in Procs PROVE StageInv(p) /\ ReplaceInv(p) /\ UndoInv(p) /\ CleanupInv(p)
  BY <1>1, AppendFacts DEF StageInv, ReplaceInv, UndoInv, CleanupInv, Committing
<1> QED
  BY <1>2, <1>3, <1>4, <1>5, <1>6 DEF IInv

(* The journal, the backups and the mirror always fit together as IInv     *)
(* says, so that recovery finds what it needs.                             *)
THEOREM InvariantHolds == Spec => []IInv
<1>1. Init => DataTypeOK
  BY Contents, LabelFacts DEF Init, DataTypeOK, DiskTypeOK, ProcsTypeOK, HistoryTypeOK
<1>2. DataTypeOK /\ IInv /\ [Next]_vars => IInv'
  BY IInvStep
<1> QED
  BY <1>1, <1>2, IInvInit, DataStep, PTL DEF Spec

(* Every variable keeps its type, and a pull works only under the lock.    *)
THEOREM TypeCorrect == Spec => []TypeOK
<1>1. DataTypeOK /\ FlagsTypeOK /\ IInv => TypeOK
  BY DEF TypeOK, DataTypeOK, IInv
<1> QED
  BY <1>1, PullTypes, InvariantHolds, PTL

(* Neither a failure nor a crash nor an edit elsewhere in the mirror loses *)
(* the previous bytes of a file a pull replaces.                           *)
THEOREM NothingIsLost == Spec => []NoLoss
<1>1. DataTypeOK /\ IInv => NoLoss
  <2> SUFFICES ASSUME DataTypeOK, IInv, NEW f \in Ours, before[f] # Absent
               PROVE  target[f] # Absent \/ backup[f] = before[f]
    BY DEF NoLoss
  <2>1. f \in existed /\ f \in Ours \cap existed
    BY DEF IInv, DiskInv, Ours
  <2> QED
    BY <2>1 DEF IInv, BackupInv
<1>2. Spec => []DataTypeOK
  BY PullTypes, PTL
<1> QED
  BY <1>1, <1>2, InvariantHolds, PTL

(* No history of failures and crashes leaves a journal that the next pull  *)
(* refuses to read.                                                        *)
THEOREM JournalStaysReadable == Spec => []JournalReadable
<1>1. IInv => JournalReadable
  BY DEF IInv, DiskInv, JournalReadable
<1> QED
  BY <1>1, InvariantHolds, PTL

(* When the transaction is gone the planned files are all old or all new,  *)
(* unless a commit was cut short while it discarded backups.               *)
THEOREM AtomicReplacement == Spec => []AtomicUnlessCut
<1>1. IInv => AtomicUnlessCut
  BY DEF IInv, DiskInv, DecidedInv, AllNew, AllOld, AtomicUnlessCut
<1> QED
  BY <1>1, InvariantHolds, PTL

(* Why what recovery would leave moves only at a commit: each rename moves *)
(* bytes between the two places it looks at.                               *)
ViewStep ==
  \A f \in entries \ touched' :
    RecoverView(f)' # RecoverView(f) =>
      /\ \E p \in Procs : pc[p] = "cleanup" /\ mode[p] = "commit"
      /\ RecoverView(f)' = ver

LEMMA ViewStepHolds ==
  ASSUME DataTypeOK, IInv, [Next]_vars
  PROVE  ViewStep
<1> USE Contents, AppendFacts
<1> USE DEF IInv, DataTypeOK, DiskTypeOK, ProcsTypeOK, HistoryTypeOK,
            Fault, NoFault, Goto, Return, RollBack, Pop
<1> SUFFICES ASSUME NEW f \in entries, f \notin touched', RecoverView(f)' # RecoverView(f)
             PROVE  /\ \E p \in Procs : Committing(p)
                    /\ RecoverView(f)' = ver
  BY DEF ViewStep, Committing
<1>0. f \in Files
  OBVIOUS
<1>t. touched' = touched => f \in Ours
  BY DEF Ours
<1> DEFINE View == <<jrn, entries, existed, target, backup, phase, staged>>
<1>v. UNCHANGED View => FALSE
  BY DEF RecoverView, HasBackup, WasInstalled
<1>1. ASSUME NEW p \in Procs, Acquire(p) PROVE FALSE
  BY <1>1, <1>v DEF Acquire, disk
<1>2. ASSUME NEW p \in Procs, LockHeld(p) PROVE FALSE
  BY <1>2, <1>v DEF LockHeld, disk
<1>3. ASSUME NEW p \in Procs, FetchFails(p) PROVE FALSE
  BY <1>3, <1>v DEF FetchFails, disk
<1>4. ASSUME NEW p \in Procs, NEW plan \in SUBSET Files, Begin(p, plan) PROVE FALSE
  BY <1>0, <1>4 DEF Begin, StageInv, DiskInv, RecoverView, HasBackup, WasInstalled
<1>5. ASSUME NEW p \in Procs, Stage(p) PROVE FALSE
  BY <1>0, <1>5 DEF Stage, history, StageInv, RecoverView, HasBackup, WasInstalled
<1>6. ASSUME NEW p \in Procs, WriteManifest(p) PROVE FALSE
  BY <1>0, <1>6 DEF WriteManifest, history, StageInv, NoBackups, RecoverView, HasBackup,
     WasInstalled
<1>7. ASSUME NEW p \in Procs, AppendPhase(p) PROVE FALSE
  BY <1>0, <1>7 DEF AppendPhase, Appended, CanAdvance, history, ReplaceInv, EntryInv,
     RecoverView, HasBackup, WasInstalled
<1>8. ASSUME NEW p \in Procs, BackUp(p) PROVE FALSE
  BY <1>0, <1>8 DEF BackUp, MoveToBackup, history, ReplaceInv, EntryInv, RecoverView,
     HasBackup, WasInstalled
<1>9. ASSUME NEW p \in Procs, CheckTarget(p) PROVE FALSE
  BY <1>9, <1>v DEF CheckTarget, disk, history
<1>10. ASSUME NEW p \in Procs, ReplacedAll(p) PROVE FALSE
  BY <1>10, <1>v DEF ReplacedAll, disk, history
<1>11. ASSUME NEW p \in Procs, Recover(p) PROVE FALSE
  BY <1>11, <1>v DEF Recover, disk
<1>12. ASSUME NEW p \in Procs, UndoDone(p) PROVE FALSE
  BY <1>12, <1>v DEF UndoDone, disk
<1>13. ASSUME NEW p \in Procs, CleanupDone(p) PROVE FALSE
  BY <1>0, <1>13 DEF CleanupDone, RecoverView, HasBackup, WasInstalled
<1>14. ASSUME NEW p \in Procs, CleanupFails(p) PROVE FALSE
  BY <1>14, <1>v DEF CleanupFails, disk
<1>15. ASSUME NEW p \in Procs, Install(p) PROVE FALSE
  <2>1. CASE UNCHANGED <<target, staged>>
    BY <1>15, <1>v, <2>1 DEF Install
  <2>2. CASE ~ UNCHANGED <<target, staged>>
    <3>1. PICK g \in todo[p] : Next1(p, g) /\ MoveToTarget(g)
      BY <1>15, <2>2 DEF Install
    <3>2. /\ pc[p] = "install"
          /\ UNCHANGED <<txn, backup, jrn, tail, entries, existed, phase, before, ver,
                         touched, gone, cut>>
      BY <1>15 DEF Install
    <3>3. /\ EntryInv(p, g) /\ todo[p] \subseteq entries /\ ~cut /\ gone = {}
      BY <3>1, <3>2 DEF ReplaceInv
    <3>4. g \in Files /\ phase[g] = "Installing"
      BY <3>2, <3>3 DEF EntryInv
    <3>5. jrn = "whole" => Undoable
      BY <3>2, <3>3 DEF UndoableInv
    <3>6. CASE f = g
      BY <1>t, <3>1, <3>2, <3>3, <3>4, <3>5, <3>6 DEF MoveToTarget, RecoverView, HasBackup,
         WasInstalled, EntryInv, Ours, BackupInv, DiskInv, ReplaceInv, Undoable
    <3>7. CASE f # g
      BY <1>0, <3>1, <3>2, <3>4, <3>7 DEF MoveToTarget, RecoverView, HasBackup, WasInstalled
    <3> QED
      BY <3>6, <3>7
  <2> QED
    BY <2>1, <2>2
<1>16. ASSUME NEW p \in Procs, Undo(p) PROVE FALSE
  <2>1. PICK g \in todo[p] : \/ RemoveReplacement(p, g) \/ RestoreBackup(p, g)
                             \/ RemoveInstalled(p, g) \/ NothingToUndo(p, g)
    BY <1>16 DEF Undo
  <2>2. /\ g \in Files /\ jrn = "whole"
        /\ UNCHANGED <<jrn, entries, existed, phase, staged>>
    BY <1>16 DEF Undo, UndoInv
  <2> USE DEF RecoverView, HasBackup, WasInstalled
  <2>3. CASE RemoveReplacement(p, g)
    <3>1. CASE f = g
      BY <1>0, <2>2, <2>3, <3>1 DEF RemoveReplacement
    <3>2. CASE f # g
      BY <1>0, <2>2, <2>3, <3>2 DEF RemoveReplacement
    <3> QED
      BY <3>1, <3>2
  <2>4. CASE RestoreBackup(p, g)
    <3>1. CASE f = g
      BY <1>0, <2>2, <2>4, <3>1 DEF RestoreBackup, MoveToOriginal
    <3>2. CASE f # g
      BY <1>0, <2>2, <2>4, <3>2 DEF RestoreBackup, MoveToOriginal
    <3> QED
      BY <3>1, <3>2
  <2>5. CASE RemoveInstalled(p, g)
    <3>1. CASE f = g
      BY <1>0, <2>2, <2>5, <3>1 DEF RemoveInstalled
    <3>2. CASE f # g
      BY <1>0, <2>2, <2>5, <3>2 DEF RemoveInstalled
    <3> QED
      BY <3>1, <3>2
  <2>6. CASE NothingToUndo(p, g)
    BY <1>0, <2>2, <2>6 DEF NothingToUndo
  <2> QED
    BY <2>1, <2>3, <2>4, <2>5, <2>6
<1>17. ASSUME NEW p \in Procs, Cleanup(p) PROVE Committing(p) /\ RecoverView(f)' = ver
  <2>0. /\ pc[p] = "cleanup"
        /\ UNCHANGED <<target, entries, existed, phase, touched, before, ver, cut>>
        /\ f \in Ours
    BY <1>17, <1>t DEF Cleanup
  <2>1. CASE Committing(p)
    <3>1. target[f] = ver /\ staged = {}
      BY <1>0, <2>0, <2>1 DEF CleanupInv, AllNew
    <3>2. CASE RemoveJournal(p)
      BY <1>0, <2>0, <2>1, <3>1, <3>2 DEF RemoveJournal, RecoverView
    <3>3. ASSUME NEW g \in Files, RemoveStaged(p, g) PROVE FALSE
      BY <3>1, <3>3 DEF RemoveStaged
    <3>4. ASSUME NEW g \in Files, RemoveBackup(p, g) PROVE RecoverView(f)' = ver
      BY <1>0, <2>0, <3>1, <3>4 DEF RemoveBackup, RecoverView, HasBackup, WasInstalled, DiskInv
    <3> QED
      BY <1>17, <2>1, <3>2, <3>3, <3>4 DEF Cleanup
  <2>2. CASE ~Committing(p)
    <3>1. jrn = "whole" => NoBackups /\ RecoverView(f) = target[f]
      BY <2>0, <2>2 DEF CleanupInv, Committing
    <3>2. CASE RemoveJournal(p)
      BY <2>0, <3>1, <3>2 DEF RemoveJournal, RecoverView
    <3>3. ASSUME NEW g \in Files, RemoveStaged(p, g) PROVE FALSE
      <4>1. jrn = "whole" => Undoable
        <5>1. ~cut /\ gone = {}
          BY <3>3 DEF RemoveStaged, CutInv
        <5> QED
          BY <5>1 DEF UndoableInv
      <4> QED
        BY <1>0, <2>0, <3>1, <3>3, <4>1 DEF RemoveStaged, RecoverView, HasBackup, WasInstalled,
           Undoable, NoBackups, DiskInv
    <3>4. ASSUME NEW g \in Files, RemoveBackup(p, g) PROVE FALSE
      BY <1>0, <2>0, <3>1, <3>4 DEF RemoveBackup, RecoverView, NoBackups
    <3> QED
      BY <1>17, <3>2, <3>3, <3>4 DEF Cleanup
  <2> QED
    BY <2>1, <2>2
<1>18. ASSUME NEW p \in Procs, Crash(p) PROVE FALSE
  BY <1>0, <1>18 DEF Crash, StageInv, RecoverView, HasBackup, WasInstalled
<1>19. ASSUME NEW g \in Files, OperatorEdits(g) PROVE FALSE
  BY <1>0, <1>19 DEF OperatorEdits, RecoverView, HasBackup, WasInstalled
<1>20. CASE UNCHANGED vars
  BY <1>20, <1>v DEF vars, disk
<1> QED
  BY <1>1, <1>2, <1>3, <1>4, <1>5, <1>6, <1>7, <1>8, <1>9, <1>10, <1>11, <1>12, <1>13,
     <1>14, <1>15, <1>16, <1>17, <1>18, <1>19, <1>20 DEF Next, Step

(* Staging, renaming, rolling back and crashing never move what the next   *)
(* recovery would leave; only a commit does, and to the pulled bytes.      *)
THEOREM CommitIsTheOnlySwitch == Spec => ViewMovesOnlyAtCommit
<1>1. DataTypeOK /\ IInv /\ [Next]_vars => ViewStep
  BY ViewStepHolds
<1>2. Spec => []DataTypeOK
  BY PullTypes, PTL
<1> QED
  BY <1>1, <1>2, InvariantHolds, PTL DEF Spec, ViewStep, ViewMovesOnlyAtCommit

(* What a finished run reports, against the mirror and the recovery ahead. *)
OutcomeStep ==
  \A p \in Procs : outcome'[p] # outcome[p] =>
    /\ outcome'[p] = "ok" => \A f \in Ours : target'[f] = ver
    /\ outcome'[p] = "err" /\ mode[p] = "rollback" =>
         \/ cut
         \/ \A f \in Ours : RecoverView(f)' = before[f]
         \/ jrn' = "none" /\ \A f \in Ours : target'[f] = ver

LEMMA OutcomeStepHolds ==
  ASSUME DataTypeOK, IInv, [Next]_vars
  PROVE  OutcomeStep
<1> USE DEF IInv, DataTypeOK, DiskTypeOK, ProcsTypeOK, HistoryTypeOK,
            Fault, NoFault, Goto, Return, RollBack
<1> SUFFICES ASSUME NEW p \in Procs, outcome'[p] # outcome[p],
                    outcome'[p] = "ok" \/ (outcome'[p] = "err" /\ mode[p] = "rollback")
             PROVE  /\ outcome'[p] = "ok" => \A f \in Ours : target'[f] = ver
                    /\ outcome'[p] = "err" /\ mode[p] = "rollback" =>
                         \/ cut
                         \/ \A f \in Ours : RecoverView(f)' = before[f]
                         \/ jrn' = "none" /\ \A f \in Ours : target'[f] = ver
  BY DEF OutcomeStep
<1>u. UNCHANGED outcome => FALSE
  OBVIOUS
<1>s. UNCHANGED disk => \A f \in Ours : RecoverView(f)' = RecoverView(f)
  BY DEF disk, RecoverView, HasBackup, WasInstalled
(* Without a whole journal the outcome of a rollback is in the mirror.     *)
<1>d. jrn # "whole" /\ UNCHANGED <<target, jrn>> =>
        \/ cut
        \/ \A f \in Ours : RecoverView(f)' = before[f]
        \/ jrn' = "none" /\ \A f \in Ours : target'[f] = ver
  BY DEF DecidedInv, AllNew, AllOld, RecoverView
(* With one, no commit under way, it is what recovery will restore.        *)
<1>w. ASSUME jrn = "whole", UNCHANGED disk, \A q \in Procs : ~Committing(q)
      PROVE  cut \/ \A f \in Ours : RecoverView(f)' = before[f]
  BY <1>w, <1>s DEF UndoableInv, Undoable
<1>1. ASSUME NEW q \in Procs, Acquire(q) PROVE FALSE
  BY <1>1 DEF Acquire
<1>2. ASSUME NEW q \in Procs, LockHeld(q) PROVE FALSE
  BY <1>2 DEF LockHeld
<1>3. ASSUME NEW q \in Procs, FetchFails(q) PROVE FALSE
  BY <1>3 DEF FetchFails, StageInv
<1>4. ASSUME NEW q \in Procs, Crash(q) PROVE FALSE
  BY <1>4 DEF Crash
<1>5. ASSUME NEW q \in Procs, Recover(q)
      PROVE  /\ outcome'[p] # "ok"
             /\ cut \/ (\A f \in Ours : RecoverView(f)' = before[f])
                \/ (jrn' = "none" /\ \A f \in Ours : target'[f] = ver)
  <2>1. ~txn /\ UNCHANGED disk /\ outcome'[p] # "ok"
    BY <1>5 DEF Recover, Unreadable, AfterCleanup, DiskInv, UndoInv
  <2> QED
    BY <2>1, <1>d DEF DiskInv, disk
<1>6. ASSUME NEW q \in Procs, UndoDone(q)
      PROVE  /\ outcome'[p] # "ok"
             /\ cut \/ \A f \in Ours : RecoverView(f)' = before[f]
  <2>1. pc[q] = "undo" /\ UNCHANGED disk /\ outcome'[p] # "ok"
    BY <1>6 DEF UndoDone
  <2>2. jrn = "whole" /\ \A r \in Procs : ~Committing(r)
    BY <2>1 DEF UndoInv, LockInv, Committing
  <2> QED
    BY <2>1, <2>2, <1>w
<1>7. ASSUME NEW q \in Procs, CleanupDone(q)
      PROVE  /\ outcome'[p] = "ok" => \A f \in Ours : target'[f] = ver
             /\ cut \/ (\A f \in Ours : RecoverView(f)' = before[f])
                \/ (jrn' = "none" /\ \A f \in Ours : target'[f] = ver)
  <2>1. jrn = "none" /\ UNCHANGED <<target, jrn>>
    BY <1>7 DEF CleanupDone
  <2>2. outcome'[p] = "ok" => Committing(q)
    BY <1>7 DEF CleanupDone, AfterCleanup, Committing
  <2> QED
    BY <2>1, <2>2, <1>d DEF CleanupInv, AllNew
<1>8. ASSUME NEW q \in Procs, CleanupFails(q)
      PROVE  /\ outcome'[p] = "err"
             /\ cut \/ (\A f \in Ours : RecoverView(f)' = before[f])
                \/ (jrn' = "none" /\ \A f \in Ours : target'[f] = ver)
  <2>1. pc[q] = "cleanup" /\ mode[q] # "commit" /\ UNCHANGED disk /\ outcome'[p] = "err"
    BY <1>8 DEF CleanupFails
  <2>2. \A r \in Procs : ~Committing(r)
    BY <2>1 DEF LockInv, Committing
  <2> QED
    BY <2>1, <2>2, <1>d, <1>w DEF disk
<1>9. ASSUME NEW q \in Procs, NEW plan \in SUBSET Files, Begin(q, plan) PROVE FALSE
  BY <1>9, <1>u DEF Begin
<1>10. ASSUME NEW q \in Procs, Stage(q) PROVE FALSE
  BY <1>10, <1>u DEF Stage, history
<1>11. ASSUME NEW q \in Procs, WriteManifest(q) PROVE FALSE
  BY <1>11, <1>u DEF WriteManifest, history
<1>12. ASSUME NEW q \in Procs, AppendPhase(q) PROVE FALSE
  BY <1>12, <1>u DEF AppendPhase, history
<1>13. ASSUME NEW q \in Procs, BackUp(q) PROVE FALSE
  BY <1>13, <1>u DEF BackUp, history
<1>14. ASSUME NEW q \in Procs, CheckTarget(q) PROVE FALSE
  BY <1>14, <1>u DEF CheckTarget, history
<1>15. ASSUME NEW q \in Procs, Install(q) PROVE FALSE
  BY <1>15, <1>u DEF Install
<1>16. ASSUME NEW q \in Procs, ReplacedAll(q) PROVE FALSE
  BY <1>16, <1>u DEF ReplacedAll, history
<1>17. ASSUME NEW q \in Procs, Undo(q) PROVE FALSE
  BY <1>17, <1>u DEF Undo, history
<1>18. ASSUME NEW q \in Procs, Cleanup(q) PROVE FALSE
  BY <1>18, <1>u DEF Cleanup
<1>19. ASSUME NEW f \in Files, OperatorEdits(f) PROVE FALSE
  BY <1>19, <1>u DEF OperatorEdits
<1>20. CASE UNCHANGED vars
  BY <1>20, <1>u DEF vars, history
<1> QED
  BY <1>1, <1>2, <1>3, <1>4, <1>5, <1>6, <1>7, <1>8, <1>9, <1>10, <1>11, <1>12, <1>13,
     <1>14, <1>15, <1>16, <1>17, <1>18, <1>19, <1>20 DEF Next, Step

(* A success is reported only with every file installed; a failure only    *)
(* with a mirror that is or recovers to the previous one, or is the new.   *)
THEOREM OutcomeIsTrue == Spec => ReportedOutcomeIsTrue
<1>1. DataTypeOK /\ IInv /\ [Next]_vars => OutcomeStep
  BY OutcomeStepHolds
<1>2. Spec => []DataTypeOK
  BY PullTypes, PTL
<1> QED
  BY <1>1, <1>2, InvariantHolds, PTL DEF Spec, OutcomeStep, ReportedOutcomeIsTrue
=============================================================================
