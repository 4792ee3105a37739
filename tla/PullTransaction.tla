-------------------------- MODULE PullTransaction --------------------------
(***************************************************************************)
(* The crash-recoverable replacement of mirror files behind `state pull`   *)
(* (crates/elasticctl-api/src/state/transaction.rs).  A pull holds the     *)
(* sibling lock, rolls back whatever an earlier pull left, stages every    *)
(* file, writes a journal of its manifest, and then, file by file, moves   *)
(* the old bytes to a backup and the staged bytes to the target, journaling*)
(* a phase before and after each rename.  Removing the transaction         *)
(* directory commits.  Any step may fail, a process may die at any step,   *)
(* and an operator may edit the mirror at any time without the lock.       *)
(*                                                                         *)
(* Every mutation is fsynced before the next one starts, so losing the     *)
(* power is a process crash before or after the step; a rename is atomic.  *)
(***************************************************************************)
EXTENDS Naturals

CONSTANTS
  Files,       \* relative paths of the mirror, numbered in the planned order
  Procs,       \* processes that run `state pull` on this mirror
  NoProc,      \* the lock is free
  Absent,      \* content of a path with no file
  Edited,      \* content an operator writes
  MaxPulls,    \* bound on transactions begun
  MaxFaults,   \* bound on file operations that fail
  MaxCrashes,  \* bound on processes killed
  MaxEdits     \* bound on edits by the operator

ASSUME FilesAreNumbered == Files \subseteq Nat
ASSUME NoProcIsNoProc == NoProc \notin Procs
ASSUME ContentsDiffer == Absent \notin Nat /\ Edited \notin Nat /\ Absent # Edited
ASSUME BoundsAreNat ==
  MaxPulls \in Nat /\ MaxFaults \in Nat /\ MaxCrashes \in Nat /\ MaxEdits \in Nat

Content == Nat \cup {Absent, Edited}
Phases == {"Prepared", "BackingUp", "BackedUp", "Installing", "Installed"}

Appending == Phases \ {"Prepared"}

\* Where a pull is; a label of Appending is the record it appends next.
Labels == Appending \cup
  {"idle", "recover", "undo", "cleanup", "fetch", "stage", "backup", "check", "install"}

\* can_advance_to: the single legal successor of each phase.
CanAdvance(from, next) ==
  <<from, next>> \in {<<"Prepared", "BackingUp">>, <<"BackingUp", "BackedUp">>,
                     <<"BackedUp", "Installing">>, <<"Installing", "Installed">>}

VARIABLES
  \* the disk
  target,    \* content of each mirror path
  txn,       \* the transaction directory exists
  staged,    \* files with staged bytes (always those of version ver)
  backup,    \* content of each backup, Absent when there is none
  jrn,       \* the journal: "none", "torn" (no whole manifest), "whole", "corrupt"
  tail,      \* the journal ends in an unterminated record
  entries,   \* manifest: the planned files
  existed,   \* manifest: those with existed_before
  phase,     \* phase each entry has reached in the journal
  \* the processes
  lock, pc, mode, todo, sub, failed,
  \* history and bounds
  before,    \* the mirror when the transaction was validated
  ver,       \* number of the transaction: the content it installs
  touched,   \* files the operator edited since then
  gone,      \* backups a commit has already discarded under a whole journal
  cut,       \* such a commit was then interrupted
  put,       \* files the transaction has renamed into place
  outcome,   \* what the last run of each process returned
  faults, crashes, edits

disk == <<target, txn, staged, backup, jrn, tail, entries, existed, phase>>
procs == <<lock, pc, mode, todo, sub, failed>>
history == <<before, ver, touched, gone, cut, put, outcome>>
budget == <<faults, crashes, edits>>
vars == <<disk, procs, history, budget>>

Init ==
  /\ target \in [Files -> {Absent, 0}]
  /\ txn = FALSE /\ staged = {} /\ backup = [f \in Files |-> Absent]
  /\ jrn = "none" /\ tail = FALSE /\ entries = {} /\ existed = {}
  /\ phase = [f \in Files |-> "Prepared"]
  /\ lock = NoProc
  /\ pc = [p \in Procs |-> "idle"] /\ mode = [p \in Procs |-> "start"]
  /\ todo = [p \in Procs |-> {}] /\ sub = [p \in Procs |-> "none"]
  /\ failed = {}
  /\ before = target /\ ver = 0 /\ touched = {} /\ gone = {} /\ cut = FALSE /\ put = {}
  /\ outcome = [p \in Procs |-> "none"]
  /\ faults = 0 /\ crashes = 0 /\ edits = 0

-----------------------------------------------------------------------------
(* What the steps share.                                                   *)

Fault == faults < MaxFaults /\ faults' = faults + 1
NoFault == faults' = faults

Goto(p, label) == pc' = [pc EXCEPT ![p] = label]

Return(p, result) ==
  /\ Goto(p, "idle")
  /\ lock' = NoProc
  /\ outcome' = [outcome EXCEPT ![p] = result]

\* Loops over the manifest visit the planned files in order.
Next1(p, f) == f \in todo[p] /\ \A g \in todo[p] : f <= g
Pop(p, f) == todo' = [todo EXCEPT ![p] = @ \ {f}]

\* finish_failed_replacement: recover under the same lock, then report an error.
RollBack(p) ==
  /\ Goto(p, "recover")
  /\ mode' = [mode EXCEPT ![p] = "rollback"]
  /\ todo' = [todo EXCEPT ![p] = {}]

-----------------------------------------------------------------------------
(* Locking, planning and staging.                                          *)

Acquire(p) ==
  /\ pc[p] = "idle" /\ lock = NoProc
  /\ lock' = p /\ Goto(p, "recover")
  /\ mode' = [mode EXCEPT ![p] = "start"]
  /\ outcome' = [outcome EXCEPT ![p] = "none"]
  /\ UNCHANGED <<disk, todo, sub, failed, before, ver, touched, gone, cut, put, budget>>

\* try_lock fails at once: the run ends without having looked at the mirror.
LockHeld(p) ==
  /\ pc[p] = "idle" /\ lock # NoProc
  /\ outcome' = [outcome EXCEPT ![p] = "conflict"]
  /\ UNCHANGED <<disk, procs, before, ver, touched, gone, cut, put, budget>>

\* A remote read, a filename collision or an encoding refusal ends the run.
FetchFails(p) ==
  /\ pc[p] = "fetch"
  /\ Return(p, "err")
  /\ UNCHANGED <<disk, mode, todo, sub, failed, before, ver, touched, gone, cut, put, budget>>

\* validate_replacement reads which targets exist; the directory is created.
Begin(p, plan) ==
  /\ pc[p] = "fetch" /\ ver < MaxPulls
  /\ ver' = ver + 1 /\ before' = target
  /\ touched' = {} /\ gone' = {} /\ cut' = FALSE /\ put' = {}
  /\ entries' = plan
  /\ existed' = {f \in plan : target[f] # Absent}
  /\ txn' = TRUE
  /\ \/ /\ NoFault
        /\ Goto(p, "stage") /\ todo' = [todo EXCEPT ![p] = plan]
        /\ UNCHANGED mode
     \/ Fault /\ RollBack(p)
  /\ UNCHANGED <<target, staged, backup, jrn, tail, phase, lock, sub, failed,
                 outcome, crashes, edits>>

Stage(p) ==
  /\ pc[p] = "stage"
  /\ \E f \in todo[p] :
       /\ Next1(p, f)
       /\ \/ NoFault /\ staged' = staged \cup {f} /\ Pop(p, f) /\ UNCHANGED <<pc, mode>>
          \/ Fault /\ staged' \in {staged, staged \cup {f}} /\ RollBack(p)
  /\ UNCHANGED <<target, txn, backup, jrn, tail, entries, existed, phase, lock,
                 sub, failed, history, crashes, edits>>

\* The prepared record, one line holding the whole manifest.
WriteManifest(p) ==
  /\ pc[p] = "stage" /\ todo[p] = {}
  /\ phase' = [f \in Files |-> "Prepared"]
  /\ \/ /\ NoFault
        /\ jrn' = "whole"
        /\ todo' = [todo EXCEPT ![p] = entries]
        /\ Goto(p, "BackingUp") /\ UNCHANGED mode
     \/ Fault /\ jrn' \in {"none", "torn", "whole"} /\ RollBack(p)
  /\ UNCHANGED <<target, txn, staged, backup, tail, entries, existed, lock, sub,
                 failed, history, crashes, edits>>

-----------------------------------------------------------------------------
(* replace_one, for each entry in turn.                                    *)

AfterAppend(label) ==
  CASE label = "BackingUp" -> "backup"
    [] label = "BackedUp" -> "Installing"
    [] label = "Installing" -> "check"
    [] label = "Installed" -> "BackingUp"

\* read_journal refuses a record glued to an unterminated one, and a phase that
\* is not the successor of the entry's last one.
Appended(f, next) == IF tail \/ ~CanAdvance(phase[f], next) THEN "corrupt" ELSE jrn

AppendPhase(p) ==
  /\ pc[p] \in Appending
  /\ \E f \in todo[p] :
       /\ Next1(p, f)
       /\ \/ /\ NoFault
             /\ phase' = [phase EXCEPT ![f] = pc[p]]
             /\ jrn' = Appended(f, pc[p])
             /\ Goto(p, AfterAppend(pc[p]))
             /\ IF pc[p] = "Installed" THEN Pop(p, f) ELSE UNCHANGED todo
             /\ UNCHANGED <<mode, tail>>
          \/ /\ Fault
             /\ \/ UNCHANGED <<phase, tail, jrn>>
                \/ UNCHANGED <<phase, jrn>> /\ tail' = TRUE
                \/ /\ phase' = [phase EXCEPT ![f] = pc[p]]
                   /\ jrn' = Appended(f, pc[p])
                   /\ UNCHANGED tail
             /\ RollBack(p)
  /\ UNCHANGED <<target, txn, staged, backup, entries, existed, lock, sub, failed,
                 history, crashes, edits>>

MoveToBackup(f) ==
  /\ backup' = [backup EXCEPT ![f] = target[f]]
  /\ target' = [target EXCEPT ![f] = Absent]

BackUp(p) ==
  /\ pc[p] = "backup"
  /\ \E f \in todo[p] :
       /\ Next1(p, f)
       /\ \/ /\ f \notin existed /\ NoFault
             /\ Goto(p, "BackedUp") /\ UNCHANGED <<target, backup, mode, todo>>
          \/ /\ f \in existed /\ target[f] # Absent
             /\ MoveToBackup(f)
             /\ \/ NoFault /\ Goto(p, "BackedUp") /\ UNCHANGED <<mode, todo>>
                \/ Fault /\ RollBack(p)
          \/ /\ f \in existed
             /\ \/ target[f] = Absent /\ NoFault
                \/ Fault
             /\ RollBack(p) /\ UNCHANGED <<target, backup>>
  /\ UNCHANGED <<txn, staged, jrn, tail, entries, existed, phase, lock, sub,
                 failed, history, crashes, edits>>

\* "target appeared during pull transaction" fails the pull.
CheckTarget(p) ==
  /\ pc[p] = "check"
  /\ \E f \in todo[p] :
       /\ Next1(p, f)
       /\ \/ target[f] = Absent /\ NoFault /\ Goto(p, "install") /\ UNCHANGED <<mode, todo>>
          \/ target[f] # Absent /\ NoFault /\ RollBack(p)
          \/ Fault /\ RollBack(p)
  /\ UNCHANGED <<disk, lock, sub, failed, history, crashes, edits>>

MoveToTarget(f) ==
  /\ staged' = staged \ {f}
  /\ target' = [target EXCEPT ![f] = ver]
  /\ put' = put \cup {f}

\* The rename replaces a file an operator creates after the check.
Install(p) ==
  /\ pc[p] = "install"
  /\ \E f \in todo[p] :
       /\ Next1(p, f)
       /\ \/ /\ MoveToTarget(f)
             /\ \/ NoFault /\ Goto(p, "Installed") /\ UNCHANGED <<mode, todo>>
                \/ Fault /\ RollBack(p)
          \/ Fault /\ RollBack(p) /\ UNCHANGED <<target, staged, put>>
  /\ UNCHANGED <<txn, backup, jrn, tail, entries, existed, phase, lock, sub, failed,
                 before, ver, touched, gone, cut, outcome, crashes, edits>>

\* Every entry is installed: remove_transaction commits.
ReplacedAll(p) ==
  /\ pc[p] = "BackingUp" /\ todo[p] = {}
  /\ Goto(p, "cleanup") /\ mode' = [mode EXCEPT ![p] = "commit"]
  /\ UNCHANGED <<disk, lock, todo, sub, failed, history, budget>>

-----------------------------------------------------------------------------
(* recover_pull_with: undo by the journal, then remove the transaction.    *)

AfterCleanupOk(p) ==
  \/ mode[p] = "start" /\ Goto(p, "fetch") /\ UNCHANGED <<lock, outcome>>
  \/ mode[p] # "start" /\ Return(p, "ok")

\* Mutant: the recovery takes the lock for itself, and planning goes on without.
AfterCleanupUnlocks(p) ==
  \/ mode[p] = "start" /\ Goto(p, "fetch") /\ lock' = NoProc /\ UNCHANGED outcome
  \/ mode[p] = "commit" /\ Return(p, "ok")
  \/ mode[p] = "rollback" /\ Return(p, "err")

\* What a finished recovery or commit continues with.
AfterCleanup(p) ==
  \/ mode[p] = "start" /\ Goto(p, "fetch") /\ UNCHANGED <<lock, outcome>>
  \/ mode[p] = "commit" /\ Return(p, "ok")
  \/ mode[p] = "rollback" /\ Return(p, "err")

UnreadableIfTorn == jrn \in {"torn", "corrupt"}

\* read_journal fails; a record without its newline is not a failure.
Unreadable == jrn = "corrupt"

\* No prepared record was ever written whole, so no rename was permitted.
Unprepared == jrn \in {"none", "torn"}

Recover(p) ==
  /\ pc[p] = "recover"
  /\ IF ~txn THEN AfterCleanup(p) /\ UNCHANGED <<todo, failed>>
     ELSE IF Unreadable THEN Return(p, "err") /\ UNCHANGED <<todo, failed>>
     ELSE /\ IF Unprepared
             THEN Goto(p, "cleanup") /\ UNCHANGED <<todo, failed>>
             ELSE /\ Goto(p, "undo")
                  /\ todo' = [todo EXCEPT ![p] = entries]
                  /\ failed' = failed \ {p}
          /\ UNCHANGED <<lock, outcome>>
  /\ UNCHANGED <<disk, mode, sub, before, ver, touched, gone, cut, put, budget>>

BackupByPhase(f) == f \in existed /\ phase[f] \in {"BackedUp", "Installing", "Installed"}
HasBackup(f) == f \in existed /\ backup[f] # Absent
InstalledByPhase(f) == f \notin existed /\ phase[f] = "Installed" /\ f \notin staged
WasInstalled(f) ==
  f \notin existed /\ phase[f] \in {"Installing", "Installed"} /\ f \notin staged

\* A failed step skips to the next entry; the first error is kept.
ForgetError(p) == UNCHANGED failed
Remember(p) == failed' = failed \cup {p}

UndoResult(p, f) ==
  \/ NoFault /\ UNCHANGED failed
  \/ Fault /\ Remember(p)

\* The replacement is deleted first, then the backup is renamed over the path.
RemoveReplacement(p, f) ==
  /\ HasBackup(f) /\ sub[p] = "none" /\ target[f] # Absent
  /\ \/ /\ NoFault
        /\ target' = [target EXCEPT ![f] = Absent]
        /\ sub' = [sub EXCEPT ![p] = "cleared"]
        /\ UNCHANGED <<todo, failed>>
     \/ /\ Fault
        /\ target' \in {target, [target EXCEPT ![f] = Absent]}
        /\ Pop(p, f) /\ Remember(p) /\ UNCHANGED sub
  /\ UNCHANGED backup

MoveToOriginal(f) ==
  /\ target' = [target EXCEPT ![f] = backup[f]]
  /\ backup' = [backup EXCEPT ![f] = Absent]

RestoreBackup(p, f) ==
  /\ HasBackup(f) /\ (sub[p] = "cleared" \/ target[f] = Absent)
  /\ \/ MoveToOriginal(f) /\ UndoResult(p, f)
     \/ Fault /\ Remember(p) /\ UNCHANGED <<target, backup>>
  /\ Pop(p, f) /\ sub' = [sub EXCEPT ![p] = "none"]

RemoveInstalled(p, f) ==
  /\ WasInstalled(f) /\ target[f] # Absent
  /\ \/ target' = [target EXCEPT ![f] = Absent] /\ UndoResult(p, f)
     \/ Fault /\ Remember(p) /\ UNCHANGED target
  /\ Pop(p, f)
  /\ UNCHANGED <<backup, sub>>

NothingToUndo(p, f) ==
  /\ ~HasBackup(f) /\ ~(WasInstalled(f) /\ target[f] # Absent)
  /\ Pop(p, f) /\ NoFault
  /\ UNCHANGED <<target, backup, sub, failed>>

Undo(p) ==
  /\ pc[p] = "undo"
  /\ \E f \in todo[p] :
       /\ Next1(p, f)
       /\ \/ RemoveReplacement(p, f)
          \/ RestoreBackup(p, f)
          \/ RemoveInstalled(p, f)
          \/ NothingToUndo(p, f)
  /\ UNCHANGED <<txn, staged, jrn, tail, entries, existed, phase, lock, pc, mode,
                 history, crashes, edits>>

UndoDone(p) ==
  /\ pc[p] = "undo" /\ todo[p] = {}
  /\ IF p \in failed
     THEN Return(p, "err")
     ELSE Goto(p, "cleanup") /\ UNCHANGED <<lock, outcome>>
  /\ UNCHANGED <<disk, mode, todo, sub, failed, before, ver, touched, gone, cut, put, budget>>

\* remove_dir_all: children in any order, each subdirectory emptied once entered.
RemoveJournal(p) ==
  /\ sub[p] = "none" /\ jrn # "none"
  /\ jrn' = "none" /\ tail' = FALSE
  /\ UNCHANGED <<staged, backup, sub, gone>>

RemoveStaged(p, f) ==
  /\ sub[p] \in {"none", "staged"} /\ f \in staged
  /\ staged' = staged \ {f}
  /\ sub' = [sub EXCEPT ![p] = IF staged' = {} THEN "none" ELSE "staged"]
  /\ UNCHANGED <<backup, jrn, tail, gone>>

RemoveBackup(p, f) ==
  /\ sub[p] \in {"none", "backups"} /\ backup[f] # Absent
  /\ backup' = [backup EXCEPT ![f] = Absent]
  /\ sub' = [sub EXCEPT ![p] = IF \A g \in Files : backup'[g] = Absent
                               THEN "none" ELSE "backups"]
  /\ gone' = (IF mode[p] = "commit" /\ jrn = "whole" THEN gone \cup {f} ELSE gone)
  /\ UNCHANGED <<staged, jrn, tail>>

Cleanup(p) ==
  /\ pc[p] = "cleanup"
  /\ \/ RemoveJournal(p)
     \/ \E f \in Files : RemoveStaged(p, f) \/ RemoveBackup(p, f)
  /\ UNCHANGED <<target, txn, entries, existed, phase, lock, pc, mode, todo, failed,
                 before, ver, touched, cut, put, outcome, budget>>

\* A later failure to sync the mirror directory is not an error.
CleanupDone(p) ==
  /\ pc[p] = "cleanup"
  /\ jrn = "none" /\ staged = {} /\ \A f \in Files : backup[f] = Absent
  /\ txn' = FALSE
  /\ AfterCleanup(p)
  /\ UNCHANGED <<target, staged, backup, jrn, tail, entries, existed, phase, mode,
                 todo, sub, failed, before, ver, touched, gone, cut, put, budget>>

\* A commit whose removal fails half way is rolled back by what is left.
CleanupFails(p) ==
  /\ pc[p] = "cleanup" /\ Fault
  /\ sub' = [sub EXCEPT ![p] = "none"]
  /\ cut' = (cut \/ (jrn = "whole" /\ gone # {}))
  /\ IF mode[p] = "commit"
     THEN RollBack(p) /\ UNCHANGED <<lock, outcome>>
     ELSE Return(p, "err") /\ UNCHANGED <<mode, todo>>
  /\ UNCHANGED <<disk, failed, before, ver, touched, gone, put, crashes, edits>>

-----------------------------------------------------------------------------
(* The environment.                                                        *)

\* The process dies and the kernel drops its lock; a record being appended
\* may be left unterminated.
Crash(p) ==
  /\ pc[p] # "idle" /\ crashes < MaxCrashes
  /\ crashes' = crashes + 1
  /\ Goto(p, "idle") /\ lock' = NoProc
  /\ sub' = [sub EXCEPT ![p] = "none"]
  /\ outcome' = [outcome EXCEPT ![p] = "none"]
  /\ cut' = (cut \/ (pc[p] = "cleanup" /\ jrn = "whole" /\ gone # {}))
  /\ jrn' \in (IF pc[p] = "stage" /\ todo[p] = {} THEN {"none", "torn"} ELSE {jrn})
  /\ tail' \in (IF pc[p] \in Appending /\ todo[p] # {} THEN {tail, TRUE} ELSE {tail})
  /\ todo' = [todo EXCEPT ![p] = {}]
  /\ UNCHANGED <<target, txn, staged, backup, entries, existed, phase, mode,
                 failed, before, ver, touched, gone, put, faults, edits>>

\* The mirror is a working tree: the operator needs no lock.
OperatorEdits(f) ==
  /\ edits < MaxEdits /\ edits' = edits + 1
  /\ target' \in {[target EXCEPT ![f] = c] : c \in {Absent, Edited} \ {target[f]}}
  /\ touched' = touched \cup {f}
  /\ UNCHANGED <<txn, staged, backup, jrn, tail, entries, existed, phase, procs,
                 before, ver, gone, cut, put, outcome, faults, crashes>>

-----------------------------------------------------------------------------
Step(p) ==
  \/ FetchFails(p) \/ (\E plan \in SUBSET Files : Begin(p, plan))
  \/ Stage(p) \/ WriteManifest(p)
  \/ AppendPhase(p) \/ BackUp(p) \/ CheckTarget(p) \/ Install(p) \/ ReplacedAll(p)
  \/ Recover(p) \/ Undo(p) \/ UndoDone(p)
  \/ Cleanup(p) \/ CleanupDone(p) \/ CleanupFails(p)

Next ==
  \/ \E p \in Procs : Acquire(p) \/ LockHeld(p) \/ Step(p) \/ Crash(p)
  \/ \E f \in Files : OperatorEdits(f)

Spec == Init /\ [][Next]_vars

\* A running process keeps running; nobody is obliged to start one.
FairSpec == Spec /\ \A p \in Procs : WF_vars(Step(p))

\* A pull that failed is run again until the mirror is clean.
RetriedSpec == FairSpec /\ \A p \in Procs : WF_vars(Acquire(p))

-----------------------------------------------------------------------------
(* Properties.                                                             *)

DiskTypeOK ==
  /\ target \in [Files -> Content] /\ backup \in [Files -> Content]
  /\ jrn \in {"none", "torn", "whole", "corrupt"} /\ phase \in [Files -> Phases]
  /\ entries \subseteq Files /\ existed \subseteq Files /\ staged \subseteq Files

ProcsTypeOK ==
  /\ lock \in Procs \cup {NoProc} /\ failed \subseteq Procs
  /\ pc \in [Procs -> Labels] /\ mode \in [Procs -> {"start", "commit", "rollback"}]
  /\ todo \in [Procs -> SUBSET Files]
  /\ sub \in [Procs -> {"none", "cleared", "staged", "backups"}]

HistoryTypeOK ==
  /\ before \in [Files -> Content]
  /\ touched \subseteq Files /\ gone \subseteq Files /\ put \subseteq Files
  /\ outcome \in [Procs -> {"none", "ok", "err", "conflict"}]
  /\ ver \in Nat /\ faults \in Nat /\ crashes \in Nat /\ edits \in Nat

FlagsTypeOK == txn \in BOOLEAN /\ tail \in BOOLEAN /\ cut \in BOOLEAN

\* A pull is at work exactly while it holds the lock: whoever recovers, plans or
\* replaces is alone with the mirror from its first step to its last.
LockInv == \A p \in Procs : pc[p] # "idle" <=> lock = p

\* Every variable has its type, and the lock and the labels of the pulls agree.
TypeOK == DiskTypeOK /\ ProcsTypeOK /\ HistoryTypeOK /\ FlagsTypeOK /\ LockInv

\* The planned files only the transaction has written.
Ours == entries \ touched

\* What the recovery at the start of the next pull leaves at a path.
RecoverView(f) ==
  IF jrn # "whole" \/ f \notin entries THEN target[f]
  ELSE IF HasBackup(f) THEN backup[f]
  ELSE IF WasInstalled(f) THEN Absent
  ELSE target[f]

\* Once its transaction is gone a pull has replaced every planned file or none,
\* whatever failed and whoever was killed, unless a commit was cut short while
\* it was discarding backups under a journal that still asked to undo them.
AtomicUnlessCut ==
  ~txn => \/ cut
          \/ \A f \in Ours : target[f] = before[f]
          \/ \A f \in Ours : target[f] = ver

\* The previous bytes of a planned file are replaced or backed up, never lost.
NoLoss ==
  \A f \in Ours : before[f] # Absent => target[f] # Absent \/ backup[f] = before[f]

\* No record is ever appended behind an unterminated one or out of order, so
\* recovery can always read the journal.
JournalReadable == jrn # "corrupt"

\* What the next recovery would leave changes only while a commit discards the
\* transaction directory, and then to the pulled bytes: neither staging, nor a
\* rename, nor a rollback, nor a crash moves it.
ViewMovesOnlyAtCommit ==
  [][\A f \in entries \ touched' :
       RecoverView(f)' # RecoverView(f) =>
         /\ \E p \in Procs : pc[p] = "cleanup" /\ mode[p] = "commit"
         /\ RecoverView(f)' = ver]_vars

\* A pull that reports success has installed every planned file.  One that fails
\* after it began leaves a mirror that is, or recovers to, the previous one, or
\* has all of the new one because the removal of the journal was its commit.
ReportedOutcomeIsTrue ==
  [][\A p \in Procs : outcome'[p] # outcome[p] =>
       /\ outcome'[p] = "ok" => \A f \in Ours : target'[f] = ver
       /\ outcome'[p] = "err" /\ mode[p] = "rollback" =>
            \/ cut
            \/ \A f \in Ours : RecoverView(f)' = before[f]
            \/ jrn' = "none" /\ \A f \in Ours : target'[f] = ver]_vars

\* An interrupted transaction does not stay in the way: pulls run again and
\* again end with one that has removed it.
TransactionIsRemoved == txn ~> ~txn

\* The design: a pull whose replacement is interrupted preserves or restores the
\* prior tree, so what is left is the prior tree or the new one.
AllOrNothing ==
  ~txn => \/ \A f \in Ours : target[f] = before[f]
          \/ \A f \in Ours : target[f] = ver

=============================================================================
