------------------------- MODULE ReportTransaction -------------------------
(***************************************************************************)
(* The crash-recoverable publication of the change report of `state push`  *)
(* (crates/elasticctl-cli/src/report_file.rs, cmd/state.rs).  A push locks *)
(* the destination, rolls back what an earlier push left, stages its dry   *)
(* run report and journals it before the guard, applies the plan to the    *)
(* stack, and then moves the old report to a backup and the final one into *)
(* place, journaling a phase around each rename.  Unlike the pull, its     *)
(* recovery journals too: Restoring before it moves the backup back and    *)
(* Restored after.                                                         *)
(*                                                                         *)
(* Every mutation is fsynced before the next one starts, so losing the     *)
(* power is a process crash before or after the step; a rename is atomic.  *)
(***************************************************************************)
EXTENDS Naturals

CONSTANTS
  Procs,       \* processes that run `state push --report` on one destination
  NoProc,      \* the lock is free
  Absent,      \* content of a path with no file
  Edited,      \* content an operator writes
  MaxRuns,     \* bound on transactions begun
  MaxFaults,   \* bound on file operations that fail
  MaxCrashes,  \* bound on processes killed
  MaxEdits     \* bound on edits by the operator

ASSUME NoProcIsNoProc == NoProc \notin Procs
ASSUME ContentsDiffer == Absent \notin Nat /\ Edited \notin Nat /\ Absent # Edited
ASSUME BoundsAreNat ==
  MaxRuns \in Nat /\ MaxFaults \in Nat /\ MaxCrashes \in Nat /\ MaxEdits \in Nat

\* The reports of run n: the one staged before the guard, and the applied one.
DryRun(n) == 2 * n
Applied(n) == 2 * n + 1
Content == Nat \cup {Absent, Edited}

Phases == {"Prepared", "BackingUp", "BackedUp", "Installing", "Installed",
           "Restoring", "Restored"}
Appending == Phases \ {"Prepared"}

\* Where a push is; a label of Appending is the record it appends next.
Labels == Appending \cup
  {"idle", "recover", "unreplace", "restore", "finish", "cleanup", "prepare", "stage",
   "manifest", "guard", "publish", "restage", "snapshot", "backup", "check", "install"}

\* is_valid_transition
CanAdvance(from, to) ==
  \/ <<from, to>> \in {<<"Prepared", "BackingUp">>, <<"BackingUp", "BackedUp">>,
                       <<"BackedUp", "Installing">>, <<"Installing", "Installed">>,
                       <<"Restoring", "Restored">>}
  \/ from \in {"BackingUp", "BackedUp", "Installing", "Installed"} /\ to = "Restoring"

VARIABLES
  \* the disk
  target,    \* content of the destination
  txn,       \* the transaction directory exists
  staged,    \* content of staged.json
  backup,    \* content of backup.json
  original,  \* content of original.json, the bytes the backup was taken of
  jrn,       \* the journal: "none", "torn" (no whole record), "whole", "corrupt"
  tail,      \* the journal ends in an unterminated record
  existed,   \* manifest: existed_before
  phase,     \* phase of the last whole record
  \* the processes
  lock, pc, mode,
  \* history and bounds
  remote,    \* the last run that wrote to the stack
  before,    \* the destination when the transaction began
  ver,       \* number of the transaction
  touched,   \* the operator edited the destination since then
  committed, \* the removal of the installed report's transaction began
  cut,       \* a removal was interrupted with the journal still whole
  outcome,   \* what the last run of each process returned
  faults, crashes, edits

disk == <<target, txn, staged, backup, original, jrn, tail, existed, phase>>
procs == <<lock, pc, mode>>
history == <<remote, before, ver, touched, committed, cut, outcome>>
budget == <<faults, crashes, edits>>
vars == <<disk, procs, history, budget>>

Init ==
  /\ target \in {Absent, 0}
  /\ txn = FALSE /\ staged = Absent /\ backup = Absent /\ original = Absent
  /\ jrn = "none" /\ tail = FALSE /\ existed = FALSE /\ phase = "Prepared"
  /\ lock = NoProc
  /\ pc = [p \in Procs |-> "idle"] /\ mode = [p \in Procs |-> "start"]
  /\ remote = 0 /\ before = target /\ ver = 0
  /\ touched = FALSE /\ committed = FALSE /\ cut = FALSE
  /\ outcome = [p \in Procs |-> "none"]
  /\ faults = 0 /\ crashes = 0 /\ edits = 0

-----------------------------------------------------------------------------
(* What the steps share.                                                   *)

Fault == faults < MaxFaults /\ faults' = faults + 1
NoFault == faults' = faults

Goto(p, label) == pc' = [pc EXCEPT ![p] = label]

Return(p, result) ==
  /\ Goto(p, "idle")
  /\ lock' = NoProc
  /\ outcome' = [outcome EXCEPT ![p] = result]

\* finish_failed_preparation and finish_failed_publication: recover under the
\* same lock, then report the error.
RollBack(p) ==
  /\ Goto(p, "recover")
  /\ mode' = [mode EXCEPT ![p] = "failed"]

\* A step of the push: it succeeds and goes on, or it fails and rolls back.
Succeed(p, label) == NoFault /\ Goto(p, label) /\ UNCHANGED mode
Fail(p) == Fault /\ RollBack(p)

\* read_journal refuses a record glued to an unterminated one, and a phase that
\* may not follow the last one.
Appended(next) == IF tail \/ ~CanAdvance(phase, next) THEN "corrupt" ELSE jrn

\* An append that fails may have written nothing, a part, or the whole record.
AppendFaults(next) ==
  \/ UNCHANGED <<jrn, tail, phase>>
  \/ tail' = TRUE /\ UNCHANGED <<jrn, phase>>
  \/ phase' = next /\ jrn' = Appended(next) /\ UNCHANGED tail

\* The final typed report is published whether or not the guard approved.
FinalReport == IF remote = ver THEN Applied(ver) ELSE DryRun(ver)

-----------------------------------------------------------------------------
(* Preflight, before the guard.                                            *)

Acquire(p) ==
  /\ pc[p] = "idle" /\ lock = NoProc
  /\ lock' = p /\ Goto(p, "recover")
  /\ mode' = [mode EXCEPT ![p] = "start"]
  /\ outcome' = [outcome EXCEPT ![p] = "none"]
  /\ UNCHANGED <<disk, remote, before, ver, touched, committed, cut, budget>>

\* try_lock fails at once: "another state push holds report destination".
LockHeld(p) ==
  /\ pc[p] = "idle" /\ lock # NoProc
  /\ outcome' = [outcome EXCEPT ![p] = "conflict"]
  /\ UNCHANGED <<disk, procs, remote, before, ver, touched, committed, cut, budget>>

Prepare(p) ==
  /\ pc[p] = "prepare" /\ ver < MaxRuns
  /\ ver' = ver + 1 /\ before' = target
  /\ touched' = FALSE /\ committed' = FALSE /\ cut' = FALSE
  /\ existed' = (target # Absent)
  /\ \/ txn' = TRUE /\ Succeed(p, "stage")
     \/ txn' \in BOOLEAN /\ Fail(p)
  /\ UNCHANGED <<target, staged, backup, original, jrn, tail, phase, lock, remote,
                 outcome, crashes, edits>>

\* A destination that is not a regular file is refused before anything is staged.
PrepareRefuses(p) ==
  /\ pc[p] = "prepare"
  /\ Return(p, "err")
  /\ UNCHANGED <<disk, mode, remote, before, ver, touched, committed, cut, budget>>

StageWithoutManifest(p) ==
  /\ pc[p] = "stage"
  /\ \/ staged' = DryRun(ver) /\ Succeed(p, "guard")
     \/ staged' \in {Absent, DryRun(ver)} /\ Fail(p)
  /\ UNCHANGED <<target, txn, backup, original, jrn, tail, existed, phase, lock,
                 history, crashes, edits>>

StageDryRun(p) ==
  /\ pc[p] = "stage"
  /\ \/ staged' = DryRun(ver) /\ Succeed(p, "manifest")
     \/ staged' \in {Absent, DryRun(ver)} /\ Fail(p)
  /\ UNCHANGED <<target, txn, backup, original, jrn, tail, existed, phase, lock,
                 history, crashes, edits>>

WriteManifest(p) ==
  /\ pc[p] = "manifest"
  /\ phase' = "Prepared"
  /\ \/ jrn' = "whole" /\ Succeed(p, "guard")
     \/ jrn' \in {"none", "torn", "whole"} /\ Fail(p)
  /\ UNCHANGED <<target, txn, staged, backup, original, tail, existed, lock,
                 history, crashes, edits>>

\* Without --yes the dry run is published; with it the plan is applied first.
Declined(p) ==
  /\ pc[p] = "guard"
  /\ Goto(p, "publish")
  /\ UNCHANGED <<disk, lock, mode, history, budget>>

Apply(p) ==
  /\ pc[p] = "guard"
  /\ remote' = ver
  /\ Goto(p, "publish")
  /\ UNCHANGED <<disk, lock, mode, before, ver, touched, committed, cut, outcome, budget>>

\* apply_push fails only before its first write; the lock goes with the report.
ApplyFails(p) ==
  /\ pc[p] = "guard"
  /\ Return(p, "err")
  /\ UNCHANGED <<disk, mode, remote, before, ver, touched, committed, cut, budget>>

-----------------------------------------------------------------------------
(* publish_report_with.                                                    *)

PublishStaged(p) ==
  /\ pc[p] = "publish" /\ NoFault
  /\ IF jrn = "whole" /\ phase = "Prepared" /\ (target # Absent <=> existed)
        /\ staged # Absent /\ backup = Absent
     THEN Goto(p, IF existed THEN "snapshot" ELSE "BackingUp") /\ UNCHANGED mode
     ELSE RollBack(p)
  /\ UNCHANGED <<disk, lock, history, crashes, edits>>

\* "changed after preflight": the destination appeared or disappeared.
Publish(p) ==
  /\ pc[p] = "publish" /\ NoFault
  /\ IF jrn = "whole" /\ phase = "Prepared" /\ (target # Absent <=> existed)
        /\ staged # Absent /\ backup = Absent
     THEN Goto(p, "restage") /\ UNCHANGED mode
     ELSE RollBack(p)
  /\ UNCHANGED <<disk, lock, history, crashes, edits>>

Restage(p) ==
  /\ pc[p] = "restage"
  /\ \/ /\ staged' = FinalReport
        /\ Succeed(p, IF existed THEN "snapshot" ELSE "BackingUp")
     \/ staged' \in {staged, FinalReport} /\ Fail(p)
  /\ UNCHANGED <<target, txn, backup, original, jrn, tail, existed, phase, lock,
                 history, crashes, edits>>

Snapshot(p) ==
  /\ pc[p] = "snapshot"
  /\ \/ target # Absent /\ original' = target /\ Succeed(p, "BackingUp")
     \/ target = Absent /\ UNCHANGED original /\ NoFault /\ RollBack(p)
     \/ original' \in {original, target} /\ Fail(p)
  /\ UNCHANGED <<target, txn, staged, backup, jrn, tail, existed, phase, lock,
                 history, crashes, edits>>

AfterAppend(label) ==
  CASE label = "BackingUp" -> IF existed THEN "backup" ELSE "BackedUp"
    [] label = "BackedUp" -> "Installing"
    [] label = "Installing" -> "check"
    [] label = "Installed" -> "cleanup"
    [] label = "Restoring" -> "unreplace"
    [] label = "Restored" -> "cleanup"

\* append_phase: a publication that fails is rolled back, a recovery gives up.
AppendPhase(p) ==
  /\ pc[p] \in Appending
  /\ \/ /\ NoFault
        /\ phase' = pc[p] /\ jrn' = Appended(pc[p]) /\ UNCHANGED tail
        /\ Goto(p, AfterAppend(pc[p]))
        /\ mode' = [mode EXCEPT ![p] = IF pc[p] = "Installed" THEN "commit" ELSE @]
        /\ committed' = (committed \/ pc[p] = "Installed")
        /\ UNCHANGED <<lock, outcome>>
     \/ /\ Fault
        /\ AppendFaults(pc[p])
        /\ IF pc[p] \in {"Restoring", "Restored"}
           THEN Return(p, "err") /\ UNCHANGED mode
           ELSE RollBack(p) /\ UNCHANGED <<lock, outcome>>
        /\ UNCHANGED committed
  /\ UNCHANGED <<target, txn, staged, backup, original, existed, remote, before, ver,
                 touched, cut, crashes, edits>>

MoveToBackup == backup' = target /\ target' = Absent

BackUp(p) ==
  /\ pc[p] = "backup"
  /\ \/ target # Absent /\ MoveToBackup /\ (Succeed(p, "BackedUp") \/ Fail(p))
     \/ UNCHANGED <<target, backup>> /\ (IF target = Absent THEN NoFault ELSE Fault)
        /\ RollBack(p)
  /\ UNCHANGED <<txn, staged, original, jrn, tail, existed, phase, lock, history,
                 crashes, edits>>

\* "appeared during publication"
CheckTarget(p) ==
  /\ pc[p] = "check"
  /\ \/ target = Absent /\ Succeed(p, "install")
     \/ target # Absent /\ NoFault /\ RollBack(p)
  /\ UNCHANGED <<disk, lock, history, crashes, edits>>

MoveToTarget == target' = staged /\ staged' = Absent

Install(p) ==
  /\ pc[p] = "install"
  /\ \/ MoveToTarget /\ (Succeed(p, "Installed") \/ Fail(p))
     \/ UNCHANGED <<target, staged>> /\ Fail(p)
  /\ UNCHANGED <<txn, backup, original, jrn, tail, existed, phase, lock, history,
                 crashes, edits>>

-----------------------------------------------------------------------------
(* recover_report_locked.                                                  *)

\* target_matches_original
Matches == original # Absent /\ target = original

KeepInstalled ==
  IF phase = "Installed" THEN "cleanup"
  ELSE IF backup # Absent THEN IF phase = "Restoring" THEN "unreplace" ELSE "Restoring"
  ELSE IF phase = "Restoring" THEN "finish" ELSE "cleanup"

TrustBackingUp ==
  IF phase \in {"Prepared", "BackingUp", "Restored"} THEN "cleanup"
  ELSE IF backup # Absent THEN IF phase = "Restoring" THEN "unreplace" ELSE "Restoring"
  ELSE IF phase = "Restoring" THEN "finish" ELSE "refuse"

NeedBackup ==
  IF phase \in {"Prepared", "Restored"} THEN "cleanup"
  ELSE IF backup # Absent THEN IF phase = "Restoring" THEN "unreplace" ELSE "Restoring"
  ELSE IF phase = "Restoring" THEN "finish" ELSE "refuse"

\* recover_existing_target: what the phase and the backup call for.
RecoverExisting ==
  CASE phase = "Restored" ->
         IF backup = Absent /\ Matches THEN "cleanup" ELSE "refuse"
    [] phase = "Restoring" /\ backup = Absent -> IF Matches THEN "finish" ELSE "refuse"
    [] phase # "Restored" /\ backup # Absent ->
         IF phase = "Prepared" \/ original = Absent THEN "refuse"
         ELSE IF phase = "Restoring" THEN "unreplace" ELSE "Restoring"
    [] phase \notin {"Restored", "Restoring"} /\ backup = Absent ->
         IF phase \in {"Prepared", "BackingUp"} /\ target # Absent
         THEN "cleanup" ELSE "refuse"

\* recover_absent_target: without its staged side the target is taken for ours.
RecoverAbsent ==
  IF phase \in {"Restoring", "Restored"} THEN "refuse"
  ELSE IF phase \in {"Installing", "Installed"} /\ staged = Absent THEN "unreplace"
  ELSE "cleanup"

\* read_journal: a record without its newline is dropped, not refused.
Recovery ==
  IF jrn = "corrupt" THEN "refuse"
  ELSE IF jrn \in {"none", "torn"} THEN "cleanup"
  ELSE IF existed THEN RecoverExisting ELSE RecoverAbsent

\* What a finished removal continues with.
\* Mutant: the recovery takes the lock for itself, and the push goes on without.
AfterCleanupUnlocks(p) ==
  \/ mode[p] = "start" /\ Goto(p, "prepare") /\ lock' = NoProc /\ UNCHANGED outcome
  \/ mode[p] = "failed" /\ Return(p, "err")
  \/ mode[p] = "commit" /\ Return(p, "ok")

AfterCleanup(p) ==
  \/ mode[p] = "start" /\ Goto(p, "prepare") /\ UNCHANGED <<lock, outcome>>
  \/ mode[p] = "failed" /\ Return(p, "err")
  \/ mode[p] = "commit" /\ Return(p, "ok")

RecoverNeedsRecord(p) ==
  /\ pc[p] = "recover"
  /\ IF ~txn THEN AfterCleanup(p)
     ELSE IF jrn # "whole" \/ Recovery = "refuse" THEN Return(p, "err")
     ELSE Goto(p, Recovery) /\ UNCHANGED <<lock, outcome>>
  /\ UNCHANGED <<disk, mode, remote, before, ver, touched, committed, cut, budget>>

Recover(p) ==
  /\ pc[p] = "recover"
  /\ IF ~txn THEN AfterCleanup(p)
     ELSE IF Recovery = "refuse" THEN Return(p, "err")
     ELSE Goto(p, Recovery) /\ UNCHANGED <<lock, outcome>>
  /\ UNCHANGED <<disk, mode, remote, before, ver, touched, committed, cut, budget>>

\* The replacement goes before the backup comes back.
Unreplace(p) ==
  /\ pc[p] = "unreplace"
  /\ \/ /\ target' = Absent /\ NoFault
        /\ Goto(p, IF existed THEN "restore" ELSE "cleanup")
        /\ UNCHANGED <<lock, outcome>>
     \/ target # Absent /\ target' \in {target, Absent} /\ Fault /\ Return(p, "err")
  /\ UNCHANGED <<txn, staged, backup, original, jrn, tail, existed, phase, mode, remote,
                 before, ver, touched, committed, cut, crashes, edits>>

MoveBack == target' = backup /\ backup' = Absent

Restore(p) ==
  /\ pc[p] = "restore"
  /\ \/ MoveBack /\ NoFault /\ Goto(p, "finish") /\ UNCHANGED <<lock, outcome>>
     \/ (MoveBack \/ UNCHANGED <<target, backup>>) /\ Fault /\ Return(p, "err")
  /\ UNCHANGED <<txn, staged, original, jrn, tail, existed, phase, mode, remote,
                 before, ver, touched, committed, cut, crashes, edits>>

Finish(p) ==
  /\ pc[p] = "finish"
  /\ \/ Matches /\ NoFault /\ Goto(p, "Restored") /\ UNCHANGED <<lock, outcome>>
     \/ (IF Matches THEN Fault ELSE NoFault) /\ Return(p, "err")
  /\ UNCHANGED <<disk, mode, remote, before, ver, touched, committed, cut, crashes, edits>>

\* remove_dir_all: the children of the directory in any order.
Cleanup(p) ==
  /\ pc[p] = "cleanup"
  /\ \/ jrn # "none" /\ jrn' = "none" /\ tail' = FALSE /\ UNCHANGED <<staged, backup, original>>
     \/ staged # Absent /\ staged' = Absent /\ UNCHANGED <<backup, original, jrn, tail>>
     \/ backup # Absent /\ backup' = Absent /\ UNCHANGED <<staged, original, jrn, tail>>
     \/ original # Absent /\ original' = Absent /\ UNCHANGED <<staged, backup, jrn, tail>>
  /\ UNCHANGED <<target, txn, existed, phase, procs, history, budget>>

\* A later failure to sync the parent directory is not an error.
CleanupDone(p) ==
  /\ pc[p] = "cleanup"
  /\ jrn = "none" /\ staged = Absent /\ backup = Absent /\ original = Absent
  /\ txn' = FALSE
  /\ AfterCleanup(p)
  /\ UNCHANGED <<target, staged, backup, original, jrn, tail, existed, phase, mode,
                 remote, before, ver, touched, committed, cut, budget>>

\* The journal still asks for what a cut removal has taken away.
CutShort(p) ==
  pc[p] = "cleanup" /\ jrn = "whole" /\ (backup = Absent \/ original = Absent)

CleanupFails(p) ==
  /\ pc[p] = "cleanup" /\ Fault
  /\ cut' = (cut \/ CutShort(p))
  /\ IF mode[p] = "commit"
     THEN RollBack(p) /\ UNCHANGED <<lock, outcome>>
     ELSE Return(p, "err") /\ UNCHANGED mode
  /\ UNCHANGED <<disk, remote, before, ver, touched, committed, crashes, edits>>

-----------------------------------------------------------------------------
(* The environment.                                                        *)

\* The process dies and the kernel drops its lock; a record being written may
\* be left unterminated.
Crash(p) ==
  /\ pc[p] # "idle" /\ crashes < MaxCrashes
  /\ crashes' = crashes + 1
  /\ Goto(p, "idle") /\ lock' = NoProc
  /\ outcome' = [outcome EXCEPT ![p] = "none"]
  /\ cut' = (cut \/ CutShort(p))
  /\ jrn' \in (IF pc[p] = "manifest" THEN {"none", "torn"} ELSE {jrn})
  /\ tail' \in (IF pc[p] \in Appending THEN {tail, TRUE} ELSE {tail})
  /\ UNCHANGED <<target, txn, staged, backup, original, existed, phase, mode, remote,
                 before, ver, touched, committed, faults, edits>>

OperatorEdits ==
  /\ edits < MaxEdits /\ edits' = edits + 1
  /\ target' \in {Absent, Edited} \ {target}
  /\ touched' = TRUE
  /\ UNCHANGED <<txn, staged, backup, original, jrn, tail, existed, phase, procs, remote,
                 before, ver, committed, cut, outcome, faults, crashes>>

-----------------------------------------------------------------------------
Step(p) ==
  \/ Prepare(p) \/ PrepareRefuses(p) \/ StageDryRun(p) \/ WriteManifest(p)
  \/ Declined(p) \/ Apply(p) \/ ApplyFails(p)
  \/ Publish(p) \/ Restage(p) \/ Snapshot(p) \/ AppendPhase(p) \/ BackUp(p)
  \/ CheckTarget(p) \/ Install(p)
  \/ Recover(p) \/ Unreplace(p) \/ Restore(p) \/ Finish(p)
  \/ Cleanup(p) \/ CleanupDone(p) \/ CleanupFails(p)

Next ==
  \/ \E p \in Procs : Acquire(p) \/ LockHeld(p) \/ Step(p) \/ Crash(p)
  \/ OperatorEdits

Spec == Init /\ [][Next]_vars

\* A running push goes on, and one that failed is run again.
RetriedSpec == Spec /\ \A p \in Procs : WF_vars(Step(p)) /\ WF_vars(Acquire(p))

-----------------------------------------------------------------------------
(* Properties.                                                             *)

\* A push is at work exactly while it holds the lock: whoever recovers, writes to
\* the stack or publishes is alone with the report from its first step to its last.
LockInv == \A p \in Procs : pc[p] # "idle" <=> lock = p

\* Every variable has its type, and the lock and the labels of the pushes agree.
TypeOK ==
  /\ {target, staged, backup, original, before} \subseteq Content
  /\ {txn, tail, existed, touched, committed, cut} \subseteq BOOLEAN
  /\ jrn \in {"none", "torn", "whole", "corrupt"} /\ phase \in Phases
  /\ lock \in Procs \cup {NoProc}
  /\ pc \in [Procs -> Labels] /\ mode \in [Procs -> {"start", "failed", "commit"}]
  /\ outcome \in [Procs -> {"none", "ok", "err", "conflict"}]
  /\ {ver, remote, faults, crashes, edits} \subseteq Nat
  /\ LockInv

\* Until the removal of the transaction begins, the previous report is at the
\* destination or in the backup, whatever fails and whoever is killed; after it
\* the destination holds one of the two reports, never nothing.
NoLoss ==
  before # Absent /\ ~touched =>
    \/ before \in {target, backup}
    \/ committed /\ target \in {DryRun(ver), Applied(ver)}

\* Once a transaction is gone the destination holds the previous report, or the
\* report of the run if its removal was its commit.
AllOrNothing ==
  ~txn /\ ~touched =>
    \/ target = before
    \/ committed /\ target \in {DryRun(ver), Applied(ver)}

\* The stack is written only with the dry run of the same run journaled and the
\* destination still as the operator left it; and a push reports success only
\* with the report of what it did at the destination, and with nothing left for
\* a recovery to undo.
AppliesAreReported ==
  [][/\ remote' # remote =>
          /\ txn /\ jrn = "whole" /\ phase = "Prepared" /\ staged = DryRun(ver)
          /\ touched \/ target = before
     /\ \A p \in Procs : outcome'[p] # outcome[p] /\ outcome'[p] = "ok" =>
          ~txn' /\ (touched \/ target' = FinalReport)]_vars

\* Recovery refuses a transaction only after the operator moved the destination,
\* a removal was cut short, or a record was appended to an unterminated one.
RefusalIsExplained ==
  txn /\ lock = NoProc /\ Recovery = "refuse" => touched \/ cut \/ jrn = "corrupt"

\* A transaction does not stay in the way of later pushes unless recovery
\* refuses it.
RemovedOrRefused == txn ~> ~txn \/ Recovery = "refuse"

=============================================================================
