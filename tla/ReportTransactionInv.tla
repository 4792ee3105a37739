----------------------- MODULE ReportTransactionInv -----------------------
(***************************************************************************)
(* The inductive invariant behind the safety properties of                 *)
(* ReportTransaction.  It says what the disk holds at each phase of the    *)
(* journal, and at each label what the phase and the disk are.  What it    *)
(* says of the destination holds until the operator edits it.              *)
(***************************************************************************)
EXTENDS ReportTransaction

Reports == {DryRun(ver), Applied(ver)}

\* The outcome of the transaction is decided: nothing is left to undo or to do.
Decided == target = before \/ (committed /\ target \in Reports)

Journaled == txn /\ jrn \in {"whole", "corrupt"}

\* The phases at which the destination is the previous report or in the backup.
Untouched == {"Prepared", "BackingUp", "Restored"}

\* What the transaction directory can hold.
DiskInv ==
  /\ ~txn => jrn = "none" /\ staged = Absent /\ backup = Absent /\ original = Absent
  /\ txn => (existed <=> before # Absent)
  /\ jrn \in {"none", "torn"} => ~tail
  /\ ~existed => jrn # "corrupt" /\ backup = Absent /\ original = Absent
  /\ ~existed /\ jrn = "whole" => phase \notin {"Restoring", "Restored"}

\* The backup and the snapshot are of the previous report.
BackupInv == ~touched => {backup, original} \subseteq {Absent, before}

\* Without a whole record in the journal the outcome is decided.
DecidedInv == ~touched /\ jrn \in {"none", "torn"} => Decided

\* With one, the previous report is somewhere, and its absence is kept until the
\* staged report has been moved into place.
KeptInv ==
  ~touched /\ Journaled =>
    IF existed
    THEN /\ target = before \/ backup = before \/ (committed /\ target \in Reports)
         /\ phase \in Untouched /\ backup = Absent => target = before
    ELSE target = Absent \/ (phase \in {"Installing", "Installed"} /\ staged = Absent)

\* What recovery needs of a destination that existed.
Undoable ==
  /\ backup = Absent =>
       /\ phase \notin {"BackedUp", "Installing", "Installed"}
       /\ phase = "Restoring" => target = before
       /\ phase \in {"Restoring", "Restored"} => original = before
  /\ backup # Absent => original = before /\ phase \notin {"Prepared", "Restored"}

UndoableInv ==
  ~touched /\ txn /\ existed /\ jrn = "whole" =>
    Undoable \/ cut \/ \E p \in Procs : pc[p] = "cleanup"

\* Before the journal is written.
StageInv(p) ==
  /\ pc[p] = "prepare" => ~txn
  /\ pc[p] \in {"stage", "manifest"} =>
       /\ txn /\ jrn = "none" /\ ~cut /\ backup = Absent /\ original = Absent
       /\ staged = IF pc[p] = "stage" THEN Absent ELSE DryRun(ver)
       /\ touched \/ target = before

Publishing == {"guard", "publish", "restage", "snapshot", "BackingUp", "backup", "BackedUp",
               "Installing", "check", "install", "Installed"}

\* The phase that the journal of a publication has at each label.
PhaseAt(label) ==
  CASE label \in {"guard", "publish", "restage", "snapshot", "BackingUp"} -> "Prepared"
    [] label \in {"backup", "BackedUp"} -> "BackingUp"
    [] label = "Installing" -> "BackedUp"
    [] label \in {"check", "install", "Installed"} -> "Installing"

\* The destination and its backup while the staged report is published.
PublishInv(p) ==
  pc[p] \in Publishing =>
    /\ txn /\ jrn = "whole" /\ ~tail /\ ~cut /\ phase = PhaseAt(pc[p])
    /\ pc[p] = "guard" => staged = DryRun(ver)
    /\ pc[p] \in {"snapshot", "backup"} => existed
    /\ pc[p] \notin {"guard", "publish", "restage", "Installed"} => staged = FinalReport
    /\ pc[p] \in {"guard", "publish", "restage", "snapshot", "BackingUp", "backup"} =>
         backup = Absent /\ (touched \/ target = before)
    /\ pc[p] \in {"BackingUp", "backup"} => touched \/ original = before
    /\ pc[p] \in {"BackedUp", "Installing", "check", "install"} =>
         touched \/ (target = Absent /\ backup = before /\ original = before)
    /\ pc[p] = "Installed" =>
         /\ staged = Absent
         /\ touched \/ (target = FinalReport /\ backup = before /\ original = before)

\* The journal, the backup and the destination while recovery undoes.
UndoInv(p) ==
  /\ pc[p] \notin {"idle", "cleanup"} => mode[p] # "commit"
  /\ pc[p] \in {"Restoring", "restore", "finish", "Restored"} => existed
  /\ pc[p] = "unreplace" /\ ~existed => jrn = "whole"
  /\ pc[p] \in {"Restoring", "unreplace", "restore", "finish", "Restored"} => Journaled
  /\ pc[p] = "Restoring" => phase \notin {"Prepared", "Restoring", "Restored"}
  /\ pc[p] \in {"restore", "finish", "Restored"} => phase = "Restoring"
  /\ pc[p] = "unreplace" /\ existed => phase = "Restoring"
  /\ pc[p] \in {"Restoring", "unreplace", "restore"} =>
       touched \/ (backup = before /\ original = before)
  /\ pc[p] \in {"finish", "Restored"} =>
       backup = Absent /\ (touched \/ (target = before /\ original = before))

\* A removal begins when the outcome is decided, and only that of an installed
\* report takes a backup away that the journal asks for.
CleanupInv(p) ==
  pc[p] = "cleanup" =>
    /\ touched \/ Decided
    /\ mode[p] = "commit" => committed /\ (touched \/ target = FinalReport)
    /\ existed /\ Journaled =>
         IF mode[p] = "commit" THEN phase = "Installed" ELSE backup = Absent

\* The inductive invariant: with it every step keeps the safety properties.
IInv ==
  /\ LockInv /\ DiskInv /\ BackupInv /\ DecidedInv /\ KeptInv /\ UndoableInv
  /\ \A p \in Procs : StageInv(p) /\ PublishInv(p) /\ UndoInv(p) /\ CleanupInv(p)
=============================================================================
