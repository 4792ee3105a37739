------------------------ MODULE PullTransactionInv ------------------------
(***************************************************************************)
(* The inductive invariant behind the safety properties of PullTransaction.*)
(* It describes the disk by what the journal says: without a whole journal *)
(* the mirror is already old or new; with one, undoing leads back to the   *)
(* old mirror, until a commit starts to discard what undoing needs.        *)
(***************************************************************************)
EXTENDS PullTransaction

Replacing == Appending \cup {"backup", "check", "install"}

AllOld == \A f \in Ours : target[f] = before[f]
AllNew == \A f \in Ours : target[f] = ver
NoBackups == \A f \in Files : backup[f] = Absent
Undoable == \A f \in Ours : RecoverView(f) = before[f]
Committing(p) == pc[p] = "cleanup" /\ mode[p] = "commit"

\* What the transaction directory can hold.
DiskInv ==
  /\ ~txn => jrn = "none" /\ staged = {} /\ NoBackups
  /\ jrn # "corrupt"
  /\ tail => jrn = "whole"
  /\ existed \subseteq entries /\ staged \subseteq entries
  /\ \A f \in Files \ existed : backup[f] = Absent
  /\ \A f \in entries : f \in existed <=> before[f] # Absent

\* The previous bytes are in the backup, or the path holds old or new bytes.
BackupInv ==
  \A f \in Ours \cap existed :
    IF backup[f] = Absent THEN target[f] \in {before[f], ver} \ {Absent}
    ELSE backup[f] = before[f]

\* Without a whole journal the outcome is decided.
DecidedInv ==
  jrn # "whole" => (jrn = "none" /\ AllNew) \/ (NoBackups /\ (AllOld \/ cut))

\* With one, undoing restores the previous mirror unless a commit began.
UndoableInv ==
  jrn = "whole" => \/ Undoable
                   \/ cut
                   \/ gone # {} /\ \E p \in Procs : Committing(p)

CutInv == cut \/ gone # {} => staged = {}

StageInv(p) ==
  /\ pc[p] = "fetch" => ~txn /\ mode[p] = "start"
  /\ pc[p] = "stage" =>
       /\ txn /\ jrn = "none" /\ NoBackups /\ AllOld
       /\ ~cut /\ gone = {}
       /\ todo[p] \subseteq entries /\ staged = entries \ todo[p]

\* The entry replace_one is working on, at each label.
EntryInv(p, f) ==
  /\ pc[p] = "BackingUp" => phase[f] = "Prepared"
  /\ pc[p] \in {"backup", "BackedUp"} => phase[f] = "BackingUp"
  /\ pc[p] = "Installing" => phase[f] = "BackedUp"
  /\ pc[p] \in {"check", "install", "Installed"} => phase[f] = "Installing"
  /\ pc[p] \in {"BackingUp", "backup"} => backup[f] = Absent
  /\ pc[p] \notin {"BackingUp", "backup"} /\ f \in existed => backup[f] # Absent
  /\ pc[p] # "Installed" => f \in staged
  /\ pc[p] = "Installed" => f \notin staged /\ (f \in Ours => target[f] = ver)

ReplaceInv(p) ==
  pc[p] \in Replacing =>
    /\ txn /\ jrn = "whole" /\ ~tail /\ ~cut /\ gone = {}
    /\ todo[p] \subseteq entries
    /\ \A f \in entries \ todo[p] :
         phase[f] = "Installed" /\ f \notin staged /\ (f \in Ours => target[f] = ver)
    /\ \A f \in todo[p] :
         IF Next1(p, f) THEN EntryInv(p, f)
         ELSE phase[f] = "Prepared" /\ f \in staged /\ backup[f] = Absent

\* Entries whose rollback is done need no more undoing.
UndoInv(p) ==
  /\ pc[p] \in {"recover", "undo"} => mode[p] # "commit"
  /\ pc[p] = "undo" =>
       /\ jrn = "whole" /\ todo[p] \subseteq entries
       /\ p \notin failed => \A f \in entries \ todo[p] :
            ~HasBackup(f) /\ (f \in Ours => RecoverView(f) = target[f])

CleanupInv(p) ==
  /\ Committing(p) => AllNew /\ staged = {}
  /\ pc[p] = "cleanup" /\ mode[p] # "commit" /\ jrn = "whole" =>
       NoBackups /\ \A f \in Ours : RecoverView(f) = target[f]

\* The inductive invariant: with it every step keeps the safety properties.
IInv ==
  /\ LockInv /\ DiskInv /\ BackupInv /\ DecidedInv /\ UndoableInv /\ CutInv
  /\ \A p \in Procs : StageInv(p) /\ ReplaceInv(p) /\ UndoInv(p) /\ CleanupInv(p)
=============================================================================
