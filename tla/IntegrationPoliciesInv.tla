------------------------ MODULE IntegrationPoliciesInv ------------------------
(***************************************************************************)
(* The inductive invariant of IntegrationPolicies: what a command knows at *)
(* each point of planning and of a row.  What others changed since the     *)
(* command last looked is in `raced`; of the rest what it has read is      *)
(* still so, and a snapshot of a parent is the one that was shown with     *)
(* what the rows before did to it.                                         *)
(***************************************************************************)
EXTENDS IntegrationPolicies

Rows == [id : Ids \cup {0}, applied : BOOLEAN, bad : BOOLEAN, observed : Version \cup {Unread}]
Seens ==
  [policies : [Ids -> Policy \cup {None, Unread}], owners : [Ids -> (SUBSET Ids) \cup {Unread}],
   parents : [Parents -> Snapshots \cup {Unread}], packages : [Packages -> Version \cup {Unread}]]
Reports ==
  [succeeded : SUBSET Ids, unchanged : SUBSET Ids, failed : SUBSET Ids, applied : SUBSET Ids,
   affected : SUBSET (Parents \X Agents), installs : SUBSET Packages]

Planning == pc \in {"existing", "names", "parents", "packages", "planned"}
Rechecking == pc \in {"object", "owner", "parent", "write"}
Checking == pc \in {"observe", "verify", "verifyPackage"}
Applying == pc = "row" \/ Rechecking \/ Checking
Labels ==
  {"idle", "existing", "names", "parents", "packages", "planned", "row", "object", "owner",
   "parent", "write", "observe", "verify", "verifyPackage"}

\* What TypeOK says, and the shapes of what it leaves out.
ShapeInv ==
  /\ fleet \in FleetState
  /\ cmd.op \in {"none", "import", "delete"} /\ cmd.file \in File
  /\ seen \in Seens /\ shown \in Seens /\ row \in Rows /\ report \in Reports
  /\ rows \subseteq Ids /\ blocked \subseteq Packages /\ lost \subseteq Ids
  /\ todo \subseteq Nat \X Nat
  /\ pc \in Labels /\ outcome \in {"none", "err", "refused", "dry", "done"}
  /\ edits \in Nat

\* Before the first row nothing is under way; an idle command has forgotten all.
FreshInv ==
  /\ pc = "idle" \/ Planning => row = NoRow /\ blocked = {} /\ lost = {}
  /\ pc = "idle" => seen = NothingSeen
  /\ Planning => report = EmptyReport

\* The file is one that was offered; every policy it names is read before anything
\* else, and the plan fits the flags.
PoliciesInv ==
  /\ pc # "idle" => cmd.op \in {"import", "delete"} /\ cmd.file \in Files
  /\ pc = "existing" =>
       /\ todo \subseteq Wanted \X {0}
       /\ \A i \in Wanted : <<i, 0>> \in todo \/ seen.policies[i] \in Policy \cup {None}
  /\ pc \notin {"idle", "existing"} =>
       Planable /\ \A i \in Wanted : seen.policies[i] \in Policy \cup {None}

OwnersInv ==
  Import /\ (pc \in {"packages", "planned"} \/ Applying) => \A i \in Targets : OwnersMatch(i)

\* One target's view of a parent, as validate_import_plan wants it.
ReadWell(i, p) ==
  /\ seen.parents[p] # Unread /\ seen.parents[p].portable
  /\ p \in CurrentParents(i) => i \in seen.parents[p].attached

ParentsInv ==
  /\ pc \in {"existing", "names"} => seen.parents = NothingSeen.parents
  /\ pc = "parents" =>
       /\ todo \subseteq ParentReads
       /\ \A a \in ParentReads \ todo : ReadWell(a[1], a[2])
  /\ pc \in {"packages", "planned"} => \A a \in ParentReads : ReadWell(a[1], a[2])

PackageRead(i) ==
  \/ seen.packages[PackageOf(i)] = "exact"
  \/ seen.packages[PackageOf(i)] = None /\ ~Exists(i)

PackagesInv ==
  /\ pc \in {"existing", "names", "parents"} => seen.packages = NothingSeen.packages
  /\ pc = "packages" =>
       /\ todo \subseteq {<<PackageOf(i), 0>> : i \in Targets}
       /\ \A i \in Targets : <<PackageOf(i), 0>> \in todo \/ PackageRead(i)
  /\ pc = "planned" \/ Applying => \A i \in Targets : PackageRead(i)
  /\ pc \in {"packages", "planned"} =>
       \A k \in Packages :
         \/ seen.packages[k] = Unread \/ <<"package", k>> \in raced
         \/ seen.packages[k] = fleet.packages[k]

\* The rows that wrote, the one at hand included.
Ours == Mine \cup (IF row.applied THEN {row.id} ELSE {})

ShownInv ==
  /\ pc = "planned" => shown = seen
  /\ Applying =>
       /\ \A i \in Targets : \A p \in ParentsOf(i) : shown.parents[p] # Unread
       /\ \A p \in Parents : shown.parents[p] # Unread =>
            /\ seen.parents[p] # Unread /\ seen.parents[p].agents = shown.parents[p].agents
            /\ \A j \in Ids :
                 IF j \in Ours /\ p \in ParentsOf(j)
                 THEN j \in Uncertain \/ (j \in seen.parents[p].attached <=> p \in DesiredParents(j))
                 ELSE j \in seen.parents[p].attached <=> j \in shown.parents[p].attached
       /\ \A k \in Packages :
            \/ seen.packages[k] = shown.packages[k]
            \/ shown.packages[k] = None /\ seen.packages[k] = "exact" /\ k \in report.installs

RowInv ==
  /\ Applying => rows \subseteq Targets
  /\ pc = "row" => row = NoRow
  /\ Rechecking \/ Checking => row.id \in Targets \ rows
  /\ Rechecking => ~row.applied
  /\ Rechecking \/ pc \in {"observe", "verifyPackage"} => row.observed = Unread
  /\ pc \in {"verify", "verifyPackage"} => row.applied
  /\ pc = "owner" \/ Checking => Import
  /\ pc = "observe" => MustObserve(row.id)

\* What a row has looked at is as the command saw it, save what others did since.
RecheckInv ==
  /\ pc \in {"owner", "parent", "write"} =>
       <<"policy", row.id>> \in raced \/ fleet.policies[row.id] = seen.policies[row.id]
  /\ pc = "parent" => todo \subseteq {<<row.id, p>> : p \in ParentsOf(row.id)}
  /\ pc \in {"parent", "write"} =>
       \A p \in ParentsOf(row.id) :
         \/ pc = "parent" /\ <<row.id, p>> \in todo
         \/ <<"parent", p>> \in raced \/ Snapshot(p) = seen.parents[p]
  /\ pc = "write" =>
       \/ <<"package", PackageOf(row.id)>> \in raced
       \/ fleet.packages[PackageOf(row.id)] = seen.packages[PackageOf(row.id)]

\* The same of what it has verified after its write.
VerifyInv ==
  /\ pc = "verify" /\ row.observed = "exact" =>
       \/ <<"package", PackageOf(row.id)>> \in raced
       \/ fleet.packages[PackageOf(row.id)] = "exact"
  /\ pc = "verifyPackage" /\ ~row.bad =>
       <<"policy", row.id>> \in raced \/ fleet.policies[row.id] = cmd.file[row.id]

\* A package that was to be installed, and now is, is known to be.
InstallsInv ==
  /\ Applying =>
       \A k \in Packages : shown.packages[k] = None /\ fleet.packages[k] = "exact" =>
         \/ k \in report.installs \cup blocked \/ <<"package", k>> \in raced
         \/ pc = "observe" /\ k = PackageOf(row.id)
  /\ pc \in {"verify", "verifyPackage"} /\ row.observed = Unread =>
       \/ shown.packages[PackageOf(row.id)] # None
       \/ PackageOf(row.id) \in report.installs \cup blocked

\* Where nobody else wrote and nothing failed: what was read is so, and what is
\* about to be written is still to be written.
CleanInv ==
  clean /\ pc # "idle" =>
    /\ report.failed = {} /\ report.applied = {} /\ blocked = {} /\ ~row.bad
    /\ \A p \in Parents : seen.parents[p] # Unread => seen.parents[p] = Snapshot(p)
    /\ \A k \in Packages : seen.packages[k] # Unread =>
         \/ seen.packages[k] = fleet.packages[k]
         \/ pc = "observe" /\ k = PackageOf(row.id)
    /\ \A i \in Ids :
         \/ seen.policies[i] = Unread \/ seen.policies[i] = fleet.policies[i]
         \/ Applying /\ i \notin rows \cup (IF Rechecking THEN {row.id} ELSE {})
    /\ Import /\ pc \notin {"existing", "names"} =>
         \A i \in Targets :
           \/ seen.owners[i] = Owners(cmd.file[i].name)
           \/ Applying /\ i \notin rows \cup (IF Rechecking THEN {row.id} ELSE {})
    /\ Checking => row.applied /\ fleet.policies[row.id] = cmd.file[row.id]
    /\ Checking => fleet.packages[PackageOf(row.id)] = "exact"
    /\ Checking => row.observed \in {Unread, "exact"}

IInv ==
  /\ ShapeInv /\ FreshInv /\ PoliciesInv /\ OwnersInv /\ ParentsInv /\ PackagesInv
  /\ ShownInv /\ RowInv /\ RecheckInv /\ VerifyInv /\ InstallsInv /\ CleanInv
  /\ PlanIsValid /\ OwnWritesAreExpected
=============================================================================
