------------------------ MODULE IntegrationPolicies ------------------------
(***************************************************************************)
(* `fleet integration-policies import` and `delete`                        *)
(* (crates/elasticctl-api/src/fleet/integration_policy_ops.rs).  A command *)
(* reads the policies of its file, who owns their names, the agent         *)
(* policies they attach to and the packages they need, plans, shows the    *)
(* plan, and applies it row by row.  Fleet has no conditional write, so a  *)
(* row repeats those reads before its write and compares them with what    *)
(* was shown, allowing for what the earlier rows of the command did.       *)
(*                                                                         *)
(* A policy file is validated offline: names are unique and a package has  *)
(* one version.  Package metadata, secrets, namespaces and the fields that *)
(* normalisation drops or refuses are abstracted to whether a parent is    *)
(* portable; a delete selects by id.                                       *)
(***************************************************************************)
EXTENDS Naturals

CONSTANTS
  Ids,        \* integration policies, in id order
  Parents,    \* agent policies
  Packages,   \* packages
  Names,      \* policy names
  Bodies,     \* what else a policy says
  Agents,     \* numbers of enrolled agents
  Files,      \* artifacts: the policy of each id, or None
  Fleets,     \* what Fleet may hold at first
  Foreign,    \* policies other clients write
  None,       \* no such policy, no version installed
  Unread,     \* not read yet
  MaxEdits,   \* bound on changes by other clients
  MaxFaults   \* bound on requests that fail

Policy == [name : Names, parents : (SUBSET Parents) \ {{}}, package : Packages, body : Bodies]
\* platform_owned, is_protected and a foreign namespace make a parent unportable
Parent == [agents : Agents, portable : BOOLEAN]
\* The version the file asks for, or another
Version == {"exact", "other", None}
FleetState == [policies : [Ids -> Policy \cup {None}],
               parents : [Parents -> Parent], packages : [Packages -> Version]]
File == [Ids -> Policy \cup {None}]
\* What a command reads of an agent policy
Snapshots == [agents : Agents, portable : BOOLEAN, attached : SUBSET Ids]

ASSUME KeysAreOrdered == Ids \cup Parents \cup Packages \subseteq Nat \ {0}
ASSUME FilesAreFiles == Files \subseteq File
ASSUME FleetsAreFleets == Fleets \subseteq FleetState
ASSUME ForeignArePolicies == Foreign \subseteq Policy
ASSUME CountsAreNat == Agents \subseteq Nat /\ MaxEdits \in Nat /\ MaxFaults \in Nat
ASSUME MarkersDiffer ==
  /\ None # Unread
  /\ \A marker \in {None, Unread} : marker \notin {"exact", "other"} \cup Policy \cup Snapshots

VARIABLES
  fleet,    \* the stack
  pc,
  cmd,      \* the command: its operation, file, --overwrite and --skip-existing
  seen,     \* what planning read, and what the rows expect
  todo,     \* reads left
  rows,     \* targets left
  row,      \* the row at hand
  blocked,  \* packages that failed a row
  report,
  outcome,  \* how the last command ended
  \* history and bounds
  shown,    \* the parents and packages of the preview
  raced,    \* what others changed since the command last read it
  clean,    \* nobody changed anything and nothing failed since the command began
  lost,     \* policies written by a request whose answer was lost
  edits, faults

stepVars == <<cmd, todo, rows, row>>
vars == <<fleet, pc, stepVars, seen, blocked, report, outcome, shown, raced, clean, lost,
          edits, faults>>

Existing(f) == {x \in DOMAIN f : f[x] # None}

\* A file names no two policies alike.
ASSUME NamesAreUnique ==
  \A f \in Files : \A i, j \in Existing(f) : f[i].name = f[j].name => i = j

Attached(p) == {i \in Existing(fleet.policies) : p \in fleet.policies[i].parents}
Owners(name) == {i \in Existing(fleet.policies) : fleet.policies[i].name = name}

\* read_parent_snapshot
Snapshot(p) == [agents |-> fleet.parents[p].agents, portable |-> fleet.parents[p].portable,
                attached |-> Attached(p)]

\* Reads are pairs, the least is made first.
First(S) == CHOOSE a \in S : \A b \in S : a[1] < b[1] \/ (a[1] = b[1] /\ a[2] <= b[2])
Least(S) == CHOOSE i \in S : \A j \in S : i <= j

NoRow == [id |-> 0, applied |-> FALSE, bad |-> FALSE, observed |-> Unread]
NoCommand == [op |-> "none", file |-> [i \in Ids |-> None], overwrite |-> FALSE, skip |-> FALSE]
NothingSeen == [policies |-> [i \in Ids |-> Unread], owners |-> [i \in Ids |-> Unread],
                parents |-> [p \in Parents |-> Unread], packages |-> [k \in Packages |-> Unread]]
EmptyReport == [succeeded |-> {}, unchanged |-> {}, failed |-> {}, applied |-> {},
                affected |-> {}, installs |-> {}]

Init ==
  /\ fleet \in Fleets
  /\ pc = "idle" /\ cmd = NoCommand /\ seen = NothingSeen
  /\ todo = {} /\ rows = {} /\ row = NoRow /\ blocked = {}
  /\ report = EmptyReport /\ outcome = "none"
  /\ shown = NothingSeen /\ raced = {} /\ clean = TRUE /\ lost = {} /\ edits = 0 /\ faults = 0

-----------------------------------------------------------------------------
(* What the steps share.                                                   *)

Fault == faults < MaxFaults /\ faults' = faults + 1 /\ clean' = FALSE
NoFault == UNCHANGED <<faults, clean>>

Return(result) ==
  /\ pc' = "idle" /\ outcome' = result
  /\ cmd' = NoCommand /\ seen' = NothingSeen /\ todo' = {} /\ rows' = {} /\ row' = NoRow
  /\ blocked' = {} /\ shown' = NothingSeen /\ raced' = {} /\ lost' = {}

Refuse == Return("refused") /\ UNCHANGED report

Import == cmd.op = "import"
Wanted == Existing(cmd.file)
Targets == {i \in Wanted : ~(cmd.skip /\ seen.policies[i] # None)}
Exists(i) == seen.policies[i] # None
PackageOf(i) == IF Import THEN cmd.file[i].package ELSE seen.policies[i].package

\* A row concerns the parents the policy has and those it will have.
CurrentParents(i) == IF Exists(i) THEN seen.policies[i].parents ELSE {}
DesiredParents(i) == IF Import THEN cmd.file[i].parents ELSE {}
ParentsOf(i) == CurrentParents(i) \cup DesiredParents(i)

-----------------------------------------------------------------------------
(* Planning: nothing is written.                                           *)

Start(op, file, overwrite, skip) ==
  /\ pc = "idle" /\ Existing(file) # {}
  /\ ~(overwrite /\ skip) /\ (op = "delete" => ~overwrite /\ ~skip)
  /\ cmd' = [op |-> op, file |-> file, overwrite |-> overwrite, skip |-> skip]
  /\ todo' = {<<i, 0>> : i \in Existing(file)}
  /\ pc' = "existing" /\ outcome' = "none" /\ report' = EmptyReport /\ clean' = TRUE
  /\ UNCHANGED <<fleet, seen, rows, row, blocked, shown, raced, lost, edits, faults>>

ReadExisting ==
  /\ pc = "existing" /\ todo # {}
  /\ LET a == First(todo) IN
       /\ seen' = [seen EXCEPT !.policies[a[1]] = fleet.policies[a[1]]]
       /\ todo' = todo \ {a}
  /\ UNCHANGED <<fleet, pc, cmd, rows, row, blocked, report, outcome, shown, raced, clean, lost,
                 edits, faults>>

\* What exists needs a flag, and keeps its package.
Planable ==
  IF Import
  THEN /\ cmd.overwrite \/ cmd.skip \/ \A i \in Wanted : ~Exists(i)
       /\ \A i \in Targets : Exists(i) => seen.policies[i].package = cmd.file[i].package
  ELSE \A i \in Wanted : Exists(i)

ParentReads == {a \in Targets \X Parents : a[2] \in ParentsOf(a[1])}

ExistingRead ==
  /\ pc = "existing" /\ todo = {}
  /\ IF ~Planable THEN Refuse
     ELSE /\ pc' = IF Import THEN "names" ELSE "parents"
          /\ todo' = IF Import THEN {} ELSE ParentReads
          /\ UNCHANGED <<cmd, seen, rows, row, blocked, report, outcome, shown, raced, lost>>
  /\ UNCHANGED <<fleet, edits>> /\ NoFault

\* One list of all policies; a name of the file that another id owns is a conflict,
\* also when its policy will be skipped.
ReadNames ==
  /\ pc = "names"
  /\ LET owners(i) == Owners(cmd.file[i].name) IN
       IF \E i \in Wanted : ~(owners(i) \subseteq {i}) THEN Refuse
       ELSE /\ seen' = [seen EXCEPT !.owners =
                          [i \in Ids |-> IF i \in Wanted THEN owners(i) ELSE Unread]]
            /\ todo' = ParentReads /\ pc' = "parents"
            /\ UNCHANGED <<cmd, rows, row, blocked, report, outcome, shown, raced, lost>>
  /\ UNCHANGED <<fleet, edits>> /\ NoFault

AlwaysAgrees(p) == TRUE
\* A parent that another target read before must not have changed.
SharedAgrees(p) == seen.parents[p] \in {Unread, Snapshot(p)}

ReadParent ==
  /\ pc = "parents" /\ todo # {}
  /\ LET a == First(todo)
         i == a[1]
         p == a[2] IN
       IF /\ p \in CurrentParents(i) => i \in Attached(p)
          /\ SharedAgrees(p) /\ fleet.parents[p].portable
       THEN /\ seen' = [seen EXCEPT !.parents[p] = Snapshot(p)]
            /\ todo' = todo \ {a}
            /\ UNCHANGED <<pc, cmd, rows, row, blocked, report, outcome, shown, raced, lost>>
       ELSE Refuse
  /\ UNCHANGED <<fleet, edits>> /\ NoFault

\* target_name_owners_match
OwnersMatch(i) ==
  seen.owners[i] = IF Exists(i) /\ seen.policies[i].name = cmd.file[i].name THEN {i} ELSE {}

ParentsRead ==
  /\ pc = "parents" /\ todo = {}
  /\ IF Import /\ ~(\A i \in Targets : OwnersMatch(i)) THEN Refuse
     ELSE /\ todo' = {<<PackageOf(i), 0>> : i \in Targets} /\ pc' = "packages"
          /\ UNCHANGED <<cmd, seen, rows, row, blocked, report, outcome, shown, raced, lost>>
  /\ UNCHANGED <<fleet, edits>> /\ NoFault

ReadPackage ==
  /\ pc = "packages" /\ todo # {}
  /\ LET a == First(todo)
         k == a[1]
         version == fleet.packages[k] IN
       IF \/ version = "other"
          \/ version = None /\ \E i \in Targets : Exists(i) /\ PackageOf(i) = k
       THEN Refuse
       ELSE /\ seen' = [seen EXCEPT !.packages[k] = version]
            /\ todo' = todo \ {a}
            /\ UNCHANGED <<pc, cmd, rows, row, blocked, report, outcome, shown, raced, lost>>
  /\ UNCHANGED <<fleet, edits>> /\ NoFault

Planned ==
  /\ pc = "packages" /\ todo = {}
  /\ pc' = "planned" /\ shown' = seen
  /\ UNCHANGED <<fleet, stepVars, seen, blocked, report, outcome, raced, clean, lost, edits, faults>>

PlanningFails ==
  /\ pc \in {"existing", "names", "parents", "packages"} /\ Fault
  /\ Return("err")
  /\ UNCHANGED <<fleet, report, edits>>

\* Without --yes the preview is all.
Confirm ==
  /\ pc = "planned"
  /\ \/ Return("dry") /\ UNCHANGED report
     \/ /\ pc' = "row" /\ rows' = Targets
        /\ UNCHANGED <<cmd, seen, todo, row, blocked, report, outcome, shown, raced, lost>>
  /\ UNCHANGED <<fleet, edits>> /\ NoFault

-----------------------------------------------------------------------------
(* Applying: the rows in id order.                                         *)

NextRow(result) ==
  /\ report' = result /\ pc' = "row" /\ row' = NoRow /\ todo' = {}
RowFails == NextRow([report EXCEPT !.failed = @ \cup {row.id}])

\* The row is at its next read, which may fail.
Reread(things) == raced' = raced \ things

BeginRow ==
  /\ pc = "row" /\ rows # {}
  /\ LET i == Least(rows) IN
       /\ rows' = rows \ {i}
       /\ IF PackageOf(i) \in blocked
          THEN NextRow([report EXCEPT !.failed = @ \cup {i}])
          ELSE pc' = "object" /\ row' = [NoRow EXCEPT !.id = i] /\ UNCHANGED <<report, todo>>
  /\ UNCHANGED <<fleet, cmd, seen, blocked, outcome, shown, raced, clean, lost, edits, faults>>

RowsDone ==
  /\ pc = "row" /\ rows = {}
  /\ Return("done")
  /\ UNCHANGED <<fleet, report, clean, edits, faults>>

\* recheck_import_object
RecheckObject ==
  /\ pc = "object" /\ Reread({<<"policy", row.id>>})
  /\ IF fleet.policies[row.id] = seen.policies[row.id]
     THEN /\ pc' = IF Import THEN "owner" ELSE "parent"
          /\ todo' = IF Import THEN {} ELSE {<<row.id, p>> : p \in ParentsOf(row.id)}
          /\ UNCHANGED <<row, report>>
     ELSE RowFails
  /\ UNCHANGED <<fleet, cmd, rows, seen, blocked, outcome, shown, clean, lost, edits, faults>>

\* recheck_import_name_owner
RecheckOwner ==
  /\ pc = "owner"
  /\ IF Owners(cmd.file[row.id].name) = seen.owners[row.id]
     THEN /\ pc' = "parent" /\ todo' = {<<row.id, p>> : p \in ParentsOf(row.id)}
          /\ UNCHANGED <<row, report>>
     ELSE RowFails
  /\ UNCHANGED <<fleet, cmd, rows, seen, blocked, outcome, shown, raced, clean, lost, edits, faults>>

SameCount(p) == Snapshot(p).agents = seen.parents[p].agents
SameParent(p) == Snapshot(p) = seen.parents[p]

RecheckParent ==
  /\ pc = "parent" /\ todo # {}
  /\ LET a == First(todo)
         p == a[2] IN
       /\ Reread({<<"parent", p>>})
       /\ IF SameParent(p) THEN todo' = todo \ {a} /\ UNCHANGED <<pc, row, report>>
          ELSE RowFails
  /\ UNCHANGED <<fleet, cmd, rows, seen, blocked, outcome, shown, clean, lost, edits, faults>>

Unchanged(i) == Import /\ seen.policies[i] = cmd.file[i]
Block(i) == IF Import THEN blocked \cup {PackageOf(i)} ELSE blocked

AnyPackage(k) == TRUE
SamePackage(k) == fleet.packages[k] = seen.packages[k]

RecheckPackage ==
  /\ pc = "parent" /\ todo = {}
  /\ LET i == row.id
         k == PackageOf(i) IN
       /\ Reread({<<"package", k>>})
       /\ IF ~SamePackage(k) THEN RowFails /\ blocked' = Block(i)
          ELSE /\ IF Unchanged(i)
                  THEN NextRow([report EXCEPT !.unchanged = @ \cup {i}])
                  ELSE pc' = "write" /\ UNCHANGED <<row, todo, report>>
               /\ UNCHANGED blocked
  /\ UNCHANGED <<fleet, cmd, rows, seen, outcome, shown, clean, lost, edits, faults>>

\* A failed recheck is the row's, and a failed package read is the package's too.
RecheckFails ==
  /\ pc \in {"object", "owner", "parent"} /\ Fault
  /\ RowFails
  /\ blocked' = IF pc = "parent" /\ todo = {} THEN Block(row.id) ELSE blocked
  /\ UNCHANGED <<fleet, cmd, rows, seen, outcome, shown, raced, lost, edits>>

\* Fleet: names are unique, an update or delete needs the policy.  A create
\* installs the package first, and may go no further.
Creates(i) == Import /\ ~Exists(i)
Accepts(i) ==
  /\ (fleet.policies[i] = None) = Creates(i)
  /\ Import => Owners(cmd.file[i].name) \subseteq {i}

Stored(policy, i) ==
  [fleet EXCEPT !.policies[i] = policy,
     !.packages = [k \in Packages |->
        IF Creates(i) /\ k = PackageOf(i) /\ @[k] = None THEN "exact" ELSE @[k]]]
Written(i) == Stored(IF Import THEN cmd.file[i] ELSE None, i)
OnlyInstalled(i) == Stored(fleet.policies[i], i)

\* record_affected_parents: a parent counts once, with the agents that were shown.
AddDesired(i) == report.affected \cup {<<p, seen.parents[p].agents>> : p \in DesiredParents(i)}
CountTwice(i) ==
  report.affected \cup {<<p, seen.parents[p].agents + n>> :
                          p \in ParentsOf(i), n \in {0} \cup {a[2] : a \in report.affected}}
Affected(i) == report.affected \cup {<<p, seen.parents[p].agents>> : p \in ParentsOf(i)}

\* advance_parent_snapshots
AdvanceAdding(i) ==
  [p \in Parents |->
     IF p \in DesiredParents(i) THEN [seen.parents[p] EXCEPT !.attached = @ \cup {i}]
     ELSE seen.parents[p]]
Advance(i) ==
  [p \in Parents |->
     CASE p \in DesiredParents(i) -> [seen.parents[p] EXCEPT !.attached = @ \cup {i}]
       [] p \in CurrentParents(i) \ DesiredParents(i) ->
            [seen.parents[p] EXCEPT !.attached = @ \ {i}]
       [] OTHER -> seen.parents[p]]

\* After the write: a package that was to be installed is looked at in any case,
\* a stored policy is verified, a delete is not.
MustObserve(i) == Creates(i) /\ seen.packages[PackageOf(i)] = None
AfterAnswer(i) ==
  IF MustObserve(i) THEN "observe" ELSE "verify"

WriteAnswered ==
  /\ pc = "write"
  /\ LET i == row.id IN
       /\ Accepts(i)
       /\ \/ fleet' = Written(i) /\ NoFault
          \/ /\ Import /\ Fault   \* the server stores something else
             /\ \E body \in Bodies \ {cmd.file[i].body} :
                  fleet' = Stored([cmd.file[i] EXCEPT !.body = body], i)
       /\ seen' = [seen EXCEPT !.parents = Advance(i)]
       /\ IF Import
          THEN /\ row' = [row EXCEPT !.applied = TRUE] /\ pc' = AfterAnswer(i)
               /\ report' = [report EXCEPT !.affected = Affected(i)]
               /\ UNCHANGED todo
          ELSE NextRow([report EXCEPT !.affected = Affected(i), !.succeeded = @ \cup {i}])
  /\ UNCHANGED <<cmd, rows, blocked, outcome, shown, raced, lost, edits>>

\* Refused; or failed with or without effect.  An error answer is followed by the
\* observation of the package, and then the row has failed.
WriteFails ==
  /\ pc = "write"
  /\ LET i == row.id IN
       /\ \/ /\ ~Accepts(i) /\ NoFault /\ UNCHANGED lost
             /\ fleet' \in {fleet, OnlyInstalled(i)}
          \/ /\ Fault /\ UNCHANGED lost
             /\ fleet' \in {fleet, OnlyInstalled(i)}
          \/ /\ Fault /\ Accepts(i)
             /\ fleet' = Written(i) /\ lost' = lost \cup {i}
       /\ IF MustObserve(i)
          THEN pc' = "observe" /\ row' = [row EXCEPT !.bad = TRUE] /\ UNCHANGED <<todo, report>>
          ELSE RowFails
  /\ UNCHANGED <<cmd, rows, seen, blocked, outcome, shown, raced, edits>>

\* A delete that answers success for another id was applied and has failed.
DeleteUnconfirmed ==
  /\ pc = "write" /\ ~Import /\ Accepts(row.id) /\ Fault
  /\ fleet' = Written(row.id)
  /\ NextRow([report EXCEPT !.applied = @ \cup {row.id}])
  /\ UNCHANGED <<cmd, rows, seen, blocked, outcome, shown, raced, lost, edits>>

\* The package after a create that was to install it.
NeverAdvanced(k, version) == seen.packages
PackageAfter(k, version) ==
  [seen.packages EXCEPT ![k] = IF version = "exact" THEN "exact" ELSE @]

Observe ==
  /\ pc = "observe"
  /\ LET k == PackageOf(row.id)
         version == fleet.packages[k]
         installs == IF version = "exact" THEN report.installs \cup {k} ELSE report.installs IN
       /\ seen' = [seen EXCEPT !.packages = PackageAfter(k, version)]
       /\ blocked' = IF version = "other" THEN blocked \cup {k} ELSE blocked
       /\ Reread({<<"package", k>>})
       /\ IF row.applied
          THEN /\ row' = [row EXCEPT !.observed = version, !.bad = (version = "other")]
               /\ pc' = "verify" /\ report' = [report EXCEPT !.installs = installs]
               /\ UNCHANGED todo
          ELSE NextRow([report EXCEPT !.installs = installs, !.failed = @ \cup {row.id}])
  /\ UNCHANGED <<fleet, cmd, rows, outcome, shown, clean, lost, edits, faults>>

ObserveFails ==
  /\ pc = "observe" /\ Fault
  /\ blocked' = blocked \cup {PackageOf(row.id)}
  /\ IF row.applied THEN /\ row' = [row EXCEPT !.bad = TRUE] /\ pc' = "verify"
                         /\ UNCHANGED <<todo, report>>
     ELSE RowFails
  /\ UNCHANGED <<fleet, cmd, rows, seen, outcome, shown, raced, lost, edits>>

FinishWell(bad) == NextRow([report EXCEPT !.succeeded = @ \cup {row.id}])
Finish(bad) ==
  NextRow(IF bad THEN [report EXCEPT !.applied = @ \cup {row.id}]
          ELSE [report EXCEPT !.succeeded = @ \cup {row.id}])

\* verify_import_stored, and the package if it has been read
VerifyWith(bad) ==
  LET k == PackageOf(row.id) IN
  IF row.observed = Unread
  THEN /\ pc' = "verifyPackage" /\ row' = [row EXCEPT !.bad = bad]
       /\ UNCHANGED <<todo, report, blocked>>
  ELSE /\ Finish(bad \/ row.observed # "exact")
       /\ blocked' = IF row.observed = "exact" THEN blocked ELSE blocked \cup {k}

VerifyStored ==
  /\ pc = "verify"
  /\ Reread({<<"policy", row.id>>})
  /\ VerifyWith(row.bad \/ fleet.policies[row.id] # cmd.file[row.id])
  /\ UNCHANGED <<fleet, cmd, rows, seen, outcome, shown, clean, lost, edits, faults>>

VerifyPackage ==
  /\ pc = "verifyPackage"
  /\ LET k == PackageOf(row.id)
         good == fleet.packages[k] = "exact" IN
       /\ Reread({<<"package", k>>})
       /\ Finish(row.bad \/ ~good)
       /\ blocked' = IF good THEN blocked ELSE blocked \cup {k}
  /\ UNCHANGED <<fleet, cmd, rows, seen, outcome, shown, clean, lost, edits, faults>>

VerifyFails ==
  /\ Fault
  /\ \/ pc = "verify" /\ VerifyWith(TRUE)
     \/ pc = "verifyPackage" /\ Finish(TRUE) /\ blocked' = blocked \cup {PackageOf(row.id)}
  /\ UNCHANGED <<fleet, cmd, rows, seen, outcome, shown, raced, lost, edits>>

-----------------------------------------------------------------------------
(* Other clients of Fleet.                                                 *)

ParentTags(policy) == IF policy = None THEN {} ELSE {<<"parent", p>> : p \in policy.parents}

ClientWritesPolicy(i, new) ==
  /\ new # fleet.policies[i]
  /\ new # None => Owners(new.name) \subseteq {i}
  /\ fleet' = [fleet EXCEPT !.policies[i] = new]
  /\ raced' = raced \cup {<<"policy", i>>} \cup ParentTags(new) \cup ParentTags(fleet.policies[i])

ClientChangesParent(p, new) ==
  /\ fleet' = [fleet EXCEPT !.parents[p] = new]
  /\ raced' = raced \cup {<<"parent", p>>}

ClientChangesPackage(k, version) ==
  /\ fleet' = [fleet EXCEPT !.packages[k] = version]
  /\ raced' = raced \cup {<<"package", k>>}

ClientEdits ==
  /\ pc # "idle" /\ edits < MaxEdits /\ edits' = edits + 1 /\ clean' = FALSE
  /\ \/ \E i \in Ids, new \in Foreign \cup {None} : ClientWritesPolicy(i, new)
     \/ \E p \in Parents, new \in Parent : ClientChangesParent(p, new)
     \/ \E k \in Packages, version \in Version : ClientChangesPackage(k, version)
  /\ UNCHANGED <<pc, stepVars, seen, blocked, report, outcome, shown, lost, faults>>

-----------------------------------------------------------------------------
Step ==
  \/ ReadExisting \/ ExistingRead \/ ReadNames \/ ReadParent \/ ParentsRead \/ ReadPackage
  \/ Planned \/ PlanningFails \/ Confirm
  \/ BeginRow \/ RowsDone \/ RecheckObject \/ RecheckOwner \/ RecheckParent \/ RecheckPackage
  \/ RecheckFails \/ WriteAnswered \/ WriteFails \/ DeleteUnconfirmed
  \/ Observe \/ ObserveFails \/ VerifyStored \/ VerifyPackage \/ VerifyFails

Next ==
  \/ \E op \in {"import", "delete"}, file \in Files, o, s \in BOOLEAN : Start(op, file, o, s)
  \/ Step
  \/ ClientEdits

Spec == Init /\ [][Next]_vars

-----------------------------------------------------------------------------
(* Properties.                                                             *)

\* Every variable has its type.
TypeOK ==
  /\ fleet \in FleetState
  /\ cmd.op \in {"none", "import", "delete"} /\ cmd.file \in File \cup {NoCommand.file}
  /\ seen.policies \in [Ids -> Policy \cup {None, Unread}]
  /\ seen.packages \in [Packages -> Version \cup {Unread}]
  /\ rows \subseteq Ids /\ row.id \in Ids \cup {0} /\ blocked \subseteq Packages
  /\ report.succeeded \cup report.unchanged \cup report.failed \cup report.applied \subseteq Ids
  /\ report.affected \subseteq Parents \X Agents /\ report.installs \subseteq Packages
  /\ outcome \in {"none", "err", "refused", "dry", "done"}

\* validate_import_plan and validate_delete_plan refuse what does not fit together.
\* A plan that planning made, from reads at different moments, is never refused.
PlanIsValid ==
  pc = "planned" =>
    \A i \in Targets :
      /\ Import => OwnersMatch(i) /\ (Exists(i) => cmd.overwrite)
      /\ \A p \in ParentsOf(i) : seen.parents[p] # Unread /\ seen.parents[p].portable
      /\ \A p \in CurrentParents(i) : i \in seen.parents[p].attached
      /\ seen.packages[PackageOf(i)] = "exact" \/ (seen.packages[PackageOf(i)] = None /\ ~Exists(i))

\* When nothing fails and nobody else writes, no row fails: what the earlier rows
\* did to shared parents and packages is not taken for somebody else's change.
OwnWritesAreExpected ==
  pc = "idle" /\ outcome = "done" /\ clean => report.failed \cup report.applied = {}

OwnStep == edits' = edits
Writes(i) == OwnStep /\ fleet'.policies[i] # fleet.policies[i]
Mine == report.succeeded \cup report.applied \cup lost
\* Nothing tells the rows after these whether they were written.
Uncertain == lost \cup (IF Import THEN {} ELSE report.applied)

\* A row writes over what the preview showed and what the rows before it made of
\* that, and nothing else, save what others did after it looked: the policy, the
\* agents of its parents and everything attached to them.
WritesWhatWasShown ==
  [][\A i \in Ids : Writes(i) =>
       /\ <<"policy", i>> \in raced \/ fleet.policies[i] = seen.policies[i]
       /\ \A p \in ParentsOf(i) : <<"parent", p>> \notin raced =>
            /\ fleet.parents[p].agents = shown.parents[p].agents
            /\ \A j \in Ids :
                 IF j \in Mine /\ p \in ParentsOf(j)
                 THEN j \in Uncertain \/ (j \in Attached(p) <=> p \in DesiredParents(j))
                 ELSE j \in Attached(p) <=> j \in shown.parents[p].attached]_vars

\* The report tells the truth: a succeeded row is what the file says, with its
\* package, or is gone; a failed row is called applied unless it did nothing or its
\* answer was lost; every agent policy that a confirmed write changed is counted
\* with the agents it had, those the policy leaves as well as those it joins; and a
\* package that a write installs was announced, and is reported once the row is
\* over, unless it could not be read or others changed it.
ReportIsTrue ==
  [][/\ \A i \in (report'.succeeded \cup report'.unchanged) \ (report.succeeded \cup report.unchanged) :
          \/ <<"policy", i>> \in raced'
          \/ fleet'.policies[i] = IF Import THEN cmd.file[i] ELSE None
     /\ \A i \in report'.succeeded \ report.succeeded :
          ~Import \/ <<"package", PackageOf(i)>> \in raced' \/ fleet'.packages[PackageOf(i)] = "exact"
     /\ \A i \in Ids : Writes(i) =>
          i \in lost' \cup report'.succeeded \cup report'.applied \/ row'.applied
     /\ row.applied /\ row'.id # row.id => row.id \in report'.succeeded \cup report'.applied
     /\ \A i \in Ids : Writes(i) /\ i \notin Uncertain' /\ <<"policy", i>> \notin raced =>
          \A p \in Parents :
            /\ i \in Attached(p) \/ (i \in Attached(p))'
            /\ <<"parent", p>> \notin raced
            => <<p, fleet.parents[p].agents>> \in report'.affected
     /\ \A k \in Packages : OwnStep /\ fleet'.packages[k] # fleet.packages[k] =>
          shown.packages[k] = None \/ <<"package", k>> \in raced
     /\ pc' = "row" => \A k \in Packages :
          shown'.packages[k] = None /\ fleet'.packages[k] = "exact" =>
            k \in report'.installs \cup blocked' \/ <<"package", k>> \in raced']_vars

=============================================================================
