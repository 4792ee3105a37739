---------------------- MODULE IntegrationPoliciesProofs ----------------------
(***************************************************************************)
(* The safety properties of IntegrationPolicies, for every set of          *)
(* policies, agent policies and packages, from the inductive invariant     *)
(* IInv.                                                                   *)
(***************************************************************************)
EXTENDS IntegrationPoliciesInv, WellFoundedInduction, TLAPS

(* Numbers have a least among them.                                        *)
LEMMA LeastExists ==
  ASSUME NEW S \in SUBSET Nat, S # {}
  PROVE  \E m \in S : \A k \in S : m <= k
<1>1. PICK m \in S : \A k \in S : <<k, m>> \notin OpToRel(<, Nat)
  BY NatLessThanWellFounded, WFMin
<1>2. \A k \in S : ~(k < m)
  BY <1>1 DEF OpToRel
<1> QED
  BY <1>2

(* Least of some numbers is one of them.                                   *)
LEMMA LeastFacts ==
  ASSUME NEW S \in SUBSET Nat, S # {}
  PROVE  Least(S) \in S
BY LeastExists DEF Least

(* The next read is one of those that are left.                            *)
LEMMA FirstFacts ==
  ASSUME NEW S \in SUBSET (Nat \X Nat), S # {}
  PROVE  First(S) \in S
<1> DEFINE A == {a[1] : a \in S}
<1>1. A \in SUBSET Nat /\ A # {}
  OBVIOUS
<1>2. PICK m \in A : \A k \in A : m <= k
  BY <1>1, LeastExists
<1> DEFINE B == {a[2] : a \in {b \in S : b[1] = m}}
<1>3. B \in SUBSET Nat /\ B # {}
  BY <1>2
<1>4. PICK n \in B : \A k \in B : n <= k
  BY <1>3, LeastExists
<1>5. PICK a \in S : a[1] = m /\ a[2] = n
  BY <1>4
<1>6. ASSUME NEW b \in S PROVE a[1] < b[1] \/ (a[1] = b[1] /\ a[2] <= b[2])
  <2>1. a[1] \in Nat /\ b[1] \in Nat /\ a[1] <= b[1]
    BY <1>2, <1>5
  <2>2. a[1] = b[1] => a[2] <= b[2]
    BY <1>4, <1>5
  <2> QED
    BY <2>1, <2>2
<1> QED
  BY <1>6 DEF First

(* What the assumptions say of the keys and the markers.                   *)
KeyFacts ==
  /\ Ids \subseteq Nat /\ Parents \subseteq Nat /\ Packages \subseteq Nat /\ 0 \notin Ids
  /\ None # Unread /\ "exact" # None /\ "exact" # Unread /\ "other" # None /\ "other" # Unread
  /\ None \notin Policy /\ Unread \notin Policy /\ None \notin Snapshots
  /\ Unread \notin Snapshots

(* Policies, parents and packages are numbered.                            *)
LEMMA Keys == KeyFacts
BY KeysAreOrdered, MarkersDiffer DEF KeyFacts
-----------------------------------------------------------------------------
(* What a step keeps.                                                      *)

(* The command is the same and so is what it read of its policies.         *)
PlanKept ==
  /\ (Import' <=> Import) /\ Wanted' = Wanted /\ Targets' = Targets
  /\ ParentReads' = ParentReads /\ (Planable' <=> Planable)
  /\ \A i : /\ (Exists(i)' <=> Exists(i)) /\ (Creates(i)' <=> Creates(i))
            /\ PackageOf(i)' = PackageOf(i) /\ ParentsOf(i)' = ParentsOf(i)
            /\ CurrentParents(i)' = CurrentParents(i) /\ DesiredParents(i)' = DesiredParents(i)

(* The command and what it has read of the policies determine the sets of  *)
(* the plan.                                                               *)
LEMMA PlanIsKept ==
  ASSUME cmd' = cmd, seen'.policies = seen.policies
  PROVE  PlanKept
<1>1. /\ (Import' <=> Import) /\ Wanted' = Wanted
      /\ \A i : (Exists(i)' <=> Exists(i))
  BY DEF Import, Wanted, Exists
<1>2. /\ Targets' = Targets
      /\ \A i : /\ (Creates(i)' <=> Creates(i)) /\ PackageOf(i)' = PackageOf(i)
                /\ CurrentParents(i)' = CurrentParents(i)
                /\ DesiredParents(i)' = DesiredParents(i)
  BY <1>1 DEF Targets, Creates, PackageOf, CurrentParents, DesiredParents
<1>3. \A i : ParentsOf(i)' = ParentsOf(i)
  BY <1>2 DEF ParentsOf
<1>4. ParentReads' = ParentReads
  BY <1>2, <1>3 DEF ParentReads
<1>5. Planable' <=> Planable
  BY <1>1, <1>2 DEF Planable
<1> QED
  BY <1>1, <1>2, <1>3, <1>4, <1>5 DEF PlanKept

FleetKept ==
  /\ \A p : Snapshot(p)' = Snapshot(p) /\ Attached(p)' = Attached(p)
  /\ \A name : Owners(name)' = Owners(name)

(* Fleet's state determines the snapshots of the parents and the owners of *)
(* names.                                                                  *)
LEMMA FleetIsKept == ASSUME fleet' = fleet PROVE FleetKept
BY DEF FleetKept, Snapshot, Attached, Owners

(* The sets that the plan is made of.                                      *)
LEMMA PlanFacts ==
  ASSUME ShapeInv
  PROVE  /\ Targets \subseteq Wanted /\ Wanted \subseteq Ids
         /\ \A i \in Wanted : Import => cmd.file[i] \in Policy
BY DEF ShapeInv, Targets, Wanted, Existing, File

(* A target is wanted, and its package and its parents are known.          *)
LEMMA TargetFacts ==
  ASSUME ShapeInv, PoliciesInv, pc \notin {"idle", "existing"}, NEW i \in Targets
  PROVE  /\ i \in Ids /\ i \in Wanted /\ PackageOf(i) \in Packages
         /\ ParentsOf(i) \subseteq Parents /\ CurrentParents(i) \subseteq Parents
         /\ DesiredParents(i) \subseteq Parents
         /\ ~Import => Exists(i)
         /\ Exists(i) => seen.policies[i] \in Policy
         /\ Import => cmd.file[i] \in Policy
         /\ Exists(i) /\ Import => seen.policies[i].package = cmd.file[i].package /\ cmd.overwrite
<1>1. i \in Ids /\ i \in Wanted /\ (Import => cmd.file[i] \in Policy)
  BY PlanFacts
<1>2. Planable /\ seen.policies[i] \in Policy \cup {None}
  BY <1>1 DEF PoliciesInv
<1>3. Exists(i) => seen.policies[i] \in Policy
  BY <1>2 DEF Exists
<1>4. ~Import => Exists(i)
  BY <1>1, <1>2 DEF Planable
<1>5. CurrentParents(i) \subseteq Parents /\ DesiredParents(i) \subseteq Parents
  BY <1>1, <1>3 DEF CurrentParents, DesiredParents, Policy
<1>6. ParentsOf(i) \subseteq Parents
  BY <1>5 DEF ParentsOf
<1>7. PackageOf(i) \in Packages
  BY <1>1, <1>3, <1>4 DEF PackageOf, Policy
<1>8. Exists(i) /\ Import => seen.policies[i].package = cmd.file[i].package /\ cmd.overwrite
  BY <1>1, <1>2 DEF Planable, Targets, Exists
<1> QED
  BY <1>1, <1>3, <1>4, <1>5, <1>6, <1>7, <1>8

(* Of the parents and packages a command has read it knows something.      *)
LEMMA SeenTypes ==
  ASSUME ShapeInv
  PROVE  /\ \A p \in Parents : Snapshot(p) \in Snapshots
         /\ \A p \in Parents : seen.parents[p] # Unread => seen.parents[p] \in Snapshots
         /\ \A k \in Packages : fleet.packages[k] \in Version
  <1>1. \A p \in Parents : Attached(p) \subseteq Ids /\ fleet.parents[p] \in Parent
    BY DEF ShapeInv, FleetState, Attached, Existing
  <1>2. \A p \in Parents : Snapshot(p) \in Snapshots
    <2> SUFFICES ASSUME NEW p \in Parents PROVE Snapshot(p) \in Snapshots
      OBVIOUS
    <2>1. fleet.parents[p].agents \in Agents
      BY <1>1 DEF Parent
    <2>2. fleet.parents[p].portable \in BOOLEAN
      BY <1>1, Zenon DEF Parent
    <2> QED
      BY <1>1, <2>1, <2>2, Zenon DEF Snapshot, Snapshots
  <1> QED
    BY <1>2 DEF ShapeInv, Seens, FleetState

-----------------------------------------------------------------------------
(* The end of a command.                                                   *)
LEMMA FirstValues ==
  NoCommand.file \in File /\ NoRow \in Rows /\ NothingSeen \in Seens /\ EmptyReport \in Reports
<1>1. NoCommand.file \in File
  BY DEF NoCommand, File
<1>2. NoRow \in Rows
  <2>1. NoRow.applied \in BOOLEAN /\ NoRow.bad \in BOOLEAN
    BY Zenon DEF NoRow
  <2> QED
    BY <2>1 DEF NoRow, Rows
<1>3. NothingSeen \in Seens
  <2>2. /\ NothingSeen.policies = [x \in Ids |-> Unread]
        /\ NothingSeen.owners = [x \in Ids |-> Unread]
        /\ NothingSeen.parents = [x \in Parents |-> Unread]
        /\ NothingSeen.packages = [x \in Packages |-> Unread]
    BY DEF NothingSeen
  <2>3. NothingSeen.policies \in [Ids -> Policy \cup {None, Unread}]
    BY <2>2
  <2>5. NothingSeen.owners \in [Ids -> (SUBSET Ids) \cup {Unread}]
    BY <2>2
  <2>6. NothingSeen.parents \in [Parents -> Snapshots \cup {Unread}]
    BY <2>2
  <2>7. NothingSeen.packages \in [Packages -> Version \cup {Unread}]
    BY <2>2
  <2>4. NothingSeen = [policies |-> NothingSeen.policies, owners |-> NothingSeen.owners,
                       parents |-> NothingSeen.parents, packages |-> NothingSeen.packages]
    BY DEF NothingSeen
  <2> HIDE DEF Policy, Snapshots, Version
  <2> QED
    BY <2>3, <2>4, <2>5, <2>6, <2>7 DEF Seens
<1>4. EmptyReport \in Reports
  BY DEF EmptyReport, Reports
<1> QED
  BY <1>1, <1>2, <1>3, <1>4

(* A command that returns forgets what it read; what it reports is kept.   *)
LEMMA ReturnStep ==
  ASSUME IInv, fleet' \in FleetState, edits' \in Nat, report' = report,
         NEW r \in {"err", "refused", "dry", "done"}, Return(r),
         r = "done" /\ clean' => report.failed \cup report.applied = {}
  PROVE  IInv'
<1>a. /\ pc' = "idle" /\ outcome' = r /\ cmd' = NoCommand /\ seen' = NothingSeen /\ todo' = {}
      /\ rows' = {} /\ row' = NoRow /\ blocked' = {} /\ shown' = NothingSeen /\ lost' = {}
  BY DEF Return
<1>b. ~Planning' /\ ~Applying' /\ ~Rechecking' /\ ~Checking'
  BY <1>a DEF Planning, Applying, Rechecking, Checking
<1>c. NoCommand.file \in File /\ NoRow \in Rows /\ NothingSeen \in Seens
  BY FirstValues
<1>1. ShapeInv'
  <2>1. NoCommand.op = "none"
    BY DEF NoCommand
  <2> QED
    BY <1>a, <1>c, <2>1 DEF IInv, ShapeInv, Labels
<1>2. FreshInv'
  BY <1>a, <1>b DEF FreshInv
<1>3. PoliciesInv' /\ OwnersInv' /\ ParentsInv' /\ PackagesInv'
  <2>1. ~Import'
    BY <1>a DEF Import, NoCommand
  <2> QED
    BY <1>a, <1>b, <2>1 DEF PoliciesInv, OwnersInv, ParentsInv, PackagesInv
<1>4. ShownInv' /\ RowInv' /\ RecheckInv' /\ VerifyInv' /\ InstallsInv'
  BY <1>a, <1>b DEF ShownInv, RowInv, RecheckInv, VerifyInv, InstallsInv
<1>5. CleanInv' /\ PlanIsValid'
  BY <1>a DEF CleanInv, PlanIsValid
<1>6. OwnWritesAreExpected'
  BY <1>a DEF OwnWritesAreExpected
<1> QED
  BY <1>1, <1>2, <1>3, <1>4, <1>5, <1>6 DEF IInv

(* A refusal reports nothing.                                              *)
LEMMA RefuseStep ==
  ASSUME IInv, Refuse, UNCHANGED <<fleet, edits>>
  PROVE  IInv'
<1>1. fleet' \in FleetState /\ edits' \in Nat
  BY DEF IInv, ShapeInv
<1> QED
  BY <1>1, ReturnStep DEF Refuse

-----------------------------------------------------------------------------
(* Planning.                                                               *)

(* A command starts: it has read nothing. *)
LEMMA StartStep ==
  ASSUME IInv, NEW op \in {"import", "delete"}, NEW file \in Files, NEW o \in BOOLEAN, NEW s \in BOOLEAN,
         Start(op, file, o, s)
  PROVE  IInv'
<1>a. /\ pc = "idle" /\ pc' = "existing" /\ seen' = NothingSeen /\ report' = EmptyReport
      /\ row' = NoRow /\ blocked' = {} /\ lost' = {} /\ cmd'.op = op /\ cmd'.file = file
      /\ shown' = shown
  BY DEF Start, IInv, FreshInv
<1>b. /\ UNCHANGED <<fleet, rows, raced, edits>>
      /\ todo' = {<<i, 0>> : i \in Existing(file)} /\ outcome' = "none"
  BY DEF Start
<1>c. ~Applying' /\ ~Rechecking' /\ ~Checking' /\ Wanted' = Existing(file)
  BY <1>a DEF Applying, Rechecking, Checking, Wanted
<1>d. Existing(file) \subseteq Ids /\ file \in File
  BY FilesAreFiles DEF Existing, File
<1>1. ShapeInv'
  <2>1. EmptyReport \in Reports /\ NothingSeen \in Seens /\ NoRow \in Rows
    BY FirstValues
  <2>2. todo' \subseteq Nat \X Nat
    <3> HIDE DEF Existing
    <3>1. \A i \in Existing(file) : i \in Nat
      BY <1>d, Keys DEF KeyFacts
    <3> QED
      BY <1>b, <3>1
  <2>3. rows' \subseteq Ids /\ shown' \in Seens /\ edits' \in Nat /\ fleet' \in FleetState
    BY <1>a, <1>b DEF IInv, ShapeInv
  <2> QED
    BY <1>a, <1>b, <1>d, <2>1, <2>2, <2>3 DEF ShapeInv, Labels
<1>2. FreshInv'
  BY <1>a DEF FreshInv
<1>3. PoliciesInv'
  BY <1>a, <1>b, <1>c, <1>d DEF PoliciesInv
<1>4. OwnersInv'
  BY <1>a, <1>c DEF OwnersInv
<1>5. ParentsInv'
  BY <1>a DEF ParentsInv
<1>6. PackagesInv'
  BY <1>a, <1>c DEF PackagesInv
<1>7. ShownInv'
  BY <1>a, <1>c DEF ShownInv
<1>8. RowInv'
  BY <1>a, <1>c DEF RowInv
<1>9. RecheckInv'
  BY <1>a DEF RecheckInv
<1>10. VerifyInv'
  BY <1>a DEF VerifyInv
<1>11. InstallsInv'
  BY <1>a, <1>c DEF InstallsInv
<1>12. CleanInv'
  BY <1>a, <1>c DEF CleanInv, EmptyReport, NothingSeen, NoRow
<1>13. PlanIsValid'
  BY <1>a DEF PlanIsValid
<1>14. OwnWritesAreExpected'
  BY <1>a DEF OwnWritesAreExpected
<1> QED
  BY <1>1, <1>2, <1>3, <1>4, <1>5, <1>6, <1>7, <1>8, <1>9, <1>10, <1>11, <1>12, <1>13, <1>14
     DEF IInv

(* One more policy of the file is read. *)
LEMMA ReadExistingStep ==
  ASSUME IInv, ReadExisting
  PROVE  IInv'
<1>p. pc = "existing" /\ pc' = "existing" /\ ~Applying' /\ ~Rechecking' /\ ~Checking'
  BY DEF ReadExisting, Applying, Rechecking, Checking
<1>a. /\ First(todo) \in todo /\ todo' = todo \ {First(todo)}
      /\ First(todo)[1] \in Wanted /\ First(todo)[1] \in Ids
  <2>1. First(todo) \in todo
    BY FirstFacts DEF ReadExisting, IInv, ShapeInv
  <2>2. todo \subseteq Wanted \X {0}
    BY <1>p DEF IInv, PoliciesInv
  <2> QED
    BY <2>1, <2>2, PlanFacts DEF ReadExisting, IInv
<1>b. /\ seen' = [seen EXCEPT !.policies[First(todo)[1]] = fleet.policies[First(todo)[1]]]
      /\ UNCHANGED <<fleet, cmd, rows, row, blocked, report, outcome, shown, raced, clean, lost, edits>>
  BY DEF ReadExisting
<1>c. /\ seen'.policies = [seen.policies EXCEPT ![First(todo)[1]] = fleet.policies[First(todo)[1]]]
      /\ seen'.owners = seen.owners /\ seen'.parents = seen.parents
      /\ seen'.packages = seen.packages
      /\ seen' \in Seens /\ fleet.policies[First(todo)[1]] \in Policy \cup {None}
  <2>1. seen \in Seens /\ fleet.policies[First(todo)[1]] \in Policy \cup {None}
    BY <1>a DEF IInv, ShapeInv, FleetState
  <2> HIDE DEF Policy
  <2> QED
    BY <1>a, <1>b, <2>1 DEF Seens
<1>d. Wanted' = Wanted /\ (Import' <=> Import) /\ FleetKept
  BY <1>b, FleetIsKept DEF Wanted, Import
<1>1. ShapeInv'
  BY <1>a, <1>b, <1>c, <1>p DEF IInv, ShapeInv, Labels
<1>2. FreshInv'
  BY <1>b, <1>p DEF IInv, FreshInv, Planning
<1>3. PoliciesInv'
  <2>1. todo' \subseteq Wanted' \X {0}
    BY <1>a, <1>d, <1>p DEF IInv, PoliciesInv
  <2>2. ASSUME NEW i \in Wanted PROVE <<i, 0>> \in todo' \/ seen'.policies[i] \in Policy \cup {None}
    <3>1. i \in Ids /\ seen.policies \in [Ids -> Policy \cup {None, Unread}]
      BY PlanFacts DEF IInv, ShapeInv, Seens
    <3>2. CASE i = First(todo)[1]
      BY <1>c, <3>1, <3>2
    <3>3. CASE i # First(todo)[1]
      <4>1. <<i, 0>> # First(todo)
        BY <3>3
      <4> QED
        BY <1>a, <1>c, <1>p, <3>1, <3>3, <4>1 DEF IInv, PoliciesInv
    <3> QED
      BY <3>2, <3>3
  <2> QED
    BY <1>b, <1>d, <1>p, <2>1, <2>2 DEF IInv, PoliciesInv
<1>4. OwnersInv'
  BY <1>p DEF OwnersInv
<1>5. ParentsInv'
  BY <1>c, <1>p DEF IInv, ParentsInv
<1>6. PackagesInv'
  BY <1>c, <1>p DEF IInv, PackagesInv
<1>7. ShownInv'
  BY <1>p DEF ShownInv
<1>8. RowInv'
  BY <1>p DEF RowInv
<1>9. RecheckInv'
  BY <1>p DEF RecheckInv
<1>10. VerifyInv'
  BY <1>p DEF VerifyInv
<1>11. InstallsInv'
  BY <1>p DEF InstallsInv
<1>12. CleanInv'
  <2> SUFFICES ASSUME clean PROVE CleanInv'
    BY <1>b DEF CleanInv
  <2>1. seen.policies \in [Ids -> Policy \cup {None, Unread}]
    BY DEF IInv, ShapeInv, Seens
  <2>2. ASSUME NEW i \in Ids PROVE seen'.policies[i] = Unread \/ seen'.policies[i] = fleet.policies[i]
    BY <1>a, <1>c, <1>p, <2>1 DEF IInv, CleanInv, Applying, Rechecking, Checking
  <2> QED
    BY <1>b, <1>c, <1>d, <1>p, <2>2 DEF IInv, CleanInv, FleetKept, Applying, Rechecking,
       Checking
<1>13. PlanIsValid'
  BY <1>p DEF PlanIsValid
<1>14. OwnWritesAreExpected'
  BY <1>p DEF OwnWritesAreExpected
<1> QED
  BY <1>1, <1>2, <1>3, <1>4, <1>5, <1>6, <1>7, <1>8, <1>9, <1>10, <1>11, <1>12, <1>13, <1>14
     DEF IInv

(* The parents that are read are numbers, as are their policies.           *)
LEMMA ReadFacts ==
  ASSUME ShapeInv
  PROVE  /\ ParentReads \subseteq Nat \X Nat
         /\ \A a \in ParentReads : /\ a = <<a[1], a[2]>> /\ a[1] \in Targets /\ a[2] \in Parents
                                   /\ a[2] \in ParentsOf(a[1])
<1>1. Targets \subseteq Nat /\ Parents \subseteq Nat
  BY PlanFacts, Keys DEF KeyFacts
<1>2. ASSUME NEW a \in ParentReads
      PROVE  a = <<a[1], a[2]>> /\ a[1] \in Targets /\ a[2] \in Parents /\ a[2] \in ParentsOf(a[1])
  <2>1. a \in Targets \X Parents /\ a[2] \in ParentsOf(a[1])
    BY DEF ParentReads
  <2> HIDE DEF Targets, ParentsOf
  <2> QED
    BY <2>1
<1>3. ASSUME NEW a \in ParentReads PROVE a \in Nat \X Nat
  <2> HIDE DEF Targets, ParentsOf, ParentReads
  <2> QED
    BY <1>1, <1>2
<1> QED
  BY <1>2, <1>3

(* First picks one of the reads that remain.                               *)
LEMMA FirstOfTodo ==
  ASSUME IInv, todo # {}
  PROVE  First(todo) \in todo
BY FirstFacts DEF IInv, ShapeInv

(* What the file names has been read and may be planned. *)
LEMMA ExistingReadStep ==
  ASSUME IInv, ExistingRead, Planable
  PROVE  IInv'
<1>p. /\ pc = "existing" /\ todo = {} /\ ~Applying' /\ ~Rechecking' /\ ~Checking'
      /\ pc' = (IF Import THEN "names" ELSE "parents")
      /\ todo' = (IF Import THEN {} ELSE ParentReads)
  BY DEF ExistingRead, Applying, Rechecking, Checking
<1>b. /\ UNCHANGED <<fleet, cmd, rows, row, blocked, report, outcome, shown, raced, clean, lost, edits>>
      /\ UNCHANGED seen
  BY DEF ExistingRead, NoFault
<1>k. PlanKept /\ FleetKept
  BY <1>b, PlanIsKept, FleetIsKept
<1>t. todo' \subseteq Nat \X Nat
  BY <1>p, ReadFacts DEF IInv
<1>1. ShapeInv'
  BY <1>b, <1>p, <1>t DEF IInv, ShapeInv, Labels
<1>2. FreshInv'
  BY <1>b, <1>p DEF IInv, FreshInv, Planning
<1>3. PoliciesInv'
  <2>1. \A i \in Wanted : seen.policies[i] \in Policy \cup {None}
    BY <1>p DEF IInv, PoliciesInv
  <2> QED
    BY <1>b, <1>k, <1>p, <2>1 DEF IInv, PoliciesInv, PlanKept
<1>4. OwnersInv'
  BY <1>p DEF OwnersInv
<1>5. ParentsInv'
  BY <1>b, <1>k, <1>p DEF IInv, ParentsInv, PlanKept
<1>6. PackagesInv'
  BY <1>b, <1>p DEF IInv, PackagesInv
<1>7. ShownInv'
  BY <1>p DEF ShownInv
<1>8. RowInv'
  BY <1>p DEF RowInv
<1>9. RecheckInv'
  BY <1>p DEF RecheckInv
<1>10. VerifyInv'
  BY <1>p DEF VerifyInv
<1>11. InstallsInv'
  BY <1>p DEF InstallsInv
<1>12. CleanInv'
  BY <1>b, <1>k, <1>p DEF IInv, CleanInv, PlanKept, FleetKept, Applying, Rechecking, Checking
<1>13. PlanIsValid'
  BY <1>p DEF PlanIsValid
<1>14. OwnWritesAreExpected'
  BY <1>p DEF OwnWritesAreExpected
<1> QED
  BY <1>1, <1>2, <1>3, <1>4, <1>5, <1>6, <1>7, <1>8, <1>9, <1>10, <1>11, <1>12, <1>13, <1>14
     DEF IInv

(* The owners of the names are read in one list. *)
LEMMA ReadNamesStep ==
  ASSUME IInv, ReadNames, \A i \in Wanted : Owners(cmd.file[i].name) \subseteq {i}
  PROVE  IInv'
<1>p. /\ pc = "names" /\ pc' = "parents" /\ todo' = ParentReads /\ ~Applying' /\ ~Rechecking'
      /\ ~Checking' 
  BY DEF ReadNames, Applying, Rechecking, Checking
<1>b. /\ UNCHANGED <<fleet, cmd, rows, row, blocked, report, outcome, shown, raced, clean, lost, edits>>
      /\ seen' = [seen EXCEPT !.owners =
                    [i \in Ids |-> IF i \in Wanted THEN Owners(cmd.file[i].name) ELSE Unread]]
  BY DEF ReadNames, NoFault
<1>c. /\ seen'.policies = seen.policies /\ seen'.parents = seen.parents
      /\ seen'.packages = seen.packages
      /\ \A i \in Wanted : seen'.owners[i] = Owners(cmd.file[i].name)
      /\ seen' \in Seens
  <2>1. seen \in Seens
    BY DEF IInv, ShapeInv
  <2>2. \A i \in Ids : (IF i \in Wanted THEN Owners(cmd.file[i].name) ELSE Unread) \in (SUBSET Ids) \cup {Unread}
    BY DEF Owners, Existing, IInv, ShapeInv, FleetState
  <2>3. [i \in Ids |-> IF i \in Wanted THEN Owners(cmd.file[i].name) ELSE Unread]
          \in [Ids -> (SUBSET Ids) \cup {Unread}]
    BY <2>2
  <2>4. \A i \in Wanted : i \in Ids
    BY PlanFacts DEF IInv
  <2> HIDE DEF Wanted, Owners
  <2> QED
    BY <1>b, <2>1, <2>3, <2>4 DEF Seens
<1>k. PlanKept /\ FleetKept
  BY <1>b, <1>c, PlanIsKept, FleetIsKept
<1>t. todo' \subseteq Nat \X Nat
  BY <1>p, ReadFacts DEF IInv
<1>1. ShapeInv'
  BY <1>b, <1>c, <1>p, <1>t DEF IInv, ShapeInv, Labels
<1>2. FreshInv'
  BY <1>b, <1>p DEF IInv, FreshInv, Planning
<1>3. PoliciesInv'
  BY <1>b, <1>c, <1>k, <1>p DEF IInv, PoliciesInv, PlanKept
<1>4. OwnersInv'
  BY <1>p DEF OwnersInv
<1>5. ParentsInv'
  BY <1>b, <1>c, <1>k, <1>p DEF IInv, ParentsInv, PlanKept
<1>6. PackagesInv'
  BY <1>b, <1>c, <1>p DEF IInv, PackagesInv
<1>7. ShownInv'
  BY <1>p DEF ShownInv
<1>8. RowInv'
  BY <1>p DEF RowInv
<1>9. RecheckInv'
  BY <1>p DEF RecheckInv
<1>10. VerifyInv'
  BY <1>p DEF VerifyInv
<1>11. InstallsInv'
  BY <1>p DEF InstallsInv
<1>12. CleanInv'
  <2>1. \A i \in Targets : i \in Wanted
    BY PlanFacts DEF IInv
  <2> QED
    BY <1>b, <1>c, <1>k, <1>p, <2>1 DEF IInv, CleanInv, PlanKept, FleetKept, Applying,
       Rechecking, Checking
<1>13. PlanIsValid'
  BY <1>p DEF PlanIsValid
<1>14. OwnWritesAreExpected'
  BY <1>p DEF OwnWritesAreExpected
<1> QED
  BY <1>1, <1>2, <1>3, <1>4, <1>5, <1>6, <1>7, <1>8, <1>9, <1>10, <1>11, <1>12, <1>13, <1>14
     DEF IInv

(* A parent is read, for one of the policies that need it. *)
LEMMA ReadParentStep ==
  ASSUME IInv, ReadParent, First(todo)[2] \in CurrentParents(First(todo)[1]) => First(todo)[1] \in Attached(First(todo)[2]),
         SharedAgrees(First(todo)[2]), fleet.parents[First(todo)[2]].portable
  PROVE  IInv'
<1>p. pc = "parents" /\ pc' = "parents" /\ ~Applying' /\ ~Rechecking' /\ ~Checking' 
  BY DEF ReadParent, Applying, Rechecking, Checking
<1>b. /\ UNCHANGED <<fleet, cmd, rows, row, blocked, report, outcome, shown, raced, clean, lost, edits>>
      /\ seen' = [seen EXCEPT !.parents[First(todo)[2]] = Snapshot(First(todo)[2])]
      /\ todo' = todo \ {First(todo)}
  BY DEF ReadParent, NoFault
<1>a. /\ First(todo) \in todo /\ First(todo) \in ParentReads
      /\ First(todo)[1] \in Targets /\ First(todo)[2] \in Parents
  <2>1. First(todo) \in todo
    BY FirstOfTodo DEF ReadParent
  <2> QED
    BY <1>p, <2>1, ReadFacts DEF IInv, ParentsInv
<1>c. /\ seen'.policies = seen.policies /\ seen'.owners = seen.owners
      /\ seen'.packages = seen.packages
      /\ seen'.parents = [seen.parents EXCEPT ![First(todo)[2]] = Snapshot(First(todo)[2])]
      /\ seen' \in Seens
  <2>1. seen \in Seens /\ Snapshot(First(todo)[2]) \in Snapshots
    BY <1>a, SeenTypes DEF IInv, ShapeInv
  <2> HIDE DEF Snapshots, Snapshot
  <2> QED
    BY <1>a, <1>b, <2>1 DEF Seens
<1>k. PlanKept /\ FleetKept
  BY <1>b, <1>c, PlanIsKept, FleetIsKept
<1>t. todo' \subseteq Nat \X Nat
  BY <1>b DEF IInv, ShapeInv
<1>r. \A p \in Parents :
        /\ p = First(todo)[2] => seen'.parents[p] = Snapshot(p)
        /\ p # First(todo)[2] => seen'.parents[p] = seen.parents[p]
        /\ seen.parents[p] # Unread => seen'.parents[p] = seen.parents[p]
  <2>1. seen.parents \in [Parents -> Snapshots \cup {Unread}]
    BY DEF IInv, ShapeInv, Seens
  <2> QED
    BY <1>a, <1>c, <2>1 DEF SharedAgrees
<1>1. ShapeInv'
  BY <1>b, <1>c, <1>p, <1>t DEF IInv, ShapeInv, Labels
<1>2. FreshInv'
  BY <1>b, <1>p DEF IInv, FreshInv, Planning
<1>3. PoliciesInv'
  BY <1>b, <1>c, <1>k, <1>p DEF IInv, PoliciesInv, PlanKept
<1>4. OwnersInv'
  BY <1>p DEF OwnersInv
<1>5. ParentsInv'
  <2>1. todo' \subseteq ParentReads
    BY <1>b, <1>p DEF IInv, ParentsInv
  <2>2. ASSUME NEW a \in ParentReads \ todo' PROVE ReadWell(a[1], a[2])'
    <3>1. a[2] \in Parents /\ CurrentParents(a[1])' = CurrentParents(a[1])
      BY <1>k, ReadFacts DEF IInv, PlanKept
    <3>2. CASE a = First(todo)
      <4>1. seen'.parents[a[2]] = Snapshot(a[2]) /\ Snapshot(a[2]) # Unread
        BY <1>r, <3>1, <3>2, SeenTypes, Keys DEF IInv, KeyFacts
      <4>2. a[2] \in CurrentParents(a[1]) => a[1] \in Snapshot(a[2]).attached
        BY <3>2 DEF Snapshot
      <4>3. Snapshot(a[2]).portable
        BY <3>2, Zenon DEF Snapshot
      <4> QED
        BY <3>1, <4>1, <4>2, <4>3 DEF ReadWell
    <3>3. CASE a # First(todo)
      <4>1. ReadWell(a[1], a[2])
        BY <1>b, <1>p, <3>3 DEF IInv, ParentsInv
      <4>2. seen'.parents[a[2]] = seen.parents[a[2]]
        BY <1>r, <3>1, <4>1 DEF ReadWell
      <4> QED
        BY <3>1, <4>1, <4>2 DEF ReadWell
    <3> QED
      BY <3>2, <3>3
  <2> QED
    BY <1>k, <1>p, <2>1, <2>2 DEF ParentsInv, PlanKept
<1>6. PackagesInv'
  BY <1>b, <1>c, <1>p DEF IInv, PackagesInv
<1>7. ShownInv'
  BY <1>p DEF ShownInv
<1>8. RowInv'
  BY <1>p DEF RowInv
<1>9. RecheckInv'
  BY <1>p DEF RecheckInv
<1>10. VerifyInv'
  BY <1>p DEF VerifyInv
<1>11. InstallsInv'
  BY <1>p DEF InstallsInv
<1>12. CleanInv'
  <2> SUFFICES ASSUME clean PROVE CleanInv'
    BY <1>b DEF CleanInv
  <2>1. ASSUME NEW p \in Parents, seen'.parents[p] # Unread PROVE seen'.parents[p] = Snapshot(p)
    BY <1>p, <1>r, <2>1 DEF IInv, CleanInv
  <2>2. \A p \in Parents : Snapshot(p)' = Snapshot(p)
    BY <1>k DEF FleetKept
  <2> QED
    BY <1>b, <1>c, <1>k, <1>p, <2>1, <2>2 DEF IInv, CleanInv, PlanKept, FleetKept, Applying,
       Rechecking, Checking
<1>13. PlanIsValid'
  BY <1>p DEF PlanIsValid
<1>14. OwnWritesAreExpected'
  BY <1>p DEF OwnWritesAreExpected
<1> QED
  BY <1>1, <1>2, <1>3, <1>4, <1>5, <1>6, <1>7, <1>8, <1>9, <1>10, <1>11, <1>12, <1>13, <1>14
     DEF IInv

(* All parents have been read, and every name is free or the policy's own. *)
LEMMA ParentsReadStep ==
  ASSUME IInv, ParentsRead, ~(Import /\ ~(\A i \in Targets : OwnersMatch(i)))
  PROVE  IInv'
<1>p. /\ pc = "parents" /\ pc' = "packages" /\ todo = {} /\ ~Applying' /\ ~Rechecking'
      /\ ~Checking' 
  BY DEF ParentsRead, Applying, Rechecking, Checking
<1>b. /\ UNCHANGED <<fleet, cmd, rows, row, blocked, report, outcome, shown, raced, clean, lost, edits>>
      /\ UNCHANGED seen /\ todo' = {<<PackageOf(i), 0>> : i \in Targets}
  BY DEF ParentsRead, NoFault
<1>k. PlanKept /\ FleetKept
  BY <1>b, PlanIsKept, FleetIsKept
<1>t. todo' \subseteq Nat \X Nat
  <2>1. \A i \in Targets : PackageOf(i) \in Nat
    BY <1>p, TargetFacts, Keys DEF IInv, KeyFacts
  <2> QED
    BY <1>b, <2>1
<1>1. ShapeInv'
  BY <1>b, <1>p, <1>t DEF IInv, ShapeInv, Labels
<1>2. FreshInv'
  BY <1>b, <1>p DEF IInv, FreshInv, Planning
<1>3. PoliciesInv'
  BY <1>b, <1>k, <1>p DEF IInv, PoliciesInv, PlanKept
<1>4. OwnersInv'
  BY <1>b, <1>k, <1>p DEF OwnersInv, OwnersMatch, PlanKept, Import
<1>5. ParentsInv'
  <2>1. \A a \in ParentReads : ReadWell(a[1], a[2])
    BY <1>p DEF IInv, ParentsInv
  <2>2. \A a \in ParentReads : ReadWell(a[1], a[2])'
    BY <1>b, <1>k, <2>1 DEF ReadWell, PlanKept
  <2> QED
    BY <1>k, <1>p, <2>2 DEF ParentsInv, PlanKept
<1>6. PackagesInv'
  <2>1. \A k \in Packages : seen.packages[k] = Unread
    BY <1>p DEF IInv, PackagesInv, NothingSeen
  <2>2. todo' = {<<PackageOf(i)', 0>> : i \in Targets'}
    BY <1>b, <1>k DEF PlanKept
  <2>3. \A i \in Targets' : <<PackageOf(i)', 0>> \in todo'
    BY <2>2
  <2> QED
    BY <1>b, <1>k, <1>p, <2>1, <2>2, <2>3 DEF PackagesInv
<1>7. ShownInv'
  BY <1>p DEF ShownInv
<1>8. RowInv'
  BY <1>p DEF RowInv
<1>9. RecheckInv'
  BY <1>p DEF RecheckInv
<1>10. VerifyInv'
  BY <1>p DEF VerifyInv
<1>11. InstallsInv'
  BY <1>p DEF InstallsInv
<1>12. CleanInv'
  BY <1>b, <1>k, <1>p DEF IInv, CleanInv, PlanKept, FleetKept, Applying, Rechecking, Checking
<1>13. PlanIsValid'
  BY <1>p DEF PlanIsValid
<1>14. OwnWritesAreExpected'
  BY <1>p DEF OwnWritesAreExpected
<1> QED
  BY <1>1, <1>2, <1>3, <1>4, <1>5, <1>6, <1>7, <1>8, <1>9, <1>10, <1>11, <1>12, <1>13, <1>14
     DEF IInv

(* A package is read: it is installed as the policies want it, or will be by a create. *)
LEMMA ReadPackageStep ==
  ASSUME IInv, ReadPackage, fleet.packages[First(todo)[1]] # "other",
         fleet.packages[First(todo)[1]] = None =>
           \A i \in Targets : ~(Exists(i) /\ PackageOf(i) = First(todo)[1])
  PROVE  IInv'
<1>p. pc = "packages" /\ pc' = "packages" /\ ~Applying' /\ ~Rechecking' /\ ~Checking' 
  BY DEF ReadPackage, Applying, Rechecking, Checking
<1>b. /\ UNCHANGED <<fleet, cmd, rows, row, blocked, report, outcome, shown, raced, clean, lost, edits>>
      /\ seen' = [seen EXCEPT !.packages[First(todo)[1]] = fleet.packages[First(todo)[1]]]
      /\ todo' = todo \ {First(todo)}
  BY DEF ReadPackage, NoFault
<1>a. First(todo) \in todo /\ First(todo) = <<First(todo)[1], 0>> /\ First(todo)[1] \in Packages
  <2>1. First(todo) \in todo
    BY FirstOfTodo DEF ReadPackage
  <2>2. todo \subseteq {<<PackageOf(i), 0>> : i \in Targets}
    BY <1>p DEF IInv, PackagesInv
  <2>3. \A i \in Targets : PackageOf(i) \in Packages
    BY <1>p, TargetFacts DEF IInv
  <2> QED
    BY <2>1, <2>2, <2>3
<1>c. /\ seen'.policies = seen.policies /\ seen'.owners = seen.owners
      /\ seen'.parents = seen.parents
      /\ seen'.packages = [seen.packages EXCEPT ![First(todo)[1]] = fleet.packages[First(todo)[1]]]
      /\ seen' \in Seens
  <2>1. seen \in Seens /\ fleet.packages[First(todo)[1]] \in Version
    BY <1>a, SeenTypes DEF IInv, ShapeInv
  <2> HIDE DEF Version
  <2> QED
    BY <1>a, <1>b, <2>1 DEF Seens
<1>k. PlanKept /\ FleetKept
  BY <1>b, <1>c, PlanIsKept, FleetIsKept
<1>t. todo' \subseteq Nat \X Nat
  BY <1>b DEF IInv, ShapeInv
<1>r. \A k \in Packages :
        /\ k = First(todo)[1] => seen'.packages[k] = fleet.packages[k]
        /\ k # First(todo)[1] => seen'.packages[k] = seen.packages[k]
  <2>1. seen.packages \in [Packages -> Version \cup {Unread}]
    BY DEF IInv, ShapeInv, Seens
  <2> QED
    BY <1>a, <1>c, <2>1
<1>1. ShapeInv'
  BY <1>b, <1>c, <1>p, <1>t DEF IInv, ShapeInv, Labels
<1>2. FreshInv'
  BY <1>b, <1>p DEF IInv, FreshInv, Planning
<1>3. PoliciesInv'
  BY <1>b, <1>c, <1>k, <1>p DEF IInv, PoliciesInv, PlanKept
<1>4. OwnersInv'
  BY <1>b, <1>c, <1>k, <1>p DEF IInv, OwnersInv, OwnersMatch, PlanKept
<1>5. ParentsInv'
  <2>1. \A a \in ParentReads : ReadWell(a[1], a[2])
    BY <1>p DEF IInv, ParentsInv
  <2>2. \A a \in ParentReads : ReadWell(a[1], a[2])'
    BY <1>c, <1>k, <2>1 DEF ReadWell, PlanKept
  <2> QED
    BY <1>k, <1>p, <2>2 DEF ParentsInv, PlanKept
<1>6. PackagesInv'
  <2>1. todo' \subseteq {<<PackageOf(i), 0>> : i \in Targets}
    BY <1>b, <1>p DEF IInv, PackagesInv
  <2>2. {<<PackageOf(i), 0>> : i \in Targets} = {<<PackageOf(i)', 0>> : i \in Targets'}
    BY <1>k DEF PlanKept
  <2>3. ASSUME NEW i \in Targets PROVE <<PackageOf(i), 0>> \in todo' \/ PackageRead(i)'
    <3>1. /\ PackageOf(i) \in Packages /\ PackageOf(i)' = PackageOf(i)
          /\ (Exists(i)' <=> Exists(i))
      BY <1>k, <1>p, TargetFacts DEF IInv, PlanKept
    <3>2. CASE PackageOf(i) = First(todo)[1]
      <4>1. seen'.packages[PackageOf(i)] = fleet.packages[PackageOf(i)]
        BY <1>r, <3>1, <3>2
      <4>2. fleet.packages[PackageOf(i)] \in {"exact", None}
        BY <3>1, <3>2, SeenTypes DEF IInv, Version
      <4> QED
        BY <3>1, <3>2, <4>1, <4>2 DEF PackageRead
    <3>3. CASE PackageOf(i) # First(todo)[1]
      <4>1. <<PackageOf(i), 0>> \in todo \/ PackageRead(i)
        BY <1>p DEF IInv, PackagesInv
      <4>2. <<PackageOf(i), 0>> # First(todo)
        BY <3>3
      <4> QED
        BY <1>b, <1>r, <3>1, <3>3, <4>1, <4>2 DEF PackageRead
    <3> QED
      BY <3>2, <3>3
  <2>4. \A k \in Packages : \/ seen'.packages[k] = Unread \/ <<"package", k>> \in raced
                            \/ seen'.packages[k] = fleet.packages[k]
    BY <1>p, <1>r DEF IInv, PackagesInv
  <2>5. \A i \in Targets' : <<PackageOf(i)', 0>> \in todo' \/ PackageRead(i)'
    BY <1>k, <2>3 DEF PlanKept
  <2> QED
    BY <1>b, <1>p, <2>1, <2>2, <2>4, <2>5 DEF PackagesInv
<1>7. ShownInv'
  BY <1>p DEF ShownInv
<1>8. RowInv'
  BY <1>p DEF RowInv
<1>9. RecheckInv'
  BY <1>p DEF RecheckInv
<1>10. VerifyInv'
  BY <1>p DEF VerifyInv
<1>11. InstallsInv'
  BY <1>p DEF InstallsInv
<1>12. CleanInv'
  <2> SUFFICES ASSUME clean PROVE CleanInv'
    BY <1>b DEF CleanInv
  <2>1. ASSUME NEW k \in Packages, seen'.packages[k] # Unread PROVE seen'.packages[k] = fleet.packages[k]
    BY <1>p, <1>r, <2>1 DEF IInv, CleanInv
  <2> QED
    BY <1>b, <1>c, <1>k, <1>p, <2>1 DEF IInv, CleanInv, PlanKept, FleetKept, Applying,
       Rechecking, Checking
<1>13. PlanIsValid'
  BY <1>p DEF PlanIsValid
<1>14. OwnWritesAreExpected'
  BY <1>p DEF OwnWritesAreExpected
<1> QED
  BY <1>1, <1>2, <1>3, <1>4, <1>5, <1>6, <1>7, <1>8, <1>9, <1>10, <1>11, <1>12, <1>13, <1>14
     DEF IInv

(* The plan is made and shown. *)
LEMMA PlannedStep ==
  ASSUME IInv, Planned
  PROVE  IInv'
<1>p. /\ pc = "packages" /\ pc' = "planned" /\ todo = {} /\ shown' = seen /\ ~Applying'
      /\ ~Rechecking' /\ ~Checking' 
  BY DEF Planned, Applying, Rechecking, Checking
<1>b. UNCHANGED <<fleet, cmd, rows, row, todo, blocked, seen, report, outcome, raced, clean, lost, edits>>
  BY DEF Planned, stepVars
<1>k. PlanKept /\ FleetKept
  BY <1>b, PlanIsKept, FleetIsKept
<1>r. \A i \in Targets : PackageRead(i)
  BY <1>p DEF IInv, PackagesInv
<1>1. ShapeInv'
  BY <1>b, <1>p DEF IInv, ShapeInv, Labels
<1>2. FreshInv'
  BY <1>b, <1>p DEF IInv, FreshInv, Planning
<1>3. PoliciesInv'
  BY <1>b, <1>k, <1>p DEF IInv, PoliciesInv, PlanKept
<1>4. OwnersInv'
  BY <1>b, <1>k, <1>p DEF IInv, OwnersInv, OwnersMatch, PlanKept
<1>5. ParentsInv'
  <2>1. \A a \in ParentReads : ReadWell(a[1], a[2])
    BY <1>p DEF IInv, ParentsInv
  <2>2. \A a \in ParentReads : ReadWell(a[1], a[2])'
    BY <1>b, <1>k, <2>1 DEF ReadWell, PlanKept
  <2> QED
    BY <1>k, <1>p, <2>2 DEF ParentsInv, PlanKept
<1>6. PackagesInv'
  <2>1. \A i \in Targets : PackageRead(i)'
    BY <1>b, <1>k, <1>r DEF PackageRead, PlanKept
  <2> QED
    BY <1>b, <1>k, <1>p, <2>1 DEF IInv, PackagesInv, PlanKept
<1>7. ShownInv'
  BY <1>b, <1>p DEF ShownInv
<1>8. RowInv'
  BY <1>p DEF RowInv
<1>9. RecheckInv'
  BY <1>p DEF RecheckInv
<1>10. VerifyInv'
  BY <1>p DEF VerifyInv
<1>11. InstallsInv'
  BY <1>p DEF InstallsInv
<1>12. CleanInv'
  BY <1>b, <1>k, <1>p DEF IInv, CleanInv, PlanKept, FleetKept, Applying, Rechecking, Checking
<1>13. PlanIsValid'
  <2>1. \A i \in Targets : \A p \in ParentsOf(i) : ReadWell(i, p)
    <3>1. ASSUME NEW i \in Targets, NEW p \in ParentsOf(i) PROVE ReadWell(i, p)
      <4>1. p \in Parents
        BY <1>p, TargetFacts DEF IInv
      <4>2. <<i, p>> \in ParentReads
        BY <4>1 DEF ParentReads
      <4> QED
        BY <1>p, <4>2 DEF IInv, ParentsInv
    <3> QED
      BY <3>1
  <2>2. \A i \in Targets : \A p \in CurrentParents(i) : p \in ParentsOf(i)
    BY DEF ParentsOf
  <2>3. \A i \in Targets : Import => OwnersMatch(i) /\ (Exists(i) => cmd.overwrite)
    BY <1>p, TargetFacts DEF IInv, OwnersInv
  <2>4. \A i \in Targets :
          /\ \A p \in ParentsOf(i) : seen.parents[p] # Unread /\ seen.parents[p].portable
          /\ \A p \in CurrentParents(i) : i \in seen.parents[p].attached
          /\ seen.packages[PackageOf(i)] = "exact" \/ (seen.packages[PackageOf(i)] = None /\ ~Exists(i))
    <3> HIDE DEF ParentsOf, CurrentParents, PackageOf, Exists, Targets
    <3> QED
      BY <1>r, <2>1, <2>2 DEF ReadWell, PackageRead
  <2>5. ASSUME NEW i \in Targets PROVE /\ (OwnersMatch(i)' <=> OwnersMatch(i))
                                       /\ (cmd.overwrite' <=> cmd.overwrite)
    BY <1>b DEF OwnersMatch, Exists
  <2>6. \A i \in Targets :
          /\ Import => OwnersMatch(i)' /\ (Exists(i) => cmd'.overwrite)
          /\ \A p \in ParentsOf(i) : seen'.parents[p] # Unread /\ seen'.parents[p].portable
          /\ \A p \in CurrentParents(i) : i \in seen'.parents[p].attached
          /\ seen'.packages[PackageOf(i)] = "exact" \/ (seen'.packages[PackageOf(i)] = None /\ ~Exists(i))
    <3> HIDE DEF ParentsOf, CurrentParents, PackageOf, Exists, Targets, OwnersMatch, Import
    <3> QED
      BY <1>b, <2>3, <2>4, <2>5
  <2> QED
    BY <1>k, <1>p, <2>6 DEF PlanIsValid, PlanKept
<1>14. OwnWritesAreExpected'
  BY <1>p DEF OwnWritesAreExpected
<1> QED
  BY <1>1, <1>2, <1>3, <1>4, <1>5, <1>6, <1>7, <1>8, <1>9, <1>10, <1>11, <1>12, <1>13, <1>14
     DEF IInv

(* A failed read, or a plan that is not valid, ends planning.              *)
LEMMA PlanningFailsStep == ASSUME IInv, PlanningFails PROVE IInv'
<1>1. fleet' \in FleetState /\ edits' \in Nat /\ report' = report /\ Return("err")
  BY DEF PlanningFails, IInv, ShapeInv
<1> QED
  BY <1>1, ReturnStep

(* A dry run ends after planning.                                          *)
LEMMA DryRunStep == ASSUME IInv, Return("dry"), UNCHANGED <<report, fleet, edits>> PROVE IInv'
<1>1. fleet' \in FleetState /\ edits' \in Nat
  BY DEF IInv, ShapeInv
<1> QED
  BY <1>1, ReturnStep

(* The plan is confirmed: nothing of it is done yet. *)
LEMMA ConfirmStep ==
  ASSUME IInv, Confirm, pc' = "row" /\ rows' = Targets
         /\ UNCHANGED <<cmd, seen, todo, row, blocked, report, outcome, shown, raced, lost>>
  PROVE  IInv'
<1>p. /\ pc = "planned" /\ pc' = "row" /\ rows' = Targets /\ Applying' /\ ~Rechecking'
      /\ ~Checking' /\ ~Planning'
      /\ UNCHANGED <<clean, edits>>
  BY DEF Confirm, NoFault, Applying, Rechecking, Checking, Planning
<1>b. UNCHANGED <<fleet, cmd, row, todo, blocked, seen, report, outcome, shown, raced, lost>>
  BY DEF Confirm
<1>k. PlanKept /\ FleetKept
  BY <1>b, PlanIsKept, FleetIsKept
<1>e. /\ row = NoRow /\ blocked = {} /\ lost = {} /\ report = EmptyReport /\ shown = seen
      /\ \A i \in Targets : PackageRead(i)
  BY <1>p DEF IInv, FreshInv, ShownInv, Planning, PackagesInv
<1>1. ShapeInv'
  <2>1. Targets \subseteq Ids
    BY PlanFacts DEF IInv
  <2> QED
    BY <1>b, <1>p, <2>1 DEF IInv, ShapeInv, Labels
<1>2. FreshInv'
  BY <1>p DEF FreshInv
<1>3. PoliciesInv'
  BY <1>b, <1>k, <1>p DEF IInv, PoliciesInv, PlanKept
<1>4. OwnersInv'
  BY <1>b, <1>k, <1>p DEF IInv, OwnersInv, OwnersMatch, PlanKept
<1>5. ParentsInv'
  BY <1>p DEF ParentsInv
<1>6. PackagesInv'
  <2>1. \A i \in Targets : PackageRead(i)'
    BY <1>b, <1>k, <1>e DEF PackageRead, PlanKept
  <2> QED
    BY <1>k, <1>p, <2>1 DEF PackagesInv, PlanKept
<1>7. ShownInv'
  <2>1. ASSUME NEW i \in Targets, NEW p \in ParentsOf(i) PROVE shown'.parents[p] # Unread
    <3>1. p \in Parents
      BY <1>p, TargetFacts DEF IInv
    <3>2. <<i, p>> \in ParentReads
      BY <3>1 DEF ParentReads
    <3> QED
      BY <1>b, <1>e, <1>p, <3>2 DEF IInv, ParentsInv, ReadWell
  <2>2. Ours' = {}
    BY <1>b, <1>e DEF Ours, Mine, EmptyReport, NoRow
  <2>3. \A p \in Parents : shown'.parents[p] = seen'.parents[p]
    BY <1>b, <1>e
  <2>4. \A k \in Packages : seen'.packages[k] = shown'.packages[k]
    BY <1>b, <1>e
  <2>5. \A i \in Targets' : \A p \in ParentsOf(i)' : shown'.parents[p] # Unread
    BY <1>k, <2>1 DEF PlanKept
  <2> QED
    BY <1>p, <2>2, <2>3, <2>4, <2>5 DEF ShownInv
<1>8. RowInv'
  BY <1>b, <1>k, <1>e, <1>p DEF RowInv, PlanKept
<1>9. RecheckInv'
  BY <1>p DEF RecheckInv
<1>10. VerifyInv'
  BY <1>p DEF VerifyInv
<1>11. InstallsInv'
  BY <1>b, <1>e, <1>p, Keys DEF IInv, PackagesInv, InstallsInv, KeyFacts
<1>12. CleanInv'
  <2> SUFFICES ASSUME clean PROVE CleanInv'
    BY <1>p DEF CleanInv
  <2>1. pc # "observe" /\ ~Applying
    BY <1>p DEF Applying, Rechecking, Checking
  <2> QED
    BY <1>b, <1>k, <1>p, <2>1 DEF IInv, CleanInv, PlanKept, FleetKept
<1>13. PlanIsValid'
  BY <1>p DEF PlanIsValid
<1>14. OwnWritesAreExpected'
  BY <1>p DEF OwnWritesAreExpected
<1> QED
  BY <1>1, <1>2, <1>3, <1>4, <1>5, <1>6, <1>7, <1>8, <1>9, <1>10, <1>11, <1>12, <1>13, <1>14
     DEF IInv

-----------------------------------------------------------------------------
(* Rows.                                                                   *)

(* A row ends, and nothing that was read or written changes. *)
LEMMA RowEndsStep ==
  ASSUME IInv, Applying, NEW r \in Reports, NextRow(r),
         UNCHANGED <<fleet, cmd, seen, outcome, shown, lost>>, rows' \subseteq rows, edits' \in Nat,
         blocked \subseteq blocked', blocked' \subseteq Packages,
         r.succeeded \cup r.applied \cup lost = Ours, Import \/ report.applied \subseteq r.applied,
         report.installs \subseteq r.installs,
         \A k \in Packages : shown.packages[k] = None /\ fleet.packages[k] = "exact" =>
           k \in r.installs \cup blocked' \/ <<"package", k>> \in raced',
         clean' => clean /\ pc # "observe" /\ r.failed = {} /\ r.applied = {} /\ blocked' = {}
  PROVE  IInv'
<1>p. /\ pc' = "row" /\ row' = NoRow /\ todo' = {} /\ report' = r /\ Applying' /\ ~Rechecking'
      /\ ~Checking' /\ ~Planning' /\ pc \notin {"idle", "existing"} /\ ~Planning
  BY DEF NextRow, Applying, Rechecking, Checking, Planning
<1>b. UNCHANGED <<fleet, cmd, seen, outcome, shown, lost>>
  OBVIOUS
<1>k. PlanKept /\ FleetKept
  BY <1>b, PlanIsKept, FleetIsKept
<1>1. ShapeInv'
  BY <1>b, <1>p, FirstValues DEF IInv, ShapeInv, Labels
<1>2. FreshInv'
  BY <1>p DEF FreshInv
<1>3. PoliciesInv'
  BY <1>b, <1>k, <1>p DEF IInv, PoliciesInv, PlanKept
<1>4. OwnersInv'
  BY <1>b, <1>k, <1>p DEF IInv, OwnersInv, OwnersMatch, PlanKept
<1>5. ParentsInv'
  BY <1>p DEF ParentsInv
<1>6. PackagesInv'
  BY <1>b, <1>k, <1>p DEF IInv, PackagesInv, PackageRead, PlanKept
<1>7. ShownInv'
  <2>1. ~NoRow.applied
    BY Zenon DEF NoRow
  <2>2. Ours' = Ours
    BY <1>p, <1>b, <2>1 DEF Ours, Mine
  <2>3. Uncertain \subseteq Uncertain'
    BY <1>b, <1>k, <1>p DEF Uncertain, PlanKept
  <2>4. ASSUME NEW p \in Parents, shown.parents[p] # Unread, NEW j \in Ids
        PROVE IF j \in Ours' /\ p \in ParentsOf(j)'
              THEN j \in Uncertain' \/ (j \in seen'.parents[p].attached <=> p \in DesiredParents(j)')
              ELSE j \in seen'.parents[p].attached <=> j \in shown'.parents[p].attached
    <3>1. /\ ParentsOf(j)' = ParentsOf(j) /\ DesiredParents(j)' = DesiredParents(j)
          /\ seen'.parents[p] = seen.parents[p] /\ shown'.parents[p] = shown.parents[p]
      BY <1>b, <1>k DEF PlanKept
    <3>2. CASE j \in Ours /\ p \in ParentsOf(j)
      <4>1. j \in Uncertain \/ (j \in seen.parents[p].attached <=> p \in DesiredParents(j))
        BY <2>4, <3>2 DEF IInv, ShownInv
      <4> QED
        BY <2>2, <2>3, <3>1, <3>2, <4>1
    <3>3. CASE ~(j \in Ours /\ p \in ParentsOf(j))
      <4>1. j \in seen.parents[p].attached <=> j \in shown.parents[p].attached
        BY <2>4, <3>3 DEF IInv, ShownInv
      <4> QED
        BY <2>2, <3>1, <3>3, <4>1
    <3> QED
      BY <3>2, <3>3
  <2>5. \A i \in Targets' : \A p \in ParentsOf(i)' : shown'.parents[p] # Unread
    BY <1>b, <1>k DEF IInv, ShownInv, PlanKept
  <2>6. \A p \in Parents : shown'.parents[p] # Unread =>
          seen'.parents[p] # Unread /\ seen'.parents[p].agents = shown'.parents[p].agents
    BY <1>b DEF IInv, ShownInv
  <2>7. \A k \in Packages :
          \/ seen'.packages[k] = shown'.packages[k]
          \/ shown'.packages[k] = None /\ seen'.packages[k] = "exact" /\ k \in report'.installs
    BY <1>b, <1>p DEF IInv, ShownInv
  <2> QED
    BY <1>b, <1>p, <2>4, <2>5, <2>6, <2>7 DEF ShownInv
<1>8. RowInv'
  BY <1>b, <1>k, <1>p DEF IInv, RowInv, PlanKept
<1>9. RecheckInv'
  BY <1>p DEF RecheckInv
<1>10. VerifyInv'
  BY <1>p DEF VerifyInv
<1>11. InstallsInv'
  BY <1>b, <1>p DEF InstallsInv
<1>12. CleanInv'
  <2> SUFFICES ASSUME clean' PROVE CleanInv'
    BY DEF CleanInv
  <2>1. ~NoRow.bad
    BY Zenon DEF NoRow
  <2>2. clean /\ pc # "observe" /\ r.failed = {} /\ r.applied = {} /\ blocked' = {}
    OBVIOUS
  <2>3. \A i \in Ids : \/ seen'.policies[i] = Unread \/ seen'.policies[i] = fleet'.policies[i]
                       \/ i \notin rows'
    BY <1>b, <1>p, <2>2 DEF IInv, CleanInv
  <2>4. Import' => \A i \in Targets' : \/ seen'.owners[i] = Owners(cmd.file[i].name)' \/ i \notin rows'
    <3>1. \A i \in Targets : Owners(cmd.file[i].name)' = Owners(cmd.file[i].name)
      BY <1>b DEF Owners, Existing
    <3>2. Import => \A i \in Targets : \/ seen.owners[i] = Owners(cmd.file[i].name)
                                       \/ i \notin rows
      BY <1>p, <2>2 DEF IInv, CleanInv, Planning
    <3> QED
      BY <1>b, <1>k, <3>1, <3>2 DEF PlanKept
  <2>5. \A p \in Parents : seen'.parents[p] # Unread => seen'.parents[p] = Snapshot(p)'
    BY <1>b, <1>k, <1>p, <2>2 DEF IInv, CleanInv, FleetKept
  <2>6. \A k \in Packages : seen'.packages[k] # Unread => seen'.packages[k] = fleet'.packages[k]
    BY <1>b, <1>p, <2>2 DEF IInv, CleanInv
  <2>7. Applying' /\ rows' \cup (IF Rechecking' THEN {row'.id} ELSE {}) = rows'
    BY <1>p
  <2>8. report'.failed = {} /\ report'.applied = {} /\ blocked' = {} /\ ~row'.bad /\ ~Checking'
    BY <1>p, <2>1, <2>2
  <2> QED
    BY <2>3, <2>4, <2>5, <2>6, <2>7, <2>8 DEF CleanInv
<1>13. PlanIsValid'
  BY <1>p DEF PlanIsValid
<1>14. OwnWritesAreExpected'
  BY <1>p DEF OwnWritesAreExpected
<1> QED
  BY <1>1, <1>2, <1>3, <1>4, <1>5, <1>6, <1>7, <1>8, <1>9, <1>10, <1>11, <1>12, <1>13, <1>14
     DEF IInv

(* What is known of the row at hand.                                       *)
LEMMA RowFacts ==
  ASSUME IInv, Rechecking \/ Checking
  PROVE  /\ Applying /\ pc \notin {"idle", "existing"} /\ ~Planning /\ pc # "row"
         /\ row.id \in Targets /\ row.id \in Ids /\ row.id \notin rows
         /\ PackageOf(row.id) \in Packages /\ PackageRead(row.id)
         /\ seen.policies[row.id] # Unread
         /\ \A p \in ParentsOf(row.id) : /\ p \in Parents /\ shown.parents[p] # Unread
                                         /\ seen.parents[p] # Unread
<1>1. /\ Applying /\ pc \notin {"idle", "existing"} /\ ~Planning /\ pc # "row"
  BY DEF Applying, Rechecking, Checking, Planning
<1>2. row.id \in Targets /\ row.id \notin rows
  BY <1>1 DEF IInv, RowInv
<1>3. /\ row.id \in Ids /\ row.id \in Wanted /\ PackageOf(row.id) \in Packages
      /\ ParentsOf(row.id) \subseteq Parents
  BY <1>1, <1>2, TargetFacts DEF IInv
<1>4. PackageRead(row.id)
  BY <1>1, <1>2 DEF IInv, PackagesInv
<1>5. seen.policies[row.id] \in Policy \cup {None}
  BY <1>1, <1>3 DEF IInv, PoliciesInv
<1>6. ASSUME NEW p \in ParentsOf(row.id)
      PROVE  p \in Parents /\ shown.parents[p] # Unread /\ seen.parents[p] # Unread
  BY <1>1, <1>2, <1>3 DEF IInv, ShownInv
<1> QED
  BY <1>1, <1>2, <1>3, <1>4, <1>5, <1>6, Keys DEF KeyFacts

(* A row is added to one part of the report.                               *)
LEMMA ReportFacts ==
  ASSUME ShapeInv, NEW i \in Ids
  PROVE  /\ [report EXCEPT !.failed = @ \cup {i}] \in Reports
         /\ [report EXCEPT !.unchanged = @ \cup {i}] \in Reports
         /\ [report EXCEPT !.succeeded = @ \cup {i}] \in Reports
         /\ [report EXCEPT !.applied = @ \cup {i}] \in Reports
         /\ [report EXCEPT !.failed = @ \cup {i}] =
              [report EXCEPT !.failed = report.failed \cup {i}]
BY DEF ShapeInv, Reports

(* A row that wrote nothing fails.                                         *)
LEMMA RowFailsStep ==
  ASSUME IInv, Applying, NEW i \in Ids, NextRow([report EXCEPT !.failed = @ \cup {i}]), ~row.applied,
         UNCHANGED <<fleet, cmd, seen, outcome, shown, lost>>, rows' \subseteq rows, edits' \in Nat,
         blocked \subseteq blocked', blocked' \subseteq Packages, ~clean',
         \A k \in Packages : shown.packages[k] = None /\ fleet.packages[k] = "exact" =>
           k \in report.installs \cup blocked' \/ <<"package", k>> \in raced'
  PROVE  IInv'
<1> DEFINE r == [report EXCEPT !.failed = @ \cup {i}]
<1>1. /\ r \in Reports /\ r.succeeded = report.succeeded /\ r.applied = report.applied
      /\ r.installs = report.installs
  BY ReportFacts DEF IInv, ShapeInv, Reports
<1>2. r.succeeded \cup r.applied \cup lost = Ours
  BY <1>1 DEF Ours, Mine
<1> HIDE DEF r
<1>3. NextRow(r)
  BY DEF r
<1> QED
  BY <1>1, <1>2, <1>3, RowEndsStep

(* What was installed before a row looks again is known, unless others     *)
(* did it.                                                                 *)
LEMMA InstallsAreKnown ==
  ASSUME IInv, Applying, pc # "observe", NEW k \in Packages,
         shown.packages[k] = None, fleet.packages[k] = "exact"
  PROVE  k \in report.installs \cup blocked \/ <<"package", k>> \in raced
BY DEF IInv, InstallsInv

(* A package that a row found as it expected it, and that was to be        *)
(* installed, was installed by a row before.                               *)
LEMMA ExactIsKnown ==
  ASSUME IInv, Applying, NEW k \in Packages, shown.packages[k] = None, seen.packages[k] = "exact"
  PROVE  k \in report.installs
BY Keys DEF IInv, ShownInv, KeyFacts

(* A row goes on, and nothing that was read, written or reported changes. *)
LEMMA RowGoesOnStep ==
  ASSUME IInv, Rechecking \/ pc = "row" \/ pc = "verify" \/ pc = "observe", Rechecking' \/ Checking',
         row' \in Rows, todo' \subseteq Nat \X Nat, pc' \in Labels,
         UNCHANGED <<fleet, cmd, seen, report, outcome, shown, lost>>, rows' \subseteq rows, edits' \in Nat,
         blocked \subseteq blocked', blocked' \subseteq Packages,
         row'.applied = row.applied, row.applied => row'.id = row.id,
         RowInv', RecheckInv', VerifyInv', InstallsInv',
         clean' => /\ clean /\ pc # "observe" /\ blocked' = {} /\ ~row'.bad
                   /\ rows' \cup (IF Rechecking' THEN {row'.id} ELSE {}) \subseteq
                        rows \cup (IF Rechecking THEN {row.id} ELSE {})
                   /\ Checking' => Checking /\ row'.id = row.id /\ row'.observed \in {Unread, "exact"}
  PROVE  IInv'
<1>p. /\ Applying /\ Applying' /\ pc' # "row" /\ pc' \notin {"idle", "existing"} /\ ~Planning'
      /\ pc \notin {"idle", "existing"} /\ ~Planning
  BY DEF Applying, Rechecking, Checking, Planning
<1>b. UNCHANGED <<fleet, cmd, seen, report, outcome, shown, lost>>
  OBVIOUS
<1>k. PlanKept /\ FleetKept
  BY <1>b, PlanIsKept, FleetIsKept
<1>1. ShapeInv'
  BY <1>b, <1>p DEF IInv, ShapeInv, Labels
<1>2. FreshInv'
  BY <1>p DEF FreshInv
<1>3. PoliciesInv'
  BY <1>b, <1>k, <1>p DEF IInv, PoliciesInv, PlanKept
<1>4. OwnersInv'
  BY <1>b, <1>k, <1>p DEF IInv, OwnersInv, OwnersMatch, PlanKept
<1>5. ParentsInv'
  BY <1>p DEF ParentsInv, Planning
<1>6. PackagesInv'
  BY <1>b, <1>k, <1>p DEF IInv, PackagesInv, PackageRead, PlanKept, Planning
<1>7. ShownInv'
  <2>2. Ours' = Ours
    BY <1>b DEF Ours, Mine
  <2>3. Uncertain' = Uncertain
    BY <1>b, <1>k DEF Uncertain, PlanKept
  <2>4. ShownInv /\ Applying /\ pc' # "planned"
    BY <1>p DEF IInv, Planning
  <2> QED
    BY <1>b, <1>k, <1>p, <2>2, <2>3, <2>4 DEF ShownInv, PlanKept
<1>8. RowInv'
  OBVIOUS
<1>9. RecheckInv'
  OBVIOUS
<1>10. VerifyInv'
  OBVIOUS
<1>11. InstallsInv'
  OBVIOUS
<1>12. CleanInv'
  <2> SUFFICES ASSUME clean' PROVE CleanInv'
    BY DEF CleanInv
  <2>2. clean /\ pc # "observe" /\ blocked' = {} /\ ~row'.bad
    OBVIOUS
  <2>a. rows' \cup (IF Rechecking' THEN {row'.id} ELSE {}) \subseteq
          rows \cup (IF Rechecking THEN {row.id} ELSE {})
    OBVIOUS
  <2>3. \A i \in Ids : \/ seen'.policies[i] = Unread \/ seen'.policies[i] = fleet'.policies[i]
                       \/ i \notin rows' \cup (IF Rechecking' THEN {row'.id} ELSE {})
    BY <1>b, <1>p, <2>2, <2>a DEF IInv, CleanInv
  <2>4. Import' => \A i \in Targets' : \/ seen'.owners[i] = Owners(cmd.file[i].name)'
                                       \/ i \notin rows' \cup (IF Rechecking' THEN {row'.id} ELSE {})
    <3>1. \A i \in Targets : Owners(cmd.file[i].name)' = Owners(cmd.file[i].name)
      BY <1>b DEF Owners, Existing
    <3>2. Import => \A i \in Targets : \/ seen.owners[i] = Owners(cmd.file[i].name)
                                       \/ i \notin rows \cup (IF Rechecking THEN {row.id} ELSE {})
      BY <1>p, <2>2 DEF IInv, CleanInv, Planning
    <3> QED
      BY <1>b, <1>k, <2>a, <3>1, <3>2 DEF PlanKept
  <2>5. \A p \in Parents : seen'.parents[p] # Unread => seen'.parents[p] = Snapshot(p)'
    BY <1>b, <1>k, <1>p, <2>2 DEF IInv, CleanInv, FleetKept
  <2>6. \A k \in Packages : seen'.packages[k] # Unread => seen'.packages[k] = fleet'.packages[k]
    BY <1>b, <1>p, <2>2 DEF IInv, CleanInv
  <2>8. report'.failed = {} /\ report'.applied = {} /\ blocked' = {} /\ ~row'.bad
    BY <1>b, <1>p, <2>2 DEF IInv, CleanInv
  <2>9. Checking' => /\ row'.applied /\ fleet'.policies[row'.id] = cmd'.file[row'.id]
                     /\ fleet'.packages[PackageOf(row.id)'] = "exact"
                     /\ row'.observed \in {Unread, "exact"}
    <3> SUFFICES ASSUME Checking'
                 PROVE  /\ row'.applied /\ fleet'.policies[row'.id] = cmd'.file[row'.id]
                        /\ fleet'.packages[PackageOf(row.id)'] = "exact"
                        /\ row'.observed \in {Unread, "exact"}
      OBVIOUS
    <3>1. Checking /\ row'.id = row.id /\ row'.observed \in {Unread, "exact"}
      OBVIOUS
    <3>2. PackageOf(row.id)' = PackageOf(row.id)
      BY <1>b, <3>1 DEF PackageOf, Import
    <3> QED
      BY <1>b, <1>p, <2>2, <3>1, <3>2 DEF IInv, CleanInv
  <2> QED
    BY <1>p, <2>3, <2>4, <2>5, <2>6, <2>8, <2>9 DEF CleanInv
<1>13. PlanIsValid'
  BY <1>p DEF PlanIsValid, Planning
<1>14. OwnWritesAreExpected'
  BY <1>p DEF OwnWritesAreExpected
<1> QED
  BY <1>1, <1>2, <1>3, <1>4, <1>5, <1>6, <1>7, <1>8, <1>9, <1>10, <1>11, <1>12, <1>13, <1>14
     DEF IInv

(* A row whose package is blocked fails at once. *)
LEMMA BeginBlockedStep ==
  ASSUME IInv, BeginRow, PackageOf(Least(rows)) \in blocked
  PROVE  IInv'
<1> DEFINE i == Least(rows)
<1>1. pc = "row" /\ Applying /\ rows \subseteq Targets /\ row = NoRow
  BY DEF BeginRow, Applying, IInv, RowInv
<1>2. i \in rows /\ i \in Ids
  <2>1. rows \subseteq Nat /\ rows # {} /\ rows \subseteq Ids
    BY Keys DEF BeginRow, IInv, ShapeInv, KeyFacts
  <2> QED
    BY <2>1, LeastFacts
<1>3. NextRow([report EXCEPT !.failed = @ \cup {i}]) /\ rows' \subseteq rows
  BY DEF BeginRow
<1>4. UNCHANGED <<fleet, cmd, seen, outcome, shown, lost, blocked, raced, clean, edits>>
  BY DEF BeginRow
<1>5. ~row.applied
  BY <1>1, Zenon DEF NoRow
<1>6. ~clean
  BY <1>1 DEF IInv, CleanInv
<1>7. blocked' \subseteq Packages /\ edits' \in Nat
  BY <1>4 DEF IInv, ShapeInv
<1>8. pc # "observe"
  BY <1>1
<1> HIDE DEF i
<1> QED
  BY <1>1, <1>2, <1>3, <1>4, <1>5, <1>6, <1>7, <1>8, InstallsAreKnown, RowFailsStep

(* A row begins. *)
LEMMA BeginRowStep ==
  ASSUME IInv, BeginRow, PackageOf(Least(rows)) \notin blocked
  PROVE  IInv'
<1> DEFINE i == Least(rows)
<1>1. pc = "row" /\ Applying /\ rows \subseteq Targets /\ row = NoRow /\ ~Rechecking
  BY DEF BeginRow, Applying, Rechecking, IInv, RowInv
<1>2. i \in rows /\ i \in Ids /\ i \in Targets
  <2>1. rows \subseteq Nat /\ rows # {} /\ rows \subseteq Ids
    BY Keys DEF BeginRow, IInv, ShapeInv, KeyFacts
  <2> QED
    BY <1>1, <2>1, LeastFacts
<1>3. /\ pc' = "object" /\ row' = [NoRow EXCEPT !.id = i] /\ rows' = rows \ {i}
      /\ rows' \subseteq rows
  BY DEF BeginRow
<1>4. UNCHANGED <<fleet, cmd, seen, report, todo, outcome, shown, lost, blocked, raced, clean, edits>>
  BY DEF BeginRow
<1>5. NoRow \in Rows /\ ~NoRow.applied /\ ~NoRow.bad
  <2>1. ~NoRow.applied /\ ~NoRow.bad
    BY Zenon DEF NoRow
  <2> QED
    BY <2>1, FirstValues
<1>6. /\ row' \in Rows /\ row'.id = i /\ row'.applied = NoRow.applied /\ row'.bad = NoRow.bad
      /\ row'.observed = Unread
  BY <1>2, <1>3, <1>5 DEF Rows, NoRow
<1>7. Rechecking' /\ ~Checking' /\ pc' # "row" /\ ~Planning' /\ Applying'
  BY <1>3 DEF Rechecking, Checking, Planning, Applying
<1>8. PlanKept
  BY <1>4, PlanIsKept
<1>9. RowInv'
  BY <1>1, <1>2, <1>3, <1>5, <1>6, <1>7, <1>8 DEF RowInv, PlanKept
<1>10. RecheckInv' /\ VerifyInv'
  BY <1>3 DEF RecheckInv, VerifyInv
<1>11. InstallsInv'
  BY <1>1, <1>3, <1>4, InstallsAreKnown DEF InstallsInv
<1>12. clean' => clean /\ blocked' = {} /\ ~row'.bad
  BY <1>1, <1>4, <1>5, <1>6 DEF IInv, CleanInv
<1>13. rows' \cup (IF Rechecking' THEN {row'.id} ELSE {}) \subseteq rows \cup (IF Rechecking THEN {row.id} ELSE {})
  BY <1>2, <1>3, <1>6
<1>14. /\ todo' \subseteq Nat \X Nat /\ pc' \in Labels /\ edits' \in Nat
       /\ blocked' \subseteq Packages
  BY <1>3, <1>4 DEF IInv, ShapeInv, Labels
<1>15. row'.applied = row.applied /\ ~row.applied
  BY <1>1, <1>5, <1>6
<1> HIDE DEF i
<1> QED
  BY <1>1, <1>3, <1>4, <1>6, <1>7, <1>9, <1>10, <1>11, <1>12, <1>13, <1>14, <1>15, RowGoesOnStep

(* All rows are over. *)
LEMMA RowsDoneStep ==
  ASSUME IInv, RowsDone
  PROVE  IInv'
<1>1. pc = "row" /\ Return("done") /\ UNCHANGED <<fleet, report, clean, edits>>
  BY DEF RowsDone
<1>2. clean => report.failed = {} /\ report.applied = {}
  BY <1>1 DEF IInv, CleanInv
<1>3. fleet' \in FleetState /\ edits' \in Nat
  BY <1>1 DEF IInv, ShapeInv
<1> QED
  BY <1>1, <1>2, <1>3, ReturnStep

(* The policy is not what was shown: the row fails. *)
LEMMA ObjectChangedStep ==
  ASSUME IInv, RecheckObject, fleet.policies[row.id] # seen.policies[row.id]
  PROVE  IInv'
<1>1. /\ pc = "object" /\ Rechecking /\ Applying /\ ~Planning
      /\ pc \notin {"idle", "existing"} /\ ~row.applied
      /\ row.id \in Ids /\ row.id \in Targets /\ row.id \notin rows
  <2>1. pc = "object"
    BY DEF RecheckObject
  <2>2. Rechecking
    BY <2>1 DEF Rechecking
  <2> QED
    BY <2>1, <2>2, RowFacts DEF IInv, RowInv
<1>2. /\ NextRow([report EXCEPT !.failed = @ \cup {row.id}]) /\ rows' = rows
      /\ UNCHANGED <<fleet, cmd, seen, outcome, shown, lost, clean, edits>>
      /\ \A k \in Packages : <<"package", k>> \in raced => <<"package", k>> \in raced'
      /\ blocked' = blocked
  BY DEF RecheckObject, RowFails, Reread
<1>3. ~clean
  <2> SUFFICES ASSUME clean PROVE FALSE
    OBVIOUS
  <2>1. seen.policies[row.id] # Unread
    BY <1>1, RowFacts
  <2> QED
    BY <1>1, <2>1 DEF IInv, CleanInv
<1>4. blocked' \subseteq Packages /\ edits' \in Nat
  BY <1>2 DEF IInv, ShapeInv
<1>5. \A k \in Packages : shown.packages[k] = None /\ fleet.packages[k] = "exact" =>
        k \in report.installs \cup blocked' \/ <<"package", k>> \in raced'
  BY <1>1, <1>2, InstallsAreKnown
<1> QED
  BY <1>1, <1>2, <1>3, <1>4, <1>5, RowFailsStep

(* The name has another owner: the row fails. *)
LEMMA OwnerChangedStep ==
  ASSUME IInv, RecheckOwner, Owners(cmd.file[row.id].name) # seen.owners[row.id]
  PROVE  IInv'
<1>1. /\ pc = "owner" /\ Rechecking /\ Applying /\ ~Planning /\ pc \notin {"idle", "existing"}
      /\ ~row.applied
      /\ row.id \in Ids /\ row.id \in Targets /\ row.id \notin rows
  <2>1. pc = "owner"
    BY DEF RecheckOwner
  <2>2. Rechecking
    BY <2>1 DEF Rechecking
  <2> QED
    BY <2>1, <2>2, RowFacts DEF IInv, RowInv
<1>2. /\ NextRow([report EXCEPT !.failed = @ \cup {row.id}]) /\ rows' = rows
      /\ UNCHANGED <<fleet, cmd, seen, outcome, shown, lost, clean, edits>>
      /\ \A k \in Packages : <<"package", k>> \in raced => <<"package", k>> \in raced'
      /\ blocked' = blocked
  BY DEF RecheckOwner, RowFails, Reread
<1>3. ~clean
  <2>1. Import
    BY <1>1 DEF IInv, RowInv
  <2> QED
    BY <1>1, <2>1 DEF IInv, CleanInv
<1>4. blocked' \subseteq Packages /\ edits' \in Nat
  BY <1>2 DEF IInv, ShapeInv
<1>5. \A k \in Packages : shown.packages[k] = None /\ fleet.packages[k] = "exact" =>
        k \in report.installs \cup blocked' \/ <<"package", k>> \in raced'
  BY <1>1, <1>2, InstallsAreKnown
<1> QED
  BY <1>1, <1>2, <1>3, <1>4, <1>5, RowFailsStep

(* A parent is not what the command expects: the row fails. *)
LEMMA ParentChangedStep ==
  ASSUME IInv, RecheckParent, ~SameParent(First(todo)[2])
  PROVE  IInv'
<1>1. /\ pc = "parent" /\ Rechecking /\ Applying /\ ~Planning
      /\ pc \notin {"idle", "existing"} /\ ~row.applied
      /\ row.id \in Ids /\ row.id \in Targets /\ row.id \notin rows
  <2>1. pc = "parent"
    BY DEF RecheckParent
  <2>2. Rechecking
    BY <2>1 DEF Rechecking
  <2> QED
    BY <2>1, <2>2, RowFacts DEF IInv, RowInv
<1>2. /\ NextRow([report EXCEPT !.failed = @ \cup {row.id}]) /\ rows' = rows
      /\ UNCHANGED <<fleet, cmd, seen, outcome, shown, lost, clean, edits>>
      /\ \A k \in Packages : <<"package", k>> \in raced => <<"package", k>> \in raced'
      /\ blocked' = blocked
  BY DEF RecheckParent, RowFails, Reread
<1>3. ~clean
  <2>1. First(todo) \in todo
    BY FirstOfTodo DEF RecheckParent
  <2>2. First(todo)[2] \in ParentsOf(row.id)
    BY <1>1, <2>1 DEF IInv, RecheckInv
  <2> QED
    BY <1>1, <2>2, RowFacts DEF IInv, CleanInv, SameParent
<1>4. blocked' \subseteq Packages /\ edits' \in Nat
  BY <1>2 DEF IInv, ShapeInv
<1>5. \A k \in Packages : shown.packages[k] = None /\ fleet.packages[k] = "exact" =>
        k \in report.installs \cup blocked' \/ <<"package", k>> \in raced'
  BY <1>1, <1>2, InstallsAreKnown
<1> QED
  BY <1>1, <1>2, <1>3, <1>4, <1>5, RowFailsStep

(* The policy is what was shown. *)
LEMMA RecheckObjectStep ==
  ASSUME IInv, RecheckObject, fleet.policies[row.id] = seen.policies[row.id]
  PROVE  IInv'
<1>1. /\ pc = "object" /\ Rechecking /\ Applying /\ ~Planning
      /\ pc \notin {"idle", "existing"} /\ ~row.applied
      /\ row.id \in Ids /\ row.id \in Targets /\ row.id \notin rows
  <2>1. pc = "object"
    BY DEF RecheckObject
  <2>2. Rechecking
    BY <2>1 DEF Rechecking
  <2> QED
    BY <2>1, <2>2, RowFacts DEF IInv, RowInv
<1>2. /\ pc' = (IF Import THEN "owner" ELSE "parent")
      /\ todo' = (IF Import THEN {} ELSE {<<row.id, p>> : p \in ParentsOf(row.id)})
      /\ rows' = rows /\ row' = row
      /\ UNCHANGED <<fleet, cmd, seen, report, outcome, shown, lost, clean, edits, blocked>>
      /\ \A k \in Packages : <<"package", k>> \in raced => <<"package", k>> \in raced'
  BY <1>1 DEF RecheckObject, Reread
<1>3. /\ Rechecking' /\ ~Checking' /\ pc' # "row" /\ ~Planning' /\ Applying'
      /\ pc' \notin {"observe", "verify", "verifyPackage"}
      /\ pc' \in Labels
  BY <1>1, <1>2 DEF Rechecking, Checking, Planning, Applying, Labels, IInv, RowInv
<1>4. PlanKept /\ FleetKept
  BY <1>2, PlanIsKept, FleetIsKept
<1>5. RowInv'
  BY <1>1, <1>2, <1>3, <1>4 DEF IInv, RowInv, PlanKept
<1>6. RecheckInv'
  <2>1. fleet'.policies[row'.id] = seen'.policies[row'.id]
    BY <1>2
  <2>2. ParentsOf(row.id)' = ParentsOf(row.id)
    BY <1>2, <1>4 DEF PlanKept
  <2> QED
    BY <1>2, <2>1, <2>2 DEF RecheckInv
<1>7. VerifyInv'
  BY <1>3 DEF VerifyInv
<1>8. InstallsInv'
  BY <1>1, <1>2, <1>3, InstallsAreKnown DEF InstallsInv
<1>9. clean' => clean /\ blocked' = {} /\ ~row'.bad
  BY <1>1, <1>2 DEF IInv, CleanInv
<1>10. rows' \cup (IF Rechecking' THEN {row'.id} ELSE {}) \subseteq rows \cup (IF Rechecking THEN {row.id} ELSE {})
  BY <1>1, <1>2
<1>11. todo' \subseteq Nat \X Nat
  <2>1. ParentsOf(row.id) \subseteq Nat /\ row.id \in Nat
    BY <1>1, RowFacts, Keys DEF KeyFacts
  <2> HIDE DEF ParentsOf
  <2> QED
    BY <1>2, <2>1
<1>12. edits' \in Nat /\ blocked' \subseteq Packages /\ row' \in Rows
  BY <1>2 DEF IInv, ShapeInv
<1>13. pc # "observe"
  BY <1>1
<1> QED
  BY <1>1, <1>2, <1>3, <1>5, <1>6, <1>7, <1>8, <1>9, <1>10, <1>11, <1>12, <1>13, RowGoesOnStep

(* The name has the owner that was shown. *)
LEMMA RecheckOwnerStep ==
  ASSUME IInv, RecheckOwner, Owners(cmd.file[row.id].name) = seen.owners[row.id]
  PROVE  IInv'
<1>1. /\ pc = "owner" /\ Rechecking /\ Applying /\ ~Planning /\ pc \notin {"idle", "existing"}
      /\ ~row.applied
      /\ row.id \in Ids /\ row.id \in Targets /\ row.id \notin rows
  <2>1. pc = "owner"
    BY DEF RecheckOwner
  <2>2. Rechecking
    BY <2>1 DEF Rechecking
  <2> QED
    BY <2>1, <2>2, RowFacts DEF IInv, RowInv
<1>2. /\ pc' = "parent" /\ todo' = {<<row.id, p>> : p \in ParentsOf(row.id)} /\ raced' = raced
      /\ rows' = rows /\ row' = row
      /\ UNCHANGED <<fleet, cmd, seen, report, outcome, shown, lost, clean, edits, blocked>>
      /\ \A k \in Packages : <<"package", k>> \in raced => <<"package", k>> \in raced'
  BY <1>1 DEF RecheckOwner, Reread
<1>3. /\ Rechecking' /\ ~Checking' /\ pc' # "row" /\ ~Planning' /\ Applying'
      /\ pc' \notin {"observe", "verify", "verifyPackage"}
      /\ pc' \in Labels
  BY <1>1, <1>2 DEF Rechecking, Checking, Planning, Applying, Labels, IInv, RowInv
<1>4. PlanKept /\ FleetKept
  BY <1>2, PlanIsKept, FleetIsKept
<1>5. RowInv'
  BY <1>1, <1>2, <1>3, <1>4 DEF IInv, RowInv, PlanKept
<1>6. RecheckInv'
  <2>1. <<"policy", row.id>> \in raced \/ fleet.policies[row.id] = seen.policies[row.id]
    BY <1>1 DEF IInv, RecheckInv
  <2>2. ParentsOf(row.id)' = ParentsOf(row.id)
    BY <1>2, <1>4 DEF PlanKept
  <2> QED
    BY <1>2, <2>1, <2>2 DEF RecheckInv
<1>7. VerifyInv'
  BY <1>3 DEF VerifyInv
<1>8. InstallsInv'
  BY <1>1, <1>2, <1>3, InstallsAreKnown DEF InstallsInv
<1>9. clean' => clean /\ blocked' = {} /\ ~row'.bad
  BY <1>1, <1>2 DEF IInv, CleanInv
<1>10. rows' \cup (IF Rechecking' THEN {row'.id} ELSE {}) \subseteq rows \cup (IF Rechecking THEN {row.id} ELSE {})
  BY <1>1, <1>2
<1>11. todo' \subseteq Nat \X Nat
  <2>1. ParentsOf(row.id) \subseteq Nat /\ row.id \in Nat
    BY <1>1, RowFacts, Keys DEF KeyFacts
  <2> HIDE DEF ParentsOf
  <2> QED
    BY <1>2, <2>1
<1>12. edits' \in Nat /\ blocked' \subseteq Packages /\ row' \in Rows
  BY <1>2 DEF IInv, ShapeInv
<1>13. pc # "observe"
  BY <1>1
<1> QED
  BY <1>1, <1>2, <1>3, <1>5, <1>6, <1>7, <1>8, <1>9, <1>10, <1>11, <1>12, <1>13, RowGoesOnStep

(* A parent is what the command expects. *)
LEMMA RecheckParentStep ==
  ASSUME IInv, RecheckParent, SameParent(First(todo)[2])
  PROVE  IInv'
<1>1. /\ pc = "parent" /\ Rechecking /\ Applying /\ ~Planning
      /\ pc \notin {"idle", "existing"} /\ ~row.applied
      /\ row.id \in Ids /\ row.id \in Targets /\ row.id \notin rows
  <2>1. pc = "parent"
    BY DEF RecheckParent
  <2>2. Rechecking
    BY <2>1 DEF Rechecking
  <2> QED
    BY <2>1, <2>2, RowFacts DEF IInv, RowInv
<1>2. /\ pc' = "parent" /\ todo' = todo \ {First(todo)}
      /\ raced' = raced \ {<<"parent", First(todo)[2]>>} /\ rows' = rows /\ row' = row
      /\ UNCHANGED <<fleet, cmd, seen, report, outcome, shown, lost, clean, edits, blocked>>
      /\ \A k \in Packages : <<"package", k>> \in raced => <<"package", k>> \in raced'
  BY <1>1 DEF RecheckParent, Reread
<1>3. /\ Rechecking' /\ ~Checking' /\ pc' # "row" /\ ~Planning' /\ Applying'
      /\ pc' \notin {"observe", "verify", "verifyPackage"}
      /\ pc' \in Labels
  BY <1>1, <1>2 DEF Rechecking, Checking, Planning, Applying, Labels, IInv, RowInv
<1>4. PlanKept /\ FleetKept
  BY <1>2, PlanIsKept, FleetIsKept
<1>5. RowInv'
  BY <1>1, <1>2, <1>3, <1>4 DEF IInv, RowInv, PlanKept
<1>6. RecheckInv'
  <2>1. First(todo) \in todo /\ todo \subseteq {<<row.id, p>> : p \in ParentsOf(row.id)}
    BY <1>1, FirstOfTodo DEF RecheckParent, IInv, RecheckInv
  <2>2. First(todo) = <<row.id, First(todo)[2]>>
    BY <2>1
  <2>3. ParentsOf(row.id)' = ParentsOf(row.id)
    BY <1>2, <1>4 DEF PlanKept
  <2>4. ASSUME NEW p \in ParentsOf(row.id)
        PROVE  <<row.id, p>> \in todo' \/ <<"parent", p>> \in raced' \/ Snapshot(p)' = seen'.parents[p]
    <3>1. CASE p = First(todo)[2]
      BY <1>2, <1>4, <3>1 DEF FleetKept, SameParent
    <3>2. CASE p # First(todo)[2]
      <4>1. <<row.id, p>> \in todo \/ <<"parent", p>> \in raced \/ Snapshot(p) = seen.parents[p]
        BY <1>1 DEF IInv, RecheckInv
      <4>2. <<row.id, p>> # First(todo) /\ <<"parent", p>> # <<"parent", First(todo)[2]>>
        BY <2>2, <3>2
      <4> QED
        BY <1>2, <1>4, <4>1, <4>2 DEF FleetKept
    <3> QED
      BY <3>1, <3>2
  <2>5. <<"policy", row.id>> \in raced' \/ fleet'.policies[row.id] = seen'.policies[row.id]
    BY <1>1, <1>2 DEF IInv, RecheckInv
  <2> QED
    BY <1>2, <2>1, <2>3, <2>4, <2>5 DEF RecheckInv
<1>7. VerifyInv'
  BY <1>3 DEF VerifyInv
<1>8. InstallsInv'
  BY <1>1, <1>2, <1>3, InstallsAreKnown DEF InstallsInv
<1>9. clean' => clean /\ blocked' = {} /\ ~row'.bad
  BY <1>1, <1>2 DEF IInv, CleanInv
<1>10. rows' \cup (IF Rechecking' THEN {row'.id} ELSE {}) \subseteq rows \cup (IF Rechecking THEN {row.id} ELSE {})
  BY <1>1, <1>2
<1>11. todo' \subseteq Nat \X Nat
  BY <1>2 DEF IInv, ShapeInv
<1>12. edits' \in Nat /\ blocked' \subseteq Packages /\ row' \in Rows
  BY <1>2 DEF IInv, ShapeInv
<1>13. pc # "observe"
  BY <1>1
<1> QED
  BY <1>1, <1>2, <1>3, <1>5, <1>6, <1>7, <1>8, <1>9, <1>10, <1>11, <1>12, <1>13, RowGoesOnStep

(* The package is not what the command expects: the row fails, and its package is blocked. *)
LEMMA PackageChangedStep ==
  ASSUME IInv, RecheckPackage, ~SamePackage(PackageOf(row.id))
  PROVE  IInv'
<1>1. /\ pc = "parent" /\ Rechecking /\ Applying /\ ~Planning
      /\ pc \notin {"idle", "existing"} /\ ~row.applied
      /\ row.id \in Ids /\ row.id \in Targets /\ row.id \notin rows
  <2>1. pc = "parent"
    BY DEF RecheckPackage
  <2>2. Rechecking
    BY <2>1 DEF Rechecking
  <2> QED
    BY <2>1, <2>2, RowFacts DEF IInv, RowInv
<1>2. /\ NextRow([report EXCEPT !.failed = @ \cup {row.id}]) /\ rows' = rows
      /\ UNCHANGED <<fleet, cmd, seen, outcome, shown, lost, clean, edits>>
      /\ raced' = raced \ {<<"package", PackageOf(row.id)>>} /\ blocked' = Block(row.id)
  BY DEF RecheckPackage, RowFails, Reread
<1>3. /\ PackageOf(row.id) \in Packages /\ PackageRead(row.id)
      /\ seen.packages[PackageOf(row.id)] # Unread
  BY <1>1, RowFacts, Keys DEF PackageRead, KeyFacts
<1>4. ~clean
  BY <1>1, <1>3 DEF IInv, CleanInv, SamePackage
<1>5. blocked' \subseteq Packages /\ edits' \in Nat /\ blocked \subseteq blocked'
  BY <1>2, <1>3 DEF IInv, ShapeInv, Block
<1>6. ASSUME NEW k \in Packages, shown.packages[k] = None, fleet.packages[k] = "exact"
      PROVE  k \in report.installs \cup blocked' \/ <<"package", k>> \in raced'
  <2>1. CASE k # PackageOf(row.id)
    <3>1. <<"package", k>> # <<"package", PackageOf(row.id)>>
      BY <2>1
    <3> QED
      BY <1>1, <1>2, <1>5, <1>6, <3>1, InstallsAreKnown
  <2>2. CASE k = PackageOf(row.id)
    <3>1. CASE Import
      BY <1>2, <2>2, <3>1 DEF Block
    <3>2. CASE ~Import
      <4>1. Exists(row.id)
        BY <1>1, <3>2, TargetFacts DEF IInv
      <4>2. seen.packages[k] = "exact"
        BY <1>3, <2>2, <4>1 DEF PackageRead
      <4> QED
        BY <1>1, <1>6, <4>2, ExactIsKnown
    <3> QED
      BY <3>1, <3>2
  <2> QED
    BY <2>1, <2>2
<1> QED
  BY <1>1, <1>2, <1>4, <1>5, <1>6, RowFailsStep

(* A policy that is already what the file says is not written. *)
LEMMA UnchangedStep ==
  ASSUME IInv, RecheckPackage, SamePackage(PackageOf(row.id)), Unchanged(row.id)
  PROVE  IInv'
<1>1. /\ pc = "parent" /\ Rechecking /\ Applying /\ ~Planning
      /\ pc \notin {"idle", "existing"} /\ ~row.applied
      /\ row.id \in Ids /\ row.id \in Targets /\ row.id \notin rows
  <2>1. pc = "parent"
    BY DEF RecheckPackage
  <2>2. Rechecking
    BY <2>1 DEF Rechecking
  <2> QED
    BY <2>1, <2>2, RowFacts DEF IInv, RowInv
<1> DEFINE r == [report EXCEPT !.unchanged = @ \cup {row.id}]
<1>2. /\ NextRow(r) /\ rows' = rows
      /\ UNCHANGED <<fleet, cmd, seen, outcome, shown, lost, clean, edits, blocked>>
      /\ raced' = raced \ {<<"package", PackageOf(row.id)>>}
  BY DEF RecheckPackage, Reread
<1>3. /\ r \in Reports /\ r.succeeded = report.succeeded /\ r.applied = report.applied
      /\ r.installs = report.installs /\ r.failed = report.failed
  BY <1>1, ReportFacts DEF IInv, ShapeInv, Reports
<1>4. r.succeeded \cup r.applied \cup lost = Ours
  BY <1>1, <1>3 DEF Ours, Mine
<1>5. blocked' \subseteq Packages /\ edits' \in Nat
  BY <1>2 DEF IInv, ShapeInv
<1>i. ASSUME NEW k \in Packages, shown.packages[k] = None, fleet.packages[k] = "exact"
      PROVE  k \in report.installs \cup blocked' \/ <<"package", k>> \in raced'
  <2>1. CASE k # PackageOf(row.id)
    <3>1. <<"package", k>> # <<"package", PackageOf(row.id)>>
      BY <2>1
    <3> QED
      BY <1>1, <1>2, <1>i, <3>1, InstallsAreKnown
  <2>2. CASE k = PackageOf(row.id)
    <3>1. seen.packages[k] = "exact"
      BY <1>i, <2>2 DEF SamePackage
    <3> QED
      BY <1>1, <1>i, <3>1, ExactIsKnown
  <2> QED
    BY <2>1, <2>2
<1>6. clean' => clean /\ pc # "observe" /\ r.failed = {} /\ r.applied = {} /\ blocked' = {}
  BY <1>1, <1>2, <1>3 DEF IInv, CleanInv
<1> HIDE DEF r
<1> QED
  BY <1>1, <1>2, <1>3, <1>4, <1>5, <1>i, <1>6, RowEndsStep

(* All of the row is as the command expects: it writes. *)
LEMMA RecheckPackageStep ==
  ASSUME IInv, RecheckPackage, SamePackage(PackageOf(row.id)), ~Unchanged(row.id)
  PROVE  IInv'
<1>1. /\ pc = "parent" /\ Rechecking /\ Applying /\ ~Planning
      /\ pc \notin {"idle", "existing"} /\ ~row.applied
      /\ row.id \in Ids /\ row.id \in Targets /\ row.id \notin rows
  <2>1. pc = "parent"
    BY DEF RecheckPackage
  <2>2. Rechecking
    BY <2>1 DEF Rechecking
  <2> QED
    BY <2>1, <2>2, RowFacts DEF IInv, RowInv
<1>2. /\ pc' = "write" /\ todo = {} /\ todo' = todo
      /\ raced' = raced \ {<<"package", PackageOf(row.id)>>} /\ rows' = rows /\ row' = row
      /\ UNCHANGED <<fleet, cmd, seen, report, outcome, shown, lost, clean, edits, blocked>>
  BY <1>1 DEF RecheckPackage, Reread
<1>3. /\ Rechecking' /\ ~Checking' /\ pc' # "row" /\ ~Planning' /\ Applying'
      /\ pc' \notin {"observe", "verify", "verifyPackage"}
      /\ pc' \in Labels
  BY <1>1, <1>2 DEF Rechecking, Checking, Planning, Applying, Labels, IInv, RowInv
<1>4. PlanKept /\ FleetKept
  BY <1>2, PlanIsKept, FleetIsKept
<1>5. RowInv'
  BY <1>1, <1>2, <1>3, <1>4 DEF IInv, RowInv, PlanKept
<1>6. RecheckInv'
  <2>1. PackageOf(row.id)' = PackageOf(row.id) /\ ParentsOf(row.id)' = ParentsOf(row.id)
    BY <1>2, <1>4 DEF PlanKept
  <2>2. fleet'.packages[PackageOf(row.id)] = seen'.packages[PackageOf(row.id)]
    BY <1>2 DEF SamePackage
  <2>3. <<"policy", row.id>> \in raced' \/ fleet'.policies[row.id] = seen'.policies[row.id]
    BY <1>1, <1>2 DEF IInv, RecheckInv
  <2>4. \A p \in ParentsOf(row.id) : <<"parent", p>> \in raced' \/ Snapshot(p)' = seen'.parents[p]
    BY <1>1, <1>2, <1>4 DEF IInv, RecheckInv, FleetKept
  <2> QED
    BY <1>2, <2>1, <2>2, <2>3, <2>4 DEF RecheckInv
<1>7. VerifyInv'
  BY <1>3 DEF VerifyInv
<1>8. InstallsInv'
  <2>1. \A k \in Packages : shown.packages[k] = None /\ fleet.packages[k] = "exact" =>
          k \in report.installs \cup blocked' \/ <<"package", k>> \in raced'
    <3> SUFFICES ASSUME NEW k \in Packages, shown.packages[k] = None, fleet.packages[k] = "exact"
                 PROVE  k \in report.installs \cup blocked' \/ <<"package", k>> \in raced'
      OBVIOUS
    <3>1. CASE k # PackageOf(row.id)
      <4>1. <<"package", k>> # <<"package", PackageOf(row.id)>>
        BY <3>1
      <4> QED
        BY <1>1, <1>2, <4>1, InstallsAreKnown
    <3>2. CASE k = PackageOf(row.id)
      <4>1. seen.packages[k] = "exact"
        BY <3>2 DEF SamePackage
      <4> QED
        BY <1>1, <4>1, ExactIsKnown
    <3> QED
      BY <3>1, <3>2
  <2> QED
    BY <1>2, <1>3, <2>1 DEF InstallsInv
<1>9. clean' => clean /\ blocked' = {} /\ ~row'.bad
  BY <1>1, <1>2 DEF IInv, CleanInv
<1>10. rows' \cup (IF Rechecking' THEN {row'.id} ELSE {}) \subseteq rows \cup (IF Rechecking THEN {row.id} ELSE {})
  BY <1>1, <1>2
<1>11. todo' \subseteq Nat \X Nat
  BY <1>2 DEF IInv, ShapeInv
<1>12. edits' \in Nat /\ blocked' \subseteq Packages /\ row' \in Rows
  BY <1>2 DEF IInv, ShapeInv
<1>13. pc # "observe"
  BY <1>1
<1> QED
  BY <1>1, <1>2, <1>3, <1>5, <1>6, <1>7, <1>8, <1>9, <1>10, <1>11, <1>12, <1>13, RowGoesOnStep

(* A read before the write fails, and with it the row. *)
LEMMA RecheckFailsStep ==
  ASSUME IInv, RecheckFails
  PROVE  IInv'
<1>1. Rechecking
  BY DEF RecheckFails, Rechecking
<1>2. Applying /\ ~row.applied /\ row.id \in Ids /\ PackageOf(row.id) \in Packages
  BY <1>1, RowFacts DEF IInv, RowInv
<1>3. /\ NextRow([report EXCEPT !.failed = @ \cup {row.id}]) /\ rows' = rows
      /\ UNCHANGED <<fleet, cmd, seen, outcome, shown, lost, raced, edits>> /\ ~clean'
      /\ blocked' \in {blocked, Block(row.id)} /\ pc # "observe"
  BY DEF RecheckFails, RowFails, Fault
<1>4. blocked \subseteq blocked' /\ blocked' \subseteq Packages /\ edits' \in Nat
  BY <1>2, <1>3 DEF IInv, ShapeInv, Block
<1>5. \A k \in Packages : shown.packages[k] = None /\ fleet.packages[k] = "exact" =>
        k \in report.installs \cup blocked' \/ <<"package", k>> \in raced'
  BY <1>2, <1>3, <1>4, InstallsAreKnown
<1> QED
  BY <1>2, <1>3, <1>4, <1>5, RowFailsStep

(* A row that was applied ends, verified or not.                           *)
LEMMA FinishStep ==
  ASSUME IInv, Checking, pc # "observe", NEW bad, Finish(bad),
         UNCHANGED <<fleet, cmd, seen, outcome, shown, lost, rows>>, edits' \in Nat,
         blocked \subseteq blocked', blocked' \subseteq Packages, clean' => clean /\ ~bad /\ blocked' = {},
         \A k \in Packages : shown.packages[k] = None /\ fleet.packages[k] = "exact" =>
           k \in report.installs \cup blocked' \/ <<"package", k>> \in raced'
  PROVE  IInv'
<1>1. Applying /\ row.id \in Ids /\ row.applied /\ Import
  BY RowFacts DEF IInv, RowInv, Checking
<1> DEFINE r == IF bad THEN [report EXCEPT !.applied = @ \cup {row.id}]
                ELSE [report EXCEPT !.succeeded = @ \cup {row.id}]
<1>2. /\ r \in Reports
      /\ r.succeeded \cup r.applied = report.succeeded \cup report.applied \cup {row.id}
      /\ r.installs = report.installs /\ r.failed = report.failed
      /\ ~bad => r.applied = report.applied
  <2>1. CASE bad
    BY <1>1, <2>1, ReportFacts DEF IInv, ShapeInv, Reports
  <2>2. CASE ~bad
    BY <1>1, <2>2, ReportFacts DEF IInv, ShapeInv, Reports
  <2> QED
    BY <2>1, <2>2
<1>3. r.succeeded \cup r.applied \cup lost = Ours
  BY <1>1, <1>2 DEF Ours, Mine
<1>4. NextRow(r)
  BY DEF Finish
<1>5. clean' => clean /\ pc # "observe" /\ r.failed = {} /\ r.applied = {} /\ blocked' = {}
  BY <1>1, <1>2, RowFacts DEF IInv, CleanInv
<1>6. rows' \subseteq rows
  OBVIOUS
<1> HIDE DEF r
<1> QED
  BY <1>1, <1>2, <1>3, <1>4, <1>5, <1>6, RowEndsStep

(* A stored policy is verified, or could not be.                           *)
LEMMA VerifyWithStep ==
  ASSUME IInv, pc = "verify", NEW bad \in BOOLEAN, VerifyWith(bad),
         UNCHANGED <<fleet, cmd, seen, outcome, shown, lost, rows>>, edits' \in Nat,
         clean' => clean /\ ~bad,
         \A k \in Packages : <<"package", k>> \in raced => <<"package", k>> \in raced',
         ~bad => fleet.policies[row.id] = cmd.file[row.id]
  PROVE  IInv'
<1>1. /\ pc = "verify" /\ Checking /\ Applying /\ ~Planning
      /\ pc \notin {"idle", "existing", "observe"} /\ row.applied /\ Import
      /\ row.id \in Ids /\ row.id \in Targets /\ row.id \notin rows
      /\ PackageOf(row.id) \in Packages
  <2>1. pc = "verify" /\ Checking
    BY DEF Checking
  <2> QED
    BY <2>1, RowFacts DEF IInv, RowInv
<1>2. \A k \in Packages : shown.packages[k] = None /\ fleet.packages[k] = "exact" =>
        k \in report.installs \cup blocked \/ <<"package", k>> \in raced'
  BY <1>1, InstallsAreKnown
<1>3. CASE row.observed = Unread
  <2>1. /\ pc' = "verifyPackage" /\ row' = [row EXCEPT !.bad = bad]
        /\ UNCHANGED <<todo, report, blocked>>
    BY <1>3 DEF VerifyWith
  <2>2. /\ row' \in Rows /\ row'.id = row.id /\ row'.applied = row.applied
        /\ row'.observed = row.observed
    BY <2>1 DEF IInv, ShapeInv, Rows
  <2>3. row'.bad = bad
    <3>1. row \in Rows
      BY DEF IInv, ShapeInv
    <3> QED
      BY <2>1, <3>1, Zenon DEF Rows
  <2>4. Checking' /\ ~Rechecking' /\ Applying' /\ ~Rechecking
    BY <1>1, <2>1 DEF Checking, Rechecking, Applying
  <2>5. PlanKept
    BY PlanIsKept
  <2>6. RowInv'
    BY <1>1, <1>3, <2>1, <2>2, <2>4, <2>5 DEF IInv, RowInv, PlanKept
  <2>7. RecheckInv'
    BY <2>1 DEF RecheckInv
  <2>8. VerifyInv'
    <3>1. ~bad => fleet'.policies[row'.id] = cmd'.file[row'.id]
      BY <2>2
    <3>2. ~row'.bad => ~bad
      BY <2>3
    <3> QED
      BY <2>1, <3>1, <3>2 DEF VerifyInv
  <2>9. InstallsInv'
    <3>1. PackageOf(row.id)' = PackageOf(row.id)
      BY <2>2, <2>5 DEF PlanKept
    <3> QED
      BY <1>1, <1>2, <1>3, <2>1, <2>2, <3>1 DEF IInv, InstallsInv
  <2>10. clean' => clean /\ blocked' = {} /\ ~row'.bad
    BY <1>1, <2>1, <2>3 DEF IInv, CleanInv
  <2>11. rows' \cup (IF Rechecking' THEN {row'.id} ELSE {}) \subseteq rows \cup (IF Rechecking THEN {row.id} ELSE {})
    BY <2>4
  <2>12. todo' \subseteq Nat \X Nat /\ pc' \in Labels /\ blocked' \subseteq Packages
    BY <2>1 DEF IInv, ShapeInv, Labels
  <2> QED
    BY <1>1, <1>3, <2>1, <2>2, <2>4, <2>6, <2>7, <2>8, <2>9, <2>10, <2>11, <2>12, RowGoesOnStep
<1>4. CASE row.observed # Unread
  <2>1. /\ Finish(bad \/ row.observed # "exact")
        /\ blocked' = IF row.observed = "exact" THEN blocked ELSE blocked \cup {PackageOf(row.id)}
    BY <1>4 DEF VerifyWith
  <2>2. blocked \subseteq blocked' /\ blocked' \subseteq Packages
    BY <1>1, <2>1 DEF IInv, ShapeInv
  <2>3. clean' => clean /\ ~(bad \/ row.observed # "exact") /\ blocked' = {}
    BY <1>1, <1>4, <2>1 DEF IInv, CleanInv
  <2>4. \A k \in Packages : shown.packages[k] = None /\ fleet.packages[k] = "exact" =>
          k \in report.installs \cup blocked' \/ <<"package", k>> \in raced'
    BY <1>2, <2>2
  <2> QED
    BY <1>1, <2>1, <2>2, <2>3, <2>4, FinishStep
<1> QED
  BY <1>3, <1>4

(* What was stored is compared with the file. *)
LEMMA VerifyStoredStep ==
  ASSUME IInv, VerifyStored
  PROVE  IInv'
<1>1. /\ pc = "verify" /\ Checking /\ Applying /\ ~Planning
      /\ pc \notin {"idle", "existing", "observe"} /\ row.applied /\ Import
      /\ row.id \in Ids /\ row.id \in Targets /\ row.id \notin rows
      /\ PackageOf(row.id) \in Packages
  <2>1. pc = "verify" /\ Checking
    BY DEF VerifyStored, Checking
  <2> QED
    BY <2>1, RowFacts DEF IInv, RowInv
<1> DEFINE bad == row.bad \/ fleet.policies[row.id] # cmd.file[row.id]
<1>2. bad \in BOOLEAN
  BY Zenon
<1>3. /\ VerifyWith(bad)
      /\ UNCHANGED <<fleet, cmd, seen, outcome, shown, lost, rows, clean, edits>>
      /\ \A k \in Packages : <<"package", k>> \in raced => <<"package", k>> \in raced'
  BY DEF VerifyStored, Reread
<1>4. edits' \in Nat
  BY <1>3 DEF IInv, ShapeInv
<1>5. clean' => clean /\ ~bad
  BY <1>1, <1>3 DEF IInv, CleanInv
<1>6. ~bad => fleet.policies[row.id] = cmd.file[row.id]
  OBVIOUS
<1> HIDE DEF bad
<1> QED
  BY <1>1, <1>2, <1>3, <1>4, <1>5, <1>6, VerifyWithStep

(* The package is compared with the file. *)
LEMMA VerifyPackageStep ==
  ASSUME IInv, VerifyPackage
  PROVE  IInv'
<1>1. /\ pc = "verifyPackage" /\ Checking /\ Applying /\ ~Planning
      /\ pc \notin {"idle", "existing", "observe"} /\ row.applied /\ Import
      /\ row.id \in Ids /\ row.id \in Targets /\ row.id \notin rows
      /\ PackageOf(row.id) \in Packages
  <2>1. pc = "verifyPackage" /\ Checking
    BY DEF VerifyPackage, Checking
  <2> QED
    BY <2>1, RowFacts DEF IInv, RowInv
<1> DEFINE good == fleet.packages[PackageOf(row.id)] = "exact"
           bad == row.bad \/ ~good
<1>2. /\ Finish(bad) /\ UNCHANGED <<fleet, cmd, seen, outcome, shown, lost, rows, clean, edits>>
      /\ raced' = raced \ {<<"package", PackageOf(row.id)>>}
      /\ blocked' = IF good THEN blocked ELSE blocked \cup {PackageOf(row.id)}
  BY DEF VerifyPackage, Reread
<1>3. edits' \in Nat /\ blocked \subseteq blocked' /\ blocked' \subseteq Packages
  BY <1>1, <1>2 DEF IInv, ShapeInv
<1>4. clean' => clean /\ ~bad /\ blocked' = {}
  BY <1>1, <1>2 DEF IInv, CleanInv
<1>5. ASSUME NEW k \in Packages, shown.packages[k] = None, fleet.packages[k] = "exact"
      PROVE  k \in report.installs \cup blocked' \/ <<"package", k>> \in raced'
  <2>1. CASE k # PackageOf(row.id)
    <3>1. <<"package", k>> # <<"package", PackageOf(row.id)>>
      BY <2>1
    <3> QED
      BY <1>1, <1>2, <1>3, <1>5, <3>1, InstallsAreKnown
  <2>2. CASE k = PackageOf(row.id)
    BY <1>1, <1>3, <1>5, <2>2 DEF IInv, InstallsInv, RowInv
  <2> QED
    BY <2>1, <2>2
<1> HIDE DEF bad, good
<1> QED
  BY <1>1, <1>2, <1>3, <1>4, <1>5, FinishStep

(* A read after the write fails: the row was applied. *)
LEMMA VerifyFailsStep ==
  ASSUME IInv, VerifyFails
  PROVE  IInv'
<1>1. /\ UNCHANGED <<fleet, cmd, seen, outcome, shown, lost, rows, raced, edits>> /\ ~clean'
      /\ edits' \in Nat
  BY DEF VerifyFails, Fault, IInv, ShapeInv
<1>2. CASE pc = "verify" /\ VerifyWith(TRUE)
  BY <1>1, <1>2, VerifyWithStep
<1>3. CASE /\ pc = "verifyPackage" /\ Finish(TRUE)
           /\ blocked' = blocked \cup {PackageOf(row.id)}
  <2>1. Checking /\ Applying /\ PackageOf(row.id) \in Packages /\ pc # "observe"
    BY <1>3, RowFacts DEF Checking
  <2>2. blocked \subseteq blocked' /\ blocked' \subseteq Packages
    BY <1>3, <2>1 DEF IInv, ShapeInv
  <2>3. \A k \in Packages : shown.packages[k] = None /\ fleet.packages[k] = "exact" =>
          k \in report.installs \cup blocked' \/ <<"package", k>> \in raced'
    BY <1>1, <2>1, <2>2, InstallsAreKnown
  <2> QED
    BY <1>1, <1>3, <2>1, <2>2, <2>3, FinishStep
<1> QED
  BY <1>2, <1>3 DEF VerifyFails

-----------------------------------------------------------------------------
(* The write of a row.                                                     *)

(* Of the stack a write changes its policy, and installs its package.      *)
WroteOnly(i) ==
  /\ fleet' \in FleetState /\ fleet'.parents = fleet.parents
  /\ \A j \in Ids \ {i} : fleet'.policies[j] = fleet.policies[j]
  /\ \A k \in Packages :
       \/ fleet'.packages[k] = fleet.packages[k]
       \/ /\ k = PackageOf(i) /\ Creates(i)
          /\ fleet.packages[k] = None /\ fleet'.packages[k] = "exact"

(* A write stores one policy, and a create may install its package.        *)
LEMMA StoredFacts ==
  ASSUME ShapeInv, NEW i \in Ids, NEW policy \in Policy \cup {None}, fleet' = Stored(policy, i)
  PROVE  /\ WroteOnly(i) /\ fleet'.policies[i] = policy
         /\ Creates(i) => \A k \in Packages : k = PackageOf(i) /\ fleet.packages[k] = None =>
                            fleet'.packages[k] = "exact"
<1> DEFINE new == [k \in Packages |-> IF Creates(i) /\ k = PackageOf(i) /\ fleet.packages[k] = None
                                      THEN "exact" ELSE fleet.packages[k]]
<1>1. /\ fleet.policies \in [Ids -> Policy \cup {None}] /\ fleet.parents \in [Parents -> Parent]
      /\ fleet.packages \in [Packages -> Version] /\ fleet \in FleetState
  BY DEF ShapeInv, FleetState
<1>2. new \in [Packages -> Version]
  <2>1. \A k \in Packages : (IF Creates(i) /\ k = PackageOf(i) /\ fleet.packages[k] = None
                             THEN "exact" ELSE fleet.packages[k]) \in Version
    <3>1. "exact" \in Version /\ \A k \in Packages : fleet.packages[k] \in Version
      BY <1>1 DEF Version
    <3> HIDE DEF Version, Creates
    <3> QED
      BY <3>1
  <2> HIDE DEF Version, Creates
  <2> QED
    BY <2>1
<1>3. \A k \in Packages : new[k] = IF Creates(i) /\ k = PackageOf(i) /\ fleet.packages[k] = None
                                   THEN "exact" ELSE fleet.packages[k]
  OBVIOUS
<1>4. fleet' = [fleet EXCEPT !.policies[i] = policy, !.packages = new]
  BY DEF Stored
<1> HIDE DEF new, Policy, Parent, Version
<1>5. /\ fleet'.parents = fleet.parents /\ fleet'.packages = new
      /\ fleet'.policies = [fleet.policies EXCEPT ![i] = policy]
      /\ fleet' \in FleetState
  BY <1>1, <1>2, <1>4 DEF FleetState
<1>6. fleet'.policies[i] = policy /\ \A j \in Ids \ {i} : fleet'.policies[j] = fleet.policies[j]
  BY <1>1, <1>5
<1> QED
  BY <1>3, <1>5, <1>6 DEF WroteOnly

(* What was shown is kept by a step of row i.                              *)
LEMMA ShownIsKept ==
  ASSUME IInv, Applying, PlanKept, shown' = shown, pc' # "planned", NEW i \in Ids,
         \A p \in Parents : seen.parents[p] # Unread =>
           /\ seen'.parents[p] # Unread /\ seen'.parents[p].agents = seen.parents[p].agents
           /\ \A j \in Ids \ {i} : j \in seen'.parents[p].attached <=> j \in seen.parents[p].attached,
         \A j \in Ids \ {i} : (j \in Ours' <=> j \in Ours) /\ (j \in Uncertain => j \in Uncertain'),
         \A p \in Parents : shown.parents[p] # Unread =>
           IF i \in Ours' /\ p \in ParentsOf(i)
           THEN i \in Uncertain' \/ (i \in seen'.parents[p].attached <=> p \in DesiredParents(i))
           ELSE i \in seen'.parents[p].attached <=> i \in shown.parents[p].attached,
         \A k \in Packages :
           \/ seen'.packages[k] = shown.packages[k]
           \/ shown.packages[k] = None /\ seen'.packages[k] = "exact" /\ k \in report'.installs
  PROVE  ShownInv'
<1>1. \A t \in Targets : \A p \in ParentsOf(t) : shown.parents[p] # Unread
  BY DEF IInv, ShownInv
<1>2. ASSUME NEW p \in Parents, shown.parents[p] # Unread
      PROVE  /\ seen'.parents[p] # Unread /\ seen'.parents[p].agents = shown.parents[p].agents
             /\ seen.parents[p] # Unread
  BY <1>2 DEF IInv, ShownInv
<1>3. ASSUME NEW p \in Parents, shown.parents[p] # Unread, NEW j \in Ids
      PROVE IF j \in Ours' /\ p \in ParentsOf(j)
            THEN j \in Uncertain' \/ (j \in seen'.parents[p].attached <=> p \in DesiredParents(j))
            ELSE j \in seen'.parents[p].attached <=> j \in shown.parents[p].attached
  <2>1. CASE j = i
    BY <1>3, <2>1
  <2>2. CASE j # i
    <3>1. /\ j \in Ours' <=> j \in Ours
          /\ j \in Uncertain => j \in Uncertain'
          /\ j \in seen'.parents[p].attached <=> j \in seen.parents[p].attached
      BY <1>2, <1>3, <2>2
    <3>2. CASE j \in Ours /\ p \in ParentsOf(j)
      <4>1. j \in Uncertain \/ (j \in seen.parents[p].attached <=> p \in DesiredParents(j))
        BY <1>3, <3>2 DEF IInv, ShownInv
      <4> QED
        BY <3>1, <3>2, <4>1
    <3>3. CASE ~(j \in Ours /\ p \in ParentsOf(j))
      <4>1. j \in seen.parents[p].attached <=> j \in shown.parents[p].attached
        BY <1>3, <3>3 DEF IInv, ShownInv
      <4> QED
        BY <3>1, <3>3, <4>1
    <3> QED
      BY <3>2, <3>3
  <2> QED
    BY <2>1, <2>2
<1>4. \A p : \A j : ParentsOf(j)' = ParentsOf(j) /\ DesiredParents(j)' = DesiredParents(j)
  BY DEF PlanKept
<1>5. Targets' = Targets
  BY DEF PlanKept
<1>6. \A p \in Parents : shown.parents[p] # Unread => \A j \in Ids :
        IF j \in Ours' /\ p \in ParentsOf(j)'
        THEN j \in Uncertain' \/ (j \in seen'.parents[p].attached <=> p \in DesiredParents(j)')
        ELSE j \in seen'.parents[p].attached <=> j \in shown'.parents[p].attached
  BY <1>3, <1>4
<1> QED
  BY <1>1, <1>2, <1>4, <1>5, <1>6 DEF ShownInv

(* A package that a write installs is looked at.                           *)
LEMMA InstallsAfterWrite ==
  ASSUME IInv, pc = "write", WroteOnly(row.id), PlanKept, UNCHANGED <<shown, raced, blocked>>,
         report'.installs = report.installs,
         (pc' = "observe" /\ row'.id = row.id) \/ ~MustObserve(row.id),
         pc' \in {"verify", "verifyPackage"} => row'.id = row.id
  PROVE  InstallsInv'
<1>1. Applying /\ PackageOf(row.id) \in Packages /\ PackageRead(row.id) /\ row.id \in Targets
  BY RowFacts DEF Rechecking
<1>2. ASSUME NEW k \in Packages, shown.packages[k] = None, fleet'.packages[k] = "exact"
      PROVE  \/ k \in report.installs \cup blocked \/ <<"package", k>> \in raced
             \/ pc' = "observe" /\ k = PackageOf(row.id) /\ row'.id = row.id
  <2>1. CASE fleet.packages[k] = "exact"
    BY <1>1, <1>2, <2>1, InstallsAreKnown
  <2>2. CASE fleet.packages[k] # "exact"
    <3>1. k = PackageOf(row.id) /\ Creates(row.id) /\ fleet.packages[k] = None
      BY <1>2, <2>2 DEF WroteOnly
    <3>2. <<"package", k>> \in raced \/ seen.packages[k] = None
      BY <3>1 DEF IInv, RecheckInv
    <3> QED
      BY <3>1, <3>2 DEF MustObserve
  <2> QED
    BY <2>1, <2>2
<1>4. \A i : PackageOf(i)' = PackageOf(i)
  BY DEF PlanKept
<1>5. ASSUME pc' \in {"verify", "verifyPackage"}
      PROVE  \/ shown.packages[PackageOf(row.id)] # None
             \/ PackageOf(row.id) \in report.installs \cup blocked
  <2>1. Creates(row.id) \/ Exists(row.id)
    BY <1>1, TargetFacts DEF Creates, IInv
  <2>2. seen.packages[PackageOf(row.id)] = "exact"
    BY <1>1, <1>5, <2>1 DEF PackageRead, MustObserve, Creates
  <2> QED
    BY <1>1, <2>2, ExactIsKnown
<1>6. row'.id = row.id => PackageOf(row.id)' = PackageOf(row.id)
  BY <1>4
<1> QED
  BY <1>2, <1>5, <1>6 DEF InstallsInv

(* The parents after a write, as the command expects them.                 *)
LEMMA AdvanceFacts ==
  ASSUME IInv, pc = "write"
  PROVE  /\ Advance(row.id) \in [Parents -> Snapshots \cup {Unread}]
         /\ \A p \in Parents : seen.parents[p] = Unread => Advance(row.id)[p] = Unread
         /\ \A p \in Parents : seen.parents[p] # Unread =>
              /\ Advance(row.id)[p] # Unread
              /\ Advance(row.id)[p].agents = seen.parents[p].agents
              /\ Advance(row.id)[p].portable = seen.parents[p].portable
              /\ Advance(row.id)[p].attached =
                   IF p \in DesiredParents(row.id) THEN seen.parents[p].attached \cup {row.id}
                   ELSE IF p \in CurrentParents(row.id) THEN seen.parents[p].attached \ {row.id}
                   ELSE seen.parents[p].attached
<1> DEFINE i == row.id
<1>1. i \in Ids /\ \A p \in ParentsOf(i) : p \in Parents /\ seen.parents[p] # Unread
  BY RowFacts DEF Rechecking
<1>2. \A p \in Parents : seen.parents[p] \in Snapshots \cup {Unread}
  BY DEF IInv, ShapeInv, Seens
<1>3. \A p : p \in DesiredParents(i) \/ p \in CurrentParents(i) => p \in ParentsOf(i)
  BY DEF ParentsOf
<1> HIDE DEF i
<1>4. ASSUME NEW p \in Parents, seen.parents[p] \in Snapshots
      PROVE  /\ [seen.parents[p] EXCEPT !.attached = @ \cup {i}] \in Snapshots
             /\ [seen.parents[p] EXCEPT !.attached = @ \ {i}] \in Snapshots
  BY <1>1, <1>4 DEF Snapshots
<1>5. \A p \in Parents :
        Advance(i)[p] = IF p \in DesiredParents(i) THEN [seen.parents[p] EXCEPT !.attached = @ \cup {i}]
                        ELSE IF p \in CurrentParents(i) THEN [seen.parents[p] EXCEPT !.attached = @ \ {i}]
                        ELSE seen.parents[p]
  BY DEF Advance
<1>6. ASSUME NEW p \in Parents, seen.parents[p] = Unread PROVE Advance(i)[p] = Unread
  BY <1>1, <1>3, <1>5, <1>6
<1>7. ASSUME NEW p \in Parents, seen.parents[p] # Unread
      PROVE  /\ Advance(i)[p] \in Snapshots
             /\ Advance(i)[p].agents = seen.parents[p].agents
             /\ Advance(i)[p].portable = seen.parents[p].portable
             /\ Advance(i)[p].attached =
                  IF p \in DesiredParents(i) THEN seen.parents[p].attached \cup {i}
                  ELSE IF p \in CurrentParents(i) THEN seen.parents[p].attached \ {i}
                  ELSE seen.parents[p].attached
  <2>1. seen.parents[p] \in Snapshots
    BY <1>2, <1>7
  <2>2. CASE p \in DesiredParents(i)
    <3>1. Advance(i)[p] = [seen.parents[p] EXCEPT !.attached = @ \cup {i}]
      BY <1>5, <2>2
    <3>2. Advance(i)[p].portable = seen.parents[p].portable
      BY <2>1, <3>1, Zenon DEF Snapshots
    <3> QED
      BY <1>4, <2>1, <2>2, <3>1, <3>2 DEF Snapshots
  <2>3. CASE p \notin DesiredParents(i) /\ p \in CurrentParents(i)
    <3>1. Advance(i)[p] = [seen.parents[p] EXCEPT !.attached = @ \ {i}]
      BY <1>5, <2>3
    <3>2. Advance(i)[p].portable = seen.parents[p].portable
      BY <2>1, <3>1, Zenon DEF Snapshots
    <3> QED
      BY <1>4, <2>1, <2>3, <3>1, <3>2 DEF Snapshots
  <2>4. CASE p \notin DesiredParents(i) /\ p \notin CurrentParents(i)
    <3>1. Advance(i)[p] = seen.parents[p]
      BY <1>5, <2>4
    <3> QED
      BY <2>1, <2>4, <3>1
  <2> QED
    BY <2>2, <2>3, <2>4
<1>8. Advance(i) \in [Parents -> Snapshots \cup {Unread}]
  <2>1. \A p \in Parents : Advance(i)[p] \in Snapshots \cup {Unread}
    BY <1>6, <1>7
  <2>2. Advance(i) = [p \in Parents |-> Advance(i)[p]]
    BY DEF Advance
  <2> HIDE DEF Snapshots
  <2> QED
    BY <2>1, <2>2
<1>9. \A p \in Parents : seen.parents[p] # Unread => Advance(i)[p] # Unread
  BY <1>7, Keys DEF KeyFacts
<1> QED
  BY <1>6, <1>7, <1>8, <1>9 DEF i

(* The agents a write reaches are agents of its parents.                   *)
LEMMA AffectedFacts ==
  ASSUME IInv, pc = "write"
  PROVE  Affected(row.id) \subseteq Parents \X Agents
<1>1. \A p \in ParentsOf(row.id) : p \in Parents /\ seen.parents[p] \in Snapshots
  BY RowFacts DEF Rechecking, IInv, ShapeInv, Seens
<1>2. \A p \in ParentsOf(row.id) : p \in Parents /\ seen.parents[p].agents \in Agents
  BY <1>1 DEF Snapshots
<1>3. report.affected \subseteq Parents \X Agents
  BY DEF IInv, ShapeInv, Reports
<1> HIDE DEF ParentsOf
<1> QED
  BY <1>2, <1>3 DEF Affected

(* When nobody else wrote, the parents and the names are as the command    *)
(* expects them after its write too.                                       *)
LEMMA CleanWrite ==
  ASSUME IInv, pc = "write", clean, WroteOnly(row.id), PlanKept,
         fleet'.policies[row.id] \in Policy \cup {None},
         IF fleet'.policies[row.id] = None THEN DesiredParents(row.id) = {}
         ELSE fleet'.policies[row.id].parents = DesiredParents(row.id)
  PROVE  /\ \A p \in Parents : seen.parents[p] # Unread =>
              /\ Advance(row.id)[p].attached = Attached(p)'
              /\ Advance(row.id)[p] = Snapshot(p)'
         /\ \A j \in rows : seen.policies[j] = Unread \/ seen.policies[j] = fleet'.policies[j]
<1> DEFINE i == row.id
<1>1. /\ i \in Ids /\ i \in Targets /\ i \notin rows /\ Applying /\ seen.policies[i] # Unread
      /\ pc \notin {"idle", "existing", "names"}
  BY RowFacts DEF Rechecking
<1>2. seen.policies[i] = fleet.policies[i]
  BY <1>1 DEF IInv, CleanInv, Rechecking
<1>3. \A p \in Parents : i \in Attached(p) <=> p \in CurrentParents(i)
  <2>1. i \in DOMAIN fleet.policies
    BY <1>1 DEF IInv, ShapeInv, FleetState
  <2> QED
    BY <1>2, <2>1 DEF Attached, Existing, CurrentParents, Exists
<1>4. ASSUME NEW p \in Parents
      PROVE  Attached(p)' = IF p \in DesiredParents(i) THEN Attached(p) \cup {i} ELSE Attached(p) \ {i}
  <2>1. DOMAIN fleet.policies = Ids /\ DOMAIN fleet'.policies = Ids
    BY DEF IInv, ShapeInv, FleetState, WroteOnly
  <2>2. \A j \in Ids \ {i} : fleet'.policies[j] = fleet.policies[j]
    BY DEF WroteOnly
  <2>3. i \in Attached(p)' <=> p \in DesiredParents(i)
    BY <1>1, <2>1 DEF Attached, Existing
  <2>4. \A j \in Ids \ {i} : j \in Attached(p)' <=> j \in Attached(p)
    BY <2>1, <2>2 DEF Attached, Existing
  <2>5. Attached(p) \subseteq Ids /\ Attached(p)' \subseteq Ids
    BY <2>1 DEF Attached, Existing
  <2> QED
    BY <1>1, <2>3, <2>4, <2>5
<1>5. ASSUME NEW p \in Parents, seen.parents[p] # Unread
      PROVE  Advance(i)[p].attached = Attached(p)' /\ Advance(i)[p] = Snapshot(p)'
  <2>1. seen.parents[p] = Snapshot(p)
    BY <1>1, <1>5 DEF IInv, CleanInv
  <2>2. seen.parents[p].attached = Attached(p)
    BY <2>1 DEF Snapshot
  <2>3. /\ Advance(i)[p].agents = seen.parents[p].agents
        /\ Advance(i)[p].portable = seen.parents[p].portable
        /\ Advance(i)[p].attached =
             IF p \in DesiredParents(i) THEN seen.parents[p].attached \cup {i}
             ELSE IF p \in CurrentParents(i) THEN seen.parents[p].attached \ {i}
             ELSE seen.parents[p].attached
    BY <1>5, AdvanceFacts
  <2>4. Advance(i)[p].attached = Attached(p)'
    BY <1>3, <1>4, <2>2, <2>3
  <2>5. Snapshot(p)' = [agents |-> fleet.parents[p].agents, portable |-> fleet.parents[p].portable,
                        attached |-> Attached(p)']
    BY DEF Snapshot, WroteOnly
  <2>6. Advance(i)[p] \in Snapshots
    BY <1>5, AdvanceFacts
  <2>7. Advance(i)[p] = [agents |-> Advance(i)[p].agents, portable |-> Advance(i)[p].portable,
                         attached |-> Advance(i)[p].attached]
    BY <2>6, Zenon DEF Snapshots
  <2>8. seen.parents[p].portable = fleet.parents[p].portable
    <3>1. Snapshot(p).portable = fleet.parents[p].portable
      BY Zenon DEF Snapshot
    <3> QED
      BY <2>1, <3>1, Zenon
  <2>9. seen.parents[p].agents = fleet.parents[p].agents
    BY <2>1 DEF Snapshot
  <2>10. /\ Advance(i)[p].portable = fleet.parents[p].portable
         /\ Advance(i)[p].agents = fleet.parents[p].agents
    BY <2>3, <2>8, <2>9, Zenon
  <2> HIDE DEF i
  <2> QED
    BY <2>4, <2>5, <2>7, <2>10, Zenon
<1>6. ASSUME NEW j \in rows PROVE seen.policies[j] = Unread \/ seen.policies[j] = fleet'.policies[j]
  <2>1. j \in Ids /\ j # i
    BY <1>1 DEF IInv, ShapeInv
  <2>2. seen.policies[j] = Unread \/ seen.policies[j] = fleet.policies[j]
    BY <1>1, <2>1 DEF IInv, CleanInv
  <2> QED
    BY <2>1, <2>2 DEF WroteOnly
<1> QED
  BY <1>5, <1>6

(* The server stores the policy of a row, or something like it. *)
LEMMA AppliedStep ==
  ASSUME IInv, WriteAnswered, Import
  PROVE  IInv'
<1>w. /\ pc = "write" /\ Rechecking /\ Applying /\ ~Planning
      /\ pc \notin {"idle", "existing", "names", "observe"}
      /\ row.id \in Ids /\ row.id \in Targets /\ row.id \notin rows
      /\ PackageOf(row.id) \in Packages
      /\ ~row.applied /\ row.observed = Unread /\ row \in Rows
  <2>1. pc = "write" /\ Rechecking
    BY DEF WriteAnswered, Rechecking
  <2> QED
    BY <2>1, RowFacts DEF IInv, RowInv, ShapeInv, Planning
<1>p. /\ pc' = AfterAnswer(row.id) /\ pc' \in {"observe", "verify"} /\ Checking' /\ Applying'
      /\ ~Planning'
      /\ ~Rechecking' /\ pc' \notin {"idle", "row"}
  BY DEF WriteAnswered, AfterAnswer, Checking, Rechecking, Applying, Planning
<1>b. /\ UNCHANGED <<cmd, rows, blocked, outcome, shown, raced, lost, edits, todo>>
      /\ seen' = [seen EXCEPT !.parents = Advance(row.id)]
      /\ row' = [row EXCEPT !.applied = TRUE]
      /\ report' = [report EXCEPT !.affected = Affected(row.id)]
  BY DEF WriteAnswered
<1>s. /\ seen'.policies = seen.policies /\ seen'.owners = seen.owners
      /\ seen'.packages = seen.packages
      /\ seen'.parents = Advance(row.id) /\ seen' \in Seens
  <2>1. seen \in Seens /\ Advance(row.id) \in [Parents -> Snapshots \cup {Unread}]
    BY <1>w, AdvanceFacts DEF IInv, ShapeInv
  <2> HIDE DEF Snapshots, Advance
  <2> QED
    BY <1>b, <2>1 DEF Seens
<1>k. PlanKept
  BY <1>b, <1>s, PlanIsKept
<1>r. /\ row' \in Rows /\ row'.id = row.id /\ row'.applied /\ row'.bad = row.bad
      /\ row'.observed = row.observed
      /\ report' \in Reports /\ report'.succeeded = report.succeeded
      /\ report'.applied = report.applied
      /\ report'.failed = report.failed /\ report'.installs = report.installs
  <2>1. row'.applied
    BY <1>b, <1>w, Zenon DEF Rows
  <2>2. row'.bad = row.bad
    BY <1>b, <1>w, Zenon DEF Rows
  <2>3. row' \in Rows /\ row'.id = row.id /\ row'.observed = row.observed
    BY <1>b, <1>w DEF Rows
  <2>4. report \in Reports /\ Affected(row.id) \subseteq Parents \X Agents
    BY <1>w, AffectedFacts DEF IInv, ShapeInv
  <2>5. /\ report' \in Reports /\ report'.succeeded = report.succeeded
        /\ report'.applied = report.applied
        /\ report'.failed = report.failed /\ report'.installs = report.installs
    <3> HIDE DEF Affected
    <3> QED
      BY <1>b, <2>4 DEF Reports
  <2> QED
    BY <2>1, <2>2, <2>3, <2>5
<1>o. Ours' = Ours \cup {row.id} /\ Uncertain' = Uncertain
  <2>1. Ours = Mine /\ Ours' = Mine' \cup {row.id}
    BY <1>r, <1>w DEF Ours
  <2>2. Mine' = Mine
    BY <1>b, <1>r DEF Mine
  <2> QED
    BY <1>b, <1>k, <1>r, <2>1, <2>2 DEF Uncertain, PlanKept
<1>f. /\ WroteOnly(row.id) /\ fleet'.policies[row.id] \in Policy
      /\ fleet'.policies[row.id].parents = cmd.file[row.id].parents
      /\ Creates(row.id) => \A k \in Packages : k = PackageOf(row.id) /\ fleet.packages[k] = None =>
                              fleet'.packages[k] = "exact"
      /\ clean' => clean /\ fleet'.policies[row.id] = cmd.file[row.id]
  <2>1. cmd.file[row.id] \in Policy
    BY <1>w, TargetFacts DEF IInv
  <2>2. ASSUME NEW policy \in Policy, fleet' = Stored(policy, row.id), policy.parents = cmd.file[row.id].parents
        PROVE  /\ WroteOnly(row.id) /\ fleet'.policies[row.id] \in Policy
               /\ fleet'.policies[row.id].parents = cmd.file[row.id].parents
               /\ Creates(row.id) => \A k \in Packages : k = PackageOf(row.id) /\ fleet.packages[k] = None =>
                                       fleet'.packages[k] = "exact"
               /\ fleet'.policies[row.id] = policy
    <3>1. policy \in Policy \cup {None}
      OBVIOUS
    <3> QED
      BY <1>w, <2>2, <3>1, StoredFacts DEF IInv
  <2>3. CASE fleet' = Written(row.id) /\ NoFault
    <3>1. fleet' = Stored(cmd.file[row.id], row.id) /\ (clean' <=> clean)
      BY <2>3 DEF Written, NoFault
    <3> QED
      BY <2>1, <2>2, <3>1
  <2>4. CASE /\ Fault
             /\ \E body \in Bodies \ {cmd.file[row.id].body} :
                  fleet' = Stored([cmd.file[row.id] EXCEPT !.body = body], row.id)
    <3>1. PICK body \in Bodies : fleet' = Stored([cmd.file[row.id] EXCEPT !.body = body], row.id)
      BY <2>4
    <3> DEFINE policy == [cmd.file[row.id] EXCEPT !.body = body]
    <3>2. policy \in Policy /\ policy.parents = cmd.file[row.id].parents
      BY <2>1 DEF Policy
    <3>3. ~clean' /\ fleet' = Stored(policy, row.id)
      BY <2>4, <3>1 DEF Fault
    <3> HIDE DEF policy
    <3> QED
      BY <2>2, <3>2, <3>3
  <2> QED
    BY <2>3, <2>4 DEF WriteAnswered
<1>1. ShapeInv'
  <2>1. fleet' \in FleetState
    BY <1>f DEF WroteOnly
  <2> QED
    BY <1>b, <1>p, <1>r, <1>s, <2>1 DEF IInv, ShapeInv, Labels
<1>2. FreshInv'
  BY <1>p DEF FreshInv
<1>3. PoliciesInv'
  BY <1>b, <1>k, <1>p, <1>s, <1>w DEF IInv, PoliciesInv, PlanKept
<1>4. OwnersInv'
  BY <1>b, <1>k, <1>s, <1>w DEF IInv, OwnersInv, OwnersMatch, PlanKept
<1>5. ParentsInv'
  BY <1>p DEF ParentsInv, Planning
<1>6. PackagesInv'
  <2>1. \A i \in Targets : PackageRead(i)
    BY <1>w DEF IInv, PackagesInv
  <2>2. \A i \in Targets : PackageRead(i)'
    BY <1>k, <1>s, <2>1 DEF PackageRead, PlanKept
  <2> QED
    BY <1>k, <1>p, <2>2 DEF PackagesInv, PlanKept, Planning
<1>7. ShownInv'
  <2>1. ASSUME NEW p \in Parents, seen.parents[p] # Unread
        PROVE  /\ seen'.parents[p] # Unread /\ seen'.parents[p].agents = seen.parents[p].agents
               /\ \A j \in Ids \ {row.id} : j \in seen'.parents[p].attached <=> j \in seen.parents[p].attached
    BY <1>s, <1>w, <2>1, AdvanceFacts
  <2>2. ASSUME NEW p \in Parents, shown.parents[p] # Unread
        PROVE  /\ p \in ParentsOf(row.id) =>
                    (row.id \in seen'.parents[p].attached <=> p \in DesiredParents(row.id))
               /\ p \notin ParentsOf(row.id) =>
                    (row.id \in seen'.parents[p].attached <=> row.id \in shown.parents[p].attached)
    <3>1. seen.parents[p] # Unread
      BY <1>w, <2>2 DEF IInv, ShownInv
    <3>2. seen'.parents[p].attached =
            IF p \in DesiredParents(row.id) THEN seen.parents[p].attached \cup {row.id}
            ELSE IF p \in CurrentParents(row.id) THEN seen.parents[p].attached \ {row.id}
            ELSE seen.parents[p].attached
      BY <1>s, <1>w, <3>1, AdvanceFacts
    <3>3. p \in ParentsOf(row.id) <=> p \in DesiredParents(row.id) \/ p \in CurrentParents(row.id)
      BY DEF ParentsOf
    <3>4. CASE p \in ParentsOf(row.id)
      BY <3>2, <3>3, <3>4
    <3>5. CASE p \notin ParentsOf(row.id)
      <4>1. row.id \in seen.parents[p].attached <=> row.id \in shown.parents[p].attached
        BY <1>w, <2>2, <3>5 DEF IInv, ShownInv
      <4> QED
        BY <3>2, <3>3, <3>5, <4>1
    <3> QED
      BY <3>4, <3>5
  <2>3. Ours' = Ours \cup {row.id} /\ Uncertain' = Uncertain
    BY <1>o
  <2>4. ASSUME NEW p \in Parents, shown.parents[p] # Unread
        PROVE IF row.id \in Ours' /\ p \in ParentsOf(row.id)
              THEN \/ row.id \in Uncertain'
                   \/ (row.id \in seen'.parents[p].attached <=> p \in DesiredParents(row.id))
              ELSE row.id \in seen'.parents[p].attached <=> row.id \in shown.parents[p].attached
    <3>1. CASE p \in ParentsOf(row.id)
      BY <2>2, <2>3, <2>4, <3>1
    <3>2. CASE p \notin ParentsOf(row.id)
      BY <2>2, <2>3, <2>4, <3>2
    <3> QED
      BY <3>1, <3>2
  <2>5. \A k \in Packages :
          \/ seen'.packages[k] = shown.packages[k]
          \/ shown.packages[k] = None /\ seen'.packages[k] = "exact" /\ k \in report'.installs
    BY <1>s, <1>w, <1>r DEF IInv, ShownInv
  <2>6. \A j \in Ids \ {row.id} : (j \in Ours' <=> j \in Ours) /\ (j \in Uncertain => j \in Uncertain')
    BY <2>3
  <2> QED
    BY <1>k, <1>b, <1>p, <1>w, <2>1, <2>4, <2>5, <2>6, ShownIsKept DEF Planning
<1>8. RowInv'
  <2>1. row'.id \in Targets' \ rows' /\ rows' \subseteq Targets' /\ (Import' <=> Import)
    BY <1>b, <1>k, <1>r, <1>w DEF IInv, RowInv, PlanKept
  <2>2. pc' = "observe" => MustObserve(row.id)'
    <3>1. pc' = "observe" => MustObserve(row.id)
      BY <1>p DEF AfterAnswer
    <3>2. MustObserve(row.id)' <=> MustObserve(row.id)
      <4>1. /\ (Creates(row.id)' <=> Creates(row.id)) /\ PackageOf(row.id)' = PackageOf(row.id)
        BY <1>k, <1>r DEF PlanKept
      <4> QED
        BY <1>s, <4>1 DEF MustObserve
    <3> QED
      BY <3>1, <3>2
  <2> QED
    BY <1>p, <1>r, <1>w, <2>1, <2>2 DEF RowInv
<1>9. RecheckInv'
  BY <1>p DEF RecheckInv
<1>10. VerifyInv'
  BY <1>p, <1>r, <1>w, Keys DEF VerifyInv, KeyFacts
<1>11. InstallsInv'
  <2>1. pc' = "observe" \/ ~MustObserve(row.id)
    BY <1>p DEF AfterAnswer
  <2> QED
    BY <1>b, <1>f, <1>k, <1>r, <1>w, <2>1, InstallsAfterWrite
<1>12. CleanInv'
  <2> SUFFICES ASSUME clean' PROVE CleanInv'
    BY DEF CleanInv
  <2>1. clean /\ fleet'.policies[row.id] = cmd.file[row.id]
    BY <1>f
  <2>2. DesiredParents(row.id) = cmd.file[row.id].parents /\ fleet'.policies[row.id] # None
    BY <1>f, Keys DEF DesiredParents, KeyFacts
  <2>3. /\ \A p \in Parents : seen.parents[p] # Unread => Advance(row.id)[p] = Snapshot(p)'
        /\ \A j \in rows : seen.policies[j] = Unread \/ seen.policies[j] = fleet'.policies[j]
    BY <1>f, <1>k, <1>w, <2>1, <2>2, CleanWrite
  <2>4. \A p \in Parents : seen'.parents[p] # Unread => seen'.parents[p] = Snapshot(p)'
    BY <1>s, <1>w, <2>3, AdvanceFacts
  <2>5. ASSUME NEW k \in Packages, seen'.packages[k] # Unread
        PROVE  \/ seen'.packages[k] = fleet'.packages[k]
               \/ pc' = "observe" /\ k = PackageOf(row.id)
    <3>1. seen.packages[k] = fleet.packages[k]
      BY <1>s, <1>w, <2>1, <2>5 DEF IInv, CleanInv
    <3>2. CASE fleet'.packages[k] = fleet.packages[k]
      BY <1>s, <3>1, <3>2
    <3>3. CASE /\ k = PackageOf(row.id) /\ Creates(row.id)
               /\ fleet.packages[k] = None
      <4>1. MustObserve(row.id)
        BY <3>1, <3>3 DEF MustObserve
      <4> QED
        BY <1>p, <3>3, <4>1 DEF AfterAnswer
    <3> QED
      BY <1>f, <3>2, <3>3 DEF WroteOnly
  <2>6. fleet'.packages[PackageOf(row.id)] = "exact"
    <3>1. PackageRead(row.id)
      BY <1>w, RowFacts
    <3>2. seen.packages[PackageOf(row.id)] = fleet.packages[PackageOf(row.id)]
      BY <1>w, <2>1, <3>1, Keys DEF IInv, CleanInv, PackageRead, KeyFacts
    <3>3. CASE fleet.packages[PackageOf(row.id)] = "exact"
      BY <1>f, <1>w, <3>3 DEF WroteOnly
    <3>4. CASE fleet.packages[PackageOf(row.id)] = None /\ ~Exists(row.id)
      BY <1>f, <1>w, <3>4 DEF Creates
    <3> QED
      BY <3>1, <3>2, <3>3, <3>4 DEF PackageRead
  <2>7. Import' => \A j \in Targets' : \/ seen'.owners[j] = Owners(cmd.file[j].name)'
                                       \/ j \notin rows'
    <3>1. ASSUME NEW j \in Targets, j \in rows PROVE seen.owners[j] = Owners(cmd.file[j].name)'
      <4>1. seen.owners[j] = Owners(cmd.file[j].name) /\ OwnersMatch(j)
        BY <1>w, <2>1, <3>1 DEF IInv, CleanInv, OwnersInv
      <4>2. row.id \notin Owners(cmd.file[j].name)
        BY <1>w, <3>1, <4>1 DEF OwnersMatch
      <4>3. cmd.file[row.id].name # cmd.file[j].name
        <5>1. /\ cmd.file \in Files /\ j \in Existing(cmd.file)
              /\ row.id \in Existing(cmd.file) /\ j # row.id
          BY <1>w, <3>1, TargetFacts DEF IInv, PoliciesInv, Wanted
        <5> QED
          BY <5>1, NamesAreUnique
      <4>4. DOMAIN fleet.policies = Ids /\ DOMAIN fleet'.policies = Ids
        BY <1>f DEF IInv, ShapeInv, FleetState, WroteOnly
      <4>5. \A m \in Ids : m \in Owners(cmd.file[j].name) <=> m \in Owners(cmd.file[j].name)'
        <5> SUFFICES ASSUME NEW m \in Ids
                     PROVE  m \in Owners(cmd.file[j].name) <=> m \in Owners(cmd.file[j].name)'
          OBVIOUS
        <5>1. CASE m = row.id
          BY <1>b, <2>1, <4>2, <4>3, <4>4, <5>1 DEF Owners, Existing
        <5>2. CASE m # row.id
          BY <1>b, <1>f, <4>4, <5>2 DEF Owners, Existing, WroteOnly
        <5> QED
          BY <5>1, <5>2
      <4>6. Owners(cmd.file[j].name) \subseteq Ids /\ Owners(cmd.file[j].name)' \subseteq Ids
        BY <4>4 DEF Owners, Existing
      <4> QED
        BY <4>1, <4>5, <4>6
    <3>2. Targets' = Targets /\ rows' = rows /\ seen'.owners = seen.owners
      BY <1>b, <1>k, <1>s DEF PlanKept
    <3> QED
      BY <3>1, <3>2
  <2>8. report'.failed = {} /\ report'.applied = {} /\ blocked' = {} /\ ~row'.bad
    BY <1>b, <1>r, <1>w, <2>1 DEF IInv, CleanInv
  <2>9. PackageOf(row.id)' = PackageOf(row.id) /\ cmd' = cmd
    BY <1>b, <1>k, <1>r DEF PlanKept
  <2>10. \A j \in Ids : \/ seen'.policies[j] = Unread \/ seen'.policies[j] = fleet'.policies[j]
                        \/ j \notin rows'
    BY <1>b, <1>s, <2>3
  <2>11. rows' \cup (IF Rechecking' THEN {row'.id} ELSE {}) = rows'
    BY <1>p
  <2>12. row'.applied /\ fleet'.policies[row'.id] = cmd'.file[row'.id] /\ row'.observed = Unread
    BY <1>r, <1>w, <2>1, <2>9
  <2> QED
    BY <1>p, <2>4, <2>5, <2>6, <2>7, <2>8, <2>9, <2>10, <2>11, <2>12 DEF CleanInv
<1>13. PlanIsValid'
  BY <1>p DEF PlanIsValid, Planning
<1>14. OwnWritesAreExpected'
  BY <1>p DEF OwnWritesAreExpected
<1> QED
  BY <1>1, <1>2, <1>3, <1>4, <1>5, <1>6, <1>7, <1>8, <1>9, <1>10, <1>11, <1>12, <1>13, <1>14
     DEF IInv

(* A policy is deleted. *)
LEMMA DeletedStep ==
  ASSUME IInv, WriteAnswered, ~Import
  PROVE  IInv'
<1>w. /\ pc = "write" /\ Rechecking /\ Applying /\ ~Planning
      /\ pc \notin {"idle", "existing", "names", "observe"}
      /\ row.id \in Ids /\ row.id \in Targets /\ row.id \notin rows
      /\ PackageOf(row.id) \in Packages
      /\ ~row.applied /\ row.observed = Unread /\ row \in Rows
  <2>1. pc = "write" /\ Rechecking
    BY DEF WriteAnswered, Rechecking
  <2> QED
    BY <2>1, RowFacts DEF IInv, RowInv, ShapeInv, Planning
<1>p. /\ pc' = "row" /\ row' = NoRow /\ todo' = {} /\ Applying' /\ ~Planning' /\ ~Checking'
      /\ ~Rechecking' 
  BY DEF WriteAnswered, NextRow, Applying, Planning, Checking, Rechecking
<1>b. /\ UNCHANGED <<cmd, rows, blocked, outcome, shown, raced, lost, edits>>
      /\ seen' = [seen EXCEPT !.parents = Advance(row.id)]
      /\ report' = [report EXCEPT !.affected = Affected(row.id), !.succeeded = @ \cup {row.id}]
      /\ UNCHANGED <<clean>> /\ fleet' = Stored(None, row.id)
  BY DEF WriteAnswered, NextRow, NoFault, Written
<1>s. /\ seen'.policies = seen.policies /\ seen'.owners = seen.owners
      /\ seen'.packages = seen.packages
      /\ seen'.parents = Advance(row.id) /\ seen' \in Seens
  <2>1. seen \in Seens /\ Advance(row.id) \in [Parents -> Snapshots \cup {Unread}]
    BY <1>w, AdvanceFacts DEF IInv, ShapeInv
  <2> HIDE DEF Snapshots, Advance
  <2> QED
    BY <1>b, <2>1 DEF Seens
<1>k. PlanKept
  BY <1>b, <1>s, PlanIsKept
<1>r. /\ report' \in Reports /\ report'.succeeded = report.succeeded \cup {row.id}
      /\ report'.applied = report.applied
      /\ report'.failed = report.failed /\ report'.installs = report.installs
  <2>1. report \in Reports /\ Affected(row.id) \subseteq Parents \X Agents
    BY <1>w, AffectedFacts DEF IInv, ShapeInv
  <2> HIDE DEF Affected
  <2> QED
    BY <1>b, <1>w, <2>1 DEF Reports
<1>o. Ours' = Ours \cup {row.id} /\ Uncertain' = Uncertain
  <2>1. ~NoRow.applied
    BY Zenon DEF NoRow
  <2>2. Ours = Mine /\ Ours' = Mine'
    BY <1>p, <1>w, <2>1 DEF Ours
  <2>3. Mine' = Mine \cup {row.id}
    BY <1>b, <1>r DEF Mine
  <2> QED
    BY <1>b, <1>k, <1>r, <2>2, <2>3 DEF Uncertain, PlanKept
<1>f. /\ WroteOnly(row.id) /\ fleet'.policies[row.id] = None /\ ~Creates(row.id)
      /\ \A k \in Packages : fleet'.packages[k] = fleet.packages[k]
  <2>1. None \in Policy \cup {None} /\ ~Creates(row.id)
    BY DEF Creates
  <2>2. WroteOnly(row.id) /\ fleet'.policies[row.id] = None
    BY <1>b, <1>w, <2>1, StoredFacts DEF IInv
  <2> QED
    BY <2>1, <2>2 DEF WroteOnly
<1>1. ShapeInv'
  <2>1. fleet' \in FleetState
    BY <1>f DEF WroteOnly
  <2> QED
    BY <1>b, <1>p, <1>r, <1>s, <2>1, FirstValues DEF IInv, ShapeInv, Labels
<1>2. FreshInv'
  BY <1>p DEF FreshInv
<1>3. PoliciesInv'
  BY <1>b, <1>k, <1>p, <1>s, <1>w DEF IInv, PoliciesInv, PlanKept
<1>4. OwnersInv'
  BY <1>b, <1>k, <1>s, <1>w DEF IInv, OwnersInv, OwnersMatch, PlanKept
<1>5. ParentsInv'
  BY <1>p DEF ParentsInv, Planning
<1>6. PackagesInv'
  <2>1. \A i \in Targets : PackageRead(i)
    BY <1>w DEF IInv, PackagesInv
  <2>2. \A i \in Targets : PackageRead(i)'
    BY <1>k, <1>s, <2>1 DEF PackageRead, PlanKept
  <2> QED
    BY <1>k, <1>p, <2>2 DEF PackagesInv, PlanKept, Planning
<1>7. ShownInv'
  <2>1. ASSUME NEW p \in Parents, seen.parents[p] # Unread
        PROVE  /\ seen'.parents[p] # Unread /\ seen'.parents[p].agents = seen.parents[p].agents
               /\ \A j \in Ids \ {row.id} : j \in seen'.parents[p].attached <=> j \in seen.parents[p].attached
    BY <1>s, <1>w, <2>1, AdvanceFacts
  <2>2. ASSUME NEW p \in Parents, shown.parents[p] # Unread
        PROVE  /\ p \in ParentsOf(row.id) =>
                    (row.id \in seen'.parents[p].attached <=> p \in DesiredParents(row.id))
               /\ p \notin ParentsOf(row.id) =>
                    (row.id \in seen'.parents[p].attached <=> row.id \in shown.parents[p].attached)
    <3>1. seen.parents[p] # Unread
      BY <1>w, <2>2 DEF IInv, ShownInv
    <3>2. seen'.parents[p].attached =
            IF p \in DesiredParents(row.id) THEN seen.parents[p].attached \cup {row.id}
            ELSE IF p \in CurrentParents(row.id) THEN seen.parents[p].attached \ {row.id}
            ELSE seen.parents[p].attached
      BY <1>s, <1>w, <3>1, AdvanceFacts
    <3>3. p \in ParentsOf(row.id) <=> p \in DesiredParents(row.id) \/ p \in CurrentParents(row.id)
      BY DEF ParentsOf
    <3>4. CASE p \in ParentsOf(row.id)
      BY <3>2, <3>3, <3>4
    <3>5. CASE p \notin ParentsOf(row.id)
      <4>1. row.id \in seen.parents[p].attached <=> row.id \in shown.parents[p].attached
        BY <1>w, <2>2, <3>5 DEF IInv, ShownInv
      <4> QED
        BY <3>2, <3>3, <3>5, <4>1
    <3> QED
      BY <3>4, <3>5
  <2>3. Ours' = Ours \cup {row.id} /\ Uncertain' = Uncertain
    BY <1>o
  <2>4. ASSUME NEW p \in Parents, shown.parents[p] # Unread
        PROVE IF row.id \in Ours' /\ p \in ParentsOf(row.id)
              THEN \/ row.id \in Uncertain'
                   \/ (row.id \in seen'.parents[p].attached <=> p \in DesiredParents(row.id))
              ELSE row.id \in seen'.parents[p].attached <=> row.id \in shown.parents[p].attached
    <3>1. CASE p \in ParentsOf(row.id)
      BY <2>2, <2>3, <2>4, <3>1
    <3>2. CASE p \notin ParentsOf(row.id)
      BY <2>2, <2>3, <2>4, <3>2
    <3> QED
      BY <3>1, <3>2
  <2>5. \A k \in Packages :
          \/ seen'.packages[k] = shown.packages[k]
          \/ shown.packages[k] = None /\ seen'.packages[k] = "exact" /\ k \in report'.installs
    BY <1>s, <1>w, <1>r DEF IInv, ShownInv
  <2>6. \A j \in Ids \ {row.id} : (j \in Ours' <=> j \in Ours) /\ (j \in Uncertain => j \in Uncertain')
    BY <2>3
  <2> QED
    BY <1>k, <1>b, <1>p, <1>w, <2>1, <2>4, <2>5, <2>6, ShownIsKept DEF Planning
<1>8. RowInv'
  BY <1>b, <1>k, <1>p, <1>w DEF IInv, RowInv, PlanKept
<1>9. RecheckInv'
  BY <1>p DEF RecheckInv
<1>10. VerifyInv'
  BY <1>p DEF VerifyInv
<1>11. InstallsInv'
  <2>1. ~MustObserve(row.id)
    BY <1>f DEF MustObserve
  <2> QED
    BY <1>b, <1>f, <1>k, <1>p, <1>r, <1>w, <2>1, InstallsAfterWrite
<1>12. CleanInv'
  <2> SUFFICES ASSUME clean PROVE CleanInv'
    BY <1>b DEF CleanInv
  <2>2. DesiredParents(row.id) = {} /\ ~NoRow.bad
    BY Zenon DEF DesiredParents, NoRow
  <2>3. /\ \A p \in Parents : seen.parents[p] # Unread => Advance(row.id)[p] = Snapshot(p)'
        /\ \A j \in rows : seen.policies[j] = Unread \/ seen.policies[j] = fleet'.policies[j]
    BY <1>f, <1>k, <1>w, <2>2, CleanWrite
  <2>4. \A p \in Parents : seen'.parents[p] # Unread => seen'.parents[p] = Snapshot(p)'
    BY <1>s, <1>w, <2>3, AdvanceFacts
  <2>5. \A k \in Packages : seen'.packages[k] # Unread => seen'.packages[k] = fleet'.packages[k]
    BY <1>f, <1>s, <1>w DEF IInv, CleanInv
  <2>8. report'.failed = {} /\ report'.applied = {} /\ blocked' = {} /\ ~row'.bad
    BY <1>b, <1>p, <1>r, <1>w, <2>2 DEF IInv, CleanInv
  <2>10. \A j \in Ids : \/ seen'.policies[j] = Unread \/ seen'.policies[j] = fleet'.policies[j]
                        \/ j \notin rows'
    BY <1>b, <1>s, <2>3
  <2>11. ~Import'
    BY <1>k DEF PlanKept
  <2>12. rows' \cup (IF Rechecking' THEN {row'.id} ELSE {}) = rows'
    BY <1>p
  <2> QED
    BY <1>p, <2>4, <2>5, <2>8, <2>10, <2>11, <2>12 DEF CleanInv
<1>13. PlanIsValid'
  BY <1>p DEF PlanIsValid
<1>14. OwnWritesAreExpected'
  BY <1>p DEF OwnWritesAreExpected
<1> QED
  BY <1>1, <1>2, <1>3, <1>4, <1>5, <1>6, <1>7, <1>8, <1>9, <1>10, <1>11, <1>12, <1>13, <1>14
     DEF IInv

(* A request that fails has written all of the policy, only its package,   *)
(* or nothing.                                                             *)
LEMMA FailedWriteFacts ==
  ASSUME IInv, pc = "write",
         \/ fleet' \in {fleet, OnlyInstalled(row.id)}
         \/ fleet' = Written(row.id)
  PROVE  WroteOnly(row.id)
<1>1. row.id \in Ids /\ row.id \in Targets /\ pc \notin {"idle", "existing"}
  BY RowFacts DEF Rechecking
<1>2. CASE fleet' = fleet
  BY <1>2 DEF WroteOnly, IInv, ShapeInv
<1>3. CASE fleet' = OnlyInstalled(row.id)
  <2>1. fleet.policies[row.id] \in Policy \cup {None}
    BY <1>1 DEF IInv, ShapeInv, FleetState
  <2> QED
    BY <1>1, <1>3, <2>1, StoredFacts DEF OnlyInstalled, IInv
<1>4. CASE fleet' = Written(row.id)
  <2>1. (IF Import THEN cmd.file[row.id] ELSE None) \in Policy \cup {None}
    BY <1>1, TargetFacts DEF IInv
  <2> QED
    BY <1>1, <1>4, <2>1, StoredFacts DEF Written, IInv
<1> QED
  BY <1>2, <1>3, <1>4

(* When nobody else wrote, Fleet accepts the write of a row.               *)
LEMMA CleanIsAccepted ==
  ASSUME IInv, pc = "write", clean
  PROVE  Accepts(row.id)
<1>1. /\ row.id \in Ids /\ row.id \in Targets /\ pc \notin {"idle", "existing", "names"}
      /\ Applying
      /\ seen.policies[row.id] # Unread /\ row.id \notin rows
  BY RowFacts DEF Rechecking
<1>2. seen.policies[row.id] = fleet.policies[row.id]
  BY <1>1 DEF IInv, CleanInv, Rechecking
<1>3. ~Import => Exists(row.id)
  BY <1>1, TargetFacts DEF IInv
<1>4. (fleet.policies[row.id] = None) <=> Creates(row.id)
  BY <1>2, <1>3 DEF Creates, Exists
<1>5. Import => Owners(cmd.file[row.id].name) \subseteq {row.id}
  <2> SUFFICES ASSUME Import PROVE Owners(cmd.file[row.id].name) \subseteq {row.id}
    OBVIOUS
  <2>1. seen.owners[row.id] = Owners(cmd.file[row.id].name)
    BY <1>1 DEF IInv, CleanInv, Rechecking
  <2>2. OwnersMatch(row.id)
    BY <1>1 DEF IInv, OwnersInv
  <2> QED
    BY <2>1, <2>2 DEF OwnersMatch
<1>6. (fleet.policies[row.id] = None) = Creates(row.id)
  BY <1>4, Zenon DEF Creates
<1> QED
  BY <1>5, <1>6, Zenon DEF Accepts

(* A create fails that was to install its package: the package is looked at. *)
LEMMA CreateFailsStep ==
  ASSUME IInv, WriteFails, MustObserve(row.id)
  PROVE  IInv'
<1>w. /\ pc = "write" /\ Rechecking /\ Applying /\ ~Planning
      /\ pc \notin {"idle", "existing", "names", "observe"}
      /\ row.id \in Ids /\ row.id \in Targets /\ row.id \notin rows
      /\ PackageOf(row.id) \in Packages
      /\ ~row.applied /\ row.observed = Unread /\ row \in Rows /\ Import
  <2>1. pc = "write" /\ Rechecking
    BY DEF WriteFails, Rechecking
  <2> QED
    BY <2>1, RowFacts DEF IInv, RowInv, ShapeInv, Planning, MustObserve, Creates
<1>p. /\ pc' = "observe" /\ Checking' /\ Applying' /\ ~Planning' /\ ~Rechecking' 
  BY DEF WriteFails, Checking, Rechecking, Applying, Planning
<1>b. /\ UNCHANGED <<cmd, rows, seen, blocked, outcome, shown, raced, edits, report, todo>>
      /\ row' = [row EXCEPT !.bad = TRUE] /\ lost' \in {lost, lost \cup {row.id}}
  BY DEF WriteFails
<1>k. PlanKept
  BY <1>b, PlanIsKept
<1>c. ~clean'
  BY <1>w, CleanIsAccepted DEF WriteFails, Fault, NoFault
<1>f. WroteOnly(row.id)
  BY <1>w, FailedWriteFacts DEF WriteFails
<1>r. /\ row' \in Rows /\ row'.id = row.id /\ ~row'.applied /\ row'.observed = row.observed
      /\ report' \in Reports /\ report'.installs = report.installs /\ lost' \subseteq Ids
  <2>1. row'.applied = row.applied
    BY <1>b, <1>w, Zenon DEF Rows
  <2>2. row' \in Rows /\ row'.id = row.id /\ row'.observed = row.observed
    BY <1>b, <1>w DEF Rows
  <2>3. ~row'.applied
    BY <1>w, <2>1
  <2> QED
    BY <1>b, <1>w, <2>2, <2>3 DEF IInv, ShapeInv
<1>o. /\ Ours' = Ours \cup (lost' \ lost) /\ Uncertain' = Uncertain \cup (lost' \ lost)
      /\ lost' \ lost \subseteq {row.id}
  <2>1. Ours = Mine /\ Ours' = Mine'
    BY <1>r, <1>w DEF Ours
  <2>2. Mine' = Mine \cup (lost' \ lost) /\ lost' \ lost \subseteq {row.id}
    BY <1>b DEF Mine
  <2> QED
    BY <1>b, <1>k, <2>1, <2>2 DEF Uncertain, PlanKept
<1>1. ShapeInv'
  <2>1. fleet' \in FleetState
    BY <1>f DEF WroteOnly
  <2> QED
    BY <1>b, <1>p, <1>r, <1>w, <2>1, FirstValues DEF IInv, ShapeInv, Labels
<1>2. FreshInv'
  BY <1>p DEF FreshInv
<1>3. PoliciesInv'
  BY <1>b, <1>k, <1>p, <1>w DEF IInv, PoliciesInv, PlanKept
<1>4. OwnersInv'
  BY <1>b, <1>k, <1>w DEF IInv, OwnersInv, OwnersMatch, PlanKept
<1>5. ParentsInv'
  BY <1>p DEF ParentsInv, Planning
<1>6. PackagesInv'
  <2>1. \A i \in Targets : PackageRead(i)
    BY <1>w DEF IInv, PackagesInv
  <2>2. \A i \in Targets : PackageRead(i)'
    BY <1>k, <1>b, <2>1 DEF PackageRead, PlanKept
  <2> QED
    BY <1>k, <1>p, <2>2 DEF PackagesInv, PlanKept, Planning
<1>7. ShownInv'
  <2>3. /\ \A j \in Ids \ {row.id} : (j \in Ours' <=> j \in Ours) /\ (j \in Uncertain => j \in Uncertain')
        /\ row.id \in Ours' => row.id \in Uncertain' \/ row.id \in Ours
        /\ row.id \in Ours => row.id \in Ours' /\ (row.id \in Uncertain => row.id \in Uncertain')
    BY <1>o
  <2>4. ASSUME NEW p \in Parents, shown.parents[p] # Unread
        PROVE IF row.id \in Ours' /\ p \in ParentsOf(row.id)
              THEN \/ row.id \in Uncertain'
                   \/ (row.id \in seen'.parents[p].attached <=> p \in DesiredParents(row.id))
              ELSE row.id \in seen'.parents[p].attached <=> row.id \in shown.parents[p].attached
    <3>1. CASE row.id \in Ours /\ p \in ParentsOf(row.id)
      <4>1. row.id \in Uncertain \/ (row.id \in seen.parents[p].attached <=> p \in DesiredParents(row.id))
        BY <1>w, <2>4, <3>1 DEF IInv, ShownInv
      <4> QED
        BY <1>b, <2>3, <3>1, <4>1
    <3>2. CASE ~(row.id \in Ours /\ p \in ParentsOf(row.id))
      <4>1. row.id \in seen.parents[p].attached <=> row.id \in shown.parents[p].attached
        BY <1>w, <2>4, <3>2 DEF IInv, ShownInv
      <4> QED
        BY <1>b, <2>3, <3>2, <4>1
    <3> QED
      BY <3>1, <3>2
  <2>5. \A k \in Packages :
          \/ seen'.packages[k] = shown.packages[k]
          \/ shown.packages[k] = None /\ seen'.packages[k] = "exact" /\ k \in report'.installs
    BY <1>b, <1>w, <1>r DEF IInv, ShownInv
  <2> QED
    BY <1>k, <1>b, <1>p, <1>w, <2>3, <2>4, <2>5, ShownIsKept DEF Planning
<1>8. RowInv'
  <2>1. row'.id \in Targets' \ rows' /\ rows' \subseteq Targets' /\ (Import' <=> Import)
    BY <1>b, <1>k, <1>r, <1>w DEF IInv, RowInv, PlanKept
  <2>2. MustObserve(row.id)'
    <3>1. /\ (Creates(row.id)' <=> Creates(row.id)) /\ PackageOf(row.id)' = PackageOf(row.id)
      BY <1>k, <1>r DEF PlanKept
    <3> QED
      BY <1>b, <3>1 DEF MustObserve
  <2> QED
    BY <1>p, <1>r, <1>w, <2>1, <2>2 DEF RowInv
<1>9. RecheckInv'
  BY <1>p DEF RecheckInv
<1>10. VerifyInv'
  BY <1>p DEF VerifyInv
<1>11. InstallsInv'
  BY <1>b, <1>f, <1>k, <1>p, <1>r, <1>w, InstallsAfterWrite
<1>12. CleanInv'
  BY <1>c DEF CleanInv
<1>13. PlanIsValid'
  BY <1>p DEF PlanIsValid
<1>14. OwnWritesAreExpected'
  BY <1>p DEF OwnWritesAreExpected
<1> QED
  BY <1>1, <1>2, <1>3, <1>4, <1>5, <1>6, <1>7, <1>8, <1>9, <1>10, <1>11, <1>12, <1>13, <1>14
     DEF IInv

(* A write fails, and with it the row. *)
LEMMA WriteFailsStep ==
  ASSUME IInv, WriteFails, ~MustObserve(row.id)
  PROVE  IInv'
<1>w. /\ pc = "write" /\ Rechecking /\ Applying /\ ~Planning
      /\ pc \notin {"idle", "existing", "names", "observe"}
      /\ row.id \in Ids /\ row.id \in Targets /\ row.id \notin rows
      /\ PackageOf(row.id) \in Packages
      /\ ~row.applied /\ row.observed = Unread /\ row \in Rows
  <2>1. pc = "write" /\ Rechecking
    BY DEF WriteFails, Rechecking
  <2> QED
    BY <2>1, RowFacts DEF IInv, RowInv, ShapeInv, Planning
<1>p. /\ pc' = "row" /\ row' = NoRow /\ todo' = {} /\ Applying' /\ ~Planning' /\ ~Checking'
      /\ ~Rechecking' 
  BY DEF WriteFails, RowFails, NextRow, Applying, Planning, Checking, Rechecking
<1>b. /\ UNCHANGED <<cmd, rows, seen, blocked, outcome, shown, raced, edits>>
      /\ report' = [report EXCEPT !.failed = @ \cup {row.id}]
      /\ lost' \in {lost, lost \cup {row.id}}
  BY DEF WriteFails, RowFails, NextRow
<1>k. PlanKept
  BY <1>b, PlanIsKept
<1>c. ~clean'
  BY <1>w, CleanIsAccepted DEF WriteFails, Fault, NoFault
<1>f. WroteOnly(row.id)
  BY <1>w, FailedWriteFacts DEF WriteFails
<1>r. /\ report' \in Reports /\ report'.installs = report.installs /\ lost' \subseteq Ids
      /\ report'.succeeded = report.succeeded /\ report'.applied = report.applied
  BY <1>b, <1>w, ReportFacts DEF IInv, ShapeInv, Reports
<1>o. /\ Ours' = Ours \cup (lost' \ lost) /\ Uncertain' = Uncertain \cup (lost' \ lost)
      /\ lost' \ lost \subseteq {row.id}
  <2>1. ~NoRow.applied
    BY Zenon DEF NoRow
  <2>2. Ours = Mine /\ Ours' = Mine'
    BY <1>p, <1>w, <2>1 DEF Ours
  <2>3. Mine' = Mine \cup (lost' \ lost) /\ lost' \ lost \subseteq {row.id}
    BY <1>b, <1>r DEF Mine
  <2> QED
    BY <1>b, <1>k, <1>r, <2>2, <2>3 DEF Uncertain, PlanKept
<1>1. ShapeInv'
  <2>1. fleet' \in FleetState
    BY <1>f DEF WroteOnly
  <2> QED
    BY <1>b, <1>p, <1>r, <1>w, <2>1, FirstValues DEF IInv, ShapeInv, Labels
<1>2. FreshInv'
  BY <1>p DEF FreshInv
<1>3. PoliciesInv'
  BY <1>b, <1>k, <1>p, <1>w DEF IInv, PoliciesInv, PlanKept
<1>4. OwnersInv'
  BY <1>b, <1>k, <1>w DEF IInv, OwnersInv, OwnersMatch, PlanKept
<1>5. ParentsInv'
  BY <1>p DEF ParentsInv, Planning
<1>6. PackagesInv'
  <2>1. \A i \in Targets : PackageRead(i)
    BY <1>w DEF IInv, PackagesInv
  <2>2. \A i \in Targets : PackageRead(i)'
    BY <1>k, <1>b, <2>1 DEF PackageRead, PlanKept
  <2> QED
    BY <1>k, <1>p, <2>2 DEF PackagesInv, PlanKept, Planning
<1>7. ShownInv'
  <2>3. /\ \A j \in Ids \ {row.id} : (j \in Ours' <=> j \in Ours) /\ (j \in Uncertain => j \in Uncertain')
        /\ row.id \in Ours' => row.id \in Uncertain' \/ row.id \in Ours
        /\ row.id \in Ours => row.id \in Ours' /\ (row.id \in Uncertain => row.id \in Uncertain')
    BY <1>o
  <2>4. ASSUME NEW p \in Parents, shown.parents[p] # Unread
        PROVE IF row.id \in Ours' /\ p \in ParentsOf(row.id)
              THEN \/ row.id \in Uncertain'
                   \/ (row.id \in seen'.parents[p].attached <=> p \in DesiredParents(row.id))
              ELSE row.id \in seen'.parents[p].attached <=> row.id \in shown.parents[p].attached
    <3>1. CASE row.id \in Ours /\ p \in ParentsOf(row.id)
      <4>1. row.id \in Uncertain \/ (row.id \in seen.parents[p].attached <=> p \in DesiredParents(row.id))
        BY <1>w, <2>4, <3>1 DEF IInv, ShownInv
      <4> QED
        BY <1>b, <2>3, <3>1, <4>1
    <3>2. CASE ~(row.id \in Ours /\ p \in ParentsOf(row.id))
      <4>1. row.id \in seen.parents[p].attached <=> row.id \in shown.parents[p].attached
        BY <1>w, <2>4, <3>2 DEF IInv, ShownInv
      <4> QED
        BY <1>b, <2>3, <3>2, <4>1
    <3> QED
      BY <3>1, <3>2
  <2>5. \A k \in Packages :
          \/ seen'.packages[k] = shown.packages[k]
          \/ shown.packages[k] = None /\ seen'.packages[k] = "exact" /\ k \in report'.installs
    BY <1>b, <1>w, <1>r DEF IInv, ShownInv
  <2> QED
    BY <1>k, <1>b, <1>p, <1>w, <2>3, <2>4, <2>5, ShownIsKept DEF Planning
<1>8. RowInv'
  BY <1>b, <1>k, <1>p, <1>w DEF IInv, RowInv, PlanKept
<1>9. RecheckInv'
  BY <1>p DEF RecheckInv
<1>10. VerifyInv'
  BY <1>p DEF VerifyInv
<1>11. InstallsInv'
  BY <1>b, <1>f, <1>k, <1>p, <1>r, <1>w, InstallsAfterWrite
<1>12. CleanInv'
  BY <1>c DEF CleanInv
<1>13. PlanIsValid'
  BY <1>p DEF PlanIsValid
<1>14. OwnWritesAreExpected'
  BY <1>p DEF OwnWritesAreExpected
<1> QED
  BY <1>1, <1>2, <1>3, <1>4, <1>5, <1>6, <1>7, <1>8, <1>9, <1>10, <1>11, <1>12, <1>13, <1>14
     DEF IInv

(* A delete is answered for another policy: it was applied. *)
LEMMA DeleteUnconfirmedStep ==
  ASSUME IInv, DeleteUnconfirmed
  PROVE  IInv'
<1>w. /\ pc = "write" /\ Rechecking /\ Applying /\ ~Planning
      /\ pc \notin {"idle", "existing", "names", "observe"}
      /\ row.id \in Ids /\ row.id \in Targets /\ row.id \notin rows
      /\ PackageOf(row.id) \in Packages
      /\ ~row.applied /\ row.observed = Unread /\ row \in Rows /\ ~Import
  <2>1. pc = "write" /\ Rechecking
    BY DEF DeleteUnconfirmed, Rechecking
  <2>2. ~Import
    BY DEF DeleteUnconfirmed
  <2> QED
    BY <2>1, <2>2, RowFacts DEF IInv, RowInv, ShapeInv, Planning
<1>p. /\ pc' = "row" /\ row' = NoRow /\ todo' = {} /\ Applying' /\ ~Planning' /\ ~Checking'
      /\ ~Rechecking' 
  BY DEF DeleteUnconfirmed, NextRow, Applying, Planning, Checking, Rechecking
<1>b. /\ UNCHANGED <<cmd, rows, seen, blocked, outcome, shown, raced, lost, edits>>
      /\ report' = [report EXCEPT !.applied = @ \cup {row.id}]
  BY DEF DeleteUnconfirmed, NextRow
<1>k. PlanKept
  BY <1>b, PlanIsKept
<1>c. ~clean' /\ ~MustObserve(row.id)
  BY <1>w DEF DeleteUnconfirmed, Fault, MustObserve, Creates
<1>f. WroteOnly(row.id)
  BY <1>w, FailedWriteFacts DEF DeleteUnconfirmed
<1>r. /\ report' \in Reports /\ report'.installs = report.installs
      /\ report'.succeeded = report.succeeded /\ report'.applied = report.applied \cup {row.id}
  BY <1>b, <1>w, ReportFacts DEF IInv, ShapeInv, Reports
<1>o. /\ Ours' = Ours \cup {row.id} /\ Uncertain' = Uncertain \cup {row.id}
  <2>1. ~NoRow.applied
    BY Zenon DEF NoRow
  <2>2. Ours = Mine /\ Ours' = Mine'
    BY <1>p, <1>w, <2>1 DEF Ours
  <2>3. Mine' = Mine \cup {row.id}
    BY <1>b, <1>r DEF Mine
  <2> QED
    BY <1>b, <1>k, <1>r, <1>w, <2>2, <2>3 DEF Uncertain, PlanKept
<1>1. ShapeInv'
  <2>1. fleet' \in FleetState
    BY <1>f DEF WroteOnly
  <2> QED
    BY <1>b, <1>p, <1>r, <1>w, <2>1, FirstValues DEF IInv, ShapeInv, Labels
<1>2. FreshInv'
  BY <1>p DEF FreshInv
<1>3. PoliciesInv'
  BY <1>b, <1>k, <1>p, <1>w DEF IInv, PoliciesInv, PlanKept
<1>4. OwnersInv'
  BY <1>b, <1>k, <1>w DEF IInv, OwnersInv, OwnersMatch, PlanKept
<1>5. ParentsInv'
  BY <1>p DEF ParentsInv, Planning
<1>6. PackagesInv'
  <2>1. \A i \in Targets : PackageRead(i)
    BY <1>w DEF IInv, PackagesInv
  <2>2. \A i \in Targets : PackageRead(i)'
    BY <1>k, <1>b, <2>1 DEF PackageRead, PlanKept
  <2> QED
    BY <1>k, <1>p, <2>2 DEF PackagesInv, PlanKept, Planning
<1>7. ShownInv'
  <2>3. /\ \A j \in Ids \ {row.id} : (j \in Ours' <=> j \in Ours) /\ (j \in Uncertain => j \in Uncertain')
        /\ row.id \in Ours' => row.id \in Uncertain' \/ row.id \in Ours
        /\ row.id \in Ours => row.id \in Ours' /\ (row.id \in Uncertain => row.id \in Uncertain')
    BY <1>o
  <2>4. ASSUME NEW p \in Parents, shown.parents[p] # Unread
        PROVE IF row.id \in Ours' /\ p \in ParentsOf(row.id)
              THEN \/ row.id \in Uncertain'
                   \/ (row.id \in seen'.parents[p].attached <=> p \in DesiredParents(row.id))
              ELSE row.id \in seen'.parents[p].attached <=> row.id \in shown.parents[p].attached
    <3>1. CASE row.id \in Ours /\ p \in ParentsOf(row.id)
      <4>1. row.id \in Uncertain \/ (row.id \in seen.parents[p].attached <=> p \in DesiredParents(row.id))
        BY <1>w, <2>4, <3>1 DEF IInv, ShownInv
      <4> QED
        BY <1>b, <2>3, <3>1, <4>1
    <3>2. CASE ~(row.id \in Ours /\ p \in ParentsOf(row.id))
      <4>1. row.id \in seen.parents[p].attached <=> row.id \in shown.parents[p].attached
        BY <1>w, <2>4, <3>2 DEF IInv, ShownInv
      <4> QED
        BY <1>b, <2>3, <3>2, <4>1
    <3> QED
      BY <3>1, <3>2
  <2>5. \A k \in Packages :
          \/ seen'.packages[k] = shown.packages[k]
          \/ shown.packages[k] = None /\ seen'.packages[k] = "exact" /\ k \in report'.installs
    BY <1>b, <1>w, <1>r DEF IInv, ShownInv
  <2> QED
    BY <1>k, <1>b, <1>p, <1>w, <2>3, <2>4, <2>5, ShownIsKept DEF Planning
<1>8. RowInv'
  BY <1>b, <1>k, <1>p, <1>w DEF IInv, RowInv, PlanKept
<1>9. RecheckInv'
  BY <1>p DEF RecheckInv
<1>10. VerifyInv'
  BY <1>p DEF VerifyInv
<1>11. InstallsInv'
  BY <1>b, <1>c, <1>f, <1>k, <1>p, <1>r, <1>w, InstallsAfterWrite
<1>12. CleanInv'
  BY <1>c DEF CleanInv
<1>13. PlanIsValid'
  BY <1>p DEF PlanIsValid
<1>14. OwnWritesAreExpected'
  BY <1>p DEF OwnWritesAreExpected
<1> QED
  BY <1>1, <1>2, <1>3, <1>4, <1>5, <1>6, <1>7, <1>8, <1>9, <1>10, <1>11, <1>12, <1>13, <1>14
     DEF IInv

-----------------------------------------------------------------------------
(* The package after a create, and other clients.                          *)

(* The package is looked at after a create that was answered. *)
LEMMA ObserveAppliedStep ==
  ASSUME IInv, Observe, row.applied
  PROVE  IInv'
<1>w. /\ pc = "observe" /\ Checking /\ Applying /\ ~Planning
      /\ pc \notin {"idle", "existing", "names"} /\ Import
      /\ row.id \in Ids /\ row.id \in Targets /\ row.id \notin rows
      /\ PackageOf(row.id) \in Packages
      /\ MustObserve(row.id) /\ row.observed = Unread /\ row \in Rows /\ ~Rechecking
  <2>1. pc = "observe" /\ Checking /\ ~Rechecking
    BY DEF Observe, Checking, Rechecking
  <2> QED
    BY <2>1, RowFacts DEF IInv, RowInv, ShapeInv
<1>p. /\ pc' = "verify" /\ Checking' /\ Applying' /\ ~Planning' /\ ~Rechecking' 
  BY DEF Observe, Checking, Rechecking, Applying, Planning
<1>b. /\ UNCHANGED <<fleet, cmd, rows, outcome, shown, clean, lost, edits>>
      /\ seen' = [seen EXCEPT !.packages = PackageAfter(PackageOf(row.id), fleet.packages[PackageOf(row.id)])]
      /\ blocked' = (IF fleet.packages[PackageOf(row.id)] = "other" THEN blocked \cup {PackageOf(row.id)} ELSE blocked)
      /\ raced' = raced \ {<<"package", PackageOf(row.id)>>}
      /\ todo' = todo /\ row' = [row EXCEPT !.observed = fleet.packages[PackageOf(row.id)],
                                  !.bad = (fleet.packages[PackageOf(row.id)] = "other")]
      /\ report' = [report EXCEPT !.installs = IF fleet.packages[PackageOf(row.id)] = "exact"
                                               THEN report.installs \cup {PackageOf(row.id)} ELSE report.installs]
  BY DEF Observe, Reread
<1>s. /\ seen'.policies = seen.policies /\ seen'.owners = seen.owners
      /\ seen'.parents = seen.parents
      /\ seen' \in Seens
      /\ \A k \in Packages :
           seen'.packages[k] = IF k = PackageOf(row.id) /\ fleet.packages[k] = "exact" THEN "exact"
                               ELSE seen.packages[k]
  <2>1. seen \in Seens
    BY <1>w DEF IInv, ShapeInv
  <2>2. PackageAfter(PackageOf(row.id), fleet.packages[PackageOf(row.id)]) \in [Packages -> Version \cup {Unread}]
    BY <1>w, <2>1 DEF PackageAfter, Seens, Version
  <2>3. \A k \in Packages :
          PackageAfter(PackageOf(row.id), fleet.packages[PackageOf(row.id)])[k] =
            IF k = PackageOf(row.id) /\ fleet.packages[k] = "exact" THEN "exact" ELSE seen.packages[k]
    BY <1>w, <2>1 DEF PackageAfter, Seens
  <2> HIDE DEF Version, PackageAfter
  <2> QED
    BY <1>b, <2>1, <2>2, <2>3 DEF Seens
<1>k. PlanKept
  BY <1>b, <1>s, PlanIsKept
<1>v. /\ row' \in Rows /\ row'.id = row.id /\ row'.applied
      /\ row'.observed = fleet.packages[PackageOf(row.id)] /\ row'.observed # Unread
      /\ row'.bad => row'.observed = "other"
  <2>1. fleet.packages[PackageOf(row.id)] \in Version
    BY <1>w, SeenTypes DEF IInv
  <2>2. row'.bad <=> fleet.packages[PackageOf(row.id)] = "other"
    BY <1>b, <1>w, Zenon DEF Rows
  <2>3. row'.applied = row.applied
    BY <1>b, <1>w, Zenon DEF Rows
  <2>4. row' \in Rows /\ row'.id = row.id /\ row'.observed = fleet.packages[PackageOf(row.id)]
    <3>1. (fleet.packages[PackageOf(row.id)] = "other") \in BOOLEAN
      BY Zenon
    <3> HIDE DEF Version
    <3> QED
      BY <1>b, <1>w, <2>1, <3>1 DEF Rows
  <2>5. fleet.packages[PackageOf(row.id)] # Unread
    BY <2>1, Keys DEF KeyFacts, Version
  <2>6. row'.applied
    BY <2>3
  <2> QED
    BY <2>2, <2>4, <2>5, <2>6
<1>r. /\ report' \in Reports /\ report'.succeeded = report.succeeded
      /\ report'.applied = report.applied
      /\ report.installs \subseteq report'.installs
      /\ fleet.packages[PackageOf(row.id)] = "exact" => PackageOf(row.id) \in report'.installs /\ report'.failed = report.failed
  BY <1>b, <1>w DEF IInv, ShapeInv, Reports
<1>o. Ours' = Ours /\ Uncertain' = Uncertain
  <2>1. Ours' = Mine' \cup {row.id} /\ Ours = Mine \cup {row.id}
    BY <1>v DEF Ours
  <2> QED
    BY <1>b, <1>k, <1>r, <2>1 DEF Uncertain, Mine, PlanKept
<1>1. ShapeInv'
  <2>1. blocked' \subseteq Packages
    BY <1>b, <1>w DEF IInv, ShapeInv
  <2> QED
    BY <1>b, <1>p, <1>r, <1>s, <1>v, <2>1 DEF IInv, ShapeInv, Labels
<1>2. FreshInv'
  BY <1>p DEF FreshInv
<1>3. PoliciesInv'
  BY <1>b, <1>k, <1>p, <1>s, <1>w DEF IInv, PoliciesInv, PlanKept
<1>4. OwnersInv'
  BY <1>b, <1>k, <1>s, <1>w DEF IInv, OwnersInv, OwnersMatch, PlanKept
<1>5. ParentsInv'
  BY <1>p DEF ParentsInv, Planning
<1>6. PackagesInv'
  <2>1. \A i \in Targets : PackageOf(i) \in Packages /\ PackageRead(i)
    BY <1>w, TargetFacts DEF IInv, PackagesInv
  <2>2. \A i \in Targets : PackageRead(i)'
    BY <1>k, <1>s, <2>1 DEF PackageRead, PlanKept
  <2> QED
    BY <1>k, <1>p, <2>2 DEF PackagesInv, PlanKept, Planning
<1>7. ShownInv'
  <2>1. /\ \A p \in Parents : seen.parents[p] # Unread =>
             /\ seen'.parents[p] # Unread /\ seen'.parents[p].agents = seen.parents[p].agents
             /\ \A j \in Ids \ {row.id} : j \in seen'.parents[p].attached <=> j \in seen.parents[p].attached
    BY <1>s
  <2>2. Ours' = Ours /\ Uncertain' = Uncertain
    BY <1>o
  <2>3. ASSUME NEW p \in Parents, shown.parents[p] # Unread
        PROVE IF row.id \in Ours' /\ p \in ParentsOf(row.id)
              THEN \/ row.id \in Uncertain'
                   \/ (row.id \in seen'.parents[p].attached <=> p \in DesiredParents(row.id))
              ELSE row.id \in seen'.parents[p].attached <=> row.id \in shown.parents[p].attached
    <3>1. CASE row.id \in Ours /\ p \in ParentsOf(row.id)
      <4>1. row.id \in Uncertain \/ (row.id \in seen.parents[p].attached <=> p \in DesiredParents(row.id))
        BY <1>w, <2>3, <3>1 DEF IInv, ShownInv
      <4> QED
        BY <1>s, <2>2, <3>1, <4>1
    <3>2. CASE ~(row.id \in Ours /\ p \in ParentsOf(row.id))
      <4>1. row.id \in seen.parents[p].attached <=> row.id \in shown.parents[p].attached
        BY <1>w, <2>3, <3>2 DEF IInv, ShownInv
      <4> QED
        BY <1>s, <2>2, <3>2, <4>1
    <3> QED
      BY <3>1, <3>2
  <2>4. ASSUME NEW k \in Packages
        PROVE  \/ seen'.packages[k] = shown.packages[k]
               \/ shown.packages[k] = None /\ seen'.packages[k] = "exact" /\ k \in report'.installs
    <3>1. \/ seen.packages[k] = shown.packages[k]
          \/ shown.packages[k] = None /\ seen.packages[k] = "exact" /\ k \in report.installs
      BY <1>w DEF IInv, ShownInv
    <3>2. k = PackageOf(row.id) => seen.packages[k] = None
      BY <1>w DEF MustObserve
    <3> QED
      BY <1>r, <1>s, <3>1, <3>2, Keys DEF KeyFacts
  <2> QED
    BY <1>k, <1>b, <1>p, <1>w, <2>1, <2>2, <2>3, <2>4, ShownIsKept DEF Planning
<1>8. RowInv'
  BY <1>b, <1>k, <1>p, <1>v, <1>w DEF IInv, RowInv, PlanKept
<1>9. RecheckInv'
  BY <1>p DEF RecheckInv
<1>10. VerifyInv'
  <2>1. PackageOf(row.id)' = PackageOf(row.id)
    BY <1>k, <1>v DEF PlanKept
  <2> QED
    BY <1>b, <1>p, <1>v, <2>1 DEF VerifyInv
<1>11. InstallsInv'
  <2>1. ASSUME NEW k \in Packages, shown.packages[k] = None, fleet.packages[k] = "exact"
        PROVE  k \in report'.installs \cup blocked' \/ <<"package", k>> \in raced'
    <3>1. CASE k = PackageOf(row.id)
      BY <1>r, <2>1, <3>1
    <3>2. CASE k # PackageOf(row.id)
      <4>1. k \in report.installs \cup blocked \/ <<"package", k>> \in raced
        BY <1>w, <2>1, <3>2 DEF IInv, InstallsInv
      <4>2. <<"package", k>> # <<"package", PackageOf(row.id)>>
        BY <3>2
      <4> QED
        BY <1>b, <1>r, <4>1, <4>2
    <3> QED
      BY <3>1, <3>2
  <2> QED
    BY <1>b, <1>p, <1>v, <2>1 DEF InstallsInv
<1>12. CleanInv'
  <2> SUFFICES ASSUME clean PROVE CleanInv'
    BY <1>b DEF CleanInv
  <2>1. /\ fleet.packages[PackageOf(row.id)] = "exact"
        /\ fleet.policies[row.id] = cmd.file[row.id]
        /\ report.failed = {} /\ report.applied = {} /\ blocked = {}
    BY <1>w DEF IInv, CleanInv
  <2>2. /\ report'.failed = {} /\ report'.applied = {} /\ blocked' = {} /\ ~row'.bad
        /\ row'.observed = "exact"
    BY <1>b, <1>r, <1>v, <2>1
  <2>3. FleetKept
    BY <1>b, FleetIsKept
  <2>4. \A p \in Parents : seen'.parents[p] # Unread => seen'.parents[p] = Snapshot(p)'
    BY <1>s, <1>w, <2>3 DEF IInv, CleanInv, FleetKept
  <2>5. \A k \in Packages : seen'.packages[k] # Unread => seen'.packages[k] = fleet'.packages[k]
    BY <1>b, <1>s, <1>w, <2>1 DEF IInv, CleanInv
  <2>6. \A i \in Ids : \/ seen'.policies[i] = Unread \/ seen'.policies[i] = fleet'.policies[i]
                       \/ i \notin rows'
    BY <1>b, <1>s, <1>w DEF IInv, CleanInv
  <2>7. Import' => \A i \in Targets' : \/ seen'.owners[i] = Owners(cmd.file[i].name)'
                                       \/ i \notin rows'
    <3>1. \A i \in Targets : Owners(cmd.file[i].name)' = Owners(cmd.file[i].name)
      BY <1>b DEF Owners, Existing
    <3>2. \A i \in Targets : \/ seen.owners[i] = Owners(cmd.file[i].name)
                             \/ i \notin rows
      BY <1>w DEF IInv, CleanInv
    <3> QED
      BY <1>b, <1>k, <1>s, <3>1, <3>2 DEF PlanKept
  <2>8. rows' \cup (IF Rechecking' THEN {row'.id} ELSE {}) = rows'
    BY <1>p
  <2>9. /\ row'.applied /\ fleet'.policies[row'.id] = cmd'.file[row'.id]
        /\ fleet'.packages[PackageOf(row.id)'] = "exact"
    <3>1. PackageOf(row.id)' = PackageOf(row.id)
      BY <1>k, <1>v DEF PlanKept
    <3> QED
      BY <1>b, <1>v, <2>1, <3>1
  <2> QED
    BY <1>p, <2>2, <2>4, <2>5, <2>6, <2>7, <2>8, <2>9 DEF CleanInv
<1>13. PlanIsValid'
  BY <1>p DEF PlanIsValid
<1>14. OwnWritesAreExpected'
  BY <1>p DEF OwnWritesAreExpected
<1> QED
  BY <1>1, <1>2, <1>3, <1>4, <1>5, <1>6, <1>7, <1>8, <1>9, <1>10, <1>11, <1>12, <1>13, <1>14
     DEF IInv

(* The package is looked at after a create that failed, and the row is over. *)
LEMMA ObserveFailedStep ==
  ASSUME IInv, Observe, ~row.applied
  PROVE  IInv'
<1>w. /\ pc = "observe" /\ Checking /\ Applying /\ ~Planning
      /\ pc \notin {"idle", "existing", "names"} /\ Import
      /\ row.id \in Ids /\ row.id \in Targets /\ row.id \notin rows
      /\ PackageOf(row.id) \in Packages
      /\ MustObserve(row.id) /\ row.observed = Unread /\ row \in Rows /\ ~Rechecking
  <2>1. pc = "observe" /\ Checking /\ ~Rechecking
    BY DEF Observe, Checking, Rechecking
  <2> QED
    BY <2>1, RowFacts DEF IInv, RowInv, ShapeInv
<1>p. /\ pc' = "row" /\ row' = NoRow /\ todo' = {} /\ Applying' /\ ~Planning' /\ ~Checking'
      /\ ~Rechecking' 
  BY DEF Observe, NextRow, Applying, Planning, Checking, Rechecking
<1>b. /\ UNCHANGED <<fleet, cmd, rows, outcome, shown, clean, lost, edits>>
      /\ seen' = [seen EXCEPT !.packages = PackageAfter(PackageOf(row.id), fleet.packages[PackageOf(row.id)])]
      /\ blocked' = (IF fleet.packages[PackageOf(row.id)] = "other" THEN blocked \cup {PackageOf(row.id)} ELSE blocked)
      /\ raced' = raced \ {<<"package", PackageOf(row.id)>>}
      /\ report' = [report EXCEPT !.installs = IF fleet.packages[PackageOf(row.id)] = "exact"
                                               THEN report.installs \cup {PackageOf(row.id)} ELSE report.installs,
                                  !.failed = @ \cup {row.id}]
  BY DEF Observe, Reread, NextRow
<1>s. /\ seen'.policies = seen.policies /\ seen'.owners = seen.owners
      /\ seen'.parents = seen.parents
      /\ seen' \in Seens
      /\ \A k \in Packages :
           seen'.packages[k] = IF k = PackageOf(row.id) /\ fleet.packages[k] = "exact" THEN "exact"
                               ELSE seen.packages[k]
  <2>1. seen \in Seens
    BY <1>w DEF IInv, ShapeInv
  <2>2. PackageAfter(PackageOf(row.id), fleet.packages[PackageOf(row.id)]) \in [Packages -> Version \cup {Unread}]
    BY <1>w, <2>1 DEF PackageAfter, Seens, Version
  <2>3. \A k \in Packages :
          PackageAfter(PackageOf(row.id), fleet.packages[PackageOf(row.id)])[k] =
            IF k = PackageOf(row.id) /\ fleet.packages[k] = "exact" THEN "exact" ELSE seen.packages[k]
    BY <1>w, <2>1 DEF PackageAfter, Seens
  <2> HIDE DEF Version, PackageAfter
  <2> QED
    BY <1>b, <2>1, <2>2, <2>3 DEF Seens
<1>k. PlanKept
  BY <1>b, <1>s, PlanIsKept
<1>r. /\ report' \in Reports /\ report'.succeeded = report.succeeded
      /\ report'.applied = report.applied
      /\ report.installs \subseteq report'.installs
      /\ fleet.packages[PackageOf(row.id)] = "exact" => PackageOf(row.id) \in report'.installs
  BY <1>b, <1>w DEF IInv, ShapeInv, Reports
<1>o. Ours' = Ours /\ Uncertain' = Uncertain
  <2>1. ~NoRow.applied
    BY Zenon DEF NoRow
  <2>2. Ours' = Mine' /\ Ours = Mine
    BY <1>p, <2>1 DEF Ours
  <2> QED
    BY <1>b, <1>k, <1>r, <2>2 DEF Uncertain, Mine, PlanKept
<1>1. ShapeInv'
  <2>1. blocked' \subseteq Packages
    BY <1>b, <1>w DEF IInv, ShapeInv
  <2> QED
    BY <1>b, <1>p, <1>r, <1>s, <2>1, FirstValues DEF IInv, ShapeInv, Labels
<1>2. FreshInv'
  BY <1>p DEF FreshInv
<1>3. PoliciesInv'
  BY <1>b, <1>k, <1>p, <1>s, <1>w DEF IInv, PoliciesInv, PlanKept
<1>4. OwnersInv'
  BY <1>b, <1>k, <1>s, <1>w DEF IInv, OwnersInv, OwnersMatch, PlanKept
<1>5. ParentsInv'
  BY <1>p DEF ParentsInv, Planning
<1>6. PackagesInv'
  <2>1. \A i \in Targets : PackageOf(i) \in Packages /\ PackageRead(i)
    BY <1>w, TargetFacts DEF IInv, PackagesInv
  <2>2. \A i \in Targets : PackageRead(i)'
    BY <1>k, <1>s, <2>1 DEF PackageRead, PlanKept
  <2> QED
    BY <1>k, <1>p, <2>2 DEF PackagesInv, PlanKept, Planning
<1>7. ShownInv'
  <2>1. /\ \A p \in Parents : seen.parents[p] # Unread =>
             /\ seen'.parents[p] # Unread /\ seen'.parents[p].agents = seen.parents[p].agents
             /\ \A j \in Ids \ {row.id} : j \in seen'.parents[p].attached <=> j \in seen.parents[p].attached
    BY <1>s
  <2>2. Ours' = Ours /\ Uncertain' = Uncertain
    BY <1>o
  <2>3. ASSUME NEW p \in Parents, shown.parents[p] # Unread
        PROVE IF row.id \in Ours' /\ p \in ParentsOf(row.id)
              THEN \/ row.id \in Uncertain'
                   \/ (row.id \in seen'.parents[p].attached <=> p \in DesiredParents(row.id))
              ELSE row.id \in seen'.parents[p].attached <=> row.id \in shown.parents[p].attached
    <3>1. CASE row.id \in Ours /\ p \in ParentsOf(row.id)
      <4>1. row.id \in Uncertain \/ (row.id \in seen.parents[p].attached <=> p \in DesiredParents(row.id))
        BY <1>w, <2>3, <3>1 DEF IInv, ShownInv
      <4> QED
        BY <1>s, <2>2, <3>1, <4>1
    <3>2. CASE ~(row.id \in Ours /\ p \in ParentsOf(row.id))
      <4>1. row.id \in seen.parents[p].attached <=> row.id \in shown.parents[p].attached
        BY <1>w, <2>3, <3>2 DEF IInv, ShownInv
      <4> QED
        BY <1>s, <2>2, <3>2, <4>1
    <3> QED
      BY <3>1, <3>2
  <2>4. ASSUME NEW k \in Packages
        PROVE  \/ seen'.packages[k] = shown.packages[k]
               \/ shown.packages[k] = None /\ seen'.packages[k] = "exact" /\ k \in report'.installs
    <3>1. \/ seen.packages[k] = shown.packages[k]
          \/ shown.packages[k] = None /\ seen.packages[k] = "exact" /\ k \in report.installs
      BY <1>w DEF IInv, ShownInv
    <3>2. k = PackageOf(row.id) => seen.packages[k] = None
      BY <1>w DEF MustObserve
    <3> QED
      BY <1>r, <1>s, <3>1, <3>2, Keys DEF KeyFacts
  <2> QED
    BY <1>k, <1>b, <1>p, <1>w, <2>1, <2>2, <2>3, <2>4, ShownIsKept DEF Planning
<1>8. RowInv'
  BY <1>b, <1>k, <1>p, <1>w DEF IInv, RowInv, PlanKept
<1>9. RecheckInv'
  BY <1>p DEF RecheckInv
<1>10. VerifyInv'
  BY <1>p DEF VerifyInv
<1>11. InstallsInv'
  <2>1. ASSUME NEW k \in Packages, shown.packages[k] = None, fleet.packages[k] = "exact"
        PROVE  k \in report'.installs \cup blocked' \/ <<"package", k>> \in raced'
    <3>1. CASE k = PackageOf(row.id)
      BY <1>r, <2>1, <3>1
    <3>2. CASE k # PackageOf(row.id)
      <4>1. k \in report.installs \cup blocked \/ <<"package", k>> \in raced
        BY <1>w, <2>1, <3>2 DEF IInv, InstallsInv
      <4>2. <<"package", k>> # <<"package", PackageOf(row.id)>>
        BY <3>2
      <4> QED
        BY <1>b, <1>r, <4>1, <4>2
    <3> QED
      BY <3>1, <3>2
  <2> QED
    BY <1>b, <1>p, <2>1 DEF InstallsInv
<1>12. CleanInv'
  <2>1. ~clean
    BY <1>w DEF IInv, CleanInv
  <2> QED
    BY <1>b, <2>1 DEF CleanInv
<1>13. PlanIsValid'
  BY <1>p DEF PlanIsValid
<1>14. OwnWritesAreExpected'
  BY <1>p DEF OwnWritesAreExpected
<1> QED
  BY <1>1, <1>2, <1>3, <1>4, <1>5, <1>6, <1>7, <1>8, <1>9, <1>10, <1>11, <1>12, <1>13, <1>14
     DEF IInv

(* The package cannot be looked at after a create that was answered. *)
LEMMA ObserveFailsAppliedStep ==
  ASSUME IInv, ObserveFails, row.applied
  PROVE  IInv'
<1>1. /\ pc = "observe" /\ Checking /\ Applying /\ ~Planning
      /\ pc \notin {"idle", "existing", "names"} /\ Import
      /\ row.id \in Ids /\ row.id \in Targets /\ row.id \notin rows
      /\ PackageOf(row.id) \in Packages
      /\ MustObserve(row.id) /\ row.observed = Unread /\ row \in Rows /\ ~Rechecking
  <2>1. pc = "observe" /\ Checking /\ ~Rechecking
    BY DEF ObserveFails, Checking, Rechecking
  <2> QED
    BY <2>1, RowFacts DEF IInv, RowInv, ShapeInv
<1>2. /\ row' = [row EXCEPT !.bad = TRUE] /\ pc' = "verify" /\ rows' = rows /\ ~clean'
      /\ UNCHANGED <<todo, report, fleet, cmd, seen, outcome, shown, raced, lost, edits>>
      /\ blocked' = blocked \cup {PackageOf(row.id)}
  BY DEF ObserveFails, Fault
<1>3. row' \in Rows /\ row'.id = row.id /\ row'.applied = row.applied /\ row'.observed = Unread
  <2>1. row'.applied = row.applied
    BY <1>1, <1>2, Zenon DEF Rows
  <2> QED
    BY <1>1, <1>2, <2>1 DEF Rows
<1>4. Checking' /\ ~Rechecking' /\ Applying'
  BY <1>2 DEF Checking, Rechecking, Applying
<1>5. PlanKept
  BY <1>2, PlanIsKept
<1>6. RowInv'
  BY <1>1, <1>2, <1>3, <1>4, <1>5 DEF IInv, RowInv, PlanKept
<1>7. RecheckInv' /\ VerifyInv'
  BY <1>2, <1>3, Keys DEF RecheckInv, VerifyInv, KeyFacts
<1>8. InstallsInv'
  <2>1. PackageOf(row.id)' = PackageOf(row.id)
    BY <1>3, <1>5 DEF PlanKept
  <2>2. ASSUME NEW k \in Packages, shown.packages[k] = None, fleet.packages[k] = "exact"
        PROVE  k \in report.installs \cup blocked' \/ <<"package", k>> \in raced'
    BY <1>1, <1>2, <2>2 DEF IInv, InstallsInv
  <2> QED
    BY <1>2, <1>3, <2>1, <2>2 DEF InstallsInv
<1>9. /\ todo' \subseteq Nat \X Nat /\ pc' \in Labels /\ edits' \in Nat
      /\ blocked' \subseteq Packages
  BY <1>1, <1>2 DEF IInv, ShapeInv, Labels
<1> QED
  BY <1>1, <1>2, <1>3, <1>4, <1>6, <1>7, <1>8, <1>9, RowGoesOnStep

(* The package cannot be looked at after a create that failed. *)
LEMMA ObserveFailsStep ==
  ASSUME IInv, ObserveFails, ~row.applied
  PROVE  IInv'
<1>1. /\ pc = "observe" /\ Checking /\ Applying /\ ~Planning
      /\ pc \notin {"idle", "existing", "names"} /\ Import
      /\ row.id \in Ids /\ row.id \in Targets /\ row.id \notin rows
      /\ PackageOf(row.id) \in Packages
      /\ MustObserve(row.id) /\ row.observed = Unread /\ row \in Rows /\ ~Rechecking
  <2>1. pc = "observe" /\ Checking /\ ~Rechecking
    BY DEF ObserveFails, Checking, Rechecking
  <2> QED
    BY <2>1, RowFacts DEF IInv, RowInv, ShapeInv
<1>2. /\ NextRow([report EXCEPT !.failed = @ \cup {row.id}]) /\ rows' = rows
      /\ UNCHANGED <<fleet, cmd, seen, outcome, shown, lost, raced, edits>> /\ ~clean'
      /\ blocked' = blocked \cup {PackageOf(row.id)}
  BY DEF ObserveFails, RowFails, Fault
<1>3. blocked \subseteq blocked' /\ blocked' \subseteq Packages /\ edits' \in Nat
  BY <1>1, <1>2 DEF IInv, ShapeInv
<1>4. ASSUME NEW k \in Packages, shown.packages[k] = None, fleet.packages[k] = "exact"
      PROVE  k \in report.installs \cup blocked' \/ <<"package", k>> \in raced'
  BY <1>1, <1>2, <1>4 DEF IInv, InstallsInv
<1> QED
  BY <1>1, <1>2, <1>3, <1>4, RowFailsStep

(* Other clients change a policy, a parent or a package: what they change  *)
(* is raced.                                                               *)
LEMMA ClientEffects ==
  ASSUME IInv, ClientEdits
  PROVE  /\ fleet' \in FleetState /\ raced \subseteq raced'
         /\ \A i \in Ids : <<"policy", i>> \in raced' \/ fleet'.policies[i] = fleet.policies[i]
         /\ \A p \in Parents : <<"parent", p>> \in raced' \/ Snapshot(p)' = Snapshot(p)
         /\ \A k \in Packages : <<"package", k>> \in raced' \/ fleet'.packages[k] = fleet.packages[k]
<1> HIDE DEF Policy, Parent, Version
<1>1. /\ fleet.policies \in [Ids -> Policy \cup {None}] /\ fleet.parents \in [Parents -> Parent]
      /\ fleet.packages \in [Packages -> Version] /\ fleet \in FleetState
  BY DEF IInv, ShapeInv, FleetState
<1>2. CASE \E i \in Ids, new \in Foreign \cup {None} : ClientWritesPolicy(i, new)
  <2>1. PICK i \in Ids, new \in Foreign \cup {None} : ClientWritesPolicy(i, new)
    BY <1>2
  <2>2. new \in Policy \cup {None}
    BY ForeignArePolicies
  <2>3. /\ fleet' \in FleetState /\ fleet'.parents = fleet.parents
        /\ fleet'.packages = fleet.packages
        /\ fleet'.policies = [fleet.policies EXCEPT ![i] = new]
    BY <1>1, <2>1, <2>2 DEF ClientWritesPolicy, FleetState
  <2>4. fleet'.policies[i] = new /\ \A j \in Ids \ {i} : fleet'.policies[j] = fleet.policies[j]
    BY <1>1, <2>3
  <2>5. /\ raced' = raced \cup {<<"policy", i>>} \cup ParentTags(new) \cup ParentTags(fleet.policies[i])
    BY <2>1 DEF ClientWritesPolicy
  <2>6. ASSUME NEW p \in Parents, <<"parent", p>> \notin raced' PROVE Snapshot(p)' = Snapshot(p)
    <3>1. /\ new = None \/ p \notin new.parents
          /\ fleet.policies[i] = None \/ p \notin fleet.policies[i].parents
      BY <2>5, <2>6 DEF ParentTags
    <3>2. DOMAIN fleet.policies = Ids /\ DOMAIN fleet'.policies = Ids
      BY <1>1, <2>3
    <3>3. \A j \in Ids : j \in Attached(p)' <=> j \in Attached(p)
      BY <2>4, <3>1, <3>2 DEF Attached, Existing
    <3>4. Attached(p) \subseteq Ids /\ Attached(p)' \subseteq Ids
      BY <3>2 DEF Attached, Existing
    <3>5. Attached(p)' = Attached(p)
      BY <3>3, <3>4
    <3> QED
      BY <2>3, <3>5 DEF Snapshot
  <2> QED
    BY <2>3, <2>4, <2>5, <2>6
<1>3. CASE \E p \in Parents, new \in Parent : ClientChangesParent(p, new)
  <2>1. PICK q \in Parents, new \in Parent : ClientChangesParent(q, new)
    BY <1>3
  <2>2. /\ fleet' \in FleetState /\ fleet'.policies = fleet.policies
        /\ fleet'.packages = fleet.packages
        /\ fleet'.parents = [fleet.parents EXCEPT ![q] = new]
        /\ raced' = raced \cup {<<"parent", q>>}
    BY <1>1, <2>1 DEF ClientChangesParent, FleetState
  <2>3. ASSUME NEW p \in Parents, <<"parent", p>> \notin raced' PROVE Snapshot(p)' = Snapshot(p)
    <3>1. p # q
      BY <2>2, <2>3
    <3>2. fleet'.parents[p] = fleet.parents[p]
      BY <1>1, <2>2, <3>1
    <3>3. Attached(p)' = Attached(p)
      BY <2>2 DEF Attached, Existing
    <3> QED
      BY <3>2, <3>3 DEF Snapshot
  <2> QED
    BY <2>2, <2>3
<1>4. CASE \E k \in Packages, version \in Version : ClientChangesPackage(k, version)
  <2>1. PICK k \in Packages, version \in Version : ClientChangesPackage(k, version)
    BY <1>4
  <2>2. /\ fleet' \in FleetState /\ fleet'.policies = fleet.policies
        /\ fleet'.parents = fleet.parents
        /\ fleet'.packages = [fleet.packages EXCEPT ![k] = version]
        /\ raced' = raced \cup {<<"package", k>>}
    BY <1>1, <2>1 DEF ClientChangesPackage, FleetState
  <2>3. \A j \in Packages : <<"package", j>> \in raced' \/ fleet'.packages[j] = fleet.packages[j]
    BY <1>1, <2>2
  <2>4. \A p \in Parents : Snapshot(p)' = Snapshot(p)
    BY <2>2 DEF Snapshot, Attached, Existing
  <2> QED
    BY <2>2, <2>3, <2>4
<1> QED
  BY <1>2, <1>3, <1>4 DEF ClientEdits

(* Others change what they like: the command has read or raced it. *)
LEMMA ClientStep ==
  ASSUME IInv, ClientEdits
  PROVE  IInv'
<1>p. /\ UNCHANGED <<pc, cmd, todo, rows, row, seen, blocked, report, outcome, shown, lost>>
      /\ ~clean' /\ pc # "idle" /\ edits' = edits + 1
  BY DEF ClientEdits, stepVars
<1>c. /\ fleet' \in FleetState /\ raced \subseteq raced'
      /\ \A i \in Ids : <<"policy", i>> \in raced' \/ fleet'.policies[i] = fleet.policies[i]
      /\ \A p \in Parents : <<"parent", p>> \in raced' \/ Snapshot(p)' = Snapshot(p)
      /\ \A k \in Packages : <<"package", k>> \in raced' \/ fleet'.packages[k] = fleet.packages[k]
  BY ClientEffects
<1>k. PlanKept /\ (Planning' <=> Planning) /\ (Applying' <=> Applying)
      /\ (Rechecking' <=> Rechecking) /\ (Checking' <=> Checking)
  BY <1>p, PlanIsKept DEF Planning, Applying, Rechecking, Checking
<1>o. Ours' = Ours /\ Uncertain' = Uncertain
  BY <1>p, <1>k DEF Ours, Mine, Uncertain, PlanKept
<1>w. Rechecking \/ Checking => /\ row.id \in Ids /\ PackageOf(row.id) \in Packages
                                /\ PackageOf(row.id)' = PackageOf(row.id)
                                /\ ParentsOf(row.id)' = ParentsOf(row.id)
                                /\ \A p \in ParentsOf(row.id) : p \in Parents
  BY <1>k, <1>p, RowFacts DEF PlanKept
<1>1. ShapeInv'
  BY <1>c, <1>p DEF IInv, ShapeInv
<1>2. FreshInv'
  BY <1>k, <1>p DEF IInv, FreshInv
<1>3. PoliciesInv'
  BY <1>k, <1>p DEF IInv, PoliciesInv, PlanKept
<1>4. OwnersInv'
  BY <1>k, <1>p DEF IInv, OwnersInv, OwnersMatch, PlanKept
<1>5. ParentsInv'
  BY <1>k, <1>p DEF IInv, ParentsInv, ReadWell, PlanKept
<1>6. PackagesInv'
  <2>1. \A i \in Targets : PackageRead(i)' <=> PackageRead(i)
    BY <1>k, <1>p DEF PackageRead, PlanKept
  <2>2. {<<PackageOf(i), 0>> : i \in Targets} = {<<PackageOf(i)', 0>> : i \in Targets'}
    BY <1>k DEF PlanKept
  <2>3. \A i \in Targets : PackageOf(i)' = PackageOf(i)
    BY <1>k DEF PlanKept
  <2>4. Targets' = Targets
    BY <1>k DEF PlanKept
  <2>5. pc = "packages" => /\ todo' \subseteq {<<PackageOf(i)', 0>> : i \in Targets'}
                           /\ \A i \in Targets' : <<PackageOf(i)', 0>> \in todo' \/ PackageRead(i)'
    BY <1>p, <2>1, <2>2, <2>3, <2>4 DEF IInv, PackagesInv
  <2>6. pc \in {"packages", "planned"} =>
          \A k \in Packages : \/ seen'.packages[k] = Unread \/ <<"package", k>> \in raced'
                              \/ seen'.packages[k] = fleet'.packages[k]
    BY <1>c, <1>p DEF IInv, PackagesInv
  <2>7. pc = "planned" \/ Applying => \A i \in Targets' : PackageRead(i)'
    BY <1>p, <2>1, <2>4 DEF IInv, PackagesInv
  <2>8. pc \in {"existing", "names", "parents"} => seen'.packages = NothingSeen.packages
    BY <1>p DEF IInv, PackagesInv
  <2> QED
    BY <1>k, <1>p, <2>5, <2>6, <2>7, <2>8 DEF PackagesInv
<1>7. ShownInv'
  <2>1. ShownInv
    BY DEF IInv
  <2> QED
    BY <1>k, <1>o, <1>p, <2>1 DEF ShownInv, PlanKept
<1>8. RowInv'
  <2>1. MustObserve(row.id)' <=> MustObserve(row.id)
    <3>1. PackageOf(row.id)' = PackageOf(row.id) /\ (Creates(row.id)' <=> Creates(row.id))
      BY <1>k, <1>p DEF PlanKept
    <3> QED
      BY <1>p, <3>1 DEF MustObserve
  <2> QED
    BY <1>k, <1>p, <2>1 DEF IInv, RowInv, PlanKept
<1>9. RecheckInv'
  BY <1>c, <1>p, <1>w DEF IInv, RecheckInv, Rechecking
<1>10. VerifyInv'
  BY <1>c, <1>p, <1>w DEF IInv, VerifyInv, Checking
<1>11. InstallsInv'
  BY <1>c, <1>k, <1>p, <1>w DEF IInv, InstallsInv, Checking
<1>12. CleanInv'
  BY <1>p DEF CleanInv
<1>13. PlanIsValid'
  <2>1. \A i : PackageOf(i)' = PackageOf(i)
    BY <1>k DEF PlanKept
  <2>2. \A i : OwnersMatch(i)' <=> OwnersMatch(i)
    BY <1>p DEF OwnersMatch, Exists
  <2>3. PlanIsValid
    BY DEF IInv
  <2> QED
    BY <1>k, <1>p, <2>1, <2>2, <2>3 DEF PlanIsValid, PlanKept
<1>14. OwnWritesAreExpected'
  BY <1>p DEF OwnWritesAreExpected
<1> QED
  BY <1>1, <1>2, <1>3, <1>4, <1>5, <1>6, <1>7, <1>8, <1>9, <1>10, <1>11, <1>12, <1>13, <1>14
     DEF IInv

-----------------------------------------------------------------------------
(* The invariant.                                                          *)
LEMMA IInvInit == Init => IInv
<1> SUFFICES ASSUME Init PROVE IInv
  OBVIOUS
<1>1. /\ pc = "idle" /\ cmd = NoCommand /\ seen = NothingSeen /\ todo = {} /\ rows = {}
      /\ row = NoRow
      /\ blocked = {} /\ report = EmptyReport /\ outcome = "none" /\ shown = NothingSeen
      /\ lost = {}
      /\ edits = 0 /\ fleet \in FleetState
  BY FleetsAreFleets DEF Init
<1>2. ~Planning /\ ~Applying /\ ~Rechecking /\ ~Checking /\ ~Import
  BY <1>1 DEF Planning, Applying, Rechecking, Checking, Import, NoCommand
<1>3. ShapeInv
  <2>1. NoCommand.op = "none"
    BY DEF NoCommand
  <2> QED
    BY <1>1, <2>1, FirstValues DEF ShapeInv, Labels
<1>4. FreshInv /\ PoliciesInv /\ OwnersInv /\ ParentsInv /\ PackagesInv
  BY <1>1, <1>2 DEF FreshInv, PoliciesInv, OwnersInv, ParentsInv, PackagesInv
<1>5. ShownInv /\ RowInv /\ RecheckInv /\ VerifyInv /\ InstallsInv
  BY <1>1, <1>2 DEF ShownInv, RowInv, RecheckInv, VerifyInv, InstallsInv
<1>6. CleanInv /\ PlanIsValid /\ OwnWritesAreExpected
  BY <1>1 DEF CleanInv, PlanIsValid, OwnWritesAreExpected
<1> QED
  BY <1>3, <1>4, <1>5, <1>6 DEF IInv

(* The steps before the first row keep the invariant.                      *)
LEMMA PlanningStep ==
  ASSUME IInv,
         \/ ReadExisting \/ ExistingRead \/ ReadNames \/ ReadParent \/ ParentsRead \/ ReadPackage
         \/ Planned \/ PlanningFails \/ Confirm
  PROVE  IInv'
<1>1. CASE ReadExisting
  BY <1>1, ReadExistingStep
<1>2. CASE ExistingRead
  <2>1. CASE Planable
    BY <1>2, <2>1, ExistingReadStep
  <2>2. CASE ~Planable
    BY <1>2, <2>2, RefuseStep DEF ExistingRead
  <2> QED
    BY <2>1, <2>2
<1>3. CASE ReadNames
  <2>1. CASE \A i \in Wanted : Owners(cmd.file[i].name) \subseteq {i}
    BY <1>3, <2>1, ReadNamesStep
  <2>2. CASE ~(\A i \in Wanted : Owners(cmd.file[i].name) \subseteq {i})
    <3>1. Refuse /\ UNCHANGED <<fleet, edits>>
      BY <1>3, <2>2 DEF ReadNames
    <3> QED
      BY <3>1, RefuseStep
  <2> QED
    BY <2>1, <2>2
<1>4. CASE ReadParent
  <2> DEFINE ok == /\ First(todo)[2] \in CurrentParents(First(todo)[1]) => First(todo)[1] \in Attached(First(todo)[2])
                   /\ SharedAgrees(First(todo)[2]) /\ fleet.parents[First(todo)[2]].portable
  <2>1. CASE ok
    BY <1>4, <2>1, ReadParentStep
  <2>2. CASE ~ok
    <3>1. Refuse /\ UNCHANGED <<fleet, edits>>
      BY <1>4, <2>2 DEF ReadParent
    <3> QED
      BY <3>1, RefuseStep
  <2> QED
    BY <2>1, <2>2
<1>5. CASE ParentsRead
  <2>1. CASE ~(Import /\ ~(\A i \in Targets : OwnersMatch(i)))
    BY <1>5, <2>1, ParentsReadStep
  <2>2. CASE Import /\ ~(\A i \in Targets : OwnersMatch(i))
    BY <1>5, <2>2, RefuseStep DEF ParentsRead
  <2> QED
    BY <2>1, <2>2
<1>6. CASE ReadPackage
  <2> DEFINE bad == \/ fleet.packages[First(todo)[1]] = "other"
                    \/ /\ fleet.packages[First(todo)[1]] = None
                       /\ \E i \in Targets : Exists(i) /\ PackageOf(i) = First(todo)[1]
  <2>1. CASE ~bad
    BY <1>6, <2>1, ReadPackageStep
  <2>2. CASE bad
    <3>1. Refuse /\ UNCHANGED <<fleet, edits>>
      BY <1>6, <2>2 DEF ReadPackage
    <3> QED
      BY <3>1, RefuseStep
  <2> QED
    BY <2>1, <2>2
<1>7. CASE Planned
  BY <1>7, PlannedStep
<1>8. CASE PlanningFails
  BY <1>8, PlanningFailsStep
<1>9. CASE Confirm
  <2>1. CASE Return("dry") /\ UNCHANGED report
    BY <1>9, <2>1, DryRunStep DEF Confirm
  <2>2. CASE /\ pc' = "row" /\ rows' = Targets
             /\ UNCHANGED <<cmd, seen, todo, row, blocked, report, outcome, shown, raced, lost>>
    BY <1>9, <2>2, ConfirmStep
  <2> QED
    BY <1>9, <2>1, <2>2 DEF Confirm
<1> QED
  BY <1>1, <1>2, <1>3, <1>4, <1>5, <1>6, <1>7, <1>8, <1>9

(* So do the steps of the rows.                                            *)
LEMMA RowStep ==
  ASSUME IInv,
         \/ BeginRow \/ RowsDone \/ RecheckObject \/ RecheckOwner \/ RecheckParent \/ RecheckPackage
         \/ RecheckFails \/ WriteAnswered \/ WriteFails \/ DeleteUnconfirmed
         \/ Observe \/ ObserveFails \/ VerifyStored \/ VerifyPackage \/ VerifyFails
  PROVE  IInv'
<1>1. BeginRow => IInv'
  BY BeginBlockedStep, BeginRowStep
<1>2. RowsDone => IInv'
  BY RowsDoneStep
<1>3. RecheckObject => IInv'
  BY ObjectChangedStep, RecheckObjectStep
<1>4. RecheckOwner => IInv'
  BY OwnerChangedStep, RecheckOwnerStep
<1>5. RecheckParent => IInv'
  BY ParentChangedStep, RecheckParentStep
<1>6. RecheckPackage => IInv'
  BY PackageChangedStep, UnchangedStep, RecheckPackageStep
<1>7. RecheckFails => IInv'
  BY RecheckFailsStep
<1>8. WriteAnswered => IInv'
  BY AppliedStep, DeletedStep
<1>9. WriteFails => IInv'
  BY CreateFailsStep, WriteFailsStep
<1>10. DeleteUnconfirmed => IInv'
  BY DeleteUnconfirmedStep
<1>11. Observe => IInv'
  BY ObserveAppliedStep, ObserveFailedStep
<1>12. ObserveFails => IInv'
  BY ObserveFailsAppliedStep, ObserveFailsStep
<1>13. VerifyStored => IInv'
  BY VerifyStoredStep
<1>14. VerifyPackage => IInv'
  BY VerifyPackageStep
<1>15. VerifyFails => IInv'
  BY VerifyFailsStep
<1> QED
  BY <1>1, <1>2, <1>3, <1>4, <1>5, <1>6, <1>7, <1>8, <1>9, <1>10, <1>11, <1>12, <1>13, <1>14,
     <1>15

(* So does a step that changes nothing.                                    *)
LEMMA StutterStep == ASSUME IInv, UNCHANGED vars PROVE IInv'
<1>1. /\ UNCHANGED <<fleet, pc, cmd, todo, rows, row, seen, blocked, report, outcome, shown, raced>>
      /\ UNCHANGED <<clean, lost, edits, faults>>
  BY DEF vars, stepVars
<1>2. PlanKept /\ FleetKept
  BY <1>1, PlanIsKept, FleetIsKept
<1>3. /\ (Planning' <=> Planning) /\ (Applying' <=> Applying)
      /\ (Rechecking' <=> Rechecking) /\ (Checking' <=> Checking)
  BY <1>1 DEF Planning, Applying, Rechecking, Checking
<1>4. ShapeInv' /\ FreshInv' /\ PoliciesInv'
  BY <1>1, <1>2, <1>3 DEF IInv, ShapeInv, FreshInv, PoliciesInv, PlanKept
<1>5. \A i : /\ (OwnersMatch(i)' <=> OwnersMatch(i)) /\ (PackageRead(i)' <=> PackageRead(i))
             /\ \A p : ReadWell(i, p)' <=> ReadWell(i, p)
  <2>1. \A i : PackageOf(i)' = PackageOf(i) /\ (Exists(i)' <=> Exists(i)) /\ CurrentParents(i)' = CurrentParents(i)
    BY <1>2 DEF PlanKept
  <2> QED
    BY <1>1, <2>1 DEF OwnersMatch, PackageRead, ReadWell
<1>6. OwnersInv' /\ ParentsInv'
  BY <1>1, <1>2, <1>3, <1>5 DEF IInv, OwnersInv, ParentsInv, PlanKept
<1>7. PackagesInv'
  <2>1. {<<PackageOf(i), 0>> : i \in Targets} = {<<PackageOf(i)', 0>> : i \in Targets'}
    BY <1>2 DEF PlanKept
  <2>2. \A i : PackageOf(i)' = PackageOf(i)
    BY <1>2 DEF PlanKept
  <2> QED
    BY <1>1, <1>2, <1>3, <1>5, <2>1, <2>2 DEF IInv, PackagesInv, PlanKept
<1>8. Ours' = Ours /\ Uncertain' = Uncertain
  BY <1>1, <1>2 DEF Ours, Mine, Uncertain, PlanKept
<1>9. ShownInv'
  BY <1>1, <1>2, <1>3, <1>8 DEF IInv, ShownInv, PlanKept
<1>10. RowInv'
  <2>1. MustObserve(row.id)' <=> MustObserve(row.id)
    BY <1>1, <1>2 DEF MustObserve, PlanKept
  <2> QED
    BY <1>1, <1>2, <1>3, <2>1 DEF IInv, RowInv, PlanKept
<1>11. /\ PackageOf(row.id)' = PackageOf(row.id) /\ ParentsOf(row.id)' = ParentsOf(row.id)
       /\ \A p : Snapshot(p)' = Snapshot(p)
  BY <1>1, <1>2 DEF PlanKept, FleetKept
<1>12. RecheckInv' /\ VerifyInv' /\ InstallsInv'
  BY <1>1, <1>3, <1>11 DEF IInv, RecheckInv, VerifyInv, InstallsInv
<1>13. CleanInv'
  <2>1. \A i : Owners(cmd.file[i].name)' = Owners(cmd.file[i].name)
    BY <1>1 DEF Owners, Existing
  <2>2. CleanInv
    BY DEF IInv
  <2> QED
    BY <1>1, <1>2, <1>3, <1>11, <2>1, <2>2 DEF CleanInv, PlanKept
<1>14. PlanIsValid' /\ OwnWritesAreExpected'
  <2>1. \A i : PackageOf(i)' = PackageOf(i)
    BY <1>2 DEF PlanKept
  <2>2. PlanIsValid
    BY DEF IInv
  <2>3. PlanIsValid'
    BY <1>1, <1>2, <1>5, <2>1, <2>2 DEF PlanIsValid, PlanKept
  <2> QED
    BY <1>1, <2>3 DEF IInv, OwnWritesAreExpected
<1> QED
  BY <1>4, <1>6, <1>7, <1>9, <1>10, <1>12, <1>13, <1>14 DEF IInv

(* Every step keeps the invariant.                                         *)
LEMMA IInvStep == IInv /\ [Next]_vars => IInv'
<1> SUFFICES ASSUME IInv, [Next]_vars PROVE IInv'
  OBVIOUS
<1>1. CASE \E op \in {"import", "delete"}, file \in Files, o, s \in BOOLEAN : Start(op, file, o, s)
  BY <1>1, StartStep
<1>2. CASE Step
  BY <1>2, PlanningStep, RowStep DEF Step
<1>3. CASE ClientEdits
  BY <1>3, ClientStep
<1>4. CASE UNCHANGED vars
  BY <1>4, StutterStep
<1> QED
  BY <1>1, <1>2, <1>3, <1>4 DEF Next

(* The invariant holds for all policies, parents, packages and bounds.     *)
THEOREM IntegrationInvariantHolds == Spec => []IInv
<1>1. Init => IInv
  BY IInvInit
<1>2. IInv /\ [Next]_vars => IInv'
  BY IInvStep
<1> QED
  BY <1>1, <1>2, PTL DEF Spec

(* Every variable has its type.                                            *)
THEOREM IntegrationTypeCorrect == Spec => []TypeOK
<1>1. IInv => TypeOK
  <2> SUFFICES ASSUME IInv PROVE TypeOK
    OBVIOUS
  <2>1. ShapeInv
    BY DEF IInv
  <2> QED
    BY <2>1 DEF ShapeInv, Seens, Rows, Reports, TypeOK
<1> QED
  BY <1>1, IntegrationInvariantHolds, PTL

(* A plan is never one that validate_import_plan or validate_delete_plan   *)
(* would refuse.                                                           *)
THEOREM PlansAreValid == Spec => []PlanIsValid
<1>1. IInv => PlanIsValid
  BY DEF IInv
<1> QED
  BY <1>1, IntegrationInvariantHolds, PTL

(* What a command's own rows did is not taken for somebody else's change:  *)
(* undisturbed, no row fails.                                              *)
THEOREM UndisturbedRowsSucceed == Spec => []OwnWritesAreExpected
<1>1. IInv => OwnWritesAreExpected
  BY DEF IInv
<1> QED
  BY <1>1, IntegrationInvariantHolds, PTL

-----------------------------------------------------------------------------
(* What each step does to the stack and to the report.                     *)

(* The bodies of the two action properties.                                *)
WriteIsShown ==
  \A i \in Ids : Writes(i) =>
       /\ <<"policy", i>> \in raced \/ fleet.policies[i] = seen.policies[i]
       /\ \A p \in ParentsOf(i) : <<"parent", p>> \notin raced =>
            /\ fleet.parents[p].agents = shown.parents[p].agents
            /\ \A j \in Ids :
                 IF j \in Mine /\ p \in ParentsOf(j)
                 THEN j \in Uncertain \/ (j \in Attached(p) <=> p \in DesiredParents(j))
                 ELSE j \in Attached(p) <=> j \in shown.parents[p].attached

RowsAreReal ==
  /\ \A i \in (report'.succeeded \cup report'.unchanged) \ (report.succeeded \cup report.unchanged) :
       \/ <<"policy", i>> \in raced'
       \/ fleet'.policies[i] = IF Import THEN cmd.file[i] ELSE None
  /\ \A i \in report'.succeeded \ report.succeeded :
       ~Import \/ <<"package", PackageOf(i)>> \in raced' \/ fleet'.packages[PackageOf(i)] = "exact"
AppliedIsReported ==
  row.applied /\ row'.id # row.id => row.id \in report'.succeeded \cup report'.applied
WritesAreReported ==
  /\ \A i \in Ids : Writes(i) =>
       i \in lost' \cup report'.succeeded \cup report'.applied \/ row'.applied
  /\ \A i \in Ids : Writes(i) /\ i \notin Uncertain' /\ <<"policy", i>> \notin raced =>
       \A p \in Parents :
         /\ i \in Attached(p) \/ (i \in Attached(p))'
         /\ <<"parent", p>> \notin raced
         => <<p, fleet.parents[p].agents>> \in report'.affected
InstallsAreAnnounced ==
  \A k \in Packages : OwnStep /\ fleet'.packages[k] # fleet.packages[k] =>
    shown.packages[k] = None \/ <<"package", k>> \in raced
InstallsAreReported ==
  pc' = "row" => \A k \in Packages :
    shown'.packages[k] = None /\ fleet'.packages[k] = "exact" =>
      k \in report'.installs \cup blocked' \/ <<"package", k>> \in raced'
ReportStep ==
  /\ RowsAreReal /\ AppliedIsReported /\ WritesAreReported /\ InstallsAreAnnounced
  /\ InstallsAreReported

(* A step that neither writes nor reports a success.                       *)
Quiet ==
  /\ fleet' = fleet
  /\ report'.succeeded \subseteq report.succeeded
  /\ report'.unchanged \subseteq report.unchanged

(* A step that neither writes nor ends a row satisfies the four parts of   *)
(* ReportIsTrue about steps.                                               *)
LEMMA QuietFacts ==
  ASSUME Quiet
  PROVE  WriteIsShown /\ RowsAreReal /\ WritesAreReported /\ InstallsAreAnnounced
BY DEF Quiet, WriteIsShown, RowsAreReal, WritesAreReported, InstallsAreAnnounced, Writes,
   OwnStep

(* A step that leaves Fleet alone satisfies the parts about writes.        *)
LEMMA FleetKeptFacts ==
  ASSUME fleet' = fleet
  PROVE  WriteIsShown /\ WritesAreReported /\ InstallsAreAnnounced
BY DEF WriteIsShown, WritesAreReported, InstallsAreAnnounced, Writes, OwnStep

(* A row writes what was shown, and installs what was announced.           *)
LEMMA WriteFacts ==
  ASSUME IInv, pc = "write", WroteOnly(row.id)
  PROVE  /\ WriteIsShown /\ InstallsAreAnnounced
         /\ \A i \in Ids : Writes(i) => i = row.id
         /\ \A p \in Parents : row.id \in Attached(p) /\ <<"policy", row.id>> \notin raced =>
              p \in CurrentParents(row.id)
         /\ \A p \in ParentsOf(row.id) : <<"parent", p>> \notin raced =>
              fleet.parents[p].agents = seen.parents[p].agents
<1>1. /\ row.id \in Ids /\ row.id \in Targets /\ Applying /\ ~row.applied
      /\ \A p \in ParentsOf(row.id) : p \in Parents /\ shown.parents[p] # Unread
  <2>1. Rechecking
    BY DEF Rechecking
  <2> QED
    BY <2>1, RowFacts DEF IInv, RowInv
<1>2. <<"policy", row.id>> \in raced \/ fleet.policies[row.id] = seen.policies[row.id]
  BY DEF IInv, RecheckInv
<1>3. \A i \in Ids : Writes(i) => i = row.id
  BY DEF Writes, WroteOnly
<1>4. ASSUME NEW p \in ParentsOf(row.id), <<"parent", p>> \notin raced
      PROVE  /\ fleet.parents[p].agents = seen.parents[p].agents
             /\ Attached(p) = seen.parents[p].attached
  <2>1. Snapshot(p) = seen.parents[p]
    BY <1>4 DEF IInv, RecheckInv
  <2> QED
    BY <2>1 DEF Snapshot
<1>5. ASSUME NEW p \in ParentsOf(row.id), <<"parent", p>> \notin raced
      PROVE  /\ fleet.parents[p].agents = shown.parents[p].agents
             /\ \A j \in Ids :
                  IF j \in Mine /\ p \in ParentsOf(j)
                  THEN j \in Uncertain \/ (j \in Attached(p) <=> p \in DesiredParents(j))
                  ELSE j \in Attached(p) <=> j \in shown.parents[p].attached
  <2>1. /\ seen.parents[p].agents = shown.parents[p].agents
        /\ \A j \in Ids :
             IF j \in Ours /\ p \in ParentsOf(j)
             THEN j \in Uncertain \/ (j \in seen.parents[p].attached <=> p \in DesiredParents(j))
             ELSE j \in seen.parents[p].attached <=> j \in shown.parents[p].attached
    BY <1>1 DEF IInv, ShownInv
  <2>2. Ours = Mine
    BY <1>1 DEF Ours
  <2> QED
    BY <1>4, <1>5, <2>1, <2>2
<1>6. WriteIsShown
  BY <1>2, <1>3, <1>5 DEF WriteIsShown
<1>7. InstallsAreAnnounced
  <2> SUFFICES ASSUME NEW k \in Packages, fleet'.packages[k] # fleet.packages[k]
               PROVE  shown.packages[k] = None \/ <<"package", k>> \in raced
    BY DEF InstallsAreAnnounced
  <2>1. k = PackageOf(row.id) /\ fleet.packages[k] = None
    BY DEF WroteOnly
  <2>2. <<"package", k>> \in raced \/ seen.packages[k] = None
    BY <2>1 DEF IInv, RecheckInv
  <2>3. seen.packages[k] = shown.packages[k] \/ shown.packages[k] = None
    BY <1>1 DEF IInv, ShownInv
  <2> QED
    BY <2>2, <2>3
<1>8. ASSUME NEW p \in Parents, row.id \in Attached(p), <<"policy", row.id>> \notin raced
      PROVE  p \in CurrentParents(row.id)
  BY <1>2, <1>8 DEF Attached, Existing, CurrentParents, Exists
<1> QED
  BY <1>3, <1>4, <1>6, <1>7, <1>8

(* An answered write is of what was shown, and is reported as an outcome   *)
(* that is true.                                                           *)
LEMMA WriteAnsweredReports ==
  ASSUME IInv, WriteAnswered
  PROVE  WriteIsShown /\ RowsAreReal /\ AppliedIsReported /\ WritesAreReported /\ InstallsAreAnnounced
<1>1. /\ pc = "write" /\ row.id \in Ids /\ row.id \in Targets /\ ~row.applied
      /\ pc \notin {"idle", "existing"}
      /\ Import => cmd.file[row.id] \in Policy
  <2>1. pc = "write" /\ Rechecking
    BY DEF WriteAnswered, Rechecking
  <2> QED
    BY <2>1, RowFacts, TargetFacts DEF IInv, RowInv
<1>2. /\ WroteOnly(row.id)
      /\ Import => row'.applied
      /\ \A p \in Parents : row.id \in Attached(p)' => p \in DesiredParents(row.id)
      /\ ~Import => fleet'.policies[row.id] = None
  <2>1. ASSUME Import
        PROVE  \E policy \in Policy : policy.parents = cmd.file[row.id].parents /\ fleet' = Stored(policy, row.id)
    <3>1. CASE fleet' = Written(row.id)
      BY <1>1, <2>1, <3>1 DEF Written
    <3>2. CASE \E body \in Bodies \ {cmd.file[row.id].body} :
                 fleet' = Stored([cmd.file[row.id] EXCEPT !.body = body], row.id)
      <4>1. PICK body \in Bodies : fleet' = Stored([cmd.file[row.id] EXCEPT !.body = body], row.id)
        BY <3>2
      <4> DEFINE policy == [cmd.file[row.id] EXCEPT !.body = body]
      <4>2. policy \in Policy /\ policy.parents = cmd.file[row.id].parents
        BY <1>1, <2>1 DEF Policy
      <4>3. fleet' = Stored(policy, row.id)
        BY <4>1
      <4> HIDE DEF policy
      <4> QED
        BY <4>2, <4>3
    <3> QED
      BY <3>1, <3>2 DEF WriteAnswered
  <2>2. CASE Import
    <3>1. PICK policy \in Policy : policy.parents = cmd.file[row.id].parents /\ fleet' = Stored(policy, row.id)
      BY <2>1, <2>2
    <3>2. policy \in Policy \cup {None}
      OBVIOUS
    <3>3. WroteOnly(row.id) /\ fleet'.policies[row.id] = policy
      BY <1>1, <3>1, <3>2, StoredFacts DEF IInv
    <3>4. row'.applied
      <4>1. row' = [row EXCEPT !.applied = TRUE] /\ row \in Rows
        BY <2>2 DEF WriteAnswered, IInv, ShapeInv
      <4> QED
        BY <4>1, Zenon DEF Rows
    <3> QED
      BY <2>2, <3>1, <3>3, <3>4 DEF Attached, Existing, DesiredParents
  <2>3. CASE ~Import
    <3>1. fleet' = Stored(None, row.id) /\ None \in Policy \cup {None}
      BY <2>3 DEF WriteAnswered, Written
    <3>2. WroteOnly(row.id) /\ fleet'.policies[row.id] = None
      BY <1>1, <3>1, StoredFacts DEF IInv
    <3> QED
      BY <2>3, <3>2 DEF Attached, Existing
  <2> QED
    BY <2>2, <2>3
<1>3. /\ report'.affected = Affected(row.id)
      /\ report'.unchanged = report.unchanged
      /\ Import => report'.succeeded = report.succeeded
      /\ ~Import => report'.succeeded = report.succeeded \cup {row.id}
  <2>1. report \in Reports
    BY DEF IInv, ShapeInv
  <2>2. CASE Import
    BY <2>1, <2>2 DEF WriteAnswered, Reports
  <2>3. CASE ~Import
    BY <2>1, <2>3 DEF WriteAnswered, Reports, NextRow
  <2> QED
    BY <2>2, <2>3
<1>4. RowsAreReal
  BY <1>1, <1>2, <1>3 DEF RowsAreReal
<1>5. AppliedIsReported
  BY <1>1 DEF AppliedIsReported
<1>6. ASSUME NEW p \in Parents, row.id \in Attached(p) \/ row.id \in Attached(p)',
             <<"parent", p>> \notin raced, <<"policy", row.id>> \notin raced
      PROVE  <<p, fleet.parents[p].agents>> \in report'.affected
  <2>1. p \in CurrentParents(row.id) \/ p \in DesiredParents(row.id)
    BY <1>1, <1>2, <1>6, WriteFacts
  <2>2. p \in ParentsOf(row.id)
    BY <2>1 DEF ParentsOf
  <2>3. fleet.parents[p].agents = seen.parents[p].agents
    BY <1>1, <1>2, <1>6, <2>2, WriteFacts
  <2> QED
    BY <1>3, <2>2, <2>3 DEF Affected
<1>7. \A i \in Ids : Writes(i) => i = row.id
  BY <1>1, <1>2, WriteFacts
<1>8. WritesAreReported
  BY <1>2, <1>3, <1>6, <1>7 DEF WritesAreReported
<1> QED
  BY <1>1, <1>2, <1>4, <1>5, <1>8, WriteFacts

(* A failed write leaves its row among those reported as uncertain.        *)
LEMMA WriteFailsReports ==
  ASSUME IInv, WriteFails
  PROVE  WriteIsShown /\ RowsAreReal /\ AppliedIsReported /\ WritesAreReported /\ InstallsAreAnnounced
<1>1. /\ pc = "write" /\ row.id \in Ids /\ ~row.applied
  <2>1. pc = "write" /\ Rechecking
    BY DEF WriteFails, Rechecking
  <2> QED
    BY <2>1, RowFacts DEF IInv, RowInv
<1>2. WroteOnly(row.id)
  BY <1>1, FailedWriteFacts DEF WriteFails
<1>3. \A i \in Ids : Writes(i) => i = row.id
  BY <1>1, <1>2, WriteFacts
<1>4. fleet'.policies[row.id] # fleet.policies[row.id] => row.id \in lost'
  <2>1. CASE fleet' = OnlyInstalled(row.id)
    <3>1. fleet.policies[row.id] \in Policy \cup {None}
      BY <1>1 DEF IInv, ShapeInv, FleetState
    <3> QED
      BY <1>1, <2>1, <3>1, StoredFacts DEF OnlyInstalled, IInv
  <2> QED
    BY <2>1 DEF WriteFails
<1>5. WritesAreReported
  BY <1>3, <1>4 DEF WritesAreReported, Writes, Uncertain
<1>6. report'.succeeded = report.succeeded /\ report'.unchanged = report.unchanged
  BY <1>1 DEF WriteFails, RowFails, NextRow, IInv, ShapeInv, Reports
<1>7. RowsAreReal /\ AppliedIsReported
  BY <1>1, <1>6 DEF RowsAreReal, AppliedIsReported
<1> QED
  BY <1>1, <1>2, <1>5, <1>7, WriteFacts

(* So does a delete that was not confirmed.                                *)
LEMMA DeleteUnconfirmedReports ==
  ASSUME IInv, DeleteUnconfirmed
  PROVE  WriteIsShown /\ RowsAreReal /\ AppliedIsReported /\ WritesAreReported /\ InstallsAreAnnounced
<1>1. /\ pc = "write" /\ row.id \in Ids /\ ~row.applied
  <2>1. pc = "write" /\ Rechecking
    BY DEF DeleteUnconfirmed, Rechecking
  <2> QED
    BY <2>1, RowFacts DEF IInv, RowInv
<1>2. WroteOnly(row.id)
  BY <1>1, FailedWriteFacts DEF DeleteUnconfirmed
<1>3. \A i \in Ids : Writes(i) => i = row.id
  BY <1>1, <1>2, WriteFacts
<1>4. /\ report'.applied = report.applied \cup {row.id} /\ ~Import'
      /\ report'.succeeded = report.succeeded
      /\ report'.unchanged = report.unchanged
  BY <1>1 DEF DeleteUnconfirmed, NextRow, IInv, ShapeInv, Reports, Import
<1>5. WritesAreReported
  BY <1>3, <1>4 DEF WritesAreReported, Uncertain
<1>7. RowsAreReal /\ AppliedIsReported
  BY <1>1, <1>4 DEF RowsAreReal, AppliedIsReported
<1> QED
  BY <1>1, <1>2, <1>5, <1>7, WriteFacts

(* Only a row that has written is applied.                                 *)
LEMMA NotApplied ==
  ASSUME IInv, ~Checking
  PROVE  ~row.applied
<1>1. ~NoRow.applied
  BY Zenon DEF NoRow
<1>2. pc = "idle" \/ Planning \/ pc = "row" \/ Rechecking
  BY DEF IInv, ShapeInv, Labels, Planning, Rechecking, Checking
<1>3. CASE pc = "idle" \/ Planning
  BY <1>1, <1>3 DEF IInv, FreshInv
<1>4. CASE pc = "row"
  BY <1>1, <1>4 DEF IInv, RowInv
<1>5. CASE Rechecking
  BY <1>5 DEF IInv, RowInv
<1> QED
  BY <1>2, <1>3, <1>4, <1>5

(* What is reported at the end of a verified row is so.                    *)
LEMMA FinishReports ==
  ASSUME IInv, pc \in {"verify", "verifyPackage"}, NEW bad, Finish(bad), fleet' = fleet,
         ~bad => /\ <<"policy", row.id>> \in raced' \/ fleet.policies[row.id] = cmd.file[row.id]
                 /\ \/ <<"package", PackageOf(row.id)>> \in raced'
                    \/ fleet.packages[PackageOf(row.id)] = "exact"
  PROVE  RowsAreReal /\ AppliedIsReported
<1>1. Import
  BY DEF IInv, RowInv, Checking
<1>2. report \in Reports
  BY DEF IInv, ShapeInv
<1>3. CASE bad
  <2>1. report' = [report EXCEPT !.applied = @ \cup {row.id}]
    BY <1>3 DEF Finish, NextRow
  <2>2. /\ report'.succeeded = report.succeeded /\ report'.unchanged = report.unchanged
        /\ row.id \in report'.applied
    BY <1>2, <2>1 DEF Reports
  <2> QED
    BY <2>2 DEF RowsAreReal, AppliedIsReported
<1>4. CASE ~bad
  <2>1. report' = [report EXCEPT !.succeeded = @ \cup {row.id}]
    BY <1>4 DEF Finish, NextRow
  <2>2. /\ report'.succeeded = report.succeeded \cup {row.id}
        /\ report'.unchanged = report.unchanged
    BY <1>2, <2>1 DEF Reports
  <2> QED
    BY <1>1, <1>4, <2>2 DEF RowsAreReal, AppliedIsReported
<1> QED
  BY <1>3, <1>4

(* A row is reported as succeeded only when Fleet holds the file's policy  *)
(* and package, or somebody else wrote since.                              *)
LEMMA VerifyWithReports ==
  ASSUME IInv, pc = "verify", NEW bad, VerifyWith(bad), fleet' = fleet,
         \A k \in Packages : <<"package", k>> \in raced => <<"package", k>> \in raced',
         ~bad => fleet.policies[row.id] = cmd.file[row.id]
  PROVE  RowsAreReal /\ AppliedIsReported
<1>1. PackageOf(row.id) \in Packages
  BY RowFacts DEF Checking
<1>2. CASE row.observed = Unread
  <2>1. report' = report /\ row' = [row EXCEPT !.bad = bad]
    BY <1>2 DEF VerifyWith
  <2>2. row'.id = row.id
    BY <2>1 DEF IInv, ShapeInv, Rows
  <2> QED
    BY <2>1, <2>2 DEF RowsAreReal, AppliedIsReported
<1>3. CASE row.observed # Unread
  <2> DEFINE bad2 == bad \/ row.observed # "exact"
  <2>1. Finish(bad2)
    BY <1>3 DEF VerifyWith
  <2>2. ~bad2 => /\ fleet.policies[row.id] = cmd.file[row.id]
                 /\ \/ <<"package", PackageOf(row.id)>> \in raced'
                    \/ fleet.packages[PackageOf(row.id)] = "exact"
    BY <1>1 DEF IInv, VerifyInv
  <2> HIDE DEF bad2
  <2> QED
    BY <2>1, <2>2, FinishReports
<1> QED
  BY <1>2, <1>3

(* The reads that verify a write change nothing in Fleet and report what   *)
(* they found.                                                             *)
LEMMA CheckingReports ==
  ASSUME IInv, VerifyStored \/ VerifyPackage \/ VerifyFails \/ Observe \/ ObserveFails
  PROVE  fleet' = fleet /\ RowsAreReal /\ AppliedIsReported
<1>0. fleet' = fleet
  BY DEF VerifyStored, VerifyPackage, VerifyFails, Observe, ObserveFails
<1>1. CASE VerifyStored
  <2> DEFINE bad == row.bad \/ fleet.policies[row.id] # cmd.file[row.id]
  <2>1. /\ pc = "verify" /\ VerifyWith(bad)
        /\ \A k \in Packages : <<"package", k>> \in raced => <<"package", k>> \in raced'
    BY <1>1 DEF VerifyStored, Reread
  <2>2. ~bad => fleet.policies[row.id] = cmd.file[row.id]
    OBVIOUS
  <2> HIDE DEF bad
  <2> QED
    BY <1>0, <2>1, <2>2, VerifyWithReports
<1>2. CASE VerifyPackage
  <2> DEFINE bad == row.bad \/ ~(fleet.packages[PackageOf(row.id)] = "exact")
  <2>1. /\ pc = "verifyPackage" /\ Finish(bad)
        /\ raced' = raced \ {<<"package", PackageOf(row.id)>>}
    BY <1>2 DEF VerifyPackage, Reread
  <2>2. ~bad => /\ <<"policy", row.id>> \in raced' \/ fleet.policies[row.id] = cmd.file[row.id]
                /\ fleet.packages[PackageOf(row.id)] = "exact"
    <3>1. ~row.bad => <<"policy", row.id>> \in raced \/ fleet.policies[row.id] = cmd.file[row.id]
      BY <2>1 DEF IInv, VerifyInv
    <3> QED
      BY <2>1, <3>1
  <2> HIDE DEF bad
  <2> QED
    BY <1>0, <2>1, <2>2, FinishReports
<1>3. CASE VerifyFails
  <2>1. raced' = raced
    BY <1>3 DEF VerifyFails
  <2>2. CASE pc = "verify" /\ VerifyWith(TRUE)
    BY <1>0, <2>1, <2>2, VerifyWithReports
  <2>3. CASE pc = "verifyPackage" /\ Finish(TRUE)
    BY <1>0, <2>1, <2>3, FinishReports
  <2> QED
    BY <1>3, <2>2, <2>3 DEF VerifyFails
<1>4. CASE Observe
  <2>1. report'.succeeded = report.succeeded /\ report'.unchanged = report.unchanged
    BY <1>4 DEF Observe, NextRow, IInv, ShapeInv, Reports
  <2>2. row.applied => row'.id = row.id
    BY <1>4 DEF Observe, IInv, ShapeInv, Rows
  <2> QED
    BY <1>0, <2>1, <2>2 DEF RowsAreReal, AppliedIsReported
<1>5. CASE ObserveFails
  <2>1. report'.succeeded = report.succeeded /\ report'.unchanged = report.unchanged
    BY <1>5 DEF ObserveFails, RowFails, NextRow, IInv, ShapeInv, Reports
  <2>2. row.applied => row'.id = row.id
    BY <1>5 DEF ObserveFails, IInv, ShapeInv, Rows
  <2> QED
    BY <1>0, <2>1, <2>2 DEF RowsAreReal, AppliedIsReported
<1> QED
  BY <1>0, <1>1, <1>2, <1>3, <1>4, <1>5

(* A row that is already what the file says is reported as unchanged.      *)
LEMMA RecheckPackageReports ==
  ASSUME IInv, RecheckPackage
  PROVE  fleet' = fleet /\ RowsAreReal
<1>1. pc = "parent" /\ fleet' = fleet /\ report \in Reports
  BY DEF RecheckPackage, IInv, ShapeInv
<1>2. CASE SamePackage(PackageOf(row.id)) /\ Unchanged(row.id)
  <2>1. /\ report' = [report EXCEPT !.unchanged = @ \cup {row.id}]
        /\ raced' = raced \ {<<"package", PackageOf(row.id)>>}
    BY <1>2 DEF RecheckPackage, NextRow, Reread
  <2>2. /\ report'.succeeded = report.succeeded
        /\ report'.unchanged = report.unchanged \cup {row.id}
    BY <1>1, <2>1 DEF Reports
  <2>3. <<"policy", row.id>> \in raced \/ fleet.policies[row.id] = seen.policies[row.id]
    BY <1>1 DEF IInv, RecheckInv
  <2>4. <<"policy", row.id>> \in raced' \/ fleet'.policies[row.id] = cmd.file[row.id]
    BY <1>1, <1>2, <2>1, <2>3 DEF Unchanged
  <2> QED
    BY <1>1, <1>2, <2>2, <2>4 DEF RowsAreReal, Unchanged
<1>3. CASE ~(SamePackage(PackageOf(row.id)) /\ Unchanged(row.id))
  <2>1. report'.succeeded = report.succeeded /\ report'.unchanged = report.unchanged
    BY <1>1, <1>3 DEF RecheckPackage, RowFails, NextRow, Reports
  <2> QED
    BY <1>1, <2>1 DEF RowsAreReal
<1> QED
  BY <1>1, <1>2, <1>3

(* Before the write of a row nothing is written.                           *)
LEMMA QuietSteps ==
  ASSUME IInv,
         \/ \E op \in {"import", "delete"}, file \in Files, o, s \in BOOLEAN : Start(op, file, o, s)
         \/ ReadExisting \/ ExistingRead \/ ReadNames \/ ReadParent \/ ParentsRead \/ ReadPackage
         \/ Planned \/ PlanningFails \/ Confirm \/ BeginRow \/ RowsDone
         \/ RecheckObject \/ RecheckOwner \/ RecheckParent \/ RecheckFails
  PROVE  Quiet /\ ~Checking
<1>1. report \in Reports
  BY DEF IInv, ShapeInv
<1>2. ASSUME NEW op \in {"import", "delete"}, NEW file \in Files, NEW o \in BOOLEAN, NEW s \in BOOLEAN,
             Start(op, file, o, s)
      PROVE  Quiet /\ ~Checking
  BY <1>2 DEF Start, Quiet, Checking, EmptyReport
<1>3. CASE ReadExisting \/ Planned
  BY <1>3 DEF ReadExisting, Planned, Quiet, Checking
<1>4. CASE ExistingRead \/ ReadNames \/ ReadParent \/ ParentsRead \/ ReadPackage
  <2>1. UNCHANGED <<fleet, report>>
    BY <1>4 DEF ExistingRead, ReadNames, ReadParent, ParentsRead, ReadPackage, Refuse
  <2>2. ~Checking
    BY <1>4 DEF ExistingRead, ReadNames, ReadParent, ParentsRead, ReadPackage, Checking
  <2> QED
    BY <2>1, <2>2 DEF Quiet
<1>5. CASE PlanningFails \/ Confirm \/ RowsDone
  BY <1>5 DEF PlanningFails, Confirm, RowsDone, Quiet, Checking
<1>6. CASE BeginRow
  <2>1. report'.succeeded = report.succeeded /\ report'.unchanged = report.unchanged
    BY <1>1, <1>6 DEF BeginRow, NextRow, Reports
  <2> QED
    BY <1>6, <2>1 DEF Quiet, BeginRow, Checking
<1>7. CASE RecheckObject \/ RecheckOwner \/ RecheckParent \/ RecheckFails
  <2>1. RowFails \/ report' = report
    BY <1>7 DEF RecheckObject, RecheckOwner, RecheckParent, RecheckFails
  <2>2. report'.succeeded = report.succeeded /\ report'.unchanged = report.unchanged
    BY <1>1, <2>1 DEF RowFails, NextRow, Reports
  <2>3. fleet' = fleet /\ ~Checking
    BY <1>7 DEF RecheckObject, RecheckOwner, RecheckParent, RecheckFails, Checking
  <2> QED
    BY <2>2, <2>3 DEF Quiet
<1> QED
  BY <1>2, <1>3, <1>4, <1>5, <1>6, <1>7

(* Every step satisfies the five parts.                                    *)
LEMMA StepIsTrue ==
  ASSUME IInv, Next
  PROVE  WriteIsShown /\ RowsAreReal /\ AppliedIsReported /\ WritesAreReported /\ InstallsAreAnnounced
<1>1. CASE Quiet /\ ~Checking
  BY <1>1, QuietFacts, NotApplied DEF AppliedIsReported
<1>2. CASE WriteAnswered
  BY <1>2, WriteAnsweredReports
<1>3. CASE WriteFails
  BY <1>3, WriteFailsReports
<1>4. CASE DeleteUnconfirmed
  BY <1>4, DeleteUnconfirmedReports
<1>5. CASE VerifyStored \/ VerifyPackage \/ VerifyFails \/ Observe \/ ObserveFails
  BY <1>5, CheckingReports, FleetKeptFacts
<1>6. CASE RecheckPackage
  <2>1. ~Checking
    BY <1>6 DEF RecheckPackage, Checking
  <2> QED
    BY <1>6, <2>1, RecheckPackageReports, FleetKeptFacts, NotApplied DEF AppliedIsReported
<1>7. CASE ClientEdits
  <2>1. edits' # edits /\ report' = report /\ row' = row
    BY <1>7 DEF ClientEdits, stepVars, IInv, ShapeInv
  <2> QED
    BY <2>1 DEF WriteIsShown, RowsAreReal, AppliedIsReported, WritesAreReported,
       InstallsAreAnnounced,
                Writes, OwnStep
<1> QED
  BY <1>1, <1>2, <1>3, <1>4, <1>5, <1>6, <1>7, QuietSteps DEF Next, Step

(* A package that a command brought in is reported, blocked or known to    *)
(* have been touched by others: this is of states.                         *)
LEMMA InstallsAreReportedAlways == ASSUME IInv' PROVE InstallsAreReported
BY DEF IInv, InstallsInv, InstallsAreReported, Applying

(* A row writes over what the preview showed and what the rows before it   *)
(* made of that, save what others did after it looked.                     *)
THEOREM OnlyTheShownIsWritten == Spec => WritesWhatWasShown
<1>1. IInv /\ [Next]_vars => [WriteIsShown]_vars
  BY StepIsTrue
<1> QED
  BY <1>1, IntegrationInvariantHolds, PTL DEF Spec, WritesWhatWasShown, WriteIsShown

(* The report of a command tells what it did, and what its rows were       *)
(* counted with.                                                           *)
THEOREM IntegrationReportIsTrue == Spec => ReportIsTrue
<1>1. IInv /\ IInv' /\ [Next]_vars => [ReportStep]_vars
  BY StepIsTrue, InstallsAreReportedAlways DEF ReportStep
<1>2. Spec => [][ReportStep]_vars
  BY <1>1, IntegrationInvariantHolds, PTL DEF Spec
<1> QED
  BY <1>2, PTL DEF ReportIsTrue, ReportStep, RowsAreReal, AppliedIsReported, WritesAreReported,
                   InstallsAreAnnounced, InstallsAreReported
==============================================================================
