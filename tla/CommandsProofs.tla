--------------------------- MODULE CommandsProofs ---------------------------
(***************************************************************************)
(* The invariant of Commands holds for every set of ids and every bound, and *)
(* with it the safety properties of every guarded command, that each is a   *)
(* ConfirmedRun, that an exit status of 0 means that a command has reached  *)
(* its goal (SuccessInv holds beside IInv), and that a list read in several *)
(* requests is whole (WholeInv holds beside it).                            *)
(***************************************************************************)
EXTENDS GuardedCommandProofs

-----------------------------------------------------------------------------
(* Cases and alerts.                                                         *)

\* What every step of a case or alert command does.
TriageStep ==
    /\ LoopStep /\ stack' \in Triage!StackType /\ Bounds' /\ PlanOK'
    /\ WritesWhatWasShown' /\ TriageInv'

\* The step BeginCases of a case or alert command.
LEMMA TriageBeginCases ==
    ASSUME IInv, cmd.family = "triage", Triage!BeginCases
    PROVE  TriageStep
<1>1. /\ TriageInv /\ PostsBounded /\ stack \in Triage!StackType
      /\ faults \in Nat /\ MaxFaults \in Nat /\ \A o \in Ids : stack.posts[o] \in Nat
  <2>1. stack \in Triage!StackType /\ faults \in Nat /\ MaxFaults \in Nat
    BY CommandAssumption DEF IInv, TypeOK, StackType, CommandAssumption
  <2>2. TriageInv /\ PostsBounded
    BY DEF IInv, TriageInv
  <2> QED BY <2>1, <2>2 DEF Triage!StackType
<1>2. pc = "start" /\ cmd.op \in {"case_status", "case_delete"}
        /\ UNCHANGED <<cmd, plan, stack, moved, writes, rows, faults, edits>>
  BY DEF Triage!BeginCases
<1>3. /\ Planning
      /\ rows = {} /\ writes = {} /\ todo \in Seq(Ids)
  <2>1. Planning
    BY <1>2 DEF Planning
  <2>2. rows = {} /\ writes = {} /\ todo \in Seq(Ids)
    BY <2>1 DEF IInv, LoopInv, TodoOK, QuietPlanning
  <2> QED BY <2>1, <2>2
<1>4. Bounds' /\ faults' \in Nat /\ faults' <= faults
  <2>1. faults' = faults
    BY <1>2
  <2>2. moved' \subseteq moved
    BY <1>2
  <2> QED BY <1>2, <2>1, <2>2, BoundsKept, CommandAssumption DEF IInv, TypeOK, Bounds,
         CommandAssumption
<1>5. stack' \in Triage!StackType /\ WritesWhatWasShown' /\ PlanOK'
  BY <1>2 DEF IInv, TypeOK, StackType, WritesWhatWasShown, PlanOK
<1>6. \/ pc' = "resolve" /\ todo' = Sorted(cmd.targets)
  BY SameOrder DEF Triage!BeginCases, Report, Row, Guard
<1>7. CASE pc' = "resolve" /\ todo' = Sorted(cmd.targets)
  <2>1. todo' \in Seq(Ids) /\ Range(todo') = cmd.targets
    BY <1>2, <1>7, SortedFacts, CommandAssumption DEF IInv, CmdOK
  <2>2. PlansOn
    BY <1>2, <1>3, <2>1, <1>7 DEF PlansOn, Planning, Ended, Wholesale
  <2>3. TriageInv'
    <3>1. PostsBounded'
      BY <1>1, <1>2, <1>3, <1>4, PostsKept
    <3> QED BY <1>1, <1>2, <2>1, <3>1, <1>7 DEF TriageInv
  <2> QED BY <1>2, <1>4, <1>5, <2>1, <2>2, <2>3 DEF TriageStep, LoopStep
<1> QED BY <1>6, <1>7

\* The step ResolveCase of a case or alert command.
LEMMA TriageResolveCase ==
    ASSUME IInv, cmd.family = "triage", Triage!ResolveCase
    PROVE  TriageStep
<1>1. /\ TriageInv /\ PostsBounded /\ stack \in Triage!StackType
      /\ faults \in Nat /\ MaxFaults \in Nat /\ \A o \in Ids : stack.posts[o] \in Nat
  <2>1. stack \in Triage!StackType /\ faults \in Nat /\ MaxFaults \in Nat
    BY CommandAssumption DEF IInv, TypeOK, StackType, CommandAssumption
  <2>2. TriageInv /\ PostsBounded
    BY DEF IInv, TriageInv
  <2> QED BY <2>1, <2>2 DEF Triage!StackType
<1>2. pc = "resolve" /\ todo # <<>> /\ UNCHANGED <<cmd, stack, writes, edits>>
  BY DEF Triage!ResolveCase
<1>3. /\ Planning
      /\ rows = {} /\ writes = {} /\ todo \in Seq(Ids)
      /\ Head(todo) \in Ids /\ Tail(todo) \in Seq(Ids)
  <2>1. Planning
    BY <1>2 DEF Planning
  <2>2. rows = {} /\ writes = {} /\ todo \in Seq(Ids)
    BY <2>1 DEF IInv, LoopInv, TodoOK, QuietPlanning
  <2>3. Head(todo) \in Ids /\ Tail(todo) \in Seq(Ids)
    BY <1>2, <2>2, TailFacts
  <2> QED BY <2>1, <2>2, <2>3
<1>4. Bounds' /\ faults' \in Nat /\ faults' <= faults
  <2>1. faults' = faults \/ (faults > 0 /\ faults' = faults - 1)
    BY DEF Triage!ResolveCase, Triage!Read, Triage!Checked
  <2>2. moved' \subseteq moved
    BY DEF Triage!ResolveCase, Triage!Read, Triage!Checked
  <2> QED BY <1>2, <2>1, <2>2, BoundsKept, CommandAssumption DEF IInv, TypeOK, Bounds,
         CommandAssumption
<1>5. stack' \in Triage!StackType /\ WritesWhatWasShown'
  BY <1>2 DEF IInv, TypeOK, StackType, WritesWhatWasShown
<1>6. \/ /\ pc' = pc /\ rows' = rows /\ todo' = Tail(todo)
         /\ plan' = [plan EXCEPT !.before
              = Triage!Noted(@, Head(todo), stack.case[Head(todo)]),
                               !.lost = @ \/ stack.case[Head(todo)] = Triage!Absent]
      \/ Fail /\ plan' = plan
  BY DEF Triage!ResolveCase, Triage!Read, Triage!Checked, Triage!Fail, Fail, Triage!Goto,
     Goto, Report, Row, Guard
<1>7. CASE /\ pc' = pc /\ rows' = rows /\ todo' = Tail(todo)
           /\ plan' = [plan EXCEPT !.before
                = Triage!Noted(@, Head(todo), stack.case[Head(todo)]),
                                 !.lost = @ \/ stack.case[Head(todo)] = Triage!Absent]
  <2>1. Range(todo) = {Head(todo)} \cup Range(Tail(todo))
    BY <1>2, <1>3, TailFacts
  <2>2. PlanOK'
    BY <1>2, <1>3, <1>7 DEF IInv, PlanOK, Triage!Noted
  <2>3. PlansOn
    BY <1>2, <1>3, <1>7 DEF PlansOn, Planning, Ended, Wholesale, Goto, Fail
  <2>4. TriageInv'
    <3>1. "before" \in DOMAIN plan /\ "lost" \in DOMAIN plan /\ plan.lost \in BOOLEAN
      BY <1>1 DEF IInv, PlanOK, TriageInv
    <3>2. /\ DOMAIN plan' = DOMAIN plan
          /\ plan'.before = Triage!Noted(plan.before, Head(todo), stack.case[Head(todo)])
          /\ plan'.lost = (plan.lost \/ stack.case[Head(todo)] = Triage!Absent)
      BY <3>1, <1>7
    <3>3. plan'.lost \in BOOLEAN
      BY <3>1, <3>2
    <3>4. ~plan'.lost => ~plan.lost /\ stack.case[Head(todo)] # Triage!Absent
      BY <3>2
    <3>5. PostsBounded'
      BY <1>1, <1>2, <1>3, <1>4, PostsKept
    <3>6. ASSUME NEW o \in cmd.targets
          PROVE  \/ o \in Range(todo')
                 \/ o \in DOMAIN plan'.before /\ CaseSeen(o)'
                      /\ (~plan'.lost => plan'.before[o] # Triage!Absent)
      <4>1. CASE o = Head(todo)
        <5>1. o \in DOMAIN plan'.before /\ plan'.before[o] = stack.case[o]
                /\ stack'.case[o] = stack.case[o]
          BY <1>2, <3>2, <4>1 DEF Triage!Noted
        <5>2. stack.case[o] \in [status : Triage!Statuses, version : Nat]
          BY <1>1, <1>3, <4>1 DEF Triage!StackType
        <5>3. stack.case[o] # Triage!Absent => stack.case[o].version > 0
          BY <1>1, <1>3, <4>1 DEF TriageInv
        <5> QED BY <3>4, <4>1, <5>1, <5>2, <5>3 DEF CaseSeen
      <4>2. CASE o # Head(todo) /\ o \notin Range(todo)
        <5>1. o \in DOMAIN plan.before /\ CaseSeen(o)
                /\ (~plan.lost => plan.before[o] # Triage!Absent)
          BY <1>1, <1>2, <4>2 DEF TriageInv
        <5>2. o \in DOMAIN plan'.before /\ plan'.before[o] = plan.before[o]
                /\ stack'.case[o] = stack.case[o]
          BY <1>2, <3>2, <4>2, <5>1 DEF Triage!Noted
        <5> QED BY <3>4, <5>1, <5>2 DEF CaseSeen
      <4> QED BY <2>1, <4>1, <4>2, <1>7
    <3>7. pc' = "resolve" /\ UNCHANGED <<cmd, stack>>
      BY <1>2, <1>7
    <3> QED BY <1>1, <1>2, <3>1, <3>2, <3>3, <3>5, <3>6, <3>7 DEF TriageInv
  <2> QED BY <1>2, <1>4, <1>5, <2>1, <2>2, <2>3, <2>4 DEF TriageStep, LoopStep
<1>8. CASE Fail /\ plan' = plan
  <2>1. PlanOK'
    BY <1>2, <1>8 DEF IInv, PlanOK
  <2>2. PlansOn
    BY <1>2, <1>3, <1>8 DEF PlansOn, Planning, Ended, Wholesale, Goto, Fail
  <2>3. TriageInv'
    <3>1. PostsBounded'
      BY <1>1, <1>2, <1>3, <1>4, <1>8, PostsKept
    <3> QED BY <1>1, <1>2, <3>1, <1>8 DEF TriageInv, CaseSeen, Goto, Fail
  <2> QED BY <1>2, <1>4, <1>5, <2>1, <2>2, <2>3 DEF TriageStep, LoopStep
<1> QED BY <1>6, <1>7, <1>8

\* The step PlanCases of a case or alert command.
LEMMA TriagePlanCases ==
    ASSUME IInv, cmd.family = "triage", Triage!PlanCases
    PROVE  TriageStep
<1>1. /\ TriageInv /\ PostsBounded /\ stack \in Triage!StackType
      /\ faults \in Nat /\ MaxFaults \in Nat /\ \A o \in Ids : stack.posts[o] \in Nat
  <2>1. stack \in Triage!StackType /\ faults \in Nat /\ MaxFaults \in Nat
    BY CommandAssumption DEF IInv, TypeOK, StackType, CommandAssumption
  <2>2. TriageInv /\ PostsBounded
    BY DEF IInv, TriageInv
  <2> QED BY <2>1, <2>2 DEF Triage!StackType
<1>2. pc = "resolve" /\ todo = <<>> /\ UNCHANGED <<cmd, stack, moved, writes, faults, edits>>
  BY DEF Triage!PlanCases
<1>3. /\ Planning
      /\ rows = {} /\ writes = {} /\ todo \in Seq(Ids)
      /\ cmd.op \in {"case_status", "case_delete"} /\ cmd.op # "delete_rules"
  <2>1. Planning
    BY <1>2 DEF Planning
  <2>2. rows = {} /\ writes = {} /\ todo \in Seq(Ids)
    BY <2>1 DEF IInv, LoopInv, TodoOK, QuietPlanning
  <2>3. cmd.op \in {"case_status", "case_delete"} /\ cmd.op # "delete_rules"
    BY <1>1, <1>2 DEF TriageInv
  <2> QED BY <2>1, <2>2, <2>3
<1>4. Bounds' /\ faults' \in Nat /\ faults' <= faults
  <2>1. faults' = faults
    BY <1>2
  <2>2. moved' \subseteq moved
    BY <1>2
  <2> QED BY <1>2, <2>1, <2>2, BoundsKept, CommandAssumption DEF IInv, TypeOK, Bounds,
         CommandAssumption
<1>5. stack' \in Triage!StackType /\ WritesWhatWasShown'
  BY <1>2 DEF IInv, TypeOK, StackType, WritesWhatWasShown
<1>6. \/ Fail /\ plan' = plan
      \/ /\ Guard(plan, Sorted(Triage!Transitions))
         /\ ~plan.lost /\ cmd.op = "case_status"
         /\ rows' = rows
      \/ /\ Guard(plan, Sorted(cmd.targets))
         /\ cmd.op = "case_delete"
         /\ rows' = rows
  BY <1>3, SameOrder DEF Triage!PlanCases, Triage!Fail, Fail, Triage!Goto, Goto, Report,
     Row, Triage!Guard, Guard
<1>7. CASE Fail /\ plan' = plan
  <2>1. PlanOK'
    BY <1>2, <1>7 DEF IInv, PlanOK
  <2>2. PlansOn
    BY <1>2, <1>3, <1>7 DEF PlansOn, Planning, Ended, Wholesale, Goto, Fail
  <2>3. TriageInv'
    <3>1. PostsBounded'
      BY <1>1, <1>2, <1>3, <1>4, <1>7, PostsKept
    <3> QED BY <1>1, <1>2, <3>1, <1>7 DEF TriageInv, CaseSeen, Goto, Fail
  <2> QED BY <1>2, <1>4, <1>5, <2>1, <2>2, <2>3 DEF TriageStep, LoopStep
<1>8. CASE /\ Guard(plan, Sorted(Triage!Transitions))
           /\ ~plan.lost /\ cmd.op = "case_status"
           /\ rows' = rows
  <2>1. Triage!Transitions \in SUBSET Ids /\ Triage!Transitions \subseteq Touchable
          /\ cmd.yes \in BOOLEAN
    BY <1>2, <1>3 DEF IInv, CmdOK, Triage!Transitions, Touchable
  <2>2. /\ Guarded /\ plan' = plan /\ pc' \in {"check", "done"}
        /\ pc' = "check" => Range(todo') = Triage!Transitions
    BY <1>2, <1>3, <2>1, <1>8, SortedGuard, CommandAssumption
  <2>3. PlanOK'
    BY <1>2, <2>1, <2>2 DEF IInv, PlanOK, CmdOK
  <2>4. TriageInv'
    <3>1. PostsBounded'
      BY <1>1, <1>2, <1>3, <1>4, PostsKept
    <3>2. \A o \in cmd.targets : CaseSeen(o) /\ plan.before[o] # Triage!Absent
      <4>1. Range(todo) = {}
        BY <1>2 DEF Range
      <4> QED BY <1>1, <1>2, <4>1, <1>8 DEF TriageInv
    <3> QED BY <1>1, <1>2, <1>3, <2>2, <3>1, <3>2 DEF TriageInv, CaseSeen
  <2> QED BY <1>2, <1>4, <1>5, <2>1, <2>2, <2>3, <2>4 DEF TriageStep, LoopStep
<1>9. CASE /\ Guard(plan, Sorted(cmd.targets))
           /\ cmd.op = "case_delete"
           /\ rows' = rows
  <2>1. cmd.targets \in SUBSET Ids /\ cmd.targets \subseteq Touchable /\ cmd.yes \in BOOLEAN
    BY <1>2, <1>3 DEF IInv, CmdOK, Touchable
  <2>2. /\ Guarded /\ plan' = plan /\ pc' \in {"check", "done"}
        /\ pc' = "check" => Range(todo') = cmd.targets
    BY <1>2, <1>3, <2>1, <1>9, SortedGuard, CommandAssumption
  <2>3. PlanOK'
    BY <1>2, <2>1, <2>2 DEF IInv, PlanOK, CmdOK
  <2>4. TriageInv'
    <3>1. PostsBounded'
      BY <1>1, <1>2, <1>3, <1>4, PostsKept
    <3> QED BY <1>1, <1>2, <1>3, <2>2, <3>1, <1>9 DEF TriageInv, CaseSeen
  <2> QED BY <1>2, <1>4, <1>5, <2>1, <2>2, <2>3, <2>4 DEF TriageStep, LoopStep
<1> QED BY <1>6, <1>7, <1>8, <1>9

\* The step Patch of a case or alert command.
LEMMA TriagePatch ==
    ASSUME IInv, cmd.family = "triage", Triage!Patch
    PROVE  TriageStep
<1>1. /\ TriageInv /\ PostsBounded /\ stack \in Triage!StackType
      /\ faults \in Nat /\ MaxFaults \in Nat /\ \A o \in Ids : stack.posts[o] \in Nat
  <2>1. stack \in Triage!StackType /\ faults \in Nat /\ MaxFaults \in Nat
    BY CommandAssumption DEF IInv, TypeOK, StackType, CommandAssumption
  <2>2. TriageInv /\ PostsBounded
    BY DEF IInv, TriageInv
  <2> QED BY <2>1, <2>2 DEF Triage!StackType
<1>2. pc = "check" /\ cmd.op = "case_status" /\ UNCHANGED <<cmd, plan, moved, edits>>
  BY DEF Triage!Patch
<1>3. /\ rows = {}
      /\ stack \in Triage!StackType
      /\ cmd.targets \subseteq Ids /\ Touchable = cmd.targets
      /\ cmd.op # "delete_rules" /\ cmd.op # "import" /\ cmd.family # "agent_policies"
      /\ \A o \in cmd.targets : CaseSeen(o) /\ plan.before[o] # Triage!Absent
  <2>1. rows = {}
    BY <1>2 DEF IInv, LoopInv, BulkIsFirst, Bulk, BulkOps
  <2>2. stack \in Triage!StackType
    BY <1>1
  <2>3. cmd.targets \subseteq Ids /\ Touchable = cmd.targets
    BY <1>2 DEF IInv, CmdOK, Touchable
  <2>4. cmd.op # "delete_rules" /\ cmd.op # "import" /\ cmd.family # "agent_policies"
    BY <1>2
  <2>5. \A o \in cmd.targets : CaseSeen(o) /\ plan.before[o] # Triage!Absent
    BY <1>1, <1>2 DEF TriageInv
  <2> QED BY <2>1, <2>2, <2>3, <2>4, <2>5
<1> DEFINE C == \A o \in Triage!Transitions : stack.case[o].version = plan.before[o].version
           D == Triage!Transitions
           new == [stack EXCEPT !.case = [o \in Ids |->
                     IF o \in D THEN [status |-> Triage!Target,
                       version |-> stack.case[o].version + 1]
                     ELSE stack.case[o]]]
           all == {Write(o, plan.before[o], stack.case[o], {}) : o \in D}
           lost == {Unanswered(w) : w \in all}
           R == {Row(o, "changed", TRUE) : o \in D}
<1>4. /\ faults' = faults \/ (faults > 0 /\ faults' = faults - 1)
      /\ \/ stack' = new /\ C /\ writes' = writes \cup all /\ ReportAll(rows \cup R)
         \/ stack' = stack /\ writes' = writes /\ Fail
         \/ stack' = new /\ C /\ writes' = writes \cup lost /\ Fail
         \/ stack' = new /\ C /\ writes' = writes \cup lost /\ UNCHANGED runVars
  BY <1>3 DEF Triage!Patch, Triage!MutateAll, Triage!Write, Write, Triage!Unanswered,
     Unanswered, Triage!Row, Row, Triage!Fail, Fail, Triage!Goto, Goto, Triage!ReportAll,
     ReportAll, Triage!runVars, runVars
<1>5. new \in Triage!StackType
  BY <1>3 DEF Triage!StackType, Triage!Statuses, Triage!Target
<1>6. D \subseteq Ids /\ D \subseteq Touchable
  BY <1>3 DEF Triage!Transitions
<1>7. faults' \in Nat /\ faults' <= faults
  BY <1>1, <1>4
<1>8. \A o \in Ids : new.posts[o] = stack.posts[o]
  BY <1>3 DEF Triage!StackType
<1>9. \A o \in Ids : new.case[o] # Triage!Absent => new.case[o].version > 0
  BY <1>1, <1>3 DEF TriageInv, Triage!StackType
<1>10. /\ \A o \in Ids : o \notin D => new.case[o] = stack.case[o]
       /\ \A o \in D : C => new.case[o].version = stack.case[o].version + 1
            /\ stack.case[o].version = plan.before[o].version
  BY <1>3, <1>6 DEF Triage!StackType
<1>11. /\ \A w \in all : w.id \in D /\ w.answered = TRUE
       /\ C => \A w \in all : w.asShown = TRUE \/ Unanswers(w.id)
       /\ \A w \in lost : w.id \in D /\ w.answered = FALSE
       /\ \A o \in D : (\E w \in all : w.id = o) /\ \E w \in lost : w.id = o
  <2>1. \A w \in all : w.id \in D /\ w.answered = TRUE
    <3> SUFFICES ASSUME NEW o \in D
                 PROVE  Write(o, plan.before[o], stack.case[o], {}).id = o
                        /\ Write(o, plan.before[o], stack.case[o], {}).answered = TRUE
      OBVIOUS
    <3> QED BY DEF Write
  <2>2. C => \A w \in all : w.asShown = TRUE \/ Unanswers(w.id)
    <3> SUFFICES ASSUME C, NEW o \in D
                 PROVE  Write(o, plan.before[o], stack.case[o], {}).asShown = TRUE
                        \/ Unanswers(Write(o, plan.before[o], stack.case[o], {}).id)
      OBVIOUS
    <3>1. CaseSeen(o) /\ plan.before[o] # Triage!Absent
            /\ stack.case[o].version = plan.before[o].version
      BY <1>3, <1>6 DEF Triage!Transitions
    <3>2. stack.case[o] = plan.before[o]
      BY <3>1 DEF CaseSeen, Triage!Absent
    <3> QED BY <3>2 DEF Write
  <2>3. \A w \in lost : w.id \in D /\ w.answered = FALSE
    <3> SUFFICES ASSUME NEW w \in all PROVE Unanswered(w).id \in D
                          /\ Unanswered(w).answered = FALSE
      OBVIOUS
    <3>1. DOMAIN w = {"id", "asShown", "answered"}
      BY DEF Write
    <3> QED BY <2>1, <3>1 DEF Unanswered
  <2>4. \A o \in D : \E w \in all : w.id = o
    <3> SUFFICES ASSUME NEW o \in D PROVE \E w \in all : w.id = o
      OBVIOUS
    <3>1. Write(o, plan.before[o], stack.case[o], {}) \in all
      OBVIOUS
    <3>2. Write(o, plan.before[o], stack.case[o], {}).id = o
      BY DEF Write
    <3> QED BY <3>1, <3>2
  <2>5. \A o \in D : \E w \in lost : w.id = o
    <3> SUFFICES ASSUME NEW w \in all PROVE Unanswered(w).id = w.id
      BY <2>4
    <3>1. DOMAIN w = {"id", "asShown", "answered"}
      BY DEF Write
    <3> QED BY <3>1 DEF Unanswered
  <2> QED BY <2>1, <2>2, <2>3, <2>4, <2>5
<1> HIDE DEF all, lost, new
<1>12. \A r \in R : GoodRow(r, all)
  <2>1. ASSUME NEW o \in D PROVE o \in Ids /\ GoodRow(Row(o, "changed", TRUE), all)
    <3>1. o \in Ids /\ o \in D
      BY <1>3, <1>6
    <3> HIDE DEF D
    <3> QED BY <1>3, <1>11, <3>1 DEF GoodRow, Row, SaysUntouched, Results
  <2> QED BY <2>1
<1>13. \A w \in all : \E r \in R : r.id = w.id
  <2>1. D \subseteq D
    <3> HIDE DEF D
    <3> QED OBVIOUS
  <2>2. ASSUME NEW o \in D PROVE \E r \in R : r.id = o
    <3> HIDE DEF D
    <3>1. CASE o \in D
      <4>1. Row(o, "changed", TRUE) \in R
        BY <3>1
      <4>2. Row(o, "changed", TRUE).id = o
        BY DEF Row
      <4> HIDE DEF R
      <4> QED BY <4>1, <4>2
    <3> QED BY <3>1
  <2> HIDE DEF R, D
  <2> QED BY <1>11, <2>1, <2>2
<1>14. \A r \in rows : SaysUntouched(r) => \A w \in all : w.id # r.id
  BY <1>3
<1> HIDE DEF R, D
<1>15. LoopStep
  <2>1. UNCHANGED cmd /\ pc \in {"check", "import_bundle"} /\ cmd.op # "delete_rules"
    BY <1>2, <1>3
  <2>2. WholeStep(all, lost, R)
    BY <1>4, <1>6, <1>11, <1>12, <1>13, <1>14, <2>1 DEF WholeStep
  <2> QED BY <2>2, WholeRequest, Zenon
<1>16. Bounds'
  BY <1>2, <1>4, BoundsKept, CommandAssumption DEF IInv, TypeOK, Bounds
<1>17. stack' \in Triage!StackType /\ PlanOK'
  <2>1. stack' \in Triage!StackType
    BY <1>3, <1>4, <1>5
  <2>2. PlanOK'
    BY <1>2 DEF IInv, PlanOK
  <2> QED BY <2>1, <2>2
<1>18. WritesWhatWasShown'
  <2>1. writes \subseteq writes' /\ \A w \in writes' : w \in writes \/ (C /\ w \in all)
          \/ w \in lost
    BY <1>4
  <2> QED BY <1>11, <2>1 DEF IInv, WritesWhatWasShown, Unanswers
<1>19. TriageInv'
  <2>1. PostsBounded'
    <3>1. \A o \in Ids : stack'.posts[o] = stack.posts[o]
      BY <1>4, <1>8
    <3>2. Ended' \/ UNCHANGED <<pc, todo>>
      BY <1>4 DEF Ended, ReportAll, Fail, Goto, runVars
    <3> QED BY <1>1, <1>7, <3>1, <3>2, PostsKept
  <2>2. \A o \in Ids : stack'.case[o] # Triage!Absent => stack'.case[o].version > 0
    BY <1>1, <1>4, <1>9 DEF TriageInv
  <2>3. pc' = "check" => \A o \in cmd.targets : CaseSeen(o)'
    <3> SUFFICES ASSUME pc' = "check", NEW o \in cmd.targets PROVE CaseSeen(o)'
      OBVIOUS
    <3>1. stack' = new /\ C
      BY <1>2, <1>4 DEF ReportAll, Fail, Goto, runVars
    <3>2. CaseSeen(o) /\ plan.before[o] # Triage!Absent /\ o \in Ids /\ plan' = plan
      BY <1>2, <1>3
    <3>3. CASE o \in D
      BY <1>10, <3>1, <3>2, <3>3, <1>3 DEF CaseSeen, Triage!StackType, Triage!Absent
    <3>4. CASE o \notin D
      BY <1>10, <3>1, <3>2, <3>4 DEF CaseSeen
    <3> QED BY <3>3, <3>4
  <2>4. pc' \in {"check", "done", "failed"}
    BY <1>2, <1>4 DEF ReportAll, Fail, Goto, runVars
  <2> QED BY <1>1, <1>2, <2>1, <2>2, <2>4, <1>3, <2>3 DEF TriageInv
<1> QED BY <1>15, <1>16, <1>17, <1>18, <1>19 DEF TriageStep

\* The step DeleteCases of a case or alert command.
LEMMA TriageDeleteCases ==
    ASSUME IInv, cmd.family = "triage", Triage!DeleteCases
    PROVE  TriageStep
<1>1. /\ TriageInv /\ PostsBounded /\ stack \in Triage!StackType
      /\ faults \in Nat /\ MaxFaults \in Nat /\ \A o \in Ids : stack.posts[o] \in Nat
  <2>1. stack \in Triage!StackType /\ faults \in Nat /\ MaxFaults \in Nat
    BY CommandAssumption DEF IInv, TypeOK, StackType, CommandAssumption
  <2>2. TriageInv /\ PostsBounded
    BY DEF IInv, TriageInv
  <2> QED BY <2>1, <2>2 DEF Triage!StackType
<1>2. pc = "check" /\ cmd.op = "case_delete" /\ UNCHANGED <<cmd, plan, moved, edits>>
  BY DEF Triage!DeleteCases
<1>3. /\ rows = {}
      /\ stack \in Triage!StackType
      /\ cmd.targets \subseteq Ids /\ Touchable = cmd.targets
      /\ cmd.op # "delete_rules" /\ cmd.op # "import" /\ cmd.family # "agent_policies"
  <2>1. rows = {}
    BY <1>2 DEF IInv, LoopInv, BulkIsFirst, Bulk, BulkOps
  <2>2. stack \in Triage!StackType
    BY <1>1
  <2>3. cmd.targets \subseteq Ids /\ Touchable = cmd.targets
    BY <1>2 DEF IInv, CmdOK, Touchable
  <2>4. cmd.op # "delete_rules" /\ cmd.op # "import" /\ cmd.family # "agent_policies"
    BY <1>2
  <2> QED BY <2>1, <2>2, <2>3, <2>4
<1> DEFINE D == cmd.targets
           new == [stack EXCEPT !.case
             = [o \in Ids |-> IF o \in D THEN Triage!Absent ELSE stack.case[o]]]
           all == {Write(o, TRUE, TRUE, {}) : o \in D}
           lost == {Unanswered(w) : w \in all}
           R == {Row(o, "deleted", TRUE) : o \in D}
<1>4. /\ faults' = faults \/ (faults > 0 /\ faults' = faults - 1)
      /\ \/ stack' = new /\ writes' = writes \cup all /\ ReportAll(rows \cup R)
         \/ stack' = stack /\ writes' = writes /\ Fail
         \/ stack' = new /\ writes' = writes \cup lost /\ Fail
         \/ stack' = new /\ writes' = writes \cup lost /\ UNCHANGED runVars
  BY <1>3 DEF Triage!DeleteCases, Triage!MutateAll, Triage!Write, Write, Triage!Unanswered,
     Unanswered, Triage!Row, Row, Triage!Fail, Fail, Triage!Goto, Goto, Triage!ReportAll,
     ReportAll, Triage!runVars, runVars
<1>5. new \in Triage!StackType
  BY <1>3 DEF Triage!StackType, Triage!Statuses, Triage!Absent
<1>6. D \subseteq Ids /\ D \subseteq Touchable
  BY <1>3
<1>7. faults' \in Nat /\ faults' <= faults
  BY <1>1, <1>4
<1>8. \A o \in Ids : new.posts[o] = stack.posts[o]
  BY <1>3 DEF Triage!StackType
<1>9. \A o \in Ids : new.case[o] # Triage!Absent => new.case[o].version > 0
  BY <1>1, <1>3 DEF TriageInv, Triage!StackType
<1>10. /\ \A w \in all : w.id \in D /\ w.answered = TRUE
       /\ \A w \in all : w.asShown = TRUE \/ Unanswers(w.id)
       /\ \A w \in lost : w.id \in D /\ w.answered = FALSE
       /\ \A o \in D : (\E w \in all : w.id = o) /\ \E w \in lost : w.id = o
  <2>1. \A w \in all : w.id \in D /\ w.answered = TRUE
    <3> SUFFICES ASSUME NEW o \in D
                 PROVE  Write(o, TRUE, TRUE, {}).id = o
                        /\ Write(o, TRUE, TRUE, {}).answered = TRUE
      OBVIOUS
    <3> QED BY DEF Write
  <2>2. \A w \in all : w.asShown = TRUE \/ Unanswers(w.id)
    <3> SUFFICES ASSUME NEW o \in D
                 PROVE  Write(o, TRUE, TRUE, {}).asShown = TRUE
                        \/ Unanswers(Write(o, TRUE, TRUE, {}).id)
      OBVIOUS
    <3> QED BY DEF Write
  <2>3. \A w \in lost : w.id \in D /\ w.answered = FALSE
    <3> SUFFICES ASSUME NEW w \in all PROVE Unanswered(w).id \in D
                          /\ Unanswered(w).answered = FALSE
      OBVIOUS
    <3>1. DOMAIN w = {"id", "asShown", "answered"}
      BY DEF Write
    <3> QED BY <2>1, <3>1 DEF Unanswered
  <2>4. \A o \in D : \E w \in all : w.id = o
    <3> SUFFICES ASSUME NEW o \in D PROVE \E w \in all : w.id = o
      OBVIOUS
    <3>1. Write(o, TRUE, TRUE, {}) \in all
      OBVIOUS
    <3>2. Write(o, TRUE, TRUE, {}).id = o
      BY DEF Write
    <3> QED BY <3>1, <3>2
  <2>5. \A o \in D : \E w \in lost : w.id = o
    <3> SUFFICES ASSUME NEW w \in all PROVE Unanswered(w).id = w.id
      BY <2>4
    <3>1. DOMAIN w = {"id", "asShown", "answered"}
      BY DEF Write
    <3> QED BY <3>1 DEF Unanswered
  <2> QED BY <2>1, <2>2, <2>3, <2>4, <2>5
<1> HIDE DEF all, lost, new
<1>11. \A r \in R : GoodRow(r, all)
  <2>1. ASSUME NEW o \in D PROVE o \in Ids /\ GoodRow(Row(o, "deleted", TRUE), all)
    <3>1. o \in Ids /\ o \in D
      BY <1>3, <1>6
    <3> HIDE DEF D
    <3> QED BY <1>3, <1>10, <3>1 DEF GoodRow, Row, SaysUntouched, Results
  <2> QED BY <2>1
<1>12. \A w \in all : \E r \in R : r.id = w.id
  <2>1. D \subseteq D
    <3> HIDE DEF D
    <3> QED OBVIOUS
  <2>2. ASSUME NEW o \in D PROVE \E r \in R : r.id = o
    <3> HIDE DEF D
    <3>1. CASE o \in D
      <4>1. Row(o, "deleted", TRUE) \in R
        BY <3>1
      <4>2. Row(o, "deleted", TRUE).id = o
        BY DEF Row
      <4> HIDE DEF R
      <4> QED BY <4>1, <4>2
    <3> QED BY <3>1
  <2> HIDE DEF R, D
  <2> QED BY <1>10, <2>1, <2>2
<1>13. \A r \in rows : SaysUntouched(r) => \A w \in all : w.id # r.id
  BY <1>3
<1> HIDE DEF R, D
<1>14. LoopStep
  <2>1. UNCHANGED cmd /\ pc \in {"check", "import_bundle"} /\ cmd.op # "delete_rules"
    BY <1>2, <1>3
  <2>2. WholeStep(all, lost, R)
    BY <1>4, <1>6, <1>10, <1>11, <1>12, <1>13, <2>1 DEF WholeStep
  <2> QED BY <2>2, WholeRequest, Zenon
<1>15. Bounds'
  BY <1>2, <1>4, BoundsKept, CommandAssumption DEF IInv, TypeOK, Bounds
<1>16. stack' \in Triage!StackType /\ PlanOK'
  <2>1. stack' \in Triage!StackType
    BY <1>3, <1>4, <1>5
  <2>2. PlanOK'
    BY <1>2 DEF IInv, PlanOK
  <2> QED BY <2>1, <2>2
<1>17. WritesWhatWasShown'
  <2>1. writes \subseteq writes' /\ \A w \in writes' : w \in writes \/ w \in all \/ w \in lost
    BY <1>4
  <2> QED BY <1>10, <2>1 DEF IInv, WritesWhatWasShown, Unanswers
<1>18. TriageInv'
  <2>1. PostsBounded'
    <3>1. \A o \in Ids : stack'.posts[o] = stack.posts[o]
      BY <1>4, <1>8
    <3>2. Ended' \/ UNCHANGED <<pc, todo>>
      BY <1>4 DEF Ended, ReportAll, Fail, Goto, runVars
    <3> QED BY <1>1, <1>7, <3>1, <3>2, PostsKept
  <2>2. \A o \in Ids : stack'.case[o] # Triage!Absent => stack'.case[o].version > 0
    BY <1>1, <1>4, <1>9 DEF TriageInv
  <2>3. pc' \in {"check", "done", "failed"}
    BY <1>2, <1>4 DEF ReportAll, Fail, Goto, runVars
  <2> QED BY <1>1, <1>2, <2>1, <2>2, <2>3 DEF TriageInv
<1> QED BY <1>14, <1>15, <1>16, <1>17, <1>18 DEF TriageStep

\* The step ResolveSubject of a case or alert command.
LEMMA TriageResolveSubject ==
    ASSUME IInv, cmd.family = "triage", Triage!ResolveSubject
    PROVE  TriageStep
<1>1. /\ TriageInv /\ PostsBounded /\ stack \in Triage!StackType
      /\ faults \in Nat /\ MaxFaults \in Nat /\ \A o \in Ids : stack.posts[o] \in Nat
  <2>1. stack \in Triage!StackType /\ faults \in Nat /\ MaxFaults \in Nat
    BY CommandAssumption DEF IInv, TypeOK, StackType, CommandAssumption
  <2>2. TriageInv /\ PostsBounded
    BY DEF IInv, TriageInv
  <2> QED BY <2>1, <2>2 DEF Triage!StackType
<1>2. pc = "start" /\ cmd.op \in {"create", "comment", "attach"}
        /\ UNCHANGED <<cmd, stack, writes, edits>>
  BY DEF Triage!ResolveSubject
<1>3. /\ Planning
      /\ rows = {} /\ writes = {} /\ todo \in Seq(Ids)
      /\ cmd.op \notin BulkOps /\ cmd.op # "delete_rules"
  <2>1. Planning
    BY <1>2 DEF Planning
  <2>2. rows = {} /\ writes = {} /\ todo \in Seq(Ids)
    BY <2>1 DEF IInv, LoopInv, TodoOK, QuietPlanning
  <2>3. cmd.op \notin BulkOps /\ cmd.op # "delete_rules"
    BY <1>2 DEF BulkOps
  <2> QED BY <2>1, <2>2, <2>3
<1>4. Bounds' /\ faults' \in Nat /\ faults' <= faults
  <2>1. faults' = faults \/ (faults > 0 /\ faults' = faults - 1)
    BY DEF Triage!ResolveSubject, Triage!Read, Triage!Checked
  <2>2. moved' \subseteq moved
    BY DEF Triage!ResolveSubject, Triage!Read, Triage!Checked
  <2> QED BY <1>2, <2>1, <2>2, BoundsKept, CommandAssumption DEF IInv, TypeOK, Bounds,
         CommandAssumption
<1>5. stack' \in Triage!StackType /\ WritesWhatWasShown'
  BY <1>2 DEF IInv, TypeOK, StackType, WritesWhatWasShown
<1>6. \/ Fail /\ plan' = plan
      \/ Goto("alerts") /\ plan' = plan /\ cmd.op = "attach"
      \/ /\ Guard(plan, Sorted(cmd.targets))
         /\ rows' = rows
  BY SameOrder DEF Triage!ResolveSubject, Triage!Read, Triage!Checked, Triage!Fail, Fail,
     Triage!Goto, Goto, Report, Row, Triage!Guard, Guard
<1>7. CASE Fail /\ plan' = plan
  <2>1. PlanOK'
    BY <1>2, <1>7 DEF IInv, PlanOK
  <2>2. PlansOn
    BY <1>2, <1>3, <1>7 DEF PlansOn, Planning, Ended, Wholesale, Goto, Fail
  <2>3. TriageInv'
    <3>1. PostsBounded'
      BY <1>1, <1>2, <1>3, <1>4, <1>7, PostsKept
    <3> QED BY <1>1, <1>2, <3>1, <1>7 DEF TriageInv, CaseSeen, Goto, Fail
  <2> QED BY <1>2, <1>4, <1>5, <2>1, <2>2, <2>3 DEF TriageStep, LoopStep
<1>8. CASE Goto("alerts") /\ plan' = plan /\ cmd.op = "attach"
  <2>1. PlanOK'
    BY <1>2, <1>8 DEF IInv, PlanOK
  <2>2. PlansOn
    BY <1>2, <1>3, <1>8 DEF PlansOn, Planning, Ended, Wholesale, Goto, Fail
  <2>3. TriageInv'
    <3>1. PostsBounded'
      BY <1>1, <1>2, <1>3, <1>4, <1>8, PostsKept
    <3> QED BY <1>1, <1>2, <3>1, <1>8 DEF TriageInv, CaseSeen, Goto, Fail
  <2> QED BY <1>2, <1>4, <1>5, <2>1, <2>2, <2>3 DEF TriageStep, LoopStep
<1>9. CASE /\ Guard(plan, Sorted(cmd.targets))
           /\ rows' = rows
  <2>1. cmd.targets \in SUBSET Ids /\ cmd.targets \subseteq Touchable /\ cmd.yes \in BOOLEAN
    BY <1>2, <1>3 DEF IInv, CmdOK, Touchable
  <2>2. /\ Guarded /\ plan' = plan /\ pc' \in {"check", "done"}
        /\ pc' = "check" => Range(todo') = cmd.targets
    BY <1>2, <1>3, <2>1, <1>9, SortedGuard, CommandAssumption
  <2>3. PlanOK'
    BY <1>2, <2>1, <2>2 DEF IInv, PlanOK, CmdOK
  <2>4. TriageInv'
    <3>1. PostsBounded'
      BY <1>1, <1>2, <1>3, <1>4, PostsKept
    <3> QED BY <1>1, <1>2, <1>3, <2>2, <3>1 DEF TriageInv, CaseSeen
  <2> QED BY <1>2, <1>4, <1>5, <2>1, <2>2, <2>3, <2>4 DEF TriageStep, LoopStep
<1> QED BY <1>6, <1>7, <1>8, <1>9

\* The step GroupAlerts of a case or alert command.
LEMMA TriageGroupAlerts ==
    ASSUME IInv, cmd.family = "triage", Triage!GroupAlerts
    PROVE  TriageStep
<1>1. /\ TriageInv /\ PostsBounded /\ stack \in Triage!StackType
      /\ faults \in Nat /\ MaxFaults \in Nat /\ \A o \in Ids : stack.posts[o] \in Nat
  <2>1. stack \in Triage!StackType /\ faults \in Nat /\ MaxFaults \in Nat
    BY CommandAssumption DEF IInv, TypeOK, StackType, CommandAssumption
  <2>2. TriageInv /\ PostsBounded
    BY DEF IInv, TriageInv
  <2> QED BY <2>1, <2>2 DEF Triage!StackType
<1>2. pc = "alerts" /\ UNCHANGED <<cmd, stack, writes, edits>>
  BY DEF Triage!GroupAlerts
<1>3. /\ Planning
      /\ rows = {} /\ writes = {} /\ todo \in Seq(Ids)
      /\ cmd.op \notin BulkOps /\ cmd.op = "attach"
  <2>1. Planning
    BY <1>2 DEF Planning
  <2>2. rows = {} /\ writes = {} /\ todo \in Seq(Ids)
    BY <2>1 DEF IInv, LoopInv, TodoOK, QuietPlanning
  <2>3. cmd.op \notin BulkOps /\ cmd.op = "attach"
    BY <1>1, <1>2 DEF BulkOps, TriageInv
  <2> QED BY <2>1, <2>2, <2>3
<1>4. Bounds' /\ faults' \in Nat /\ faults' <= faults
  <2>1. faults' = faults \/ (faults > 0 /\ faults' = faults - 1)
    BY DEF Triage!GroupAlerts, Triage!Read, Triage!Checked
  <2>2. moved' \subseteq moved
    BY DEF Triage!GroupAlerts, Triage!Read, Triage!Checked
  <2> QED BY <1>2, <2>1, <2>2, BoundsKept, CommandAssumption DEF IInv, TypeOK, Bounds,
         CommandAssumption
<1>5. stack' \in Triage!StackType /\ WritesWhatWasShown'
  BY <1>2 DEF IInv, TypeOK, StackType, WritesWhatWasShown
<1>6. \/ Fail /\ plan' = plan
      \/ /\ Guard(plan, Sorted(cmd.targets))
         /\ rows' = rows
  BY SameOrder DEF Triage!GroupAlerts, Triage!Read, Triage!Checked, Triage!Fail, Fail,
     Triage!Goto, Goto, Report, Row, Triage!Guard, Guard
<1>7. CASE Fail /\ plan' = plan
  <2>1. PlanOK'
    BY <1>2, <1>7 DEF IInv, PlanOK
  <2>2. PlansOn
    BY <1>2, <1>3, <1>7 DEF PlansOn, Planning, Ended, Wholesale, Goto, Fail
  <2>3. TriageInv'
    <3>1. PostsBounded'
      BY <1>1, <1>2, <1>3, <1>4, <1>7, PostsKept
    <3> QED BY <1>1, <1>2, <3>1, <1>7 DEF TriageInv, CaseSeen, Goto, Fail
  <2> QED BY <1>2, <1>4, <1>5, <2>1, <2>2, <2>3 DEF TriageStep, LoopStep
<1>8. CASE /\ Guard(plan, Sorted(cmd.targets))
           /\ rows' = rows
  <2>1. cmd.targets \in SUBSET Ids /\ cmd.targets \subseteq Touchable /\ cmd.yes \in BOOLEAN
    BY <1>2, <1>3 DEF IInv, CmdOK, Touchable
  <2>2. /\ Guarded /\ plan' = plan /\ pc' \in {"check", "done"}
        /\ pc' = "check" => Range(todo') = cmd.targets
    BY <1>2, <1>3, <2>1, <1>8, SortedGuard, CommandAssumption
  <2>3. PlanOK'
    BY <1>2, <2>1, <2>2 DEF IInv, PlanOK, CmdOK
  <2>4. TriageInv'
    <3>1. PostsBounded'
      BY <1>1, <1>2, <1>3, <1>4, PostsKept
    <3> QED BY <1>1, <1>2, <1>3, <2>2, <3>1 DEF TriageInv, CaseSeen
  <2> QED BY <1>2, <1>4, <1>5, <2>1, <2>2, <2>3, <2>4 DEF TriageStep, LoopStep
<1> QED BY <1>6, <1>7, <1>8

\* The step Post of a case or alert command.
LEMMA TriagePost ==
    ASSUME IInv, cmd.family = "triage", Triage!Post
    PROVE  TriageStep
<1> DEFINE w == Write(Head(todo), TRUE, TRUE, {})
           u == Unanswered(w)
           new == [stack EXCEPT !.posts[Head(todo)] = @ + 1]
<1>1. /\ TriageInv /\ PostsBounded /\ stack \in Triage!StackType
      /\ faults \in Nat /\ MaxFaults \in Nat /\ \A o \in Ids : stack.posts[o] \in Nat
  <2>1. stack \in Triage!StackType /\ faults \in Nat /\ MaxFaults \in Nat
    BY CommandAssumption DEF IInv, TypeOK, StackType, CommandAssumption
  <2>2. TriageInv /\ PostsBounded
    BY DEF IInv, TriageInv
  <2> QED BY <2>1, <2>2 DEF Triage!StackType
<1>2. pc = "check" /\ cmd.op \in {"create", "comment", "attach"}
        /\ UNCHANGED <<cmd, plan, moved, edits>>
  BY DEF Triage!Post
<1>3. /\ Looping
      /\ todo # <<>> /\ todo \in Seq(Ids) /\ Head(todo) \in Ids /\ Head(todo) \in Touchable
           /\ ~Planning /\ ~Ended
      /\ cmd.op \notin BulkOps /\ cmd.op \notin {"delete_rules", "set_enabled"}
  <2>1. Looping
    BY <1>2 DEF Looping, Ended, Planning, Wholesale
  <2>2. todo # <<>> /\ todo \in Seq(Ids) /\ Head(todo) \in Ids /\ Head(todo) \in Touchable
          /\ ~Planning /\ ~Ended
    BY <2>1, LoopFacts DEF IInv
  <2>3. cmd.op \notin BulkOps /\ cmd.op \notin {"delete_rules", "set_enabled"}
    BY <1>2 DEF BulkOps
  <2> QED BY <2>1, <2>2, <2>3
<1>4. Bounds' /\ faults' \in Nat /\ faults' <= faults
  <2>1. faults' = faults \/ (faults > 0 /\ faults' = faults - 1)
    BY DEF Triage!Post, Triage!Mutate, Triage!MutateAll
  <2>2. moved' \subseteq moved
    BY <1>2
  <2> QED BY <1>2, <2>1, <2>2, BoundsKept, CommandAssumption DEF IInv, TypeOK, Bounds,
         CommandAssumption
<1>5. PlanOK'
  BY <1>2 DEF IInv, PlanOK
<1>6. \/ /\ Report(Head(todo), "failed", FALSE)
         /\ stack' = stack /\ writes' = writes
      \/ /\ Fail
         /\ stack' = stack /\ writes' = writes
      \/ /\ Report(Head(todo), "created", TRUE)
         /\ stack' = new /\ writes' = writes \cup {w}
         /\ faults' = faults
      \/ /\ Report(Head(todo), "failed", FALSE)
         /\ stack' = new /\ writes' = writes \cup {u}
         /\ faults > 0 /\ faults' = faults - 1
      \/ /\ Fail
         /\ stack' = new /\ writes' = writes \cup {u}
         /\ faults > 0 /\ faults' = faults - 1
      \/ /\ pc' = pc /\ todo' = todo /\ rows' = rows
         /\ stack' = new /\ writes' = writes \cup {u}
         /\ faults > 0 /\ faults' = faults - 1
  BY DEF Triage!Post, Triage!Mutate, Triage!MutateAll, Triage!Fail, Fail, Triage!Goto, Goto,
     Triage!Report, Report, Triage!Row, Row, Triage!runVars, runVars, Guard, Triage!Write,
     Write, Triage!Unanswered, Unanswered
<1>7. /\ w.id = Head(todo) /\ w.answered = TRUE /\ u.id = Head(todo) /\ u.answered = FALSE
      /\ w.asShown = TRUE \/ Unanswers(Head(todo))
  <2>1. (TRUE) = (TRUE) \/ moved \cap {} # {} \/ Unanswers(Head(todo))
    OBVIOUS
  <2> QED BY <2>1 DEF Write, Unanswered
<1>8. TRUE => new \in Triage!StackType
  <2>1. Head(todo) \in Range(todo)
    BY <1>3, TailFacts
  <2>2. stack.posts[Head(todo)] + faults <= MaxFaults
    BY <1>1, <1>3, <2>1 DEF PostsBounded
  <2>3. stack.posts[Head(todo)] + 1 \in 0..(1 + MaxFaults)
    BY <1>1, <1>3, <2>2
  <2> QED BY <1>1, <1>3, <2>3 DEF Triage!StackType
<1>9. /\ new.case = stack.case /\ IsInjective(todo)
      /\ \A o \in Ids : new.posts[o] = IF o = Head(todo) THEN stack.posts[o] + 1
           ELSE stack.posts[o]
  BY <1>1, <1>3 DEF IInv, LoopInv, TodoOK, Triage!StackType
<1> HIDE DEF w, u, new
<1>10. CASE /\ Report(Head(todo), "failed", FALSE)
            /\ stack' = stack /\ writes' = writes
  <2>1. stack' \in Triage!StackType
    BY <1>2, <1>10 DEF IInv, TypeOK, StackType
  <2>2. WritesWhatWasShown'
    BY <1>2, <1>10 DEF IInv, WritesWhatWasShown
  <2>3. Reported
    BY <1>2, <1>3, <1>7, <1>10, RowWithoutWrite DEF Results, AfterWrite
  <2>4. TriageInv'
    <3>1. PostsBounded'
      <4>1. Ended' \/ (Looping' /\ Range(todo') \subseteq Range(todo))
        BY <1>3, <1>10, TailFacts DEF Report, Fail, Goto, Ended, Looping, Planning, Wholesale
      <4> QED BY <1>1, <1>3, <1>4, <4>1, <1>10, PostsKept
    <3>2. \A o \in Ids : stack'.case[o] # Triage!Absent => stack'.case[o].version > 0
      BY <1>1, <1>9, <1>10 DEF TriageInv
    <3>3. pc' \in {"check", "done", "failed"}
      BY <1>2, <1>10 DEF Report, Fail, Goto
    <3> QED BY <1>1, <1>2, <3>1, <3>2, <3>3 DEF TriageInv
  <2> QED BY <1>2, <1>4, <1>5, <2>1, <2>2, <2>3, <2>4 DEF TriageStep, LoopStep
<1>11. CASE /\ Fail
            /\ stack' = stack /\ writes' = writes
  <2>1. stack' \in Triage!StackType
    BY <1>2, <1>11 DEF IInv, TypeOK, StackType
  <2>2. WritesWhatWasShown'
    BY <1>2, <1>11 DEF IInv, WritesWhatWasShown
  <2>3. GivesUp
    BY <1>2, <1>3, <1>7, <1>11 DEF GivesUp, Fail, Goto, runVars, AfterWrite
  <2>4. TriageInv'
    <3>1. PostsBounded'
      <4>1. Ended' \/ (Looping' /\ Range(todo') \subseteq Range(todo))
        BY <1>3, <1>11, TailFacts DEF Report, Fail, Goto, Ended, Looping, Planning, Wholesale
      <4> QED BY <1>1, <1>3, <1>4, <4>1, <1>11, PostsKept
    <3>2. \A o \in Ids : stack'.case[o] # Triage!Absent => stack'.case[o].version > 0
      BY <1>1, <1>9, <1>11 DEF TriageInv
    <3>3. pc' \in {"check", "done", "failed"}
      BY <1>2, <1>11 DEF Report, Fail, Goto
    <3> QED BY <1>1, <1>2, <3>1, <3>2, <3>3 DEF TriageInv
  <2> QED BY <1>2, <1>4, <1>5, <2>1, <2>2, <2>3, <2>4 DEF TriageStep, LoopStep
<1>12. CASE /\ Report(Head(todo), "created", TRUE)
            /\ stack' = new /\ writes' = writes \cup {w}
            /\ faults' = faults
  <2>1. stack' \in Triage!StackType
    BY <1>8, <1>12
  <2>2. WritesWhatWasShown'
    BY <1>7, <1>12, ShownWrite DEF IInv
  <2>3. Reported
    BY <1>2, <1>3, <1>7, <1>12, RowOfWrite DEF Results, AfterWrite
  <2>4. TriageInv'
    <3>1. PostsBounded'
      <4>1. ~Ended' => Looping'
        BY <1>2, <1>3, <1>12 DEF Report, Fail, Goto, Ended, Looping, Planning, Wholesale
      <4>2. todo' = todo \/ todo' = Tail(todo)
        BY <1>12 DEF Report, Fail, Goto
      <4>3. faults' = faults => todo' = Tail(todo)
        BY <1>1, <1>12 DEF Report
      <4> QED BY <1>1, <1>3, <1>9, <4>1, <4>2, <4>3, <1>12, PostMade
    <3>2. \A o \in Ids : stack'.case[o] # Triage!Absent => stack'.case[o].version > 0
      BY <1>1, <1>9, <1>12 DEF TriageInv
    <3>3. pc' \in {"check", "done", "failed"}
      BY <1>2, <1>12 DEF Report, Fail, Goto
    <3> QED BY <1>1, <1>2, <3>1, <3>2, <3>3 DEF TriageInv
  <2> QED BY <1>2, <1>4, <1>5, <2>1, <2>2, <2>3, <2>4 DEF TriageStep, LoopStep
<1>13. CASE /\ Report(Head(todo), "failed", FALSE)
            /\ stack' = new /\ writes' = writes \cup {u}
            /\ faults > 0 /\ faults' = faults - 1
  <2>1. stack' \in Triage!StackType
    BY <1>8, <1>13
  <2>2. WritesWhatWasShown'
    BY <1>7, <1>13, ShownWrite DEF IInv
  <2>3. Reported
    BY <1>2, <1>3, <1>7, <1>13, RowOfLostWrite DEF Results, AfterWrite
  <2>4. TriageInv'
    <3>1. PostsBounded'
      <4>1. ~Ended' => Looping'
        BY <1>2, <1>3, <1>13 DEF Report, Fail, Goto, Ended, Looping, Planning, Wholesale
      <4>2. todo' = todo \/ todo' = Tail(todo)
        BY <1>13 DEF Report, Fail, Goto
      <4>3. faults' = faults => todo' = Tail(todo)
        BY <1>1, <1>13 DEF Report
      <4> QED BY <1>1, <1>3, <1>9, <4>1, <4>2, <4>3, <1>13, PostMade
    <3>2. \A o \in Ids : stack'.case[o] # Triage!Absent => stack'.case[o].version > 0
      BY <1>1, <1>9, <1>13 DEF TriageInv
    <3>3. pc' \in {"check", "done", "failed"}
      BY <1>2, <1>13 DEF Report, Fail, Goto
    <3> QED BY <1>1, <1>2, <3>1, <3>2, <3>3 DEF TriageInv
  <2> QED BY <1>2, <1>4, <1>5, <2>1, <2>2, <2>3, <2>4 DEF TriageStep, LoopStep
<1>14. CASE /\ Fail
            /\ stack' = new /\ writes' = writes \cup {u}
            /\ faults > 0 /\ faults' = faults - 1
  <2>1. stack' \in Triage!StackType
    BY <1>8, <1>14
  <2>2. WritesWhatWasShown'
    BY <1>7, <1>14, ShownWrite DEF IInv
  <2>3. GivesUp
    BY <1>2, <1>3, <1>7, <1>14 DEF GivesUp, Fail, Goto, runVars, AfterWrite
  <2>4. TriageInv'
    <3>1. PostsBounded'
      <4>1. ~Ended' => Looping'
        BY <1>2, <1>3, <1>14 DEF Report, Fail, Goto, Ended, Looping, Planning, Wholesale
      <4>2. todo' = todo \/ todo' = Tail(todo)
        BY <1>14 DEF Report, Fail, Goto
      <4>3. faults' = faults => todo' = Tail(todo)
        BY <1>1, <1>14 DEF Report
      <4> QED BY <1>1, <1>3, <1>9, <4>1, <4>2, <4>3, <1>14, PostMade
    <3>2. \A o \in Ids : stack'.case[o] # Triage!Absent => stack'.case[o].version > 0
      BY <1>1, <1>9, <1>14 DEF TriageInv
    <3>3. pc' \in {"check", "done", "failed"}
      BY <1>2, <1>14 DEF Report, Fail, Goto
    <3> QED BY <1>1, <1>2, <3>1, <3>2, <3>3 DEF TriageInv
  <2> QED BY <1>2, <1>4, <1>5, <2>1, <2>2, <2>3, <2>4 DEF TriageStep, LoopStep
<1>15. CASE /\ pc' = pc /\ todo' = todo /\ rows' = rows
            /\ stack' = new /\ writes' = writes \cup {u}
            /\ faults > 0 /\ faults' = faults - 1
  <2>1. stack' \in Triage!StackType
    BY <1>8, <1>15
  <2>2. WritesWhatWasShown'
    BY <1>7, <1>15, ShownWrite DEF IInv
  <2>3. SendsAgain
    BY <1>2, <1>3, <1>7, <1>15 DEF SendsAgain, Fail, Goto, runVars, AfterWrite
  <2>4. TriageInv'
    <3>1. PostsBounded'
      <4>1. ~Ended' => Looping'
        BY <1>2, <1>3, <1>15 DEF Report, Fail, Goto, Ended, Looping, Planning, Wholesale
      <4>2. todo' = todo \/ todo' = Tail(todo)
        BY <1>15 DEF Report, Fail, Goto
      <4>3. faults' = faults => todo' = Tail(todo)
        BY <1>1, <1>15 DEF Report
      <4> QED BY <1>1, <1>3, <1>9, <4>1, <4>2, <4>3, <1>15, PostMade
    <3>2. \A o \in Ids : stack'.case[o] # Triage!Absent => stack'.case[o].version > 0
      BY <1>1, <1>9, <1>15 DEF TriageInv
    <3>3. pc' \in {"check", "done", "failed"}
      BY <1>2, <1>15 DEF Report, Fail, Goto
    <3> QED BY <1>1, <1>2, <3>1, <3>2, <3>3 DEF TriageInv
  <2> QED BY <1>2, <1>4, <1>5, <2>1, <2>2, <2>3, <2>4 DEF TriageStep, LoopStep
<1> QED BY <1>6, <1>10, <1>11, <1>12, <1>13, <1>14, <1>15

\* The step ResolveUsers of a case or alert command.
LEMMA TriageResolveUsers ==
    ASSUME IInv, cmd.family = "triage", Triage!ResolveUsers
    PROVE  TriageStep
<1>1. /\ TriageInv /\ PostsBounded /\ stack \in Triage!StackType
      /\ faults \in Nat /\ MaxFaults \in Nat /\ \A o \in Ids : stack.posts[o] \in Nat
  <2>1. stack \in Triage!StackType /\ faults \in Nat /\ MaxFaults \in Nat
    BY CommandAssumption DEF IInv, TypeOK, StackType, CommandAssumption
  <2>2. TriageInv /\ PostsBounded
    BY DEF IInv, TriageInv
  <2> QED BY <2>1, <2>2 DEF Triage!StackType
<1>2. pc = "start" /\ cmd.op = "alert_assign" /\ UNCHANGED <<cmd, plan, stack, writes, edits>>
  BY DEF Triage!ResolveUsers
<1>3. /\ Planning
      /\ rows = {} /\ writes = {} /\ todo \in Seq(Ids)
  <2>1. Planning
    BY <1>2 DEF Planning
  <2>2. rows = {} /\ writes = {} /\ todo \in Seq(Ids)
    BY <2>1 DEF IInv, LoopInv, TodoOK, QuietPlanning
  <2> QED BY <2>1, <2>2
<1>4. Bounds' /\ faults' \in Nat /\ faults' <= faults
  <2>1. faults' = faults \/ (faults > 0 /\ faults' = faults - 1)
    BY DEF Triage!ResolveUsers, Triage!Read
  <2>2. moved' \subseteq moved
    BY DEF Triage!ResolveUsers, Triage!Read
  <2> QED BY <1>2, <2>1, <2>2, BoundsKept, CommandAssumption DEF IInv, TypeOK, Bounds,
         CommandAssumption
<1>5. stack' \in Triage!StackType /\ WritesWhatWasShown' /\ PlanOK'
  BY <1>2 DEF IInv, TypeOK, StackType, WritesWhatWasShown, PlanOK
<1>6. \/ Goto("alert_ids")
      \/ Fail
  BY DEF Triage!ResolveUsers, Triage!Read, Triage!Fail, Fail, Triage!Goto, Goto, Report,
     Row, Guard
<1>7. CASE Goto("alert_ids")
  <2>1. PlansOn
    BY <1>2, <1>3, <1>7 DEF PlansOn, Planning, Ended, Wholesale, Goto, Fail
  <2>2. TriageInv'
    <3>1. PostsBounded'
      BY <1>1, <1>2, <1>3, <1>4, <1>7, PostsKept
    <3> QED BY <1>1, <1>2, <3>1, <1>7 DEF TriageInv, CaseSeen, Goto, Fail
  <2> QED BY <1>2, <1>4, <1>5, <2>1, <2>2 DEF TriageStep, LoopStep
<1>8. CASE Fail
  <2>1. PlansOn
    BY <1>2, <1>3, <1>8 DEF PlansOn, Planning, Ended, Wholesale, Goto, Fail
  <2>2. TriageInv'
    <3>1. PostsBounded'
      BY <1>1, <1>2, <1>3, <1>4, <1>8, PostsKept
    <3> QED BY <1>1, <1>2, <3>1, <1>8 DEF TriageInv, CaseSeen, Goto, Fail
  <2> QED BY <1>2, <1>4, <1>5, <2>1, <2>2 DEF TriageStep, LoopStep
<1> QED BY <1>6, <1>7, <1>8

\* The step ResolveAlerts of a case or alert command.
LEMMA TriageResolveAlerts ==
    ASSUME IInv, cmd.family = "triage", Triage!ResolveAlerts
    PROVE  TriageStep
<1>1. /\ TriageInv /\ PostsBounded /\ stack \in Triage!StackType
      /\ faults \in Nat /\ MaxFaults \in Nat /\ \A o \in Ids : stack.posts[o] \in Nat
  <2>1. stack \in Triage!StackType /\ faults \in Nat /\ MaxFaults \in Nat
    BY CommandAssumption DEF IInv, TypeOK, StackType, CommandAssumption
  <2>2. TriageInv /\ PostsBounded
    BY DEF IInv, TriageInv
  <2> QED BY <2>1, <2>2 DEF Triage!StackType
<1>2. ((pc = "start" /\ cmd.op \in {"alert_status", "alert_tags"}) \/ pc = "alert_ids")
        /\ UNCHANGED <<cmd, stack, writes, edits>>
  BY DEF Triage!ResolveAlerts
<1>3. /\ Planning
      /\ rows = {} /\ writes = {} /\ todo \in Seq(Ids)
      /\ cmd.op \in {"alert_status", "alert_tags", "alert_assign"} /\ cmd.op # "delete_rules"
  <2>1. Planning
    BY <1>2 DEF Planning
  <2>2. rows = {} /\ writes = {} /\ todo \in Seq(Ids)
    BY <2>1 DEF IInv, LoopInv, TodoOK, QuietPlanning
  <2>3. cmd.op \in {"alert_status", "alert_tags", "alert_assign"} /\ cmd.op # "delete_rules"
    BY <1>1, <1>2 DEF TriageInv
  <2> QED BY <2>1, <2>2, <2>3
<1>4. Bounds' /\ faults' \in Nat /\ faults' <= faults
  <2>1. faults' = faults \/ (faults > 0 /\ faults' = faults - 1)
    BY DEF Triage!ResolveAlerts, Triage!Read, Triage!Checked
  <2>2. moved' \subseteq moved
    BY DEF Triage!ResolveAlerts, Triage!Read, Triage!Checked
  <2> QED BY <1>2, <2>1, <2>2, BoundsKept, CommandAssumption DEF IInv, TypeOK, Bounds,
         CommandAssumption
<1>5. stack' \in Triage!StackType /\ WritesWhatWasShown'
  BY <1>2 DEF IInv, TypeOK, StackType, WritesWhatWasShown
<1>6. \/ Fail /\ plan' = plan
      \/ /\ Guard([before |-> stack.alert, lost |-> FALSE], Sorted(cmd.targets))
         /\ rows' = rows
  BY SameOrder DEF Triage!ResolveAlerts, Triage!Read, Triage!Checked, Triage!Fail, Fail,
     Triage!Goto, Goto, Report, Row, Triage!Guard, Guard
<1>7. CASE Fail /\ plan' = plan
  <2>1. PlanOK'
    BY <1>2, <1>7 DEF IInv, PlanOK
  <2>2. PlansOn
    BY <1>2, <1>3, <1>7 DEF PlansOn, Planning, Ended, Wholesale, Goto, Fail
  <2>3. TriageInv'
    <3>1. PostsBounded'
      BY <1>1, <1>2, <1>3, <1>4, <1>7, PostsKept
    <3> QED BY <1>1, <1>2, <3>1, <1>7 DEF TriageInv, CaseSeen, Goto, Fail
  <2> QED BY <1>2, <1>4, <1>5, <2>1, <2>2, <2>3 DEF TriageStep, LoopStep
<1>8. CASE /\ Guard([before |-> stack.alert, lost |-> FALSE], Sorted(cmd.targets))
           /\ rows' = rows
  <2>1. cmd.targets \in SUBSET Ids /\ cmd.targets \subseteq Touchable /\ cmd.yes \in BOOLEAN
    BY <1>2, <1>3 DEF IInv, CmdOK, Touchable
  <2>2. /\ Guarded /\ plan' = [before |-> stack.alert, lost |-> FALSE]
             /\ pc' \in {"check", "done"}
        /\ pc' = "check" => Range(todo') = cmd.targets
    BY <1>2, <1>3, <2>1, <1>8, SortedGuard, CommandAssumption
  <2>3. PlanOK'
    BY <1>1, <1>2, <2>2 DEF IInv, PlanOK, CmdOK, Triage!StackType
  <2>4. TriageInv'
    <3>1. PostsBounded'
      BY <1>1, <1>2, <1>3, <1>4, PostsKept
    <3> QED BY <1>1, <1>2, <1>3, <2>2, <3>1 DEF TriageInv, CaseSeen
  <2> QED BY <1>2, <1>4, <1>5, <2>1, <2>2, <2>3, <2>4 DEF TriageStep, LoopStep
<1> QED BY <1>6, <1>7, <1>8

\* The step SampleQuery of a case or alert command.
LEMMA TriageSampleQuery ==
    ASSUME IInv, cmd.family = "triage", Triage!SampleQuery
    PROVE  TriageStep
<1>1. /\ TriageInv /\ PostsBounded /\ stack \in Triage!StackType
      /\ faults \in Nat /\ MaxFaults \in Nat /\ \A o \in Ids : stack.posts[o] \in Nat
  <2>1. stack \in Triage!StackType /\ faults \in Nat /\ MaxFaults \in Nat
    BY CommandAssumption DEF IInv, TypeOK, StackType, CommandAssumption
  <2>2. TriageInv /\ PostsBounded
    BY DEF IInv, TriageInv
  <2> QED BY <2>1, <2>2 DEF Triage!StackType
<1>2. pc = "start" /\ cmd.op = "alert_query" /\ UNCHANGED <<cmd, stack, writes, edits>>
  BY DEF Triage!SampleQuery
<1>3. /\ Planning
      /\ rows = {} /\ writes = {} /\ todo \in Seq(Ids)
      /\ cmd.op # "delete_rules" /\ cmd.targets = Ids
  <2>1. Planning
    BY <1>2 DEF Planning
  <2>2. rows = {} /\ writes = {} /\ todo \in Seq(Ids)
    BY <2>1 DEF IInv, LoopInv, TodoOK, QuietPlanning
  <2>3. cmd.op # "delete_rules" /\ cmd.targets = Ids
    BY <1>2 DEF IInv, CmdOK
  <2> QED BY <2>1, <2>2, <2>3
<1>4. Bounds' /\ faults' \in Nat /\ faults' <= faults
  <2>1. faults' = faults \/ (faults > 0 /\ faults' = faults - 1)
    BY DEF Triage!SampleQuery, Triage!Read, Triage!Checked
  <2>2. moved' \subseteq moved
    BY DEF Triage!SampleQuery, Triage!Read, Triage!Checked
  <2> QED BY <1>2, <2>1, <2>2, BoundsKept, CommandAssumption DEF IInv, TypeOK, Bounds,
         CommandAssumption
<1>5. stack' \in Triage!StackType /\ WritesWhatWasShown'
  BY <1>2 DEF IInv, TypeOK, StackType, WritesWhatWasShown
<1>6. \/ Fail /\ plan' = plan
      \/ /\ Guard([before |-> stack.alert, lost |-> FALSE], Sorted(Ids))
         /\ rows' = rows
  BY SameOrder DEF Triage!SampleQuery, Triage!Read, Triage!Checked, Triage!Fail, Fail,
     Triage!Goto, Goto, Report, Row, Triage!Guard, Guard
<1>7. CASE Fail /\ plan' = plan
  <2>1. PlanOK'
    BY <1>2, <1>7 DEF IInv, PlanOK
  <2>2. PlansOn
    BY <1>2, <1>3, <1>7 DEF PlansOn, Planning, Ended, Wholesale, Goto, Fail
  <2>3. TriageInv'
    <3>1. PostsBounded'
      BY <1>1, <1>2, <1>3, <1>4, <1>7, PostsKept
    <3> QED BY <1>1, <1>2, <3>1, <1>7 DEF TriageInv, CaseSeen, Goto, Fail
  <2> QED BY <1>2, <1>4, <1>5, <2>1, <2>2, <2>3 DEF TriageStep, LoopStep
<1>8. CASE /\ Guard([before |-> stack.alert, lost |-> FALSE], Sorted(Ids))
           /\ rows' = rows
  <2>1. Ids \in SUBSET Ids /\ Ids \subseteq Touchable /\ cmd.yes \in BOOLEAN
    BY <1>2, <1>3 DEF IInv, CmdOK, Touchable
  <2>2. /\ Guarded /\ plan' = [before |-> stack.alert, lost |-> FALSE]
             /\ pc' \in {"check", "done"}
        /\ pc' = "check" => Range(todo') = Ids
    BY <1>2, <1>3, <2>1, <1>8, SortedGuard, CommandAssumption
  <2>3. PlanOK'
    BY <1>1, <1>2, <2>2 DEF IInv, PlanOK, CmdOK, Triage!StackType
  <2>4. TriageInv'
    <3>1. PostsBounded'
      BY <1>1, <1>2, <1>3, <1>4, PostsKept
    <3> QED BY <1>1, <1>2, <1>3, <2>2, <3>1 DEF TriageInv, CaseSeen
  <2> QED BY <1>2, <1>4, <1>5, <2>1, <2>2, <2>3, <2>4 DEF TriageStep, LoopStep
<1> QED BY <1>6, <1>7, <1>8

\* The step UpdateAlerts of a case or alert command.
LEMMA TriageUpdateAlerts ==
    ASSUME IInv, cmd.family = "triage", Triage!UpdateAlerts
    PROVE  TriageStep
<1>1. /\ TriageInv /\ PostsBounded /\ stack \in Triage!StackType
      /\ faults \in Nat /\ MaxFaults \in Nat /\ \A o \in Ids : stack.posts[o] \in Nat
  <2>1. stack \in Triage!StackType /\ faults \in Nat /\ MaxFaults \in Nat
    BY CommandAssumption DEF IInv, TypeOK, StackType, CommandAssumption
  <2>2. TriageInv /\ PostsBounded
    BY DEF IInv, TriageInv
  <2> QED BY <2>1, <2>2 DEF Triage!StackType
<1>2. pc = "check" /\ cmd.op
        \in {"alert_status", "alert_tags", "alert_assign", "alert_query"}
          /\ UNCHANGED <<cmd, plan, moved, edits>>
  BY DEF Triage!UpdateAlerts
<1>3. /\ rows = {}
      /\ stack \in Triage!StackType
      /\ cmd.targets \subseteq Ids /\ Touchable = cmd.targets
      /\ cmd.op # "delete_rules" /\ cmd.op # "import" /\ cmd.family # "agent_policies"
      /\ Triage!Matched \subseteq cmd.targets
      /\ cmd.op # "alert_query" => \A o \in cmd.targets : plan.before[o] = stack.alert[o]
           \/ moved \cap {o} # {} \/ Unanswers(o)
  <2>1. rows = {}
    BY <1>2 DEF IInv, LoopInv, BulkIsFirst, Bulk, BulkOps
  <2>2. stack \in Triage!StackType
    BY <1>1
  <2>3. cmd.targets \subseteq Ids /\ Touchable = cmd.targets
    BY <1>2 DEF IInv, CmdOK, Touchable
  <2>4. cmd.op # "delete_rules" /\ cmd.op # "import" /\ cmd.family # "agent_policies"
    BY <1>2
  <2>5. Triage!Matched \subseteq cmd.targets
    BY <1>2 DEF IInv, CmdOK, Triage!Matched
  <2>6. cmd.op # "alert_query" => \A o \in cmd.targets : plan.before[o] = stack.alert[o]
          \/ moved \cap {o} # {} \/ Unanswers(o)
    BY <1>1, <1>2 DEF TriageInv, Excused
  <2> QED BY <2>1, <2>2, <2>3, <2>4, <2>5, <2>6
<1>4. PICK hit \in SUBSET Triage!Matched :
       LET new == [stack EXCEPT !.alert = [o \in Ids |->
                        IF o \in hit THEN Triage!Target ELSE stack.alert[o]]]
             ws  == {Triage!Write(o, cmd.op = "alert_query"
               \/ plan.before[o] = stack.alert[o], TRUE, {o})
                        : o \in hit}
         IN Triage!MutateAll(new, ws,
                      Triage!ReportAll({Triage!Row(o, "changed", TRUE) : o \in hit}
                                   \cup {Triage!ConflictResult(o) :
                                     o \in Triage!Matched \ hit}),
                      Triage!Fail, TRUE)
  BY DEF Triage!UpdateAlerts
<1> DEFINE res == IF cmd.op = "alert_query" /\ cmd.proceed THEN "conflict" ELSE "failed"
           D == hit
           new == [stack EXCEPT !.alert
             = [o \in Ids |-> IF o \in D THEN Triage!Target ELSE stack.alert[o]]]
           all == {Write(o, (cmd.op = "alert_query" \/ plan.before[o] = stack.alert[o]),
             TRUE, {o}) : o \in D}
           lost == {Unanswered(w) : w \in all}
           R == {Row(o, "changed", TRUE) : o \in D}
             \cup {Row(o, res, FALSE) : o \in Triage!Matched \ D}
<1>5. /\ faults' = faults \/ (faults > 0 /\ faults' = faults - 1)
      /\ \/ stack' = new /\ writes' = writes \cup all /\ ReportAll(rows \cup R)
         \/ stack' = stack /\ writes' = writes /\ Fail
         \/ stack' = new /\ writes' = writes \cup lost /\ Fail
         \/ stack' = new /\ writes' = writes \cup lost /\ UNCHANGED runVars
  BY <1>3, <1>4 DEF Triage!MutateAll, Triage!Write, Write, Triage!Unanswered, Unanswered,
     Triage!Row, Row, Triage!Fail, Fail, Triage!Goto, Goto, Triage!ReportAll, ReportAll,
     Triage!runVars, runVars, Triage!ConflictResult
<1>6. new \in Triage!StackType
  BY <1>3 DEF Triage!StackType, Triage!Statuses, Triage!Target
<1>7. D \subseteq Ids /\ D \subseteq Touchable
  BY <1>3, <1>4
<1>8. faults' \in Nat /\ faults' <= faults
  BY <1>1, <1>5
<1>9. \A o \in Ids : new.posts[o] = stack.posts[o]
  BY <1>3 DEF Triage!StackType
<1>10. \A o \in Ids : new.case[o] # Triage!Absent => new.case[o].version > 0
  BY <1>1, <1>3 DEF TriageInv, Triage!StackType
<1>11. \A o \in Ids : o \notin D => new.alert[o] = stack.alert[o]
  BY <1>3 DEF Triage!StackType
<1>12. /\ \A w \in all : w.id \in D /\ w.answered = TRUE
       /\ \A w \in all : w.asShown = TRUE \/ Unanswers(w.id)
       /\ \A w \in lost : w.id \in D /\ w.answered = FALSE
       /\ \A o \in D : (\E w \in all : w.id = o) /\ \E w \in lost : w.id = o
  <2>1. \A w \in all : w.id \in D /\ w.answered = TRUE
    <3> SUFFICES ASSUME NEW w \in all PROVE w.id \in D /\ w.answered = TRUE
      OBVIOUS
    <3>1. PICK o \in D : w = Write(o, (cmd.op = "alert_query"
                 \/ plan.before[o] = stack.alert[o]), TRUE, {o})
      BY Zenon
    <3> QED BY <3>1 DEF Write
  <2>2. \A w \in all : w.asShown = TRUE \/ Unanswers(w.id)
    <3> SUFFICES ASSUME NEW o \in D
                 PROVE  Write(o, (cmd.op = "alert_query"
                          \/ plan.before[o] = stack.alert[o]), TRUE, {o}).asShown = TRUE
                        \/ Unanswers(Write(o, (cmd.op = "alert_query"
                             \/ plan.before[o] = stack.alert[o]), TRUE, {o}).id)
      OBVIOUS
    <3>1. cmd.op = "alert_query" \/ plan.before[o] = stack.alert[o] \/ moved \cap {o} # {}
            \/ Unanswers(o)
      BY <1>3, <1>7
    <3>2. CASE cmd.op = "alert_query" \/ plan.before[o] = stack.alert[o]
      BY <3>2 DEF Write
    <3>3. CASE moved \cap {o} # {}
      BY <3>3 DEF Write
    <3>4. CASE Unanswers(o)
      BY <3>4 DEF Write
    <3> QED BY <3>1, <3>2, <3>3, <3>4
  <2>3. \A w \in lost : w.id \in D /\ w.answered = FALSE
    <3> SUFFICES ASSUME NEW w \in all PROVE Unanswered(w).id \in D
                          /\ Unanswered(w).answered = FALSE
      OBVIOUS
    <3>1. DOMAIN w = {"id", "asShown", "answered"}
      BY DEF Write
    <3> QED BY <2>1, <3>1 DEF Unanswered
  <2>4. \A o \in D : \E w \in all : w.id = o
    <3> SUFFICES ASSUME NEW o \in D PROVE \E w \in all : w.id = o
      OBVIOUS
    <3>1. Write(o, (cmd.op = "alert_query" \/ plan.before[o] = stack.alert[o]), TRUE, {o})
            \in all
      OBVIOUS
    <3>2. Write(o, (cmd.op = "alert_query" \/ plan.before[o] = stack.alert[o]),
            TRUE, {o}).id = o
      BY DEF Write
    <3> QED BY <3>1, <3>2
  <2>5. \A o \in D : \E w \in lost : w.id = o
    <3> SUFFICES ASSUME NEW w \in all PROVE Unanswered(w).id = w.id
      BY <2>4
    <3>1. DOMAIN w = {"id", "asShown", "answered"}
      BY DEF Write
    <3> QED BY <3>1 DEF Unanswered
  <2> QED BY <2>1, <2>2, <2>3, <2>4, <2>5
<1> HIDE DEF all, lost, new
<1>13. \A r \in R : GoodRow(r, all)
  <2>1. ASSUME NEW o \in D PROVE o \in Ids /\ GoodRow(Row(o, "changed", TRUE), all)
    <3>1. o \in Ids /\ o \in D
      BY <1>3, <1>7
    <3> HIDE DEF D
    <3> QED BY <1>3, <1>12, <3>1 DEF GoodRow, Row, SaysUntouched, Results
  <2>2. ASSUME NEW o \in Triage!Matched \ D PROVE o \in Ids
                 /\ GoodRow(Row(o, res, FALSE), all)
    <3>1. o \in Ids
      BY <1>3, <1>7
    <3> HIDE DEF D
    <3> QED BY <1>3, <1>12, <3>1 DEF GoodRow, Row, SaysUntouched, Results
  <2> QED BY <2>1, <2>2
<1>14. \A w \in all : \E r \in R : r.id = w.id
  <2>1. D \subseteq (D \cup (Triage!Matched \ D))
    <3> HIDE DEF D, res
    <3> QED OBVIOUS
  <2>2. ASSUME NEW o \in (D \cup (Triage!Matched \ D)) PROVE \E r \in R : r.id = o
    <3> HIDE DEF D, res
    <3>1. CASE o \in D
      <4>1. Row(o, "changed", TRUE) \in R
        BY <3>1
      <4>2. Row(o, "changed", TRUE).id = o
        BY DEF Row
      <4> HIDE DEF R
      <4> QED BY <4>1, <4>2
    <3>2. CASE o \in (Triage!Matched \ D)
      <4>1. Row(o, res, FALSE) \in R
        BY <3>2
      <4>2. Row(o, res, FALSE).id = o
        BY DEF Row
      <4> HIDE DEF R
      <4> QED BY <4>1, <4>2
    <3> QED BY <3>1, <3>2
  <2> HIDE DEF R, D, res
  <2> QED BY <1>12, <2>1, <2>2
<1>15. \A r \in rows : SaysUntouched(r) => \A w \in all : w.id # r.id
  BY <1>3
<1> HIDE DEF R, D
<1>16. LoopStep
  <2>1. UNCHANGED cmd /\ pc \in {"check", "import_bundle"} /\ cmd.op # "delete_rules"
    BY <1>2, <1>3
  <2>2. WholeStep(all, lost, R)
    BY <1>5, <1>7, <1>12, <1>13, <1>14, <1>15, <2>1 DEF WholeStep
  <2> QED BY <2>2, WholeRequest, Zenon
<1>17. Bounds'
  BY <1>2, <1>5, BoundsKept, CommandAssumption DEF IInv, TypeOK, Bounds
<1>18. stack' \in Triage!StackType /\ PlanOK'
  <2>1. stack' \in Triage!StackType
    BY <1>3, <1>5, <1>6
  <2>2. PlanOK'
    BY <1>2 DEF IInv, PlanOK
  <2> QED BY <2>1, <2>2
<1>19. WritesWhatWasShown'
  <2>1. writes \subseteq writes' /\ \A w \in writes' : w \in writes \/ w \in all \/ w \in lost
    BY <1>5
  <2> QED BY <1>12, <2>1 DEF IInv, WritesWhatWasShown, Unanswers
<1>20. TriageInv'
  <2>1. PostsBounded'
    <3>1. \A o \in Ids : stack'.posts[o] = stack.posts[o]
      BY <1>5, <1>9
    <3>2. Ended' \/ UNCHANGED <<pc, todo>>
      BY <1>5 DEF Ended, ReportAll, Fail, Goto, runVars
    <3> QED BY <1>1, <1>8, <3>1, <3>2, PostsKept
  <2>2. \A o \in Ids : stack'.case[o] # Triage!Absent => stack'.case[o].version > 0
    BY <1>1, <1>5, <1>10 DEF TriageInv
  <2>3. pc' = "check" /\ cmd.op # "alert_query" => \A o \in cmd.targets :
          plan.before[o] = stack'.alert[o] \/ Excused(o, {o})'
    <3> SUFFICES ASSUME pc' = "check", cmd.op # "alert_query", NEW o \in cmd.targets
                 PROVE  plan.before[o] = stack'.alert[o] \/ Excused(o, {o})'
      OBVIOUS
    <3>1. stack' = new /\ writes' = writes \cup lost
      BY <1>2, <1>5 DEF ReportAll, Fail, Goto, runVars
    <3>2. CASE o \in D
      BY <1>12, <3>1, <3>2 DEF Excused, Unanswers
    <3>3. CASE o \notin D
      BY <1>2, <1>3, <1>11, <3>1, <3>3 DEF Excused, Unanswers
    <3> QED BY <3>2, <3>3
  <2>4. pc' \in {"check", "done", "failed"}
    BY <1>2, <1>5 DEF ReportAll, Fail, Goto, runVars
  <2> QED BY <1>1, <1>2, <2>1, <2>2, <2>4, <2>3 DEF TriageInv
<1> QED BY <1>16, <1>17, <1>18, <1>19, <1>20 DEF TriageStep

\* Another client at work during a case or alert command.
LEMMA TriageOthersEdit ==
    ASSUME IInv, cmd.family = "triage", Triage!OthersEdit
    PROVE  TriageStep
<1>1. ~Ended /\ edits > 0 /\ edits' = edits - 1
        /\ UNCHANGED <<cmd, pc, todo, plan, writes, rows, faults>>
  BY DEF Triage!OthersEdit, Triage!Edit, Triage!Ended, Ended
<1>2. \/ \E o \in Ids, s \in {1, Triage!Target} : stack.case[o] # Triage!Absent
           /\ stack' = [stack EXCEPT !.case[o] = [status |-> s, version |-> @.version + 1]]
                /\ moved' = moved \cup {o}
      \/ \E o \in Ids : stack' = [stack EXCEPT !.case[o] = Triage!Absent]
           /\ moved' = moved \cup {o}
      \/ \E o \in Ids, s \in Triage!Statuses : stack' = [stack EXCEPT !.alert[o] = s]
           /\ moved' = moved \cup {o}
  BY DEF Triage!OthersEdit, Triage!Edit
<1>3. Watches
  BY <1>1 DEF Watches
<1>4. WritesWhatWasShown' /\ PlanOK'
  BY <1>1 DEF IInv, WritesWhatWasShown, PlanOK
<1>5. stack \in Triage!StackType /\ Bounds /\ TriageInv
  BY DEF IInv, TypeOK, StackType, Bounds
<1>6. CASE \E o \in Ids, s \in {1, Triage!Target} : stack.case[o] # Triage!Absent
             /\ stack' = [stack EXCEPT !.case[o]
                  = [status |-> s, version |-> @.version + 1]] /\ moved' = moved \cup {o}
  <2>1. PICK o \in Ids, s \in {1, Triage!Target} : stack.case[o] # Triage!Absent
               /\ stack' = [stack EXCEPT !.case[o]
                    = [status |-> s, version |-> @.version + 1]] /\ moved' = moved \cup {o}
    BY <1>6
  <2>2. stack' \in Triage!StackType
    <3>1. [status |-> s, version |-> stack.case[o].version + 1]
            \in [status : Triage!Statuses, version : Nat]
      BY <1>5, <2>1 DEF Triage!StackType, Triage!Statuses, Triage!Target, Triage!Absent
    <3>2. /\ stack'.case \in [Ids -> [status : Triage!Statuses, version : Nat]]
          /\ stack' = [case |-> stack'.case, alert |-> stack.alert, posts |-> stack.posts]
      BY <1>5, <2>1, <3>1 DEF Triage!StackType
    <3> QED BY <1>5, <3>2 DEF Triage!StackType
  <2>3. Bounds'
    BY <1>1, <1>5, <2>1, CommandAssumption DEF Bounds, CommandAssumption
  <2>4. TriageInv'
    <3>1. PostsBounded'
      <4>1. \A x \in Ids : stack.posts[x] \in Nat /\ stack'.posts[x] = stack.posts[x]
        BY <1>5, <2>1 DEF Triage!StackType
      <4>2. faults \in Nat /\ MaxFaults \in Nat /\ PostsBounded
        BY <1>5, CommandAssumption DEF Bounds, CommandAssumption, TriageInv
      <4> QED BY <1>1, <4>1, <4>2, PostsKept
    <3>2. \A x \in Ids : stack'.case[x] # Triage!Absent => stack'.case[x].version > 0
      BY <1>5, <2>1 DEF TriageInv, Triage!StackType, Triage!Absent
    <3>3. ASSUME NEW x, x \in Ids, CaseSeen(x) PROVE CaseSeen(x)'
      BY <1>1, <1>5, <2>1, <3>3 DEF CaseSeen, Triage!StackType, Triage!Absent
    <3>4. stack'.alert = stack.alert /\ cmd.targets \subseteq Ids
      <4>1. cmd.targets \subseteq Ids
        BY DEF IInv, CmdOK, OpOK
      <4> QED BY <1>5, <2>1, <4>1 DEF Triage!StackType
    <3>5. pc' = "resolve" => \A x \in cmd.targets : x \in Range(todo')
            \/ (x \in DOMAIN plan'.before /\ CaseSeen(x)'
                 /\ (~plan'.lost => plan'.before[x] # Triage!Absent))
      BY <1>1, <1>5, <3>3, <3>4 DEF TriageInv
    <3>6. pc' = "check" /\ cmd.op = "case_status" => \A x \in cmd.targets : CaseSeen(x)'
            /\ plan'.before[x] # Triage!Absent
      BY <1>1, <1>5, <3>3, <3>4 DEF TriageInv
    <3> QED BY <1>1, <1>5, <2>1, <3>1, <3>2, <3>4, <3>5, <3>6 DEF TriageInv, Excused,
           Unanswers
  <2> QED BY <1>1, <1>3, <1>4, <2>2, <2>3, <2>4 DEF TriageStep, LoopStep
<1>7. CASE \E o \in Ids : stack' = [stack EXCEPT !.case[o] = Triage!Absent]
             /\ moved' = moved \cup {o}
  <2>1. PICK o \in Ids : stack' = [stack EXCEPT !.case[o] = Triage!Absent]
               /\ moved' = moved \cup {o}
    BY <1>7
  <2>2. stack' \in Triage!StackType
    <3>1. Triage!Absent \in [status : Triage!Statuses, version : Nat]
      BY <1>5, <2>1 DEF Triage!StackType, Triage!Statuses, Triage!Target, Triage!Absent
    <3>2. /\ stack'.case \in [Ids -> [status : Triage!Statuses, version : Nat]]
          /\ stack' = [case |-> stack'.case, alert |-> stack.alert, posts |-> stack.posts]
      BY <1>5, <2>1, <3>1 DEF Triage!StackType
    <3> QED BY <1>5, <3>2 DEF Triage!StackType
  <2>3. Bounds'
    BY <1>1, <1>5, <2>1, CommandAssumption DEF Bounds, CommandAssumption
  <2>4. TriageInv'
    <3>1. PostsBounded'
      <4>1. \A x \in Ids : stack.posts[x] \in Nat /\ stack'.posts[x] = stack.posts[x]
        BY <1>5, <2>1 DEF Triage!StackType
      <4>2. faults \in Nat /\ MaxFaults \in Nat /\ PostsBounded
        BY <1>5, CommandAssumption DEF Bounds, CommandAssumption, TriageInv
      <4> QED BY <1>1, <4>1, <4>2, PostsKept
    <3>2. \A x \in Ids : stack'.case[x] # Triage!Absent => stack'.case[x].version > 0
      BY <1>5, <2>1 DEF TriageInv, Triage!StackType, Triage!Absent
    <3>3. ASSUME NEW x, x \in Ids, CaseSeen(x) PROVE CaseSeen(x)'
      BY <1>1, <1>5, <2>1, <3>3 DEF CaseSeen, Triage!StackType, Triage!Absent
    <3>4. stack'.alert = stack.alert /\ cmd.targets \subseteq Ids
      <4>1. cmd.targets \subseteq Ids
        BY DEF IInv, CmdOK, OpOK
      <4> QED BY <1>5, <2>1, <4>1 DEF Triage!StackType
    <3>5. pc' = "resolve" => \A x \in cmd.targets : x \in Range(todo')
            \/ (x \in DOMAIN plan'.before /\ CaseSeen(x)'
                 /\ (~plan'.lost => plan'.before[x] # Triage!Absent))
      BY <1>1, <1>5, <3>3, <3>4 DEF TriageInv
    <3>6. pc' = "check" /\ cmd.op = "case_status" => \A x \in cmd.targets : CaseSeen(x)'
            /\ plan'.before[x] # Triage!Absent
      BY <1>1, <1>5, <3>3, <3>4 DEF TriageInv
    <3> QED BY <1>1, <1>5, <2>1, <3>1, <3>2, <3>4, <3>5, <3>6 DEF TriageInv, Excused,
           Unanswers
  <2> QED BY <1>1, <1>3, <1>4, <2>2, <2>3, <2>4 DEF TriageStep, LoopStep
<1>8. CASE \E o \in Ids, s \in Triage!Statuses : stack' = [stack EXCEPT !.alert[o] = s]
             /\ moved' = moved \cup {o}
  <2>1. PICK o \in Ids, s \in Triage!Statuses : stack' = [stack EXCEPT !.alert[o] = s]
               /\ moved' = moved \cup {o}
    BY <1>8
  <2>2. stack' \in Triage!StackType
    BY <1>5, <2>1 DEF Triage!StackType, Triage!Statuses, Triage!Target, Triage!Absent
  <2>3. Bounds'
    BY <1>1, <1>5, <2>1, CommandAssumption DEF Bounds, CommandAssumption
  <2>4. TriageInv'
    <3>1. PostsBounded'
      <4>1. \A x \in Ids : stack.posts[x] \in Nat /\ stack'.posts[x] = stack.posts[x]
        BY <1>5, <2>1 DEF Triage!StackType
      <4>2. faults \in Nat /\ MaxFaults \in Nat /\ PostsBounded
        BY <1>5, CommandAssumption DEF Bounds, CommandAssumption, TriageInv
      <4> QED BY <1>1, <4>1, <4>2, PostsKept
    <3>2. stack'.case = stack.case /\ cmd.targets \subseteq Ids
      <4>1. cmd.targets \subseteq Ids
        BY DEF IInv, CmdOK, OpOK
      <4> QED BY <1>5, <2>1, <4>1 DEF Triage!StackType
    <3>3. \A x \in Ids : x # o => stack'.alert[x] = stack.alert[x]
      BY <1>5, <2>1 DEF Triage!StackType
    <3>4. pc' = "check" /\ cmd.op \in {"alert_status", "alert_tags", "alert_assign"} =>
            \A x \in cmd.targets : plan'.before[x] = stack'.alert[x] \/ Excused(x, {x})'
      BY <1>1, <1>5, <2>1, <3>2, <3>3 DEF TriageInv, Excused, Unanswers
    <3> QED BY <1>1, <1>5, <3>1, <3>2, <3>4 DEF TriageInv, CaseSeen
  <2> QED BY <1>1, <1>3, <1>4, <2>2, <2>3, <2>4 DEF TriageStep, LoopStep
<1> QED BY <1>2, <1>6, <1>7, <1>8

-----------------------------------------------------------------------------
(* Reads.                                                                    *)

\* What every step of a read does.
ReadsStep ==
    /\ LoopStep /\ stack' \in PagedReads!StackType /\ Bounds' /\ PlanOK'
    /\ WritesWhatWasShown' /\ ReadsInv'

\* A read goes on: it writes and reports nothing, and what the stack holds for
\* it is held only while the read is at it.
LEMMA ReadsOn ==
    ASSUME IInv, cmd.family = "reads", Planning, Planning' \/ Ended',
           UNCHANGED <<cmd, todo, rows, writes, edits>>, moved' = moved,
           faults' = faults \/ (faults > 0 /\ faults' = faults - 1),
           stack' \in PagedReads!StackType, "lost" \in DOMAIN plan',
           stack'.open => pc' \in {"pit", "poll", "close"} \/ (Ended' /\ plan'.lost)
    PROVE  ReadsStep
<1>1. PlansOn
  BY DEF PlansOn, IInv, LoopInv, TodoOK
<1>2. Bounds'
  BY BoundsKept, CommandAssumption DEF IInv, TypeOK, Bounds
<1>3. WritesWhatWasShown' /\ PlanOK'
  BY DEF IInv, WritesWhatWasShown, PlanOK
<1>4. ReadsInv'
  BY DEF ReadsInv
<1> QED BY <1>1, <1>2, <1>3, <1>4 DEF ReadsStep, LoopStep

\* The step PageExceptions of a read.
LEMMA PagedReadsPageExceptions ==
    ASSUME IInv, cmd.family = "reads", PagedReads!PageExceptions
    PROVE  ReadsStep
<1>1. pc \in {"start", "page"} /\ UNCHANGED <<cmd, stack, writes, edits>>
  BY DEF PagedReads!PageExceptions, PagedReads!Requested, PagedReads!Kept
<1>2. /\ faults' = faults \/ (faults > 0 /\ faults' = faults - 1)
      /\ pc' \in {"page", "done", "failed"} /\ UNCHANGED <<todo, rows, moved>>
      /\ DOMAIN plan' = DOMAIN plan
  BY DEF PagedReads!PageExceptions, PagedReads!Read, PagedReads!Result, PagedReads!NextPage,
     PagedReads!Refused, PagedReads!Goto, PagedReads!Fail, PagedReads!Kept
<1>3. stack' \in PagedReads!StackType
  BY <1>1 DEF IInv, TypeOK, StackType
<1>4. "lost" \in DOMAIN plan'
        /\ (stack'.open => pc' \in {"pit", "poll", "close"} \/ (Ended' /\ plan'.lost))
  BY <1>1, <1>2 DEF IInv, ReadsInv, Ended
<1>5. Planning /\ (Planning' \/ Ended')
  BY <1>1, <1>2 DEF Planning, Ended
<1> QED BY <1>1, <1>2, <1>3, <1>4, <1>5, ReadsOn

\* The step PageChecked of a read.
LEMMA PagedReadsPageChecked ==
    ASSUME IInv, cmd.family = "reads", PagedReads!PageChecked
    PROVE  ReadsStep
<1>1. pc \in {"start", "page"} /\ UNCHANGED <<cmd, stack, writes, edits>>
  BY DEF PagedReads!PageChecked, PagedReads!Requested, PagedReads!Kept
<1>2. /\ faults' = faults \/ (faults > 0 /\ faults' = faults - 1)
      /\ pc' \in {"page", "done", "failed"} /\ UNCHANGED <<todo, rows, moved>>
      /\ DOMAIN plan' = DOMAIN plan
  BY DEF PagedReads!PageChecked, PagedReads!Read, PagedReads!Result, PagedReads!Refused,
     PagedReads!Goto, PagedReads!Fail, PagedReads!Kept
<1>3. stack' \in PagedReads!StackType
  BY <1>1 DEF IInv, TypeOK, StackType
<1>4. "lost" \in DOMAIN plan'
        /\ (stack'.open => pc' \in {"pit", "poll", "close"} \/ (Ended' /\ plan'.lost))
  BY <1>1, <1>2 DEF IInv, ReadsInv, Ended
<1>5. Planning /\ (Planning' \/ Ended')
  BY <1>1, <1>2 DEF Planning, Ended
<1> QED BY <1>1, <1>2, <1>3, <1>4, <1>5, ReadsOn

\* The step PageUntilShort of a read.
LEMMA PagedReadsPageUntilShort ==
    ASSUME IInv, cmd.family = "reads", PagedReads!PageUntilShort
    PROVE  ReadsStep
<1>1. pc \in {"start", "page"} /\ UNCHANGED <<cmd, stack, writes, edits>>
  BY DEF PagedReads!PageUntilShort, PagedReads!Requested, PagedReads!Kept
<1>2. /\ faults' = faults \/ (faults > 0 /\ faults' = faults - 1)
      /\ pc' \in {"page", "done", "failed"} /\ UNCHANGED <<todo, rows, moved>>
      /\ DOMAIN plan' = DOMAIN plan
  BY DEF PagedReads!PageUntilShort, PagedReads!Read, PagedReads!Result, PagedReads!NextPage,
     PagedReads!Cut, PagedReads!Refused, PagedReads!Goto, PagedReads!Fail, PagedReads!Kept
<1>3. stack' \in PagedReads!StackType
  BY <1>1 DEF IInv, TypeOK, StackType
<1>4. "lost" \in DOMAIN plan'
        /\ (stack'.open => pc' \in {"pit", "poll", "close"} \/ (Ended' /\ plan'.lost))
  BY <1>1, <1>2 DEF IInv, ReadsInv, Ended
<1>5. Planning /\ (Planning' \/ Ended')
  BY <1>1, <1>2 DEF Planning, Ended
<1> QED BY <1>1, <1>2, <1>3, <1>4, <1>5, ReadsOn

\* The step OpenPit of a read.
LEMMA PagedReadsOpenPit ==
    ASSUME IInv, cmd.family = "reads", PagedReads!OpenPit
    PROVE  ReadsStep
<1>1. pc = "start" /\ UNCHANGED <<cmd, moved, writes, edits>>
  BY DEF PagedReads!OpenPit
<1>2. /\ faults' = faults \/ (faults > 0 /\ faults' = faults - 1)
      /\ pc' \in {"pit", "failed"} /\ UNCHANGED <<todo, rows>>
      /\ DOMAIN plan' = DOMAIN plan
  BY DEF PagedReads!OpenPit, PagedReads!Opens, PagedReads!Goto, PagedReads!Fail
<1>3. stack' \in PagedReads!StackType
  <2>1. stack \in PagedReads!StackType
    BY DEF IInv, TypeOK, StackType
  <2> QED BY <2>1 DEF PagedReads!OpenPit, PagedReads!Opens, PagedReads!StackType
<1>4. "lost" \in DOMAIN plan'
        /\ (stack'.open => pc' \in {"pit", "poll", "close"} \/ (Ended' /\ plan'.lost))
  <2>1. "lost" \in DOMAIN plan /\ stack \in PagedReads!StackType
    BY DEF IInv, TypeOK, StackType, ReadsInv
  <2>2. pc' = "pit" \/ (pc' = "failed" /\ plan'.lost)
    BY <2>1 DEF PagedReads!OpenPit, PagedReads!Opens, PagedReads!Goto, PagedReads!Fail,
       PagedReads!StackType
  <2> QED BY <1>1, <1>2, <2>1, <2>2 DEF Ended
<1>5. Planning /\ (Planning' \/ Ended')
  BY <1>1, <1>2 DEF Planning, Ended
<1> QED BY <1>1, <1>2, <1>3, <1>4, <1>5, ReadsOn

\* The step PagePit of a read.
LEMMA PagedReadsPagePit ==
    ASSUME IInv, cmd.family = "reads", PagedReads!PagePit
    PROVE  ReadsStep
<1>1. pc = "pit" /\ UNCHANGED <<cmd, stack, writes, edits>>
  BY DEF PagedReads!PagePit, PagedReads!Kept
<1>2. /\ faults' = faults \/ (faults > 0 /\ faults' = faults - 1)
      /\ pc' \in {"pit", "close"} /\ UNCHANGED <<todo, rows, moved>>
      /\ DOMAIN plan' = DOMAIN plan
  BY DEF PagedReads!PagePit, PagedReads!Read, PagedReads!Cut, PagedReads!Goto, PagedReads!Kept
<1>3. stack' \in PagedReads!StackType
  BY <1>1 DEF IInv, TypeOK, StackType
<1>4. "lost" \in DOMAIN plan'
        /\ (stack'.open => pc' \in {"pit", "poll", "close"} \/ (Ended' /\ plan'.lost))
  BY <1>1, <1>2 DEF IInv, ReadsInv, Ended
<1>5. Planning /\ (Planning' \/ Ended')
  BY <1>1, <1>2 DEF Planning, Ended
<1> QED BY <1>1, <1>2, <1>3, <1>4, <1>5, ReadsOn

\* The step Close of a read.
LEMMA PagedReadsClose ==
    ASSUME IInv, cmd.family = "reads", PagedReads!Close
    PROVE  ReadsStep
<1>1. pc = "close" /\ UNCHANGED <<cmd, moved, writes, edits>>
  BY DEF PagedReads!Close
<1>2. /\ faults' = faults \/ (faults > 0 /\ faults' = faults - 1)
      /\ pc' \in {"done", "failed"} /\ UNCHANGED <<todo, rows>>
      /\ DOMAIN plan' = DOMAIN plan
  BY DEF PagedReads!Close, PagedReads!Opens, PagedReads!Goto
<1>3. stack' \in PagedReads!StackType
  <2>1. stack \in PagedReads!StackType
    BY DEF IInv, TypeOK, StackType
  <2> QED BY <2>1 DEF PagedReads!Close, PagedReads!Opens, PagedReads!StackType
<1>4. "lost" \in DOMAIN plan'
        /\ (stack'.open => pc' \in {"pit", "poll", "close"} \/ (Ended' /\ plan'.lost))
  <2>1. "lost" \in DOMAIN plan /\ stack \in PagedReads!StackType
    BY DEF IInv, TypeOK, StackType, ReadsInv
  <2>2. stack'.open = FALSE \/ plan'.lost
    BY <2>1 DEF PagedReads!Close, PagedReads!Opens, PagedReads!Goto, PagedReads!StackType
  <2> QED BY <1>1, <1>2, <2>1, <2>2 DEF Ended
<1>5. Planning /\ (Planning' \/ Ended')
  BY <1>1, <1>2 DEF Planning, Ended
<1> QED BY <1>1, <1>2, <1>3, <1>4, <1>5, ReadsOn

\* The step ReadRules of a read.
LEMMA PagedReadsReadRules ==
    ASSUME IInv, cmd.family = "reads", PagedReads!ReadRules
    PROVE  ReadsStep
<1>1. pc = "start" /\ UNCHANGED <<cmd, stack, writes, edits>>
  BY DEF PagedReads!ReadRules, PagedReads!Requested, PagedReads!Kept
<1>2. /\ faults' = faults \/ (faults > 0 /\ faults' = faults - 1)
      /\ pc' \in {"page", "done", "failed"} /\ UNCHANGED <<todo, rows, moved>>
      /\ DOMAIN plan' = DOMAIN plan
  BY DEF PagedReads!ReadRules, PagedReads!Read, PagedReads!Refused,
     PagedReads!Goto, PagedReads!Fail, PagedReads!Kept
<1>3. stack' \in PagedReads!StackType
  BY <1>1 DEF IInv, TypeOK, StackType
<1>4. "lost" \in DOMAIN plan'
        /\ (stack'.open => pc' \in {"pit", "poll", "close"} \/ (Ended' /\ plan'.lost))
  BY <1>1, <1>2 DEF IInv, ReadsInv, Ended
<1>5. Planning /\ (Planning' \/ Ended')
  BY <1>1, <1>2 DEF Planning, Ended
<1> QED BY <1>1, <1>2, <1>3, <1>4, <1>5, ReadsOn

\* The step ReadSlice of a read.
LEMMA PagedReadsReadSlice ==
    ASSUME IInv, cmd.family = "reads", PagedReads!ReadSlice
    PROVE  ReadsStep
<1>1. pc = "page" /\ UNCHANGED <<cmd, stack, writes, edits>>
  BY DEF PagedReads!ReadSlice, PagedReads!Requested, PagedReads!Kept
<1>2. /\ faults' = faults \/ (faults > 0 /\ faults' = faults - 1)
      /\ pc' \in {"page", "done", "failed"} /\ UNCHANGED <<todo, rows, moved>>
      /\ DOMAIN plan' = DOMAIN plan
  BY DEF PagedReads!ReadSlice, PagedReads!Read, PagedReads!Result, PagedReads!Refused,
     PagedReads!Goto, PagedReads!Fail, PagedReads!Kept
<1>3. stack' \in PagedReads!StackType
  BY <1>1 DEF IInv, TypeOK, StackType
<1>4. "lost" \in DOMAIN plan'
        /\ (stack'.open => pc' \in {"pit", "poll", "close"} \/ (Ended' /\ plan'.lost))
  BY <1>1, <1>2 DEF IInv, ReadsInv, Ended
<1>5. Planning /\ (Planning' \/ Ended')
  BY <1>1, <1>2 DEF Planning, Ended
<1> QED BY <1>1, <1>2, <1>3, <1>4, <1>5, ReadsOn

\* The step StartQuery of a read.
LEMMA PagedReadsStartQuery ==
    ASSUME IInv, cmd.family = "reads", PagedReads!StartQuery
    PROVE  ReadsStep
<1>1. pc = "start" /\ UNCHANGED <<cmd, moved, writes, edits>>
  BY DEF PagedReads!StartQuery
<1>2. /\ faults' = faults \/ (faults > 0 /\ faults' = faults - 1)
      /\ pc' \in {"poll", "close", "done", "failed"} /\ UNCHANGED <<todo, rows>>
      /\ DOMAIN plan' = DOMAIN plan
  BY DEF PagedReads!StartQuery, PagedReads!Opens, PagedReads!Goto, PagedReads!Fail
<1>3. stack' \in PagedReads!StackType
  <2>1. stack \in PagedReads!StackType
    BY DEF IInv, TypeOK, StackType
  <2> QED BY <2>1 DEF PagedReads!StartQuery, PagedReads!Opens, PagedReads!StackType
<1>4. "lost" \in DOMAIN plan'
        /\ (stack'.open => pc' \in {"pit", "poll", "close"} \/ (Ended' /\ plan'.lost))
  <2>1. "lost" \in DOMAIN plan /\ stack \in PagedReads!StackType /\ ~stack.open
    BY <1>1 DEF IInv, TypeOK, StackType, ReadsInv, Ended
  <2>2. \/ pc' \in {"poll", "close"}
        \/ pc' = "failed" /\ plan'.lost
        \/ pc' = "done" /\ stack' = stack
    BY <2>1 DEF PagedReads!StartQuery, PagedReads!Opens, PagedReads!Goto, PagedReads!Fail
  <2> QED BY <1>1, <1>2, <2>1, <2>2 DEF Ended
<1>5. Planning /\ (Planning' \/ Ended')
  BY <1>1, <1>2 DEF Planning, Ended
<1> QED BY <1>1, <1>2, <1>3, <1>4, <1>5, ReadsOn

\* The step Poll of a read.
LEMMA PagedReadsPoll ==
    ASSUME IInv, cmd.family = "reads", PagedReads!Poll
    PROVE  ReadsStep
<1>1. pc = "poll" /\ UNCHANGED <<cmd, stack, writes, edits>>
  BY DEF PagedReads!Poll, PagedReads!Kept
<1>2. /\ faults' = faults \/ (faults > 0 /\ faults' = faults - 1)
      /\ pc' \in {"poll", "close"} /\ UNCHANGED <<todo, rows, moved>>
      /\ DOMAIN plan' = DOMAIN plan
  BY DEF PagedReads!Poll, PagedReads!Read, PagedReads!Goto, PagedReads!Kept
<1>3. stack' \in PagedReads!StackType
  BY <1>1 DEF IInv, TypeOK, StackType
<1>4. "lost" \in DOMAIN plan'
        /\ (stack'.open => pc' \in {"pit", "poll", "close"} \/ (Ended' /\ plan'.lost))
  BY <1>1, <1>2 DEF IInv, ReadsInv, Ended
<1>5. Planning /\ (Planning' \/ Ended')
  BY <1>1, <1>2 DEF Planning, Ended
<1> QED BY <1>1, <1>2, <1>3, <1>4, <1>5, ReadsOn

\* Another client at work during a read.
LEMMA PagedReadsOthersEdit ==
    ASSUME IInv, cmd.family = "reads", PagedReads!OthersEdit
    PROVE  ReadsStep
<1>1. PICK d \in PagedReads!Docs :
        PagedReads!OthersCreate(d) \/ PagedReads!OthersDelete(d) \/ PagedReads!OthersSwitch(d)
  BY DEF PagedReads!OthersEdit
<1>2. stack \in PagedReads!StackType /\ Bounds /\ ReadsInv
  BY DEF IInv, TypeOK, StackType, Bounds
<1>3. /\ ~Ended /\ edits > 0 /\ edits' = edits - 1
      /\ UNCHANGED <<cmd, pc, todo, plan, writes, rows, faults>>
      /\ moved' = moved \cup {d} \/ moved' = moved
  <2>1. CASE PagedReads!OthersCreate(d)
    BY <2>1 DEF PagedReads!OthersCreate, PagedReads!Edit, PagedReads!Ended, Ended
  <2>2. CASE PagedReads!OthersDelete(d)
    BY <2>2 DEF PagedReads!OthersDelete, PagedReads!Edit, PagedReads!Ended, Ended
  <2>3. CASE PagedReads!OthersSwitch(d)
    BY <2>3 DEF PagedReads!OthersSwitch, PagedReads!Edit, PagedReads!Ended, Ended
  <2> QED BY <1>1, <2>1, <2>2, <2>3
<1>4. stack' \in PagedReads!StackType /\ stack'.open = stack.open
  <2>1. CASE PagedReads!OthersCreate(d)
    <3>1. \/ stack' = [stack EXCEPT !.docs = @ \cup {d}, !.on = @ \cup {}]
          \/ stack' = [stack EXCEPT !.docs = @ \cup {d}, !.on = @ \cup {d}]
      BY <2>1, Zenon DEF PagedReads!OthersCreate, PagedReads!Edit
    <3>2. PICK on : /\ on \in SUBSET PagedReads!Docs
                    /\ stack' = [stack EXCEPT !.docs = @ \cup {d}, !.on = on]
      <4>1. /\ stack.on \cup {} \in SUBSET PagedReads!Docs
            /\ stack.on \cup {d} \in SUBSET PagedReads!Docs
        BY <1>2 DEF PagedReads!StackType
      <4> QED BY <3>1, <4>1
    <3> QED BY <1>2, <3>2 DEF PagedReads!StackType
  <2>2. CASE PagedReads!OthersDelete(d)
    <3>1. stack' = [stack EXCEPT !.docs = @ \ {d}, !.on = @ \ {d}]
      BY <2>2 DEF PagedReads!OthersDelete, PagedReads!Edit
    <3> QED BY <1>2, <3>1 DEF PagedReads!StackType
  <2>3. CASE PagedReads!OthersSwitch(d)
    <3> DEFINE now == IF d \in stack.on THEN stack.on \ {d} ELSE stack.on \cup {d}
    <3>1. stack' = [stack EXCEPT !.on = now, !.flipped = @ \cup {d}]
      BY <2>3 DEF PagedReads!OthersSwitch, PagedReads!Edit
    <3>2. now \in SUBSET PagedReads!Docs
      BY <1>2 DEF PagedReads!StackType
    <3> HIDE DEF now
    <3> QED BY <1>2, <3>1, <3>2 DEF PagedReads!StackType
  <2> QED BY <1>1, <2>1, <2>2, <2>3
<1>5. Bounds'
  <2>1. edits' \in 0..MaxEdits /\ faults' \in 0..MaxFaults
    BY <1>2, <1>3, CommandAssumption DEF Bounds, CommandAssumption
  <2>2. moved' \subseteq Ids \cup {0} \cup PagedReads!Docs
    BY <1>2, <1>3 DEF Bounds
  <2> QED BY <2>1, <2>2 DEF Bounds
<1>6. ReadsInv'
  BY <1>2, <1>3, <1>4 DEF ReadsInv, Ended
<1>7. WritesWhatWasShown' /\ PlanOK' /\ Watches
  BY <1>3 DEF IInv, WritesWhatWasShown, PlanOK, Watches
<1> QED BY <1>3, <1>4, <1>5, <1>6, <1>7 DEF ReadsStep, LoopStep

-----------------------------------------------------------------------------
(* Every command.                                                            *)

\* What the kinds of steps keep, whatever the command is about.
LEMMA StepKeeps ==
    ASSUME IInv, LoopStep, StackType', Bounds'
    PROVE  CmdOK' /\ OpOK' /\ TypeOK' /\ LoopInv'
<1>1. cmd' = cmd
  BY DEF LoopStep
<1>2. CmdOK' /\ OpOK'
  BY <1>1 DEF IInv, CmdOK, OpOK
<1>3. LoopInv'
  BY LoopStepKeeps DEF IInv
<1>4. Range(todo') \subseteq Ids
  <2>1. todo' \in Seq(Ids)
    BY <1>3 DEF LoopInv, TodoOK
  <2> QED BY <2>1 DEF Range
<1>5. Touchable' \subseteq Ids \cup {0}
  BY <1>2 DEF CmdOK, Touchable
<1>6. TypeOK'
  BY <1>3, <1>4, <1>5 DEF TypeOK, Bounds, LoopInv, RowsOK, WithinTargets
<1> QED BY <1>2, <1>3, <1>6

\* Every step of a data view command is a step of the loop and keeps the invariant.
LEMMA DataViewsNextKeeps ==
    ASSUME IInv, cmd.family = "data_views", DataViews!Next
    PROVE  LoopStep /\ IInv'
<1>1. DataViewsStep
  BY DataViewsPreviewOffline, DataViewsBeginImport, DataViewsPreflight, DataViewsPlanImport,
     DataViewsCheckImport, DataViewsCreate, DataViewsUpdateBase, DataViewsUpdateMeta,
     DataViewsVerify, DataViewsResolveDelete, DataViewsReadDefault, DataViewsReadReferences,
     DataViewsPlanDelete, DataViewsCheckReferences, DataViewsCheckDefault, DataViewsDelete,
     DataViewsSwap, DataViewsRereadDefault, DataViewsMoveDefault, DataViewsResolveDefault,
     DataViewsPlanDefault, DataViewsApplyDefault, DataViewsSetDefault, DataViewsOthersEdit DEF
     DataViews!Next
<1>2. LoopStep /\ cmd' = cmd
  BY <1>1 DEF DataViewsStep, LoopStep
<1>3. StackType'
  BY <1>1, <1>2 DEF DataViewsStep, StackType
<1>4. CmdOK' /\ OpOK' /\ TypeOK' /\ LoopInv'
  BY <1>1, <1>2, <1>3, StepKeeps DEF DataViewsStep
<1>5. PlanOK' /\ WritesWhatWasShown' /\ DataViewsInv'
  BY <1>1 DEF DataViewsStep
<1>6. DashboardsInv' /\ AgentPoliciesInv' /\ TriageInv' /\ DetectionInv' /\ ReadsInv'
  BY <1>2 DEF DashboardsInv, AgentPoliciesInv, TriageInv, DetectionInv, ReadsInv
<1> QED BY <1>2, <1>4, <1>5, <1>6 DEF IInv

\* Every step of a dashboard command is a step of the loop and keeps the invariant.
LEMMA DashboardsNextKeeps ==
    ASSUME IInv, cmd.family = "dashboards", Dashboards!Next
    PROVE  LoopStep /\ IInv'
<1>1. DashboardsStep
  BY DashboardsBeginImport, DashboardsPreflight, DashboardsPreflightViews,
     DashboardsPlanImport, DashboardsCheckImport, DashboardsPut, DashboardsAudit,
     DashboardsBeginDelete, DashboardsResolve, DashboardsPlanDelete, DashboardsDelete,
     DashboardsPlanBundle, DashboardsImportBundle, DashboardsOthersEdit DEF Dashboards!Next
<1>2. LoopStep /\ cmd' = cmd
  BY <1>1 DEF DashboardsStep, LoopStep
<1>3. StackType'
  BY <1>1, <1>2 DEF DashboardsStep, StackType
<1>4. CmdOK' /\ OpOK' /\ TypeOK' /\ LoopInv'
  BY <1>1, <1>2, <1>3, StepKeeps DEF DashboardsStep
<1>5. PlanOK' /\ WritesWhatWasShown' /\ DashboardsInv'
  BY <1>1 DEF DashboardsStep
<1>6. DataViewsInv' /\ AgentPoliciesInv' /\ TriageInv' /\ DetectionInv' /\ ReadsInv'
  BY <1>2 DEF DataViewsInv, AgentPoliciesInv, TriageInv, DetectionInv, ReadsInv
<1> QED BY <1>2, <1>4, <1>5, <1>6 DEF IInv

\* Every step of an agent policy command is a step of the loop and keeps the invariant.
LEMMA AgentPoliciesNextKeeps ==
    ASSUME IInv, cmd.family = "agent_policies", AgentPolicies!Next
    PROVE  LoopStep /\ IInv'
<1>1. AgentPoliciesStep
  BY AgentPoliciesBeginImport, AgentPoliciesPreflight, AgentPoliciesPlanNames,
     AgentPoliciesPlanPackage, AgentPoliciesCheckPolicy, AgentPoliciesCheckPackage,
     AgentPoliciesCheckName, AgentPoliciesCreate, AgentPoliciesUpdate, AgentPoliciesVerify,
     AgentPoliciesObserve, AgentPoliciesReportRow, AgentPoliciesBeginDelete,
     AgentPoliciesResolve, AgentPoliciesPlanDelete, AgentPoliciesDelete,
     AgentPoliciesOthersEdit DEF AgentPolicies!Next
<1>2. LoopStep /\ cmd' = cmd
  BY <1>1 DEF AgentPoliciesStep, LoopStep
<1>3. StackType'
  BY <1>1, <1>2 DEF AgentPoliciesStep, StackType
<1>4. CmdOK' /\ OpOK' /\ TypeOK' /\ LoopInv'
  BY <1>1, <1>2, <1>3, StepKeeps DEF AgentPoliciesStep
<1>5. PlanOK' /\ WritesWhatWasShown' /\ AgentPoliciesInv'
  BY <1>1 DEF AgentPoliciesStep
<1>6. DataViewsInv' /\ DashboardsInv' /\ TriageInv' /\ DetectionInv' /\ ReadsInv'
  BY <1>2 DEF DataViewsInv, DashboardsInv, TriageInv, DetectionInv, ReadsInv
<1> QED BY <1>2, <1>4, <1>5, <1>6 DEF IInv

\* Every step of a case or alert command is a step of the loop and keeps the invariant.
LEMMA TriageNextKeeps ==
    ASSUME IInv, cmd.family = "triage", Triage!Next
    PROVE  LoopStep /\ IInv'
<1>1. TriageStep
  BY TriageBeginCases, TriageResolveCase, TriagePlanCases, TriagePatch, TriageDeleteCases,
     TriageResolveSubject, TriageGroupAlerts, TriagePost, TriageResolveUsers,
     TriageResolveAlerts, TriageSampleQuery, TriageUpdateAlerts, TriageOthersEdit DEF
     Triage!Next
<1>2. LoopStep /\ cmd' = cmd
  BY <1>1 DEF TriageStep, LoopStep
<1>3. StackType'
  BY <1>1, <1>2 DEF TriageStep, StackType
<1>4. CmdOK' /\ OpOK' /\ TypeOK' /\ LoopInv'
  BY <1>1, <1>2, <1>3, StepKeeps DEF TriageStep
<1>5. PlanOK' /\ WritesWhatWasShown' /\ TriageInv'
  BY <1>1 DEF TriageStep
<1>6. DataViewsInv' /\ DashboardsInv' /\ AgentPoliciesInv' /\ DetectionInv' /\ ReadsInv'
  BY <1>2 DEF DataViewsInv, DashboardsInv, AgentPoliciesInv, DetectionInv, ReadsInv
<1> QED BY <1>2, <1>4, <1>5, <1>6 DEF IInv

\* Every step of a detection command is a step of the loop and keeps the invariant.
LEMMA DetectionNextKeeps ==
    ASSUME IInv, cmd.family = "detection", Detection!Next
    PROVE  LoopStep /\ IInv'
<1>1. DetectionStep
  BY DetectionBeginSelected, DetectionResolveRule, DetectionPlanSelected,
     DetectionSetEnabled, DetectionDeleteRule, DetectionPlanImport, DetectionGuardImport,
     DetectionUpload, DetectionBeginDeleteLists, DetectionResolveList,
     DetectionPlanDeleteLists, DetectionDeleteList, DetectionPlanPrebuilt,
     DetectionInstallPrebuilt, DetectionOthersEdit DEF Detection!Next
<1>2. LoopStep /\ cmd' = cmd
  BY <1>1 DEF DetectionStep, LoopStep
<1>3. StackType'
  BY <1>1, <1>2 DEF DetectionStep, StackType
<1>4. CmdOK' /\ OpOK' /\ TypeOK' /\ LoopInv'
  BY <1>1, <1>2, <1>3, StepKeeps DEF DetectionStep
<1>5. PlanOK' /\ WritesWhatWasShown' /\ DetectionInv'
  BY <1>1 DEF DetectionStep
<1>6. DataViewsInv' /\ DashboardsInv' /\ AgentPoliciesInv' /\ TriageInv' /\ ReadsInv'
  BY <1>2 DEF DataViewsInv, DashboardsInv, AgentPoliciesInv, TriageInv, ReadsInv
<1> QED BY <1>2, <1>4, <1>5, <1>6 DEF IInv

\* Every step of a read is a step of the loop and keeps the invariant.
LEMMA PagedReadsNextKeeps ==
    ASSUME IInv, cmd.family = "reads", PagedReads!Next
    PROVE  LoopStep /\ IInv'
<1>1. ReadsStep
  BY PagedReadsPageExceptions, PagedReadsPageChecked, PagedReadsPageUntilShort,
     PagedReadsOpenPit, PagedReadsPagePit, PagedReadsClose, PagedReadsReadRules,
     PagedReadsReadSlice, PagedReadsStartQuery, PagedReadsPoll, PagedReadsOthersEdit DEF
     PagedReads!Next
<1>2. LoopStep /\ cmd' = cmd
  BY <1>1 DEF ReadsStep, LoopStep
<1>3. StackType'
  BY <1>1, <1>2 DEF ReadsStep, StackType
<1>4. CmdOK' /\ OpOK' /\ TypeOK' /\ LoopInv'
  BY <1>1, <1>2, <1>3, StepKeeps DEF ReadsStep
<1>5. PlanOK' /\ WritesWhatWasShown' /\ ReadsInv'
  BY <1>1 DEF ReadsStep
<1>6. DataViewsInv' /\ DashboardsInv' /\ AgentPoliciesInv' /\ TriageInv' /\ DetectionInv'
  BY <1>2 DEF DataViewsInv, DashboardsInv, AgentPoliciesInv, TriageInv, DetectionInv
<1> QED BY <1>2, <1>4, <1>5, <1>6 DEF IInv

\* A step that changes nothing keeps the invariant.
LEMMA StutterKeeps == IInv /\ UNCHANGED vars => IInv'
<1> SUFFICES ASSUME IInv, UNCHANGED vars PROVE IInv'
    OBVIOUS
<1>1. UNCHANGED <<cmd, pc, todo, plan, stack, moved, writes, rows, faults, edits>>
  BY DEF vars
<1>2. CmdOK' /\ OpOK' /\ PlanOK'
  BY <1>1 DEF IInv, CmdOK, OpOK, PlanOK
<1>3. /\ Planning' = Planning /\ Ended' = Ended /\ Wholesale' = Wholesale /\ Bulk' = Bulk
      /\ AfterWrite' = AfterWrite /\ Looping' = Looping /\ Touchable' = Touchable
  BY <1>1 DEF Planning, Ended, Wholesale, Bulk, AfterWrite, Looping, Touchable
<1>4. QuietPlanning' /\ BulkIsFirst' /\ OnlyConfirmed' /\ HeadWritten'
  BY <1>1, <1>3 DEF IInv, LoopInv, QuietPlanning, BulkIsFirst, OnlyConfirmed, HeadWritten
<1>5. RowsOK' /\ WithinTargets' /\ ClaimsHaveWrites' /\ TodoOK'
  BY <1>1, <1>3 DEF IInv, LoopInv, RowsOK, WithinTargets, ClaimsHaveWrites, TodoOK,
     SaysUntouched
<1>6. AnswersReported' /\ UntouchedIsUntouched'
  BY <1>1, <1>3 DEF IInv, LoopInv, AnswersReported, UntouchedIsUntouched, SaysUntouched
<1>7. TypeOK' /\ WritesWhatWasShown'
  <2>1. StackType'
    BY <1>1 DEF IInv, TypeOK, StackType
  <2> QED BY <1>1, <2>1 DEF IInv, TypeOK, WritesWhatWasShown
<1>8. DataViewsInv'
  BY <1>1 DEF IInv, DataViewsInv, Excused, Unanswers
<1>9. DashboardsInv'
  BY <1>1 DEF IInv, DashboardsInv, Excused, Unanswers
<1>10. AgentPoliciesInv'
  BY <1>1 DEF IInv, AgentPoliciesInv, Excused, Unanswers, AgentPolicies!CanInstall
<1>11. TriageInv'
  <2>1. PostsBounded' = PostsBounded
    BY <1>1, <1>3 DEF PostsBounded
  <2>2. \A o : CaseSeen(o)' = CaseSeen(o)
    BY <1>1 DEF CaseSeen
  <2> QED BY <1>1, <2>1, <2>2 DEF IInv, TriageInv, Excused, Unanswers
<1>12. DetectionInv'
  BY <1>1 DEF IInv, DetectionInv, RuleSeen, Excused, Unanswers
<1>13. ReadsInv'
  BY <1>1, <1>3 DEF IInv, ReadsInv
<1> QED BY <1>2, <1>4, <1>5, <1>6, <1>7, <1>8, <1>9, <1>10, <1>11, <1>12, <1>13 DEF IInv,
       LoopInv

\* A run begins with nothing written, nothing reported and no loop under way.
LEMMA StartKeeps ==
    ASSUME Begins, CmdOK, OpOK, StackType, CommandAssumption
    PROVE  TypeOK /\ LoopInv /\ WritesWhatWasShown /\ Planning /\ ~Ended
<1>1. /\ pc = "start" /\ todo = <<>> /\ rows = {} /\ writes = {} /\ moved = {}
      /\ faults = MaxFaults /\ edits = MaxEdits
  BY DEF Begins
<1>2. Planning /\ ~Ended /\ ~Looping /\ ~Bulk /\ ~AfterWrite
  BY <1>1 DEF Planning, Ended, Looping, Bulk, AfterWrite
<1>3. TypeOK
  BY <1>1 DEF TypeOK, Range, CommandAssumption
<1>4. TodoOK
  BY <1>1, <1>2 DEF TodoOK
<1>5. LoopInv
  BY <1>1, <1>2, <1>4 DEF LoopInv, RowsOK, QuietPlanning, OnlyConfirmed, BulkIsFirst,
     WithinTargets, ClaimsHaveWrites, HeadWritten, AnswersReported, UntouchedIsUntouched
<1> QED BY <1>1, <1>2, <1>3, <1>5 DEF WritesWhatWasShown

\* A data view command starts in the invariant.
LEMMA DataViewsInit ==
    ASSUME DataViews!Init
    PROVE  IInv
<1>1. Begins
  BY DEF DataViews!Init, DataViews!Begins, Begins
<1>2. cmd.family = "data_views" /\ CmdOK /\ OpOK
  <2>1. cmd \in DataViews!Imports \/ cmd \in DataViews!Deletes \/ cmd \in DataViews!Swaps
          \/ cmd \in DataViews!Defaults
    BY DEF DataViews!Init
  <2>2. CASE cmd \in DataViews!Imports
    BY <2>2, CommandAssumption DEF CmdOK, OpOK, DataViews!Imports, DataViews!None
  <2>3. CASE cmd \in DataViews!Deletes
    BY <2>3, CommandAssumption DEF CmdOK, OpOK, DataViews!Deletes, DataViews!None
  <2>4. CASE cmd \in DataViews!Swaps
    BY <2>4, CommandAssumption DEF CmdOK, OpOK, DataViews!Swaps, DataViews!None
  <2>5. CASE cmd \in DataViews!Defaults
    BY <2>5, CommandAssumption DEF CmdOK, OpOK, DataViews!Defaults, DataViews!None
  <2> QED BY <2>1, <2>2, <2>3, <2>4, <2>5
<1>3. StackType
  <2>1. stack \in DataViews!StackType
    BY DEF DataViews!Init, DataViews!StackType, DataViews!Contents, DataViews!Absent,
       DataViews!Desired, DataViews!None
  <2> QED BY <1>2, <2>1 DEF StackType
<1>4. PlanOK
  BY DEF DataViews!Init, PlanOK
<1>5. TypeOK /\ LoopInv /\ WritesWhatWasShown /\ Planning /\ ~Ended /\ pc = "start"
  BY <1>1, <1>2, <1>3, StartKeeps, CommandAssumption DEF Begins
<1>6. DataViewsInv
  BY <1>5 DEF DataViewsInv
<1>7. DashboardsInv /\ AgentPoliciesInv /\ TriageInv /\ DetectionInv /\ ReadsInv
  BY <1>2 DEF DashboardsInv, AgentPoliciesInv, TriageInv, DetectionInv, ReadsInv
<1> QED BY <1>2, <1>4, <1>5, <1>6, <1>7 DEF IInv

\* A dashboard command starts in the invariant.
LEMMA DashboardsInit ==
    ASSUME Dashboards!Init
    PROVE  IInv
<1>1. Begins
  BY DEF Dashboards!Init, Dashboards!Begins, Begins
<1>2. cmd.family = "dashboards" /\ CmdOK /\ OpOK
  <2>1. cmd \in Dashboards!Imports \/ cmd \in Dashboards!Deletes \/ cmd \in Dashboards!Bundles
    BY DEF Dashboards!Init
  <2>2. CASE cmd \in Dashboards!Imports
    BY <2>2, CommandAssumption DEF CmdOK, OpOK, Dashboards!Imports
  <2>3. CASE cmd \in Dashboards!Deletes
    BY <2>3, CommandAssumption DEF CmdOK, OpOK, Dashboards!Deletes
  <2>4. CASE cmd \in Dashboards!Bundles
    BY <2>4, CommandAssumption DEF CmdOK, OpOK, Dashboards!Bundles
  <2> QED BY <2>1, <2>2, <2>3, <2>4
<1>3. StackType
  <2>1. {Dashboards!Absent, Dashboards!Other, Dashboards!Desired}
          \subseteq Dashboards!Absent..Dashboards!Lossy
    BY DEF Dashboards!Absent, Dashboards!Other, Dashboards!Desired, Dashboards!Lossy
  <2>2. stack \in Dashboards!StackType
    BY <2>1 DEF Dashboards!Init, Dashboards!StackType
  <2> QED BY <1>2, <2>2 DEF StackType
<1>4. PlanOK
  BY DEF Dashboards!Init, PlanOK
<1>5. TypeOK /\ LoopInv /\ WritesWhatWasShown /\ Planning /\ ~Ended /\ pc = "start"
  BY <1>1, <1>2, <1>3, StartKeeps, CommandAssumption DEF Begins
<1>6. DashboardsInv
  BY <1>5 DEF DashboardsInv
<1>7. DataViewsInv /\ AgentPoliciesInv /\ TriageInv /\ DetectionInv /\ ReadsInv
  BY <1>2 DEF DataViewsInv, AgentPoliciesInv, TriageInv, DetectionInv, ReadsInv
<1> QED BY <1>2, <1>4, <1>5, <1>6, <1>7 DEF IInv

\* An agent policy command starts in the invariant.
LEMMA AgentPoliciesInit ==
    ASSUME AgentPolicies!Init
    PROVE  IInv
<1>1. Begins
  BY DEF AgentPolicies!Init, AgentPolicies!Begins, Begins
<1>2. cmd.family = "agent_policies" /\ CmdOK /\ OpOK
  <2>1. cmd \in AgentPolicies!Imports \/ cmd \in AgentPolicies!Deletes
    BY DEF AgentPolicies!Init
  <2>2. CASE cmd \in AgentPolicies!Imports
    BY <2>2, CommandAssumption DEF CmdOK, OpOK, AgentPolicies!Imports
  <2>3. CASE cmd \in AgentPolicies!Deletes
    BY <2>3, CommandAssumption DEF CmdOK, OpOK, AgentPolicies!Deletes
  <2> QED BY <2>1, <2>2, <2>3
<1>3. StackType
  <2>1. cmd.targets \in SUBSET Ids /\ cmd.targets # {}
    BY DEF AgentPolicies!Init, AgentPolicies!Imports, AgentPolicies!Deletes
  <2>2. (CHOOSE o \in Ids : TRUE) \in Ids
    BY <2>1
  <2>3. (cmd.op = "delete") \in BOOLEAN
    OBVIOUS
  <2>4. /\ {AgentPolicies!Absent} \cup [spec : {1, AgentPolicies!Desired}, busy : {FALSE}]
             \subseteq AgentPolicies!Policies \cup {AgentPolicies!Absent}
        /\ [spec : {1}, busy : {cmd.op = "delete"}] \subseteq AgentPolicies!Policies
    BY <2>3 DEF AgentPolicies!Policies, AgentPolicies!Desired
  <2>5. stack \in AgentPolicies!StackType
    <3> DEFINE first == {AgentPolicies!Absent}
                 \cup [spec : {1, AgentPolicies!Desired}, busy : {FALSE}]
                            \cup [spec : {1}, busy : {cmd.op = "delete"}]
               choice == CHOOSE o \in Ids : TRUE
    <3>1. stack \in [policy : [Ids -> first], taken : {{}, {choice}}, package : BOOLEAN]
      BY DEF AgentPolicies!Init
    <3>2. first \subseteq AgentPolicies!Policies \cup {AgentPolicies!Absent} /\ choice \in Ids
      BY <2>2, <2>4
    <3> HIDE DEF first, choice
    <3> QED BY <3>1, <3>2 DEF AgentPolicies!StackType
  <2> QED BY <1>2, <2>5 DEF StackType
<1>4. PlanOK
  BY DEF AgentPolicies!Init, AgentPolicies!Idle, PlanOK
<1>5. TypeOK /\ LoopInv /\ WritesWhatWasShown /\ Planning /\ ~Ended /\ pc = "start"
  BY <1>1, <1>2, <1>3, StartKeeps, CommandAssumption DEF Begins
<1>6. AgentPoliciesInv
  BY <1>5 DEF AgentPoliciesInv, AgentPolicies!Init, AgentPolicies!Idle
<1>7. DataViewsInv /\ DashboardsInv /\ TriageInv /\ DetectionInv /\ ReadsInv
  BY <1>2 DEF DataViewsInv, DashboardsInv, TriageInv, DetectionInv, ReadsInv
<1> QED BY <1>2, <1>4, <1>5, <1>6, <1>7 DEF IInv

\* A case or alert command starts in the invariant.
LEMMA TriageInit ==
    ASSUME Triage!Init
    PROVE  IInv
<1>1. Begins
  BY DEF Triage!Init, Triage!Begins, Begins
<1>2. cmd.family = "triage" /\ CmdOK /\ OpOK
  <2>1. cmd \in Triage!CaseEdits \/ cmd \in Triage!Creates \/ cmd \in Triage!Attaches
          \/ cmd \in Triage!AlertOps \/ cmd \in Triage!Queries
    BY DEF Triage!Init
  <2>2. CASE cmd \in Triage!CaseEdits
    BY <2>2, CommandAssumption DEF CmdOK, OpOK, Triage!CaseEdits
  <2>3. CASE cmd \in Triage!Creates
    BY <2>3, CommandAssumption DEF CmdOK, OpOK, Triage!Creates
  <2>4. CASE cmd \in Triage!Attaches
    BY <2>4, CommandAssumption DEF CmdOK, OpOK, Triage!Attaches
  <2>5. CASE cmd \in Triage!AlertOps
    BY <2>5, CommandAssumption DEF CmdOK, OpOK, Triage!AlertOps
  <2>6. CASE cmd \in Triage!Queries
    BY <2>6, CommandAssumption DEF CmdOK, OpOK, Triage!Queries
  <2> QED BY <2>1, <2>2, <2>3, <2>4, <2>5, <2>6
<1>3. StackType
  <2>1. \/ stack \in [case : [Ids -> {Triage!Absent} \cup [status : {1, 2}, version : {1}]],
                     alert : {[o \in Ids |-> 1]}, posts : {[o \in Ids |-> 0]}]
        \/ stack \in [case : {[o \in Ids |-> Triage!Absent]}, alert :
             [Ids -> Triage!Statuses],
                     posts : {[o \in Ids |-> 0]}]
    BY DEF Triage!Init
  <2>2. stack \in Triage!StackType
    BY <2>1, CommandAssumption DEF Triage!StackType, Triage!Statuses, Triage!Absent,
       CommandAssumption
  <2> QED BY <1>2, <2>2 DEF StackType
<1>4. PlanOK
  BY DEF Triage!Init, PlanOK
<1>5. TypeOK /\ LoopInv /\ WritesWhatWasShown /\ Planning /\ ~Ended /\ pc = "start"
  BY <1>1, <1>2, <1>3, StartKeeps, CommandAssumption DEF Begins
<1>6. TriageInv
  <2>1. \A o \in Ids : stack.posts[o] = 0
    BY DEF Triage!Init
  <2>2. PostsBounded
    BY <1>1, <2>1, CommandAssumption DEF Begins, PostsBounded, CommandAssumption
  <2>3. \A o \in Ids : stack.case[o] # Triage!Absent => stack.case[o].version > 0
    <3>1. \/ stack.case \in [Ids -> {Triage!Absent} \cup [status : {1, 2}, version : {1}]]
          \/ stack.case = [o \in Ids |-> Triage!Absent]
      BY DEF Triage!Init
    <3> QED BY <3>1
  <2>4. "lost" \in DOMAIN plan /\ plan.lost = FALSE
    BY DEF Triage!Init
  <2> QED BY <1>5, <2>2, <2>3, <2>4 DEF TriageInv
<1>7. DataViewsInv /\ DashboardsInv /\ AgentPoliciesInv /\ DetectionInv /\ ReadsInv
  BY <1>2 DEF DataViewsInv, DashboardsInv, AgentPoliciesInv, DetectionInv, ReadsInv
<1> QED BY <1>2, <1>4, <1>5, <1>6, <1>7 DEF IInv

\* A detection command starts in the invariant.
LEMMA DetectionInit ==
    ASSUME Detection!Init
    PROVE  IInv
<1>1. Begins
  BY DEF Detection!Init, Detection!Begins, Begins
<1>2. cmd.family = "detection" /\ CmdOK /\ OpOK
  <2>1. \/ cmd \in Detection!Selected \/ cmd \in Detection!Prebuilt
             \/ cmd \in Detection!RuleFiles
        \/ cmd \in Detection!ListFiles \/ cmd \in Detection!ListDeletes
    BY DEF Detection!Init
  <2>2. CASE cmd \in Detection!Selected
    <3>1. PICK op \in {"set_enabled", "delete_rules"}, s \in Detection!Selections :
            cmd = [family |-> "detection", op |-> op, selectors |-> s,
              targets |-> Range(s), yes |-> TRUE]
      BY <2>2 DEF Detection!Selected, Detection!Range, Range
    <3>2. s \in Seq(Ids)
      <4>1. s \in {<<o>> : o \in Ids} \/ s \in {<<o, q>> : o \in Ids, q \in Ids}
        BY <3>1 DEF Detection!Selections
      <4>2. CASE s \in {<<o>> : o \in Ids}
        <5>1. PICK o \in Ids : s = <<o>>
          BY <4>2
        <5> QED BY <5>1
      <4>3. CASE s \in {<<o, q>> : o \in Ids, q \in Ids}
        <5>1. PICK o \in Ids, q \in Ids : s = <<o, q>>
          BY <4>3
        <5> QED BY <5>1
      <4> QED BY <4>1, <4>2, <4>3
    <3>3. Range(s) \subseteq Ids
      BY <3>2 DEF Range
    <3> QED BY <3>1, <3>2, <3>3 DEF CmdOK, OpOK
  <2>3. CASE cmd \in Detection!Prebuilt
    BY <2>3 DEF CmdOK, OpOK, Detection!Prebuilt
  <2>4. CASE cmd \in Detection!RuleFiles
    BY <2>4 DEF CmdOK, OpOK, Detection!RuleFiles
  <2>5. CASE cmd \in Detection!ListFiles
    BY <2>5 DEF CmdOK, OpOK, Detection!ListFiles
  <2>6. CASE cmd \in Detection!ListDeletes
    BY <2>6 DEF CmdOK, OpOK, Detection!ListDeletes
  <2> QED BY <2>1, <2>2, <2>3, <2>4, <2>5, <2>6
<1>3. StackType
  <2>1. stack \in Detection!StackType
    BY DEF Detection!Init, Detection!StackType, Detection!Absent, Detection!Other,
       Detection!Desired
  <2> QED BY <1>2, <2>1 DEF StackType
<1>4. PlanOK
  BY DEF Detection!Init, PlanOK
<1>5. TypeOK /\ LoopInv /\ WritesWhatWasShown /\ Planning /\ ~Ended /\ pc = "start"
  BY <1>1, <1>2, <1>3, StartKeeps, CommandAssumption DEF Begins
<1>6. DetectionInv
  BY <1>5 DEF DetectionInv, Detection!Init
<1>7. DataViewsInv /\ DashboardsInv /\ AgentPoliciesInv /\ TriageInv /\ ReadsInv
  BY <1>2 DEF DataViewsInv, DashboardsInv, AgentPoliciesInv, TriageInv, ReadsInv
<1> QED BY <1>2, <1>4, <1>5, <1>6, <1>7 DEF IInv

\* A read starts in the invariant.
LEMMA PagedReadsInit ==
    ASSUME PagedReads!Init
    PROVE  IInv
<1>1. Begins
  BY DEF PagedReads!Init, PagedReads!Begins, Begins
<1>2. cmd.family = "reads" /\ CmdOK /\ OpOK
  BY DEF PagedReads!Init, PagedReads!Reads, CmdOK, OpOK
<1>3. StackType
  <2>1. stack \in PagedReads!StackType
    BY DEF PagedReads!Init, PagedReads!StackType
  <2> QED BY <1>2, <2>1 DEF StackType
<1>4. PlanOK
  BY <1>2 DEF PlanOK
<1>5. TypeOK /\ LoopInv /\ WritesWhatWasShown /\ Planning /\ ~Ended /\ pc = "start"
  BY <1>1, <1>2, <1>3, StartKeeps, CommandAssumption DEF Begins
<1>6. ReadsInv
  BY DEF PagedReads!Init, ReadsInv
<1>7. DataViewsInv /\ DashboardsInv /\ AgentPoliciesInv /\ TriageInv /\ DetectionInv
  BY <1>2 DEF DataViewsInv, DashboardsInv, AgentPoliciesInv, TriageInv, DetectionInv
<1> QED BY <1>2, <1>4, <1>5, <1>6, <1>7 DEF IInv

\* Every run starts in the invariant.
LEMMA InitIInv == Init => IInv
  BY DataViewsInit, DashboardsInit, AgentPoliciesInit, TriageInit, DetectionInit,
     PagedReadsInit DEF Init

\* Every step of a run is one of the kinds of steps, and keeps the invariant.
LEMMA NextKeeps == IInv /\ Next => LoopStep /\ IInv'
  BY DataViewsNextKeeps, DashboardsNextKeeps, AgentPoliciesNextKeeps, TriageNextKeeps,
     DetectionNextKeeps, PagedReadsNextKeeps DEF Next

\* The inductive invariant holds throughout every run of every guarded command.
THEOREM CommandsInvariant == Spec => []IInv
<1>1. IInv /\ [Next]_vars => IInv'
  BY NextKeeps, StutterKeeps
<1> QED BY InitIInv, <1>1, PTL DEF Spec

\* The variables hold what the commands put there; each row is about an object and
\* each write about an object or the default.
THEOREM CommandsTypeOK == Spec => []TypeOK
<1>1. IInv => TypeOK
  BY DEF IInv
<1> QED BY CommandsInvariant, <1>1, PTL

\* A write reaches an object that is as the preview showed it, unless another client
\* changed it behind the last read, or an unanswered request of the run did.
THEOREM CommandsWriteWhatWasShown == Spec => []WritesWhatWasShown
<1>1. IInv => WritesWhatWasShown
  BY DEF IInv
<1> QED BY CommandsInvariant, <1>1, PTL

\* The report is true: untouched objects have no answered write, applied ones have
\* a write, and a run that exits 0 reports every object an answered write changed.
THEOREM CommandsReportIsTrue == Spec => []ReportIsTrue
<1>1. IInv => ReportIsTrue
  <2> SUFFICES ASSUME IInv PROVE ReportIsTrue
    OBVIOUS
  <2>1. \A r \in rows : /\ SaysUntouched(r) => \A w \in writes : w.id = r.id => ~w.answered
                        /\ r.applied => \E w \in writes : w.id = r.id
    BY DEF IInv, LoopInv, UntouchedIsUntouched, ClaimsHaveWrites
  <2>2. pc = "done" => \A w \in writes : w.answered /\ w.id # 0 => \E r \in rows : r.id = w.id
    BY DEF IInv, LoopInv, AnswersReported, AfterWrite
  <2> QED BY <2>1, <2>2 DEF ReportIsTrue
<1> QED BY CommandsInvariant, <1>1, PTL

\* No point in time and no async query outlives the command, unless the request that
\* opens or closes it went wrong.
THEOREM ReadsLeaveNothingOpen == Spec => []LeavesNothingOpen
<1>1. IInv => LeavesNothingOpen
  BY DEF IInv, ReadsInv, LeavesNothingOpen, Ended
<1> QED BY CommandsInvariant, <1>1, PTL

\* A run begins as a confirmed run does.
LEMMA RunBegins == Init => Run!Init
<1> SUFFICES ASSUME Init PROVE Run!Init
    OBVIOUS
<1>1. IInv
  BY InitIInv
<1>2. pc = "start" /\ rows = {} /\ writes = {}
  BY DEF Init, DataViews!Init, Dashboards!Init, AgentPolicies!Init, Triage!Init,
     Detection!Init, PagedReads!Init, DataViews!Begins, Dashboards!Begins,
     AgentPolicies!Begins, Triage!Begins, Detection!Begins, PagedReads!Begins
<1>3. ~Ended /\ Planning
  BY <1>2 DEF Ended, Planning
<1>4. Touchable \subseteq Ids \cup {0} /\ cmd.yes \in BOOLEAN
  BY <1>1 DEF IInv, CmdOK, Touchable
<1> QED BY <1>2, <1>3, <1>4 DEF Run!Init, Touchable

\* Behind the guard a run changes only what it was asked to, and claims only that.
LEMMA RunApplies ==
    ASSUME IInv, IInv', cmd' = cmd, ~Planning, ~Ended, ~Planning', rows \subseteq rows',
           writes \subseteq writes'
    PROVE  Run!Apply
<1>1. Touchable' = Touchable
  BY DEF Touchable
<1>2. \A w \in writes' : w.id \in Touchable
  BY <1>1 DEF IInv, LoopInv, WithinTargets
<1>3. \A r \in rows' : r.applied => \E w \in writes' : w.id = r.id
  BY DEF IInv, LoopInv, ClaimsHaveWrites
<1>4. {r.id : r \in {x \in rows' : x.applied}} \subseteq {w.id : w \in writes'}
  BY <1>3
<1>5. {w.id : w \in writes'} \subseteq Touchable
  BY <1>2
<1>6. /\ {r.id : r \in {x \in rows : x.applied}}
           \subseteq {r.id : r \in {x \in rows' : x.applied}}
      /\ {w.id : w \in writes} \subseteq {w.id : w \in writes'}
  OBVIOUS
<1> QED BY <1>4, <1>5, <1>6 DEF Run!Apply, Touchable

\* Each kind of step is a step of a confirmed run, or none at all.
LEMMA RunStep ==
    ASSUME IInv, IInv', LoopStep
    PROVE  [Run!Next]_(Run!vars)
<1>1. cmd' = cmd
  BY DEF LoopStep
<1>2. CASE PlansOn
  <2>1. Planning /\ ~Ended /\ rows' = rows /\ writes' = writes
          /\ (~Planning' => Ended' \/ cmd.yes)
    BY <1>2 DEF PlansOn, Planning, Ended, Wholesale
  <2> QED BY <1>1, <2>1 DEF Run!Next, Run!Preview, Run!vars, Ended, Planning
<1>3. CASE Guarded
  <2>1. Planning /\ ~Ended /\ writes' = writes /\ ~Planning' /\ (Ended' \/ cmd.yes)
    BY <1>3 DEF Guarded, Planning, Ended
  <2>2. rows = {} /\ \A r \in rows' : ~r.applied
    BY <1>3, <2>1 DEF Guarded, IInv, LoopInv, QuietPlanning
  <2>3. {x \in rows' : x.applied} = {} /\ {x \in rows : x.applied} = {}
    BY <2>2
  <2> QED BY <1>1, <2>1, <2>3 DEF Run!Next, Run!Preview
<1>4. CASE HandlesOn \/ SendsAgain \/ Reported \/ GivesUp \/ Finishes \/ ChecksWhole
  <2>1. ~Planning /\ ~Ended /\ ~Planning' /\ rows \subseteq rows' /\ writes \subseteq writes'
    <3>1. CASE HandlesOn
      BY <3>1 DEF HandlesOn, Looping
    <3>2. CASE SendsAgain
      BY <3>2 DEF SendsAgain, Planning, runVars
    <3>3. CASE Reported
      BY <3>3 DEF Reported, Looping, Planning
    <3>4. CASE GivesUp
      BY <3>4 DEF GivesUp, Planning
    <3>5. CASE Finishes
      BY <3>5 DEF Finishes, Planning
    <3>6. CASE ChecksWhole
      BY <3>6 DEF ChecksWhole, Wholesale, Planning, Ended
    <3> QED BY <1>4, <3>1, <3>2, <3>3, <3>4, <3>5, <3>6
  <2> QED BY <1>1, <2>1, RunApplies DEF Run!Next
<1>5. CASE Watches
  BY <1>1, <1>5 DEF Watches, Run!vars, Ended, Planning
<1> QED BY <1>2, <1>3, <1>4, <1>5 DEF LoopStep

\* Every guarded command is a confirmed run: nothing is changed before the preview
\* was confirmed or behind the report, and nothing but what the command was asked to.
THEOREM CommandsAreConfirmedRuns == Spec => Run!Safety
<1>1. IInv /\ IInv' /\ [Next]_vars => [Run!Next]_(Run!vars)
  <2>1. ASSUME IInv, IInv', Next PROVE [Run!Next]_(Run!vars)
    BY <2>1, NextKeeps, RunStep
  <2>2. ASSUME UNCHANGED vars PROVE Run!vars' = Run!vars
    BY <2>2 DEF vars, Run!vars, Ended, Planning
  <2> QED BY <2>1, <2>2
<1> QED BY RunBegins, <1>1, CommandsInvariant, PTL DEF Spec, Run!Safety

-----------------------------------------------------------------------------
(* What a step of the loop does to what is settled.                           *)

\* A row of this step makes the exit status 1.
RowFails == \E r \in rows' : r.result \in {"failed", "lossy"}
\* The head has its row, and the loop goes on behind it.
HeadReported == todo' = Tail(todo) /\ pc' = IF Len(todo) = 1 THEN "done" ELSE "check"
\* The loop stays at its head.
HeadStays == todo' = todo /\ pc' # "done"
\* Nothing that is settled is unsettled, the object h aside.
KeptBut(h) == \A o \in cmd.targets : o # h /\ Settled(o) => Settled(o)'

\* A report moves on and leaves its row.
LEMMA ReportIs ==
    ASSUME NEW res, NEW applied, Report(Head(todo), res, applied)
    PROVE  HeadReported /\ rows \subseteq rows' /\ (res \in {"failed", "lossy"} => RowFails)
<1>1. Row(Head(todo), res, applied) \in rows' /\ Row(Head(todo), res, applied).result = res
  BY DEF Report, Row
<1> QED BY <1>1 DEF Report, HeadReported, RowFails

\* A further step of the same head reports nothing.
LEMMA GotoIs ==
    ASSUME NEW step, Goto(step), step # "done"
    PROVE  HeadStays /\ rows' = rows /\ pc' = step
BY DEF Goto, HeadStays

\* A failed row settles everything.
LEMMA FailureSettles == RowFails => SettledInv'
BY DEF RowFails, SettledInv, FailedRows

\* Where the run plans or gives up, nothing has to be settled.
LEMMA NothingToSettle ==
    ASSUME \/ pc' # "done" /\ ~Looping'
           \/ ~cmd.yes /\ cmd' = cmd
    PROVE  SettledInv'
BY DEF SettledInv

\* Nothing is behind a single object.
LEMMA TailDomain ==
    ASSUME NEW S, NEW s \in Seq(S), s # <<>>
    PROVE  DOMAIN Tail(s) = 1..(Len(s) - 1)
<1>1. Tail(s) \in Seq(S) /\ Len(Tail(s)) = Len(s) - 1
  OBVIOUS
<1> QED BY <1>1

\* The tail of a single object is empty.
LEMMA NoneBehind ==
    ASSUME NEW S, NEW s \in Seq(S), Len(s) = 1
    PROVE  Range(Tail(s)) = {}
<1>1. s # <<>>
  OBVIOUS
<1>2. DOMAIN Tail(s) = 1..(Len(s) - 1)
  BY <1>1, TailDomain
<1>3. \A i \in 1..(Len(s) - 1) : FALSE
  OBVIOUS
<1> QED BY <1>2, <1>3 DEF Range

\* The head of a loop over what the command was asked for.
LEMMA HeadIsTarget ==
    ASSUME IInv, CommandAssumption, Looping
    PROVE  Head(todo) \in cmd.targets \/ cmd.op = "import_lists"
<1>1. Head(todo) \in Touchable /\ Head(todo) \in Ids
  BY LoopFacts DEF IInv
<1>2. 0 \notin Ids
  BY DEF CommandAssumption
<1> QED BY <1>1, <1>2 DEF Touchable

\* Each step of the loop fails, settles its head or stays at it, and unsettles nothing.
LEMMA LoopSettles ==
    ASSUME IInv, SettledInv, Looping, cmd' = cmd, rows \subseteq rows',
           NEW h, h = Head(todo),
           RowFails \/ (HeadReported /\ Settled(h)') \/ HeadStays,
           RowFails \/ KeptBut(h)
    PROVE  SettledInv'
<1> SUFFICES ASSUME ~RowFails, cmd.yes, pc' = "done" \/ Looping', NEW o \in cmd.targets
             PROVE  (Looping' /\ o \in Range(todo')) \/ Settled(o)'
  BY FailureSettles DEF SettledInv
<1>1. FailedRows = {}
  BY DEF RowFails, FailedRows
<1>2. o \in Range(todo) \/ Settled(o)
  BY <1>1 DEF SettledInv
<1>3. /\ todo # <<>> /\ todo \in Seq(Ids)
      /\ Range(todo) = {Head(todo)} \cup Range(Tail(todo)) /\ Head(todo) \in Range(todo)
  BY LoopFacts, TailFacts DEF IInv
<1>4. o # Head(todo) /\ Settled(o) => Settled(o)'
  BY DEF KeptBut
<1>5. CASE HeadReported /\ Settled(h)'
  <2>1. pc' = "done" => Range(Tail(todo)) = {}
    <3>1. pc' = "done" => Len(todo) = 1
      BY <1>5 DEF HeadReported
    <3> QED BY <1>3, <3>1, NoneBehind
  <2>2. CASE o = Head(todo)
    BY <1>5, <2>2
  <2>3. CASE o # Head(todo)
    <3>1. todo' = Tail(todo)
      BY <1>5 DEF HeadReported
    <3>2. o \in Range(Tail(todo)) => Looping'
      BY <2>1
    <3>3. o \in Range(Tail(todo)) \/ Settled(o)'
      BY <1>2, <1>3, <1>4, <2>3
    <3> QED BY <3>1, <3>2, <3>3
  <2> QED BY <2>2, <2>3
<1>6. CASE HeadStays
  BY <1>2, <1>3, <1>4, <1>6 DEF HeadStays
<1> QED BY <1>5, <1>6

\* The guard starts the loop over what is not settled yet.
LEMMA GuardSettles ==
    ASSUME NEW p, NEW s, Guard(p, s), cmd' = cmd,
           \A o \in cmd.targets : o \in Range(s) \/ Settled(o)'
    PROVE  SettledInv'
<1>1. Range(<<>>) = {}
  BY DEF Range
<1>2. pc' = "check" => Looping'
  BY DEF Looping, Ended, Planning, Wholesale
<1> QED BY <1>1, <1>2 DEF Guard, SettledInv

\* A request for everything gives up, reports a failure, settles everything or is
\* sent again.
LEMMA BulkSettles ==
    ASSUME SettledInv, Looping, cmd' = cmd,
           \/ pc' = "failed"
           \/ RowFails
           \/ \A o \in cmd.targets : Settled(o)'
           \/ UNCHANGED runVars /\ \A o \in cmd.targets : Settled(o) => Settled(o)'
    PROVE  SettledInv'
<1>1. CASE pc' = "failed"
  BY <1>1, NothingToSettle DEF Looping, Ended
<1>2. CASE RowFails
  BY <1>2, FailureSettles
<1>3. CASE \A o \in cmd.targets : Settled(o)'
  BY <1>3 DEF SettledInv
<1>4. CASE UNCHANGED runVars /\ \A o \in cmd.targets : Settled(o) => Settled(o)'
  BY <1>4 DEF SettledInv, runVars, FailedRows, Looping, Ended, Planning, Wholesale
<1> QED BY <1>1, <1>2, <1>3, <1>4

\* What another client does leaves its objects to that client.
LEMMA OthersSettle ==
    ASSUME SettledInv, cmd' = cmd, pc' = pc, todo' = todo, rows' = rows, ~Ended,
           \A o \in cmd.targets : Settled(o) => Settled(o)'
    PROVE  SettledInv'
BY DEF SettledInv, FailedRows, Looping, Ended, Planning, Wholesale

\* A settled object stays settled while what it is about does.
LEMMA StaysSettled ==
    ASSUME NEW o, Settled(o), rows \subseteq rows', o \in moved => o \in moved',
           Goal(o) => Goal(o)'
    PROVE  Settled(o)'
BY DEF Settled

-----------------------------------------------------------------------------
(* Data views.                                                                *)

\* The aims of the other components are not this one's.
LEMMA DataViewsAlone ==
    ASSUME cmd.family = "data_views", cmd' = cmd, SettledInv', DataViewsAims'
    PROVE  SuccessInv'
BY DEF SuccessInv, AgentPoliciesAims, TriageAims, DetectionAims

\* The goal of a data view command.
LEMMA DataViewsGoal ==
    ASSUME cmd.family = "data_views", cmd' = cmd, NEW o
    PROVE  /\ Goal(o) <=> DataViews!Goal(o)
           /\ Goal(o)' <=> DataViews!Goal(o)'
BY DEF Goal

\* A view stays settled while its requests do not reach it, and the default does
\* not turn to it.
LEMMA DataViewsKept ==
    ASSUME cmd.family = "data_views", cmd' = cmd, rows \subseteq rows', NEW h,
           \A o \in cmd.targets : o # h =>
               (o \in moved => o \in moved') /\ stack'.view[o] = stack.view[o],
           \/ cmd.op = "import"
           \/ cmd.op = "delete" /\ stack'.default = stack.default
                /\ (stack.default \in cmd.targets => 0 \in moved')
           \/ cmd.op = "delete" /\ stack'.default = stack.default
                /\ (0 \in moved => 0 \in moved')
           \/ cmd.op = "swap" /\ cmd.targets \subseteq {h}
    PROVE  KeptBut(h)
<1> SUFFICES ASSUME NEW o \in cmd.targets, o # h, Settled(o) PROVE Settled(o)'
  BY DEF KeptBut
<1>1. (o \in moved => o \in moved') /\ stack'.view[o] = stack.view[o]
  OBVIOUS
<1>2. DataViews!Goal(o) => DataViews!Goal(o)'
  BY <1>1 DEF DataViews!Goal, DataViews!None
<1> QED BY <1>1, <1>2, DataViewsGoal, StaysSettled

\* The default is set without a loop.
LEMMA DefaultNeverLoops ==
    ASSUME IInv, CommandAssumption, cmd.op = "default"
    PROVE  ~Looping
<1> SUFFICES ASSUME Looping PROVE FALSE
  OBVIOUS
<1>1. Head(todo) \in Ids /\ 0 \notin Ids
  BY LoopFacts DEF IInv, CommandAssumption
<1>2. Head(todo) \in cmd.targets /\ cmd.targets = {0}
  BY HeadIsTarget DEF IInv, CmdOK
<1> QED BY <1>1, <1>2


\* Planning a data view command asks nothing of the loop.
LEMMA DataViewsPlanningSettles ==
    ASSUME IInv, SuccessInv, cmd.family = "data_views",
           \/ DataViews!PreviewOffline \/ DataViews!BeginImport \/ DataViews!Preflight
                \/ DataViews!ResolveDelete \/ DataViews!ReadDefault
                     \/ DataViews!ReadReferences \/ DataViews!ResolveDefault
                          \/ DataViews!PlanDefault
    PROVE  SuccessInv'
<1> DEFINE Quiet ==
             /\ cmd' = cmd
             /\ \/ pc' \in {"preflight", "failed", "default", "references",
                            "plan_default", "apply_default"}
                \/ pc' \in {"done", "check"} /\ ~cmd.yes
             /\ pc' = "check" => cmd.op = "import"
<1>1. DataViews!PreviewOffline => Quiet
  BY DEF DataViews!PreviewOffline, DataViews!Guard, Guard
<1>2. DataViews!BeginImport => Quiet
  BY DEF DataViews!BeginImport
<1>3. DataViews!Preflight => Quiet
  BY DEF DataViews!Preflight, DataViews!Read, DataViews!Checked, DataViews!Fail, Fail,
     DataViews!Goto, Goto
<1>4. DataViews!ResolveDelete => Quiet
  BY DEF DataViews!ResolveDelete, DataViews!Read, DataViews!Checked, DataViews!Fail, Fail,
     DataViews!Goto, Goto
<1>5. DataViews!ReadDefault => Quiet
  BY DEF DataViews!ReadDefault, DataViews!Read, DataViews!Checked, DataViews!Fail, Fail,
     DataViews!Goto, Goto
<1>6. DataViews!ReadReferences => Quiet
  BY DEF DataViews!ReadReferences, DataViews!Read, DataViews!Checked, DataViews!Fail, Fail,
     DataViews!Goto, Goto
<1>7. DataViews!ResolveDefault => Quiet
  BY DEF DataViews!ResolveDefault, DataViews!Read, DataViews!Checked, DataViews!Fail, Fail,
     DataViews!Goto, Goto
<1>8. DataViews!PlanDefault => Quiet
  BY DEF DataViews!PlanDefault, DataViews!Read, DataViews!Checked, DataViews!Fail, Fail,
     DataViews!Goto, Goto
<1> HIDE DEF Quiet
<1>9. Quiet
  BY <1>1, <1>2, <1>3, <1>4, <1>5, <1>6, <1>7, <1>8
<1> USE DEF Quiet
<1>10. SettledInv'
  <2>1. CASE ~cmd.yes
    BY <1>9, <2>1, NothingToSettle
  <2>2. CASE cmd.yes
    <3>1. pc' # "done" /\ ~Looping'
      BY <1>9, <2>2 DEF Looping, Planning, Ended, Wholesale
    <3> QED BY <3>1, NothingToSettle
  <2> QED BY <2>1, <2>2
<1>11. DataViewsAims'
  BY <1>9 DEF SuccessInv, DataViewsAims
<1>12. cmd' = cmd
  BY <1>9
<1> QED BY <1>10, <1>11, <1>12, DataViewsAlone

\* What an import does not skip is for its loop.
LEMMA DataViewsPlanImportSettles ==
    ASSUME IInv, SuccessInv, cmd.family = "data_views", DataViews!PlanImport
    PROVE  SuccessInv'
<1>1. cmd' = cmd /\ pc = "preflight" /\ stack' = stack
  BY DEF DataViews!PlanImport
<1>2. DataViews!Skipped \subseteq DOMAIN plan.before /\ cmd.targets \in SUBSET Ids
  BY <1>1 DEF IInv, CmdOK, DataViewsInv, DataViews!Skipped, DataViews!Existing
<1>3. \/ pc' = "failed"
      \/ /\ Guard([before |-> [o \in cmd.targets \ DataViews!Skipped |-> plan.before[o]]],
                  Sorted(cmd.targets \ DataViews!Skipped))
         /\ rows' = {Row(o, "skipped", FALSE) : o \in DataViews!Skipped}
  BY SameOrder DEF DataViews!PlanImport, DataViews!Fail, Fail, DataViews!Goto, Goto,
     DataViews!Row, Row, DataViews!Guard, Guard
<1>4. SettledInv'
  <2>1. CASE pc' = "failed"
    BY <2>1, NothingToSettle DEF Looping, Ended
  <2>2. CASE /\ Guard([before |-> [o \in cmd.targets \ DataViews!Skipped |-> plan.before[o]]],
                      Sorted(cmd.targets \ DataViews!Skipped))
             /\ rows' = {Row(o, "skipped", FALSE) : o \in DataViews!Skipped}
    <3>1. Range(Sorted(cmd.targets \ DataViews!Skipped)) = cmd.targets \ DataViews!Skipped
      BY <1>2, SortedFacts, CommandAssumption
    <3>2. ASSUME NEW o \in DataViews!Skipped PROVE Settled(o)'
      <4>1. Row(o, "skipped", FALSE) \in rows'
        BY <2>2
      <4> QED BY <4>1 DEF Row, Settled
    <3> QED BY <1>1, <2>2, <3>1, <3>2, GuardSettles
  <2> QED BY <1>3, <2>1, <2>2
<1>5. DataViewsAims'
  <2>1. pc' \in {"failed", "check", "done"} /\ cmd.op = "import"
    BY <1>1, <1>3 DEF Guard, IInv, DataViewsInv
  <2> QED BY <1>1, <2>1 DEF DataViewsAims, SuccessInv
<1> QED BY <1>1, <1>4, <1>5, DataViewsAlone

\* Every view to delete is for the loop, and none of them is the default.
LEMMA DataViewsPlanDeleteSettles ==
    ASSUME IInv, SuccessInv, cmd.family = "data_views", DataViews!PlanDelete
    PROVE  SuccessInv'
<1>1. cmd' = cmd /\ pc = "references" /\ rows' = rows /\ plan' = plan
  BY DEF DataViews!PlanDelete, DataViews!Fail, Fail, DataViews!Goto, Goto, DataViews!Guard,
     Guard
<1>2. \/ pc' = "failed"
      \/ /\ Guard(plan, Sorted(cmd.targets))
         /\ cmd.op = "delete" => plan.default \notin cmd.targets
  BY SameOrder DEF DataViews!PlanDelete, DataViews!Fail, Fail, DataViews!Goto, Goto,
     DataViews!Guard, Guard
<1>3. SettledInv'
  <2>1. CASE pc' = "failed"
    BY <2>1, NothingToSettle DEF Looping, Ended
  <2>2. CASE Guard(plan, Sorted(cmd.targets))
    <3>1. cmd.targets \in SUBSET Ids
      BY <1>1 DEF IInv, CmdOK, DataViewsInv
    <3>2. Range(Sorted(cmd.targets)) = cmd.targets
      BY <3>1, SortedFacts, CommandAssumption
    <3> QED BY <1>1, <2>2, <3>2, GuardSettles
  <2> QED BY <1>2, <2>1, <2>2
<1>4. DataViewsAims'
  BY <1>1, <1>2 DEF DataViewsAims, SuccessInv, Guard
<1> QED BY <1>1, <1>3, <1>4, DataViewsAlone

\* A view that is as the file has it needs no request.
LEMMA DataViewsCheckImportSettles ==
    ASSUME IInv, SuccessInv, cmd.family = "data_views", DataViews!CheckImport
    PROVE  SuccessInv'
<1>1. /\ pc = "check" /\ cmd.op = "import" /\ cmd' = cmd /\ plan' = plan
      /\ cmd.targets \in SUBSET Ids /\ moved' \in {moved, moved \ {Head(todo)}}
  BY DEF IInv, CmdOK, DataViewsInv, SuccessInv, DataViewsAims, DataViews!CheckImport,
     DataViews!Read, DataViews!Checked
<1>2. /\ Looping /\ Head(todo) \in Ids /\ Head(todo) \in Range(todo) /\ SettledInv
      /\ 0 \notin Ids
      /\ Head(todo) \in cmd.targets \/ cmd.op = "import_lists"
      /\ DataViewsAims /\ stack \in DataViews!StackType
  <2>1. Looping
    BY <1>1 DEF Looping, Ended, Planning, Wholesale
  <2> QED BY <2>1, LoopFacts, HeadIsTarget, CommandAssumption DEF CommandAssumption, IInv,
         SuccessInv, TypeOK, StackType
<1>3. \/ Report(Head(todo), "failed", FALSE) /\ stack' = stack
      \/ /\ Report(Head(todo), "unchanged", FALSE)
         /\ stack' = stack /\ stack.view[Head(todo)] = DataViews!Desired
      \/ Goto("create") /\ stack' = stack
      \/ Goto("update_base") /\ stack' = stack
      \/ Goto("update_meta") /\ stack' = stack
  BY <1>1, <1>2 DEF DataViews!CheckImport, DataViews!Read, DataViews!Checked,
     DataViews!Fail, Fail, DataViews!Report, Report, DataViews!Row, Row, DataViews!Goto, Goto,
     Guard, DataViews!StackType
<1> PICK h : h = Head(todo)
  OBVIOUS
<1>4. CASE Report(Head(todo), "failed", FALSE) /\ stack' = stack
  <2>1. RowFails
    BY <1>4, ReportIs
  <2>2. SettledInv'
    BY <2>1, FailureSettles
  <2>3. DataViewsAims'
    BY <1>1, <1>2, <1>4 DEF DataViewsAims, Report, Goto, Fail, runVars
  <2> QED BY <1>1, <2>2, <2>3, DataViewsAlone
<1>5. CASE /\ Report(Head(todo), "unchanged", FALSE)
           /\ stack' = stack /\ stack.view[Head(todo)] = DataViews!Desired
  <2>1. HeadReported /\ rows \subseteq rows'
    BY <1>5, ReportIs
  <2>2. KeptBut(h)
    BY <1>1, <1>2, <1>5, <2>1, DataViewsKept
  <2>3. Settled(h)'
    BY <1>1, <1>2, <1>5, DataViewsGoal DEF Settled, DataViews!Goal
  <2>4. SettledInv'
    BY <1>1, <1>2, <2>1, <2>2, <2>3, LoopSettles
  <2>5. DataViewsAims'
    BY <1>1, <1>2, <1>5 DEF DataViewsAims, Report, Goto, Fail, runVars
  <2> QED BY <1>1, <2>4, <2>5, DataViewsAlone
<1>6. CASE Goto("create") /\ stack' = stack
  <2>1. HeadStays /\ rows \subseteq rows'
    BY <1>1, <1>6, GotoIs
  <2>2. KeptBut(h)
    BY <1>1, <1>2, <1>6, <2>1, DataViewsKept
  <2>3. SettledInv'
    BY <1>1, <1>2, <2>1, <2>2, LoopSettles
  <2>4. DataViewsAims'
    BY <1>1, <1>2, <1>6 DEF DataViewsAims, Report, Goto, Fail, runVars
  <2> QED BY <1>1, <2>3, <2>4, DataViewsAlone
<1>7. CASE Goto("update_base") /\ stack' = stack
  <2>1. HeadStays /\ rows \subseteq rows'
    BY <1>1, <1>7, GotoIs
  <2>2. KeptBut(h)
    BY <1>1, <1>2, <1>7, <2>1, DataViewsKept
  <2>3. SettledInv'
    BY <1>1, <1>2, <2>1, <2>2, LoopSettles
  <2>4. DataViewsAims'
    BY <1>1, <1>2, <1>7 DEF DataViewsAims, Report, Goto, Fail, runVars
  <2> QED BY <1>1, <2>3, <2>4, DataViewsAlone
<1>8. CASE Goto("update_meta") /\ stack' = stack
  <2>1. HeadStays /\ rows \subseteq rows'
    BY <1>1, <1>8, GotoIs
  <2>2. KeptBut(h)
    BY <1>1, <1>2, <1>8, <2>1, DataViewsKept
  <2>3. SettledInv'
    BY <1>1, <1>2, <2>1, <2>2, LoopSettles
  <2>4. DataViewsAims'
    BY <1>1, <1>2, <1>8 DEF DataViewsAims, Report, Goto, Fail, runVars
  <2> QED BY <1>1, <2>3, <2>4, DataViewsAlone
<1> QED BY <1>3, <1>4, <1>5, <1>6, <1>7, <1>8

\* A view is created, and verified next.
LEMMA DataViewsCreateSettles ==
    ASSUME IInv, SuccessInv, cmd.family = "data_views", DataViews!Create
    PROVE  SuccessInv'
<1>1. /\ pc = "create" /\ cmd.op = "import" /\ cmd' = cmd /\ plan' = plan
      /\ cmd.targets \in SUBSET Ids /\ moved' = moved
  BY DEF IInv, CmdOK, DataViewsInv, SuccessInv, DataViewsAims, DataViews!Create,
     DataViews!PutView
<1>2. /\ Looping /\ Head(todo) \in Ids /\ Head(todo) \in Range(todo) /\ SettledInv
      /\ 0 \notin Ids
      /\ Head(todo) \in cmd.targets \/ cmd.op = "import_lists"
      /\ DataViewsAims /\ stack \in DataViews!StackType
  <2>1. Looping
    BY <1>1 DEF Looping, Ended, Planning, Wholesale
  <2> QED BY <2>1, LoopFacts, HeadIsTarget, CommandAssumption DEF CommandAssumption, IInv,
         SuccessInv, TypeOK, StackType
<1>3. \/ Report(Head(todo), "failed", FALSE) /\ stack' = stack
      \/ Report(Head(todo), "failed", FALSE)
           /\ stack' = [stack EXCEPT !.view[Head(todo)] = DataViews!Desired]
      \/ Goto("verify") /\ stack' = [stack EXCEPT !.view[Head(todo)] = DataViews!Desired]
      \/ UNCHANGED runVars /\ stack' = [stack EXCEPT !.view[Head(todo)] = DataViews!Desired]
  BY <1>1, <1>2 DEF DataViews!Create, DataViews!Mutate, DataViews!MutateAll,
     DataViews!Report, Report, DataViews!Row, Row, DataViews!Goto, Goto, DataViews!runVars,
     runVars, DataViews!PutView, Guard, DataViews!StackType
<1> PICK h : h = Head(todo)
  OBVIOUS
<1>4. CASE Report(Head(todo), "failed", FALSE) /\ stack' = stack
  <2>1. RowFails
    BY <1>4, ReportIs
  <2>2. SettledInv'
    BY <2>1, FailureSettles
  <2>3. DataViewsAims'
    BY <1>1, <1>2, <1>4 DEF DataViewsAims, Report, Goto, Fail, runVars
  <2> QED BY <1>1, <2>2, <2>3, DataViewsAlone
<1>5. CASE Report(Head(todo), "failed", FALSE)
             /\ stack' = [stack EXCEPT !.view[Head(todo)] = DataViews!Desired]
  <2>1. RowFails
    BY <1>5, ReportIs
  <2>2. SettledInv'
    BY <2>1, FailureSettles
  <2>3. DataViewsAims'
    BY <1>1, <1>2, <1>5 DEF DataViewsAims, Report, Goto, Fail, runVars
  <2> QED BY <1>1, <2>2, <2>3, DataViewsAlone
<1>6. CASE Goto("verify") /\ stack' = [stack EXCEPT !.view[Head(todo)] = DataViews!Desired]
  <2>1. HeadStays /\ rows \subseteq rows'
    BY <1>1, <1>6, GotoIs
  <2>2. KeptBut(h)
    BY <1>1, <1>2, <1>6, <2>1, DataViewsKept
  <2>3. SettledInv'
    BY <1>1, <1>2, <2>1, <2>2, LoopSettles
  <2>4. DataViewsAims'
    BY <1>1, <1>2, <1>6 DEF DataViewsAims, Report, Goto, Fail, runVars
  <2> QED BY <1>1, <2>3, <2>4, DataViewsAlone
<1>7. CASE UNCHANGED runVars /\ stack' = [stack EXCEPT !.view[Head(todo)] = DataViews!Desired]
  <2>1. HeadStays /\ rows \subseteq rows'
    BY <1>1, <1>2, <1>7 DEF HeadStays, runVars, Looping, Ended
  <2>2. KeptBut(h)
    BY <1>1, <1>2, <1>7, <2>1, DataViewsKept
  <2>3. SettledInv'
    BY <1>1, <1>2, <2>1, <2>2, LoopSettles
  <2>4. DataViewsAims'
    BY <1>1, <1>2, <1>7 DEF DataViewsAims, Report, Goto, Fail, runVars
  <2> QED BY <1>1, <2>3, <2>4, DataViewsAlone
<1> QED BY <1>3, <1>4, <1>5, <1>6, <1>7

\* The base is updated, and the metadata or the verification is next.
LEMMA DataViewsUpdateBaseSettles ==
    ASSUME IInv, SuccessInv, cmd.family = "data_views", DataViews!UpdateBase
    PROVE  SuccessInv'
<1>1. /\ pc = "update_base" /\ cmd.op = "import" /\ cmd' = cmd /\ plan' = plan
      /\ cmd.targets \in SUBSET Ids /\ moved' = moved
  BY DEF IInv, CmdOK, DataViewsInv, SuccessInv, DataViewsAims, DataViews!UpdateBase,
     DataViews!PutView
<1>2. /\ Looping /\ Head(todo) \in Ids /\ Head(todo) \in Range(todo) /\ SettledInv
      /\ 0 \notin Ids
      /\ Head(todo) \in cmd.targets \/ cmd.op = "import_lists"
      /\ DataViewsAims /\ stack \in DataViews!StackType
  <2>1. Looping
    BY <1>1 DEF Looping, Ended, Planning, Wholesale
  <2> QED BY <2>1, LoopFacts, HeadIsTarget, CommandAssumption DEF CommandAssumption, IInv,
         SuccessInv, TypeOK, StackType
<1>3. \/ Report(Head(todo), "failed", FALSE) /\ stack' = stack
      \/ Report(Head(todo), "failed", FALSE)
           /\ stack' = [stack EXCEPT !.view[Head(todo)]
                = [stack.view[Head(todo)] EXCEPT !.base = 2]]
      \/ Goto("verify") /\ stack'
           = [stack EXCEPT !.view[Head(todo)] = [stack.view[Head(todo)] EXCEPT !.base = 2]]
      \/ Goto("update_meta")
           /\ stack' = [stack EXCEPT !.view[Head(todo)]
                = [stack.view[Head(todo)] EXCEPT !.base = 2]]
      \/ UNCHANGED runVars
           /\ stack' = [stack EXCEPT !.view[Head(todo)]
                = [stack.view[Head(todo)] EXCEPT !.base = 2]]
  BY <1>1, <1>2 DEF DataViews!UpdateBase, DataViews!Mutate, DataViews!MutateAll,
     DataViews!Report, Report, DataViews!Row, Row, DataViews!Goto, Goto, DataViews!runVars,
     runVars, DataViews!PutView, Guard, DataViews!StackType
<1> PICK h : h = Head(todo)
  OBVIOUS
<1>4. CASE Report(Head(todo), "failed", FALSE) /\ stack' = stack
  <2>1. RowFails
    BY <1>4, ReportIs
  <2>2. SettledInv'
    BY <2>1, FailureSettles
  <2>3. DataViewsAims'
    BY <1>1, <1>2, <1>4 DEF DataViewsAims, Report, Goto, Fail, runVars
  <2> QED BY <1>1, <2>2, <2>3, DataViewsAlone
<1>5. CASE Report(Head(todo), "failed", FALSE)
             /\ stack' = [stack EXCEPT !.view[Head(todo)]
                  = [stack.view[Head(todo)] EXCEPT !.base = 2]]
  <2>1. RowFails
    BY <1>5, ReportIs
  <2>2. SettledInv'
    BY <2>1, FailureSettles
  <2>3. DataViewsAims'
    BY <1>1, <1>2, <1>5 DEF DataViewsAims, Report, Goto, Fail, runVars
  <2> QED BY <1>1, <2>2, <2>3, DataViewsAlone
<1>6. CASE Goto("verify") /\ stack'
             = [stack EXCEPT !.view[Head(todo)] = [stack.view[Head(todo)] EXCEPT !.base = 2]]
  <2>1. HeadStays /\ rows \subseteq rows'
    BY <1>1, <1>6, GotoIs
  <2>2. KeptBut(h)
    BY <1>1, <1>2, <1>6, <2>1, DataViewsKept
  <2>3. SettledInv'
    BY <1>1, <1>2, <2>1, <2>2, LoopSettles
  <2>4. DataViewsAims'
    BY <1>1, <1>2, <1>6 DEF DataViewsAims, Report, Goto, Fail, runVars
  <2> QED BY <1>1, <2>3, <2>4, DataViewsAlone
<1>7. CASE Goto("update_meta")
             /\ stack' = [stack EXCEPT !.view[Head(todo)]
                  = [stack.view[Head(todo)] EXCEPT !.base = 2]]
  <2>1. HeadStays /\ rows \subseteq rows'
    BY <1>1, <1>7, GotoIs
  <2>2. KeptBut(h)
    BY <1>1, <1>2, <1>7, <2>1, DataViewsKept
  <2>3. SettledInv'
    BY <1>1, <1>2, <2>1, <2>2, LoopSettles
  <2>4. DataViewsAims'
    BY <1>1, <1>2, <1>7 DEF DataViewsAims, Report, Goto, Fail, runVars
  <2> QED BY <1>1, <2>3, <2>4, DataViewsAlone
<1>8. CASE UNCHANGED runVars
             /\ stack' = [stack EXCEPT !.view[Head(todo)]
                  = [stack.view[Head(todo)] EXCEPT !.base = 2]]
  <2>1. HeadStays /\ rows \subseteq rows'
    BY <1>1, <1>2, <1>8 DEF HeadStays, runVars, Looping, Ended
  <2>2. KeptBut(h)
    BY <1>1, <1>2, <1>8, <2>1, DataViewsKept
  <2>3. SettledInv'
    BY <1>1, <1>2, <2>1, <2>2, LoopSettles
  <2>4. DataViewsAims'
    BY <1>1, <1>2, <1>8 DEF DataViewsAims, Report, Goto, Fail, runVars
  <2> QED BY <1>1, <2>3, <2>4, DataViewsAlone
<1> QED BY <1>3, <1>4, <1>5, <1>6, <1>7, <1>8

\* The metadata is updated, and verified next.
LEMMA DataViewsUpdateMetaSettles ==
    ASSUME IInv, SuccessInv, cmd.family = "data_views", DataViews!UpdateMeta
    PROVE  SuccessInv'
<1>1. /\ pc = "update_meta" /\ cmd.op = "import" /\ cmd' = cmd /\ plan' = plan
      /\ cmd.targets \in SUBSET Ids /\ moved' = moved
  BY DEF IInv, CmdOK, DataViewsInv, SuccessInv, DataViewsAims, DataViews!UpdateMeta,
     DataViews!PutView
<1>2. /\ Looping /\ Head(todo) \in Ids /\ Head(todo) \in Range(todo) /\ SettledInv
      /\ 0 \notin Ids
      /\ Head(todo) \in cmd.targets \/ cmd.op = "import_lists"
      /\ DataViewsAims /\ stack \in DataViews!StackType
  <2>1. Looping
    BY <1>1 DEF Looping, Ended, Planning, Wholesale
  <2> QED BY <2>1, LoopFacts, HeadIsTarget, CommandAssumption DEF CommandAssumption, IInv,
         SuccessInv, TypeOK, StackType
<1>3. \/ Report(Head(todo), "failed", (plan.before[Head(todo)].base # 2)) /\ stack' = stack
      \/ Report(Head(todo), "failed", (plan.before[Head(todo)].base # 2))
           /\ stack' = [stack EXCEPT !.view[Head(todo)]
                = [stack.view[Head(todo)] EXCEPT !.meta = 2]]
      \/ Goto("verify") /\ stack'
           = [stack EXCEPT !.view[Head(todo)] = [stack.view[Head(todo)] EXCEPT !.meta = 2]]
      \/ UNCHANGED runVars
           /\ stack' = [stack EXCEPT !.view[Head(todo)]
                = [stack.view[Head(todo)] EXCEPT !.meta = 2]]
  BY <1>1, <1>2 DEF DataViews!UpdateMeta, DataViews!Mutate, DataViews!MutateAll,
     DataViews!Report, Report, DataViews!Row, Row, DataViews!Goto, Goto, DataViews!runVars,
     runVars, DataViews!PutView, Guard, DataViews!StackType
<1> PICK h : h = Head(todo)
  OBVIOUS
<1>4. CASE Report(Head(todo), "failed", (plan.before[Head(todo)].base # 2)) /\ stack' = stack
  <2>1. RowFails
    BY <1>4, ReportIs
  <2>2. SettledInv'
    BY <2>1, FailureSettles
  <2>3. DataViewsAims'
    BY <1>1, <1>2, <1>4 DEF DataViewsAims, Report, Goto, Fail, runVars
  <2> QED BY <1>1, <2>2, <2>3, DataViewsAlone
<1>5. CASE Report(Head(todo), "failed", (plan.before[Head(todo)].base # 2))
             /\ stack' = [stack EXCEPT !.view[Head(todo)]
                  = [stack.view[Head(todo)] EXCEPT !.meta = 2]]
  <2>1. RowFails
    BY <1>5, ReportIs
  <2>2. SettledInv'
    BY <2>1, FailureSettles
  <2>3. DataViewsAims'
    BY <1>1, <1>2, <1>5 DEF DataViewsAims, Report, Goto, Fail, runVars
  <2> QED BY <1>1, <2>2, <2>3, DataViewsAlone
<1>6. CASE Goto("verify") /\ stack'
             = [stack EXCEPT !.view[Head(todo)] = [stack.view[Head(todo)] EXCEPT !.meta = 2]]
  <2>1. HeadStays /\ rows \subseteq rows'
    BY <1>1, <1>6, GotoIs
  <2>2. KeptBut(h)
    BY <1>1, <1>2, <1>6, <2>1, DataViewsKept
  <2>3. SettledInv'
    BY <1>1, <1>2, <2>1, <2>2, LoopSettles
  <2>4. DataViewsAims'
    BY <1>1, <1>2, <1>6 DEF DataViewsAims, Report, Goto, Fail, runVars
  <2> QED BY <1>1, <2>3, <2>4, DataViewsAlone
<1>7. CASE UNCHANGED runVars
             /\ stack' = [stack EXCEPT !.view[Head(todo)]
                  = [stack.view[Head(todo)] EXCEPT !.meta = 2]]
  <2>1. HeadStays /\ rows \subseteq rows'
    BY <1>1, <1>2, <1>7 DEF HeadStays, runVars, Looping, Ended
  <2>2. KeptBut(h)
    BY <1>1, <1>2, <1>7, <2>1, DataViewsKept
  <2>3. SettledInv'
    BY <1>1, <1>2, <2>1, <2>2, LoopSettles
  <2>4. DataViewsAims'
    BY <1>1, <1>2, <1>7 DEF DataViewsAims, Report, Goto, Fail, runVars
  <2> QED BY <1>1, <2>3, <2>4, DataViewsAlone
<1> QED BY <1>3, <1>4, <1>5, <1>6, <1>7

\* A view counts as imported when it is read to be as the file has it.
LEMMA DataViewsVerifySettles ==
    ASSUME IInv, SuccessInv, cmd.family = "data_views", DataViews!Verify
    PROVE  SuccessInv'
<1>1. /\ pc = "verify" /\ cmd.op = "import" /\ cmd' = cmd /\ plan' = plan
      /\ cmd.targets \in SUBSET Ids /\ moved' = moved
  BY DEF IInv, CmdOK, DataViewsInv, SuccessInv, DataViewsAims, DataViews!Verify,
     DataViews!Read, DataViews!Checked
<1>2. /\ Looping /\ Head(todo) \in Ids /\ Head(todo) \in Range(todo) /\ SettledInv
      /\ 0 \notin Ids
      /\ Head(todo) \in cmd.targets \/ cmd.op = "import_lists"
      /\ DataViewsAims /\ stack \in DataViews!StackType
  <2>1. Looping
    BY <1>1 DEF Looping, Ended, Planning, Wholesale
  <2> QED BY <2>1, LoopFacts, HeadIsTarget, CommandAssumption DEF CommandAssumption, IInv,
         SuccessInv, TypeOK, StackType
<1>3. \/ Report(Head(todo), "failed", TRUE) /\ stack' = stack
      \/ /\ Report(Head(todo), "created", TRUE)
         /\ stack' = stack /\ stack.view[Head(todo)] = DataViews!Desired
      \/ /\ Report(Head(todo), "replaced", TRUE)
         /\ stack' = stack /\ stack.view[Head(todo)] = DataViews!Desired
  BY <1>1, <1>2 DEF DataViews!Verify, DataViews!Read, DataViews!Checked, DataViews!Fail,
     Fail, DataViews!Report, Report, DataViews!Row, Row, DataViews!Goto, Goto, Guard,
     DataViews!StackType
<1> PICK h : h = Head(todo)
  OBVIOUS
<1>4. CASE Report(Head(todo), "failed", TRUE) /\ stack' = stack
  <2>1. RowFails
    BY <1>4, ReportIs
  <2>2. SettledInv'
    BY <2>1, FailureSettles
  <2>3. DataViewsAims'
    BY <1>1, <1>2, <1>4 DEF DataViewsAims, Report, Goto, Fail, runVars
  <2> QED BY <1>1, <2>2, <2>3, DataViewsAlone
<1>5. CASE /\ Report(Head(todo), "created", TRUE)
           /\ stack' = stack /\ stack.view[Head(todo)] = DataViews!Desired
  <2>1. HeadReported /\ rows \subseteq rows'
    BY <1>5, ReportIs
  <2>2. KeptBut(h)
    BY <1>1, <1>2, <1>5, <2>1, DataViewsKept
  <2>3. Settled(h)'
    BY <1>1, <1>2, <1>5, DataViewsGoal DEF Settled, DataViews!Goal
  <2>4. SettledInv'
    BY <1>1, <1>2, <2>1, <2>2, <2>3, LoopSettles
  <2>5. DataViewsAims'
    BY <1>1, <1>2, <1>5 DEF DataViewsAims, Report, Goto, Fail, runVars
  <2> QED BY <1>1, <2>4, <2>5, DataViewsAlone
<1>6. CASE /\ Report(Head(todo), "replaced", TRUE)
           /\ stack' = stack /\ stack.view[Head(todo)] = DataViews!Desired
  <2>1. HeadReported /\ rows \subseteq rows'
    BY <1>6, ReportIs
  <2>2. KeptBut(h)
    BY <1>1, <1>2, <1>6, <2>1, DataViewsKept
  <2>3. Settled(h)'
    BY <1>1, <1>2, <1>6, DataViewsGoal DEF Settled, DataViews!Goal
  <2>4. SettledInv'
    BY <1>1, <1>2, <2>1, <2>2, <2>3, LoopSettles
  <2>5. DataViewsAims'
    BY <1>1, <1>2, <1>6 DEF DataViewsAims, Report, Goto, Fail, runVars
  <2> QED BY <1>1, <2>4, <2>5, DataViewsAlone
<1> QED BY <1>3, <1>4, <1>5, <1>6

\* A view whose references are as shown goes on.
LEMMA DataViewsCheckReferencesSettles ==
    ASSUME IInv, SuccessInv, cmd.family = "data_views", DataViews!CheckReferences
    PROVE  SuccessInv'
<1>1. /\ pc = "check" /\ cmd.op \in {"delete", "swap"} /\ cmd' = cmd /\ plan' = plan
      /\ cmd.targets \in SUBSET Ids /\ moved' \in {moved, moved \ {Head(todo)}}
      /\ cmd.op = "swap" => \E o \in Ids : cmd.targets = {o} /\ cmd.by # o /\ cmd.by \in Ids
  BY DEF IInv, CmdOK, DataViewsInv, SuccessInv, DataViewsAims, DataViews!CheckReferences,
     DataViews!Read, DataViews!Checked
<1>2. /\ Looping /\ Head(todo) \in Ids /\ Head(todo) \in Range(todo) /\ SettledInv
      /\ 0 \notin Ids
      /\ Head(todo) \in cmd.targets \/ cmd.op = "import_lists"
      /\ DataViewsAims /\ stack \in DataViews!StackType
  <2>1. Looping
    BY <1>1 DEF Looping, Ended, Planning, Wholesale
  <2> QED BY <2>1, LoopFacts, HeadIsTarget, CommandAssumption DEF CommandAssumption, IInv,
         SuccessInv, TypeOK, StackType
<1>3. \/ Report(Head(todo), "failed", FALSE) /\ stack' = stack
      \/ Goto("check_default") /\ stack' = stack
  BY <1>1, <1>2 DEF DataViews!CheckReferences, DataViews!Read, DataViews!Checked,
     DataViews!Fail, Fail, DataViews!Report, Report, DataViews!Row, Row, DataViews!Goto, Goto,
     Guard, DataViews!StackType
<1> PICK h : h = Head(todo)
  OBVIOUS
<1>4. CASE Report(Head(todo), "failed", FALSE) /\ stack' = stack
  <2>1. RowFails
    BY <1>4, ReportIs
  <2>2. SettledInv'
    BY <2>1, FailureSettles
  <2>3. DataViewsAims'
    BY <1>1, <1>2, <1>4 DEF DataViewsAims, Report, Goto, Fail, runVars
  <2> QED BY <1>1, <2>2, <2>3, DataViewsAlone
<1>5. CASE Goto("check_default") /\ stack' = stack
  <2>1. HeadStays /\ rows \subseteq rows'
    BY <1>1, <1>5, GotoIs
  <2>2. KeptBut(h)
    BY <1>1, <1>2, <1>5, <2>1, DataViewsKept
  <2>3. SettledInv'
    BY <1>1, <1>2, <2>1, <2>2, LoopSettles
  <2>4. DataViewsAims'
    BY <1>1, <1>2, <1>5 DEF DataViewsAims, Report, Goto, Fail, runVars
  <2> QED BY <1>1, <2>3, <2>4, DataViewsAlone
<1> QED BY <1>3, <1>4, <1>5

\* A default that is as shown is not a view that is deleted.
LEMMA DataViewsCheckDefaultSettles ==
    ASSUME IInv, SuccessInv, cmd.family = "data_views", DataViews!CheckDefault
    PROVE  SuccessInv'
<1>1. /\ pc = "check_default" /\ cmd.op \in {"delete", "swap"} /\ cmd' = cmd /\ plan' = plan
      /\ cmd.targets \in SUBSET Ids /\ moved' \in {moved, moved \ {0}}
      /\ cmd.op = "swap" => \E o \in Ids : cmd.targets = {o} /\ cmd.by # o /\ cmd.by \in Ids
  BY DEF IInv, CmdOK, DataViewsInv, SuccessInv, DataViewsAims, DataViews!CheckDefault,
     DataViews!Read, DataViews!Checked, DataViews!None
<1>2. /\ Looping /\ Head(todo) \in Ids /\ Head(todo) \in Range(todo) /\ SettledInv
      /\ 0 \notin Ids
      /\ Head(todo) \in cmd.targets \/ cmd.op = "import_lists"
      /\ DataViewsAims /\ stack \in DataViews!StackType
  <2>1. Looping
    BY <1>1 DEF Looping, Ended, Planning, Wholesale
  <2> QED BY <2>1, LoopFacts, HeadIsTarget, CommandAssumption DEF CommandAssumption, IInv,
         SuccessInv, TypeOK, StackType
<1>3. \/ Report(Head(todo), "failed", FALSE) /\ stack' = stack
      \/ /\ Goto(cmd.op) /\ stack' = stack
         /\ stack.default = plan.default
              /\ (cmd.op = "delete" => plan.default \notin cmd.targets)
  BY <1>1, <1>2 DEF DataViews!CheckDefault, DataViews!Read, DataViews!Checked,
     DataViews!Fail, Fail, DataViews!Report, Report, DataViews!Row, Row, DataViews!Goto, Goto,
     DataViews!None, SuccessInv, DataViewsAims, Guard, DataViews!StackType
<1> PICK h : h = Head(todo)
  OBVIOUS
<1>4. CASE Report(Head(todo), "failed", FALSE) /\ stack' = stack
  <2>1. RowFails
    BY <1>4, ReportIs
  <2>2. SettledInv'
    BY <2>1, FailureSettles
  <2>3. DataViewsAims'
    BY <1>1, <1>2, <1>4 DEF DataViewsAims, Report, Goto, Fail, runVars
  <2> QED BY <1>1, <2>2, <2>3, DataViewsAlone
<1>5. CASE /\ Goto(cmd.op) /\ stack' = stack
           /\ stack.default = plan.default
                /\ (cmd.op = "delete" => plan.default \notin cmd.targets)
  <2>1. HeadStays /\ rows \subseteq rows'
    BY <1>1, <1>5, GotoIs
  <2>2. KeptBut(h)
    BY <1>1, <1>2, <1>5, <2>1, DataViewsKept
  <2>3. SettledInv'
    BY <1>1, <1>2, <2>1, <2>2, LoopSettles
  <2>4. DataViewsAims'
    BY <1>1, <1>2, <1>5 DEF DataViewsAims, Report, Goto, Fail, runVars
  <2> QED BY <1>1, <2>3, <2>4, DataViewsAlone
<1> QED BY <1>3, <1>4, <1>5

\* A view that is deleted is gone, and not the default.
LEMMA DataViewsDeleteSettles ==
    ASSUME IInv, SuccessInv, cmd.family = "data_views", DataViews!Delete
    PROVE  SuccessInv'
<1>1. /\ pc = "delete" /\ cmd.op = "delete" /\ cmd' = cmd /\ plan' = plan
      /\ cmd.targets \in SUBSET Ids /\ moved' = moved
      /\ 0 \in moved \/ stack.default \notin cmd.targets
  BY DEF IInv, CmdOK, DataViewsInv, SuccessInv, DataViewsAims, DataViews!Delete
<1>2. /\ Looping /\ Head(todo) \in Ids /\ Head(todo) \in Range(todo) /\ SettledInv
      /\ 0 \notin Ids
      /\ Head(todo) \in cmd.targets \/ cmd.op = "import_lists"
      /\ DataViewsAims /\ stack \in DataViews!StackType
  <2>1. Looping
    BY <1>1 DEF Looping, Ended, Planning, Wholesale
  <2> QED BY <2>1, LoopFacts, HeadIsTarget, CommandAssumption DEF CommandAssumption, IInv,
         SuccessInv, TypeOK, StackType
<1>3. \/ Report(Head(todo), "failed", FALSE) /\ stack' = stack
      \/ Report(Head(todo), "failed", FALSE)
           /\ stack' = [stack EXCEPT !.view[Head(todo)] = DataViews!Absent]
      \/ /\ Report(Head(todo), "deleted", TRUE)
         /\ stack' = [stack EXCEPT !.view[Head(todo)] = DataViews!Absent]
      \/ UNCHANGED runVars /\ stack' = [stack EXCEPT !.view[Head(todo)] = DataViews!Absent]
  BY <1>1, <1>2 DEF DataViews!Delete, DataViews!Mutate, DataViews!MutateAll,
     DataViews!Report, Report, DataViews!Row, Row, DataViews!Goto, Goto, DataViews!runVars,
     runVars, Guard, DataViews!StackType
<1> PICK h : h = Head(todo)
  OBVIOUS
<1>4. CASE Report(Head(todo), "failed", FALSE) /\ stack' = stack
  <2>1. RowFails
    BY <1>4, ReportIs
  <2>2. SettledInv'
    BY <2>1, FailureSettles
  <2>3. DataViewsAims'
    BY <1>1, <1>2, <1>4 DEF DataViewsAims, Report, Goto, Fail, runVars
  <2> QED BY <1>1, <2>2, <2>3, DataViewsAlone
<1>5. CASE Report(Head(todo), "failed", FALSE)
             /\ stack' = [stack EXCEPT !.view[Head(todo)] = DataViews!Absent]
  <2>1. RowFails
    BY <1>5, ReportIs
  <2>2. SettledInv'
    BY <2>1, FailureSettles
  <2>3. DataViewsAims'
    BY <1>1, <1>2, <1>5 DEF DataViewsAims, Report, Goto, Fail, runVars
  <2> QED BY <1>1, <2>2, <2>3, DataViewsAlone
<1>6. CASE /\ Report(Head(todo), "deleted", TRUE)
           /\ stack' = [stack EXCEPT !.view[Head(todo)] = DataViews!Absent]
  <2>1. HeadReported /\ rows \subseteq rows'
    BY <1>6, ReportIs
  <2>2. KeptBut(h)
    BY <1>1, <1>2, <1>6, <2>1, DataViewsKept
  <2>3. stack'.view[h] = DataViews!Absent /\ (0 \in moved' \/ stack'.default # h)
          /\ cmd'.op = "delete"
    BY <1>1, <1>2, <1>6 DEF DataViews!StackType
  <2>4. Settled(h)'
    BY <1>1, <2>3, DataViewsGoal DEF Settled, DataViews!Goal, DataViews!None
  <2>5. SettledInv'
    BY <1>1, <1>2, <2>1, <2>2, <2>4, LoopSettles
  <2>6. DataViewsAims'
    BY <1>1, <1>2, <1>6 DEF DataViewsAims, Report, Goto, Fail, runVars
  <2> QED BY <1>1, <2>5, <2>6, DataViewsAlone
<1>7. CASE UNCHANGED runVars /\ stack' = [stack EXCEPT !.view[Head(todo)] = DataViews!Absent]
  <2>1. HeadStays /\ rows \subseteq rows'
    BY <1>1, <1>2, <1>7 DEF HeadStays, runVars, Looping, Ended
  <2>2. KeptBut(h)
    BY <1>1, <1>2, <1>7, <2>1, DataViewsKept
  <2>3. SettledInv'
    BY <1>1, <1>2, <2>1, <2>2, LoopSettles
  <2>4. DataViewsAims'
    BY <1>1, <1>2, <1>7 DEF DataViewsAims, Report, Goto, Fail, runVars
  <2> QED BY <1>1, <2>3, <2>4, DataViewsAlone
<1> QED BY <1>3, <1>4, <1>5, <1>6, <1>7

\* A view that is replaced is gone with its references; its default is next.
LEMMA DataViewsSwapSettles ==
    ASSUME IInv, SuccessInv, cmd.family = "data_views", DataViews!Swap
    PROVE  SuccessInv'
<1>1. /\ pc = "swap" /\ cmd.op \in {"swap"} /\ cmd' = cmd /\ plan' = plan
      /\ cmd.targets \in SUBSET Ids /\ moved' = moved
      /\ cmd.op = "swap" => \E o \in Ids : cmd.targets = {o} /\ cmd.by # o /\ cmd.by \in Ids
  BY DEF IInv, CmdOK, DataViewsInv, SuccessInv, DataViewsAims, DataViews!Swap
<1>2. /\ Looping /\ Head(todo) \in Ids /\ Head(todo) \in Range(todo) /\ SettledInv
      /\ 0 \notin Ids
      /\ Head(todo) \in cmd.targets \/ cmd.op = "import_lists"
      /\ DataViewsAims /\ stack \in DataViews!StackType
  <2>1. Looping
    BY <1>1 DEF Looping, Ended, Planning, Wholesale
  <2> QED BY <2>1, LoopFacts, HeadIsTarget, CommandAssumption DEF CommandAssumption, IInv,
         SuccessInv, TypeOK, StackType
<1>3. \/ Report(Head(todo), "failed", FALSE) /\ TRUE
      \/ /\ Report(Head(todo), "deleted", TRUE) /\ plan.default # Head(todo)
         /\ stack' = [stack EXCEPT !.view[Head(todo)] = DataViews!Absent,
              !.refs[Head(todo)] = {},
                                !.refs[cmd.by] = @ \cup stack.refs[Head(todo)]]
      \/ /\ Goto("reread_default")
         /\ stack' = [stack EXCEPT !.view[Head(todo)] = DataViews!Absent,
              !.refs[Head(todo)] = {},
                                !.refs[cmd.by] = @ \cup stack.refs[Head(todo)]]
      \/ UNCHANGED runVars
         /\ stack' = [stack EXCEPT !.view[Head(todo)] = DataViews!Absent,
              !.refs[Head(todo)] = {},
                                !.refs[cmd.by] = @ \cup stack.refs[Head(todo)]]
  BY <1>1, <1>2 DEF DataViews!Swap, DataViews!Mutate, DataViews!MutateAll, DataViews!Report,
     Report, DataViews!Row, Row, DataViews!Goto, Goto, DataViews!runVars, runVars,
     DataViews!None, Guard, DataViews!StackType
<1> PICK h : h = Head(todo)
  OBVIOUS
<1>4. CASE Report(Head(todo), "failed", FALSE) /\ TRUE
  <2>1. RowFails
    BY <1>4, ReportIs
  <2>2. SettledInv'
    BY <2>1, FailureSettles
  <2>3. DataViewsAims'
    BY <1>1, <1>2, <1>4 DEF DataViewsAims, Report, Goto, Fail, runVars, DataViews!StackType
  <2> QED BY <1>1, <2>2, <2>3, DataViewsAlone
<1>5. CASE /\ Report(Head(todo), "deleted", TRUE) /\ plan.default # Head(todo)
           /\ stack' = [stack EXCEPT !.view[Head(todo)] = DataViews!Absent,
                !.refs[Head(todo)] = {},
                                      !.refs[cmd.by] = @ \cup stack.refs[Head(todo)]]
  <2>1. HeadReported /\ rows \subseteq rows'
    BY <1>5, ReportIs
  <2>2. KeptBut(h)
    BY <1>1, <1>2, <1>5, <2>1, DataViewsKept
  <2>3. stack'.view[h] = DataViews!Absent /\ stack'.refs[h] = {}
          /\ (0 \in moved' \/ stack'.default # h) /\ cmd'.op = "swap"
    BY <1>1, <1>2, <1>5 DEF DataViews!StackType, DataViewsAims
  <2>4. Settled(h)'
    BY <1>1, <2>3, DataViewsGoal DEF Settled, DataViews!Goal, DataViews!None
  <2>5. SettledInv'
    BY <1>1, <1>2, <2>1, <2>2, <2>4, LoopSettles
  <2>6. DataViewsAims'
    BY <1>1, <1>2, <1>5 DEF DataViewsAims, Report, Goto, Fail, runVars, DataViews!StackType
  <2> QED BY <1>1, <2>5, <2>6, DataViewsAlone
<1>6. CASE /\ Goto("reread_default")
           /\ stack' = [stack EXCEPT !.view[Head(todo)] = DataViews!Absent,
                !.refs[Head(todo)] = {},
                                      !.refs[cmd.by] = @ \cup stack.refs[Head(todo)]]
  <2>1. HeadStays /\ rows \subseteq rows'
    BY <1>1, <1>6, GotoIs
  <2>2. KeptBut(h)
    BY <1>1, <1>2, <1>6, <2>1, DataViewsKept
  <2>3. SettledInv'
    BY <1>1, <1>2, <2>1, <2>2, LoopSettles
  <2>4. DataViewsAims'
    BY <1>1, <1>2, <1>6 DEF DataViewsAims, Report, Goto, Fail, runVars, DataViews!StackType
  <2> QED BY <1>1, <2>3, <2>4, DataViewsAlone
<1>7. CASE UNCHANGED runVars
               /\ stack' = [stack EXCEPT !.view[Head(todo)] = DataViews!Absent,
                    !.refs[Head(todo)] = {},
                                      !.refs[cmd.by] = @ \cup stack.refs[Head(todo)]]
  <2>1. HeadStays /\ rows \subseteq rows'
    BY <1>1, <1>2, <1>7 DEF HeadStays, runVars, Looping, Ended
  <2>2. KeptBut(h)
    BY <1>1, <1>2, <1>7, <2>1, DataViewsKept
  <2>3. SettledInv'
    BY <1>1, <1>2, <2>1, <2>2, LoopSettles
  <2>4. DataViewsAims'
    BY <1>1, <1>2, <1>7 DEF DataViewsAims, Report, Goto, Fail, runVars, DataViews!StackType
  <2> QED BY <1>1, <2>3, <2>4, DataViewsAlone
<1> QED BY <1>3, <1>4, <1>5, <1>6, <1>7

\* A default that somebody moved to the replacement is not moved again.
LEMMA DataViewsRereadDefaultSettles ==
    ASSUME IInv, SuccessInv, cmd.family = "data_views", DataViews!RereadDefault
    PROVE  SuccessInv'
<1>1. /\ pc = "reread_default" /\ cmd.op \in {"swap"} /\ cmd' = cmd /\ plan' = plan
      /\ cmd.targets \in SUBSET Ids /\ moved' \in {moved, moved \ {0}}
      /\ cmd.op = "swap" => \E o \in Ids : cmd.targets = {o} /\ cmd.by # o /\ cmd.by \in Ids
  BY DEF IInv, CmdOK, DataViewsInv, SuccessInv, DataViewsAims, DataViews!RereadDefault,
     DataViews!Read, DataViews!Checked, DataViews!None
<1>2. /\ Looping /\ Head(todo) \in Ids /\ Head(todo) \in Range(todo) /\ SettledInv
      /\ 0 \notin Ids
      /\ Head(todo) \in cmd.targets \/ cmd.op = "import_lists"
      /\ DataViewsAims /\ stack \in DataViews!StackType
  <2>1. Looping
    BY <1>1 DEF Looping, Ended, Planning, Wholesale
  <2> QED BY <2>1, LoopFacts, HeadIsTarget, CommandAssumption DEF CommandAssumption, IInv,
         SuccessInv, TypeOK, StackType
<1>3. \/ Report(Head(todo), "failed", TRUE) /\ stack' = stack
      \/ /\ Report(Head(todo), "deleted", TRUE)
         /\ stack' = stack /\ stack.default = cmd.by
      \/ Goto("move_default") /\ stack' = stack
  BY <1>1, <1>2 DEF DataViews!RereadDefault, DataViews!Read, DataViews!Checked,
     DataViews!Fail, Fail, DataViews!Report, Report, DataViews!Row, Row, DataViews!Goto, Goto,
     DataViews!None, Guard, DataViews!StackType
<1> PICK h : h = Head(todo)
  OBVIOUS
<1>4. CASE Report(Head(todo), "failed", TRUE) /\ stack' = stack
  <2>1. RowFails
    BY <1>4, ReportIs
  <2>2. SettledInv'
    BY <2>1, FailureSettles
  <2>3. DataViewsAims'
    BY <1>1, <1>2, <1>4 DEF DataViewsAims, Report, Goto, Fail, runVars
  <2> QED BY <1>1, <2>2, <2>3, DataViewsAlone
<1>5. CASE /\ Report(Head(todo), "deleted", TRUE)
           /\ stack' = stack /\ stack.default = cmd.by
  <2>1. HeadReported /\ rows \subseteq rows'
    BY <1>5, ReportIs
  <2>2. KeptBut(h)
    BY <1>1, <1>2, <1>5, <2>1, DataViewsKept
  <2>3. /\ h \in moved' \/ (stack'.view[h] = DataViews!Absent /\ stack'.refs[h] = {})
        /\ stack'.default # h /\ cmd'.op = "swap"
    BY <1>1, <1>2, <1>5 DEF DataViews!StackType, DataViewsAims
  <2>4. Settled(h)'
    BY <1>1, <2>3, DataViewsGoal DEF Settled, DataViews!Goal, DataViews!None
  <2>5. SettledInv'
    BY <1>1, <1>2, <2>1, <2>2, <2>4, LoopSettles
  <2>6. DataViewsAims'
    BY <1>1, <1>2, <1>5 DEF DataViewsAims, Report, Goto, Fail, runVars
  <2> QED BY <1>1, <2>5, <2>6, DataViewsAlone
<1>6. CASE Goto("move_default") /\ stack' = stack
  <2>1. HeadStays /\ rows \subseteq rows'
    BY <1>1, <1>6, GotoIs
  <2>2. KeptBut(h)
    BY <1>1, <1>2, <1>6, <2>1, DataViewsKept
  <2>3. SettledInv'
    BY <1>1, <1>2, <2>1, <2>2, LoopSettles
  <2>4. DataViewsAims'
    BY <1>1, <1>2, <1>6 DEF DataViewsAims, Report, Goto, Fail, runVars
  <2> QED BY <1>1, <2>3, <2>4, DataViewsAlone
<1> QED BY <1>3, <1>4, <1>5, <1>6

\* The default is the replacement when the row says so.
LEMMA DataViewsMoveDefaultSettles ==
    ASSUME IInv, SuccessInv, cmd.family = "data_views", DataViews!MoveDefault
    PROVE  SuccessInv'
<1>1. /\ pc = "move_default" /\ cmd.op \in {"swap"} /\ cmd' = cmd /\ plan' = plan
      /\ cmd.targets \in SUBSET Ids /\ moved' = moved
      /\ cmd.op = "swap" => \E o \in Ids : cmd.targets = {o} /\ cmd.by # o /\ cmd.by \in Ids
  BY DEF IInv, CmdOK, DataViewsInv, SuccessInv, DataViewsAims, DataViews!MoveDefault
<1>2. /\ Looping /\ Head(todo) \in Ids /\ Head(todo) \in Range(todo) /\ SettledInv
      /\ 0 \notin Ids
      /\ Head(todo) \in cmd.targets \/ cmd.op = "import_lists"
      /\ DataViewsAims /\ stack \in DataViews!StackType
  <2>1. Looping
    BY <1>1 DEF Looping, Ended, Planning, Wholesale
  <2> QED BY <2>1, LoopFacts, HeadIsTarget, CommandAssumption DEF CommandAssumption, IInv,
         SuccessInv, TypeOK, StackType
<1>3. \/ Report(Head(todo), "failed", TRUE) /\ TRUE
      \/ /\ Report(Head(todo), "deleted", TRUE)
         /\ stack' = [stack EXCEPT !.default = cmd.by]
      \/ UNCHANGED runVars /\ stack' = [stack EXCEPT !.default = cmd.by]
  BY <1>1, <1>2 DEF DataViews!MoveDefault, DataViews!Mutate, DataViews!MutateAll,
     DataViews!Report, Report, DataViews!Row, Row, DataViews!Goto, Goto, DataViews!runVars,
     runVars, DataViews!None, Guard, DataViews!StackType
<1> PICK h : h = Head(todo)
  OBVIOUS
<1>4. CASE Report(Head(todo), "failed", TRUE) /\ TRUE
  <2>1. RowFails
    BY <1>4, ReportIs
  <2>2. SettledInv'
    BY <2>1, FailureSettles
  <2>3. DataViewsAims'
    BY <1>1, <1>2, <1>4 DEF DataViewsAims, Report, Goto, Fail, runVars
  <2> QED BY <1>1, <2>2, <2>3, DataViewsAlone
<1>5. CASE /\ Report(Head(todo), "deleted", TRUE)
           /\ stack' = [stack EXCEPT !.default = cmd.by]
  <2>1. HeadReported /\ rows \subseteq rows'
    BY <1>5, ReportIs
  <2>2. KeptBut(h)
    BY <1>1, <1>2, <1>5, <2>1, DataViewsKept
  <2>3. /\ h \in moved' \/ (stack'.view[h] = DataViews!Absent /\ stack'.refs[h] = {})
        /\ stack'.default # h /\ cmd'.op = "swap"
    BY <1>1, <1>2, <1>5 DEF DataViews!StackType, DataViewsAims
  <2>4. Settled(h)'
    BY <1>1, <2>3, DataViewsGoal DEF Settled, DataViews!Goal, DataViews!None
  <2>5. SettledInv'
    BY <1>1, <1>2, <2>1, <2>2, <2>4, LoopSettles
  <2>6. DataViewsAims'
    BY <1>1, <1>2, <1>5 DEF DataViewsAims, Report, Goto, Fail, runVars
  <2> QED BY <1>1, <2>5, <2>6, DataViewsAlone
<1>6. CASE UNCHANGED runVars /\ stack' = [stack EXCEPT !.default = cmd.by]
  <2>1. HeadStays /\ rows \subseteq rows'
    BY <1>1, <1>2, <1>6 DEF HeadStays, runVars, Looping, Ended
  <2>2. KeptBut(h)
    BY <1>1, <1>2, <1>6, <2>1, DataViewsKept
  <2>3. SettledInv'
    BY <1>1, <1>2, <2>1, <2>2, LoopSettles
  <2>4. DataViewsAims'
    BY <1>1, <1>2, <1>6 DEF DataViewsAims, Report, Goto, Fail, runVars
  <2> QED BY <1>1, <2>3, <2>4, DataViewsAlone
<1> QED BY <1>3, <1>4, <1>5, <1>6

\* A default that is already the one asked for is there.
LEMMA DataViewsApplyDefaultSettles ==
    ASSUME IInv, SuccessInv, cmd.family = "data_views", DataViews!ApplyDefault
    PROVE  SuccessInv'
<1>1. /\ pc = "apply_default" /\ cmd.op = "default" /\ cmd' = cmd /\ stack' = stack
      /\ cmd.targets = {0}
  BY DEF IInv, CmdOK, DataViewsInv, DataViews!ApplyDefault
<1>2. pc' \in {"failed", "set_default"} \/ (pc' = "done" /\ stack.default = cmd.after)
  BY DEF DataViews!ApplyDefault, DataViews!Read, DataViews!Checked, DataViews!Fail, Fail,
     DataViews!Goto, Goto
<1>3. SettledInv'
  <2>1. CASE pc' \in {"failed", "set_default"}
    BY <2>1, NothingToSettle DEF Looping, Ended, Wholesale
  <2>2. CASE pc' = "done" /\ stack.default = cmd.after
    <3>1. DataViews!Goal(0)'
      BY <1>1, <2>2 DEF DataViews!Goal
    <3>2. \A o \in cmd.targets : Settled(o)'
      BY <1>1, <3>1, DataViewsGoal DEF Settled
    <3> QED BY <1>1, <3>2 DEF SettledInv
  <2> QED BY <1>2, <2>1, <2>2
<1>4. DataViewsAims'
  BY <1>1, <1>2 DEF DataViewsAims
<1> QED BY <1>1, <1>3, <1>4, DataViewsAlone

\* The default that was set is the one asked for.
LEMMA DataViewsSetDefaultSettles ==
    ASSUME IInv, SuccessInv, cmd.family = "data_views", DataViews!SetDefault
    PROVE  SuccessInv'
<1>1. /\ pc = "set_default" /\ cmd.op = "default" /\ cmd' = cmd
      /\ cmd.targets = {0} /\ stack \in DataViews!StackType
  BY DEF IInv, CmdOK, DataViewsInv, DataViews!SetDefault, TypeOK, StackType
<1>2. pc' \in {"failed", "set_default"} \/ (pc' = "done" /\ stack'.default = cmd.after)
  BY <1>1 DEF DataViews!SetDefault, DataViews!Mutate, DataViews!MutateAll, DataViews!Goto,
     Goto, DataViews!Fail, Fail, DataViews!runVars, runVars, DataViews!StackType
<1>3. SettledInv'
  <2>1. CASE pc' \in {"failed", "set_default"}
    BY <2>1, NothingToSettle DEF Looping, Ended, Wholesale
  <2>2. CASE pc' = "done" /\ stack'.default = cmd.after
    <3>1. DataViews!Goal(0)'
      BY <1>1, <2>2 DEF DataViews!Goal
    <3>2. \A o \in cmd.targets : Settled(o)'
      BY <1>1, <3>1, DataViewsGoal DEF Settled
    <3> QED BY <1>1, <3>2 DEF SettledInv
  <2> QED BY <1>2, <2>1, <2>2
<1>4. DataViewsAims'
  BY <1>1, <1>2 DEF DataViewsAims
<1> QED BY <1>1, <1>3, <1>4, DataViewsAlone

\* What another client changes is its own affair.
LEMMA DataViewsOthersEditSettles ==
    ASSUME IInv, SuccessInv, cmd.family = "data_views", DataViews!OthersEdit
    PROVE  SuccessInv'
<1>1. /\ UNCHANGED <<cmd, pc, todo, plan, writes, rows, faults>> /\ ~Ended
           /\ moved \subseteq moved'
      /\ stack \in DataViews!StackType /\ SettledInv /\ DataViewsAims /\ 0 \notin Ids
  BY CommandAssumption DEF DataViews!OthersEdit, DataViews!Edit, DataViews!Ended, Ended,
     IInv, SuccessInv, TypeOK, StackType, CommandAssumption
<1>2. \/ \E o \in Ids :
            /\ o \in moved' /\ stack'.default = stack.default
            /\ \A x \in Ids : x # o =>
                  stack'.view[x] = stack.view[x] /\ stack'.refs[x] = stack.refs[x]
      \/ 0 \in moved' /\ stack'.view = stack.view /\ stack'.refs = stack.refs
         /\ cmd.op # "import"
  BY <1>1 DEF DataViews!OthersEdit, DataViews!Edit, DataViews!None, DataViews!StackType
<1>3. /\ cmd.targets \subseteq Ids \/ (cmd.op = "default" /\ cmd.targets = {0})
      /\ cmd.op \in {"import", "delete", "swap", "default"}
  BY DEF IInv, CmdOK, OpOK
<1>4. SettledInv'
  <2>1. ASSUME cmd.targets \subseteq Ids, cmd.op # "default", NEW x \in cmd.targets,
                 x \notin moved', DataViews!Goal(x)
        PROVE  DataViews!Goal(x)'
    <3>1. x \in Ids /\ x # 0
      BY <1>1, <2>1
    <3>2. stack'.view[x] = stack.view[x] /\ stack'.refs[x] = stack.refs[x]
      BY <1>2, <2>1, <3>1
    <3>3. cmd.op # "import" => stack'.default = stack.default \/ 0 \in moved'
      BY <1>2
    <3>4. cmd' = cmd /\ (0 \in moved => 0 \in moved')
      BY <1>1
    <3> QED BY <1>3, <2>1, <3>2, <3>3, <3>4 DEF DataViews!Goal, DataViews!None
  <2>2. CASE cmd.op # "default"
    <3>1. cmd.targets \subseteq Ids
      BY <1>3, <2>2
    <3>2. ASSUME NEW x \in cmd.targets, Settled(x) PROVE Settled(x)'
      BY <1>1, <2>1, <2>2, <3>1, <3>2, DataViewsGoal DEF Settled
    <3> QED BY <1>1, <3>2, OthersSettle
  <2>3. CASE cmd.op = "default"
    <3>1. ~Looping
      BY <2>3, DefaultNeverLoops, CommandAssumption
    <3>2. pc' # "done" /\ ~Looping'
      BY <1>1, <3>1 DEF Ended, Looping, Planning, Wholesale
    <3> QED BY <3>2, NothingToSettle
  <2> QED BY <2>2, <2>3
<1>5. DataViewsAims'
  <2>1. pc \in {"reread_default", "move_default"} => Head(todo) \in Ids
    <3>1. pc \in {"reread_default", "move_default"} => Looping
      BY DEF Looping, Ended, Planning, Wholesale
    <3> QED BY <3>1, LoopFacts DEF IInv
  <2>2. pc \in {"delete", "swap"} => 0 \in moved' \/ stack'.default = plan.default
    BY <1>1, <1>2 DEF DataViewsAims
  <2>3. pc \in {"reread_default", "move_default"} =>
          \/ Head(todo) \in moved'
          \/ stack'.view[Head(todo)] = DataViews!Absent /\ stack'.refs[Head(todo)] = {}
    BY <1>1, <1>2, <2>1 DEF DataViewsAims
  <2> QED BY <1>1, <2>2, <2>3 DEF DataViewsAims
<1> QED BY <1>1, <1>4, <1>5, DataViewsAlone

\* Every step of a data view command.
LEMMA DataViewsSettle ==
    ASSUME IInv, SuccessInv, cmd.family = "data_views", DataViews!Next
    PROVE  SuccessInv'
BY DataViewsPlanningSettles, DataViewsCheckImportSettles, DataViewsCreateSettles,
   DataViewsUpdateBaseSettles, DataViewsUpdateMetaSettles, DataViewsVerifySettles,
   DataViewsPlanImportSettles, DataViewsPlanDeleteSettles, DataViewsCheckReferencesSettles,
   DataViewsCheckDefaultSettles, DataViewsDeleteSettles, DataViewsSwapSettles,
   DataViewsRereadDefaultSettles, DataViewsMoveDefaultSettles, DataViewsApplyDefaultSettles,
   DataViewsSetDefaultSettles, DataViewsOthersEditSettles DEF DataViews!Next
-----------------------------------------------------------------------------
(* Dashboards.                                                                *)

\* The aims of the other components are not this one's.
LEMMA DashboardsAlone ==
    ASSUME cmd.family = "dashboards", cmd' = cmd, SettledInv'
    PROVE  SuccessInv'
BY DEF SuccessInv, DataViewsAims, AgentPoliciesAims, TriageAims, DetectionAims

\* The goal of a dashboard command.
LEMMA DashboardsGoal ==
    ASSUME cmd.family = "dashboards", cmd' = cmd, NEW o
    PROVE  /\ Goal(o) <=> Dashboards!Goal(o)
           /\ Goal(o)' <=> Dashboards!Goal(o)'
BY DEF Goal

\* A dashboard stays settled while its requests do not reach it.
LEMMA DashboardsKept ==
    ASSUME cmd.family = "dashboards", cmd' = cmd, rows \subseteq rows', NEW h,
           \A o \in cmd.targets : o # h =>
               (o \in moved => o \in moved') /\ stack'.board[o] = stack.board[o]
    PROVE  KeptBut(h)
<1> SUFFICES ASSUME NEW o \in cmd.targets, o # h, Settled(o) PROVE Settled(o)'
  BY DEF KeptBut
<1>1. (o \in moved => o \in moved') /\ stack'.board[o] = stack.board[o]
  OBVIOUS
<1>2. Dashboards!Goal(o) => Dashboards!Goal(o)'
  BY <1>1 DEF Dashboards!Goal
<1> QED BY <1>1, <1>2, DashboardsGoal, StaysSettled

\* Planning a dashboard command asks nothing of the loop.
LEMMA DashboardsPlanningSettles ==
    ASSUME IInv, SuccessInv, cmd.family = "dashboards",
           \/ Dashboards!BeginImport \/ Dashboards!Preflight \/ Dashboards!PreflightViews
                \/ Dashboards!BeginDelete \/ Dashboards!Resolve \/ Dashboards!PlanBundle
    PROVE  SuccessInv'
<1> DEFINE Quiet ==
             /\ cmd' = cmd
             /\ \/ pc' \in {"preflight", "failed", "plan", "resolve", "import_bundle"}
                \/ pc' = "done" /\ ~cmd.yes
<1>1. Dashboards!BeginImport => Quiet
  BY DEF Dashboards!BeginImport
<1>2. Dashboards!Preflight => Quiet
  BY DEF Dashboards!Preflight, Dashboards!Read, Dashboards!Checked, Dashboards!Fail, Fail,
     Dashboards!Goto, Goto
<1>3. Dashboards!PreflightViews => Quiet
  BY DEF Dashboards!PreflightViews, Dashboards!Read, Dashboards!Checked, Dashboards!Fail,
     Fail, Dashboards!Goto, Goto
<1>4. Dashboards!BeginDelete => Quiet
  BY DEF Dashboards!BeginDelete
<1>5. Dashboards!Resolve => Quiet
  BY DEF Dashboards!Resolve, Dashboards!Read, Dashboards!Checked, Dashboards!Fail, Fail,
     Dashboards!Goto, Goto
<1>6. Dashboards!PlanBundle => Quiet
  BY DEF Dashboards!PlanBundle, Dashboards!Goto, Goto
<1> HIDE DEF Quiet
<1>7. Quiet
  BY <1>1, <1>2, <1>3, <1>4, <1>5, <1>6
<1> USE DEF Quiet
<1>8. SettledInv'
  <2>1. CASE ~cmd.yes
    BY <1>7, <2>1, NothingToSettle
  <2>2. CASE cmd.yes
    <3>1. pc' # "done" /\ ~Looping'
      BY <1>7, <2>2 DEF Looping, Planning, Ended, Wholesale
    <3> QED BY <3>1, NothingToSettle
  <2> QED BY <2>1, <2>2
<1>9. cmd' = cmd
  BY <1>7
<1> QED BY <1>8, <1>9, DashboardsAlone

\* What an import does not skip is for its loop.
LEMMA DashboardsPlanImportSettles ==
    ASSUME IInv, SuccessInv, cmd.family = "dashboards", Dashboards!PlanImport
    PROVE  SuccessInv'
<1>1. cmd' = cmd /\ pc = "plan" /\ stack' = stack /\ cmd.op = "import"
  BY DEF Dashboards!PlanImport, IInv, DashboardsInv
<1>2. Dashboards!Skipped \subseteq DOMAIN plan.before /\ cmd.targets \in SUBSET Ids
  BY <1>1 DEF IInv, CmdOK, Dashboards!Skipped, Dashboards!Existing
<1>3. \/ pc' = "failed"
      \/ /\ Guard([before |-> [o \in cmd.targets \ Dashboards!Skipped |-> plan.before[o]]],
                  Sorted(cmd.targets \ Dashboards!Skipped))
         /\ rows' = {Row(o, "skipped", FALSE) : o \in Dashboards!Skipped}
  BY SameOrder DEF Dashboards!PlanImport, Dashboards!Fail, Fail, Dashboards!Goto, Goto,
     Dashboards!Row, Row, Dashboards!Guard, Guard
<1>4. SettledInv'
  <2>1. CASE pc' = "failed"
    BY <2>1, NothingToSettle DEF Looping, Ended
  <2>2. CASE /\ Guard([before |-> [o
                  \in cmd.targets \ Dashboards!Skipped |-> plan.before[o]]],
                      Sorted(cmd.targets \ Dashboards!Skipped))
             /\ rows' = {Row(o, "skipped", FALSE) : o \in Dashboards!Skipped}
    <3>1. Range(Sorted(cmd.targets \ Dashboards!Skipped)) = cmd.targets \ Dashboards!Skipped
      BY <1>2, SortedFacts, CommandAssumption
    <3>2. ASSUME NEW o \in Dashboards!Skipped PROVE Settled(o)'
      <4>1. Row(o, "skipped", FALSE) \in rows'
        BY <2>2
      <4> QED BY <4>1 DEF Row, Settled
    <3> QED BY <1>1, <2>2, <3>1, <3>2, GuardSettles
  <2> QED BY <1>3, <2>1, <2>2
<1> QED BY <1>1, <1>4, DashboardsAlone

\* Every dashboard to delete is for the loop.
LEMMA DashboardsPlanDeleteSettles ==
    ASSUME IInv, SuccessInv, cmd.family = "dashboards", Dashboards!PlanDelete
    PROVE  SuccessInv'
<1>1. cmd' = cmd /\ cmd.op = "delete" /\ Guard(plan, Sorted(cmd.targets))
  BY SameOrder DEF Dashboards!PlanDelete, Dashboards!Guard, Guard, IInv, DashboardsInv
<1>2. Range(Sorted(cmd.targets)) = cmd.targets
  <2>1. cmd.targets \in SUBSET Ids
    BY <1>1 DEF IInv, CmdOK
  <2> QED BY <2>1, SortedFacts, CommandAssumption
<1>3. SettledInv'
  BY <1>1, <1>2, GuardSettles
<1> QED BY <1>1, <1>3, DashboardsAlone

\* A dashboard that is as the file has it needs no request.
LEMMA DashboardsCheckImportSettles ==
    ASSUME IInv, SuccessInv, cmd.family = "dashboards", Dashboards!CheckImport
    PROVE  SuccessInv'
<1>1. /\ pc = "check" /\ cmd.op = "import" /\ cmd' = cmd
      /\ cmd.targets \in SUBSET Ids /\ moved' \in {moved, moved \ {Head(todo)}}
  BY DEF IInv, CmdOK, DashboardsInv, Dashboards!CheckImport, Dashboards!Read,
     Dashboards!Checked
<1>2. /\ Looping /\ Head(todo) \in Ids /\ Head(todo) \in Range(todo) /\ SettledInv
      /\ 0 \notin Ids
      /\ Head(todo) \in cmd.targets \/ cmd.op = "import_lists"
      /\ stack \in Dashboards!StackType
  <2>1. Looping
    BY <1>1 DEF Looping, Ended, Planning, Wholesale
  <2> QED BY <2>1, LoopFacts, HeadIsTarget, CommandAssumption DEF CommandAssumption, IInv,
         SuccessInv, TypeOK, StackType
<1>3. \/ Report(Head(todo), "failed", FALSE) /\ stack' = stack
      \/ /\ Report(Head(todo), "unchanged", FALSE)
         /\ stack' = stack /\ stack.board[Head(todo)] = Dashboards!Desired
      \/ Goto("put") /\ stack' = stack
  BY <1>1, <1>2 DEF Dashboards!CheckImport, Dashboards!Read, Dashboards!Checked,
     Dashboards!Fail, Fail, Dashboards!Report, Report, Dashboards!Row, Row, Dashboards!Goto,
     Goto, Guard, Dashboards!StackType
<1> PICK h : h = Head(todo)
  OBVIOUS
<1>4. CASE Report(Head(todo), "failed", FALSE) /\ stack' = stack
  <2>1. RowFails
    BY <1>4, ReportIs
  <2>2. SettledInv'
    BY <2>1, FailureSettles
  <2> QED BY <1>1, <2>2, DashboardsAlone
<1>5. CASE /\ Report(Head(todo), "unchanged", FALSE)
           /\ stack' = stack /\ stack.board[Head(todo)] = Dashboards!Desired
  <2>1. HeadReported /\ rows \subseteq rows'
    BY <1>5, ReportIs
  <2>2. KeptBut(h)
    BY <1>1, <1>2, <1>5, <2>1, DashboardsKept
  <2>3. Settled(h)'
    BY <1>1, <1>2, <1>5, DashboardsGoal DEF Settled, Dashboards!Goal
  <2>4. SettledInv'
    BY <1>1, <1>2, <2>1, <2>2, <2>3, LoopSettles
  <2> QED BY <1>1, <2>4, DashboardsAlone
<1>6. CASE Goto("put") /\ stack' = stack
  <2>1. HeadStays /\ rows \subseteq rows'
    BY <1>1, <1>6, GotoIs
  <2>2. KeptBut(h)
    BY <1>1, <1>2, <1>6, <2>1, DashboardsKept
  <2>3. SettledInv'
    BY <1>1, <1>2, <2>1, <2>2, LoopSettles
  <2> QED BY <1>1, <2>3, DashboardsAlone
<1> QED BY <1>3, <1>4, <1>5, <1>6

\* What a PUT stored is as the file has it, or is audited.
LEMMA DashboardsPutSettles ==
    ASSUME IInv, SuccessInv, cmd.family = "dashboards", Dashboards!Put
    PROVE  SuccessInv'
<1>1. /\ pc = "put" /\ cmd.op = "import" /\ cmd' = cmd
      /\ cmd.targets \in SUBSET Ids /\ moved' = moved
  BY DEF IInv, CmdOK, DashboardsInv, Dashboards!Put
<1>2. /\ Looping /\ Head(todo) \in Ids /\ Head(todo) \in Range(todo) /\ SettledInv
      /\ 0 \notin Ids
      /\ Head(todo) \in cmd.targets \/ cmd.op = "import_lists"
      /\ stack \in Dashboards!StackType
  <2>1. Looping
    BY <1>1 DEF Looping, Ended, Planning, Wholesale
  <2> QED BY <2>1, LoopFacts, HeadIsTarget, CommandAssumption DEF CommandAssumption, IInv,
         SuccessInv, TypeOK, StackType
<1>3. \/ Report(Head(todo), "failed", FALSE) /\ TRUE
      \/ /\ Report(Head(todo), "created", TRUE)
         /\ stack' = [stack EXCEPT !.board[Head(todo)] = Dashboards!Desired]
      \/ /\ Report(Head(todo), "replaced", TRUE)
         /\ stack' = [stack EXCEPT !.board[Head(todo)] = Dashboards!Desired]
      \/ Goto("audit")
         /\ \A o \in Ids : o # Head(todo) => stack'.board[o] = stack.board[o]
      \/ UNCHANGED runVars
         /\ \A o \in Ids : o # Head(todo) => stack'.board[o] = stack.board[o]
  BY <1>1, <1>2 DEF Dashboards!Put, Dashboards!Mutate, Dashboards!MutateAll,
     Dashboards!Report, Report, Dashboards!Row, Row, Dashboards!Goto, Goto, Dashboards!runVars,
     runVars, Guard, Dashboards!StackType
<1> PICK h : h = Head(todo)
  OBVIOUS
<1>4. CASE Report(Head(todo), "failed", FALSE) /\ TRUE
  <2>1. RowFails
    BY <1>4, ReportIs
  <2>2. SettledInv'
    BY <2>1, FailureSettles
  <2> QED BY <1>1, <2>2, DashboardsAlone
<1>5. CASE /\ Report(Head(todo), "created", TRUE)
           /\ stack' = [stack EXCEPT !.board[Head(todo)] = Dashboards!Desired]
  <2>1. HeadReported /\ rows \subseteq rows'
    BY <1>5, ReportIs
  <2>2. KeptBut(h)
    BY <1>1, <1>2, <1>5, <2>1, DashboardsKept DEF Dashboards!StackType
  <2>3. Settled(h)'
    BY <1>1, <1>2, <1>5, DashboardsGoal DEF Settled, Dashboards!Goal, Dashboards!StackType
  <2>4. SettledInv'
    BY <1>1, <1>2, <2>1, <2>2, <2>3, LoopSettles
  <2> QED BY <1>1, <2>4, DashboardsAlone
<1>6. CASE /\ Report(Head(todo), "replaced", TRUE)
           /\ stack' = [stack EXCEPT !.board[Head(todo)] = Dashboards!Desired]
  <2>1. HeadReported /\ rows \subseteq rows'
    BY <1>6, ReportIs
  <2>2. KeptBut(h)
    BY <1>1, <1>2, <1>6, <2>1, DashboardsKept DEF Dashboards!StackType
  <2>3. Settled(h)'
    BY <1>1, <1>2, <1>6, DashboardsGoal DEF Settled, Dashboards!Goal, Dashboards!StackType
  <2>4. SettledInv'
    BY <1>1, <1>2, <2>1, <2>2, <2>3, LoopSettles
  <2> QED BY <1>1, <2>4, DashboardsAlone
<1>7. CASE Goto("audit")
               /\ \A o \in Ids : o # Head(todo) => stack'.board[o] = stack.board[o]
  <2>1. HeadStays /\ rows \subseteq rows'
    BY <1>1, <1>7, GotoIs
  <2>2. KeptBut(h)
    BY <1>1, <1>2, <1>7, <2>1, DashboardsKept DEF Dashboards!StackType
  <2>3. SettledInv'
    BY <1>1, <1>2, <2>1, <2>2, LoopSettles
  <2> QED BY <1>1, <2>3, DashboardsAlone
<1>8. CASE UNCHANGED runVars
               /\ \A o \in Ids : o # Head(todo) => stack'.board[o] = stack.board[o]
  <2>1. HeadStays /\ rows \subseteq rows'
    BY <1>1, <1>2, <1>8 DEF HeadStays, runVars, Looping, Ended
  <2>2. KeptBut(h)
    BY <1>1, <1>2, <1>8, <2>1, DashboardsKept DEF Dashboards!StackType
  <2>3. SettledInv'
    BY <1>1, <1>2, <2>1, <2>2, LoopSettles
  <2> QED BY <1>1, <2>3, DashboardsAlone
<1> QED BY <1>3, <1>4, <1>5, <1>6, <1>7, <1>8

\* A loss is a failure, whatever the audit finds.
LEMMA DashboardsAuditSettles ==
    ASSUME IInv, SuccessInv, cmd.family = "dashboards", Dashboards!Audit
    PROVE  SuccessInv'
<1>1. cmd' = cmd /\ Row(Head(todo), "lossy", TRUE) \in rows'
  BY DEF Dashboards!Audit, Dashboards!Read, Dashboards!Row, Row
<1>2. RowFails
  BY <1>1 DEF RowFails, Row
<1>3. SettledInv'
  BY <1>2, FailureSettles
<1> QED BY <1>1, <1>3, DashboardsAlone

\* A dashboard that is deleted is gone.
LEMMA DashboardsDeleteSettles ==
    ASSUME IInv, SuccessInv, cmd.family = "dashboards", Dashboards!Delete
    PROVE  SuccessInv'
<1>1. /\ pc = "check" /\ cmd.op = "delete" /\ cmd' = cmd
      /\ cmd.targets \in SUBSET Ids /\ moved' = moved
  BY DEF IInv, CmdOK, DashboardsInv, Dashboards!Delete
<1>2. /\ Looping /\ Head(todo) \in Ids /\ Head(todo) \in Range(todo) /\ SettledInv
      /\ 0 \notin Ids
      /\ Head(todo) \in cmd.targets \/ cmd.op = "import_lists"
      /\ stack \in Dashboards!StackType
  <2>1. Looping
    BY <1>1 DEF Looping, Ended, Planning, Wholesale
  <2> QED BY <2>1, LoopFacts, HeadIsTarget, CommandAssumption DEF CommandAssumption, IInv,
         SuccessInv, TypeOK, StackType
<1>3. \/ Report(Head(todo), "failed", FALSE) /\ TRUE
      \/ /\ Report(Head(todo), "deleted", TRUE)
         /\ stack' = [stack EXCEPT !.board[Head(todo)] = Dashboards!Absent]
      \/ UNCHANGED runVars /\ stack' = [stack EXCEPT !.board[Head(todo)] = Dashboards!Absent]
  BY <1>1, <1>2 DEF Dashboards!Delete, Dashboards!Mutate, Dashboards!MutateAll,
     Dashboards!Report, Report, Dashboards!Row, Row, Dashboards!Goto, Goto, Dashboards!runVars,
     runVars, Guard, Dashboards!StackType
<1> PICK h : h = Head(todo)
  OBVIOUS
<1>4. CASE Report(Head(todo), "failed", FALSE) /\ TRUE
  <2>1. RowFails
    BY <1>4, ReportIs
  <2>2. SettledInv'
    BY <2>1, FailureSettles
  <2> QED BY <1>1, <2>2, DashboardsAlone
<1>5. CASE /\ Report(Head(todo), "deleted", TRUE)
           /\ stack' = [stack EXCEPT !.board[Head(todo)] = Dashboards!Absent]
  <2>1. HeadReported /\ rows \subseteq rows'
    BY <1>5, ReportIs
  <2>2. KeptBut(h)
    BY <1>1, <1>2, <1>5, <2>1, DashboardsKept DEF Dashboards!StackType
  <2>3. Settled(h)'
    BY <1>1, <1>2, <1>5, DashboardsGoal DEF Settled, Dashboards!Goal, Dashboards!StackType
  <2>4. SettledInv'
    BY <1>1, <1>2, <2>1, <2>2, <2>3, LoopSettles
  <2> QED BY <1>1, <2>4, DashboardsAlone
<1>6. CASE UNCHANGED runVars
             /\ stack' = [stack EXCEPT !.board[Head(todo)] = Dashboards!Absent]
  <2>1. HeadStays /\ rows \subseteq rows'
    BY <1>1, <1>2, <1>6 DEF HeadStays, runVars, Looping, Ended
  <2>2. KeptBut(h)
    BY <1>1, <1>2, <1>6, <2>1, DashboardsKept DEF Dashboards!StackType
  <2>3. SettledInv'
    BY <1>1, <1>2, <2>1, <2>2, LoopSettles
  <2> QED BY <1>1, <2>3, DashboardsAlone
<1> QED BY <1>3, <1>4, <1>5, <1>6

\* A bundle of which nothing was refused is on the stack.
LEMMA DashboardsImportBundleSettles ==
    ASSUME IInv, SuccessInv, cmd.family = "dashboards", Dashboards!ImportBundle
    PROVE  SuccessInv'
<1>1. /\ cmd' = cmd /\ pc = "import_bundle" /\ cmd.op = "bundle" /\ cmd.targets = Ids
      /\ stack \in Dashboards!StackType
  BY DEF IInv, CmdOK, DashboardsInv, Dashboards!ImportBundle, TypeOK, StackType
<1>2. \/ pc' \in {"failed", "import_bundle"}
      \/ \E o \in Ids : Row(o, "failed", FALSE) \in rows'
      \/ \A o \in Ids : stack'.board[o] = Dashboards!Desired
  <2>1. PICK kept \in SUBSET Ids :
          \/ pc' \in {"failed", "import_bundle"}
          \/ /\ rows' = {IF o \in kept THEN Row(o, "failed", FALSE)
                          ELSE Row(o, "created", TRUE) : o \in Ids}
             /\ stack' = [stack EXCEPT !.board = [o \in Ids |->
                            IF o \in kept THEN stack.board[o] ELSE Dashboards!Desired]]
    <3>1. PICK refused \in SUBSET Ids :
            LET kept   == refused
              \cup {o \in Ids : ~cmd.overwrite /\ stack.board[o] # Dashboards!Absent}
                stored == [stack EXCEPT !.board = [o \in Ids |->
                              IF o \in kept THEN stack.board[o] ELSE Dashboards!Desired]]
                all    == {Dashboards!Write(o, TRUE, TRUE, {}) : o \in Ids \ kept}
                report == {IF o \in kept THEN Dashboards!Row(o, "failed", FALSE)
                           ELSE Dashboards!Row(o, "created", TRUE) : o \in Ids}
            IN Dashboards!MutateAll(stored, all, Dashboards!ReportAll(report),
              Dashboards!Fail, TRUE)
      BY DEF Dashboards!ImportBundle
    <3> DEFINE K == refused \cup {o \in Ids : ~cmd.overwrite
                 /\ stack.board[o] # Dashboards!Absent}
               Rows(k) == {IF o \in k THEN Row(o, "failed", FALSE)
                 ELSE Row(o, "created", TRUE) : o \in Ids}
               Boards(k) == [stack EXCEPT !.board = [o \in Ids |->
                               IF o \in k THEN stack.board[o] ELSE Dashboards!Desired]]
    <3>2. K \in SUBSET Ids
      OBVIOUS
    <3>3. pc' \in {"failed", "import_bundle"} \/ (rows' = Rows(K) /\ stack' = Boards(K))
      BY <1>1, <3>1 DEF Dashboards!MutateAll, Dashboards!ReportAll, ReportAll,
         Dashboards!Fail, Fail, Dashboards!Goto, Goto, Dashboards!runVars, runVars,
         Dashboards!Row, Row
    <3> HIDE DEF K
    <3> QED BY <3>2, <3>3
  <2>2. CASE pc' \in {"failed", "import_bundle"}
    BY <2>2
  <2>3. CASE kept = {} /\ pc' \notin {"failed", "import_bundle"}
    <3> DEFINE B == [o \in Ids |-> IF o \in kept THEN stack.board[o] ELSE Dashboards!Desired]
    <3>1. stack' = [stack EXCEPT !.board = B]
      BY <2>1, <2>3
    <3>2. \A o \in Ids : B[o] = Dashboards!Desired
      BY <2>3
    <3> HIDE DEF B
    <3>3. stack'.board = B
      BY <1>1, <3>1 DEF Dashboards!StackType
    <3> QED BY <3>2, <3>3
  <2>4. CASE kept # {} /\ pc' \notin {"failed", "import_bundle"}
    <3>1. PICK o \in kept : TRUE
      BY <2>4
    <3>2. Row(o, "failed", FALSE) \in rows'
      BY <2>1, <2>4, <3>1
    <3> QED BY <3>1, <3>2
  <2> QED BY <2>2, <2>3, <2>4
<1>3. SettledInv'
  <2>1. CASE pc' \in {"failed", "import_bundle"}
    BY <2>1, NothingToSettle DEF Looping, Ended, Wholesale
  <2>2. CASE \E o \in Ids : Row(o, "failed", FALSE) \in rows'
    <3>1. RowFails
      BY <2>2 DEF RowFails, Row
    <3> QED BY <3>1, FailureSettles
  <2>3. CASE \A o \in Ids : stack'.board[o] = Dashboards!Desired
    <3>1. \A o \in cmd.targets : Settled(o)'
      BY <1>1, <2>3, DashboardsGoal DEF Settled, Dashboards!Goal
    <3> QED BY <1>1, <3>1 DEF SettledInv
  <2> QED BY <1>2, <2>1, <2>2, <2>3
<1> QED BY <1>1, <1>3, DashboardsAlone

\* What another client changes is its own affair.
LEMMA DashboardsOthersEditSettles ==
    ASSUME IInv, SuccessInv, cmd.family = "dashboards", Dashboards!OthersEdit
    PROVE  SuccessInv'
<1>1. /\ UNCHANGED <<cmd, pc, todo, plan, writes, rows, faults>> /\ ~Ended
           /\ moved \subseteq moved'
      /\ stack \in Dashboards!StackType /\ SettledInv
  BY DEF Dashboards!OthersEdit, Dashboards!Edit, Dashboards!Ended, Ended, IInv, SuccessInv,
     TypeOK, StackType
<1>2. \A o \in Ids : o \in moved' \/ stack'.board[o] = stack.board[o]
  BY <1>1 DEF Dashboards!OthersEdit, Dashboards!Edit, Dashboards!StackType
<1>3. cmd.targets \subseteq Ids
  BY DEF IInv, CmdOK, OpOK
<1>4. ASSUME NEW x \in cmd.targets, Settled(x) PROVE Settled(x)'
  BY <1>1, <1>2, <1>3, <1>4, DashboardsGoal DEF Settled, Dashboards!Goal
<1>5. SettledInv'
  BY <1>1, <1>4, OthersSettle
<1> QED BY <1>1, <1>5, DashboardsAlone

\* Every step of a dashboard command.
LEMMA DashboardsSettle ==
    ASSUME IInv, SuccessInv, cmd.family = "dashboards", Dashboards!Next
    PROVE  SuccessInv'
BY DashboardsPlanningSettles, DashboardsPlanImportSettles, DashboardsCheckImportSettles,
   DashboardsPutSettles, DashboardsAuditSettles, DashboardsPlanDeleteSettles,
   DashboardsDeleteSettles, DashboardsImportBundleSettles, DashboardsOthersEditSettles DEF
   Dashboards!Next
-----------------------------------------------------------------------------
(* Agent policies.                                                            *)

\* The aims of the other components are not this one's.
LEMMA AgentPoliciesAlone ==
    ASSUME cmd.family = "agent_policies", cmd' = cmd, SettledInv', AgentPoliciesAims'
    PROVE  SuccessInv'
BY DEF SuccessInv, DataViewsAims, TriageAims, DetectionAims

\* The goal of an agent policy command.
LEMMA AgentPoliciesGoal ==
    ASSUME cmd.family = "agent_policies", cmd' = cmd, NEW o
    PROVE  /\ Goal(o) <=> AgentPolicies!Goal(o)
           /\ Goal(o)' <=> AgentPolicies!Goal(o)'
BY DEF Goal

\* A policy stays settled while its requests do not reach it.
LEMMA AgentPoliciesKept ==
    ASSUME cmd.family = "agent_policies", cmd' = cmd, rows \subseteq rows', NEW h,
           \A o \in cmd.targets : o # h =>
               (o \in moved => o \in moved') /\ stack'.policy[o] = stack.policy[o]
    PROVE  KeptBut(h)
<1> SUFFICES ASSUME NEW o \in cmd.targets, o # h, Settled(o) PROVE Settled(o)'
  BY DEF KeptBut
<1>1. (o \in moved => o \in moved') /\ stack'.policy[o] = stack.policy[o]
  OBVIOUS
<1>2. AgentPolicies!Goal(o) => AgentPolicies!Goal(o)'
  BY <1>1 DEF AgentPolicies!Goal
<1> QED BY <1>1, <1>2, AgentPoliciesGoal, StaysSettled

\* Writing a policy leaves the others as they are.
LEMMA AgentPoliciesWritten ==
    ASSUME stack \in AgentPolicies!StackType, NEW o \in Ids, NEW p
    PROVE  \A x \in Ids : x # o => AgentPolicies!Written(o, p).policy[x] = stack.policy[x]
BY DEF AgentPolicies!Written, AgentPolicies!StackType

\* Planning an agent policy command asks nothing of the loop.
LEMMA AgentPoliciesPlanningSettles ==
    ASSUME IInv, SuccessInv, cmd.family = "agent_policies",
           \/ AgentPolicies!BeginImport \/ AgentPolicies!Preflight
                \/ AgentPolicies!PlanNames \/ AgentPolicies!BeginDelete
                     \/ AgentPolicies!Resolve
    PROVE  SuccessInv'
<1> DEFINE Quiet ==
             /\ cmd' = cmd
             /\ \/ pc' \in {"preflight", "failed", "package", "resolve"}
                \/ pc' = "done" /\ ~cmd.yes
<1>1. AgentPolicies!BeginImport => Quiet
  BY DEF AgentPolicies!BeginImport
<1>2. AgentPolicies!Preflight => Quiet
  BY DEF AgentPolicies!Preflight, AgentPolicies!Read, AgentPolicies!Checked,
     AgentPolicies!Fail, Fail, AgentPolicies!Goto, Goto
<1>3. AgentPolicies!PlanNames => Quiet
  BY DEF AgentPolicies!PlanNames, AgentPolicies!Read, AgentPolicies!Checked,
     AgentPolicies!Fail, Fail, AgentPolicies!Goto, Goto
<1>4. AgentPolicies!BeginDelete => Quiet
  BY DEF AgentPolicies!BeginDelete
<1>5. AgentPolicies!Resolve => Quiet
  BY DEF AgentPolicies!Resolve, AgentPolicies!Read, AgentPolicies!Checked,
     AgentPolicies!Fail, Fail, AgentPolicies!Goto, Goto
<1> HIDE DEF Quiet
<1>6. Quiet
  BY <1>1, <1>2, <1>3, <1>4, <1>5
<1> USE DEF Quiet
<1>7. SettledInv'
  <2>1. CASE ~cmd.yes
    BY <1>6, <2>1, NothingToSettle
  <2>2. CASE cmd.yes
    <3>1. pc' # "done" /\ ~Looping'
      BY <1>6, <2>2 DEF Looping, Planning, Ended, Wholesale
    <3> QED BY <3>1, NothingToSettle
  <2> QED BY <2>1, <2>2
<1>8. AgentPoliciesAims'
  BY <1>6 DEF SuccessInv, AgentPoliciesAims
<1>9. cmd' = cmd
  BY <1>6
<1> QED BY <1>7, <1>8, <1>9, AgentPoliciesAlone

\* What an import does not skip is for its loop.
LEMMA AgentPoliciesPlanPackageSettles ==
    ASSUME IInv, SuccessInv, cmd.family = "agent_policies", AgentPolicies!PlanPackage
    PROVE  SuccessInv'
<1>1. cmd' = cmd /\ pc = "package" /\ stack' = stack
  BY DEF AgentPolicies!PlanPackage
<1>2. AgentPolicies!Skipped \subseteq Ids /\ cmd.targets \in SUBSET Ids
  BY <1>1 DEF IInv, CmdOK, OpOK, PlanOK, AgentPolicies!Skipped, AgentPolicies!Existing
<1>3. \/ pc' = "failed"
      \/ /\ \E p : Guard(p, Sorted(cmd.targets \ AgentPolicies!Skipped))
         /\ rows' = {Row(o, "skipped", FALSE) : o \in AgentPolicies!Skipped}
  BY SameOrder DEF AgentPolicies!PlanPackage, AgentPolicies!Read, AgentPolicies!Fail, Fail,
     AgentPolicies!Goto, Goto, AgentPolicies!Row, Row, AgentPolicies!Guard, Guard,
     AgentPolicies!Pending
<1>4. SettledInv'
  <2>1. CASE pc' = "failed"
    BY <2>1, NothingToSettle DEF Looping, Ended
  <2>2. CASE /\ \E p : Guard(p, Sorted(cmd.targets \ AgentPolicies!Skipped))
             /\ rows' = {Row(o, "skipped", FALSE) : o \in AgentPolicies!Skipped}
    <3>1. Range(Sorted(cmd.targets \ AgentPolicies!Skipped))
            = cmd.targets \ AgentPolicies!Skipped
      BY <1>2, SortedFacts, CommandAssumption
    <3>2. ASSUME NEW o \in AgentPolicies!Skipped PROVE Settled(o)'
      <4>1. Row(o, "skipped", FALSE) \in rows'
        BY <2>2
      <4> QED BY <4>1 DEF Row, Settled
    <3> QED BY <1>1, <2>2, <3>1, <3>2, GuardSettles
  <2> QED BY <1>3, <2>1, <2>2
<1>5. AgentPoliciesAims'
  BY <1>1, <1>3 DEF AgentPoliciesAims, Guard
<1> QED BY <1>1, <1>4, <1>5, AgentPoliciesAlone

\* Every policy to delete is for the loop.
LEMMA AgentPoliciesPlanDeleteSettles ==
    ASSUME IInv, SuccessInv, cmd.family = "agent_policies", AgentPolicies!PlanDelete
    PROVE  SuccessInv'
<1>1. cmd' = cmd /\ pc = "resolve" /\ (pc' = "failed" \/ Guard(plan, Sorted(cmd.targets)))
  BY SameOrder DEF AgentPolicies!PlanDelete, AgentPolicies!Guard, Guard, AgentPolicies!Fail,
     Fail, AgentPolicies!Goto, Goto
<1>2. Range(Sorted(cmd.targets)) = cmd.targets
  <2>1. cmd.targets \in SUBSET Ids
    BY DEF IInv, CmdOK, OpOK
  <2> QED BY <2>1, SortedFacts, CommandAssumption
<1>3. SettledInv'
  <2>1. CASE pc' = "failed"
    BY <2>1, NothingToSettle DEF Looping, Ended
  <2>2. CASE Guard(plan, Sorted(cmd.targets))
    BY <1>1, <1>2, <2>2, GuardSettles
  <2> QED BY <1>1, <2>1, <2>2
<1>4. AgentPoliciesAims'
  BY <1>1 DEF AgentPoliciesAims, Guard
<1> QED BY <1>1, <1>3, <1>4, AgentPoliciesAlone

\* A policy that is as the file has it needs no request.
LEMMA AgentPoliciesCheckPolicySettles ==
    ASSUME IInv, SuccessInv, cmd.family = "agent_policies", AgentPolicies!CheckPolicy
    PROVE  SuccessInv'
<1>1. /\ DOMAIN plan = {"before", "package", "applied", "bad"} /\ pc = "check"
           /\ cmd.op \in {"import", "delete"} /\ cmd' = cmd
      /\ cmd.targets \in SUBSET Ids /\ moved' \in {moved, moved \ {Head(todo)}}
  BY DEF IInv, CmdOK, OpOK, AgentPoliciesInv, SuccessInv, AgentPoliciesAims,
     AgentPolicies!CheckPolicy, AgentPolicies!Read, AgentPolicies!Checked
<1>2. /\ Looping /\ Head(todo) \in Ids /\ Head(todo) \in Range(todo) /\ SettledInv
      /\ 0 \notin Ids
      /\ Head(todo) \in cmd.targets \/ cmd.op = "import_lists"
      /\ AgentPoliciesAims /\ stack \in AgentPolicies!StackType
  <2>1. Looping
    BY <1>1 DEF Looping, Ended, Planning, Wholesale
  <2> QED BY <2>1, LoopFacts, HeadIsTarget, CommandAssumption DEF CommandAssumption, IInv,
         SuccessInv, TypeOK, StackType
<1>3. \/ Report(Head(todo), "failed", FALSE) /\ stack' = stack
      \/ /\ Report(Head(todo), "unchanged", FALSE) /\ cmd.op = "import"
         /\ stack' = stack /\ stack.policy[Head(todo)].spec = AgentPolicies!Desired
      \/ Goto("delete") /\ cmd.op = "delete" /\ stack' = stack
      \/ Goto("check_package") /\ cmd.op = "import" /\ stack' = stack
      \/ Goto("check_name") /\ cmd.op = "import" /\ stack' = stack
      \/ Goto("update") /\ cmd.op = "import" /\ stack' = stack
  BY <1>1, <1>2 DEF AgentPolicies!CheckPolicy, AgentPolicies!Read, AgentPolicies!Checked,
     AgentPolicies!Fail, Fail, AgentPolicies!Report, Report, AgentPolicies!Row, Row,
     AgentPolicies!Goto, Goto, Guard, AgentPolicies!StackType
<1> PICK h : h = Head(todo)
  OBVIOUS
<1>4. CASE Report(Head(todo), "failed", FALSE) /\ stack' = stack
  <2>1. RowFails
    BY <1>4, ReportIs
  <2>2. SettledInv'
    BY <2>1, FailureSettles
  <2>3. AgentPoliciesAims'
    BY <1>1, <1>2, <1>4 DEF AgentPoliciesAims, Report, Goto, runVars
  <2> QED BY <1>1, <2>2, <2>3, AgentPoliciesAlone
<1>5. CASE /\ Report(Head(todo), "unchanged", FALSE) /\ cmd.op = "import"
           /\ stack' = stack /\ stack.policy[Head(todo)].spec = AgentPolicies!Desired
  <2>1. HeadReported /\ rows \subseteq rows'
    BY <1>5, ReportIs
  <2>2. KeptBut(h)
    BY <1>1, <1>2, <1>5, <2>1, AgentPoliciesKept
  <2>3. Settled(h)'
    BY <1>1, <1>2, <1>5, AgentPoliciesGoal DEF Settled, AgentPolicies!Goal
  <2>4. SettledInv'
    BY <1>1, <1>2, <2>1, <2>2, <2>3, LoopSettles
  <2>5. AgentPoliciesAims'
    BY <1>1, <1>2, <1>5 DEF AgentPoliciesAims, Report, Goto, runVars
  <2> QED BY <1>1, <2>4, <2>5, AgentPoliciesAlone
<1>6. CASE Goto("delete") /\ cmd.op = "delete" /\ stack' = stack
  <2>1. HeadStays /\ rows \subseteq rows'
    BY <1>1, <1>6, GotoIs
  <2>2. KeptBut(h)
    BY <1>1, <1>2, <1>6, <2>1, AgentPoliciesKept
  <2>3. SettledInv'
    BY <1>1, <1>2, <2>1, <2>2, LoopSettles
  <2>4. AgentPoliciesAims'
    BY <1>1, <1>2, <1>6 DEF AgentPoliciesAims, Report, Goto, runVars
  <2> QED BY <1>1, <2>3, <2>4, AgentPoliciesAlone
<1>7. CASE Goto("check_package") /\ cmd.op = "import" /\ stack' = stack
  <2>1. HeadStays /\ rows \subseteq rows'
    BY <1>1, <1>7, GotoIs
  <2>2. KeptBut(h)
    BY <1>1, <1>2, <1>7, <2>1, AgentPoliciesKept
  <2>3. SettledInv'
    BY <1>1, <1>2, <2>1, <2>2, LoopSettles
  <2>4. AgentPoliciesAims'
    BY <1>1, <1>2, <1>7 DEF AgentPoliciesAims, Report, Goto, runVars
  <2> QED BY <1>1, <2>3, <2>4, AgentPoliciesAlone
<1>8. CASE Goto("check_name") /\ cmd.op = "import" /\ stack' = stack
  <2>1. HeadStays /\ rows \subseteq rows'
    BY <1>1, <1>8, GotoIs
  <2>2. KeptBut(h)
    BY <1>1, <1>2, <1>8, <2>1, AgentPoliciesKept
  <2>3. SettledInv'
    BY <1>1, <1>2, <2>1, <2>2, LoopSettles
  <2>4. AgentPoliciesAims'
    BY <1>1, <1>2, <1>8 DEF AgentPoliciesAims, Report, Goto, runVars
  <2> QED BY <1>1, <2>3, <2>4, AgentPoliciesAlone
<1>9. CASE Goto("update") /\ cmd.op = "import" /\ stack' = stack
  <2>1. HeadStays /\ rows \subseteq rows'
    BY <1>1, <1>9, GotoIs
  <2>2. KeptBut(h)
    BY <1>1, <1>2, <1>9, <2>1, AgentPoliciesKept
  <2>3. SettledInv'
    BY <1>1, <1>2, <2>1, <2>2, LoopSettles
  <2>4. AgentPoliciesAims'
    BY <1>1, <1>2, <1>9 DEF AgentPoliciesAims, Report, Goto, runVars
  <2> QED BY <1>1, <2>3, <2>4, AgentPoliciesAlone
<1> QED BY <1>3, <1>4, <1>5, <1>6, <1>7, <1>8, <1>9

\* A package that is as shown decides nothing.
LEMMA AgentPoliciesCheckPackageSettles ==
    ASSUME IInv, SuccessInv, cmd.family = "agent_policies", AgentPolicies!CheckPackage
    PROVE  SuccessInv'
<1>1. /\ DOMAIN plan = {"before", "package", "applied", "bad"} /\ pc = "check_package"
           /\ cmd.op \in {"import"} /\ cmd' = cmd
      /\ cmd.targets \in SUBSET Ids /\ moved' \in {moved, moved \ {0}}
  BY DEF IInv, CmdOK, OpOK, AgentPoliciesInv, SuccessInv, AgentPoliciesAims,
     AgentPolicies!CheckPackage, AgentPolicies!Read, AgentPolicies!Checked,
     AgentPolicies!Package
<1>2. /\ Looping /\ Head(todo) \in Ids /\ Head(todo) \in Range(todo) /\ SettledInv
      /\ 0 \notin Ids
      /\ Head(todo) \in cmd.targets \/ cmd.op = "import_lists"
      /\ AgentPoliciesAims /\ stack \in AgentPolicies!StackType
  <2>1. Looping
    BY <1>1 DEF Looping, Ended, Planning, Wholesale
  <2> QED BY <2>1, LoopFacts, HeadIsTarget, CommandAssumption DEF CommandAssumption, IInv,
         SuccessInv, TypeOK, StackType
<1>3. \/ Report(Head(todo), "failed", FALSE) /\ stack' = stack
      \/ Goto("check_name") /\ stack' = stack
      \/ Goto("update") /\ stack' = stack
  BY <1>1, <1>2 DEF AgentPolicies!CheckPackage, AgentPolicies!Read, AgentPolicies!Checked,
     AgentPolicies!Fail, Fail, AgentPolicies!Report, Report, AgentPolicies!Row, Row,
     AgentPolicies!Goto, Goto, Guard, AgentPolicies!StackType
<1> PICK h : h = Head(todo)
  OBVIOUS
<1>4. CASE Report(Head(todo), "failed", FALSE) /\ stack' = stack
  <2>1. RowFails
    BY <1>4, ReportIs
  <2>2. SettledInv'
    BY <2>1, FailureSettles
  <2>3. AgentPoliciesAims'
    BY <1>1, <1>2, <1>4 DEF AgentPoliciesAims, Report, Goto, runVars
  <2> QED BY <1>1, <2>2, <2>3, AgentPoliciesAlone
<1>5. CASE Goto("check_name") /\ stack' = stack
  <2>1. HeadStays /\ rows \subseteq rows'
    BY <1>1, <1>5, GotoIs
  <2>2. KeptBut(h)
    BY <1>1, <1>2, <1>5, <2>1, AgentPoliciesKept
  <2>3. SettledInv'
    BY <1>1, <1>2, <2>1, <2>2, LoopSettles
  <2>4. AgentPoliciesAims'
    BY <1>1, <1>2, <1>5 DEF AgentPoliciesAims, Report, Goto, runVars
  <2> QED BY <1>1, <2>3, <2>4, AgentPoliciesAlone
<1>6. CASE Goto("update") /\ stack' = stack
  <2>1. HeadStays /\ rows \subseteq rows'
    BY <1>1, <1>6, GotoIs
  <2>2. KeptBut(h)
    BY <1>1, <1>2, <1>6, <2>1, AgentPoliciesKept
  <2>3. SettledInv'
    BY <1>1, <1>2, <2>1, <2>2, LoopSettles
  <2>4. AgentPoliciesAims'
    BY <1>1, <1>2, <1>6 DEF AgentPoliciesAims, Report, Goto, runVars
  <2> QED BY <1>1, <2>3, <2>4, AgentPoliciesAlone
<1> QED BY <1>3, <1>4, <1>5, <1>6

\* A free name decides nothing.
LEMMA AgentPoliciesCheckNameSettles ==
    ASSUME IInv, SuccessInv, cmd.family = "agent_policies", AgentPolicies!CheckName
    PROVE  SuccessInv'
<1>1. /\ DOMAIN plan = {"before", "package", "applied", "bad"} /\ pc = "check_name"
           /\ cmd.op \in {"import"} /\ cmd' = cmd
      /\ cmd.targets \in SUBSET Ids /\ moved' = moved
  BY DEF IInv, CmdOK, OpOK, AgentPoliciesInv, SuccessInv, AgentPoliciesAims,
     AgentPolicies!CheckName, AgentPolicies!Read, AgentPolicies!Checked
<1>2. /\ Looping /\ Head(todo) \in Ids /\ Head(todo) \in Range(todo) /\ SettledInv
      /\ 0 \notin Ids
      /\ Head(todo) \in cmd.targets \/ cmd.op = "import_lists"
      /\ AgentPoliciesAims /\ stack \in AgentPolicies!StackType
  <2>1. Looping
    BY <1>1 DEF Looping, Ended, Planning, Wholesale
  <2> QED BY <2>1, LoopFacts, HeadIsTarget, CommandAssumption DEF CommandAssumption, IInv,
         SuccessInv, TypeOK, StackType
<1>3. \/ Report(Head(todo), "failed", FALSE) /\ stack' = stack
      \/ Goto("create") /\ stack' = stack
  BY <1>1, <1>2 DEF AgentPolicies!CheckName, AgentPolicies!Read, AgentPolicies!Checked,
     AgentPolicies!Fail, Fail, AgentPolicies!Report, Report, AgentPolicies!Row, Row,
     AgentPolicies!Goto, Goto, Guard, AgentPolicies!StackType
<1> PICK h : h = Head(todo)
  OBVIOUS
<1>4. CASE Report(Head(todo), "failed", FALSE) /\ stack' = stack
  <2>1. RowFails
    BY <1>4, ReportIs
  <2>2. SettledInv'
    BY <2>1, FailureSettles
  <2>3. AgentPoliciesAims'
    BY <1>1, <1>2, <1>4 DEF AgentPoliciesAims, Report, Goto, runVars
  <2> QED BY <1>1, <2>2, <2>3, AgentPoliciesAlone
<1>5. CASE Goto("create") /\ stack' = stack
  <2>1. HeadStays /\ rows \subseteq rows'
    BY <1>1, <1>5, GotoIs
  <2>2. KeptBut(h)
    BY <1>1, <1>2, <1>5, <2>1, AgentPoliciesKept
  <2>3. SettledInv'
    BY <1>1, <1>2, <2>1, <2>2, LoopSettles
  <2>4. AgentPoliciesAims'
    BY <1>1, <1>2, <1>5 DEF AgentPoliciesAims, Report, Goto, runVars
  <2> QED BY <1>1, <2>3, <2>4, AgentPoliciesAlone
<1> QED BY <1>3, <1>4, <1>5

\* A create that was answered is read back, and one that was not has failed.
LEMMA AgentPoliciesCreateSettles ==
    ASSUME IInv, SuccessInv, cmd.family = "agent_policies", AgentPolicies!Create
    PROVE  SuccessInv'
<1>1. /\ DOMAIN plan = {"before", "package", "applied", "bad"} /\ pc = "create"
           /\ cmd.op \in {"import"} /\ cmd' = cmd
      /\ cmd.targets \in SUBSET Ids /\ moved' = moved
  BY DEF IInv, CmdOK, OpOK, AgentPoliciesInv, SuccessInv, AgentPoliciesAims,
     AgentPolicies!Create
<1>2. /\ Looping /\ Head(todo) \in Ids /\ Head(todo) \in Range(todo) /\ SettledInv
      /\ 0 \notin Ids
      /\ Head(todo) \in cmd.targets \/ cmd.op = "import_lists"
      /\ AgentPoliciesAims /\ stack \in AgentPolicies!StackType
  <2>1. Looping
    BY <1>1 DEF Looping, Ended, Planning, Wholesale
  <2> QED BY <2>1, LoopFacts, HeadIsTarget, CommandAssumption DEF CommandAssumption, IInv,
         SuccessInv, TypeOK, StackType
<1>3. \/ Report(Head(todo), "failed", FALSE) /\ TRUE
      \/ Goto("observe") /\ plan'.bad = TRUE
         /\ \A o \in Ids : o # Head(todo) => stack'.policy[o] = stack.policy[o]
      \/ Goto("verify")
         /\ \A o \in Ids : o # Head(todo) => stack'.policy[o] = stack.policy[o]
      \/ UNCHANGED runVars
         /\ \A o \in Ids : o # Head(todo) => stack'.policy[o] = stack.policy[o]
  <2>1. ASSUME AgentPolicies!Routed(Head(todo), FALSE)
        PROVE  (Goto("observe") /\ plan'.bad = TRUE) \/ Report(Head(todo), "failed", FALSE)
    BY <1>1, <2>1 DEF AgentPolicies!Routed, AgentPolicies!Goto, Goto, AgentPolicies!Report,
       Report, AgentPolicies!Row, Row
  <2>2. ASSUME AgentPolicies!Routed(Head(todo), TRUE) PROVE Goto("verify")
    BY <1>1, <2>2 DEF AgentPolicies!Routed, AgentPolicies!Goto, Goto
  <2>3. \A o \in Ids : o # Head(todo) => stack'.policy[o] = stack.policy[o]
    <3>1. stack' = stack \/ \E p : stack' = AgentPolicies!Written(Head(todo), p)
      BY DEF AgentPolicies!Create, AgentPolicies!Send, AgentPolicies!Resend,
         AgentPolicies!Mutate, AgentPolicies!MutateAll
    <3> QED BY <1>2, <3>1, AgentPoliciesWritten
  <2>4. \/ AgentPolicies!Routed(Head(todo), FALSE) \/ AgentPolicies!Routed(Head(todo), TRUE)
        \/ UNCHANGED runVars
    BY DEF AgentPolicies!Create, AgentPolicies!Send, AgentPolicies!Resend,
       AgentPolicies!Mutate, AgentPolicies!MutateAll, AgentPolicies!runVars, runVars
  <2> QED BY <2>1, <2>2, <2>3, <2>4
<1> PICK h : h = Head(todo)
  OBVIOUS
<1>4. CASE Report(Head(todo), "failed", FALSE) /\ TRUE
  <2>1. RowFails
    BY <1>4, ReportIs
  <2>2. SettledInv'
    BY <2>1, FailureSettles
  <2>3. AgentPoliciesAims'
    BY <1>1, <1>2, <1>4 DEF AgentPoliciesAims, Report, Goto, runVars
  <2> QED BY <1>1, <2>2, <2>3, AgentPoliciesAlone
<1>5. CASE Goto("observe") /\ plan'.bad = TRUE
               /\ \A o \in Ids : o # Head(todo) => stack'.policy[o] = stack.policy[o]
  <2>1. HeadStays /\ rows \subseteq rows'
    BY <1>1, <1>5, GotoIs
  <2>2. KeptBut(h)
    BY <1>1, <1>2, <1>5, <2>1, AgentPoliciesKept DEF AgentPolicies!StackType
  <2>3. SettledInv'
    BY <1>1, <1>2, <2>1, <2>2, LoopSettles
  <2>4. AgentPoliciesAims'
    BY <1>1, <1>2, <1>5 DEF AgentPoliciesAims, Report, Goto, runVars
  <2> QED BY <1>1, <2>3, <2>4, AgentPoliciesAlone
<1>6. CASE Goto("verify")
               /\ \A o \in Ids : o # Head(todo) => stack'.policy[o] = stack.policy[o]
  <2>1. HeadStays /\ rows \subseteq rows'
    BY <1>1, <1>6, GotoIs
  <2>2. KeptBut(h)
    BY <1>1, <1>2, <1>6, <2>1, AgentPoliciesKept DEF AgentPolicies!StackType
  <2>3. SettledInv'
    BY <1>1, <1>2, <2>1, <2>2, LoopSettles
  <2>4. AgentPoliciesAims'
    BY <1>1, <1>2, <1>6 DEF AgentPoliciesAims, Report, Goto, runVars
  <2> QED BY <1>1, <2>3, <2>4, AgentPoliciesAlone
<1>7. CASE UNCHANGED runVars
               /\ \A o \in Ids : o # Head(todo) => stack'.policy[o] = stack.policy[o]
  <2>1. HeadStays /\ rows \subseteq rows'
    BY <1>1, <1>2, <1>7 DEF HeadStays, runVars, Looping, Ended
  <2>2. KeptBut(h)
    BY <1>1, <1>2, <1>7, <2>1, AgentPoliciesKept DEF AgentPolicies!StackType
  <2>3. SettledInv'
    BY <1>1, <1>2, <2>1, <2>2, LoopSettles
  <2>4. AgentPoliciesAims'
    BY <1>1, <1>2, <1>7 DEF AgentPoliciesAims, Report, Goto, runVars
  <2> QED BY <1>1, <2>3, <2>4, AgentPoliciesAlone
<1> QED BY <1>3, <1>4, <1>5, <1>6, <1>7

\* An update that was answered is read back, and one that was not has failed.
LEMMA AgentPoliciesUpdateSettles ==
    ASSUME IInv, SuccessInv, cmd.family = "agent_policies", AgentPolicies!Update
    PROVE  SuccessInv'
<1>1. /\ DOMAIN plan = {"before", "package", "applied", "bad"} /\ pc = "update"
           /\ cmd.op \in {"import"} /\ cmd' = cmd
      /\ cmd.targets \in SUBSET Ids /\ moved' = moved
  BY DEF IInv, CmdOK, OpOK, AgentPoliciesInv, SuccessInv, AgentPoliciesAims,
     AgentPolicies!Update
<1>2. /\ Looping /\ Head(todo) \in Ids /\ Head(todo) \in Range(todo) /\ SettledInv
      /\ 0 \notin Ids
      /\ Head(todo) \in cmd.targets \/ cmd.op = "import_lists"
      /\ AgentPoliciesAims /\ stack \in AgentPolicies!StackType
  <2>1. Looping
    BY <1>1 DEF Looping, Ended, Planning, Wholesale
  <2> QED BY <2>1, LoopFacts, HeadIsTarget, CommandAssumption DEF CommandAssumption, IInv,
         SuccessInv, TypeOK, StackType
<1>3. \/ Report(Head(todo), "failed", FALSE) /\ TRUE
      \/ Goto("observe") /\ plan'.bad = TRUE
         /\ \A o \in Ids : o # Head(todo) => stack'.policy[o] = stack.policy[o]
      \/ Goto("verify")
         /\ \A o \in Ids : o # Head(todo) => stack'.policy[o] = stack.policy[o]
      \/ UNCHANGED runVars
         /\ \A o \in Ids : o # Head(todo) => stack'.policy[o] = stack.policy[o]
  <2>1. ASSUME AgentPolicies!Routed(Head(todo), FALSE)
        PROVE  (Goto("observe") /\ plan'.bad = TRUE) \/ Report(Head(todo), "failed", FALSE)
    BY <1>1, <2>1 DEF AgentPolicies!Routed, AgentPolicies!Goto, Goto, AgentPolicies!Report,
       Report, AgentPolicies!Row, Row
  <2>2. ASSUME AgentPolicies!Routed(Head(todo), TRUE) PROVE Goto("verify")
    BY <1>1, <2>2 DEF AgentPolicies!Routed, AgentPolicies!Goto, Goto
  <2>3. \A o \in Ids : o # Head(todo) => stack'.policy[o] = stack.policy[o]
    <3>1. stack' = stack \/ \E p : stack' = AgentPolicies!Written(Head(todo), p)
      BY DEF AgentPolicies!Update, AgentPolicies!Send, AgentPolicies!Resend,
         AgentPolicies!Mutate, AgentPolicies!MutateAll
    <3> QED BY <1>2, <3>1, AgentPoliciesWritten
  <2>4. \/ AgentPolicies!Routed(Head(todo), FALSE) \/ AgentPolicies!Routed(Head(todo), TRUE)
        \/ UNCHANGED runVars
    BY DEF AgentPolicies!Update, AgentPolicies!Send, AgentPolicies!Resend,
       AgentPolicies!Mutate, AgentPolicies!MutateAll, AgentPolicies!runVars, runVars
  <2> QED BY <2>1, <2>2, <2>3, <2>4
<1> PICK h : h = Head(todo)
  OBVIOUS
<1>4. CASE Report(Head(todo), "failed", FALSE) /\ TRUE
  <2>1. RowFails
    BY <1>4, ReportIs
  <2>2. SettledInv'
    BY <2>1, FailureSettles
  <2>3. AgentPoliciesAims'
    BY <1>1, <1>2, <1>4 DEF AgentPoliciesAims, Report, Goto, runVars
  <2> QED BY <1>1, <2>2, <2>3, AgentPoliciesAlone
<1>5. CASE Goto("observe") /\ plan'.bad = TRUE
               /\ \A o \in Ids : o # Head(todo) => stack'.policy[o] = stack.policy[o]
  <2>1. HeadStays /\ rows \subseteq rows'
    BY <1>1, <1>5, GotoIs
  <2>2. KeptBut(h)
    BY <1>1, <1>2, <1>5, <2>1, AgentPoliciesKept DEF AgentPolicies!StackType
  <2>3. SettledInv'
    BY <1>1, <1>2, <2>1, <2>2, LoopSettles
  <2>4. AgentPoliciesAims'
    BY <1>1, <1>2, <1>5 DEF AgentPoliciesAims, Report, Goto, runVars
  <2> QED BY <1>1, <2>3, <2>4, AgentPoliciesAlone
<1>6. CASE Goto("verify")
               /\ \A o \in Ids : o # Head(todo) => stack'.policy[o] = stack.policy[o]
  <2>1. HeadStays /\ rows \subseteq rows'
    BY <1>1, <1>6, GotoIs
  <2>2. KeptBut(h)
    BY <1>1, <1>2, <1>6, <2>1, AgentPoliciesKept DEF AgentPolicies!StackType
  <2>3. SettledInv'
    BY <1>1, <1>2, <2>1, <2>2, LoopSettles
  <2>4. AgentPoliciesAims'
    BY <1>1, <1>2, <1>6 DEF AgentPoliciesAims, Report, Goto, runVars
  <2> QED BY <1>1, <2>3, <2>4, AgentPoliciesAlone
<1>7. CASE UNCHANGED runVars
               /\ \A o \in Ids : o # Head(todo) => stack'.policy[o] = stack.policy[o]
  <2>1. HeadStays /\ rows \subseteq rows'
    BY <1>1, <1>2, <1>7 DEF HeadStays, runVars, Looping, Ended
  <2>2. KeptBut(h)
    BY <1>1, <1>2, <1>7, <2>1, AgentPoliciesKept DEF AgentPolicies!StackType
  <2>3. SettledInv'
    BY <1>1, <1>2, <2>1, <2>2, LoopSettles
  <2>4. AgentPoliciesAims'
    BY <1>1, <1>2, <1>7 DEF AgentPoliciesAims, Report, Goto, runVars
  <2> QED BY <1>1, <2>3, <2>4, AgentPoliciesAlone
<1> QED BY <1>3, <1>4, <1>5, <1>6, <1>7

\* The row is bad unless the policy is read to be as the file has it.
LEMMA AgentPoliciesVerifySettles ==
    ASSUME IInv, SuccessInv, cmd.family = "agent_policies", AgentPolicies!Verify
    PROVE  SuccessInv'
<1>1. /\ DOMAIN plan = {"before", "package", "applied", "bad"} /\ pc = "verify"
           /\ cmd.op \in {"import"} /\ cmd' = cmd
      /\ cmd.targets \in SUBSET Ids /\ moved' = moved
  BY DEF IInv, CmdOK, OpOK, AgentPoliciesInv, SuccessInv, AgentPoliciesAims,
     AgentPolicies!Verify, AgentPolicies!Read, AgentPolicies!Goto, Goto
<1>2. /\ Looping /\ Head(todo) \in Ids /\ Head(todo) \in Range(todo) /\ SettledInv
      /\ 0 \notin Ids
      /\ Head(todo) \in cmd.targets \/ cmd.op = "import_lists"
      /\ AgentPoliciesAims /\ stack \in AgentPolicies!StackType
  <2>1. Looping
    BY <1>1 DEF Looping, Ended, Planning, Wholesale
  <2> QED BY <2>1, LoopFacts, HeadIsTarget, CommandAssumption DEF CommandAssumption, IInv,
         SuccessInv, TypeOK, StackType
<1>3. \/ Goto("observe") /\ stack' = stack
         /\ plan'.bad = TRUE
      \/ Goto("observe") /\ stack' = stack
         /\ stack.policy[Head(todo)].spec = AgentPolicies!Desired
      \/ Goto("report") /\ stack' = stack
         /\ plan'.bad = TRUE
      \/ Goto("report") /\ stack' = stack
         /\ stack.policy[Head(todo)].spec = AgentPolicies!Desired
  BY <1>1, <1>2 DEF AgentPolicies!Verify, AgentPolicies!Read, AgentPolicies!Checked,
     AgentPolicies!Fail, Fail, AgentPolicies!Report, Report, AgentPolicies!Row, Row,
     AgentPolicies!Goto, Goto, Guard, AgentPolicies!StackType
<1> PICK h : h = Head(todo)
  OBVIOUS
<1>4. CASE Goto("observe") /\ stack' = stack
               /\ plan'.bad = TRUE
  <2>1. HeadStays /\ rows \subseteq rows'
    BY <1>1, <1>4, GotoIs
  <2>2. KeptBut(h)
    BY <1>1, <1>2, <1>4, <2>1, AgentPoliciesKept
  <2>3. SettledInv'
    BY <1>1, <1>2, <2>1, <2>2, LoopSettles
  <2>4. AgentPoliciesAims'
    BY <1>1, <1>2, <1>4 DEF AgentPoliciesAims, Report, Goto, runVars
  <2> QED BY <1>1, <2>3, <2>4, AgentPoliciesAlone
<1>5. CASE Goto("observe") /\ stack' = stack
               /\ stack.policy[Head(todo)].spec = AgentPolicies!Desired
  <2>1. HeadStays /\ rows \subseteq rows'
    BY <1>1, <1>5, GotoIs
  <2>2. KeptBut(h)
    BY <1>1, <1>2, <1>5, <2>1, AgentPoliciesKept
  <2>3. SettledInv'
    BY <1>1, <1>2, <2>1, <2>2, LoopSettles
  <2>4. AgentPoliciesAims'
    BY <1>1, <1>2, <1>5 DEF AgentPoliciesAims, Report, Goto, runVars
  <2> QED BY <1>1, <2>3, <2>4, AgentPoliciesAlone
<1>6. CASE Goto("report") /\ stack' = stack
               /\ plan'.bad = TRUE
  <2>1. HeadStays /\ rows \subseteq rows'
    BY <1>1, <1>6, GotoIs
  <2>2. KeptBut(h)
    BY <1>1, <1>2, <1>6, <2>1, AgentPoliciesKept
  <2>3. SettledInv'
    BY <1>1, <1>2, <2>1, <2>2, LoopSettles
  <2>4. AgentPoliciesAims'
    BY <1>1, <1>2, <1>6 DEF AgentPoliciesAims, Report, Goto, runVars
  <2> QED BY <1>1, <2>3, <2>4, AgentPoliciesAlone
<1>7. CASE Goto("report") /\ stack' = stack
               /\ stack.policy[Head(todo)].spec = AgentPolicies!Desired
  <2>1. HeadStays /\ rows \subseteq rows'
    BY <1>1, <1>7, GotoIs
  <2>2. KeptBut(h)
    BY <1>1, <1>2, <1>7, <2>1, AgentPoliciesKept
  <2>3. SettledInv'
    BY <1>1, <1>2, <2>1, <2>2, LoopSettles
  <2>4. AgentPoliciesAims'
    BY <1>1, <1>2, <1>7 DEF AgentPoliciesAims, Report, Goto, runVars
  <2> QED BY <1>1, <2>3, <2>4, AgentPoliciesAlone
<1> QED BY <1>3, <1>4, <1>5, <1>6, <1>7

\* The package that is read again decides nothing.
LEMMA AgentPoliciesObserveSettles ==
    ASSUME IInv, SuccessInv, cmd.family = "agent_policies", AgentPolicies!Observe
    PROVE  SuccessInv'
<1>1. /\ DOMAIN plan = {"before", "package", "applied", "bad"} /\ pc = "observe"
           /\ cmd.op \in {"import"} /\ cmd' = cmd
      /\ cmd.targets \in SUBSET Ids /\ moved' \in {moved, moved \ {0}}
  BY DEF IInv, CmdOK, OpOK, AgentPoliciesInv, SuccessInv, AgentPoliciesAims,
     AgentPolicies!Observe, AgentPolicies!Read, AgentPolicies!Checked, AgentPolicies!Package
<1>2. /\ Looping /\ Head(todo) \in Ids /\ Head(todo) \in Range(todo) /\ SettledInv
      /\ 0 \notin Ids
      /\ Head(todo) \in cmd.targets \/ cmd.op = "import_lists"
      /\ AgentPoliciesAims /\ stack \in AgentPolicies!StackType
  <2>1. Looping
    BY <1>1 DEF Looping, Ended, Planning, Wholesale
  <2> QED BY <2>1, LoopFacts, HeadIsTarget, CommandAssumption DEF CommandAssumption, IInv,
         SuccessInv, TypeOK, StackType
<1>3. \/ Report(Head(todo), "failed", plan.applied) /\ stack' = stack
      \/ /\ Report(Head(todo), "created", plan.applied) /\ stack' = stack
         /\ (stack.policy[Head(todo)].spec = AgentPolicies!Desired \/ Head(todo) \in moved)
      \/ /\ Report(Head(todo), "replaced", plan.applied) /\ stack' = stack
         /\ (stack.policy[Head(todo)].spec = AgentPolicies!Desired \/ Head(todo) \in moved)
  BY <1>1, <1>2 DEF AgentPolicies!Observe, AgentPolicies!Read, AgentPolicies!Checked,
     AgentPolicies!Fail, Fail, AgentPolicies!Report, Report, AgentPolicies!Row, Row,
     AgentPolicies!Goto, Goto, AgentPolicies!Outcome, AgentPolicies!RowResult,
     AgentPoliciesAims, Guard, AgentPolicies!StackType
<1> PICK h : h = Head(todo)
  OBVIOUS
<1>4. CASE Report(Head(todo), "failed", plan.applied) /\ stack' = stack
  <2>1. RowFails
    BY <1>4, ReportIs
  <2>2. SettledInv'
    BY <2>1, FailureSettles
  <2>3. AgentPoliciesAims'
    BY <1>1, <1>2, <1>4 DEF AgentPoliciesAims, Report, Goto, runVars
  <2> QED BY <1>1, <2>2, <2>3, AgentPoliciesAlone
<1>5. CASE /\ Report(Head(todo), "created", plan.applied) /\ stack' = stack
           /\ (stack.policy[Head(todo)].spec = AgentPolicies!Desired \/ Head(todo) \in moved)
  <2>1. HeadReported /\ rows \subseteq rows'
    BY <1>5, ReportIs
  <2>2. KeptBut(h)
    BY <1>1, <1>2, <1>5, <2>1, AgentPoliciesKept
  <2>3. Settled(h)'
    BY <1>1, <1>2, <1>5, AgentPoliciesGoal DEF Settled, AgentPolicies!Goal
  <2>4. SettledInv'
    BY <1>1, <1>2, <2>1, <2>2, <2>3, LoopSettles
  <2>5. AgentPoliciesAims'
    BY <1>1, <1>2, <1>5 DEF AgentPoliciesAims, Report, Goto, runVars
  <2> QED BY <1>1, <2>4, <2>5, AgentPoliciesAlone
<1>6. CASE /\ Report(Head(todo), "replaced", plan.applied) /\ stack' = stack
           /\ (stack.policy[Head(todo)].spec = AgentPolicies!Desired \/ Head(todo) \in moved)
  <2>1. HeadReported /\ rows \subseteq rows'
    BY <1>6, ReportIs
  <2>2. KeptBut(h)
    BY <1>1, <1>2, <1>6, <2>1, AgentPoliciesKept
  <2>3. Settled(h)'
    BY <1>1, <1>2, <1>6, AgentPoliciesGoal DEF Settled, AgentPolicies!Goal
  <2>4. SettledInv'
    BY <1>1, <1>2, <2>1, <2>2, <2>3, LoopSettles
  <2>5. AgentPoliciesAims'
    BY <1>1, <1>2, <1>6 DEF AgentPoliciesAims, Report, Goto, runVars
  <2> QED BY <1>1, <2>4, <2>5, AgentPoliciesAlone
<1> QED BY <1>3, <1>4, <1>5, <1>6

\* A row that is not bad is about a policy that is as the file has it.
LEMMA AgentPoliciesReportRowSettles ==
    ASSUME IInv, SuccessInv, cmd.family = "agent_policies", AgentPolicies!ReportRow
    PROVE  SuccessInv'
<1>1. /\ DOMAIN plan = {"before", "package", "applied", "bad"} /\ pc = "report"
           /\ cmd.op \in {"import"} /\ cmd' = cmd
      /\ cmd.targets \in SUBSET Ids /\ moved' = moved
  BY DEF IInv, CmdOK, OpOK, AgentPoliciesInv, SuccessInv, AgentPoliciesAims,
     AgentPolicies!ReportRow
<1>2. /\ Looping /\ Head(todo) \in Ids /\ Head(todo) \in Range(todo) /\ SettledInv
      /\ 0 \notin Ids
      /\ Head(todo) \in cmd.targets \/ cmd.op = "import_lists"
      /\ AgentPoliciesAims /\ stack \in AgentPolicies!StackType
  <2>1. Looping
    BY <1>1 DEF Looping, Ended, Planning, Wholesale
  <2> QED BY <2>1, LoopFacts, HeadIsTarget, CommandAssumption DEF CommandAssumption, IInv,
         SuccessInv, TypeOK, StackType
<1>3. \/ Report(Head(todo), "failed", plan.applied) /\ stack' = stack
      \/ /\ Report(Head(todo), "created", plan.applied) /\ stack' = stack
         /\ (stack.policy[Head(todo)].spec = AgentPolicies!Desired \/ Head(todo) \in moved)
      \/ /\ Report(Head(todo), "replaced", plan.applied) /\ stack' = stack
         /\ (stack.policy[Head(todo)].spec = AgentPolicies!Desired \/ Head(todo) \in moved)
  BY <1>1, <1>2 DEF AgentPolicies!ReportRow, AgentPolicies!Report, Report,
     AgentPolicies!Row, Row, AgentPolicies!Goto, Goto, AgentPolicies!Outcome,
     AgentPolicies!RowResult, AgentPoliciesAims, Guard, AgentPolicies!StackType
<1> PICK h : h = Head(todo)
  OBVIOUS
<1>4. CASE Report(Head(todo), "failed", plan.applied) /\ stack' = stack
  <2>1. RowFails
    BY <1>4, ReportIs
  <2>2. SettledInv'
    BY <2>1, FailureSettles
  <2>3. AgentPoliciesAims'
    BY <1>1, <1>2, <1>4 DEF AgentPoliciesAims, Report, Goto, runVars
  <2> QED BY <1>1, <2>2, <2>3, AgentPoliciesAlone
<1>5. CASE /\ Report(Head(todo), "created", plan.applied) /\ stack' = stack
           /\ (stack.policy[Head(todo)].spec = AgentPolicies!Desired \/ Head(todo) \in moved)
  <2>1. HeadReported /\ rows \subseteq rows'
    BY <1>5, ReportIs
  <2>2. KeptBut(h)
    BY <1>1, <1>2, <1>5, <2>1, AgentPoliciesKept
  <2>3. Settled(h)'
    BY <1>1, <1>2, <1>5, AgentPoliciesGoal DEF Settled, AgentPolicies!Goal
  <2>4. SettledInv'
    BY <1>1, <1>2, <2>1, <2>2, <2>3, LoopSettles
  <2>5. AgentPoliciesAims'
    BY <1>1, <1>2, <1>5 DEF AgentPoliciesAims, Report, Goto, runVars
  <2> QED BY <1>1, <2>4, <2>5, AgentPoliciesAlone
<1>6. CASE /\ Report(Head(todo), "replaced", plan.applied) /\ stack' = stack
           /\ (stack.policy[Head(todo)].spec = AgentPolicies!Desired \/ Head(todo) \in moved)
  <2>1. HeadReported /\ rows \subseteq rows'
    BY <1>6, ReportIs
  <2>2. KeptBut(h)
    BY <1>1, <1>2, <1>6, <2>1, AgentPoliciesKept
  <2>3. Settled(h)'
    BY <1>1, <1>2, <1>6, AgentPoliciesGoal DEF Settled, AgentPolicies!Goal
  <2>4. SettledInv'
    BY <1>1, <1>2, <2>1, <2>2, <2>3, LoopSettles
  <2>5. AgentPoliciesAims'
    BY <1>1, <1>2, <1>6 DEF AgentPoliciesAims, Report, Goto, runVars
  <2> QED BY <1>1, <2>4, <2>5, AgentPoliciesAlone
<1> QED BY <1>3, <1>4, <1>5, <1>6

\* A policy that is deleted is gone.
LEMMA AgentPoliciesDeleteSettles ==
    ASSUME IInv, SuccessInv, cmd.family = "agent_policies", AgentPolicies!Delete
    PROVE  SuccessInv'
<1>1. /\ DOMAIN plan = {"before", "package", "applied", "bad"} /\ pc = "delete"
           /\ cmd.op \in {"delete"} /\ cmd' = cmd
      /\ cmd.targets \in SUBSET Ids /\ moved' = moved
  BY DEF IInv, CmdOK, OpOK, AgentPoliciesInv, SuccessInv, AgentPoliciesAims,
     AgentPolicies!Delete
<1>2. /\ Looping /\ Head(todo) \in Ids /\ Head(todo) \in Range(todo) /\ SettledInv
      /\ 0 \notin Ids
      /\ Head(todo) \in cmd.targets \/ cmd.op = "import_lists"
      /\ AgentPoliciesAims /\ stack \in AgentPolicies!StackType
  <2>1. Looping
    BY <1>1 DEF Looping, Ended, Planning, Wholesale
  <2> QED BY <2>1, LoopFacts, HeadIsTarget, CommandAssumption DEF CommandAssumption, IInv,
         SuccessInv, TypeOK, StackType
<1>3. \/ Report(Head(todo), "failed", FALSE) /\ TRUE
      \/ /\ Report(Head(todo), "deleted", TRUE)
         /\ stack' = [stack EXCEPT !.policy[Head(todo)] = AgentPolicies!Absent]
      \/ UNCHANGED runVars
           /\ stack' = [stack EXCEPT !.policy[Head(todo)] = AgentPolicies!Absent]
  BY <1>1, <1>2 DEF AgentPolicies!Delete, AgentPolicies!Mutate, AgentPolicies!MutateAll,
     AgentPolicies!Report, Report, AgentPolicies!Row, Row, AgentPolicies!Goto, Goto,
     AgentPolicies!runVars, runVars, Guard, AgentPolicies!StackType
<1> PICK h : h = Head(todo)
  OBVIOUS
<1>4. CASE Report(Head(todo), "failed", FALSE) /\ TRUE
  <2>1. RowFails
    BY <1>4, ReportIs
  <2>2. SettledInv'
    BY <2>1, FailureSettles
  <2>3. AgentPoliciesAims'
    BY <1>1, <1>2, <1>4 DEF AgentPoliciesAims, Report, Goto, runVars, AgentPolicies!Absent
  <2> QED BY <1>1, <2>2, <2>3, AgentPoliciesAlone
<1>5. CASE /\ Report(Head(todo), "deleted", TRUE)
           /\ stack' = [stack EXCEPT !.policy[Head(todo)] = AgentPolicies!Absent]
  <2>1. HeadReported /\ rows \subseteq rows'
    BY <1>5, ReportIs
  <2>2. KeptBut(h)
    BY <1>1, <1>2, <1>5, <2>1, AgentPoliciesKept DEF AgentPolicies!StackType
  <2>3. stack'.policy[h].spec = 0
    BY <1>1, <1>2, <1>5 DEF AgentPolicies!StackType, AgentPolicies!Absent
  <2>4. Settled(h)'
    BY <1>1, <2>3, AgentPoliciesGoal DEF Settled, AgentPolicies!Goal
  <2>5. SettledInv'
    BY <1>1, <1>2, <2>1, <2>2, <2>4, LoopSettles
  <2>6. AgentPoliciesAims'
    BY <1>1, <1>2, <1>5 DEF AgentPoliciesAims, Report, Goto, runVars, AgentPolicies!Absent
  <2> QED BY <1>1, <2>5, <2>6, AgentPoliciesAlone
<1>6. CASE UNCHANGED runVars
             /\ stack' = [stack EXCEPT !.policy[Head(todo)] = AgentPolicies!Absent]
  <2>1. HeadStays /\ rows \subseteq rows'
    BY <1>1, <1>2, <1>6 DEF HeadStays, runVars, Looping, Ended
  <2>2. KeptBut(h)
    BY <1>1, <1>2, <1>6, <2>1, AgentPoliciesKept DEF AgentPolicies!StackType
  <2>3. SettledInv'
    BY <1>1, <1>2, <2>1, <2>2, LoopSettles
  <2>4. AgentPoliciesAims'
    BY <1>1, <1>2, <1>6 DEF AgentPoliciesAims, Report, Goto, runVars, AgentPolicies!Absent
  <2> QED BY <1>1, <2>3, <2>4, AgentPoliciesAlone
<1> QED BY <1>3, <1>4, <1>5, <1>6

\* What another client changes is its own affair.
LEMMA AgentPoliciesOthersEditSettles ==
    ASSUME IInv, SuccessInv, cmd.family = "agent_policies", AgentPolicies!OthersEdit
    PROVE  SuccessInv'
<1>1. /\ UNCHANGED <<cmd, pc, todo, plan, writes, rows, faults>> /\ ~Ended
           /\ moved \subseteq moved'
      /\ stack \in AgentPolicies!StackType /\ SettledInv /\ AgentPoliciesAims
  BY DEF AgentPolicies!OthersEdit, AgentPolicies!Edit, AgentPolicies!Ended, Ended, IInv,
     SuccessInv, TypeOK, StackType
<1>2. \A o \in Ids : o \in moved' \/ stack'.policy[o] = stack.policy[o]
  BY <1>1 DEF AgentPolicies!OthersEdit, AgentPolicies!Edit, AgentPolicies!StackType
<1>3. cmd.targets \subseteq Ids
  BY DEF IInv, CmdOK, OpOK
<1>4. ASSUME NEW x \in cmd.targets, Settled(x) PROVE Settled(x)'
  BY <1>1, <1>2, <1>3, <1>4, AgentPoliciesGoal DEF Settled, AgentPolicies!Goal
<1>5. SettledInv'
  BY <1>1, <1>4, OthersSettle
<1>6. AgentPoliciesAims'
  <2>1. pc \in {"observe", "report"} => Head(todo) \in Ids
    <3>1. pc \in {"observe", "report"} => Looping
      BY DEF Looping, Ended, Planning, Wholesale
    <3> QED BY <3>1, LoopFacts DEF IInv
  <2> QED BY <1>1, <1>2, <2>1 DEF AgentPoliciesAims
<1> QED BY <1>1, <1>5, <1>6, AgentPoliciesAlone

\* Every step of an agent policy command.
LEMMA AgentPoliciesSettle ==
    ASSUME IInv, SuccessInv, cmd.family = "agent_policies", AgentPolicies!Next
    PROVE  SuccessInv'
BY AgentPoliciesPlanningSettles, AgentPoliciesPlanPackageSettles,
   AgentPoliciesCheckPolicySettles, AgentPoliciesCheckPackageSettles,
   AgentPoliciesCheckNameSettles, AgentPoliciesCreateSettles, AgentPoliciesUpdateSettles,
   AgentPoliciesVerifySettles, AgentPoliciesObserveSettles, AgentPoliciesReportRowSettles,
   AgentPoliciesPlanDeleteSettles, AgentPoliciesDeleteSettles, AgentPoliciesOthersEditSettles
   DEF AgentPolicies!Next
-----------------------------------------------------------------------------
(* Cases and alerts.                                                          *)

\* The aims of the other components are not this one's.
LEMMA TriageAlone ==
    ASSUME cmd.family = "triage", cmd' = cmd, SettledInv', TriageAims'
    PROVE  SuccessInv'
BY DEF SuccessInv, DataViewsAims, AgentPoliciesAims, DetectionAims

\* The goal of a case or alert command.
LEMMA TriageGoal ==
    ASSUME cmd.family = "triage", cmd' = cmd, NEW o
    PROVE  /\ Goal(o) <=> Triage!Goal(o)
           /\ Goal(o)' <=> Triage!Goal(o)'
BY DEF Goal

\* The operations that post to a case.
TriagePosts == {"create", "comment", "attach"}

\* A post is settled while those of the others are made.
LEMMA TriageKept ==
    ASSUME cmd.family = "triage", cmd' = cmd, rows \subseteq rows', NEW h,
           cmd.op \in TriagePosts,
           \A o \in cmd.targets : o # h =>
               (o \in moved => o \in moved') /\ stack'.posts[o] = stack.posts[o]
    PROVE  KeptBut(h)
<1> SUFFICES ASSUME NEW o \in cmd.targets, o # h, Settled(o) PROVE Settled(o)'
  BY DEF KeptBut
<1>1. (o \in moved => o \in moved') /\ stack'.posts[o] = stack.posts[o]
  OBVIOUS
<1>2. Triage!Goal(o) => Triage!Goal(o)'
  BY <1>1 DEF Triage!Goal, TriagePosts
<1> QED BY <1>1, <1>2, TriageGoal, StaysSettled

\* Each case is still to be read.
LEMMA TriageBeginCasesSettles ==
    ASSUME IInv, SuccessInv, cmd.family = "triage", Triage!BeginCases
    PROVE  SuccessInv'
<1>1. cmd' = cmd /\ pc' \in {"resolve"}
  BY DEF Triage!BeginCases
<1>2. SettledInv'
  BY <1>1, NothingToSettle DEF Looping, Ended, Planning
<1>3. TriageAims'
  <2>1. cmd.targets \in SUBSET Ids /\ todo' = Sorted(cmd.targets)
    BY SameOrder DEF Triage!BeginCases, IInv, CmdOK
  <2>2. Range(todo') = cmd.targets
    BY <2>1, SortedFacts, CommandAssumption
  <2> QED BY <1>1, <2>2 DEF TriageAims
<1> QED BY <1>1, <1>2, <1>3, TriageAlone

\* A case is as it was read until somebody else changes it.
LEMMA TriageResolveCaseSettles ==
    ASSUME IInv, SuccessInv, cmd.family = "triage", Triage!ResolveCase
    PROVE  SuccessInv'
<1>1. cmd' = cmd /\ pc' \in {"resolve", "failed"}
  BY DEF Triage!ResolveCase, Triage!Read, Triage!Checked, Triage!Fail, Fail, Triage!Goto, Goto
<1>2. SettledInv'
  BY <1>1, NothingToSettle DEF Looping, Ended, Planning
<1>3. TriageAims'
  <2>1. CASE pc' = "failed"
    BY <1>1, <2>1 DEF TriageAims
  <2>2. CASE pc' = "resolve"
    <3>1. /\ pc = "resolve" /\ todo # <<>> /\ todo' = Tail(todo) /\ stack' = stack
          /\ moved' = moved \ {Head(todo)}
          /\ plan'.before = Triage!Noted(plan.before, Head(todo), stack.case[Head(todo)])
      BY <2>2 DEF Triage!ResolveCase, Triage!Read, Triage!Checked, Triage!Fail, Triage!Goto,
         IInv, PlanOK
    <3>2. Range(todo) = {Head(todo)} \cup Range(Tail(todo))
      BY <3>1, TailFacts DEF IInv, LoopInv, TodoOK
    <3>3. ASSUME NEW o \in cmd.targets
          PROVE  o \in Range(todo') \/ o \in moved' \/ stack'.case[o] = plan'.before[o]
      <4>1. CASE o = Head(todo)
        BY <3>1, <4>1 DEF Triage!Noted
      <4>2. CASE o # Head(todo) /\ o \notin Range(todo)
        <5>1. o \in DOMAIN plan.before
          BY <3>1, <4>2 DEF IInv, TriageInv
        <5>2. o \in moved \/ stack.case[o] = plan.before[o]
          BY <3>1, <4>2 DEF SuccessInv, TriageAims
        <5> QED BY <3>1, <4>2, <5>1, <5>2 DEF Triage!Noted
      <4> QED BY <3>1, <3>2, <4>1, <4>2
    <3> QED BY <1>1, <2>2, <3>3 DEF TriageAims
  <2> QED BY <1>1, <2>1, <2>2
<1> QED BY <1>1, <1>2, <1>3, TriageAlone

\* Users decide nothing.
LEMMA TriageResolveUsersSettles ==
    ASSUME IInv, SuccessInv, cmd.family = "triage", Triage!ResolveUsers
    PROVE  SuccessInv'
<1>1. cmd' = cmd /\ pc' \in {"alert_ids", "failed"}
  BY DEF Triage!ResolveUsers, Triage!Read, Triage!Checked, Triage!Fail, Fail, Triage!Goto,
     Goto
<1>2. SettledInv'
  BY <1>1, NothingToSettle DEF Looping, Ended, Planning
<1>3. TriageAims'
  BY <1>1 DEF TriageAims
<1> QED BY <1>1, <1>2, <1>3, TriageAlone

\* A case that is not for the update already has the status.
LEMMA TriagePlanCasesSettles ==
    ASSUME IInv, SuccessInv, cmd.family = "triage", Triage!PlanCases
    PROVE  SuccessInv'
<1>1. /\ pc = "resolve" /\ todo = <<>> /\ cmd' = cmd /\ stack' = stack /\ moved' = moved
      /\ cmd.op \in {"case_status", "case_delete"} /\ cmd.targets \in SUBSET Ids
  BY DEF Triage!PlanCases, IInv, TriageInv, CmdOK
<1>2. Range(todo) = {}
  BY <1>1 DEF Range
<1>3. \/ pc' = "failed"
      \/ /\ cmd.op = "case_status" /\ Guard(plan, Sorted(Triage!Transitions))
      \/ /\ cmd.op = "case_delete" /\ Guard(plan, Sorted(cmd.targets))
  BY <1>1, SameOrder DEF Triage!PlanCases, Triage!Fail, Fail, Triage!Goto, Goto,
     Triage!Guard, Guard
<1>4. CASE pc' = "failed"
  <2>1. SettledInv'
    BY <1>4, NothingToSettle DEF Looping, Ended
  <2>2. TriageAims'
    BY <1>4 DEF TriageAims
  <2> QED BY <1>1, <2>1, <2>2, TriageAlone
<1>5. CASE cmd.op = "case_status" /\ Guard(plan, Sorted(Triage!Transitions))
  <2>1. Triage!Transitions \in SUBSET Ids
    BY <1>1 DEF Triage!Transitions
  <2>2. Range(Sorted(Triage!Transitions)) = Triage!Transitions
    BY <2>1, SortedFacts, CommandAssumption
  <2>3. ASSUME NEW o \in cmd.targets PROVE o \in Triage!Transitions \/ Settled(o)'
    <3>1. CASE o \in Triage!Transitions
      BY <3>1
    <3>2. CASE o \notin Triage!Transitions
      <4>1. plan.before[o].status = Triage!Target
        BY <3>2 DEF Triage!Transitions
      <4>2. o \in moved' \/ stack'.case[o] = plan.before[o]
        BY <1>1, <1>2 DEF SuccessInv, TriageAims
      <4> QED BY <1>1, <1>5, <4>1, <4>2, TriageGoal DEF Settled, Triage!Goal
    <3> QED BY <3>1, <3>2
  <2>4. SettledInv'
    BY <1>1, <1>5, <2>2, <2>3, GuardSettles
  <2>5. TriageAims'
    <3>1. Range(<<>>) = {}
      BY DEF Range
    <3>2. Range(todo') \subseteq Triage!Transitions
      BY <1>5, <2>2, <3>1 DEF Guard
    <3>3. plan' = plan /\ pc' \in {"check", "done"}
      BY <1>5 DEF Guard
    <3> QED BY <1>1, <1>5, <3>2, <3>3 DEF TriageAims, Triage!Transitions
  <2> QED BY <1>1, <2>4, <2>5, TriageAlone
<1>6. CASE cmd.op = "case_delete" /\ Guard(plan, Sorted(cmd.targets))
  <2>1. Range(Sorted(cmd.targets)) = cmd.targets
    BY <1>1, SortedFacts, CommandAssumption
  <2>2. SettledInv'
    BY <1>1, <1>6, <2>1, GuardSettles
  <2>3. TriageAims'
    BY <1>1, <1>6 DEF Guard, TriageAims
  <2> QED BY <1>1, <2>2, <2>3, TriageAlone
<1> QED BY <1>3, <1>4, <1>5, <1>6

\* Each post is for the loop.
LEMMA TriageResolveSubjectSettles ==
    ASSUME IInv, SuccessInv, cmd.family = "triage", Triage!ResolveSubject
    PROVE  SuccessInv'
<1>1. /\ cmd' = cmd /\ stack' = stack /\ cmd.targets \in SUBSET Ids
      /\ cmd.op \in TriagePosts /\ cmd.targets = cmd.targets
  BY DEF Triage!ResolveSubject, IInv, TriageInv, CmdOK, TriagePosts
<1>2. \/ pc' \in {"failed", "alerts"}
      \/ /\ \E p : Guard(p, Sorted(cmd.targets))
         /\ TRUE
  BY SameOrder DEF Triage!ResolveSubject, Triage!Read, Triage!Checked, Triage!Fail, Fail,
     Triage!Goto, Goto, Triage!Guard, Guard, Triage!Subject
<1>3. CASE pc' \in {"failed", "alerts"}
  <2>1. SettledInv'
    BY <1>3, NothingToSettle DEF Looping, Ended, Planning
  <2>2. TriageAims'
    BY <1>3 DEF TriageAims
  <2> QED BY <1>1, <2>1, <2>2, TriageAlone
<1>4. CASE /\ \E p : Guard(p, Sorted(cmd.targets))
           /\ TRUE
  <2>1. Range(Sorted(cmd.targets)) = cmd.targets
    BY <1>1, SortedFacts, CommandAssumption
  <2>2. SettledInv'
    BY <1>1, <1>4, <2>1, GuardSettles
  <2>3. TriageAims'
    BY <1>1, <1>4 DEF Guard, TriageAims, TriagePosts
  <2> QED BY <1>1, <2>2, <2>3, TriageAlone
<1> QED BY <1>2, <1>3, <1>4

\* Each group of alerts is for the loop.
LEMMA TriageGroupAlertsSettles ==
    ASSUME IInv, SuccessInv, cmd.family = "triage", Triage!GroupAlerts
    PROVE  SuccessInv'
<1>1. /\ cmd' = cmd /\ stack' = stack /\ cmd.targets \in SUBSET Ids
      /\ cmd.op \in {"attach"} /\ cmd.targets = cmd.targets
  BY DEF Triage!GroupAlerts, IInv, TriageInv, CmdOK, TriagePosts
<1>2. \/ pc' \in {"failed", "alerts"}
      \/ /\ \E p : Guard(p, Sorted(cmd.targets))
         /\ TRUE
  BY SameOrder DEF Triage!GroupAlerts, Triage!Read, Triage!Checked, Triage!Fail, Fail,
     Triage!Goto, Goto, Triage!Guard, Guard
<1>3. CASE pc' \in {"failed", "alerts"}
  <2>1. SettledInv'
    BY <1>3, NothingToSettle DEF Looping, Ended, Planning
  <2>2. TriageAims'
    BY <1>3 DEF TriageAims
  <2> QED BY <1>1, <2>1, <2>2, TriageAlone
<1>4. CASE /\ \E p : Guard(p, Sorted(cmd.targets))
           /\ TRUE
  <2>1. Range(Sorted(cmd.targets)) = cmd.targets
    BY <1>1, SortedFacts, CommandAssumption
  <2>2. SettledInv'
    BY <1>1, <1>4, <2>1, GuardSettles
  <2>3. TriageAims'
    BY <1>1, <1>4 DEF Guard, TriageAims, TriagePosts
  <2> QED BY <1>1, <2>2, <2>3, TriageAlone
<1> QED BY <1>2, <1>3, <1>4

\* Each alert is for the query.
LEMMA TriageSampleQuerySettles ==
    ASSUME IInv, SuccessInv, cmd.family = "triage", Triage!SampleQuery
    PROVE  SuccessInv'
<1>1. /\ cmd' = cmd /\ stack' = stack /\ cmd.targets \in SUBSET Ids
      /\ cmd.op \in {"alert_query"} /\ Ids = cmd.targets
  BY DEF Triage!SampleQuery, IInv, TriageInv, CmdOK, TriagePosts
<1>2. \/ pc' \in {"failed", "alerts"}
      \/ /\ \E p : Guard(p, Sorted(Ids))
         /\ TRUE
  BY SameOrder DEF Triage!SampleQuery, Triage!Read, Triage!Checked, Triage!Fail, Fail,
     Triage!Goto, Goto, Triage!Guard, Guard
<1>3. CASE pc' \in {"failed", "alerts"}
  <2>1. SettledInv'
    BY <1>3, NothingToSettle DEF Looping, Ended, Planning
  <2>2. TriageAims'
    BY <1>3 DEF TriageAims
  <2> QED BY <1>1, <2>1, <2>2, TriageAlone
<1>4. CASE /\ \E p : Guard(p, Sorted(Ids))
           /\ TRUE
  <2>1. Range(Sorted(Ids)) = Ids
    BY <1>1, SortedFacts, CommandAssumption
  <2>2. SettledInv'
    BY <1>1, <1>4, <2>1, GuardSettles
  <2>3. TriageAims'
    BY <1>1, <1>4 DEF Guard, TriageAims, TriagePosts
  <2> QED BY <1>1, <2>2, <2>3, TriageAlone
<1> QED BY <1>2, <1>3, <1>4

\* The alerts that are found are there.
LEMMA TriageResolveAlertsSettles ==
    ASSUME IInv, SuccessInv, cmd.family = "triage", Triage!ResolveAlerts
    PROVE  SuccessInv'
<1>1. /\ cmd' = cmd /\ stack' = stack /\ cmd.targets \in SUBSET Ids
      /\ cmd.op \in {"alert_status", "alert_tags", "alert_assign"}
           /\ cmd.targets = cmd.targets
  BY DEF Triage!ResolveAlerts, IInv, TriageInv, CmdOK, TriagePosts
<1>2. \/ pc' \in {"failed", "alerts"}
      \/ /\ \E p : Guard(p, Sorted(cmd.targets))
         /\ \A o \in cmd.targets : stack.alert[o] # 0
  BY SameOrder DEF Triage!ResolveAlerts, Triage!Read, Triage!Checked, Triage!Fail, Fail,
     Triage!Goto, Goto, Triage!Guard, Guard
<1>3. CASE pc' \in {"failed", "alerts"}
  <2>1. SettledInv'
    BY <1>3, NothingToSettle DEF Looping, Ended, Planning
  <2>2. TriageAims'
    BY <1>3 DEF TriageAims
  <2> QED BY <1>1, <2>1, <2>2, TriageAlone
<1>4. CASE /\ \E p : Guard(p, Sorted(cmd.targets))
           /\ \A o \in cmd.targets : stack.alert[o] # 0
  <2>1. Range(Sorted(cmd.targets)) = cmd.targets
    BY <1>1, SortedFacts, CommandAssumption
  <2>2. SettledInv'
    BY <1>1, <1>4, <2>1, GuardSettles
  <2>3. TriageAims'
    BY <1>1, <1>4 DEF Guard, TriageAims, TriagePosts
  <2> QED BY <1>1, <2>2, <2>3, TriageAlone
<1> QED BY <1>2, <1>3, <1>4

\* A post that was answered is made; one that was not ends the command or fails its row.
LEMMA TriagePostSettles ==
    ASSUME IInv, SuccessInv, cmd.family = "triage", Triage!Post
    PROVE  SuccessInv'
<1>1. /\ pc = "check" /\ cmd.op \in TriagePosts /\ cmd' = cmd /\ moved' = moved
      /\ cmd.targets \in SUBSET Ids
  BY DEF IInv, CmdOK, TriagePosts, Triage!Post
<1>2. /\ Looping /\ Head(todo) \in Ids /\ Head(todo) \in Range(todo) /\ SettledInv
      /\ 0 \notin Ids
      /\ Head(todo) \in cmd.targets \/ cmd.op = "import_lists"
      /\ TriageAims /\ stack \in Triage!StackType
  <2>1. Looping
    BY <1>1 DEF Looping, Ended, Planning, Wholesale
  <2> QED BY <2>1, LoopFacts, HeadIsTarget, CommandAssumption DEF CommandAssumption, IInv,
         SuccessInv, TypeOK, StackType
<1>3. \/ Report(Head(todo), "failed", FALSE) /\ TRUE
      \/ Fail
      \/ /\ Report(Head(todo), "created", TRUE)
         /\ stack' = [stack EXCEPT !.posts[Head(todo)] = @ + 1]
      \/ UNCHANGED runVars /\ stack' = [stack EXCEPT !.posts[Head(todo)] = @ + 1]
  BY <1>1, <1>2 DEF Triage!Post, Triage!Mutate, Triage!MutateAll, Triage!Report, Report,
     Triage!Row, Row, Triage!Goto, Goto, Triage!runVars, runVars, Triage!Fail, Fail, Guard,
     Triage!StackType
<1> PICK h : h = Head(todo)
  OBVIOUS
<1>4. CASE Report(Head(todo), "failed", FALSE) /\ TRUE
  <2>1. RowFails
    BY <1>4, ReportIs
  <2>2. SettledInv'
    BY <2>1, FailureSettles
  <2>3. TriageAims'
    BY <1>1, <1>2, <1>4 DEF TriageAims, Report, Goto, Fail, runVars, TriagePosts
  <2> QED BY <1>1, <2>2, <2>3, TriageAlone
<1>5. CASE Fail
  <2>1. SettledInv'
    BY <1>5, NothingToSettle DEF Fail, Goto, Looping, Ended
  <2>2. TriageAims'
    BY <1>1, <1>2, <1>5 DEF TriageAims, Report, Goto, Fail, runVars, TriagePosts
  <2> QED BY <1>1, <2>1, <2>2, TriageAlone
<1>6. CASE /\ Report(Head(todo), "created", TRUE)
           /\ stack' = [stack EXCEPT !.posts[Head(todo)] = @ + 1]
  <2>1. HeadReported /\ rows \subseteq rows'
    BY <1>6, ReportIs
  <2>2. KeptBut(h)
    BY <1>1, <1>2, <1>6, <2>1, TriageKept DEF Triage!StackType
  <2>3. stack'.posts[h] > 0
    BY <1>1, <1>2, <1>6 DEF Triage!StackType, TriagePosts
  <2>4. Settled(h)'
    BY <1>1, <2>3, TriageGoal DEF Settled, Triage!Goal, TriagePosts
  <2>5. SettledInv'
    BY <1>1, <1>2, <2>1, <2>2, <2>4, LoopSettles
  <2>6. TriageAims'
    BY <1>1, <1>2, <1>6 DEF TriageAims, Report, Goto, Fail, runVars, TriagePosts
  <2> QED BY <1>1, <2>5, <2>6, TriageAlone
<1>7. CASE UNCHANGED runVars /\ stack' = [stack EXCEPT !.posts[Head(todo)] = @ + 1]
  <2>1. HeadStays /\ rows \subseteq rows'
    BY <1>1, <1>2, <1>7 DEF HeadStays, runVars, Looping, Ended
  <2>2. KeptBut(h)
    BY <1>1, <1>2, <1>7, <2>1, TriageKept DEF Triage!StackType
  <2>3. SettledInv'
    BY <1>1, <1>2, <2>1, <2>2, LoopSettles
  <2>4. TriageAims'
    BY <1>1, <1>2, <1>7 DEF TriageAims, Report, Goto, Fail, runVars, TriagePosts
  <2> QED BY <1>1, <2>3, <2>4, TriageAlone
<1> QED BY <1>3, <1>4, <1>5, <1>6, <1>7

\* The cases of a PATCH that was answered have the status.
LEMMA TriagePatchSettles ==
    ASSUME IInv, SuccessInv, cmd.family = "triage", Triage!Patch
    PROVE  SuccessInv'
<1>1. /\ pc = "check" /\ cmd.op = "case_status" /\ cmd' = cmd /\ moved' = moved
           /\ plan' = plan
      /\ Looping /\ SettledInv /\ TriageAims /\ stack \in Triage!StackType
           /\ cmd.targets \in SUBSET Ids
  BY DEF Triage!Patch, Looping, Ended, Planning, Wholesale, SuccessInv, IInv, TypeOK,
     StackType, CmdOK
<1> DEFINE P == [o \in Ids |-> IF o \in Triage!Transitions
                 THEN [status |-> Triage!Target, version |-> stack.case[o].version + 1]
                 ELSE stack.case[o]]
<1>2. \/ pc' = "failed"
      \/ /\ pc' = "done" /\ rows' = {Row(o, "changed", TRUE) : o \in Triage!Transitions}
         /\ stack' = [stack EXCEPT !.case = P]
      \/ UNCHANGED runVars /\ stack' = [stack EXCEPT !.case = P]
  BY <1>1 DEF Triage!Patch, Triage!MutateAll, Triage!ReportAll, ReportAll, Triage!Fail,
     Fail, Triage!Goto, Goto, Triage!runVars, runVars, Triage!Row, Row
<1>3. \A o \in Ids :
        /\ o \in Triage!Transitions => P[o].status = Triage!Target
        /\ o \notin Triage!Transitions => P[o] = stack.case[o]
  OBVIOUS
<1> HIDE DEF P
<1>4. CASE pc' = "failed"
  <2>1. SettledInv'
    BY <1>4, NothingToSettle DEF Looping, Ended
  <2>2. TriageAims'
    BY <1>4 DEF TriageAims
  <2> QED BY <1>1, <2>1, <2>2, TriageAlone
<1>5. CASE /\ pc' = "done" /\ rows' = {Row(o, "changed", TRUE) : o \in Triage!Transitions}
           /\ stack' = [stack EXCEPT !.case = P]
  <2>1. stack'.case = P
    BY <1>1, <1>5 DEF Triage!StackType
  <2>2. rows = {} /\ FailedRows = {}
    BY <1>1 DEF IInv, LoopInv, BulkIsFirst, Bulk, BulkOps, FailedRows
  <2>3. CASE cmd.yes
    <3>1. ASSUME NEW o \in cmd.targets PROVE Settled(o)'
      <4>1. CASE o \in Triage!Transitions
        <5>1. stack'.case[o].status = Triage!Target
          BY <1>1, <1>3, <2>1, <4>1
        <5> QED BY <1>1, <5>1, TriageGoal DEF Settled, Triage!Goal
      <4>2. CASE o \notin Triage!Transitions
        <5>1. Settled(o)
          BY <1>1, <2>2, <2>3, <4>2 DEF SettledInv, TriageAims
        <5>2. stack'.case[o] = stack.case[o]
          BY <1>1, <1>3, <2>1, <4>2
        <5> QED BY <1>1, <2>2, <5>1, <5>2, TriageGoal DEF Settled, Triage!Goal
      <4> QED BY <4>1, <4>2
    <3>2. SettledInv'
      BY <1>1, <3>1 DEF SettledInv
    <3>3. TriageAims'
      BY <1>5 DEF TriageAims
    <3> QED BY <1>1, <3>2, <3>3, TriageAlone
  <2>4. CASE ~cmd.yes
    <3>1. SettledInv'
      BY <1>1, <2>4, NothingToSettle
    <3>2. TriageAims'
      BY <1>5 DEF TriageAims
    <3> QED BY <1>1, <3>1, <3>2, TriageAlone
  <2> QED BY <2>3, <2>4
<1>6. CASE UNCHANGED runVars /\ stack' = [stack EXCEPT !.case = P]
  <2>1. stack'.case = P
    BY <1>1, <1>6 DEF Triage!StackType
  <2>2. ASSUME NEW o \in cmd.targets, Settled(o) PROVE Settled(o)'
    <3>1. stack.case[o].status = Triage!Target => stack'.case[o].status = Triage!Target
      BY <1>1, <1>3, <2>1
    <3> QED BY <1>1, <1>6, <2>2, <3>1, TriageGoal DEF Settled, Triage!Goal, runVars
  <2>3. SettledInv'
    BY <1>1, <1>6, <2>2, BulkSettles
  <2>4. TriageAims'
    BY <1>1, <1>6 DEF TriageAims, runVars, Triage!Transitions
  <2> QED BY <1>1, <2>3, <2>4, TriageAlone
<1> QED BY <1>2, <1>4, <1>5, <1>6

\* The cases of a deletion that was answered are gone.
LEMMA TriageDeleteCasesSettles ==
    ASSUME IInv, SuccessInv, cmd.family = "triage", Triage!DeleteCases
    PROVE  SuccessInv'
<1>1. /\ pc = "check" /\ cmd.op = "case_delete" /\ cmd' = cmd /\ moved' = moved
      /\ Looping /\ SettledInv /\ stack \in Triage!StackType /\ cmd.targets \in SUBSET Ids
  BY DEF Triage!DeleteCases, Looping, Ended, Planning, Wholesale, SuccessInv, IInv, TypeOK,
     StackType, CmdOK
<1> DEFINE D == [o \in Ids |-> IF o \in cmd.targets THEN Triage!Absent ELSE stack.case[o]]
<1>2. \/ pc' = "failed"
      \/ pc' = "done" /\ stack' = [stack EXCEPT !.case = D]
      \/ UNCHANGED runVars /\ stack' = [stack EXCEPT !.case = D]
  BY <1>1 DEF Triage!DeleteCases, Triage!MutateAll, Triage!ReportAll, ReportAll,
     Triage!Fail, Fail, Triage!Goto, Goto, Triage!runVars, runVars, Triage!Row, Row
<1>3. \A o \in cmd.targets : D[o] = Triage!Absent
  BY <1>1
<1> HIDE DEF D
<1>4. pc' = "failed" \/ \A o \in cmd.targets : Settled(o)'
  <2>1. CASE stack' = [stack EXCEPT !.case = D]
    <3>1. stack'.case = D
      BY <1>1, <2>1 DEF Triage!StackType
    <3> QED BY <1>1, <1>3, <3>1, TriageGoal DEF Settled, Triage!Goal
  <2> QED BY <1>2, <2>1
<1>5. SettledInv'
  BY <1>1, <1>4, BulkSettles
<1>6. TriageAims'
  BY <1>1, <1>2 DEF TriageAims, runVars
<1> QED BY <1>1, <1>5, <1>6, TriageAlone

\* An update without conflicts has reached every alert it matched.
LEMMA TriageUpdateAlertsSettles ==
    ASSUME IInv, SuccessInv, cmd.family = "triage", Triage!UpdateAlerts
    PROVE  SuccessInv'
<1>1. /\ pc = "check" /\ cmd.op
           \in {"alert_status", "alert_tags", "alert_assign", "alert_query"}
      /\ cmd' = cmd /\ moved' = moved /\ (cmd.op = "alert_query" => cmd.targets = Ids)
      /\ Looping /\ SettledInv /\ TriageAims /\ stack \in Triage!StackType
           /\ cmd.targets \in SUBSET Ids
  BY DEF Triage!UpdateAlerts, Looping, Ended, Planning, Wholesale, SuccessInv, IInv, TypeOK,
     StackType, CmdOK
<1>2. PICK hit \in SUBSET Triage!Matched :
        \/ pc' = "failed"
        \/ /\ pc' = "done"
           /\ rows' = {Triage!Row(o, "changed", TRUE) : o \in hit}
                         \cup {Triage!ConflictResult(o) : o \in Triage!Matched \ hit}
           /\ stack' = [stack EXCEPT !.alert = [o \in Ids |->
                           IF o \in hit THEN Triage!Target ELSE stack.alert[o]]]
        \/ /\ UNCHANGED runVars
           /\ stack' = [stack EXCEPT !.alert = [o \in Ids |->
                           IF o \in hit THEN Triage!Target ELSE stack.alert[o]]]
  BY Zenon DEF Triage!UpdateAlerts, Triage!MutateAll, Triage!ReportAll, ReportAll,
     Triage!Fail, Fail, Triage!Goto, Goto, Triage!runVars, runVars
<1> DEFINE A == [o \in Ids |-> IF o \in hit THEN Triage!Target ELSE stack.alert[o]]
<1>3. \A o \in Ids :
        /\ o \in hit => A[o] = Triage!Target
        /\ o \notin hit => A[o] = stack.alert[o]
  OBVIOUS
<1>4. \/ pc' = "failed"
      \/ /\ pc' = "done" /\ stack' = [stack EXCEPT !.alert = A]
         /\ \A o \in Triage!Matched \ hit : Triage!ConflictResult(o) \in rows'
      \/ UNCHANGED runVars /\ stack' = [stack EXCEPT !.alert = A]
  BY <1>2
<1> HIDE DEF A
<1>5. CASE pc' = "failed"
  <2>1. SettledInv'
    BY <1>5, NothingToSettle DEF Looping, Ended
  <2>2. TriageAims'
    BY <1>5 DEF TriageAims
  <2> QED BY <1>1, <2>1, <2>2, TriageAlone
<1>6. CASE /\ pc' = "done" /\ stack' = [stack EXCEPT !.alert = A]
           /\ \A o \in Triage!Matched \ hit : Triage!ConflictResult(o) \in rows'
  <2>1. stack'.alert = A
    BY <1>1, <1>6 DEF Triage!StackType
  <2>2. TriageAims'
    BY <1>6 DEF TriageAims
  <2>3. CASE Triage!Matched \subseteq hit
    <3>1. ASSUME NEW o \in cmd.targets PROVE Settled(o)'
      <4>1. o \in Ids
        BY <1>1
      <4>2. CASE cmd.op = "alert_query"
        <5>1. A[o] # 1
          BY <1>3, <2>3, <4>1, <4>2 DEF Triage!Matched, Triage!Target
        <5> QED BY <1>1, <2>1, <4>2, <5>1, TriageGoal DEF Settled, Triage!Goal
      <4>3. CASE cmd.op # "alert_query"
        <5>1. o \in moved \/ stack.alert[o] # 0
          BY <1>1, <4>3 DEF TriageAims
        <5>2. o \in moved \/ A[o] = Triage!Target
          BY <1>3, <2>3, <4>1, <4>3, <5>1 DEF Triage!Matched
        <5> QED BY <1>1, <2>1, <4>3, <5>2, TriageGoal DEF Settled, Triage!Goal
      <4> QED BY <4>2, <4>3
    <3>2. SettledInv'
      BY <1>1, <3>1, BulkSettles
    <3> QED BY <1>1, <2>2, <3>2, TriageAlone
  <2>4. CASE ~(Triage!Matched \subseteq hit)
    <3>1. PICK o \in Triage!Matched : o \notin hit
      BY <2>4
    <3>2. Triage!ConflictResult(o) \in rows'
      BY <1>6, <3>1
    <3>3. CASE cmd.op = "alert_query" /\ cmd.proceed
      <4>1. \A x \in cmd.targets : Settled(x)'
        BY <1>1, <3>3, TriageGoal DEF Settled, Triage!Goal
      <4>2. SettledInv'
        BY <1>1, <4>1, BulkSettles
      <4> QED BY <1>1, <2>2, <4>2, TriageAlone
    <3>4. CASE ~(cmd.op = "alert_query" /\ cmd.proceed)
      <4>1. Row(o, "failed", FALSE) \in rows'
        BY <3>2, <3>4 DEF Triage!ConflictResult, Triage!Row, Row
      <4>2. RowFails
        BY <4>1 DEF RowFails, Row
      <4>3. SettledInv'
        BY <4>2, FailureSettles
      <4> QED BY <1>1, <2>2, <4>3, TriageAlone
    <3> QED BY <3>3, <3>4
  <2> QED BY <2>3, <2>4
<1>7. CASE UNCHANGED runVars /\ stack' = [stack EXCEPT !.alert = A]
  <2>1. stack'.alert = A
    BY <1>1, <1>7 DEF Triage!StackType
  <2>2. \A o \in Ids : stack'.alert[o] = Triage!Target \/ stack'.alert[o] = stack.alert[o]
    BY <1>3, <2>1
  <2>3. ASSUME NEW o \in cmd.targets, Settled(o) PROVE Settled(o)'
    <3>1. Triage!Goal(o) => Triage!Goal(o)'
      BY <1>1, <2>2 DEF Triage!Goal, Triage!Target
    <3> QED BY <1>1, <1>7, <2>3, <3>1, TriageGoal DEF Settled, runVars
  <2>4. SettledInv'
    BY <1>1, <1>7, <2>3, BulkSettles
  <2>5. TriageAims'
    BY <1>1, <1>7, <2>2 DEF TriageAims, runVars, Triage!Target
  <2> QED BY <1>1, <2>4, <2>5, TriageAlone
<1> QED BY <1>4, <1>5, <1>6, <1>7

\* What another client changes is its own affair.
LEMMA TriageOthersEditSettles ==
    ASSUME IInv, SuccessInv, cmd.family = "triage", Triage!OthersEdit
    PROVE  SuccessInv'
<1>1. /\ UNCHANGED <<cmd, pc, todo, plan, writes, rows, faults>> /\ ~Ended
           /\ moved \subseteq moved'
      /\ stack \in Triage!StackType /\ SettledInv /\ TriageAims
  BY DEF Triage!OthersEdit, Triage!Edit, Triage!Ended, Ended, IInv, SuccessInv, TypeOK,
     StackType
<1>2. \A o \in Ids :
        \/ o \in moved'
        \/ /\ stack'.case[o] = stack.case[o] /\ stack'.alert[o] = stack.alert[o]
           /\ stack'.posts[o] = stack.posts[o]
  BY <1>1 DEF Triage!OthersEdit, Triage!Edit, Triage!StackType
<1>3. cmd.targets \subseteq Ids
  BY DEF IInv, CmdOK, OpOK
<1>4. ASSUME NEW x \in cmd.targets, Settled(x) PROVE Settled(x)'
  <2>1. x \in moved' \/ (Triage!Goal(x) => Triage!Goal(x)')
    BY <1>1, <1>2, <1>3 DEF Triage!Goal
  <2> QED BY <1>1, <1>4, <2>1, TriageGoal DEF Settled
<1>5. SettledInv'
  BY <1>1, <1>4, OthersSettle
<1>6. TriageAims'
  <2>1. \A o \in cmd.targets :
          \/ o \in moved'
          \/ /\ o \notin moved /\ stack'.case[o] = stack.case[o]
             /\ stack'.alert[o] = stack.alert[o]
    BY <1>1, <1>2, <1>3
  <2> QED BY <1>1, <2>1 DEF TriageAims, Triage!Transitions
<1> QED BY <1>1, <1>5, <1>6, TriageAlone

\* Every step of a case or alert command.
LEMMA TriageSettle ==
    ASSUME IInv, SuccessInv, cmd.family = "triage", Triage!Next
    PROVE  SuccessInv'
BY TriageBeginCasesSettles, TriageResolveCaseSettles, TriagePlanCasesSettles,
   TriagePatchSettles, TriageDeleteCasesSettles, TriageResolveSubjectSettles,
   TriageGroupAlertsSettles, TriagePostSettles, TriageResolveUsersSettles,
   TriageResolveAlertsSettles, TriageSampleQuerySettles, TriageUpdateAlertsSettles,
   TriageOthersEditSettles DEF Triage!Next
-----------------------------------------------------------------------------
(* Rules and exception lists.                                                 *)

\* The aims of the other components are not this one's.
LEMMA DetectionAlone ==
    ASSUME cmd.family = "detection", cmd' = cmd, SettledInv', DetectionAims'
    PROVE  SuccessInv'
BY DEF SuccessInv, DataViewsAims, AgentPoliciesAims, TriageAims

\* The goal of a rule or exception list command.
LEMMA DetectionGoal ==
    ASSUME cmd.family = "detection", cmd' = cmd, NEW o
    PROVE  /\ Goal(o) <=> Detection!Goal(o)
           /\ Goal(o)' <=> Detection!Goal(o)'
BY DEF Goal

\* What is deleted stays deleted while the requests are about others.
LEMMA DetectionKept ==
    ASSUME cmd.family = "detection", cmd' = cmd, rows \subseteq rows', NEW h, OpOK,
           \A o \in cmd.targets : o # h =>
               /\ o \in moved => o \in moved'
               /\ stack'.rule[o] = stack.rule[o] /\ stack'.list[o] = stack.list[o]
    PROVE  KeptBut(h)
<1> SUFFICES ASSUME NEW o \in cmd.targets, o # h, Settled(o) PROVE Settled(o)'
  BY DEF KeptBut
<1>1. /\ o \in moved => o \in moved'
      /\ stack'.rule[o] = stack.rule[o] /\ stack'.list[o] = stack.list[o]
  OBVIOUS
<1>2. cmd.op \in {"set_enabled", "delete_rules", "import_rules", "import_lists",
                 "delete_lists", "prebuilt"} =>
        (Detection!Goal(o) => Detection!Goal(o)')
  BY <1>1 DEF Detection!Goal
<1>3. cmd.op \in {"set_enabled", "delete_rules", "import_rules", "import_lists",
                 "delete_lists", "prebuilt"}
  BY DEF OpOK
<1> QED BY <1>1, <1>2, <1>3, DetectionGoal, StaysSettled

\* Each rule is still to be read.
LEMMA DetectionBeginSelectedSettles ==
    ASSUME IInv, SuccessInv, cmd.family = "detection", Detection!BeginSelected
    PROVE  SuccessInv'
<1>1. cmd' = cmd /\ pc' \in {"resolve"}
  BY DEF Detection!BeginSelected
<1>2. SettledInv'
  BY <1>1, NothingToSettle DEF Looping, Ended, Planning
<1>3. DetectionAims'
  <2>1. Range(todo') = cmd.targets
    BY DEF Detection!BeginSelected, IInv, CmdOK
  <2> QED BY <1>1, <2>1 DEF DetectionAims
<1> QED BY <1>1, <1>2, <1>3, DetectionAlone

\* A rule that was read is there until somebody else changes it.
LEMMA DetectionResolveRuleSettles ==
    ASSUME IInv, SuccessInv, cmd.family = "detection", Detection!ResolveRule
    PROVE  SuccessInv'
<1>1. cmd' = cmd /\ pc' \in {"resolve", "failed"}
  BY DEF Detection!ResolveRule, Detection!Read, Detection!Checked, Detection!Fail, Fail,
     Detection!Goto, Goto
<1>2. SettledInv'
  BY <1>1, NothingToSettle DEF Looping, Ended, Planning
<1>3. DetectionAims'
  <2>1. CASE pc' = "failed"
    BY <1>1, <2>1 DEF DetectionAims
  <2>2. CASE pc' = "resolve"
    <3>1. /\ pc = "resolve" /\ todo # <<>> /\ todo' = Tail(todo) /\ stack' = stack
          /\ moved' = moved \ {Head(todo)} /\ stack.rule[Head(todo)] # Detection!Absent
      BY <2>2 DEF Detection!ResolveRule, Detection!Read, Detection!Checked, Detection!Fail,
         Detection!Goto
    <3>2. Range(todo) = {Head(todo)} \cup Range(Tail(todo))
      BY <3>1, TailFacts DEF IInv, LoopInv, TodoOK
    <3>3. ASSUME NEW o \in cmd.targets
          PROVE  o \in Range(todo') \/ o \in moved' \/ stack'.rule[o] # Detection!Absent
      <4>1. CASE o = Head(todo)
        BY <3>1, <4>1
      <4>2. CASE o # Head(todo) /\ o \notin Range(todo)
        BY <3>1, <4>2 DEF SuccessInv, DetectionAims
      <4> QED BY <3>1, <3>2, <4>1, <4>2
    <3> QED BY <1>1, <2>2, <3>3 DEF DetectionAims
  <2> QED BY <1>1, <2>1, <2>2
<1> QED BY <1>1, <1>2, <1>3, DetectionAlone

\* The guard is still to come.
LEMMA DetectionPlanImportSettles ==
    ASSUME IInv, SuccessInv, cmd.family = "detection", Detection!PlanImport
    PROVE  SuccessInv'
<1>1. cmd' = cmd /\ pc' \in {"bundle", "failed"}
  BY DEF Detection!PlanImport, Detection!Read, Detection!Checked, Detection!Fail, Fail,
     Detection!Goto, Goto
<1>2. SettledInv'
  BY <1>1, NothingToSettle DEF Looping, Ended, Planning
<1>3. DetectionAims'
  BY <1>1 DEF DetectionAims
<1> QED BY <1>1, <1>2, <1>3, DetectionAlone

\* Each list is still to be read.
LEMMA DetectionBeginDeleteListsSettles ==
    ASSUME IInv, SuccessInv, cmd.family = "detection", Detection!BeginDeleteLists
    PROVE  SuccessInv'
<1>1. cmd' = cmd /\ pc' \in {"lists"}
  BY DEF Detection!BeginDeleteLists
<1>2. SettledInv'
  BY <1>1, NothingToSettle DEF Looping, Ended, Planning
<1>3. DetectionAims'
  BY <1>1 DEF DetectionAims
<1> QED BY <1>1, <1>2, <1>3, DetectionAlone

\* The guard is still to come.
LEMMA DetectionResolveListSettles ==
    ASSUME IInv, SuccessInv, cmd.family = "detection", Detection!ResolveList
    PROVE  SuccessInv'
<1>1. cmd' = cmd /\ pc' \in {"lists", "failed"}
  BY DEF Detection!ResolveList, Detection!Read, Detection!Checked, Detection!Fail, Fail,
     Detection!Goto, Goto
<1>2. SettledInv'
  BY <1>1, NothingToSettle DEF Looping, Ended, Planning
<1>3. DetectionAims'
  BY <1>1 DEF DetectionAims
<1> QED BY <1>1, <1>2, <1>3, DetectionAlone

\* The rules are for the loop in the order of the selectors.
LEMMA DetectionPlanSelectedSettles ==
    ASSUME IInv, SuccessInv, cmd.family = "detection", Detection!PlanSelected
    PROVE  SuccessInv'
<1>1. /\ pc = "resolve" /\ todo = <<>> /\ UNCHANGED <<cmd, stack, moved, rows>>
      /\ cmd.op \in {"set_enabled", "delete_rules"} /\ Range(cmd.selectors) = cmd.targets
  BY DEF Detection!PlanSelected, IInv, DetectionInv, CmdOK
<1>2. Guard(plan, cmd.selectors)
  BY DEF Detection!PlanSelected, Detection!Guard, Guard
<1>3. SettledInv'
  BY <1>1, <1>2, GuardSettles
<1>4. DetectionAims'
  <2>1. Range(todo) = {}
    BY <1>1 DEF Range
  <2>2. \A o \in cmd.targets : o \in moved \/ stack.rule[o] # Detection!Absent
    BY <1>1, <2>1 DEF SuccessInv, DetectionAims
  <2> QED BY <1>1, <1>2, <2>2 DEF DetectionAims, Guard
<1> QED BY <1>1, <1>3, <1>4, DetectionAlone

\* Every list to delete is for the loop.
LEMMA DetectionPlanDeleteListsSettles ==
    ASSUME IInv, SuccessInv, cmd.family = "detection", Detection!PlanDeleteLists
    PROVE  SuccessInv'
<1>1. cmd' = cmd /\ cmd.op = "delete_lists" /\ cmd.targets \in SUBSET Ids
        /\ cmd.targets = cmd.targets
  BY DEF Detection!PlanDeleteLists, IInv, DetectionInv, CmdOK
<1>2. pc' = "failed" \/ \E p : Guard(p, Sorted(cmd.targets))
  BY SameOrder DEF Detection!PlanDeleteLists, Detection!Guard, Guard
<1>3. CASE pc' = "failed"
  <2>1. SettledInv'
    BY <1>3, NothingToSettle DEF Looping, Ended
  <2>2. DetectionAims'
    BY <1>3 DEF DetectionAims
  <2> QED BY <1>1, <2>1, <2>2, DetectionAlone
<1>4. CASE \E p : Guard(p, Sorted(cmd.targets))
  <2>1. Range(Sorted(cmd.targets)) = cmd.targets
    BY <1>1, SortedFacts, CommandAssumption
  <2>2. SettledInv'
    BY <1>1, <1>4, <2>1, GuardSettles
  <2>3. DetectionAims'
    BY <1>1, <1>4 DEF Guard, DetectionAims
  <2> QED BY <1>1, <2>2, <2>3, DetectionAlone
<1> QED BY <1>2, <1>3, <1>4

\* Every rule is for the installation.
LEMMA DetectionPlanPrebuiltSettles ==
    ASSUME IInv, SuccessInv, cmd.family = "detection", Detection!PlanPrebuilt
    PROVE  SuccessInv'
<1>1. cmd' = cmd /\ cmd.op = "prebuilt" /\ cmd.targets \in SUBSET Ids /\ Ids = cmd.targets
  BY DEF Detection!PlanPrebuilt, IInv, DetectionInv, CmdOK
<1>2. pc' = "failed" \/ \E p : Guard(p, Sorted(Ids))
  BY SameOrder DEF Detection!PlanPrebuilt, Detection!Read, Detection!Checked,
     Detection!Fail, Fail, Detection!Goto, Goto, Detection!Guard, Guard
<1>3. CASE pc' = "failed"
  <2>1. SettledInv'
    BY <1>3, NothingToSettle DEF Looping, Ended
  <2>2. DetectionAims'
    BY <1>3 DEF DetectionAims
  <2> QED BY <1>1, <2>1, <2>2, DetectionAlone
<1>4. CASE \E p : Guard(p, Sorted(Ids))
  <2>1. Range(Sorted(Ids)) = Ids
    BY <1>1, SortedFacts, CommandAssumption
  <2>2. SettledInv'
    BY <1>1, <1>4, <2>1, GuardSettles
  <2>3. DetectionAims'
    BY <1>1, <1>4 DEF Guard, DetectionAims
  <2> QED BY <1>1, <2>2, <2>3, DetectionAlone
<1> QED BY <1>2, <1>3, <1>4

\* What an import does not skip is for its upload.
LEMMA DetectionGuardImportSettles ==
    ASSUME IInv, SuccessInv, cmd.family = "detection", Detection!GuardImport
    PROVE  SuccessInv'
<1>1. /\ UNCHANGED <<cmd, stack, moved>> /\ plan' = plan
           /\ cmd.op \in {"import_rules", "import_lists"}
      /\ cmd.targets \in SUBSET Ids /\ cmd.op = "import_rules" => cmd.lists \in SUBSET Ids
  BY DEF Detection!GuardImport, Detection!Guard, IInv, DetectionInv, CmdOK
<1>2. /\ Guard(plan, Sorted(Detection!UploadedRules \cup Detection!UploadedLists))
      /\ rows' = {Row(o, "skipped", FALSE) : o \in DOMAIN plan.before}
  BY SameOrder DEF Detection!GuardImport, Detection!Guard, Guard, Detection!Row, Row,
     Detection!Skipped
<1>3. /\ Detection!UploadedRules \cup Detection!UploadedLists \in SUBSET Ids
      /\ cmd.targets \subseteq (Detection!UploadedRules \cup Detection!UploadedLists)
           \cup DOMAIN plan.before
  BY <1>1 DEF IInv, CmdOK, Detection!UploadedRules, Detection!UploadedLists,
     Detection!Pending, Detection!Skipped
<1>4. \A o \in DOMAIN plan.before : \E r \in rows' : r.id = o /\ r.result = "skipped"
  <2>1. ASSUME NEW o \in DOMAIN plan.before PROVE \E r \in rows' : r.id = o
                 /\ r.result = "skipped"
    <3>1. Row(o, "skipped", FALSE) \in rows'
      BY <1>2
    <3> QED BY <3>1 DEF Row
  <2> QED BY <2>1
<1>5. Range(Sorted(Detection!UploadedRules \cup Detection!UploadedLists))
        = Detection!UploadedRules \cup Detection!UploadedLists
  BY <1>3, SortedFacts, CommandAssumption
<1>6. \A o \in cmd.targets :
        o \in Range(Sorted(Detection!UploadedRules \cup Detection!UploadedLists))
          \/ Settled(o)'
  BY <1>3, <1>4, <1>5 DEF Settled
<1>7. SettledInv'
  BY <1>1, <1>2, <1>6, GuardSettles
<1>8. DetectionAims'
  BY <1>1, <1>2, <1>4 DEF DetectionAims, Guard
<1> QED BY <1>1, <1>7, <1>8, DetectionAlone

\* A rule that is deleted is gone, and may be deleted again.
LEMMA DetectionDeleteRuleSettles ==
    ASSUME IInv, SuccessInv, cmd.family = "detection", Detection!DeleteRule
    PROVE  SuccessInv'
<1>1. /\ pc = "check" /\ cmd.op = "delete_rules" /\ cmd' = cmd /\ moved' = moved /\ OpOK
      /\ cmd.targets \in SUBSET Ids
  BY DEF IInv, CmdOK, Detection!DeleteRule
<1>2. /\ Looping /\ Head(todo) \in Ids /\ Head(todo) \in Range(todo) /\ SettledInv
      /\ 0 \notin Ids
      /\ Head(todo) \in cmd.targets \/ cmd.op = "import_lists"
      /\ DetectionAims /\ stack \in Detection!StackType
  <2>1. Looping
    BY <1>1 DEF Looping, Ended, Planning, Wholesale
  <2> QED BY <2>1, LoopFacts, HeadIsTarget, CommandAssumption DEF CommandAssumption, IInv,
         SuccessInv, TypeOK, StackType
<1>3. \/ Report(Head(todo), "failed", FALSE) /\ TRUE
      \/ /\ Report(Head(todo), "deleted", TRUE)
         /\ stack' = [stack EXCEPT !.rule[Head(todo)] = Detection!Absent]
      \/ UNCHANGED runVars /\ stack' = [stack EXCEPT !.rule[Head(todo)] = Detection!Absent]
  BY <1>1, <1>2 DEF Detection!DeleteRule, Detection!Mutate, Detection!MutateAll,
     Detection!Report, Report, Detection!Row, Row, Detection!Goto, Goto, Detection!runVars,
     runVars, Guard, Detection!StackType
<1> PICK h : h = Head(todo)
  OBVIOUS
<1>4. CASE Report(Head(todo), "failed", FALSE) /\ TRUE
  <2>1. RowFails
    BY <1>4, ReportIs
  <2>2. SettledInv'
    BY <2>1, FailureSettles
  <2>3. DetectionAims'
    BY <1>1, <1>2, <1>4 DEF DetectionAims, Report, Goto, Fail, runVars
  <2> QED BY <1>1, <2>2, <2>3, DetectionAlone
<1>5. CASE /\ Report(Head(todo), "deleted", TRUE)
           /\ stack' = [stack EXCEPT !.rule[Head(todo)] = Detection!Absent]
  <2>1. HeadReported /\ rows \subseteq rows'
    BY <1>5, ReportIs
  <2>2. KeptBut(h)
    BY <1>1, <1>2, <1>5, <2>1, DetectionKept DEF Detection!StackType
  <2>3. stack'.rule[h] = Detection!Absent
    BY <1>1, <1>2, <1>5 DEF Detection!StackType
  <2>4. Settled(h)'
    BY <1>1, <2>3, DetectionGoal DEF Settled, Detection!Goal
  <2>5. SettledInv'
    BY <1>1, <1>2, <2>1, <2>2, <2>4, LoopSettles
  <2>6. DetectionAims'
    BY <1>1, <1>2, <1>5 DEF DetectionAims, Report, Goto, Fail, runVars
  <2> QED BY <1>1, <2>5, <2>6, DetectionAlone
<1>6. CASE UNCHANGED runVars /\ stack' = [stack EXCEPT !.rule[Head(todo)] = Detection!Absent]
  <2>1. HeadStays /\ rows \subseteq rows'
    BY <1>1, <1>2, <1>6 DEF HeadStays, runVars, Looping, Ended
  <2>2. KeptBut(h)
    BY <1>1, <1>2, <1>6, <2>1, DetectionKept DEF Detection!StackType
  <2>3. SettledInv'
    BY <1>1, <1>2, <2>1, <2>2, LoopSettles
  <2>4. DetectionAims'
    BY <1>1, <1>2, <1>6 DEF DetectionAims, Report, Goto, Fail, runVars
  <2> QED BY <1>1, <2>3, <2>4, DetectionAlone
<1> QED BY <1>3, <1>4, <1>5, <1>6

\* A list that is deleted is gone.
LEMMA DetectionDeleteListSettles ==
    ASSUME IInv, SuccessInv, cmd.family = "detection", Detection!DeleteList
    PROVE  SuccessInv'
<1>1. /\ pc = "check" /\ cmd.op = "delete_lists" /\ cmd' = cmd /\ moved' = moved /\ OpOK
      /\ cmd.targets \in SUBSET Ids
  BY DEF IInv, CmdOK, Detection!DeleteList
<1>2. /\ Looping /\ Head(todo) \in Ids /\ Head(todo) \in Range(todo) /\ SettledInv
      /\ 0 \notin Ids
      /\ Head(todo) \in cmd.targets \/ cmd.op = "import_lists"
      /\ DetectionAims /\ stack \in Detection!StackType
  <2>1. Looping
    BY <1>1 DEF Looping, Ended, Planning, Wholesale
  <2> QED BY <2>1, LoopFacts, HeadIsTarget, CommandAssumption DEF CommandAssumption, IInv,
         SuccessInv, TypeOK, StackType
<1>3. \/ Report(Head(todo), "failed", FALSE) /\ TRUE
      \/ /\ Report(Head(todo), "deleted", TRUE)
         /\ stack' = [stack EXCEPT !.list[Head(todo)] = Detection!Absent]
      \/ UNCHANGED runVars /\ stack' = [stack EXCEPT !.list[Head(todo)] = Detection!Absent]
  BY <1>1, <1>2 DEF Detection!DeleteList, Detection!Mutate, Detection!MutateAll,
     Detection!Report, Report, Detection!Row, Row, Detection!Goto, Goto, Detection!runVars,
     runVars, Guard, Detection!StackType
<1> PICK h : h = Head(todo)
  OBVIOUS
<1>4. CASE Report(Head(todo), "failed", FALSE) /\ TRUE
  <2>1. RowFails
    BY <1>4, ReportIs
  <2>2. SettledInv'
    BY <2>1, FailureSettles
  <2>3. DetectionAims'
    BY <1>1, <1>2, <1>4 DEF DetectionAims, Report, Goto, Fail, runVars
  <2> QED BY <1>1, <2>2, <2>3, DetectionAlone
<1>5. CASE /\ Report(Head(todo), "deleted", TRUE)
           /\ stack' = [stack EXCEPT !.list[Head(todo)] = Detection!Absent]
  <2>1. HeadReported /\ rows \subseteq rows'
    BY <1>5, ReportIs
  <2>2. KeptBut(h)
    BY <1>1, <1>2, <1>5, <2>1, DetectionKept DEF Detection!StackType
  <2>3. stack'.list[h] = Detection!Absent
    BY <1>1, <1>2, <1>5 DEF Detection!StackType
  <2>4. Settled(h)'
    BY <1>1, <2>3, DetectionGoal DEF Settled, Detection!Goal
  <2>5. SettledInv'
    BY <1>1, <1>2, <2>1, <2>2, <2>4, LoopSettles
  <2>6. DetectionAims'
    BY <1>1, <1>2, <1>5 DEF DetectionAims, Report, Goto, Fail, runVars
  <2> QED BY <1>1, <2>5, <2>6, DetectionAlone
<1>6. CASE UNCHANGED runVars /\ stack' = [stack EXCEPT !.list[Head(todo)] = Detection!Absent]
  <2>1. HeadStays /\ rows \subseteq rows'
    BY <1>1, <1>2, <1>6 DEF HeadStays, runVars, Looping, Ended
  <2>2. KeptBut(h)
    BY <1>1, <1>2, <1>6, <2>1, DetectionKept DEF Detection!StackType
  <2>3. SettledInv'
    BY <1>1, <1>2, <2>1, <2>2, LoopSettles
  <2>4. DetectionAims'
    BY <1>1, <1>2, <1>6 DEF DetectionAims, Report, Goto, Fail, runVars
  <2> QED BY <1>1, <2>3, <2>4, DetectionAlone
<1> QED BY <1>3, <1>4, <1>5, <1>6

\* An action without failures has enabled every rule that is there.
LEMMA DetectionSetEnabledSettles ==
    ASSUME IInv, SuccessInv, cmd.family = "detection", Detection!SetEnabled
    PROVE  SuccessInv'
<1>1. /\ pc = "check" /\ cmd.op = "set_enabled" /\ cmd' = cmd /\ moved' = moved
      /\ Looping /\ SettledInv /\ DetectionAims /\ stack \in Detection!StackType
           /\ cmd.targets \in SUBSET Ids
  BY DEF Detection!SetEnabled, Looping, Ended, Planning, Wholesale, SuccessInv, IInv,
     TypeOK, StackType, CmdOK
<1> DEFINE there == {o \in cmd.targets : stack.rule[o] # Detection!Absent}
           same == {o \in there : stack.rule[o] = Detection!Desired}
           done(refused) == there \ (same \cup refused)
           E(refused) == [o \in Ids |-> IF o \in done(refused) THEN Detection!Desired
             ELSE stack.rule[o]]
<1>2. PICK refused \in SUBSET (there \ same) :
        \/ pc' = "failed"
        \/ /\ pc' = "done" /\ stack' = [stack EXCEPT !.rule = E(refused)]
           /\ {Detection!Row(o, "failed", FALSE) : o \in refused} \subseteq rows'
        \/ UNCHANGED runVars /\ stack' = [stack EXCEPT !.rule = E(refused)]
  <2>1. PICK refused \in SUBSET (there \ same) :
          LET new == [stack EXCEPT !.rule = E(refused)]
          IN Detection!MutateAll(new,
               {Detection!Write(o, plan.before[o], stack.rule[o], {o}) : o \in done(refused)},
               Detection!ReportAll({Detection!Row(o, "changed", TRUE) : o \in done(refused)}
                                     \cup {Detection!Row(o, "failed", FALSE) : o \in refused}
                                     \cup {Detection!Row(o, "skipped", FALSE) : o \in same}),
               Detection!Fail, TRUE)
    BY Zenon DEF Detection!SetEnabled
  <2> HIDE DEF there, same, done, E
  <2>2. \/ pc' = "failed"
        \/ /\ pc' = "done" /\ stack' = [stack EXCEPT !.rule = E(refused)]
           /\ {Detection!Row(o, "failed", FALSE) : o \in refused} \subseteq rows'
        \/ UNCHANGED runVars /\ stack' = [stack EXCEPT !.rule = E(refused)]
    BY <2>1 DEF Detection!MutateAll, Detection!ReportAll, ReportAll, Detection!Fail, Fail,
       Detection!Goto, Goto, Detection!runVars, runVars
  <2> QED BY <2>2
<1>3. \A o \in Ids :
        /\ E(refused)[o] = Detection!Desired \/ E(refused)[o] = stack.rule[o]
        /\ o \in cmd.targets /\ stack.rule[o] # Detection!Absent /\ o \notin refused
             => E(refused)[o] = Detection!Desired
  OBVIOUS
<1> HIDE DEF E, done, same, there
<1>4. CASE pc' = "failed"
  <2>1. SettledInv'
    BY <1>4, NothingToSettle DEF Looping, Ended
  <2>2. DetectionAims'
    BY <1>4 DEF DetectionAims
  <2> QED BY <1>1, <2>1, <2>2, DetectionAlone
<1>5. CASE /\ pc' = "done" /\ stack' = [stack EXCEPT !.rule = E(refused)]
           /\ {Detection!Row(o, "failed", FALSE) : o \in refused} \subseteq rows'
  <2>1. stack'.rule = E(refused)
    BY <1>1, <1>5 DEF Detection!StackType
  <2>2. DetectionAims'
    BY <1>5 DEF DetectionAims
  <2>3. CASE refused # {}
    <3>1. PICK o \in refused : TRUE
      BY <2>3
    <3>2. Detection!Row(o, "failed", FALSE) \in rows'
      BY <1>5, <3>1
    <3>3. RowFails
      BY <3>2 DEF RowFails, Detection!Row
    <3>4. SettledInv'
      BY <3>3, FailureSettles
    <3> QED BY <1>1, <2>2, <3>4, DetectionAlone
  <2>4. CASE refused = {}
    <3>1. ASSUME NEW o \in cmd.targets PROVE Settled(o)'
      <4>1. o \in moved \/ stack.rule[o] # Detection!Absent
        BY <1>1 DEF DetectionAims
      <4>2. o \in moved \/ stack'.rule[o] = Detection!Desired
        BY <1>1, <1>3, <2>1, <2>4, <4>1
      <4> QED BY <1>1, <4>2, DetectionGoal DEF Settled, Detection!Goal
    <3>2. SettledInv'
      BY <1>1, <3>1, BulkSettles
    <3> QED BY <1>1, <2>2, <3>2, DetectionAlone
  <2> QED BY <2>3, <2>4
<1>6. CASE UNCHANGED runVars /\ stack' = [stack EXCEPT !.rule = E(refused)]
  <2>1. stack'.rule = E(refused)
    BY <1>1, <1>6 DEF Detection!StackType
  <2>2. \A o \in cmd.targets : stack'.rule[o] = Detection!Desired
          \/ stack'.rule[o] = stack.rule[o]
    BY <1>1, <1>3, <2>1
  <2>3. ASSUME NEW o \in cmd.targets, Settled(o) PROVE Settled(o)'
    <3>1. Detection!Goal(o) => Detection!Goal(o)'
      BY <1>1, <2>2 DEF Detection!Goal
    <3> QED BY <1>1, <1>6, <2>3, <3>1, DetectionGoal DEF Settled, runVars
  <2>4. SettledInv'
    BY <1>1, <1>6, <2>3, BulkSettles
  <2>5. DetectionAims'
    BY <1>1, <1>6, <2>2 DEF DetectionAims, runVars, Detection!Absent, Detection!Desired
  <2> QED BY <1>1, <2>4, <2>5, DetectionAlone
<1> QED BY <1>2, <1>4, <1>5, <1>6

\* What is missing or outdated is installed.
LEMMA DetectionInstallPrebuiltSettles ==
    ASSUME IInv, SuccessInv, cmd.family = "detection", Detection!InstallPrebuilt
    PROVE  SuccessInv'
<1>1. /\ pc = "check" /\ cmd.op = "prebuilt" /\ cmd' = cmd /\ moved' = moved
      /\ Looping /\ SettledInv /\ stack \in Detection!StackType /\ cmd.targets \in SUBSET Ids
  BY DEF Detection!InstallPrebuilt, Looping, Ended, Planning, Wholesale, SuccessInv, IInv,
     TypeOK, StackType, CmdOK
<1>2. \/ pc' = "failed"
      \/ /\ pc' \in {"done", pc}
         /\ stack' = [stack EXCEPT !.rule = [o \in Ids |-> Detection!Desired]]
  BY DEF Detection!InstallPrebuilt, Detection!MutateAll, Detection!ReportAll, ReportAll,
     Detection!Fail, Fail, Detection!Goto, Goto, Detection!runVars, runVars
<1>3. pc' = "failed" \/ \A o \in cmd.targets : Settled(o)'
  <2>1. CASE stack' = [stack EXCEPT !.rule = [o \in Ids |-> Detection!Desired]]
    <3>1. \A o \in cmd.targets : stack'.rule[o] = Detection!Desired
      BY <1>1, <2>1 DEF Detection!StackType
    <3> QED BY <1>1, <3>1, DetectionGoal DEF Settled, Detection!Goal
  <2> QED BY <1>2, <2>1
<1>4. SettledInv'
  BY <1>1, <1>3, BulkSettles
<1>5. DetectionAims'
  BY <1>1, <1>2 DEF DetectionAims
<1> QED BY <1>1, <1>4, <1>5, DetectionAlone

\* What an upload does not report as failed or skipped is on the stack.
LEMMA DetectionUploadSettles ==
    ASSUME IInv, SuccessInv, cmd.family = "detection", Detection!Upload
    PROVE  SuccessInv'
<1>1. /\ pc = "check" /\ cmd.op \in {"import_rules", "import_lists"} /\ cmd' = cmd
           /\ moved' = moved
      /\ plan' = plan /\ Looping /\ SettledInv /\ DetectionAims /\ cmd.targets \in SUBSET Ids
  BY DEF Detection!Upload, Detection!Imports, Looping, Ended, Planning, Wholesale,
     SuccessInv, IInv, CmdOK
<1> DEFINE keeps(s) == {o \in Ids : cmd.mode # "overwrite" /\ s[o] # Detection!Absent}
           rules(refused) == Detection!UploadedRules \ (refused \cup keeps(stack.rule))
           lists(refused) == Detection!UploadedLists \ (refused \cup keeps(stack.list))
           lost(refused) == (Detection!UploadedRules \ rules(refused))
                              \cup (IF cmd.op = "import_lists"
                                    THEN Detection!UploadedLists \ lists(refused) ELSE {})
           new(refused) ==
             [rule |-> [o \in Ids |-> IF o \in rules(refused) THEN Detection!Desired
               ELSE stack.rule[o]],
              list |-> [o \in Ids |-> IF o \in lists(refused) THEN Detection!Desired
                ELSE stack.list[o]]]
<1>2. PICK refused :
        \/ pc' = "failed"
        \/ /\ pc' = "done" /\ stack' = new(refused) /\ rows \subseteq rows'
           /\ {Detection!Row(o, "failed", FALSE) : o \in lost(refused)} \subseteq rows'
        \/ UNCHANGED runVars /\ stack' = new(refused)
  <2>1. PICK refused :
          LET done == rules(refused) \cup lists(refused)
          IN Detection!MutateAll(new(refused), {Detection!Write(o, TRUE, TRUE, {}) :
            o \in done},
               Detection!ReportAll(rows
                 \cup {Detection!Row(o, "created", TRUE) : o \in done \ lost(refused)}
                                     \cup {Detection!Row(o, "failed", FALSE) :
                                       o \in lost(refused)}),
               Detection!Fail, TRUE)
    BY Zenon DEF Detection!Upload
  <2> HIDE DEF keeps, rules, lists, lost, new
  <2>2. \/ pc' = "failed"
        \/ /\ pc' = "done" /\ stack' = new(refused) /\ rows \subseteq rows'
           /\ {Detection!Row(o, "failed", FALSE) : o \in lost(refused)} \subseteq rows'
        \/ UNCHANGED runVars /\ stack' = new(refused)
    BY <2>1 DEF Detection!MutateAll, Detection!ReportAll, ReportAll, Detection!Fail, Fail,
       Detection!Goto, Goto, Detection!runVars, runVars
  <2> QED BY <2>2
<1>3. /\ \A o \in Ids :
           /\ new(refused).rule[o] \in {Detection!Desired, stack.rule[o]}
           /\ new(refused).list[o] \in {Detection!Desired, stack.list[o]}
      /\ \A o \in cmd.targets :
           \/ o \in DOMAIN plan.before
           \/ o \in lost(refused)
           \/ /\ cmd.op = "import_rules" => new(refused).rule[o] = Detection!Desired
              /\ cmd.op = "import_lists" => new(refused).list[o] = Detection!Desired
  BY <1>1 DEF Detection!UploadedRules, Detection!UploadedLists, Detection!Pending,
     Detection!Skipped
<1> HIDE DEF keeps, rules, lists, lost, new
<1>4. CASE pc' = "failed"
  <2>1. SettledInv'
    BY <1>4, NothingToSettle DEF Looping, Ended
  <2>2. DetectionAims'
    BY <1>4 DEF DetectionAims
  <2> QED BY <1>1, <2>1, <2>2, DetectionAlone
<1>5. CASE /\ pc' = "done" /\ stack' = new(refused) /\ rows \subseteq rows'
           /\ {Detection!Row(o, "failed", FALSE) : o \in lost(refused)} \subseteq rows'
  <2>1. DetectionAims'
    BY <1>5 DEF DetectionAims
  <2>2. CASE lost(refused) # {}
    <3>1. PICK o \in lost(refused) : TRUE
      BY <2>2
    <3>2. Detection!Row(o, "failed", FALSE) \in rows'
      BY <1>5, <3>1
    <3>3. RowFails
      BY <3>2 DEF RowFails, Detection!Row
    <3>4. SettledInv'
      BY <3>3, FailureSettles
    <3> QED BY <1>1, <2>1, <3>4, DetectionAlone
  <2>3. CASE lost(refused) = {}
    <3>1. ASSUME NEW o \in cmd.targets PROVE Settled(o)'
      <4>1. CASE o \in DOMAIN plan.before
        <5>1. \E r \in rows : r.id = o /\ r.result = "skipped"
          BY <1>1, <4>1 DEF DetectionAims
        <5> QED BY <1>5, <5>1 DEF Settled
      <4>2. CASE o \notin DOMAIN plan.before
        <5>1. Detection!Goal(o)'
          BY <1>1, <1>3, <1>5, <2>3, <4>2 DEF Detection!Goal
        <5> QED BY <1>1, <5>1, DetectionGoal DEF Settled
      <4> QED BY <4>1, <4>2
    <3>2. SettledInv'
      BY <1>1, <3>1, BulkSettles
    <3> QED BY <1>1, <2>1, <3>2, DetectionAlone
  <2> QED BY <2>2, <2>3
<1>6. CASE UNCHANGED runVars /\ stack' = new(refused)
  <2>1. ASSUME NEW o \in cmd.targets, Settled(o) PROVE Settled(o)'
    <3>1. Detection!Goal(o) => Detection!Goal(o)'
      BY <1>1, <1>3, <1>6 DEF Detection!Goal
    <3> QED BY <1>1, <1>6, <2>1, <3>1, DetectionGoal DEF Settled, runVars
  <2>2. SettledInv'
    BY <1>1, <1>6, <2>1, BulkSettles
  <2>3. DetectionAims'
    BY <1>1, <1>6 DEF DetectionAims, runVars
  <2> QED BY <1>1, <2>2, <2>3, DetectionAlone
<1> QED BY <1>2, <1>4, <1>5, <1>6

\* What another client changes is its own affair.
LEMMA DetectionOthersEditSettles ==
    ASSUME IInv, SuccessInv, cmd.family = "detection", Detection!OthersEdit
    PROVE  SuccessInv'
<1>1. /\ UNCHANGED <<cmd, pc, todo, plan, writes, rows, faults>> /\ ~Ended
           /\ moved \subseteq moved'
      /\ stack \in Detection!StackType /\ SettledInv /\ DetectionAims
  BY DEF Detection!OthersEdit, Detection!Edit, Detection!Ended, Ended, IInv, SuccessInv,
     TypeOK, StackType
<1>2. \A o \in Ids :
        \/ o \in moved'
        \/ stack'.rule[o] = stack.rule[o] /\ stack'.list[o] = stack.list[o]
  BY <1>1 DEF Detection!OthersEdit, Detection!Edit, Detection!StackType
<1>3. cmd.targets \subseteq Ids
        /\ cmd.op \in {"set_enabled", "delete_rules", "import_rules", "import_lists",
             "delete_lists", "prebuilt"}
  BY DEF IInv, CmdOK, OpOK
<1>4. ASSUME NEW x \in cmd.targets, Settled(x) PROVE Settled(x)'
  <2>1. x \in moved' \/ (Detection!Goal(x) => Detection!Goal(x)')
    BY <1>1, <1>2, <1>3 DEF Detection!Goal
  <2> QED BY <1>1, <1>4, <2>1, DetectionGoal DEF Settled
<1>5. SettledInv'
  BY <1>1, <1>4, OthersSettle
<1>6. DetectionAims'
  BY <1>1, <1>2, <1>3 DEF DetectionAims
<1> QED BY <1>1, <1>5, <1>6, DetectionAlone

\* Every step of a rule or exception list command.
LEMMA DetectionSettle ==
    ASSUME IInv, SuccessInv, cmd.family = "detection", Detection!Next
    PROVE  SuccessInv'
BY DetectionBeginSelectedSettles, DetectionResolveRuleSettles, DetectionPlanSelectedSettles,
   DetectionSetEnabledSettles, DetectionDeleteRuleSettles, DetectionPlanImportSettles,
   DetectionGuardImportSettles, DetectionUploadSettles, DetectionBeginDeleteListsSettles,
   DetectionResolveListSettles, DetectionPlanDeleteListsSettles, DetectionDeleteListSettles,
   DetectionPlanPrebuiltSettles, DetectionInstallPrebuiltSettles, DetectionOthersEditSettles
   DEF Detection!Next

-----------------------------------------------------------------------------
(* All commands.                                                              *)

\* A read confirms nothing and has nothing to settle.
LEMMA PagedReadsSettle ==
    ASSUME IInv, SuccessInv, cmd.family = "reads", PagedReads!Next
    PROVE  SuccessInv'
<1>1. cmd' = cmd
  BY PagedReadsNextKeeps DEF LoopStep
<1>2. cmd.yes = FALSE
  BY DEF IInv, OpOK
<1>3. SettledInv'
  BY <1>1, <1>2, NothingToSettle
<1> QED BY <1>1, <1>3 DEF SuccessInv, DataViewsAims, AgentPoliciesAims, TriageAims,
       DetectionAims

\* Every step of every command.
LEMMA NextSettles == IInv /\ SuccessInv /\ Next => SuccessInv'
BY DataViewsSettle, DashboardsSettle, AgentPoliciesSettle, TriageSettle, DetectionSettle,
   PagedReadsSettle DEF Next

\* A step that changes nothing unsettles nothing.
LEMMA StutterSettles == SuccessInv /\ UNCHANGED vars => SuccessInv'
<1> SUFFICES ASSUME SuccessInv, UNCHANGED vars PROVE SuccessInv'
    OBVIOUS
<1>1. UNCHANGED <<cmd, pc, todo, plan, stack, moved, writes, rows, faults, edits>>
  BY DEF vars
<1>2. Planning' = Planning /\ Ended' = Ended /\ Wholesale' = Wholesale /\ Looping' = Looping
  BY <1>1 DEF Planning, Ended, Wholesale, Looping
<1>3. \A o : Settled(o)' = Settled(o)
  <2> SUFFICES ASSUME NEW o PROVE Settled(o)' = Settled(o)
      OBVIOUS
  <2>1. Goal(o)' = Goal(o)
    BY <1>1 DEF Goal, DataViews!Goal, Dashboards!Goal, AgentPolicies!Goal, Triage!Goal,
       Detection!Goal, PagedReads!Goal
  <2> QED BY <1>1, <2>1 DEF Settled
<1>4. SettledInv'
  BY <1>1, <1>2, <1>3 DEF SuccessInv, SettledInv, FailedRows
<1>5. DataViewsAims'
  BY <1>1 DEF SuccessInv, DataViewsAims
<1>6. AgentPoliciesAims'
  BY <1>1 DEF SuccessInv, AgentPoliciesAims
<1>7. TriageAims'
  <2>1. Triage!Transitions' = Triage!Transitions /\ Range(todo)' = Range(todo)
    BY <1>1 DEF Triage!Transitions, Range
  <2> QED BY <1>1, <2>1 DEF SuccessInv, TriageAims
<1>8. DetectionAims'
  BY <1>1 DEF SuccessInv, DetectionAims
<1> QED BY <1>4, <1>5, <1>6, <1>7, <1>8 DEF SuccessInv

\* At the start nothing has to be settled yet; a swap names two data views.
LEMMA InitSettles == Init => SuccessInv
<1> SUFFICES ASSUME Init PROVE SuccessInv
    OBVIOUS
<1>1. pc = "start"
  BY DEF Init, DataViews!Init, Dashboards!Init, AgentPolicies!Init, Triage!Init,
     Detection!Init, PagedReads!Init, DataViews!Begins, Dashboards!Begins,
     AgentPolicies!Begins, Triage!Begins, Detection!Begins, PagedReads!Begins
<1>2. SettledInv
  BY <1>1 DEF SettledInv, Looping, Planning
<1>3. cmd.family = "data_views" /\ cmd.op = "swap" =>
        \E o \in Ids : cmd.targets = {o} /\ cmd.by # o
  <2> SUFFICES ASSUME cmd.family = "data_views", cmd.op = "swap"
               PROVE  \E o \in Ids : cmd.targets = {o} /\ cmd.by # o
      OBVIOUS
  <2>1. DataViews!Init
    <3>1. ~Dashboards!Init
      BY DEF Dashboards!Init, Dashboards!Imports, Dashboards!Deletes, Dashboards!Bundles
    <3>2. ~AgentPolicies!Init
      BY DEF AgentPolicies!Init, AgentPolicies!Imports, AgentPolicies!Deletes
    <3>3. ~Triage!Init
      BY DEF Triage!Init, Triage!CaseEdits, Triage!Creates, Triage!Attaches,
         Triage!AlertOps, Triage!Queries
    <3>4. ~Detection!Init
      <4>1. ASSUME Detection!Init
            PROVE  \/ cmd \in Detection!Selected
                   \/ cmd \in Detection!Prebuilt
                   \/ cmd \in Detection!RuleFiles
                   \/ cmd \in Detection!ListFiles
                   \/ cmd \in Detection!ListDeletes
        BY <4>1 DEF Detection!Init
      <4>2. cmd \notin Detection!Selected
        BY DEF Detection!Selected
      <4>3. cmd \notin Detection!Prebuilt
        BY DEF Detection!Prebuilt
      <4>4. cmd \notin Detection!RuleFiles
        BY DEF Detection!RuleFiles
      <4>5. cmd \notin Detection!ListFiles
        BY DEF Detection!ListFiles
      <4>6. cmd \notin Detection!ListDeletes
        BY DEF Detection!ListDeletes
      <4> QED BY <4>1, <4>2, <4>3, <4>4, <4>5, <4>6
    <3>5. ~PagedReads!Init
      BY DEF PagedReads!Init, PagedReads!Reads
    <3> QED BY <3>1, <3>2, <3>3, <3>4, <3>5 DEF Init
  <2>2. cmd \in DataViews!Swaps
    BY <2>1 DEF DataViews!Init, DataViews!Imports, DataViews!Deletes, DataViews!Defaults
  <2> QED BY <2>2 DEF DataViews!Swaps
<1>4. DataViewsAims
  BY <1>1, <1>3 DEF DataViewsAims
<1>5. AgentPoliciesAims /\ TriageAims /\ DetectionAims
  BY <1>1 DEF AgentPoliciesAims, TriageAims, DetectionAims
<1> QED BY <1>2, <1>4, <1>5 DEF SuccessInv

\* Unless a row has failed, each object the command has left behind is as asked, was
\* skipped or was changed by another client; with what each component aims at on the way.
THEOREM CommandsSuccessInvariant == Spec => []SuccessInv
<1>1. IInv /\ SuccessInv /\ [Next]_vars => SuccessInv'
  BY NextSettles, StutterSettles
<1> QED BY InitSettles, <1>1, CommandsInvariant, PTL DEF Spec

\* A confirmed command that exits 0 has reached its goal at each object it was asked to
\* change, unless the object was skipped or another client changed it behind the read.
THEOREM CommandsSuccessIsReal == Spec => []SuccessIsReal
<1>1. SuccessInv => SuccessIsReal
  <2> SUFFICES ASSUME SuccessInv, pc = "done", ExitCode = 0, cmd.yes, NEW o \in cmd.targets
               PROVE  Settled(o)
      BY DEF SuccessIsReal, Settled
  <2>1. FailedRows = {}
    BY DEF ExitCode
  <2>2. ~Looping
    BY DEF Looping, Ended
  <2> QED BY <2>1, <2>2 DEF SuccessInv, SettledInv
<1> QED BY CommandsSuccessInvariant, <1>1, PTL

-----------------------------------------------------------------------------
(* Every read keeps what it has seen.                                         *)

\* What the steps of a read rely on.
LEMMA ReadFacts ==
    ASSUME IInv, WholeInv, cmd.family = "reads"
    PROVE  /\ stack.docs \subseteq PagedReads!Docs
           /\ plan.out \in Seq(PagedReads!Docs) /\ plan.first \subseteq PagedReads!Docs
           /\ plan.page \in Nat \ {0} /\ plan.slices \in Seq(PagedReads!Slices)
           /\ DOMAIN plan = {"out", "page", "total", "first", "polls", "slices", "cut", "failed",
                             "lost"}
           /\ pc = "start" => plan.out = <<>> /\ plan.page = 1
           /\ pc = "page" => plan.page > 1 \/ cmd.reader = "rules"
           /\ pc = "pit" => cmd.reader = "search"
           /\ pc = "poll" => cmd.reader = "esql"
           /\ pc = "close" => cmd.reader \in {"search", "esql"}
           /\ PagedReads!First \subseteq PagedReads!Docs
           /\ pc \in {"start", "page"} => PagedReads!First \ moved \subseteq stack.docs
           /\ edits \in Nat /\ MaxEdits \in Nat /\ edits <= MaxEdits
           /\ cmd.limit \in Nat
<1>1. stack \in PagedReads!StackType
  BY DEF IInv, TypeOK, StackType
<1>2. stack.docs \subseteq PagedReads!Docs
  BY <1>1 DEF PagedReads!StackType
<1>3. edits \in Nat /\ MaxEdits \in Nat /\ edits <= MaxEdits
  BY CommandAssumption DEF IInv, TypeOK, CommandAssumption
<1> QED BY <1>2, <1>3 DEF WholeInv, ReadsOK, StayedIsThere, Stayed, PagedReads!First

\* An error leaves a read nothing to show.
LEMMA ReadFails ==
    ASSUME IInv, WholeInv, cmd.family = "reads", cmd' = cmd, pc' = "failed",
           plan' = plan \/ plan' = [plan EXCEPT !.lost = TRUE]
    PROVE  WholeInv'
<1>1. /\ DOMAIN plan' = DOMAIN plan /\ plan'.out = plan.out /\ plan'.first = plan.first
      /\ plan'.page = plan.page /\ plan'.slices = plan.slices /\ plan'.cut = plan.cut
  BY ReadFacts
<1>2. ReadsOK'
  BY <1>1, ReadFacts DEF ReadsOK
<1>3. AlertsAims' /\ SearchAims'
  BY <1>1 DEF WholeInv, AlertsAims, SearchAims, Reading
<1>4. StayedIsThere' /\ RulesAims' /\ CheckedAims'
  BY DEF StayedIsThere, RulesAims, CheckedAims
<1> QED BY <1>2, <1>3, <1>4 DEF WholeInv

\* A page was read.
PageRead ==
    /\ pc \in {"start", "page"} /\ pc' \in {"page", "done"}
    /\ UNCHANGED <<cmd, stack, moved, edits>>
    /\ DOMAIN plan' = DOMAIN plan
    /\ plan'.out \in Seq(PagedReads!Docs) /\ plan'.first = PagedReads!First
    /\ plan'.page \in Nat \ {0} /\ plan'.slices \in Seq(PagedReads!Slices)
    /\ pc' = "page" => plan'.page > 1 \/ cmd.reader = "rules"

\* Behind it nobody has hidden what has stayed.
LEMMA PageReadKeeps ==
    ASSUME IInv, WholeInv, cmd.family = "reads", PageRead
    PROVE  /\ ReadsOK' /\ StayedIsThere' /\ Stayed' = PagedReads!First \ moved
           /\ Stayed' \subseteq stack.docs
<1>1. ReadsOK'
  BY ReadFacts DEF PageRead, ReadsOK
<1>2. Stayed' = PagedReads!First \ moved /\ Stayed' \subseteq stack.docs
  BY ReadFacts DEF PageRead, Stayed
<1>3. StayedIsThere'
  BY <1>2 DEF PageRead, StayedIsThere
<1> QED BY <1>1, <1>2, <1>3

\* The other lists are read as they come.
LEMMA PageOfTheRest ==
    ASSUME IInv, WholeInv, cmd.family = "reads", PageRead,
           cmd.reader \notin {"alerts", "search", "rules", "checked"}
    PROVE  WholeInv'
<1>1. AlertsAims' /\ SearchAims' /\ RulesAims' /\ CheckedAims'
  BY DEF PageRead, AlertsAims, SearchAims, RulesAims, CheckedAims, Reading
<1> QED BY <1>1, PageReadKeeps DEF WholeInv

\* Exception lists.
LEMMA PageExceptionsKeeps ==
    ASSUME IInv, WholeInv, cmd.family = "reads", PagedReads!PageExceptions
    PROVE  WholeInv'
<1> DEFINE out == plan.out \o PagedReads!Offset(stack.docs, plan.page)
<1>1. /\ pc \in {"start", "page"} /\ cmd.reader = "exceptions"
      /\ UNCHANGED <<cmd, stack, edits>>
  BY DEF PagedReads!PageExceptions, PagedReads!Requested, PagedReads!Kept
<1>2. \/ moved' = moved /\ PagedReads!Result(out)
      \/ moved' = moved /\ PagedReads!NextPage(out)
      \/ pc' = "failed" /\ plan' = plan
  BY DEF PagedReads!PageExceptions, PagedReads!Read, PagedReads!Refused, PagedReads!Fail,
     PagedReads!Goto
<1>3. out \in Seq(PagedReads!Docs)
  BY ReadFacts, OffsetInDocs, JoinFacts
<1> HIDE DEF out
<1>4. CASE pc' = "failed" /\ plan' = plan
  BY <1>1, <1>4, ReadFails
<1>5. CASE moved' = moved /\ PagedReads!Result(out)
  <2>1. /\ pc' = "done" /\ plan'.out = out /\ plan'.first = PagedReads!First
        /\ DOMAIN plan' = DOMAIN plan /\ plan'.page = plan.page
        /\ plan'.slices = plan.slices
    BY <1>5, ReadFacts DEF PagedReads!Result, PagedReads!Goto
  <2>2. PageRead
    BY <1>1, <1>3, <1>5, <2>1, ReadFacts DEF PageRead
  <2> QED BY <1>1, <2>2, PageOfTheRest
<1>6. CASE moved' = moved /\ PagedReads!NextPage(out)
  <2>1. /\ pc' = "page" /\ plan'.out = out /\ plan'.first = PagedReads!First
        /\ DOMAIN plan' = DOMAIN plan /\ plan'.page = plan.page + 1
        /\ plan'.slices = plan.slices
    BY <1>6, ReadFacts DEF PagedReads!NextPage, PagedReads!Goto
  <2>2. plan'.page \in Nat \ {0} /\ plan'.page > 1
    BY <2>1, ReadFacts
  <2>3. PageRead
    BY <1>1, <1>3, <1>6, <2>1, <2>2, ReadFacts DEF PageRead
  <2> QED BY <1>1, <2>3, PageOfTheRest
<1> QED BY <1>2, <1>4, <1>5, <1>6

\* Dashboards and Fleet policies.
LEMMA PageCheckedKeeps ==
    ASSUME IInv, WholeInv, cmd.family = "reads", PagedReads!PageChecked
    PROVE  WholeInv'
<1> DEFINE S     == stack.docs
           k     == plan.page
           data  == PagedReads!Offset(S, k)
           out   == plan.out \o data
           count == Cardinality(S)
           total == IF k = 1 THEN count ELSE plan.total
           last  == count = total /\ IsInjective(out) /\ Len(out) = total
           more  == /\ count = total /\ ~(Len(out) > total) /\ Len(out) # total
                    /\ Len(data) = PagedReads!PageSize
<1>1. /\ pc \in {"start", "page"} /\ cmd.reader = "checked" /\ UNCHANGED <<cmd, stack, edits>>
  BY DEF PagedReads!PageChecked, PagedReads!Requested, PagedReads!Kept
<1>2. \/ moved' = moved /\ last /\ PagedReads!Result(out)
      \/ /\ moved' = moved /\ more /\ pc' = "page"
         /\ plan' = [plan EXCEPT !.out = out, !.page = @ + 1, !.total = total,
                                 !.first = PagedReads!First]
      \/ pc' = "failed" /\ plan' = plan
  <2>1. \/ PagedReads!Refused
        \/ /\ moved' = moved
           /\ IF count # total \/ ~IsInjective(out) THEN PagedReads!Refused
              ELSE IF Len(out) > total THEN PagedReads!Refused
              ELSE IF Len(out) = total THEN PagedReads!Result(out)
              ELSE IF Len(data) # PagedReads!PageSize THEN PagedReads!Refused
              ELSE /\ plan' = [plan EXCEPT !.out = out, !.page = @ + 1, !.total = total,
                                            !.first = PagedReads!First]
                   /\ PagedReads!Goto("page")
    BY Zenon DEF PagedReads!PageChecked, PagedReads!Read, PagedReads!Cardinality, Cardinality,
       PagedReads!IsInjective, IsInjective
  <2> HIDE DEF S, k, data, out, count, total
  <2>2. PagedReads!Refused => pc' = "failed" /\ plan' = plan
    BY DEF PagedReads!Refused, PagedReads!Fail, PagedReads!Goto
  <2> QED BY <2>1, <2>2 DEF PagedReads!Goto
<1>3. out \in Seq(PagedReads!Docs)
  BY ReadFacts, OffsetInDocs, JoinFacts
<1>4. k \in Nat \ {0} /\ count \in Nat /\ Len(out) \in Nat /\ S \in SUBSET PagedReads!Docs
  BY <1>3, ReadFacts, DocsFacts
<1>5. ASSUME pc = "start" \/ edits >= MaxEdits - 1, count = total
      PROVE  /\ PagedReads!First = S /\ total = Cardinality(S)
             /\ (k - 1) * PagedReads!PageSize <= Cardinality(S)
             /\ plan.out = SubSeq(Sorted(S), 1, (k - 1) * PagedReads!PageSize)
  <2>1. CASE pc = "start"
    <3>1. plan.out = <<>> /\ k = 1
      BY <2>1, ReadFacts
    <3>2. (k - 1) * PagedReads!PageSize = 0
      BY <3>1 DEF PagedReads!PageSize
    <3>3. SubSeq(Sorted(S), 1, 0) = <<>>
      BY SubSeqEmpty
    <3> QED BY <1>4, <1>5, <2>1, <3>1, <3>2, <3>3 DEF PagedReads!First
  <2>2. CASE pc = "page" /\ edits >= MaxEdits - 1
    <3>1. k # 1 /\ PagedReads!First = plan.first
      BY <1>1, <2>2, ReadFacts DEF PagedReads!First
    <3>2. /\ plan.total = Cardinality(plan.first)
          /\ (plan.page - 1) * PagedReads!PageSize < plan.total
          /\ plan.out = SubSeq(Sorted(plan.first), 1, (plan.page - 1) * PagedReads!PageSize)
          /\ stack.docs = plan.first \/ Cardinality(stack.docs) # plan.total
      BY <1>1, <2>2 DEF WholeInv, CheckedAims, Reading
    <3>3. stack.docs = plan.first
      BY <1>5, <3>1, <3>2
    <3>4. (k - 1) * PagedReads!PageSize <= Cardinality(S)
      BY <1>4, <3>2, <3>3 DEF PagedReads!PageSize
    <3> QED BY <1>5, <3>1, <3>2, <3>3, <3>4
  <2> QED BY <1>1, <1>5, <2>1, <2>2
<1>6. ASSUME pc = "start" \/ edits >= MaxEdits - 1, count = total
      PROVE  /\ Len(data) = PagedReads!PageSize =>
                  /\ Len(out) = k * PagedReads!PageSize
                  /\ out = SubSeq(Sorted(S), 1, k * PagedReads!PageSize)
             /\ Len(out) = Cardinality(S) => Range(out) = S
  BY <1>4, <1>5, <1>6, OffsetJoin
<1> HIDE DEF S, k, data, out, count, total
<1>7. CASE pc' = "failed" /\ plan' = plan
  BY <1>1, <1>7, ReadFails
<1>8. CASE moved' = moved /\ last /\ PagedReads!Result(out)
  <2>1. /\ pc' = "done" /\ plan'.out = out /\ plan'.first = PagedReads!First
        /\ DOMAIN plan' = DOMAIN plan /\ plan'.page = k /\ plan'.slices = plan.slices
    BY <1>8, ReadFacts DEF PagedReads!Result, PagedReads!Goto, k
  <2>2. PageRead
    BY <1>1, <1>3, <1>8, <2>1, ReadFacts DEF PageRead, k
  <2>3. edits >= MaxEdits - 1 => plan'.first \subseteq Range(plan'.out)
    BY <1>5, <1>6, <1>8, <2>1
  <2>4. CheckedAims'
    BY <1>1, <1>8, <2>1, <2>3 DEF CheckedAims
  <2>5. AlertsAims' /\ SearchAims' /\ RulesAims'
    BY <1>1 DEF AlertsAims, SearchAims, RulesAims, Reading
  <2> QED BY <2>2, <2>4, <2>5, PageReadKeeps DEF WholeInv
<1>9. CASE /\ moved' = moved /\ more /\ pc' = "page"
           /\ plan' = [plan EXCEPT !.out = out, !.page = @ + 1, !.total = total,
                                   !.first = PagedReads!First]
  <2>1. /\ plan'.out = out /\ plan'.first = PagedReads!First /\ plan'.total = total
        /\ DOMAIN plan' = DOMAIN plan /\ plan'.page = k + 1 /\ plan'.slices = plan.slices
    BY <1>9, ReadFacts DEF k
  <2>2. PageRead
    BY <1>1, <1>3, <1>4, <1>9, <2>1, ReadFacts DEF PageRead
  <2>3. ASSUME edits >= MaxEdits - 1
        PROVE  /\ plan'.total = Cardinality(plan'.first)
               /\ (plan'.page - 1) * PagedReads!PageSize < plan'.total
               /\ plan'.out = SubSeq(Sorted(plan'.first), 1,
                                     (plan'.page - 1) * PagedReads!PageSize)
               /\ stack'.docs = plan'.first
    <3>1. plan'.first = S /\ total = Cardinality(S) /\ stack'.docs = S
      BY <1>1, <1>5, <1>9, <2>1, <2>3 DEF S
    <3>2. Len(out) = k * PagedReads!PageSize
            /\ out = SubSeq(Sorted(S), 1, k * PagedReads!PageSize)
      BY <1>6, <1>9, <2>3
    <3>3. plan'.page - 1 = k
      BY <1>4, <2>1
    <3>4. k * PagedReads!PageSize < total
      BY <1>4, <1>9, <3>2 DEF PagedReads!PageSize
    <3> QED BY <2>1, <3>1, <3>2, <3>3, <3>4
  <2>4. CheckedAims'
    BY <1>1, <1>9, <2>3 DEF CheckedAims
  <2>5. AlertsAims' /\ SearchAims' /\ RulesAims'
    BY <1>1 DEF AlertsAims, SearchAims, RulesAims, Reading
  <2> QED BY <2>2, <2>4, <2>5, PageReadKeeps DEF WholeInv
<1> QED BY <1>2, <1>7, <1>8, <1>9

\* Cases and alerts: a page behind the last document passes nothing over.
LEMMA PageUntilShortKeeps ==
    ASSUME IInv, WholeInv, cmd.family = "reads", PagedReads!PageUntilShort
    PROVE  WholeInv'
<1> DEFINE data == IF cmd.reader = "cases" THEN PagedReads!Offset(stack.docs, plan.page)
                   ELSE PagedReads!Behind(stack.docs, LastOf(plan.out))
           out  == plan.out \o data
           cut  == PagedReads!FirstOf(out, cmd.limit)
           full == cmd.limit # 0 /\ Len(out) >= cmd.limit
<1>1. /\ pc \in {"start", "page"} /\ cmd.reader \in {"cases", "alerts"}
      /\ UNCHANGED <<cmd, stack, edits>>
  BY DEF PagedReads!PageUntilShort, PagedReads!Requested, PagedReads!Kept
<1>2. \/ moved' = moved /\ full /\ PagedReads!Result(cut)
      \/ moved' = moved /\ ~full /\ Len(data) < PagedReads!PageSize /\ PagedReads!Result(out)
      \/ moved' = moved /\ ~full /\ PagedReads!NextPage(out)
      \/ moved' = moved /\ ~full /\ PagedReads!Cut(out, "done")
      \/ pc' = "failed" /\ plan' = plan
  <2>1. \/ PagedReads!Refused
        \/ /\ moved' = moved
           /\ IF cmd.limit # 0 /\ Len(out) >= cmd.limit THEN PagedReads!Result(cut)
              ELSE IF Len(data) < PagedReads!PageSize THEN PagedReads!Result(out)
              ELSE \/ PagedReads!NextPage(out)
                   \/ cmd.reader = "alerts" /\ PagedReads!Cut(out, "done")
    BY Zenon DEF PagedReads!PageUntilShort, PagedReads!Read, LastOf
  <2> HIDE DEF data, out, cut
  <2>2. PagedReads!Refused => pc' = "failed" /\ plan' = plan
    BY DEF PagedReads!Refused, PagedReads!Fail, PagedReads!Goto
  <2> QED BY <2>1, <2>2
<1>3. PagedReads!Docs \in SUBSET Nat /\ PagedReads!Docs \in SUBSET (Nat \ {0})
  BY DEF PagedReads!Docs
<1>4. out \in Seq(PagedReads!Docs)
  <2>1. CASE cmd.reader = "cases"
    BY <2>1, ReadFacts, OffsetInDocs, JoinFacts
  <2>2. CASE cmd.reader = "alerts"
    <3>1. LastOf(plan.out) \in Nat
      BY <1>3, <2>2, ReadFacts, OrderFacts DEF WholeInv, AlertsAims, Reading
    <3>2. data \in Seq(stack.docs)
      BY <2>2, <3>1, ReadFacts, BehindFacts
    <3>3. data \in Seq(PagedReads!Docs)
      BY <3>2, ReadFacts, SeqMonotonic
    <3> QED BY <3>3, ReadFacts, JoinFacts
  <2> QED BY <1>1, <2>1, <2>2
<1>5. ASSUME cmd.reader = "alerts"
      PROVE  LET X == PagedReads!First \ moved
             IN  /\ InOrder(out) /\ UpTo(X, LastOf(out)) \subseteq Range(out)
                 /\ Len(data) < PagedReads!PageSize => X \subseteq Range(out)
  <2> DEFINE X == PagedReads!First \ moved
  <2>1. X \in SUBSET stack.docs /\ stack.docs \in SUBSET PagedReads!Docs
          /\ plan.out \in Seq(PagedReads!Docs)
    BY <1>1, ReadFacts
  <2>2. InOrder(plan.out)
    BY <1>5 DEF WholeInv, AlertsAims, Reading
  <2>3. UpTo(X, LastOf(plan.out)) \subseteq Range(plan.out)
    <3>1. CASE pc = "start"
      <4>1. LastOf(plan.out) = 0
        BY <3>1, ReadFacts DEF LastOf
      <4> HIDE DEF X
      <4>2. \A e \in X : e \in Nat /\ e # 0
        BY <1>3, <2>1
      <4>3. UpTo(X, 0) = {}
        BY <4>2 DEF UpTo
      <4> QED BY <4>1, <4>3
    <3>2. CASE pc = "page"
      BY <1>5, <3>2 DEF WholeInv, AlertsAims, Reading, Stayed, PagedReads!First
    <3> QED BY <1>1, <3>1, <3>2
  <2>4. data = PagedReads!Behind(stack.docs, LastOf(plan.out))
    BY <1>5
  <2> HIDE DEF X, data
  <2> QED BY <2>1, <2>2, <2>3, <2>4, BehindLast DEF X
<1> HIDE DEF data, out
<1>6. full => cut \in Seq(PagedReads!Docs) /\ (cmd.reader = "alerts" => InOrder(cut))
  <2> SUFFICES ASSUME full
               PROVE  cut \in Seq(PagedReads!Docs) /\ (cmd.reader = "alerts" => InOrder(cut))
    OBVIOUS
  <2> DEFINE n == IF Len(out) < cmd.limit THEN Len(out) ELSE cmd.limit
  <2>1. cmd.limit \in Nat
    BY ReadFacts
  <2>2. n \in 0..Len(out) /\ cut = SubSeq(out, 1, n)
    BY <1>4, <2>1 DEF PagedReads!FirstOf
  <2> HIDE DEF n, cut
  <2>3. cut \in Seq(PagedReads!Docs)
    BY <1>4, <2>2, PrefixType
  <2>4. cmd.reader = "alerts" => InOrder(cut)
    BY <1>3, <1>4, <1>5, <2>2, PrefixFacts
  <2> QED BY <2>3, <2>4
<1> HIDE DEF cut
<1>7. CASE pc' = "failed" /\ plan' = plan
  BY <1>1, <1>7, ReadFails
<1>8. ASSUME moved' = moved, NEW o \in Seq(PagedReads!Docs), PagedReads!Result(o),
             cmd.reader = "alerts" => InOrder(o),
             cmd.reader = "alerts" /\ cmd.limit = 0 =>
               PagedReads!First \ moved \subseteq Range(o)
      PROVE  WholeInv'
  <2>1. /\ pc' = "done" /\ plan'.out = o /\ plan'.first = PagedReads!First
        /\ DOMAIN plan' = DOMAIN plan /\ plan'.page = plan.page
        /\ plan'.slices = plan.slices
    BY <1>8, ReadFacts DEF PagedReads!Result, PagedReads!Goto
  <2>2. PageRead
    BY <1>1, <1>8, <2>1, ReadFacts DEF PageRead
  <2>3. AlertsAims'
    BY <1>1, <1>8, <2>1, <2>2, PageReadKeeps DEF AlertsAims, Reading
  <2>4. SearchAims' /\ RulesAims' /\ CheckedAims'
    BY <1>1 DEF SearchAims, RulesAims, CheckedAims, Reading
  <2> QED BY <2>2, <2>3, <2>4, PageReadKeeps DEF WholeInv
<1>9. CASE moved' = moved /\ PagedReads!NextPage(out)
  <2>1. /\ pc' = "page" /\ plan'.out = out /\ plan'.first = PagedReads!First
        /\ DOMAIN plan' = DOMAIN plan /\ plan'.page = plan.page + 1
        /\ plan'.slices = plan.slices
    BY <1>9, ReadFacts DEF PagedReads!NextPage, PagedReads!Goto
  <2>2. plan'.page \in Nat \ {0} /\ plan'.page > 1
    BY <2>1, ReadFacts
  <2>3. PageRead
    BY <1>1, <1>4, <1>9, <2>1, <2>2, ReadFacts DEF PageRead
  <2>4. AlertsAims'
    BY <1>1, <1>5, <2>1, <2>3, PageReadKeeps DEF AlertsAims, Reading
  <2>5. SearchAims' /\ RulesAims' /\ CheckedAims'
    BY <1>1 DEF SearchAims, RulesAims, CheckedAims, Reading
  <2> QED BY <2>3, <2>4, <2>5, PageReadKeeps DEF WholeInv
<1>10. CASE moved' = moved /\ PagedReads!Cut(out, "done")
  <2>1. /\ pc' = "done" /\ plan'.out = out /\ plan'.first = PagedReads!First
        /\ DOMAIN plan' = DOMAIN plan /\ plan'.page = plan.page
        /\ plan'.slices = plan.slices /\ plan'.cut = TRUE
    BY <1>10, ReadFacts DEF PagedReads!Cut, PagedReads!Goto
  <2>2. PageRead
    BY <1>1, <1>4, <1>10, <2>1, ReadFacts DEF PageRead
  <2>3. AlertsAims'
    BY <1>1, <1>5, <2>1, <2>2, PageReadKeeps DEF AlertsAims, Reading
  <2>4. SearchAims' /\ RulesAims' /\ CheckedAims'
    BY <1>1 DEF SearchAims, RulesAims, CheckedAims, Reading
  <2> QED BY <2>2, <2>3, <2>4, PageReadKeeps DEF WholeInv
<1> QED BY <1>2, <1>4, <1>5, <1>6, <1>7, <1>8, <1>9, <1>10

\* A search opens its point in time.
LEMMA OpenPitKeeps ==
    ASSUME IInv, WholeInv, cmd.family = "reads", PagedReads!OpenPit
    PROVE  WholeInv'
<1>1. pc = "start" /\ cmd.reader = "search" /\ UNCHANGED <<cmd, moved, edits>>
  BY DEF PagedReads!OpenPit
<1>2. \/ pc' = "pit" /\ plan' = [plan EXCEPT !.first = stack.docs]
      \/ pc' = "failed" /\ plan' = [plan EXCEPT !.lost = TRUE]
  BY DEF PagedReads!OpenPit, PagedReads!Opens, PagedReads!Goto, PagedReads!Fail
<1>3. CASE pc' = "failed" /\ plan' = [plan EXCEPT !.lost = TRUE]
  BY <1>1, <1>3, ReadFails
<1>4. CASE pc' = "pit" /\ plan' = [plan EXCEPT !.first = stack.docs]
  <2>1. /\ DOMAIN plan' = DOMAIN plan /\ plan'.out = <<>> /\ plan'.first = stack.docs
        /\ plan'.page = plan.page /\ plan'.slices = plan.slices
    BY <1>1, <1>4, ReadFacts
  <2>2. plan'.out \in Seq(PagedReads!Docs)
    BY <1>1, <2>1, ReadFacts
  <2>3. ReadsOK'
    BY <1>1, <1>4, <2>1, <2>2, ReadFacts DEF ReadsOK
  <2>4. InOrder(plan'.out) /\ LastOf(plan'.out) = 0
    BY <2>1 DEF InOrder, LastOf
  <2>5. UpTo(plan'.first, 0) = {}
    BY <2>1, ReadFacts DEF UpTo, PagedReads!Docs
  <2>6. SearchAims'
    BY <1>4, <2>4, <2>5 DEF SearchAims
  <2>7. StayedIsThere' /\ AlertsAims' /\ RulesAims' /\ CheckedAims'
    BY <1>1, <1>4 DEF StayedIsThere, AlertsAims, RulesAims, CheckedAims, Reading
  <2> QED BY <2>3, <2>6, <2>7 DEF WholeInv
<1> QED BY <1>2, <1>3, <1>4

\* Between the requests of a search, and of a query.
LEMMA SearchGoesOn ==
    ASSUME IInv, WholeInv, cmd.family = "reads", cmd' = cmd,
           cmd.reader \in {"search", "esql"}, pc' \in {"pit", "poll", "close", "done"},
           pc' = "pit" => cmd.reader = "search", pc' = "poll" => cmd.reader = "esql",
           DOMAIN plan' = DOMAIN plan,
           plan'.out \in Seq(PagedReads!Docs), plan'.first = plan.first,
           plan'.page = plan.page, plan'.slices = plan.slices, SearchAims'
    PROVE  WholeInv'
<1>1. ReadsOK'
  BY ReadFacts DEF ReadsOK
<1>2. StayedIsThere' /\ AlertsAims' /\ RulesAims' /\ CheckedAims'
  BY DEF StayedIsThere, AlertsAims, RulesAims, CheckedAims, Reading
<1> QED BY <1>1, <1>2 DEF WholeInv

\* A page over the point in time passes nothing over.
LEMMA PagePitKeeps ==
    ASSUME IInv, WholeInv, cmd.family = "reads", PagedReads!PagePit
    PROVE  WholeInv'
<1> DEFINE data == PagedReads!Behind(plan.first, LastOf(plan.out))
           out  == plan.out \o data
           cut  == PagedReads!FirstOf(out, cmd.limit)
           full == cmd.limit # 0 /\ Len(out) >= cmd.limit
<1>1. pc = "pit" /\ cmd' = cmd /\ cmd.reader = "search"
  BY ReadFacts DEF PagedReads!PagePit, PagedReads!Kept
<1>2. \/ data = <<>> /\ pc' = "close" /\ plan' = plan
      \/ full /\ pc' = "close" /\ plan' = [plan EXCEPT !.out = cut]
      \/ ~full /\ pc' = "pit" /\ plan' = [plan EXCEPT !.out = out]
      \/ pc' = "close" /\ plan' = [plan EXCEPT !.out = out, !.first = plan.first, !.cut = TRUE]
      \/ pc' = "close" /\ plan' = [plan EXCEPT !.failed = TRUE]
  <2>1. \/ plan' = [plan EXCEPT !.failed = TRUE] /\ PagedReads!Goto("close")
        \/ IF data = <<>> THEN PagedReads!Goto("close") /\ UNCHANGED plan
           ELSE IF cmd.limit # 0 /\ Len(out) >= cmd.limit
                THEN plan' = [plan EXCEPT !.out = cut] /\ PagedReads!Goto("close")
           ELSE \/ plan' = [plan EXCEPT !.out = out] /\ PagedReads!Goto("pit")
                \/ PagedReads!Cut(out, "close")
    BY Zenon DEF PagedReads!PagePit, PagedReads!Read, LastOf
  <2> HIDE DEF data, out, cut
  <2> QED BY <1>1, <2>1 DEF PagedReads!Goto, PagedReads!Cut, PagedReads!First
<1>3. PagedReads!Docs \in SUBSET Nat /\ PagedReads!Docs \in SUBSET (Nat \ {0})
  BY DEF PagedReads!Docs
<1>4. /\ plan.out \in Seq(PagedReads!Docs) /\ plan.first \in SUBSET PagedReads!Docs
      /\ InOrder(plan.out) /\ UpTo(plan.first, LastOf(plan.out)) \subseteq Range(plan.out)
  BY <1>1, ReadFacts DEF WholeInv, SearchAims, Reading
<1>5. /\ out \in Seq(PagedReads!Docs) /\ InOrder(out)
      /\ UpTo(plan.first, LastOf(out)) \subseteq Range(out)
      /\ Len(data) < PagedReads!PageSize => plan.first \subseteq Range(out)
  BY <1>4, BehindLast
<1>6. data = <<>> => plan.first \subseteq Range(plan.out)
  <2>1. data = <<>> => Len(data) < PagedReads!PageSize
    BY DEF PagedReads!PageSize
  <2>2. data = <<>> => out = plan.out
    BY <1>4
  <2> QED BY <1>5, <2>1, <2>2
<1> HIDE DEF data, out
<1>7. full => cut \in Seq(PagedReads!Docs) /\ InOrder(cut)
  <2> SUFFICES ASSUME full PROVE cut \in Seq(PagedReads!Docs) /\ InOrder(cut)
    OBVIOUS
  <2> DEFINE n == IF Len(out) < cmd.limit THEN Len(out) ELSE cmd.limit
  <2>1. cmd.limit \in Nat
    BY ReadFacts
  <2>2. n \in 0..Len(out) /\ cut = SubSeq(out, 1, n)
    BY <1>5, <2>1 DEF PagedReads!FirstOf
  <2> HIDE DEF n, cut
  <2> QED BY <1>3, <1>5, <2>2, PrefixFacts
<1> HIDE DEF cut
<1>8. CASE data = <<>> /\ pc' = "close" /\ plan' = plan
  <2>1. SearchAims'
    BY <1>4, <1>6, <1>8 DEF SearchAims
  <2> QED BY <1>1, <1>4, <1>8, <2>1, SearchGoesOn
<1>9. CASE full /\ pc' = "close" /\ plan' = [plan EXCEPT !.out = cut]
  <2>1. /\ DOMAIN plan' = DOMAIN plan /\ plan'.out = cut /\ plan'.first = plan.first
        /\ plan'.page = plan.page /\ plan'.slices = plan.slices
    BY <1>9, ReadFacts
  <2>2. SearchAims'
    BY <1>1, <1>7, <1>9, <2>1 DEF SearchAims
  <2> QED BY <1>1, <1>7, <1>9, <2>1, <2>2, SearchGoesOn
<1>10. CASE ~full /\ pc' = "pit" /\ plan' = [plan EXCEPT !.out = out]
  <2>1. /\ DOMAIN plan' = DOMAIN plan /\ plan'.out = out /\ plan'.first = plan.first
        /\ plan'.page = plan.page /\ plan'.slices = plan.slices
    BY <1>10, ReadFacts
  <2>2. SearchAims'
    BY <1>1, <1>5, <1>10, <2>1 DEF SearchAims
  <2> QED BY <1>1, <1>5, <1>10, <2>1, <2>2, SearchGoesOn
<1>11. CASE pc' = "close" /\ plan' = [plan EXCEPT !.failed = TRUE]
  <2>1. /\ DOMAIN plan' = DOMAIN plan /\ plan'.out = plan.out /\ plan'.first = plan.first
        /\ plan'.page = plan.page /\ plan'.slices = plan.slices /\ plan'.failed = TRUE
    BY <1>11, ReadFacts
  <2>2. SearchAims'
    BY <1>4, <1>11, <2>1 DEF SearchAims
  <2> QED BY <1>1, <1>4, <1>11, <2>1, <2>2, SearchGoesOn
<1>12. CASE /\ pc' = "close"
            /\ plan' = [plan EXCEPT !.out = out, !.first = plan.first, !.cut = TRUE]
  <2>1. /\ DOMAIN plan' = DOMAIN plan /\ plan'.out = out /\ plan'.first = plan.first
        /\ plan'.page = plan.page /\ plan'.slices = plan.slices /\ plan'.cut = TRUE
    BY <1>12, ReadFacts
  <2>2. SearchAims'
    BY <1>1, <1>5, <1>12, <2>1 DEF SearchAims
  <2> QED BY <1>1, <1>5, <1>12, <2>1, <2>2, SearchGoesOn
<1> QED BY <1>2, <1>8, <1>9, <1>10, <1>11, <1>12

\* A search ends as it was read, or with its error.
LEMMA CloseKeeps ==
    ASSUME IInv, WholeInv, cmd.family = "reads", PagedReads!Close
    PROVE  WholeInv'
<1>1. pc = "close" /\ cmd' = cmd /\ cmd.reader \in {"search", "esql"}
  BY ReadFacts DEF PagedReads!Close
<1>2. /\ plan' = plan \/ plan' = [plan EXCEPT !.lost = TRUE]
      /\ pc' = IF plan.failed THEN "failed" ELSE "done"
  BY DEF PagedReads!Close, PagedReads!Opens, PagedReads!Goto
<1>3. CASE pc' = "failed"
  BY <1>1, <1>2, <1>3, ReadFails
<1>4. CASE pc' = "done" /\ ~plan.failed
  <2>1. /\ DOMAIN plan' = DOMAIN plan /\ plan'.out = plan.out /\ plan'.first = plan.first
        /\ plan'.page = plan.page /\ plan'.slices = plan.slices
        /\ plan'.failed = plan.failed /\ plan'.cut = plan.cut
    BY <1>2, ReadFacts
  <2>2. SearchAims'
    BY <1>1, <1>4, <2>1 DEF WholeInv, SearchAims, Reading
  <2> QED BY <1>1, <1>4, <2>1, <2>2, ReadFacts, SearchGoesOn
<1> QED BY <1>2, <1>3, <1>4

\* What a request of rules is answered with.
LEMMA MatchingFacts ==
    ASSUME IInv, cmd.family = "reads", NEW slice
    PROVE  /\ PagedReads!Matching(slice) \in SUBSET PagedReads!Docs
           /\ PagedReads!Matching(slice) \subseteq stack.docs
           /\ \A d \in PagedReads!Docs :
                d \in PagedReads!Matching(slice) <=> d \in stack.docs /\ Asks(slice, d)
<1>1. stack \in PagedReads!StackType
  BY DEF IInv, TypeOK, StackType
<1>2. stack.docs \subseteq PagedReads!Docs
  BY <1>1 DEF PagedReads!StackType
<1> QED BY <1>2 DEF PagedReads!Matching, Asks

\* The aims of a read of rules, after a step of it.
LEMMA RulesGoOn ==
    ASSUME UNCHANGED <<cmd, stack, moved>>, Reading("rules"),
           pc' = "page" =>
             /\ plan'.slices # <<>>
             /\ \A d \in Untouched :
                  /\ Once(plan'.slices, plan'.out, d)
                  /\ d \in plan'.first => Found(plan'.slices, plan'.out, d),
           pc' = "done" =>
             \A d \in Untouched :
                 Once(<<>>, plan'.out, d) /\ (d \in plan'.first => Found(<<>>, plan'.out, d))
    PROVE  RulesAims'
<1>1. Untouched' = Untouched
  BY DEF Untouched
<1> QED BY <1>1 DEF RulesAims, Reading, Once, Found, Asks, PagedReads!State

\* Rules: the whole corpus in one request, or a plan of requests.
LEMMA ReadRulesKeeps ==
    ASSUME IInv, WholeInv, cmd.family = "reads", PagedReads!ReadRules
    PROVE  WholeInv'
<1> DEFINE found == PagedReads!Matching(PagedReads!Corpus)
           out   == PagedReads!Sorted(found)
<1>1. /\ pc = "start" /\ cmd.reader = "rules" /\ UNCHANGED <<cmd, stack, edits>>
      /\ plan.out = <<>>
  BY ReadFacts DEF PagedReads!ReadRules, PagedReads!Requested, PagedReads!Kept
<1>2. /\ found \in SUBSET PagedReads!Docs /\ found \subseteq stack.docs
      /\ \A d \in found : Asks(PagedReads!Corpus, d)
      /\ Reading("rules")
  BY <1>1, MatchingFacts DEF Reading
<1>3. \/ /\ moved' = moved /\ pc' = "done"
         /\ plan' = [plan EXCEPT !.out = out, !.first = found]
      \/ /\ moved' = moved /\ pc' = "page" /\ cmd.filter # {"type", "enabled"}
         /\ plan' = [plan EXCEPT !.total = PagedReads!Cardinality(found),
                                 !.slices = PagedReads!Parts, !.first = found]
      \/ pc' = "failed" /\ plan' = plan
  <2> HIDE DEF out
  <2>1. \/ PagedReads!Refused
        \/ /\ moved' = moved /\ plan' = [plan EXCEPT !.out = out, !.first = found]
           /\ PagedReads!Goto("done")
        \/ /\ moved' = moved /\ cmd.filter # {"type", "enabled"}
           /\ plan' = [plan EXCEPT !.total = PagedReads!Cardinality(found),
                                   !.slices = PagedReads!Parts, !.first = found]
           /\ PagedReads!Goto("page")
    BY Zenon DEF PagedReads!ReadRules, PagedReads!Read, out
  <2>2. PagedReads!Refused => pc' = "failed" /\ plan' = plan
    BY DEF PagedReads!Refused, PagedReads!Fail, PagedReads!Goto
  <2> HIDE DEF found
  <2> QED BY <2>1, <2>2 DEF PagedReads!Goto
<1> HIDE DEF found
<1>4. out \in Seq(PagedReads!Docs) /\ Range(out) = found /\ IsInjective(out)
  <2>1. out \in Seq(found) /\ Range(out) = found /\ IsInjective(out)
    BY <1>2, DocsFacts
  <2> HIDE DEF out
  <2> QED BY <1>2, <2>1, SeqMonotonic
<1> HIDE DEF out
<1>5. CASE pc' = "failed" /\ plan' = plan
  BY <1>1, <1>5, ReadFails
<1>6. ASSUME moved' = moved, pc' \in {"page", "done"}, DOMAIN plan' = DOMAIN plan,
             plan'.first = found, plan'.page = plan.page, plan'.out \in Seq(PagedReads!Docs),
             plan'.slices \in Seq(PagedReads!Slices), RulesAims'
      PROVE  WholeInv'
  <2>1. ReadsOK'
    BY <1>1, <1>2, <1>6, ReadFacts DEF ReadsOK
  <2>2. StayedIsThere'
    BY <1>1, <1>2, <1>6 DEF StayedIsThere, Stayed
  <2>3. AlertsAims' /\ SearchAims' /\ CheckedAims'
    BY <1>1 DEF AlertsAims, SearchAims, CheckedAims, Reading
  <2> QED BY <1>6, <2>1, <2>2, <2>3 DEF WholeInv
<1>7. CASE /\ moved' = moved /\ pc' = "done"
           /\ plan' = [plan EXCEPT !.out = out, !.first = found]
  <2>1. /\ plan'.out = out /\ plan'.first = found /\ plan'.slices = plan.slices
        /\ DOMAIN plan' = DOMAIN plan /\ plan'.page = plan.page
    BY <1>7, ReadFacts
  <2>2. \A i \in 1..Len(<<>>) : FALSE
    OBVIOUS
  <2>3. ASSUME NEW d \in Untouched
        PROVE  Once(<<>>, out, d) /\ (d \in found => Found(<<>>, out, d))
    <3>1. DOMAIN out = 1..Len(out)
      BY <1>4
    <3>2. \A i, j \in 1..Len(out) : out[i] = d /\ out[j] = d => i = j
      BY <1>4, <3>1 DEF IsInjective
    <3>3. Once(<<>>, out, d)
      BY <2>2, <3>2 DEF Once
    <3> QED BY <1>4, <3>3 DEF Found
  <2>4. RulesAims'
    BY <1>1, <1>2, <1>7, <2>1, <2>3, RulesGoOn
  <2> QED BY <1>4, <1>6, <1>7, <2>1, <2>4, ReadFacts
<1>8. CASE /\ moved' = moved /\ pc' = "page" /\ cmd.filter # {"type", "enabled"}
           /\ plan' = [plan EXCEPT !.total = PagedReads!Cardinality(found),
                                   !.slices = PagedReads!Parts, !.first = found]
  <2>1. /\ plan'.out = <<>> /\ plan'.first = found /\ plan'.slices = PagedReads!Parts
        /\ DOMAIN plan' = DOMAIN plan /\ plan'.page = plan.page
        /\ plan'.out \in Seq(PagedReads!Docs)
    BY <1>1, <1>8, ReadFacts
  <2>2. /\ PagedReads!Parts \in Seq(PagedReads!Slices) /\ PagedReads!Parts # <<>>
        /\ \A d \in PagedReads!Docs :
             /\ Once(PagedReads!Parts, <<>>, d)
             /\ Asks(PagedReads!Corpus, d) => Found(PagedReads!Parts, <<>>, d)
    BY <1>8, PartsFacts
  <2>3. Untouched \subseteq PagedReads!Docs
    BY DEF Untouched
  <2>4. RulesAims'
    BY <1>1, <1>2, <1>8, <2>1, <2>2, <2>3, RulesGoOn
  <2> QED BY <1>6, <1>8, <2>1, <2>2, <2>4
<1> QED BY <1>3, <1>5, <1>7, <1>8

\* A part at a time.
LEMMA ReadSliceKeeps ==
    ASSUME IInv, WholeInv, cmd.family = "reads", PagedReads!ReadSlice
    PROVE  WholeInv'
<1> DEFINE slice == Head(plan.slices)
           rest  == Tail(plan.slices)
           found == PagedReads!Matching(slice)
           out   == plan.out \o PagedReads!Sorted(found)
           halved == PagedReads!Halves(slice.of) \o rest
<1>1. pc = "page" /\ cmd.reader = "rules" /\ UNCHANGED <<cmd, stack, edits>>
  BY DEF PagedReads!ReadSlice, PagedReads!Requested, PagedReads!Kept
<1>2. \/ moved' = moved /\ rest = <<>> /\ PagedReads!Result(out)
      \/ /\ moved' = moved /\ rest # <<>> /\ pc' = "page"
         /\ plan' = [plan EXCEPT !.out = out, !.slices = rest]
      \/ /\ moved' = moved /\ slice.states = PagedReads!States /\ pc' = "page"
         /\ plan' = [plan EXCEPT !.slices = halved]
      \/ pc' = "failed" /\ plan' = plan
  <2>1. \/ PagedReads!Refused
        \/ moved' = moved /\ rest = <<>> /\ PagedReads!Result(out)
        \/ /\ moved' = moved /\ rest # <<>> /\ PagedReads!Goto("page")
           /\ plan' = [plan EXCEPT !.out = out, !.slices = rest]
        \/ /\ moved' = moved /\ slice.states = PagedReads!States /\ PagedReads!Goto("page")
           /\ plan' = [plan EXCEPT !.slices = halved]
    BY Zenon DEF PagedReads!ReadSlice, PagedReads!Read
  <2> HIDE DEF slice, rest, found, out, halved
  <2>2. PagedReads!Refused => pc' = "failed" /\ plan' = plan
    BY DEF PagedReads!Refused, PagedReads!Fail, PagedReads!Goto
  <2> QED BY <2>1, <2>2 DEF PagedReads!Goto
<1>3. /\ Reading("rules") /\ PagedReads!First = plan.first
      /\ Stayed \subseteq stack.docs /\ stack.docs \subseteq PagedReads!Docs
      /\ plan.out \in Seq(PagedReads!Docs)
      /\ plan.slices \in Seq(PagedReads!Slices) /\ plan.slices # <<>>
      /\ \A d \in Untouched :
           /\ Once(plan.slices, plan.out, d)
           /\ d \in plan.first => Found(plan.slices, plan.out, d)
  BY <1>1, ReadFacts DEF WholeInv, RulesAims, Reading, StayedIsThere, PagedReads!First
<1>4. /\ Untouched \subseteq PagedReads!Docs
      /\ \A d \in Untouched : d \in plan.first => d \in stack.docs
  BY <1>3 DEF Untouched, Stayed
<1>5. /\ found \in SUBSET PagedReads!Docs
      /\ \A d \in PagedReads!Docs : d \in found <=> d \in stack.docs /\ Asks(slice, d)
  BY MatchingFacts
<1>6. /\ out \in Seq(PagedReads!Docs) /\ rest \in Seq(PagedReads!Slices)
      /\ \A d \in Untouched :
           Once(rest, out, d) /\ (d \in plan.first => Found(rest, out, d))
  <2> HIDE DEF found
  <2>1. /\ out \in Seq(PagedReads!Docs) /\ rest \in Seq(PagedReads!Slices)
        /\ \A d \in PagedReads!Docs :
             (d \in found => Asks(slice, d)) /\ Once(plan.slices, plan.out, d) =>
               /\ Once(rest, out, d)
               /\ (Asks(slice, d) => d \in found) /\ Found(plan.slices, plan.out, d) =>
                    Found(rest, out, d)
    BY <1>3, <1>5, SliceRead
  <2> HIDE DEF slice, rest, out
  <2> QED BY <1>3, <1>4, <1>5, <2>1
<1>7. slice.states = PagedReads!States =>
        /\ halved \in Seq(PagedReads!Slices) /\ halved # <<>>
        /\ \A d \in Untouched :
             Once(halved, plan.out, d) /\ (d \in plan.first => Found(halved, plan.out, d))
  <2> SUFFICES ASSUME slice.states = PagedReads!States
               PROVE  /\ halved \in Seq(PagedReads!Slices) /\ halved # <<>>
                      /\ \A d \in Untouched :
                           /\ Once(halved, plan.out, d)
                           /\ d \in plan.first => Found(halved, plan.out, d)
    OBVIOUS
  <2>1. /\ halved \in Seq(PagedReads!Slices) /\ halved # <<>>
        /\ \A d \in PagedReads!Docs :
             /\ Once(plan.slices, plan.out, d) => Once(halved, plan.out, d)
             /\ Found(plan.slices, plan.out, d) => Found(halved, plan.out, d)
    BY <1>3, SliceHalved
  <2> HIDE DEF slice, rest, found, out, halved
  <2> QED BY <1>3, <1>4, <2>1
<1> HIDE DEF slice, rest, found, out, halved
<1>8. CASE pc' = "failed" /\ plan' = plan
  BY <1>1, <1>8, ReadFails
<1>9. ASSUME PageRead, RulesAims' PROVE WholeInv'
  <2>1. AlertsAims' /\ SearchAims' /\ CheckedAims'
    BY <1>1, <1>9 DEF AlertsAims, SearchAims, CheckedAims, Reading
  <2> QED BY <1>9, <2>1, PageReadKeeps DEF WholeInv
<1>10. CASE moved' = moved /\ rest = <<>> /\ PagedReads!Result(out)
  <2>1. /\ pc' = "done" /\ plan'.out = out /\ plan'.first = PagedReads!First
        /\ DOMAIN plan' = DOMAIN plan /\ plan'.page = plan.page /\ plan'.slices = plan.slices
    BY <1>10, ReadFacts DEF PagedReads!Result, PagedReads!Goto
  <2>2. PageRead
    BY <1>1, <1>3, <1>6, <1>10, <2>1, ReadFacts DEF PageRead
  <2>3. RulesAims'
    BY <1>1, <1>3, <1>6, <1>10, <2>1, RulesGoOn
  <2> QED BY <1>9, <2>2, <2>3
<1>11. CASE /\ moved' = moved /\ rest # <<>> /\ pc' = "page"
            /\ plan' = [plan EXCEPT !.out = out, !.slices = rest]
  <2>1. /\ plan'.out = out /\ plan'.first = plan.first /\ plan'.slices = rest
        /\ DOMAIN plan' = DOMAIN plan /\ plan'.page = plan.page
    BY <1>11, ReadFacts
  <2>2. PageRead
    BY <1>1, <1>3, <1>6, <1>11, <2>1, ReadFacts DEF PageRead
  <2>3. RulesAims'
    BY <1>1, <1>3, <1>6, <1>11, <2>1, RulesGoOn
  <2> QED BY <1>9, <2>2, <2>3
<1>12. CASE /\ moved' = moved /\ slice.states = PagedReads!States /\ pc' = "page"
            /\ plan' = [plan EXCEPT !.slices = halved]
  <2>1. /\ plan'.out = plan.out /\ plan'.first = plan.first /\ plan'.slices = halved
        /\ DOMAIN plan' = DOMAIN plan /\ plan'.page = plan.page
    BY <1>12, ReadFacts
  <2>2. PageRead
    BY <1>1, <1>3, <1>7, <1>12, <2>1, ReadFacts DEF PageRead
  <2>3. RulesAims'
    BY <1>1, <1>3, <1>7, <1>12, <2>1, RulesGoOn
  <2> QED BY <1>9, <2>2, <2>3
<1> QED BY <1>2, <1>8, <1>10, <1>11, <1>12

\* An async query.
LEMMA StartQueryKeeps ==
    ASSUME IInv, WholeInv, cmd.family = "reads", PagedReads!StartQuery
    PROVE  WholeInv'
<1>1. pc = "start" /\ cmd.reader = "esql" /\ cmd' = cmd
  BY DEF PagedReads!StartQuery
<1>2. \/ pc' \in {"poll", "close", "done"} /\ plan' = plan
      \/ pc' = "failed" /\ plan' = [plan EXCEPT !.lost = TRUE]
  BY DEF PagedReads!StartQuery, PagedReads!Opens, PagedReads!Goto, PagedReads!Fail
<1>3. CASE pc' = "failed" /\ plan' = [plan EXCEPT !.lost = TRUE]
  BY <1>1, <1>3, ReadFails
<1>4. CASE pc' \in {"poll", "close", "done"} /\ plan' = plan
  <2>1. SearchAims'
    BY <1>1 DEF SearchAims, Reading
  <2> QED BY <1>1, <1>4, <2>1, ReadFacts, SearchGoesOn
<1> QED BY <1>2, <1>3, <1>4

\* The query is asked for again, up to its bound.
LEMMA PollKeeps ==
    ASSUME IInv, WholeInv, cmd.family = "reads", PagedReads!Poll
    PROVE  WholeInv'
<1>1. pc = "poll" /\ cmd' = cmd /\ cmd.reader = "esql"
  BY ReadFacts DEF PagedReads!Poll, PagedReads!Kept
<1>2. /\ pc' \in {"poll", "close"}
      /\ \/ plan' = plan /\ pc' = "close"
         \/ plan' = [plan EXCEPT !.polls = @ + 1,
                                 !.failed = plan.polls + 1 = PagedReads!MaxPolls]
         \/ plan' = [plan EXCEPT !.failed = TRUE]
  BY DEF PagedReads!Poll, PagedReads!Read, PagedReads!Goto
<1>3. /\ DOMAIN plan' = DOMAIN plan /\ plan'.out = plan.out /\ plan'.first = plan.first
      /\ plan'.page = plan.page /\ plan'.slices = plan.slices
  BY <1>2, ReadFacts
<1>4. SearchAims'
  BY <1>1 DEF SearchAims, Reading
<1> QED BY <1>1, <1>2, <1>3, <1>4, ReadFacts, SearchGoesOn

\* What others change is no longer what has stayed, and it shows in the total.
LEMMA OthersEditKeeps ==
    ASSUME IInv, WholeInv, cmd.family = "reads", PagedReads!OthersEdit
    PROVE  WholeInv'
<1>1. PICK d \in PagedReads!Docs :
         /\ pc \notin {"done", "failed"} /\ edits > 0 /\ edits' = edits - 1
         /\ UNCHANGED <<cmd, pc, todo, plan, writes, rows, faults>>
         /\ \/ /\ d \notin stack.docs /\ moved' = moved \cup {d}
               /\ \/ stack' = [stack EXCEPT !.docs = @ \cup {d}, !.on = @ \cup {}]
                  \/ stack' = [stack EXCEPT !.docs = @ \cup {d}, !.on = @ \cup {d}]
            \/ /\ d \in stack.docs /\ moved' = moved \cup {d}
               /\ stack' = [stack EXCEPT !.docs = @ \ {d}, !.on = @ \ {d}]
            \/ /\ cmd.reader = "rules" /\ d \in stack.docs /\ moved' = moved
               /\ stack' = [stack EXCEPT !.on = IF d \in @ THEN @ \ {d} ELSE @ \cup {d},
                                         !.flipped = @ \cup {d}]
  <2>1. PICK d \in PagedReads!Docs :
           PagedReads!OthersCreate(d) \/ PagedReads!OthersDelete(d) \/ PagedReads!OthersSwitch(d)
    BY DEF PagedReads!OthersEdit
  <2>2. moved \cup {} = moved
    OBVIOUS
  <2> QED BY <2>1, <2>2 DEF PagedReads!OthersCreate, PagedReads!OthersDelete,
          PagedReads!OthersSwitch, PagedReads!Edit, PagedReads!Ended
<1>2. stack \in PagedReads!StackType
  BY DEF IInv, TypeOK, StackType
<1>3. /\ \/ d \notin stack.docs /\ stack'.docs = stack.docs \cup {d} /\ moved' = moved \cup {d}
         \/ d \in stack.docs /\ stack'.docs = stack.docs \ {d} /\ moved' = moved \cup {d}
         \/ cmd.reader = "rules" /\ stack'.docs = stack.docs /\ moved' = moved
      /\ \/ moved' = moved \cup {d} /\ stack'.flipped = stack.flipped
         \/ moved' = moved /\ stack'.flipped = stack.flipped \cup {d}
      /\ stack'.on \in {stack.on, stack.on \cup {d}, stack.on \ {d}}
  <2>1. CASE /\ d \notin stack.docs /\ moved' = moved \cup {d}
             /\ \/ stack' = [stack EXCEPT !.docs = @ \cup {d}, !.on = @ \cup {}]
                \/ stack' = [stack EXCEPT !.docs = @ \cup {d}, !.on = @ \cup {d}]
    <3>1. stack.on \cup {} = stack.on
      OBVIOUS
    <3>2. /\ stack'.docs = stack.docs \cup {d} /\ stack'.flipped = stack.flipped
          /\ stack'.on = stack.on \cup {} \/ stack'.on = stack.on \cup {d}
      BY <1>2, <2>1 DEF PagedReads!StackType
    <3> QED BY <2>1, <3>1, <3>2
  <2>2. CASE /\ d \in stack.docs /\ moved' = moved \cup {d}
             /\ stack' = [stack EXCEPT !.docs = @ \ {d}, !.on = @ \ {d}]
    BY <1>2, <2>2 DEF PagedReads!StackType
  <2>3. CASE /\ cmd.reader = "rules" /\ d \in stack.docs /\ moved' = moved
             /\ stack' = [stack EXCEPT !.on = IF d \in @ THEN @ \ {d} ELSE @ \cup {d},
                                       !.flipped = @ \cup {d}]
    BY <1>2, <2>3 DEF PagedReads!StackType
  <2> QED BY <1>1, <2>1, <2>2, <2>3
<1>4. Stayed' \subseteq Stayed /\ (moved' = moved \cup {d} => Stayed' = Stayed \ {d})
        /\ Untouched' = Untouched \ {d} /\ (moved' = moved => Stayed' = Stayed)
  BY <1>1, <1>3 DEF Stayed, Untouched
<1>5. ReadsOK'
  BY <1>1 DEF WholeInv, ReadsOK
<1>6. StayedIsThere'
  BY <1>1, <1>3, <1>4 DEF WholeInv, StayedIsThere
<1>7. AlertsAims'
  BY <1>1, <1>4 DEF WholeInv, AlertsAims, Reading, UpTo
<1>8. SearchAims'
  BY <1>1 DEF WholeInv, SearchAims, Reading
<1>9. RulesAims'
  <2>1. \A e \in Untouched' : e \in Untouched /\ (e \in stack'.on <=> e \in stack.on)
    BY <1>3, <1>4
  <2> QED BY <1>1, <2>1
       DEF WholeInv, RulesAims, Reading, Once, Found, Asks, PagedReads!State
<1>10. CheckedAims'
  <2> SUFFICES ASSUME Reading("checked"), pc = "page", edits' >= MaxEdits - 1
               PROVE  /\ plan.total = Cardinality(plan.first)
                      /\ (plan.page - 1) * PagedReads!PageSize < plan.total
                      /\ plan.out = SubSeq(Sorted(plan.first), 1,
                                           (plan.page - 1) * PagedReads!PageSize)
                      /\ edits' # MaxEdits /\ Cardinality(stack'.docs) # plan.total
    BY <1>1 DEF CheckedAims, Reading
  <2>0. cmd.reader = "checked"
    BY DEF Reading
  <2>1. edits = MaxEdits /\ edits' # MaxEdits /\ edits >= MaxEdits - 1
    BY <1>1, ReadFacts
  <2>2. /\ plan.total = Cardinality(plan.first)
        /\ (plan.page - 1) * PagedReads!PageSize < plan.total
        /\ plan.out = SubSeq(Sorted(plan.first), 1, (plan.page - 1) * PagedReads!PageSize)
        /\ stack.docs = plan.first
    BY <2>1 DEF WholeInv, CheckedAims
  <2>3. IsFiniteSet(stack.docs) /\ Cardinality(stack.docs) \in Nat
    BY ReadFacts, DocsFacts
  <2>4. Cardinality(stack'.docs) # Cardinality(stack.docs)
    <3> DEFINE D == stack.docs
    <3>1. IsFiniteSet(D) /\ Cardinality(D) \in Nat
      BY <2>3
    <3> HIDE DEF D
    <3>2. d \notin D => Cardinality(D \cup {d}) = Cardinality(D) + 1
      BY <3>1, FS_AddElement
    <3>3. d \in D => Cardinality(D \ {d}) = Cardinality(D) - 1
      BY <3>1, FS_RemoveElement
    <3>4. \/ d \notin D /\ stack'.docs = D \cup {d}
          \/ d \in D /\ stack'.docs = D \ {d}
      BY <1>3, <2>0 DEF D
    <3>5. CASE d \notin D /\ stack'.docs = D \cup {d}
      <4>1. Cardinality(stack'.docs) = Cardinality(D) + 1
        BY <3>2, <3>5
      <4> QED BY <3>1, <4>1 DEF D
    <3>6. CASE d \in D /\ stack'.docs = D \ {d}
      <4>1. Cardinality(stack'.docs) = Cardinality(D) - 1
        BY <3>3, <3>6
      <4> QED BY <3>1, <4>1 DEF D
    <3> QED BY <3>4, <3>5, <3>6
  <2> QED BY <2>1, <2>2, <2>4
<1> QED BY <1>5, <1>6, <1>7, <1>8, <1>9, <1>10 DEF WholeInv

\* Every step of a read.
LEMMA PagedReadsKeepWhole ==
    ASSUME IInv, WholeInv, cmd.family = "reads", PagedReads!Next
    PROVE  WholeInv'
BY PageExceptionsKeeps, PageCheckedKeeps, PageUntilShortKeeps, OpenPitKeeps, PagePitKeeps,
   CloseKeeps, ReadRulesKeeps, ReadSliceKeeps, StartQueryKeeps, PollKeeps, OthersEditKeeps
   DEF PagedReads!Next

\* The other commands have nothing to read page by page.
LEMMA NoReadKeepsWhole ==
    ASSUME cmd.family # "reads"
    PROVE  WholeInv
BY DEF WholeInv, ReadsOK, StayedIsThere, AlertsAims, SearchAims, RulesAims, CheckedAims, Reading

\* Every step of every command.
LEMMA NextKeepsWhole == IInv /\ WholeInv /\ Next => WholeInv'
<1> SUFFICES ASSUME IInv, WholeInv, Next PROVE WholeInv'
    OBVIOUS
<1>1. CASE cmd.family = "reads"
  <2>1. PagedReads!Next
    BY <1>1 DEF Next
  <2> QED BY <1>1, <2>1, PagedReadsKeepWhole
<1>2. CASE cmd.family # "reads"
  <2>1. cmd' = cmd
    BY NextKeeps DEF LoopStep
  <2> QED BY <1>2, <2>1
       DEF WholeInv, ReadsOK, StayedIsThere, AlertsAims, SearchAims, RulesAims, CheckedAims,
           Reading
<1> QED BY <1>1, <1>2

\* A step that changes nothing.
LEMMA StutterKeepsWhole == WholeInv /\ UNCHANGED vars => WholeInv'
<1> SUFFICES ASSUME WholeInv, UNCHANGED vars PROVE WholeInv'
    OBVIOUS
<1>1. UNCHANGED <<cmd, pc, plan, stack, moved, edits>>
  BY DEF vars
<1>2. Stayed' = Stayed /\ Untouched' = Untouched
  BY <1>1 DEF Stayed, Untouched
<1>3. ReadsOK' /\ StayedIsThere'
  BY <1>1, <1>2 DEF WholeInv, ReadsOK, StayedIsThere
<1>4. AlertsAims' /\ SearchAims' /\ RulesAims' /\ CheckedAims'
  BY <1>1, <1>2 DEF WholeInv, AlertsAims, SearchAims, RulesAims, CheckedAims, Reading,
     Once, Found, Asks, PagedReads!State
<1> QED BY <1>3, <1>4 DEF WholeInv

\* Nothing is read yet.
LEMMA InitIsWhole == Init => WholeInv
<1> SUFFICES ASSUME Init, cmd.family = "reads" PROVE WholeInv
  BY NoReadKeepsWhole
<1>1. PagedReads!Init
  <2>1. ~DataViews!Init
    BY DEF DataViews!Init, DataViews!Imports, DataViews!Deletes, DataViews!Swaps,
       DataViews!Defaults
  <2>2. ~Dashboards!Init
    BY DEF Dashboards!Init, Dashboards!Imports, Dashboards!Deletes, Dashboards!Bundles
  <2>3. ~AgentPolicies!Init
    BY DEF AgentPolicies!Init, AgentPolicies!Imports, AgentPolicies!Deletes
  <2>4. ~Triage!Init
    BY DEF Triage!Init, Triage!CaseEdits, Triage!Creates, Triage!Attaches,
       Triage!AlertOps, Triage!Queries
  <2>5. ~Detection!Init
    <3>1. ASSUME Detection!Init
          PROVE  \/ cmd \in Detection!Selected
                 \/ cmd \in Detection!Prebuilt
                 \/ cmd \in Detection!RuleFiles
                 \/ cmd \in Detection!ListFiles
                 \/ cmd \in Detection!ListDeletes
      BY <3>1 DEF Detection!Init
    <3>2. cmd \notin Detection!Selected
      BY DEF Detection!Selected
    <3>3. cmd \notin Detection!Prebuilt
      BY DEF Detection!Prebuilt
    <3>4. cmd \notin Detection!RuleFiles
      BY DEF Detection!RuleFiles
    <3>5. cmd \notin Detection!ListFiles
      BY DEF Detection!ListFiles
    <3>6. cmd \notin Detection!ListDeletes
      BY DEF Detection!ListDeletes
    <3> QED BY <3>1, <3>2, <3>3, <3>4, <3>5, <3>6
  <2> QED BY <2>1, <2>2, <2>3, <2>4, <2>5 DEF Init
<1>2. /\ pc = "start" /\ cmd.limit \in Nat
      /\ plan = [out |-> <<>>, page |-> 1, total |-> 0, first |-> {}, polls |-> 0,
                 slices |-> <<>>, cut |-> FALSE, failed |-> FALSE, lost |-> FALSE]
  BY <1>1 DEF PagedReads!Init, PagedReads!Begins, PagedReads!Reads
<1>3. ReadsOK
  <2>1. /\ plan.out = <<>> /\ plan.page = 1 /\ plan.first = {} /\ plan.slices = <<>>
        /\ DOMAIN plan = {"out", "page", "total", "first", "polls", "slices", "cut", "failed",
                          "lost"}
    BY <1>2
  <2>2. plan.out \in Seq(PagedReads!Docs) /\ plan.slices \in Seq(PagedReads!Slices)
    BY <2>1
  <2> QED BY <1>2, <2>1, <2>2 DEF ReadsOK
<1>4. InOrder(plan.out)
  <2>1. plan.out = <<>>
    BY <1>2
  <2> QED BY <2>1 DEF InOrder
<1>5. StayedIsThere /\ AlertsAims /\ SearchAims /\ RulesAims /\ CheckedAims
  BY <1>2, <1>4 DEF StayedIsThere, AlertsAims, SearchAims, RulesAims, CheckedAims
<1> QED BY <1>3, <1>5 DEF WholeInv

\* What a read has seen, page by page: behind the last document read nothing is passed
\* over that was there throughout, and what the parts of a read of rules have still to
\* bring and what they have brought is each rule that nobody touched, once.
THEOREM CommandsWholeInvariant == Spec => []WholeInv
<1>1. IInv /\ WholeInv /\ [Next]_vars => WholeInv'
  BY NextKeepsWhole, StutterKeepsWhole
<1> QED BY InitIsWhole, <1>1, CommandsInvariant, PTL DEF Spec

\* A read that succeeds has every document nobody touched, and none of those twice:
\* searches and alerts while their hits carry sort values, rules whatever others create,
\* delete and switch, the checked lists for any one change.
THEOREM CommandsReadsAreWhole == Spec => []ReadsAreWhole
<1>1. IInv /\ WholeInv => ReadsAreWhole
  <2> SUFFICES ASSUME IInv, WholeInv, cmd.family = "reads", pc = "done"
               PROVE  /\ cmd.reader \in {"search", "alerts", "checked"} => IsInjective(plan.out)
                      /\ cmd.reader = "rules" =>
                           \A i, j \in DOMAIN plan.out :
                             plan.out[i] = plan.out[j] /\ plan.out[i] \in Untouched => i = j
                      /\ \/ cmd.reader \in {"search", "alerts"} /\ cmd.limit = 0 /\ ~plan.cut
                         \/ cmd.reader = "checked" /\ edits >= MaxEdits - 1
                         \/ cmd.reader = "rules"
                         => plan.first \cap Untouched \subseteq Range(plan.out)
      BY DEF ReadsAreWhole
  <2>1. PagedReads!Docs \in SUBSET Nat
    BY DEF PagedReads!Docs
  <2>2. plan.first \cap Untouched \subseteq Stayed
    BY DEF Stayed, Untouched
  <2>3. CASE cmd.reader \in {"search", "alerts"}
    <3>1. plan.out \in Seq(PagedReads!Docs) /\ InOrder(plan.out)
      BY <2>3, ReadFacts DEF WholeInv, AlertsAims, SearchAims, Reading
    <3>2. IsInjective(plan.out)
      BY <2>1, <3>1, OrderFacts
    <3>3. cmd.limit = 0 /\ ~plan.cut => Stayed \subseteq Range(plan.out)
      BY <2>3 DEF WholeInv, AlertsAims, SearchAims, Reading, Stayed
    <3> QED BY <2>2, <2>3, <3>2, <3>3
  <2>4. CASE cmd.reader = "rules"
    <3>1. DOMAIN plan.out = 1..Len(plan.out)
      BY ReadFacts
    <3>2. \A d \in Untouched :
            /\ \A i, j \in 1..Len(plan.out) : plan.out[i] = d /\ plan.out[j] = d => i = j
            /\ d \in plan.first => d \in Range(plan.out)
      BY <2>4 DEF WholeInv, RulesAims, Reading, Once, Found
    <3> QED BY <2>4, <3>1, <3>2
  <2>5. CASE cmd.reader = "checked"
    BY <2>2, <2>5 DEF WholeInv, CheckedAims, Reading, Stayed
  <2> QED BY <2>3, <2>4, <2>5
<1> QED BY CommandsInvariant, CommandsWholeInvariant, <1>1, PTL
=============================================================================
