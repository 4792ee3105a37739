---------------------------- MODULE AgentPolicies ----------------------------
(* `elasticctl agent-policies`: import and delete of Fleet agent policies.    *)
(* Names are unique on the stack, and a policy that turns monitoring on may   *)
(* make Fleet install the monitoring package.                                 *)
EXTENDS GuardedCommand

Absent   == [spec |-> 0, busy |-> FALSE]
Desired  == 2
Policies == [spec : {1, Desired}, busy : BOOLEAN]   \* busy: agents or integrations
Package  == 0       \* the monitoring package, as a fact

StackType ==
    [policy : [Ids -> Policies \cup {Absent}], taken : SUBSET Ids, package : BOOLEAN]

Modes   == {"plain", "overwrite", "skip_existing"}
Imports == [family : {"agent_policies"}, op : {"import"}, targets : (SUBSET Ids) \ {{}},
            mode : Modes, monitoring : BOOLEAN, yes : BOOLEAN]
Deletes == [family : {"agent_policies"}, op : {"delete"}, targets : (SUBSET Ids) \ {{}},
            yes : BOOLEAN]

Idle == [before |-> [o \in {} |-> Absent], package |-> FALSE, applied |-> FALSE, bad |-> FALSE]

\* `taken`: desired names that a policy outside the file has.
Init ==
    /\ Begins
    /\ cmd \in Imports \cup Deletes
    /\ plan = Idle
    /\ stack \in [policy : [Ids -> {Absent} \cup [spec : {1, Desired}, busy : {FALSE}]
                                     \cup [spec : {1}, busy : {cmd.op = "delete"}]],
                  taken : {{}, {CHOOSE o \in Ids : TRUE}}, package : BOOLEAN]

-----------------------------------------------------------------------------
(* Import.                                                                   *)

BeginImport ==
    /\ pc = "start" /\ cmd.op = "import"
    /\ pc' = "preflight" /\ todo' = Sorted(cmd.targets)
    /\ UNCHANGED <<cmd, plan, stack, moved, writes, rows, faults, edits>>

Preflight ==
    /\ pc = "preflight" /\ todo # <<>>
    /\ LET o == Head(todo) IN
         Read(/\ plan' = [plan EXCEPT !.before = Noted(@, o, stack.policy[o])]
              /\ todo' = Tail(todo) /\ UNCHANGED <<pc, rows>> /\ Checked({o}),
              Fail /\ UNCHANGED plan)
    /\ UNCHANGED <<cmd, stack, writes, edits>>

Existing == {o \in DOMAIN plan.before : plan.before[o] # Absent}
Skipped  == IF cmd.mode = "skip_existing" THEN Existing ELSE {}
Pending  == cmd.targets \ Skipped

\* One list of every policy shows whether another one has a name of the file,
\* also of a policy that would be skipped.  A difference Fleet cannot express
\* ends the command, too.
PlanNames ==
    /\ pc = "preflight" /\ todo = <<>>
    /\ Read(/\ UNCHANGED moved
            /\ \/ /\ stack.taken \cap cmd.targets = {}
                  /\ cmd.mode = "plain" => Existing = {}
                  /\ Goto("package")
               \/ /\ \/ stack.taken \cap cmd.targets # {}
                     \/ cmd.mode = "plain" /\ Existing # {}
                     \/ cmd.mode = "overwrite" /\ \E o \in Existing : plan.before[o].spec # Desired
                  /\ Fail,
            Fail)
    /\ UNCHANGED <<cmd, plan, stack, writes, edits>>

\* Turning monitoring on where the stack has it off.
CanInstall(o) == cmd.monitoring /\ plan.before[o].spec # Desired

\* The package is read when a policy may make Fleet install it; the preview
\* announces the installation of a missing one.
PlanPackage ==
    /\ pc = "package"
    /\ LET confirmed == [plan EXCEPT !.before = [o \in Pending |-> plan.before[o]]]
           skips     == rows' = {Row(o, "skipped", FALSE) : o \in Skipped}
       IN IF \E o \in Pending : CanInstall(o)
          THEN Read(/\ Guard([confirmed EXCEPT !.package = stack.package], Sorted(Pending))
                    /\ skips /\ Checked({Package}),
                    Fail /\ UNCHANGED plan)
          ELSE Guard(confirmed, Sorted(Pending)) /\ skips /\ UNCHANGED <<moved, faults>>
    /\ UNCHANGED <<cmd, stack, writes, edits>>

\* Mutant: a policy that lost or got agents since the preview still passes.
CheckPolicySpecOnly ==
    /\ pc = "check"
    /\ LET o == Head(todo) IN
         Read(/\ Checked({o})
              /\ IF stack.policy[o].spec # plan.before[o].spec THEN Report(o, "failed", FALSE)
                 ELSE IF cmd.op = "delete" THEN Goto("delete")
                 ELSE IF CanInstall(o) THEN Goto("check_package")
                 ELSE IF plan.before[o] = Absent THEN Goto("check_name")
                 ELSE IF plan.before[o].spec = Desired THEN Report(o, "unchanged", FALSE)
                 ELSE Goto("update"),
              Report(o, "failed", FALSE))
    /\ UNCHANGED <<cmd, plan, stack, writes, edits>>

\* A policy that appeared, disappeared or changed, its agents and integrations
\* included, is not touched.
CheckPolicy ==
    /\ pc = "check"
    /\ LET o == Head(todo) IN
         Read(/\ Checked({o})
              /\ IF stack.policy[o] # plan.before[o] THEN Report(o, "failed", FALSE)
                 ELSE IF cmd.op = "delete" THEN Goto("delete")
                 ELSE IF CanInstall(o) THEN Goto("check_package")
                 ELSE IF plan.before[o] = Absent THEN Goto("check_name")
                 ELSE IF plan.before[o].spec = Desired THEN Report(o, "unchanged", FALSE)
                 ELSE Goto("update"),
              Report(o, "failed", FALSE))
    /\ UNCHANGED <<cmd, plan, stack, writes, edits>>

CheckPackage ==
    /\ pc = "check_package"
    /\ LET o == Head(todo) IN
         Read(/\ Checked({Package})
              /\ IF stack.package # plan.package THEN Report(o, "failed", FALSE)
                 ELSE IF plan.before[o] = Absent THEN Goto("check_name")
                 ELSE Goto("update"),
              Report(o, "failed", FALSE))
    /\ UNCHANGED <<cmd, plan, stack, writes, edits>>

\* A name somebody claimed since the preview fails the row before the create.
CheckName ==
    /\ pc = "check_name"
    /\ LET o == Head(todo) IN
         Read(/\ UNCHANGED moved
              /\ IF o \in stack.taken THEN Report(o, "failed", FALSE) ELSE Goto("create"),
              Report(o, "failed", FALSE))
    /\ UNCHANGED <<cmd, plan, stack, writes, edits>>

\* What the write does to the package, and what the preview said of both.
Installed(o)  == IF CanInstall(o) THEN {stack.package, TRUE} ELSE {stack.package}
Shown(o)      == <<plan.before[o], CanInstall(o) => plan.package = stack.package>>
Written(o, p) == [stack EXCEPT !.policy[o].spec = Desired, !.package = p]

\* The route has answered; the policy is read back only when it said yes.
Routed(o, applied) ==
    /\ plan' = [plan EXCEPT !.applied = applied, !.bad = ~applied]
    /\ IF applied THEN Goto("verify")
       ELSE IF CanInstall(o) THEN Goto("observe")
       ELSE Report(o, "failed", FALSE)

\* A request of policy o, which Fleet refuses in the states of `refused`.
Send(refused) ==
    LET o == Head(todo) IN
      IF refused THEN Routed(o, FALSE) /\ UNCHANGED <<stack, writes, faults>>
      ELSE \E p \in Installed(o) :
             Mutate(Written(o, p), Write(o, Shown(o), <<stack.policy[o], TRUE>>, {o, Package}),
                    Routed(o, TRUE), Routed(o, FALSE), FALSE)

\* A create or an update that was sent again keeps the plan as it is.
Resend ==
    LET o == Head(todo) IN
      /\ faults > 0 /\ faults' = faults - 1
      /\ \E p \in Installed(o) : stack' = Written(o, p)
      /\ writes' = writes \cup
           {Unanswered(Write(o, Shown(o), <<stack.policy[o], TRUE>>, {o, Package}))}
      /\ UNCHANGED <<plan, runVars>>

Create ==
    /\ pc = "create"
    /\ LET refused == stack.policy[Head(todo)] # Absent \/ Head(todo) \in stack.taken IN
         \/ Send(refused)
         \/ ~refused /\ Resend
    /\ UNCHANGED <<cmd, moved, edits>>

Update ==
    /\ pc = "update"
    /\ LET refused == stack.policy[Head(todo)] = Absent \/ Head(todo) \in stack.taken IN
         \/ Send(refused)
         \/ ~refused /\ Resend
    /\ UNCHANGED <<cmd, moved, edits>>

\* What Fleet stored is read back.
Verify ==
    /\ pc = "verify"
    /\ LET o    == Head(todo)
           next == IF CanInstall(o) THEN "observe" ELSE "report"
       IN Read(/\ plan' = [plan EXCEPT !.bad = stack.policy[o].spec # Desired]
               /\ Goto(next) /\ UNCHANGED moved,
               plan' = [plan EXCEPT !.bad = TRUE] /\ Goto(next))
    /\ UNCHANGED <<cmd, stack, writes, edits>>

RowResult(o) == IF plan.before[o] = Absent THEN "created" ELSE "replaced"
Outcome(o, bad) == Report(o, IF bad THEN "failed" ELSE RowResult(o), plan.applied)

\* The package is read again, also after a failed route, and an installation
\* becomes what the next policy expects.
Observe ==
    /\ pc = "observe"
    /\ LET o == Head(todo) IN
         Read(/\ plan' = [plan EXCEPT !.package = stack.package]
              /\ Outcome(o, plan.bad) /\ Checked({Package}),
              Outcome(o, TRUE) /\ UNCHANGED plan)
    /\ UNCHANGED <<cmd, stack, writes, edits>>

ReportRow ==
    /\ pc = "report" /\ Outcome(Head(todo), plan.bad)
    /\ UNCHANGED <<cmd, plan, stack, moved, writes, faults, edits>>

-----------------------------------------------------------------------------
(* Delete.                                                                   *)

BeginDelete ==
    /\ pc = "start" /\ cmd.op = "delete"
    /\ pc' = "resolve" /\ todo' = Sorted(cmd.targets)
    /\ UNCHANGED <<cmd, plan, stack, moved, writes, rows, faults, edits>>

\* Each selector is resolved by a list of its own.
Resolve ==
    /\ pc = "resolve" /\ todo # <<>>
    /\ LET o == Head(todo) IN
         Read(IF stack.policy[o] = Absent THEN Fail /\ UNCHANGED <<plan, moved>>
              ELSE /\ plan' = [plan EXCEPT !.before = Noted(@, o, stack.policy[o])]
                   /\ todo' = Tail(todo) /\ UNCHANGED <<pc, rows>> /\ Checked({o}),
              Fail /\ UNCHANGED plan)
    /\ UNCHANGED <<cmd, stack, writes, edits>>

\* A policy with agents or integrations is never deleted.
PlanDelete ==
    /\ pc = "resolve" /\ todo = <<>>
    /\ IF \E o \in cmd.targets : plan.before[o].busy THEN Fail /\ UNCHANGED plan
       ELSE Guard(plan, Sorted(cmd.targets)) /\ UNCHANGED rows
    /\ UNCHANGED <<cmd, stack, moved, writes, faults, edits>>

\* Without force, Fleet refuses to delete a policy with agents.
Delete ==
    /\ pc = "delete"
    /\ LET o == Head(todo) IN
         IF stack.policy[o] = Absent \/ stack.policy[o].busy
         THEN Report(o, "failed", FALSE) /\ UNCHANGED <<stack, writes, faults>>
         ELSE Mutate([stack EXCEPT !.policy[o] = Absent],
                     Write(o, plan.before[o], stack.policy[o], {o}),
                     Report(o, "deleted", TRUE), Report(o, "failed", FALSE), TRUE)
    /\ UNCHANGED <<cmd, plan, moved, edits>>

-----------------------------------------------------------------------------
\* What a success says of policy o.
Goal(o) == stack.policy[o].spec = (IF cmd.op = "delete" THEN 0 ELSE Desired)

\* Other clients edit a policy, assign agents, take a name or install or remove
\* the package.
OthersEdit ==
    \/ \E o \in Ids, v \in {Absent} \cup [spec : {1}, busy : BOOLEAN] :
         Edit([stack EXCEPT !.policy[o] = v], {o})
    \/ \E o \in Ids : cmd.op = "import" /\ Edit([stack EXCEPT !.taken = @ \cup {o}], {})
    \/ cmd.op = "import" /\ Edit([stack EXCEPT !.package = ~@], {Package})

Next ==
    \/ BeginImport \/ Preflight \/ PlanNames \/ PlanPackage \/ CheckPolicy \/ CheckPackage
    \/ CheckName \/ Create \/ Update \/ Verify \/ Observe \/ ReportRow
    \/ BeginDelete \/ Resolve \/ PlanDelete \/ Delete
    \/ OthersEdit
=============================================================================
