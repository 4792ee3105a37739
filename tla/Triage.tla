------------------------------- MODULE Triage -------------------------------
(* `elasticctl cases` and `elasticctl alerts`.  Cases are changed by version,  *)
(* alerts by one update-by-query whose counters the report repeats; comments,  *)
(* attachments and new cases are posts, which the stack does not deduplicate.  *)
EXTENDS GuardedCommand

\* Status 0 is absence, 2 the status the command asks for.
Statuses == 0..2
Absent   == [status |-> 0, version |-> 0]
Target   == 2

StackType ==
    [case : [Ids -> [status : Statuses, version : Nat]], alert : [Ids -> Statuses],
     posts : [Ids -> 0..(1 + MaxFaults)]]

CaseEdits == [family : {"triage"}, op : {"case_status", "case_delete"},
              targets : (SUBSET Ids) \ {{}}, yes : {TRUE}]
Creates   == [family : {"triage"}, op : {"create", "comment"}, targets : {{o} : o \in Ids},
              yes : BOOLEAN]
Attaches  == [family : {"triage"}, op : {"attach"}, case : Ids, targets : (SUBSET Ids) \ {{}},
              yes : {TRUE}]
AlertOps  == [family : {"triage"}, op : {"alert_status", "alert_tags", "alert_assign"},
              targets : (SUBSET Ids) \ {{}}, yes : {TRUE}]
Queries   == [family : {"triage"}, op : {"alert_query"}, targets : {Ids}, proceed : BOOLEAN,
              yes : BOOLEAN]

Init ==
    /\ Begins
    /\ plan = [before |-> [o \in {} |-> Absent], lost |-> FALSE]
    /\ \/ /\ cmd \in CaseEdits \cup Creates \cup Attaches
          /\ stack \in [case : [Ids -> {Absent} \cup [status : {1, 2}, version : {1}]],
                        alert : {[o \in Ids |-> 1]}, posts : {[o \in Ids |-> 0]}]
       \/ /\ cmd \in AlertOps \cup Queries
          /\ stack \in [case : {[o \in Ids |-> Absent]}, alert : [Ids -> Statuses],
                        posts : {[o \in Ids |-> 0]}]

-----------------------------------------------------------------------------
(* Cases.                                                                    *)

BeginCases ==
    /\ pc = "start" /\ cmd.op \in {"case_status", "case_delete"}
    /\ pc' = "resolve" /\ todo' = Sorted(cmd.targets)
    /\ UNCHANGED <<cmd, plan, stack, moved, writes, rows, faults, edits>>

\* Every id is read before the first missing one is an error.
ResolveCase ==
    /\ pc = "resolve" /\ todo # <<>>
    /\ LET o == Head(todo) IN
         Read(/\ plan' = [plan EXCEPT !.before = Noted(@, o, stack.case[o]),
                                      !.lost = @ \/ stack.case[o] = Absent]
              /\ todo' = Tail(todo) /\ UNCHANGED <<pc, rows>> /\ Checked({o}),
              Fail /\ UNCHANGED plan)
    /\ UNCHANGED <<cmd, stack, writes, edits>>

\* Only cases in another status are updated.
Transitions == {o \in cmd.targets : plan.before[o].status # Target}

PlanCases ==
    /\ pc = "resolve" /\ todo = <<>>
    /\ IF plan.lost THEN Fail /\ UNCHANGED plan
       ELSE /\ Guard(plan, Sorted(IF cmd.op = "case_status" THEN Transitions ELSE cmd.targets))
            /\ UNCHANGED rows
    /\ UNCHANGED <<cmd, stack, moved, writes, faults, edits>>

\* Mutant: the stack is not told the versions of the preview.
PatchBlindly ==
    /\ pc = "check" /\ cmd.op = "case_status"
    /\ LET patched == [stack EXCEPT !.case = [o \in Ids |->
               IF o \in Transitions
               THEN [status |-> Target, version |-> stack.case[o].version + 1] ELSE stack.case[o]]]
           ws == {Write(o, plan.before[o], stack.case[o], {}) : o \in Transitions}
       IN MutateAll(patched, ws, ReportAll({Row(o, "changed", TRUE) : o \in Transitions}), Fail, TRUE)
    /\ UNCHANGED <<cmd, plan, moved, edits>>

\* One PATCH carries the version of each case, and the stack applies all of it
\* or answers that a case has changed; the cases of the answer are compared with
\* those asked for.
Patch ==
    /\ pc = "check" /\ cmd.op = "case_status"
    /\ LET patched == [stack EXCEPT !.case = [o \in Ids |->
               IF o \in Transitions
               THEN [status |-> Target, version |-> stack.case[o].version + 1] ELSE stack.case[o]]]
           ws == {Write(o, plan.before[o], stack.case[o], {}) : o \in Transitions}
       IN IF \E o \in Transitions : stack.case[o].version # plan.before[o].version
          THEN Fail /\ UNCHANGED <<stack, writes, faults>>
          ELSE MutateAll(patched, ws, ReportAll({Row(o, "changed", TRUE) : o \in Transitions}),
                         Fail, TRUE)
    /\ UNCHANGED <<cmd, plan, moved, edits>>

\* One request deletes every case of the preview, whatever it holds now.
DeleteCases ==
    /\ pc = "check" /\ cmd.op = "case_delete"
    /\ IF \E o \in cmd.targets : stack.case[o] = Absent
       THEN Fail /\ UNCHANGED <<stack, writes, faults>>
       ELSE MutateAll([stack EXCEPT !.case = [o \in Ids |->
                          IF o \in cmd.targets THEN Absent ELSE stack.case[o]]],
                      {Write(o, TRUE, TRUE, {}) : o \in cmd.targets},
                      ReportAll({Row(o, "deleted", TRUE) : o \in cmd.targets}), Fail, TRUE)
    /\ UNCHANGED <<cmd, plan, moved, edits>>

\* A new case resolves its assignees, a comment and an attachment the case.
Subject == IF cmd.op = "attach" THEN cmd.case ELSE CHOOSE o \in cmd.targets : TRUE

ResolveSubject ==
    /\ pc = "start" /\ cmd.op \in {"create", "comment", "attach"}
    /\ Read(/\ Checked({Subject})
            /\ IF cmd.op # "create" /\ stack.case[Subject] = Absent THEN Fail /\ UNCHANGED plan
               ELSE IF cmd.op = "attach" THEN Goto("alerts") /\ UNCHANGED plan
               ELSE Guard(plan, Sorted(cmd.targets)) /\ UNCHANGED rows,
            Fail /\ UNCHANGED plan)
    /\ UNCHANGED <<cmd, stack, writes, edits>>

\* One search finds the alerts, and they are grouped by rule: here each target
\* is the group of one rule.
GroupAlerts ==
    /\ pc = "alerts"
    /\ Read(/\ Checked({})
            /\ IF \E o \in cmd.targets : stack.alert[o] = 0 THEN Fail /\ UNCHANGED plan
               ELSE Guard(plan, Sorted(cmd.targets)) /\ UNCHANGED rows,
            Fail /\ UNCHANGED plan)
    /\ UNCHANGED <<cmd, stack, writes, edits>>

\* A post per group; a failed attachment does not discard the others.
Post ==
    /\ pc = "check" /\ cmd.op \in {"create", "comment", "attach"}
    /\ LET o       == Head(todo)
           refused == IF cmd.op = "attach" THEN Report(o, "failed", FALSE) ELSE Fail
       IN IF cmd.op # "create" /\ stack.case[Subject] = Absent
          THEN refused /\ UNCHANGED <<stack, writes, faults>>
          ELSE Mutate([stack EXCEPT !.posts[o] = @ + 1], Write(o, TRUE, TRUE, {}),
                      Report(o, "created", TRUE), refused, TRUE)
    /\ UNCHANGED <<cmd, plan, moved, edits>>

-----------------------------------------------------------------------------
(* Alerts.                                                                   *)

\* User names are resolved to profile ids before the alerts.
ResolveUsers ==
    /\ pc = "start" /\ cmd.op = "alert_assign"
    /\ Read(Goto("alert_ids") /\ UNCHANGED moved, Fail)
    /\ UNCHANGED <<cmd, plan, stack, writes, edits>>

\* One search resolves every id; one that is missing refuses the command.
ResolveAlerts ==
    /\ \/ pc = "start" /\ cmd.op \in {"alert_status", "alert_tags"}
       \/ pc = "alert_ids"
    /\ Read(IF \E o \in cmd.targets : stack.alert[o] = 0 THEN Fail /\ UNCHANGED <<plan, moved>>
            ELSE /\ Guard([before |-> stack.alert, lost |-> FALSE], Sorted(cmd.targets))
                 /\ UNCHANGED rows /\ Checked(cmd.targets),
            Fail /\ UNCHANGED plan)
    /\ UNCHANGED <<cmd, stack, writes, edits>>

\* A query is shown with a count and a sample, which are advisory.
SampleQuery ==
    /\ pc = "start" /\ cmd.op = "alert_query"
    /\ Read(Guard([before |-> stack.alert, lost |-> FALSE], Sorted(Ids)) /\ UNCHANGED rows
              /\ Checked(Ids),
            Fail /\ UNCHANGED plan)
    /\ UNCHANGED <<cmd, stack, writes, edits>>

\* The alerts an update reaches: the named ones that are still there, or what
\* the query matches by now.
Matched == IF cmd.op = "alert_query" THEN {o \in Ids : stack.alert[o] = 1}
           ELSE {o \in cmd.targets : stack.alert[o] # 0}

\* Mutant: a version conflict is no failure in either mode.
ConflictResultLenient(o) == Row(o, "conflict", FALSE)

\* Version conflicts fail the command unless a query runs with `proceed`.
ConflictResult(o) ==
    IF cmd.op = "alert_query" /\ cmd.proceed THEN Row(o, "conflict", FALSE)
    ELSE Row(o, "failed", FALSE)

\* One update-by-query: some alerts conflict with writers of their own.
UpdateAlerts ==
    /\ pc = "check" /\ cmd.op \in {"alert_status", "alert_tags", "alert_assign", "alert_query"}
    /\ \E hit \in SUBSET Matched :
         LET new == [stack EXCEPT !.alert = [o \in Ids |->
                        IF o \in hit THEN Target ELSE stack.alert[o]]]
             ws  == {Write(o, cmd.op = "alert_query" \/ plan.before[o] = stack.alert[o], TRUE, {o})
                        : o \in hit}
         IN MutateAll(new, ws,
                      ReportAll({Row(o, "changed", TRUE) : o \in hit}
                                   \cup {ConflictResult(o) : o \in Matched \ hit}),
                      Fail, TRUE)
    /\ UNCHANGED <<cmd, plan, moved, edits>>

-----------------------------------------------------------------------------
\* What a success says of case, comment, attachment or alert o.
Goal(o) ==
    CASE cmd.op = "case_status" -> stack.case[o].status = Target
      [] cmd.op = "case_delete" -> stack.case[o] = Absent
      [] cmd.op \in {"create", "comment", "attach"} -> stack.posts[o] > 0
      [] cmd.op = "alert_query" -> cmd.proceed \/ stack.alert[o] # 1
      [] OTHER -> stack.alert[o] = Target

\* Other clients edit or delete a case, or change or remove an alert.
OthersEdit ==
    \/ \E o \in Ids, s \in {1, Target} :
         /\ stack.case[o] # Absent
         /\ Edit([stack EXCEPT !.case[o] = [status |-> s, version |-> @.version + 1]], {o})
    \/ \E o \in Ids : Edit([stack EXCEPT !.case[o] = Absent], {o})
    \/ \E o \in Ids, s \in Statuses :
         /\ cmd.op \in {"alert_status", "alert_tags", "alert_assign", "alert_query"}
         /\ Edit([stack EXCEPT !.alert[o] = s], {o})

Next ==
    \/ BeginCases \/ ResolveCase \/ PlanCases \/ Patch \/ DeleteCases
    \/ ResolveSubject \/ GroupAlerts \/ Post
    \/ ResolveUsers \/ ResolveAlerts \/ SampleQuery \/ UpdateAlerts
    \/ OthersEdit
=============================================================================
