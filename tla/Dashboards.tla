----------------------------- MODULE Dashboards -----------------------------
(* `elasticctl dashboards`: import, delete and the import of an opaque bundle *)
(* of saved objects.  A dashboard is replaced whole; what the stack stores    *)
(* may lack a part of what it was sent.                                       *)
EXTENDS GuardedCommand

Absent   == 0
Other    == 1
Desired  == 2
Lossy    == 3       \* what a stack that drops a part keeps of Desired
View     == 0       \* the data view the dashboards refer to, as a fact

StackType == [board : [Ids -> Absent..Lossy], view : BOOLEAN]

Modes   == {"plain", "overwrite", "skip_existing"}
Imports == [family : {"dashboards"}, op : {"import"}, targets : (SUBSET Ids) \ {{}},
            mode : Modes, references : BOOLEAN, yes : BOOLEAN]
Deletes == [family : {"dashboards"}, op : {"delete"}, targets : (SUBSET Ids) \ {{}},
            yes : BOOLEAN]
Bundles == [family : {"dashboards"}, op : {"bundle"}, targets : {Ids},
            overwrite : BOOLEAN, yes : BOOLEAN]

Init ==
    /\ Begins
    /\ cmd \in Imports \cup Deletes \cup Bundles
    /\ plan = [before |-> [o \in {} |-> Absent]]
    /\ stack \in [board : [Ids -> {Absent, Other, Desired}], view : {TRUE}]

-----------------------------------------------------------------------------
(* Import.                                                                   *)

BeginImport ==
    /\ pc = "start" /\ cmd.op = "import"
    /\ pc' = "preflight" /\ todo' = Sorted(cmd.targets)
    /\ UNCHANGED <<cmd, plan, stack, moved, writes, rows, faults, edits>>

Preflight ==
    /\ pc = "preflight" /\ todo # <<>>
    /\ LET o == Head(todo) IN
         Read(/\ plan' = [plan EXCEPT !.before = Noted(@, o, stack.board[o])]
              /\ todo' = Tail(todo) /\ UNCHANGED <<pc, rows>> /\ Checked({o}),
              Fail /\ UNCHANGED plan)
    /\ UNCHANGED <<cmd, stack, writes, edits>>

\* The data views the file refers to must exist.
PreflightViews ==
    /\ pc = "preflight" /\ todo = <<>>
    /\ IF cmd.references
       THEN Read(Goto(IF stack.view THEN "plan" ELSE "failed") /\ Checked({View}), Fail)
       ELSE Goto("plan") /\ UNCHANGED <<moved, faults>>
    /\ UNCHANGED <<cmd, plan, stack, writes, edits>>

Existing == {o \in DOMAIN plan.before : plan.before[o] # Absent}
Skipped  == IF cmd.mode = "skip_existing" THEN Existing ELSE {}

PlanImport ==
    /\ pc = "plan"
    /\ LET specs == cmd.targets \ Skipped IN
         IF cmd.mode = "plain" /\ Existing # {} THEN Fail /\ UNCHANGED plan
         ELSE /\ Guard([before |-> [o \in specs |-> plan.before[o]]], Sorted(specs))
              /\ rows' = {Row(o, "skipped", FALSE) : o \in Skipped}
    /\ UNCHANGED <<cmd, stack, moved, writes, faults, edits>>

\* Mutant: only the existence of the dashboard is compared with the preview.
CheckImportLoosely ==
    /\ pc = "check" /\ cmd.op = "import"
    /\ LET o   == Head(todo)
           now == stack.board[o]
       IN Read(/\ Checked({o})
               /\ IF (now = Absent) # (plan.before[o] = Absent) THEN Report(o, "failed", FALSE)
                  ELSE IF now = Desired THEN Report(o, "unchanged", FALSE)
                  ELSE Goto("put"),
               Report(o, "failed", FALSE))
    /\ UNCHANGED <<cmd, plan, stack, writes, edits>>

CheckImport ==
    /\ pc = "check" /\ cmd.op = "import"
    /\ LET o   == Head(todo)
           now == stack.board[o]
       IN Read(/\ Checked({o})
               /\ IF now # plan.before[o] THEN Report(o, "failed", FALSE)
                  ELSE IF now = Desired THEN Report(o, "unchanged", FALSE)
                  ELSE Goto("put"),
               Report(o, "failed", FALSE))
    /\ UNCHANGED <<cmd, plan, stack, writes, edits>>

\* The PUT creates or replaces; its answer holds what was stored, and when that
\* lacks something the dashboard is read again for the warnings.
Put ==
    /\ pc = "put"
    /\ LET o == Head(todo) IN
         \E stored \in {Desired, Lossy} :
           Mutate([stack EXCEPT !.board[o] = stored],
                  Write(o, plan.before[o], stack.board[o], {o}),
                  IF stored = Lossy THEN Goto("audit")
                  ELSE Report(o, IF plan.before[o] = Absent THEN "created" ELSE "replaced", TRUE),
                  Report(o, "failed", FALSE), TRUE)
    /\ UNCHANGED <<cmd, plan, moved, edits>>

\* The loss is reported in any case, and a failed audit beside it.
Audit ==
    /\ pc = "audit"
    /\ LET o    == Head(todo)
           lost == Row(o, "lossy", TRUE)
           next == /\ todo' = Tail(todo)
                   /\ pc' = IF Len(todo) = 1 THEN "done" ELSE "check"
       IN Read(/\ Checked({}) /\ next
               /\ rows' = rows \cup
                    (IF stack.board[o] = Absent THEN {lost, Row(o, "failed", TRUE)} ELSE {lost}),
               next /\ rows' = rows \cup {lost, Row(o, "failed", TRUE)})
    /\ UNCHANGED <<cmd, plan, stack, writes, edits>>

-----------------------------------------------------------------------------
(* Delete.                                                                   *)

BeginDelete ==
    /\ pc = "start" /\ cmd.op = "delete"
    /\ pc' = "resolve" /\ todo' = Sorted(cmd.targets)
    /\ UNCHANGED <<cmd, plan, stack, moved, writes, rows, faults, edits>>

\* Each selector is resolved by a read of its own: by id, or by title in a list.
Resolve ==
    /\ pc = "resolve" /\ todo # <<>>
    /\ LET o == Head(todo) IN
         Read(IF stack.board[o] = Absent THEN Fail /\ UNCHANGED <<plan, moved>>
              ELSE /\ plan' = [plan EXCEPT !.before = Noted(@, o, TRUE)]
                   /\ todo' = Tail(todo) /\ UNCHANGED <<pc, rows>> /\ Checked({o}),
              Fail /\ UNCHANGED plan)
    /\ UNCHANGED <<cmd, stack, writes, edits>>

PlanDelete ==
    /\ pc = "resolve" /\ todo = <<>>
    /\ Guard(plan, Sorted(cmd.targets)) /\ UNCHANGED rows
    /\ UNCHANGED <<cmd, stack, moved, writes, faults, edits>>

\* The dashboard of the preview is deleted by its id, whatever it holds now.
Delete ==
    /\ pc = "check" /\ cmd.op = "delete"
    /\ LET o == Head(todo) IN
         IF stack.board[o] = Absent
         THEN Report(o, "failed", FALSE) /\ UNCHANGED <<stack, writes, faults>>
         ELSE Mutate([stack EXCEPT !.board[o] = Absent], Write(o, plan.before[o], TRUE, {o}),
                     Report(o, "deleted", TRUE), Report(o, "failed", FALSE), TRUE)
    /\ UNCHANGED <<cmd, plan, moved, edits>>

-----------------------------------------------------------------------------
(* Bundles.                                                                  *)

\* The bundle is scanned offline; the preview names what it holds and knows
\* nothing of the stack.
PlanBundle ==
    /\ pc = "start" /\ cmd.op = "bundle"
    /\ plan' = [before |-> [o \in cmd.targets |-> TRUE]]
    /\ Goto(IF cmd.yes THEN "import_bundle" ELSE "done")
    /\ UNCHANGED <<cmd, stack, moved, writes, faults, edits>>

\* The stack imports the objects one by one and says which it refused.
ImportBundle ==
    /\ pc = "import_bundle"
    /\ \E refused \in SUBSET Ids :
         LET kept   == refused \cup {o \in Ids : ~cmd.overwrite /\ stack.board[o] # Absent}
             stored == [stack EXCEPT !.board = [o \in Ids |->
                           IF o \in kept THEN stack.board[o] ELSE Desired]]
             all    == {Write(o, TRUE, TRUE, {}) : o \in Ids \ kept}
             report == {IF o \in kept THEN Row(o, "failed", FALSE)
                        ELSE Row(o, "created", TRUE) : o \in Ids}
         IN MutateAll(stored, all, ReportAll(report), Fail, TRUE)
    /\ UNCHANGED <<cmd, plan, moved, edits>>

-----------------------------------------------------------------------------
\* What a success says of dashboard o.
Goal(o) == stack.board[o] = (IF cmd.op = "delete" THEN Absent ELSE Desired)

\* Other clients edit a dashboard or delete the data view.
OthersEdit ==
    \/ \E o \in Ids, v \in {Absent, Other} : Edit([stack EXCEPT !.board[o] = v], {o})
    \/ cmd.op = "import" /\ Edit([stack EXCEPT !.view = FALSE], {View})

Next ==
    \/ BeginImport \/ Preflight \/ PreflightViews \/ PlanImport \/ CheckImport \/ Put \/ Audit
    \/ BeginDelete \/ Resolve \/ PlanDelete \/ Delete
    \/ PlanBundle \/ ImportBundle
    \/ OthersEdit
=============================================================================
