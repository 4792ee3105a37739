----------------------------- MODULE DataViews ------------------------------
(* `elasticctl data-views`: import, delete, delete with a replacement, and   *)
(* the default.  A view has a base part and field metadata, which are        *)
(* replaced by two requests; version 2 of both is what the file holds.       *)
EXTENDS GuardedCommand

Absent   == [base |-> 0, meta |-> 0]
Desired  == [base |-> 2, meta |-> 2]
Contents == [base : {1, 2}, meta : {1, 2}]
None     == 0       \* no default, and the default as a fact: no id is 0

StackType ==
    [view : [Ids -> Contents \cup {Absent}], refs : [Ids -> SUBSET {"dashboard"}],
     default : Ids \cup {None}]

\* The commands.  `targets` are the ids of the file, or what the selectors
\* resolve to; the selectors themselves are ids or names of one view each.
Modes == {"plain", "overwrite", "skip_existing"}
Imports == [family : {"data_views"}, op : {"import"}, targets : (SUBSET Ids) \ {{}},
            mode : Modes, yes : BOOLEAN]
Deletes == [family : {"data_views"}, op : {"delete"}, targets : (SUBSET Ids) \ {{}},
            yes : {TRUE}]
Swaps   == {c \in [family : {"data_views"}, op : {"swap"}, targets : {{i} : i \in Ids},
                   by : Ids, yes : {TRUE}] : c.by \notin c.targets}
Defaults == [family : {"data_views"}, op : {"default"}, targets : {{None}}, after : Ids \cup {None},
             yes : BOOLEAN]

Init ==
    /\ Begins
    /\ plan = [before |-> [o \in {} |-> Absent]]
    /\ \/ /\ cmd \in Imports
          /\ stack \in [view : [Ids -> Contents \cup {Absent}], refs : [Ids -> {{}}],
                        default : {None}]
       \/ /\ cmd \in Deletes \cup Swaps \cup Defaults
          /\ stack \in [view : {[o \in Ids |-> Desired]}, refs : [Ids -> SUBSET {"dashboard"}],
                        default : Ids \cup {None}]

-----------------------------------------------------------------------------
(* Import.                                                                   *)

\* A plain dry run validates the file and reads nothing.
PreviewOffline ==
    /\ pc = "start" /\ cmd.op = "import" /\ cmd.mode = "plain" /\ ~cmd.yes
    /\ Guard([before |-> [o \in cmd.targets |-> Absent]], Sorted(cmd.targets))
    /\ UNCHANGED <<cmd, stack, moved, writes, rows, faults, edits>>

BeginImport ==
    /\ pc = "start" /\ cmd.op = "import" /\ (cmd.mode # "plain" \/ cmd.yes)
    /\ pc' = "preflight" /\ todo' = Sorted(cmd.targets)
    /\ UNCHANGED <<cmd, plan, stack, moved, writes, rows, faults, edits>>

\* The preflight reads each view of the file in turn.
Preflight ==
    /\ pc = "preflight" /\ todo # <<>>
    /\ LET o == Head(todo) IN
         Read(/\ plan' = [plan EXCEPT !.before = Noted(@, o, stack.view[o])]
              /\ todo' = Tail(todo) /\ UNCHANGED <<pc, rows>> /\ Checked({o}),
              Fail /\ UNCHANGED plan)
    /\ UNCHANGED <<cmd, stack, writes, edits>>

\* Views the import leaves alone because they exist, and those it replaces.
Existing == {o \in DOMAIN plan.before : plan.before[o] # Absent}
Skipped  == IF cmd.mode = "skip_existing" THEN Existing ELSE {}

\* What exists is a conflict, is skipped or is patched; some differences the
\* update API cannot express, and they end the command.
PlanImport ==
    /\ pc = "preflight" /\ todo = <<>>
    /\ LET specs == cmd.targets \ Skipped
           b     == plan.before
       IN \/ cmd.mode = "plain" /\ Existing # {} /\ Fail /\ UNCHANGED plan
          \/ /\ cmd.mode = "overwrite" /\ \E o \in Existing : b[o] # Desired
             /\ Fail /\ UNCHANGED plan
          \/ /\ cmd.mode = "plain" => Existing = {}
             /\ Guard([before |-> [o \in specs |-> b[o]]], Sorted(specs))
             /\ rows' = {Row(o, "skipped", FALSE) : o \in Skipped}
    /\ UNCHANGED <<cmd, stack, moved, writes, faults, edits>>

\* The last read before the writes of a view.
CheckImport ==
    /\ pc = "check" /\ cmd.op = "import"
    /\ LET o   == Head(todo)
           now == stack.view[o]
       IN Read(/\ Checked({o})
               /\ IF now # plan.before[o] THEN Report(o, "failed", FALSE)
                  ELSE IF now = Absent THEN Goto("create")
                  ELSE IF now = Desired THEN Report(o, "unchanged", FALSE)
                  ELSE IF now.base # Desired.base THEN Goto("update_base")
                  ELSE Goto("update_meta"),
               Report(o, "failed", FALSE))
    /\ UNCHANGED <<cmd, plan, stack, writes, edits>>

\* The request that makes view o, expected to be as shown, hold v.
PutView(o, shown, v, ok, failed) ==
    Mutate([stack EXCEPT !.view[o] = v], Write(o, shown, stack.view[o], {o}), ok, failed, TRUE)

\* A create is refused when the view exists by now.
Create ==
    /\ pc = "create"
    /\ LET o == Head(todo) IN
         IF stack.view[o] # Absent
         THEN Report(o, "failed", FALSE) /\ UNCHANGED <<stack, writes, faults>>
         ELSE PutView(o, Absent, Desired, Goto("verify"), Report(o, "failed", FALSE))
    /\ UNCHANGED <<cmd, plan, moved, edits>>

UpdateBase ==
    /\ pc = "update_base"
    /\ LET o == Head(todo) IN
         IF stack.view[o] = Absent
         THEN Report(o, "failed", FALSE) /\ UNCHANGED <<stack, writes, faults>>
         ELSE PutView(o, plan.before[o], [stack.view[o] EXCEPT !.base = 2],
                      Goto(IF plan.before[o].meta # 2 THEN "update_meta" ELSE "verify"),
                      Report(o, "failed", FALSE))
    /\ UNCHANGED <<cmd, plan, moved, edits>>

\* Mutant: the row of a failed metadata update forgets that the base was updated.
UpdateMetaForgets ==
    /\ pc = "update_meta"
    /\ LET o == Head(todo) IN
         IF stack.view[o] = Absent
         THEN Report(o, "failed", FALSE) /\ UNCHANGED <<stack, writes, faults>>
         ELSE PutView(o, [plan.before[o] EXCEPT !.base = 2], [stack.view[o] EXCEPT !.meta = 2], Goto("verify"),
                      Report(o, "failed", FALSE))
    /\ UNCHANGED <<cmd, plan, moved, edits>>

\* The row says whether the base was updated before the metadata failed.
UpdateMeta ==
    /\ pc = "update_meta"
    /\ LET o       == Head(todo)
           applied == plan.before[o].base # 2
       IN IF stack.view[o] = Absent
          THEN Report(o, "failed", applied) /\ UNCHANGED <<stack, writes, faults>>
          ELSE PutView(o, [plan.before[o] EXCEPT !.base = 2], [stack.view[o] EXCEPT !.meta = 2], Goto("verify"),
                       Report(o, "failed", applied))
    /\ UNCHANGED <<cmd, plan, moved, edits>>

\* A success is what the stack is read to hold.
Verify ==
    /\ pc = "verify"
    /\ LET o == Head(todo) IN
         Read(/\ Checked({})
              /\ IF stack.view[o] # Desired THEN Report(o, "failed", TRUE)
                 ELSE Report(o, IF plan.before[o] = Absent THEN "created" ELSE "replaced", TRUE),
              Report(o, "failed", TRUE))
    /\ UNCHANGED <<cmd, plan, stack, writes, edits>>

-----------------------------------------------------------------------------
(* Delete and swap.                                                          *)

\* One list resolves every selector, then the default is read.
ResolveDelete ==
    /\ pc = "start" /\ cmd.op \in {"delete", "swap"}
    /\ LET named == cmd.targets \cup (IF cmd.op = "swap" THEN {cmd.by} ELSE {}) IN
         Read(/\ IF \E o \in named : stack.view[o] = Absent THEN Fail
                 ELSE pc' = "default" /\ UNCHANGED <<todo, rows>>
              /\ Checked(named),
              Fail)
    /\ UNCHANGED <<cmd, plan, stack, writes, edits>>

ReadDefault ==
    /\ pc = "default"
    /\ Read(/\ plan' = [before |-> plan.before, default |-> stack.default]
            /\ pc' = "references" /\ todo' = Sorted(cmd.targets) /\ UNCHANGED rows
            /\ Checked({None}),
            Fail /\ UNCHANGED plan)
    /\ UNCHANGED <<cmd, stack, writes, edits>>

\* Then the references of each source.
ReadReferences ==
    /\ pc = "references" /\ todo # <<>>
    /\ LET o == Head(todo) IN
         Read(/\ plan' = [plan EXCEPT !.before = Noted(@, o, stack.refs[o])]
              /\ todo' = Tail(todo) /\ UNCHANGED <<pc, rows>> /\ Checked({o}),
              Fail /\ UNCHANGED plan)
    /\ UNCHANGED <<cmd, stack, writes, edits>>

\* Without a replacement, a referenced or default view is not deleted.
PlanDelete ==
    /\ pc = "references" /\ todo = <<>>
    /\ IF cmd.op = "delete"
          /\ \E o \in cmd.targets : plan.before[o] # {} \/ plan.default = o
       THEN Fail /\ UNCHANGED plan
       ELSE Guard(plan, Sorted(cmd.targets)) /\ UNCHANGED rows
    /\ UNCHANGED <<cmd, stack, moved, writes, faults, edits>>

\* check_delete_snapshot reads the references, then the default.
CheckReferences ==
    /\ pc = "check" /\ cmd.op \in {"delete", "swap"}
    /\ LET o == Head(todo) IN
         Read(/\ Checked({o})
              /\ IF stack.refs[o] # plan.before[o] THEN Report(o, "failed", FALSE)
                 ELSE Goto("check_default"),
              Report(o, "failed", FALSE))
    /\ UNCHANGED <<cmd, plan, stack, writes, edits>>

\* Mutant: the default of the preview is not compared again.
CheckDefaultTrusts ==
    /\ pc = "check_default"
    /\ LET o == Head(todo) IN
         Read(Checked({None}) /\ Goto(cmd.op), Report(o, "failed", FALSE))
    /\ UNCHANGED <<cmd, plan, stack, writes, edits>>

CheckDefault ==
    /\ pc = "check_default"
    /\ LET o == Head(todo) IN
         Read(/\ Checked({None})
              /\ IF stack.default # plan.default THEN Report(o, "failed", FALSE)
                 ELSE Goto(cmd.op),
              Report(o, "failed", FALSE))
    /\ UNCHANGED <<cmd, plan, stack, writes, edits>>

Facts(o) == <<stack.refs[o], stack.default>>
ShownFacts(o) == <<plan.before[o], plan.default>>

Delete ==
    /\ pc = "delete"
    /\ LET o == Head(todo) IN
         IF stack.view[o] = Absent
         THEN Report(o, "failed", FALSE) /\ UNCHANGED <<stack, writes, faults>>
         ELSE Mutate([stack EXCEPT !.view[o] = Absent], Write(o, ShownFacts(o), Facts(o), {o, None}),
                     Report(o, "deleted", TRUE), Report(o, "failed", FALSE), TRUE)
    /\ UNCHANGED <<cmd, plan, moved, edits>>

\* The stack moves every reference and deletes the source; it may answer that
\* the source is still there.
Swap ==
    /\ pc = "swap"
    /\ LET o     == Head(todo)
           moves == [stack EXCEPT !.refs[o] = {}, !.refs[cmd.by] = @ \cup stack.refs[o]]
           w     == Write(o, ShownFacts(o), Facts(o), {o, None})
       IN IF stack.view[o] = Absent
          THEN Report(o, "failed", FALSE) /\ UNCHANGED <<stack, writes, faults>>
          ELSE \/ Mutate([moves EXCEPT !.view[o] = Absent], w,
                         IF plan.default = o THEN Goto("reread_default")
                         ELSE Report(o, "deleted", TRUE),
                         Report(o, "failed", FALSE), TRUE)
               \/ Mutate(moves, w, Report(o, "failed", FALSE), Report(o, "failed", FALSE), FALSE)
    /\ UNCHANGED <<cmd, plan, moved, edits>>

\* The default follows the references unless somebody changed it meanwhile.
RereadDefault ==
    /\ pc = "reread_default"
    /\ LET o == Head(todo) IN
         Read(/\ Checked({None})
              /\ IF stack.default = o THEN Goto("move_default")
                 ELSE Report(o, IF stack.default = cmd.by THEN "deleted" ELSE "failed", TRUE),
              Report(o, "failed", TRUE))
    /\ UNCHANGED <<cmd, plan, stack, writes, edits>>

\* Mutant: a default that could not be moved is not reported.
MoveDefaultSilently ==
    /\ pc = "move_default"
    /\ LET o == Head(todo) IN
         Mutate([stack EXCEPT !.default = cmd.by], Write(None, o, stack.default, {None}),
                Report(o, "deleted", TRUE), Report(o, "deleted", TRUE), TRUE)
    /\ UNCHANGED <<cmd, plan, moved, edits>>

MoveDefault ==
    /\ pc = "move_default"
    /\ LET o == Head(todo) IN
         Mutate([stack EXCEPT !.default = cmd.by], Write(None, o, stack.default, {None}),
                Report(o, "deleted", TRUE), Report(o, "failed", TRUE), TRUE)
    /\ UNCHANGED <<cmd, plan, moved, edits>>

-----------------------------------------------------------------------------
(* The default.                                                              *)

\* A set resolves its target first; an unset has none.
ResolveDefault ==
    /\ pc = "start" /\ cmd.op = "default"
    /\ IF cmd.after = None THEN Goto("plan_default") /\ UNCHANGED <<moved, faults>>
       ELSE Read(/\ IF stack.view[cmd.after] = Absent THEN Fail ELSE Goto("plan_default")
                 /\ Checked({cmd.after}),
                 Fail)
    /\ UNCHANGED <<cmd, plan, stack, writes, edits>>

PlanDefault ==
    /\ pc = "plan_default"
    /\ Read(/\ plan' = [before |-> [o \in {} |-> Absent], default |-> stack.default]
            /\ Goto(IF cmd.yes THEN "apply_default" ELSE "done") /\ Checked({None}),
            Fail /\ UNCHANGED plan)
    /\ UNCHANGED <<cmd, stack, writes, edits>>

\* A changed default is an error of the command; one that is already there
\* needs no request.
ApplyDefault ==
    /\ pc = "apply_default"
    /\ Read(/\ Checked({None})
            /\ IF stack.default # plan.default THEN Fail
               ELSE Goto(IF cmd.after = plan.default THEN "done" ELSE "set_default"),
            Fail)
    /\ UNCHANGED <<cmd, plan, stack, writes, edits>>

\* The stack is told to force it: it does not look for the view.
SetDefault ==
    /\ pc = "set_default"
    /\ Mutate([stack EXCEPT !.default = cmd.after],
              Write(None, plan.default, stack.default, {None}), Goto("done"), Fail, TRUE)
    /\ UNCHANGED <<cmd, plan, moved, edits>>

-----------------------------------------------------------------------------
\* What a success says of view o, or of the default.
Goal(o) ==
    CASE cmd.op = "import"  -> stack.view[o] = Desired
      [] cmd.op = "default" -> stack.default = cmd.after
      [] cmd.op = "delete"  -> stack.view[o] = Absent /\ (None \in moved \/ stack.default # o)
      [] cmd.op = "swap"    -> /\ stack.view[o] = Absent
                               /\ None \in moved \/ stack.default # o
                               /\ stack.refs[o] = {}

\* Other clients edit a view, its references or the default.
OthersEdit ==
    \/ \E o \in Ids, v \in {Absent, [base |-> 1, meta |-> 1]} :
         cmd.op = "import" /\ Edit([stack EXCEPT !.view[o] = v], {o})
    \/ \E o \in Ids :
         cmd.op # "import" /\ Edit([stack EXCEPT !.view[o] = Absent], {o})
    \/ \E o \in Ids, r \in SUBSET {"dashboard"} :
         /\ cmd.op \in {"delete", "swap"} /\ stack.view[o] # Absent
         /\ Edit([stack EXCEPT !.refs[o] = r], {o})
    \/ \E d \in Ids \cup {None} :
         cmd.op # "import" /\ Edit([stack EXCEPT !.default = d], {None})

Next ==
    \/ PreviewOffline \/ BeginImport \/ Preflight \/ PlanImport \/ CheckImport
    \/ Create \/ UpdateBase \/ UpdateMeta \/ Verify
    \/ ResolveDelete \/ ReadDefault \/ ReadReferences \/ PlanDelete
    \/ CheckReferences \/ CheckDefault \/ Delete \/ Swap \/ RereadDefault \/ MoveDefault
    \/ ResolveDefault \/ PlanDefault \/ ApplyDefault \/ SetDefault
    \/ OthersEdit
=============================================================================
