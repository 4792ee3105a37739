------------------------------ MODULE Detection ------------------------------
(* `elasticctl rules` and `elasticctl exceptions`: enabling, deleting,         *)
(* importing and the prebuilt rules.  Rule o refers to exception list o, and a *)
(* list stands for its container with its items.                               *)
EXTENDS GuardedCommand

Absent  == 0
Other   == 1       \* disabled, outdated or holding something else
Desired == 2

StackType == [rule : [Ids -> Absent..Desired], list : [Ids -> Absent..Desired]]

\* Selectors are resolved in the order given, and two may name the same rule.
Selections == {<<o>> : o \in Ids} \cup {<<o, q>> : o \in Ids, q \in Ids}
Selected   == {[family |-> "detection", op |-> op, selectors |-> s, targets |-> Range(s),
                yes |-> TRUE] : op \in {"set_enabled", "delete_rules"}, s \in Selections}
RuleFiles  == [family : {"detection"}, op : {"import_rules"}, targets : (SUBSET Ids) \ {{}},
               lists : SUBSET Ids, mode : {"plain", "overwrite", "skip_existing"}, yes : BOOLEAN]
ListFiles  == [family : {"detection"}, op : {"import_lists"}, targets : SUBSET Ids,
               items : SUBSET Ids, mode : {"plain", "overwrite", "skip_existing"}, yes : {TRUE}]
ListDeletes == [family : {"detection"}, op : {"delete_lists"}, targets : (SUBSET Ids) \ {{}},
                yes : {TRUE}]
Prebuilt   == [family : {"detection"}, op : {"prebuilt"}, targets : {Ids}, yes : BOOLEAN]

Init ==
    /\ Begins
    /\ plan = [before |-> [o \in {} |-> Absent]]
    /\ \/ /\ cmd \in Selected \cup Prebuilt
          /\ stack \in [rule : [Ids -> Absent..Desired], list : {[o \in Ids |-> Absent]}]
       \/ /\ cmd \in RuleFiles
          /\ stack \in [rule : [Ids -> {Absent, Other}], list : [Ids -> {Absent, Other}]]
       \/ /\ cmd \in {c \in ListFiles : c.targets \cup c.items # {}} \cup ListDeletes
          /\ stack \in [rule : {[o \in Ids |-> Absent]}, list : [Ids -> {Absent, Other}]]

-----------------------------------------------------------------------------
(* Rules by selector.                                                        *)

BeginSelected ==
    /\ pc = "start" /\ cmd.op \in {"set_enabled", "delete_rules"}
    /\ pc' = "resolve" /\ todo' = cmd.selectors
    /\ UNCHANGED <<cmd, plan, stack, moved, writes, rows, faults, edits>>

\* Each selector is looked up by rule id, then by name, and the rule is read.
ResolveRule ==
    /\ pc = "resolve" /\ todo # <<>>
    /\ LET o == Head(todo) IN
         Read(IF stack.rule[o] = Absent THEN Fail /\ UNCHANGED <<plan, moved>>
              ELSE /\ plan' = [plan EXCEPT !.before = Noted(@, o, stack.rule[o])]
                   /\ todo' = Tail(todo) /\ UNCHANGED <<pc, rows>> /\ Checked({o}),
              Fail /\ UNCHANGED plan)
    /\ UNCHANGED <<cmd, stack, writes, edits>>

\* The targets are the rules in selector order, a rule named twice twice.
PlanSelected ==
    /\ pc = "resolve" /\ todo = <<>>
    /\ Guard(plan, cmd.selectors) /\ UNCHANGED rows
    /\ UNCHANGED <<cmd, stack, moved, writes, faults, edits>>

\* One bulk action with a query for the ids: the stack skips rules in the
\* target state, may fail on others, and knows nothing of rules that are gone.
SetEnabled ==
    /\ pc = "check" /\ cmd.op = "set_enabled"
    /\ LET there == {o \in cmd.targets : stack.rule[o] # Absent}
           same  == {o \in there : stack.rule[o] = Desired}
       IN \E refused \in SUBSET (there \ same) :
            LET done == there \ (same \cup refused)
                new  == [stack EXCEPT !.rule = [o \in Ids |->
                            IF o \in done THEN Desired ELSE stack.rule[o]]]
            IN MutateAll(new, {Write(o, plan.before[o], stack.rule[o], {o}) : o \in done},
                         ReportAll({Row(o, "changed", TRUE) : o \in done}
                                      \cup {Row(o, "failed", FALSE) : o \in refused}
                                      \cup {Row(o, "skipped", FALSE) : o \in same}),
                         Fail, TRUE)
    /\ UNCHANGED <<cmd, plan, moved, edits>>

\* A rule is deleted by its id; the second deletion of a rule named twice is
\* refused, and so are both when somebody else was first.
DeleteRule ==
    /\ pc = "check" /\ cmd.op = "delete_rules"
    /\ LET o == Head(todo) IN
         IF stack.rule[o] = Absent
         THEN Report(o, "failed", FALSE) /\ UNCHANGED <<stack, writes, faults>>
         ELSE Mutate([stack EXCEPT !.rule[o] = Absent], Write(o, TRUE, TRUE, {}),
                     Report(o, "deleted", TRUE), Report(o, "failed", FALSE), TRUE)
    /\ UNCHANGED <<cmd, plan, moved, edits>>

-----------------------------------------------------------------------------
(* Imports.                                                                  *)

Imports == cmd.op \in {"import_rules", "import_lists"}
Kind    == IF cmd.op = "import_rules" THEN "rule" ELSE "list"

\* Without --skip-existing the file is all the preview needs; with it, the
\* stack is asked which of the rules or lists exist.
PlanImport ==
    /\ pc = "start" /\ Imports
    /\ IF cmd.mode # "skip_existing"
       THEN Goto("bundle") /\ plan' = plan /\ UNCHANGED <<moved, faults>>
       ELSE Read(/\ plan' = [before |-> [o \in {p \in cmd.targets : stack[Kind][p] # Absent} |->
                                             stack[Kind][o]]]
                 /\ Goto("bundle") /\ Checked(cmd.targets),
                 Fail /\ UNCHANGED plan)
    /\ UNCHANGED <<cmd, stack, writes, edits>>

Skipped == DOMAIN plan.before
Pending == cmd.targets \ Skipped

\* Mutant: the lists of rules that are not imported are uploaded, too.
UploadedListsUnreferenced ==
    IF cmd.op = "import_rules" THEN cmd.lists ELSE Pending \cup (cmd.items \ Skipped)

\* Of the lists in a rules file, those that a rule to import refers to are
\* uploaded; of the items in a lists file, those outside a skipped list.
UploadedLists ==
    IF cmd.op = "import_rules" THEN cmd.lists \cap Pending
    ELSE Pending \cup (cmd.items \ Skipped)

UploadedRules == IF cmd.op = "import_rules" THEN Pending ELSE {}

GuardImport ==
    /\ pc = "bundle"
    /\ Guard(plan, Sorted(UploadedRules \cup UploadedLists))
    /\ rows' = {Row(o, "skipped", FALSE) : o \in Skipped}
    /\ UNCHANGED <<cmd, stack, moved, writes, faults, edits>>

\* One upload.  The stack takes the objects one by one; what exists is refused
\* unless it may be overwritten.  Of an upload of rules, the answer's errors are
\* those of the rules: those of their lists are in a part that is not read.
Upload ==
    /\ pc = "check" /\ Imports
    /\ LET keeps(s) == {o \in Ids : cmd.mode # "overwrite" /\ s[o] # Absent} IN
       \E refused \in SUBSET (UploadedRules \cup UploadedLists) :
         LET rules == UploadedRules \ (refused \cup keeps(stack.rule))
             lists == UploadedLists \ (refused \cup keeps(stack.list))
             done  == rules \cup lists
             lost  == (UploadedRules \ rules) \cup (IF cmd.op = "import_lists"
                                                    THEN UploadedLists \ lists ELSE {})
             new   == [rule |-> [o \in Ids |-> IF o \in rules THEN Desired ELSE stack.rule[o]],
                       list |-> [o \in Ids |-> IF o \in lists THEN Desired ELSE stack.list[o]]]
         IN MutateAll(new, {Write(o, TRUE, TRUE, {}) : o \in done},
                      ReportAll(rows \cup {Row(o, "created", TRUE) : o \in done \ lost}
                                     \cup {Row(o, "failed", FALSE) : o \in lost}),
                      Fail, TRUE)
    /\ UNCHANGED <<cmd, plan, moved, edits>>

-----------------------------------------------------------------------------
(* Exception lists by id, and the prebuilt rules.                            *)

BeginDeleteLists ==
    /\ pc = "start" /\ cmd.op = "delete_lists"
    /\ pc' = "lists" /\ todo' = Sorted(cmd.targets)
    /\ UNCHANGED <<cmd, plan, stack, moved, writes, rows, faults, edits>>

\* A list id is looked up in the namespace given, or in both.
ResolveList ==
    /\ pc = "lists" /\ todo # <<>>
    /\ LET o == Head(todo) IN
         Read(IF stack.list[o] = Absent THEN Fail /\ UNCHANGED <<plan, moved>>
              ELSE /\ plan' = [plan EXCEPT !.before = Noted(@, o, stack.list[o])]
                   /\ todo' = Tail(todo) /\ UNCHANGED <<pc, rows>> /\ Checked({o}),
              Fail /\ UNCHANGED plan)
    /\ UNCHANGED <<cmd, stack, writes, edits>>

PlanDeleteLists ==
    /\ pc = "lists" /\ todo = <<>>
    /\ Guard(plan, Sorted(cmd.targets)) /\ UNCHANGED rows
    /\ UNCHANGED <<cmd, stack, moved, writes, faults, edits>>

DeleteList ==
    /\ pc = "check" /\ cmd.op = "delete_lists"
    /\ LET o == Head(todo) IN
         IF stack.list[o] = Absent
         THEN Report(o, "failed", FALSE) /\ UNCHANGED <<stack, writes, faults>>
         ELSE Mutate([stack EXCEPT !.list[o] = Absent], Write(o, TRUE, TRUE, {}),
                     Report(o, "deleted", TRUE), Report(o, "failed", FALSE), TRUE)
    /\ UNCHANGED <<cmd, plan, moved, edits>>

\* The preview counts what is missing and outdated, and the route installs and
\* updates all of it without a selection.
PlanPrebuilt ==
    /\ pc = "start" /\ cmd.op = "prebuilt"
    /\ Read(/\ Guard([before |-> stack.rule], Sorted(Ids)) /\ UNCHANGED rows /\ Checked(Ids),
            Fail /\ UNCHANGED plan)
    /\ UNCHANGED <<cmd, stack, writes, edits>>

InstallPrebuilt ==
    /\ pc = "check" /\ cmd.op = "prebuilt"
    /\ LET stale == {o \in Ids : stack.rule[o] # Desired} IN
         MutateAll([stack EXCEPT !.rule = [o \in Ids |-> Desired]],
                   {Write(o, plan.before[o], stack.rule[o], {o}) : o \in stale},
                   ReportAll({Row(o, "created", TRUE) : o \in stale}), Fail, TRUE)
    /\ UNCHANGED <<cmd, plan, moved, edits>>

-----------------------------------------------------------------------------
\* What a success says of rule or list o.
Goal(o) ==
    CASE cmd.op \in {"set_enabled", "import_rules", "prebuilt"} -> stack.rule[o] = Desired
      [] cmd.op = "import_lists" -> stack.list[o] = Desired
      [] cmd.op = "delete_rules" -> stack.rule[o] = Absent
      [] cmd.op = "delete_lists" -> stack.list[o] = Absent

OthersEdit ==
    \E o \in Ids, v \in {Absent, Other} :
        \/ Edit([stack EXCEPT !.rule[o] = v], {o})
        \/ Edit([stack EXCEPT !.list[o] = v], {o})

Next ==
    \/ BeginSelected \/ ResolveRule \/ PlanSelected \/ SetEnabled \/ DeleteRule
    \/ PlanImport \/ GuardImport \/ Upload
    \/ BeginDeleteLists \/ ResolveList \/ PlanDeleteLists \/ DeleteList
    \/ PlanPrebuilt \/ InstallPrebuilt
    \/ OthersEdit
=============================================================================
