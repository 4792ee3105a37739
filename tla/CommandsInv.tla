----------------------------- MODULE CommandsInv -----------------------------
(* The inductive invariant of Commands: what holds at every step of every      *)
(* guarded command, the generic loop first and the components behind it.       *)
EXTENDS Commands

\* What the command line and the adapters let a command be.
CmdOK ==
    /\ cmd.yes \in BOOLEAN
    /\ cmd.targets \subseteq (IF cmd.op = "default" THEN {0} ELSE Ids)
    /\ cmd.op = "default" => cmd.after \in Ids \cup {0} /\ cmd.targets = {0}
    /\ cmd.op = "swap" => cmd.by \in Ids
    /\ cmd.op = "attach" => cmd.case \in Ids
    /\ cmd.op \in {"create", "comment"} => \E o \in Ids : cmd.targets = {o}
    /\ cmd.op = "import_rules" => cmd.lists \subseteq Ids
    /\ cmd.op = "import_lists" => cmd.items \subseteq Ids
    /\ cmd.op \in {"bundle", "prebuilt", "alert_query"} => cmd.targets = Ids
    /\ cmd.op \in {"set_enabled", "delete_rules"} =>
         cmd.selectors \in Seq(Ids) /\ Range(cmd.selectors) = cmd.targets
OpOK ==
    /\ cmd.family = "data_views" => cmd.op \in {"import", "delete", "swap", "default"}
    /\ cmd.family = "dashboards" => cmd.op \in {"import", "delete", "bundle"}
    /\ cmd.family = "agent_policies" => cmd.op \in {"import", "delete"}
    /\ cmd.family = "triage" => cmd.op \in {"case_status", "case_delete", "create", "comment",
         "attach", "alert_status", "alert_tags", "alert_assign", "alert_query"}
    /\ cmd.family = "detection" => cmd.op \in {"set_enabled", "delete_rules", "import_rules",
         "import_lists", "delete_lists", "prebuilt"}
    /\ cmd.family = "reads" => cmd.op = "read" /\ cmd.yes = FALSE /\ cmd.targets = {}
    /\ cmd.family \in {"data_views", "dashboards", "agent_policies", "triage", "detection", "reads"}

-----------------------------------------------------------------------------
(* The loop.                                                                 *)

\* Steps that are one request for everything, and steps that handle the object at
\* the head of the loop.
Wholesale == pc \in {"import_bundle", "apply_default", "set_default"}
Looping   == ~Ended /\ ~Planning /\ ~Wholesale
\* One request in place of the loop, which reports everything itself.
BulkOps == {"case_status", "case_delete", "alert_status", "alert_tags", "alert_assign",
            "alert_query", "set_enabled", "prebuilt"}
Bulk    ==
    \/ pc = "import_bundle"
    \/ pc = "check" /\ cmd.op \in BulkOps

\* What the command may touch.
Touchable == cmd.targets \cup (IF cmd.op = "swap" THEN {0} ELSE {})
                 \cup (IF cmd.op = "import_lists" THEN cmd.items ELSE {})

\* A request that changed the object at the head has been answered, and its row
\* is still to come.
AfterWrite ==
    \/ pc \in {"verify", "reread_default", "move_default", "audit"}
    \/ pc = "update_meta" /\ plan.before[Head(todo)].base # 2
    \/ pc \in {"observe", "report"} /\ plan.applied

RowsOK == \A r \in rows : r.id \in Ids /\ r.result \in Results /\ r.applied \in BOOLEAN
QuietPlanning == Planning => writes = {} /\ rows = {}
OnlyConfirmed ==
    ~cmd.yes => (Planning \/ Ended) /\ writes = {} /\ \A r \in rows : ~r.applied

\* The objects still to come are of those asked for, each comes once and none has
\* a row; only rules are deleted as often as they were selected.
TodoOK ==
    /\ todo \in Seq(Ids)
    /\ Looping => todo # <<>> /\ Range(todo) \subseteq Touchable
    /\ Looping /\ cmd.op \notin {"delete_rules", "set_enabled"} =>
         IsInjective(todo) /\ \A r \in rows : r.id \notin Range(todo)
    /\ cmd.op = "delete_rules" => \A r \in rows : ~SaysUntouched(r)
BulkIsFirst == Bulk => rows = {}
WithinTargets == \A w \in writes : w.id \in Touchable
ClaimsHaveWrites == \A r \in rows : r.applied => \E w \in writes : w.id = r.id
HeadWritten == AfterWrite => \E w \in writes : w.id = Head(todo)
AnswersReported ==
    pc # "failed" =>
        \A w \in writes : w.answered /\ w.id # 0 =>
            (\E r \in rows : r.id = w.id) \/ (AfterWrite /\ w.id = Head(todo))
UntouchedIsUntouched ==
    \A r \in rows : SaysUntouched(r) => \A w \in writes : w.id = r.id => ~w.answered

LoopInv ==
    /\ RowsOK /\ QuietPlanning /\ OnlyConfirmed /\ TodoOK /\ BulkIsFirst /\ WithinTargets
    /\ ClaimsHaveWrites /\ HeadWritten /\ AnswersReported /\ UntouchedIsUntouched

\* The preview's facts are about objects.
PlanOK == cmd.family # "reads" => "before" \in DOMAIN plan /\ DOMAIN plan.before \subseteq Ids

-----------------------------------------------------------------------------
(* The components: what a write relies on is as the preview showed it.        *)

\* A request about o took effect without its answer coming back, or another
\* client changed one of the facts.
Unanswers(o) == \E v \in writes : v.id = o /\ ~v.answered
Excused(o, facts) == moved \cap facts # {} \/ Unanswers(o)

DataViewsInv ==
    cmd.family = "data_views" =>
        /\ pc = "preflight" => cmd.op = "import"
        /\ pc \in {"default", "references", "check_default"} => cmd.op \in {"delete", "swap"}
        /\ pc \in {"swap", "reread_default", "move_default"} => cmd.op = "swap"
        /\ pc \in {"plan_default", "apply_default", "set_default"} => cmd.op = "default"
        /\ pc = "update_base" =>
             /\ plan.before[Head(todo)] \in DataViews!Contents
             /\ plan.before[Head(todo)].base # 2
             /\ stack.view[Head(todo)] = plan.before[Head(todo)]
                  \/ Excused(Head(todo), {Head(todo)})
        /\ pc = "update_meta" =>
             \/ stack.view[Head(todo)] = [plan.before[Head(todo)] EXCEPT !.base = 2]
             \/ Excused(Head(todo), {Head(todo)})
        /\ pc \in {"check_default", "delete", "swap"} =>
             stack.refs[Head(todo)] = plan.before[Head(todo)] \/ Excused(Head(todo), {Head(todo)})
        /\ pc \in {"delete", "swap"} => stack.default = plan.default \/ Excused(Head(todo), {0})
        /\ pc = "move_default" => stack.default = Head(todo) \/ Excused(0, {0})
        /\ pc = "set_default" => stack.default = plan.default \/ Excused(0, {0})

DashboardsInv ==
    cmd.family = "dashboards" =>
        /\ pc \in {"preflight", "plan", "put", "audit"} => cmd.op = "import"
        /\ pc = "resolve" => cmd.op = "delete"
        /\ pc = "import_bundle" => cmd.op = "bundle"
        /\ pc = "put" =>
             stack.board[Head(todo)] = plan.before[Head(todo)] \/ Excused(Head(todo), {Head(todo)})
        /\ pc = "resolve" =>
             \A o \in cmd.targets :
                 o \in Range(todo) \/ (o \in DOMAIN plan.before /\ plan.before[o] = TRUE)
        /\ pc = "check" /\ cmd.op = "delete" => \A o \in cmd.targets : plan.before[o] = TRUE

AgentPoliciesInv ==
    cmd.family = "agent_policies" =>
        /\ DOMAIN plan = {"before", "package", "applied", "bad"}
        /\ pc \in {"check_package", "check_name", "create", "update", "delete"} =>
             stack.policy[Head(todo)] = plan.before[Head(todo)] \/ Excused(Head(todo), {Head(todo)})
        /\ pc \in {"check_name", "create", "update"} /\ AgentPolicies!CanInstall(Head(todo)) =>
                 stack.package = plan.package \/ Excused(Head(todo), {0})
        /\ pc = "verify" => plan.applied = TRUE
        /\ pc \in {"observe", "report"} => plan.applied \in BOOLEAN

\* Case o is as planning read it, or it is gone or has another version.
CaseSeen(o) ==
    /\ plan.before[o] \in [status : Triage!Statuses, version : Nat]
    /\ plan.before[o] # Triage!Absent => plan.before[o].version > 0
    /\ \/ stack.case[o] = plan.before[o]
       \/ stack.case[o].version > plan.before[o].version
       \/ stack.case[o] = Triage!Absent

\* A post is made once for each object, and once more for each fault.
PostsBounded ==
    \A o \in Ids :
        /\ stack.posts[o] + faults <= 1 + MaxFaults
        /\ ~Ended /\ (Looping => o \in Range(todo)) => stack.posts[o] + faults <= MaxFaults

TriageInv ==
    cmd.family = "triage" =>
        /\ "lost" \in DOMAIN plan /\ plan.lost \in BOOLEAN
        /\ PostsBounded
        /\ \A o \in Ids : stack.case[o] # Triage!Absent => stack.case[o].version > 0
        /\ pc = "resolve" => cmd.op \in {"case_status", "case_delete"}
        /\ pc = "alerts" => cmd.op = "attach"
        /\ pc = "alert_ids" => cmd.op = "alert_assign"
        /\ pc = "resolve" =>
             \A o \in cmd.targets :
                 o \in Range(todo) \/ (/\ o \in DOMAIN plan.before /\ CaseSeen(o)
                                       /\ ~plan.lost => plan.before[o] # Triage!Absent)
        /\ pc = "check" /\ cmd.op = "case_status" =>
             \A o \in cmd.targets : CaseSeen(o) /\ plan.before[o] # Triage!Absent
        /\ pc = "check" /\ cmd.op \in {"alert_status", "alert_tags", "alert_assign"} =>
             \A o \in cmd.targets : plan.before[o] = stack.alert[o] \/ Excused(o, {o})

RuleSeen(o) == plan.before[o] = stack.rule[o] \/ Excused(o, {o})

DetectionInv ==
    cmd.family = "detection" =>
        /\ pc = "resolve" =>
             \A o \in cmd.targets : o \in Range(todo) \/ (o \in DOMAIN plan.before /\ RuleSeen(o))
        /\ pc = "check" /\ cmd.op \in {"set_enabled", "prebuilt"} =>
             \A o \in cmd.targets : RuleSeen(o)
        /\ pc = "resolve" => cmd.op \in {"set_enabled", "delete_rules"}
        /\ pc = "bundle" => cmd.op \in {"import_rules", "import_lists"}
        /\ pc = "lists" => cmd.op = "delete_lists"
        /\ pc \in {"start", "bundle"} => DOMAIN plan.before \subseteq cmd.targets
        /\ pc = "check" /\ cmd.op \in {"import_rules", "import_lists"} =>
             \A r \in rows : r.id \in DOMAIN plan.before /\ ~r.applied

\* What the stack holds for a read is held while the read is at it.
ReadsInv ==
    cmd.family = "reads" =>
        /\ "lost" \in DOMAIN plan
        /\ stack.open => pc \in {"pit", "poll", "close"} \/ (Ended /\ plan.lost)

IInv ==
    /\ CmdOK /\ OpOK /\ TypeOK /\ LoopInv /\ PlanOK /\ WritesWhatWasShown
    /\ DataViewsInv /\ DashboardsInv /\ AgentPoliciesInv /\ TriageInv /\ DetectionInv /\ ReadsInv

-----------------------------------------------------------------------------
(* What an exit status of 0 means.                                             *)

\* Object o is as asked, was skipped, or belongs to another client by now.
Settled(o) ==
    \/ o \in moved
    \/ \E r \in rows : r.id = o /\ r.result = "skipped"
    \/ Goal(o)

\* Unless a row has failed, what the loop has left behind is settled.
SettledInv ==
    cmd.yes /\ FailedRows = {} /\ (pc = "done" \/ Looping) =>
        \A o \in cmd.targets : (Looping /\ o \in Range(todo)) \/ Settled(o)

\* Which operation a step belongs to; no view to be deleted is the default, and the
\* source of a swap is gone before the default is moved.
DataViewsAims ==
    cmd.family = "data_views" =>
        /\ cmd.op = "swap" => \E o \in Ids : cmd.targets = {o} /\ cmd.by # o
        /\ pc \in {"create", "update_base", "update_meta", "verify"} => cmd.op = "import"
        /\ pc = "delete" => cmd.op = "delete"
        /\ cmd.op = "delete" /\ pc \in {"check", "check_default", "delete"} =>
             plan.default \notin cmd.targets
        /\ pc \in {"delete", "swap"} => 0 \in moved \/ stack.default = plan.default
        /\ pc \in {"reread_default", "move_default"} =>
             \/ Head(todo) \in moved
             \/ stack.view[Head(todo)] = DataViews!Absent /\ stack.refs[Head(todo)] = {}

\* Which operation a step belongs to; an observed policy is as asked or found bad.
AgentPoliciesAims ==
    cmd.family = "agent_policies" =>
        /\ pc \in {"check_package", "check_name", "create", "update", "verify", "observe",
                  "report"} => cmd.op = "import"
        /\ pc = "delete" => cmd.op = "delete"
        /\ pc \in {"observe", "report"} =>
             \/ plan.bad = TRUE
             \/ Head(todo) \in moved
             \/ stack.policy[Head(todo)].spec = AgentPolicies!Desired

\* What the planning passes over is unchanged: no transition, and no missing alert.
TriageAims ==
    cmd.family = "triage" =>
        /\ pc = "resolve" =>
             \A o \in cmd.targets :
                 o \in Range(todo) \/ o \in moved \/ stack.case[o] = plan.before[o]
        /\ pc = "check" /\ cmd.op = "case_status" => Range(todo) \subseteq Triage!Transitions
        /\ pc = "check" /\ cmd.op \in {"alert_status", "alert_tags", "alert_assign"} =>
             \A o \in cmd.targets : o \in moved \/ stack.alert[o] # 0

\* What the planning passes over exists, and what an import meets is skipped.
DetectionAims ==
    cmd.family = "detection" =>
        /\ pc = "resolve" =>
             \A o \in cmd.targets :
                 o \in Range(todo) \/ o \in moved \/ stack.rule[o] # Detection!Absent
        /\ pc = "check" /\ cmd.op = "set_enabled" =>
             \A o \in cmd.targets : o \in moved \/ stack.rule[o] # Detection!Absent
        /\ pc = "check" /\ cmd.op \in {"import_rules", "import_lists"} =>
             \A o \in DOMAIN plan.before : \E r \in rows : r.id = o /\ r.result = "skipped"

\* Inductive beside IInv, and enough for SuccessIsReal.
SuccessInv ==
    SettledInv /\ DataViewsAims /\ AgentPoliciesAims /\ TriageAims /\ DetectionAims

-----------------------------------------------------------------------------
(* What a read has seen, page by page.                                         *)

Reading(reader) == cmd.family = "reads" /\ cmd.reader = reader

\* The documents that were there at the first request, and that nobody has touched.
Stayed == plan.first \ moved

InOrder(s) == \A i, j \in 1..Len(s) : i < j => s[i] < s[j]
LastOf(s)  == IF s = <<>> THEN 0 ELSE s[Len(s)]
UpTo(S, d) == {e \in S : e <= d}

\* What a read keeps, and which reader a request belongs to.
ReadsOK ==
    cmd.family = "reads" =>
        /\ cmd.limit \in Nat
        /\ plan.out \in Seq(PagedReads!Docs) /\ plan.first \subseteq PagedReads!Docs
        /\ plan.page \in Nat \ {0} /\ plan.slices \in Seq(PagedReads!Slices)
        /\ DOMAIN plan = {"out", "page", "total", "first", "polls", "slices", "cut", "failed",
                          "lost"}
        /\ pc = "start" => plan.out = <<>> /\ plan.page = 1
        /\ pc = "page" => plan.page > 1 \/ cmd.reader = "rules"
        /\ pc = "pit" => cmd.reader = "search"
        /\ pc = "poll" => cmd.reader = "esql"
        /\ pc = "close" => cmd.reader \in {"search", "esql"}

\* Nobody hides what has stayed from a reader that is still at its pages.
StayedIsThere ==
    cmd.family = "reads" /\ pc = "page" => Stayed \subseteq stack.docs

\* Behind the last document read nothing that has stayed is passed over.
AlertsAims ==
    Reading("alerts") =>
        /\ InOrder(plan.out)
        /\ pc = "page" => UpTo(Stayed, LastOf(plan.out)) \subseteq Range(plan.out)
        /\ pc = "done" /\ cmd.limit = 0 /\ ~plan.cut => Stayed \subseteq Range(plan.out)

\* Over a point in time nothing at all is.
SearchAims ==
    Reading("search") =>
        /\ InOrder(plan.out)
        /\ pc = "pit" => UpTo(plan.first, LastOf(plan.out)) \subseteq Range(plan.out)
        /\ ((pc = "close" /\ ~plan.failed) \/ pc = "done") /\ cmd.limit = 0 /\ ~plan.cut =>
             plan.first \subseteq Range(plan.out)

\* A request of rules that finds document d as it is now.
Asks(slice, d) == d \in slice.of /\ PagedReads!State(d) \in slice.states

\* Document d was read once at most, and not yet when a request to come asks for it;
\* only one of them does.
Once(slices, out, d) ==
    /\ \A i, j \in 1..Len(out) : out[i] = d /\ out[j] = d => i = j
    /\ \A i \in 1..Len(slices) : Asks(slices[i], d) =>
         /\ d \notin Range(out)
         /\ \A j \in 1..Len(slices) : Asks(slices[j], d) => i = j
Found(slices, out, d) ==
    d \in Range(out) \/ \E i \in 1..Len(slices) : Asks(slices[i], d)

\* A rule that nobody touched has been read or is asked for by the requests to come.
RulesAims ==
    Reading("rules") =>
        /\ pc = "page" =>
             /\ plan.slices # <<>>
             /\ \A d \in Untouched :
                  /\ Once(plan.slices, plan.out, d)
                  /\ d \in plan.first => Found(plan.slices, plan.out, d)
        /\ pc = "done" =>
             \A d \in Untouched :
                 Once(<<>>, plan.out, d) /\ (d \in plan.first => Found(<<>>, plan.out, d))

\* One change since the first page shows in the total; without one the pages are those
\* of the first list.
CheckedAims ==
    Reading("checked") =>
        /\ pc = "page" /\ edits >= MaxEdits - 1 =>
             /\ plan.total = Cardinality(plan.first)
             /\ (plan.page - 1) * PagedReads!PageSize < plan.total
             /\ plan.out = SubSeq(Sorted(plan.first), 1, (plan.page - 1) * PagedReads!PageSize)
             /\ \/ stack.docs = plan.first
                \/ edits # MaxEdits /\ Cardinality(stack.docs) # plan.total
        /\ pc = "done" =>
             /\ IsInjective(plan.out)
             /\ edits >= MaxEdits - 1 => plan.first \subseteq Range(plan.out)

\* Inductive beside IInv, and enough for ReadsAreWhole.
WholeInv ==
    ReadsOK /\ StayedIsThere /\ AlertsAims /\ SearchAims /\ RulesAims /\ CheckedAims
=============================================================================
