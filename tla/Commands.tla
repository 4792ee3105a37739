------------------------------ MODULE Commands ------------------------------
(* Every guarded command in one specification: a run is one command of one     *)
(* component, with other clients at work on the same stack.                    *)
EXTENDS GuardedCommand

DataViews     == INSTANCE DataViews
Dashboards    == INSTANCE Dashboards
AgentPolicies == INSTANCE AgentPolicies
Triage        == INSTANCE Triage
Detection     == INSTANCE Detection
PagedReads    == INSTANCE PagedReads

Init ==
    \/ DataViews!Init \/ Dashboards!Init \/ AgentPolicies!Init
    \/ Triage!Init \/ Detection!Init \/ PagedReads!Init

\* The command line names the component, and the adapter its operation.
Next ==
    \/ cmd.family = "data_views" /\ DataViews!Next
    \/ cmd.family = "dashboards" /\ Dashboards!Next
    \/ cmd.family = "agent_policies" /\ AgentPolicies!Next
    \/ cmd.family = "triage" /\ Triage!Next
    \/ cmd.family = "detection" /\ Detection!Next
    \/ cmd.family = "reads" /\ PagedReads!Next

Spec == Init /\ [][Next]_vars /\ WF_vars(Next)

-----------------------------------------------------------------------------
StackType ==
    CASE cmd.family = "data_views"     -> stack \in DataViews!StackType
      [] cmd.family = "dashboards"     -> stack \in Dashboards!StackType
      [] cmd.family = "agent_policies" -> stack \in AgentPolicies!StackType
      [] cmd.family = "triage"         -> stack \in Triage!StackType
      [] cmd.family = "detection"      -> stack \in Detection!StackType
      [] cmd.family = "reads"          -> stack \in PagedReads!StackType

\* The variables hold what the components put there; each row and each write is
\* about one object.
TypeOK ==
    /\ StackType
    /\ faults \in 0..MaxFaults /\ edits \in 0..MaxEdits
    /\ moved \subseteq Ids \cup {0} \cup PagedReads!Docs
    /\ Range(todo) \subseteq Ids
    /\ \A r \in rows : r.id \in Ids /\ r.result \in Results /\ r.applied \in BOOLEAN
    /\ \A w \in writes : w.id \in Ids \cup {0}

\* A write reaches an object that is as the preview showed it, unless another
\* client changed it behind the last read of it, or an earlier request of this
\* run took effect without its answer coming back.
WritesWhatWasShown ==
    \A w \in writes : w.asShown \/ \E v \in writes : v.id = w.id /\ ~v.answered

\* The reports of imports and of agent policies say of each object whether it
\* was changed; a skipped object says so everywhere.
SaysUntouched(r) ==
    /\ ~r.applied
    /\ r.result = "skipped" \/ cmd.op = "import" \/ cmd.family = "agent_policies"

\* A row that says that its object was not changed belongs to one that no
\* answered request changed; a row that says it was, to one that a request did
\* change; and a run that exits 0 reports every object an answered request changed.
ReportIsTrue ==
    /\ \A r \in rows :
         /\ SaysUntouched(r) => \A w \in writes : w.id = r.id => ~w.answered
         /\ r.applied => \E w \in writes : w.id = r.id
    /\ pc = "done" /\ ExitCode = 0 =>
         \A w \in writes : w.answered /\ w.id # 0 => \E r \in rows : r.id = w.id

Goal(o) ==
    CASE cmd.family = "data_views"     -> DataViews!Goal(o)
      [] cmd.family = "dashboards"     -> Dashboards!Goal(o)
      [] cmd.family = "agent_policies" -> AgentPolicies!Goal(o)
      [] cmd.family = "triage"         -> Triage!Goal(o)
      [] cmd.family = "detection"      -> Detection!Goal(o)
      [] cmd.family = "reads"          -> PagedReads!Goal(o)

\* When a confirmed command exits 0, each object it was asked to change is as
\* asked, was reported as skipped, or was changed by another client behind the
\* last read of it.
SuccessIsReal ==
    pc = "done" /\ ExitCode = 0 /\ cmd.yes =>
        \A o \in cmd.targets :
            \/ o \in moved
            \/ \E r \in rows : r.id = o /\ r.result = "skipped"
            \/ Goal(o)

\* A read that succeeds has every document that nobody touched, and none of
\* those twice: searches and alerts as long as their hits carry the sort values
\* the next page is asked with, rules whatever others create, delete or switch
\* meanwhile, the lists of dashboards and Fleet policies for any one change.
\* Searches, alerts and the checked lists bring nothing twice at all.
Untouched == PagedReads!Docs \ (moved \cup stack.flipped)

ReadsAreWhole ==
    cmd.family = "reads" /\ pc = "done" =>
        /\ cmd.reader \in {"search", "alerts", "checked"} => IsInjective(plan.out)
        /\ cmd.reader = "rules" =>
             \A i, j \in DOMAIN plan.out :
                 plan.out[i] = plan.out[j] /\ plan.out[i] \in Untouched => i = j
        /\ \/ cmd.reader \in {"search", "alerts"} /\ cmd.limit = 0 /\ ~plan.cut
           \/ cmd.reader = "checked" /\ edits >= MaxEdits - 1
           \/ cmd.reader = "rules"
           => plan.first \cap Untouched \subseteq Range(plan.out)

\* One change during a read of rules is noticed, or it does no harm: a read that
\* succeeds has each rule that was there throughout and still matches, once.
OneChangeIsNoticed ==
    /\ cmd.family = "reads" /\ pc = "done" /\ cmd.reader = "rules" /\ edits >= MaxEdits - 1
    => /\ IsInjective(plan.out)
       /\ "enabled" \notin cmd.filter => plan.first \ moved \subseteq Range(plan.out)

\* A read of exception lists that succeeds has every list that was there
\* throughout: what the reader refuses a short page for.
ExceptionReadIsWhole ==
    cmd.family = "reads" /\ pc = "done" /\ cmd.reader = "exceptions" =>
        plan.first \ moved \subseteq Range(plan.out)

\* Points in time and async queries do not outlive the command, unless the
\* request that opens or closes them went wrong.
LeavesNothingOpen ==
    cmd.family = "reads" /\ Ended /\ stack.open => plan.lost

-----------------------------------------------------------------------------
(* The commands implement the promise of a confirmed run.                      *)

Planning ==
    pc \in {"start", "preflight", "plan", "package", "resolve", "default", "references",
            "plan_default", "alerts", "alert_ids", "lists", "bundle",
           "page", "pit", "poll", "close"}

Run == INSTANCE ConfirmedRun WITH
    Objects   <- Ids \cup {0},
    phase     <- IF Ended THEN "ended" ELSE IF Planning THEN "planning" ELSE "applying",
    confirmed <- cmd.yes,
    targets   <- cmd.targets \cup (IF cmd.op = "swap" THEN {0} ELSE {})
                     \cup (IF cmd.op = "import_lists" THEN cmd.items ELSE {}),
    done      <- {w.id : w \in writes},
    claimed   <- {r.id : r \in {x \in rows : x.applied}}

\* Nothing is changed before the operator confirmed the preview or behind the
\* report, and nothing the command was not asked to change; no effect is claimed
\* that there is not, and every command ends.
IsConfirmedRun == Run!Spec
=============================================================================
