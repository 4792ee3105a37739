------------------------------ MODULE Recorder ------------------------------
(***************************************************************************)
(* `cargo xtask record` (src/xtask/src/main.rs): one session against a     *)
(* live stack.  record_session creates marker objects under fixed ids,     *)
(* measures them and deletes some of them again; cleanup then removes what *)
(* CleanupOwnership still holds, whatever happened before; the fixtures    *)
(* are written only when both succeeded.                                   *)
(*                                                                         *)
(* The session is sequential, so its requests are a script: a sequence of  *)
(* steps, each interpreted by one action below.  What surrounds it is not  *)
(* sequential: any request may fail before or after the stack applied it   *)
(* (at most MaxFaults), other clients create objects under the fixed ids,  *)
(* choose another default data view or unset it, at any moment (at most    *)
(* MaxEdits), and the alert rule fires while it is enabled.  Requests that *)
(* only read or that only change the content of a marker object are one    *)
(* "use" step.                                                             *)
(***************************************************************************)
EXTENDS Naturals, Sequences, FiniteSets

CONSTANTS
  MaxFaults,    \* failed requests in a behaviour
  MaxEdits,     \* steps of other clients in a behaviour
  Shared        \* the ids under which other clients create objects

VARIABLES
  phase,        \* "record", "cleanup", "write" or "done"
  pc,           \* the step of the script, or of the cleanup
  at,           \* the request of that step
  there,        \* what the stack holds under each fixed id
  own,          \* CleanupOwnership: what cleanup may delete
  claimed,      \* alert_rule_claimed and alert_index_claimed
  armed,        \* the inventory, package version and nonce are kept
  lease,        \* pending_data_view_default_restore
  default,      \* the stack's default data view
  mover,        \* history: who moved the default last
  enabled,      \* the alert rule runs
  alerts,       \* the alerts of the alert rule
  failed,       \* record_session returned an error
  errors,       \* cleanup collected an error
  published,    \* the fixtures are written
  taken,        \* what the session deleted: pairs of id and object
  faults, edits

vars == <<phase, pc, at, there, own, claimed, armed, lease, default, mover,
          enabled, alerts, failed, errors, published, taken, faults, edits>>
stack == <<there, default, mover, enabled, alerts, taken>>
held == <<own, claimed, armed, lease>>
ends == <<failed, errors, published, edits>>

-----------------------------------------------------------------------------
(* The objects.                                                            *)

Indices == {"scratch_index", "search_index", "data_view_index", "alert_index"}
Views == {"source", "replacement", "companion"}
Dashboards == {"dashboard", "loss"}
Policies == {"policy", "policy_dup"}
Integrations == {"integration", "integration_dup"}
Fleet == Integrations \cup {"parent"}
Objects == {"list", "item", "rule", "alert_rule", "case"} \cup Indices \cup Views
             \cup Dashboards \cup Policies \cup Fleet

ASSUME RecorderAssumption ==
  /\ MaxFaults \in Nat /\ MaxEdits \in Nat
  /\ Shared \subseteq Objects

\* Claimed only once the create's answer, or a read back, proves the marker.
LateClaims == {"list", "item", "rule", "scratch_index", "search_index"}

\* "ours" is this session's, "twice" two cases of its own, for a create sent
\* again; "joined" is written by this session over what another client had put
\* there; "marked" has the same fixed markers and another session's nonce;
\* "foreign" has none.
Written == {"ours", "twice", "joined"}

\* Mutant: any object under the id counts as marked.
ProvesAnything(r, v) == IF r \in Fleet THEN v = "ours" ELSE v # "none"

\* What a read of object v under id r proves: the nonce for Fleet's markers,
\* no more than the id for two of the data views, the fixed markers otherwise.
Proves(r, v) ==
  IF r \in Fleet THEN v = "ours"
  ELSE IF r \in {"source", "replacement"} THEN v # "none"
  ELSE v \in Written \cup {"marked"}

\* The two raw forms in which the stack reports that there is no default, JSON
\* null and the empty string.
Unset == {"none", "empty"}

Attached == \E i \in Integrations : there[i] = "ours"

Leased == lease.phase \in {"create", "explicit"}

-----------------------------------------------------------------------------
(* The script of record_session.                                           *)

Do(op, r) == [op |-> op, r |-> r]

Preflight == <<Do("use", "stack")>>

RuleProbe ==
  <<Do("absent", "list"), Do("create", "list"), Do("absent", "item"), Do("create", "item"),
    Do("absent", "rule"), Do("create", "rule"), Do("use", "rule")>>

PreviewProbe ==
  <<Do("absent", "scratch_index"), Do("write", "scratch_index"),
    Do("prove", "scratch_index"), Do("use", "scratch_index")>>

BundleProbe == <<Do("use", "list"), Do("use", "rule")>>

SearchProbe ==
  <<Do("absent", "search_index"), Do("write", "search_index"),
    Do("prove", "search_index"), Do("use", "search_index")>>

SourceProbe ==
  <<Do("absent", "source"), Do("absent", "replacement"), Do("absent", "data_view_index"),
    Do("absent", "source"), Do("claim", "data_view_index"), Do("write", "data_view_index"),
    Do("prove", "data_view_index"), Do("snapshot", "stack"), Do("lease", "source"),
    Do("create", "source"), Do("leased", "stack"), Do("use", "source")>>

SourceMeasures == <<Do("use", "source")>>

DefaultProbe ==
  <<Do("leased", "stack"), Do("stake", "stack"), Do("default", "source"),
    Do("default", "none"), Do("default", "source"), Do("use", "source")>>

SwapProbe ==
  <<Do("claim", "replacement"), Do("create", "replacement"), Do("delete", "source"),
    Do("gone", "source"), Do("dangling", "source"), Do("restore", "stack"),
    Do("delete", "replacement"), Do("gone", "replacement"),
    Do("delete", "data_view_index"), Do("gone", "data_view_index")>>

LossProbe ==
  <<Do("absent", "dashboard"), Do("absent", "loss"), Do("absent", "companion"),
    Do("claim", "dashboard"), Do("claim", "companion"), Do("create", "companion"),
    Do("claim", "loss"), Do("write", "loss"), Do("delete", "loss"), Do("gone", "loss")>>

DashboardProbe == <<Do("write", "dashboard"), Do("use", "dashboard")>>

\* The bundle is imported over the deleted dashboard and data view.
ImportProbe ==
  <<Do("delete", "dashboard"), Do("delete", "companion"), Do("write", "companion"),
    Do("write", "dashboard"), Do("use", "dashboard"), Do("delete", "dashboard"),
    Do("delete", "companion"), Do("gone", "dashboard"), Do("gone", "companion")>>

PolicyProbe ==
  <<Do("use", "stack"), Do("absent", "policy"), Do("use", "stack"), Do("claim", "policy"),
    Do("create", "policy"), Do("use", "policy")>>

PolicyEnd ==
  <<Do("claim", "policy_dup"), Do("conflict", "policy_dup"), Do("gone", "policy_dup"),
    Do("use", "policy"), Do("delete", "policy"), Do("gone", "policy")>>

ParentProbe ==
  <<Do("use", "stack"), Do("absent", "integration"), Do("absent", "integration_dup"),
    Do("absent", "parent"), Do("arm", "stack"), Do("once", "parent"), Do("use", "stack")>>

BootstrapProbe ==
  <<Do("use", "stack"), Do("once", "integration"), Do("use", "integration"),
    Do("recheck", "integration"), Do("drop", "integration"), Do("recheck", "parent"),
    Do("use", "stack")>>

IntegrationProbe == <<Do("once", "integration"), Do("use", "integration")>>

DuplicateProbe == <<Do("use", "stack"), Do("duplicate", "integration_dup"), Do("use", "parent")>>

FleetEnd ==
  <<Do("recheck", "integration"), Do("use", "integration"), Do("recheck", "integration"),
    Do("delete", "integration"), Do("gone", "integration"), Do("recheck", "parent"),
    Do("delete", "parent"), Do("gone", "parent"), Do("audit", "stack")>>

\* Mutant: the alert rule is claimed after it is created.
AlertProbeClaimsLate ==
  <<Do("absent", "alert_rule"), Do("absent", "alert_index"), Do("quiet", "stack"),
    Do("claim", "alert_index"), Do("write", "alert_index"), Do("prove", "alert_index"),
    Do("create", "alert_rule"), Do("claim", "alert_rule"), Do("poll", "stack")>>

AlertProbe ==
  <<Do("absent", "alert_rule"), Do("absent", "alert_index"), Do("quiet", "stack"),
    Do("claim", "alert_index"), Do("write", "alert_index"), Do("prove", "alert_index"),
    Do("claim", "alert_rule"), Do("create", "alert_rule"), Do("poll", "stack")>>

TriageProbe == <<Do("use", "alert_rule"), Do("disable", "alert_rule")>>

CaseProbe == <<Do("absent", "case"), Do("claim", "case"), Do("write", "case"), Do("use", "case")>>

CaseEnd == <<Do("delete", "case"), Do("gone", "case")>>

AlertEnd == <<Do("close", "stack"), Do("sweep", "stack")>>

Script ==
  Preflight \o RuleProbe \o PreviewProbe \o BundleProbe \o SearchProbe \o SourceProbe
    \o SourceMeasures \o DefaultProbe \o SwapProbe \o LossProbe \o DashboardProbe
    \o ImportProbe \o PolicyProbe \o PolicyEnd \o ParentProbe \o BootstrapProbe
    \o IntegrationProbe \o DuplicateProbe \o FleetEnd \o AlertProbe \o TriageProbe
    \o CaseProbe \o CaseEnd \o AlertEnd

(* The order of cleanup.                                                   *)

FleetSweep == <<Do("remove", "integration"), Do("remove", "integration_dup"),
                Do("remove", "parent"), Do("audit", "stack")>>

ContentSweep ==
  <<Do("restore", "stack"), Do("remove", "policy"), Do("remove", "policy_dup"),
    Do("remove", "dashboard"), Do("remove", "loss"), Do("remove", "source"),
    Do("remove", "replacement"), Do("remove", "companion"), Do("remove", "data_view_index")>>

ProbeSweep ==
  <<Do("remove", "rule"), Do("remove", "item"), Do("remove", "list"),
    Do("remove", "scratch_index"), Do("remove", "search_index"),
    Do("remove", "alert_rule"), Do("remove", "alert_index")>>

LastSweep ==
  <<Do("remove", "case"), Do("still", "alert_rule"), Do("still", "alert_index"),
    Do("sweep", "stack")>>

Sweep == FleetSweep \o ContentSweep \o ProbeSweep \o LastSweep

-----------------------------------------------------------------------------
(* Steps, requests and their outcomes.                                     *)

Steps == IF phase = "record" THEN Script ELSE Sweep

TypeOK ==
  /\ phase \in {"record", "cleanup", "write", "done"} /\ pc \in 1 .. Len(Steps)
  /\ at \in {"first", "delete", "verify", "reread", "refused", "post", "check"}
  /\ there \in [Objects -> {"none", "marked", "foreign"} \cup Written]
  /\ own \subseteq Objects /\ claimed \subseteq Objects
  /\ lease \in [phase : {"none", "seen", "create", "explicit"},
                was : Unset \cup Views \cup {"kept", "others"}]
  /\ default \in Unset \cup Views \cup {"kept", "others"}
  /\ mover \in {"session", "unseen", "seen"}
  /\ alerts \in {"none", "open", "closed"}
  /\ {armed, enabled, failed, errors, published} \subseteq BOOLEAN
  /\ taken \subseteq Objects \X ({"marked", "foreign"} \cup Written)
  /\ faults \in 0 .. MaxFaults /\ edits \in 0 .. MaxEdits

Running == phase \in {"record", "cleanup"}
Doing(op) == Running /\ Steps[pc].op = op
Target == Steps[pc].r

\* Mutant: one step further than the last.
GoPast ==
  /\ at' = "first"
  /\ IF pc <= Len(Steps)
     THEN pc' = pc + 1 /\ UNCHANGED phase
     ELSE /\ pc' = 1
          /\ phase' = IF phase = "record" THEN "cleanup"
                      ELSE IF failed \/ errors THEN "done" ELSE "write"

\* The next step, or cleanup after the last one; after cleanup the fixtures,
\* unless either part failed.
Go ==
  /\ at' = "first"
  /\ IF pc < Len(Steps)
     THEN pc' = pc + 1 /\ UNCHANGED phase
     ELSE /\ pc' = 1
          /\ phase' = IF phase = "record" THEN "cleanup"
                      ELSE IF failed \/ errors THEN "done" ELSE "write"

Continue == Go /\ UNCHANGED <<failed, errors>>

\* record_session returns its first error, and cleanup starts; cleanup
\* collects an error and goes on.
Stop ==
  IF phase = "record"
  THEN phase' = "cleanup" /\ pc' = 1 /\ at' = "first" /\ failed' = TRUE /\ UNCHANGED errors
  ELSE /\ errors' = TRUE /\ UNCHANGED failed
       /\ at' = "first"
       /\ IF pc < Len(Steps) THEN pc' = pc + 1 /\ UNCHANGED phase
          ELSE pc' = 1 /\ phase' = "done"

Then(request) == at' = request /\ UNCHANGED <<phase, pc, failed, errors>>

Sound == UNCHANGED faults
Fault == faults < MaxFaults /\ faults' = faults + 1

\* An object appears under r, or is written over.
Put(r, v) ==
  /\ there' = [there EXCEPT ![r] = v]
  /\ enabled' = (enabled \/ r = "alert_rule")
  /\ UNCHANGED <<alerts, taken>>

\* Whatever is under r is deleted.
Take(r) ==
  /\ there' = [there EXCEPT ![r] = "none"]
  /\ taken' = taken \cup {<<r, there[r]>>}
  /\ enabled' = (enabled /\ r # "alert_rule")
  /\ UNCHANGED <<alerts, default, mover>>

-----------------------------------------------------------------------------
(* The steps of the script.                                                *)

\* require_absent_*, and the final existence checks of cleanup.
RequireAbsent ==
  /\ Doing("absent") \/ (Doing("still") /\ Target \in claimed)
  /\ \/ there[Target] = "none" /\ Sound /\ Continue
     \/ there[Target] # "none" /\ Sound /\ Stop
     \/ Fault /\ Stop
  /\ UNCHANGED <<stack, held, published, edits>>

Unclaimed ==
  /\ Doing("still") /\ Target \notin claimed
  /\ Continue
  /\ UNCHANGED <<stack, held, published, edits, faults>>

\* Ownership recorded before the request that creates the object.
Claim ==
  /\ Doing("claim")
  /\ own' = own \cup {Target}
  /\ claimed' = claimed \cup ({Target} \cap {"alert_rule", "alert_index"})
  /\ Continue
  /\ UNCHANGED <<stack, armed, lease, published, edits, faults>>

\* A data view may become the default by being created; the recorder reckons
\* with the source even displacing another one.
Implied(r) ==
  {default} \cup {v \in Views \cap {r} : default \in Unset \/ r = "source"}

\* A request of the session leaves d as the default.
Move(d) == default' = d /\ mover' = IF d = default THEN mover ELSE "session"

\* A create with a fixed id: the stack refuses an id that is taken.
Create ==
  /\ Doing("create")
  /\ \/ /\ there[Target] = "none"
        /\ Put(Target, "ours") /\ \E d \in Implied(Target) : Move(d)
        /\ \/ /\ Sound /\ Continue
              /\ own' = own \cup (LateClaims \cap {Target})
           \/ Fault /\ Stop /\ UNCHANGED own
     \/ there[Target] # "none" /\ Sound /\ Stop /\ UNCHANGED <<stack, own>>
     \/ Fault /\ Stop /\ UNCHANGED <<stack, own>>
  /\ UNCHANGED <<claimed, armed, lease, published, edits>>

\* A write that replaces: a document into an index, a dashboard by PUT, an
\* import with overwrite; and the case, which has no fixed id.
Write ==
  /\ Doing("write")
  /\ \/ /\ Put(Target, IF there[Target] \in {"none", "ours"} THEN "ours" ELSE "joined")
        /\ \E d \in Implied(Target) : Move(d)
        /\ (Sound /\ Continue) \/ (Fault /\ Stop)
     \/ /\ Target = "case" /\ Put(Target, "twice") /\ UNCHANGED <<default, mover>>
        /\ Fault /\ Continue
     \/ Fault /\ Stop /\ UNCHANGED stack
  /\ UNCHANGED <<held, published, edits>>

\* The document is read back before the index is claimed.
Prove ==
  /\ Doing("prove")
  /\ \/ /\ Proves(Target, there[Target]) /\ Sound /\ Continue
        /\ own' = own \cup (LateClaims \cap {Target})
     \/ ~Proves(Target, there[Target]) /\ Sound /\ Stop /\ UNCHANGED own
     \/ Fault /\ Stop /\ UNCHANGED own
  /\ UNCHANGED <<stack, claimed, armed, lease, published, edits>>

Use ==
  /\ Doing("use")
  /\ LET works == Target \in Objects => there[Target] # "none"
     IN  \/ works /\ Sound /\ Continue
         \/ ~works /\ Sound /\ Stop
         \/ Fault /\ Stop
  /\ UNCHANGED <<stack, held, published, edits>>

\* Deletes of the script, a case's by its own id; their answers are recorded.
Delete ==
  /\ Doing("delete")
  /\ \/ /\ there[Target] # "none"
        /\ IF there[Target] = "twice"
           THEN Put(Target, "ours") /\ UNCHANGED <<default, mover>>
           ELSE Take(Target)
        /\ (Sound /\ Continue) \/ (Fault /\ Stop)
     \/ there[Target] = "none" /\ Sound /\ Stop /\ UNCHANGED stack
     \/ Fault /\ Stop /\ UNCHANGED stack
  /\ UNCHANGED <<held, published, edits>>

\* The delete counts once a read no longer finds the object.
Gone ==
  /\ Doing("gone")
  /\ \/ there[Target] = "none" /\ Sound /\ Continue /\ own' = own \ {Target}
     \/ there[Target] # "none" /\ Sound /\ Stop /\ UNCHANGED own
     \/ Fault /\ Stop /\ UNCHANGED own
  /\ UNCHANGED <<stack, claimed, armed, lease, published, edits>>

\* The duplicate's name is refused; only a read shows that its id stayed free.
Conflict ==
  /\ Doing("conflict")
  /\ \/ Sound /\ Continue /\ UNCHANGED stack
     \/ /\ there[Target] = "none"
        /\ Put(Target, "ours") /\ UNCHANGED <<default, mover>>
        /\ Sound \/ Fault
        /\ Stop
     \/ Fault /\ Stop /\ UNCHANGED stack
  /\ UNCHANGED <<held, published, edits>>

-----------------------------------------------------------------------------
(* Fleet: one-shot requests and the session's nonce.                       *)

\* The inventory, the package version and the nonce are kept before the
\* first marker is written.
Arm ==
  /\ Doing("arm")
  /\ armed' = TRUE
  /\ Continue
  /\ UNCHANGED <<stack, own, claimed, lease, published, edits, faults>>

\* A create sent once.  Any answer but the marker's own identity leaves open
\* whether it was applied; the duplicate is expected to be refused.
CreateOnce ==
  /\ Doing("once") \/ Doing("duplicate")
  /\ at = "first"
  /\ \/ /\ there[Target] = "none"
        /\ Put(Target, "ours") /\ UNCHANGED <<default, mover>>
        /\ \/ /\ Sound /\ own' = own \cup {Target}
              /\ IF Doing("once") THEN Continue ELSE Stop
           \/ Fault /\ Then("reread") /\ UNCHANGED own
     \/ there[Target] # "none" /\ Sound /\ Then("refused") /\ UNCHANGED <<stack, own>>
     \/ Doing("duplicate") /\ Sound /\ Then("refused") /\ UNCHANGED <<stack, own>>
     \/ Fault /\ Then("reread") /\ UNCHANGED <<stack, own>>
  /\ UNCHANGED <<claimed, armed, lease, published, edits>>

\* claim_ambiguous_*: the id is read again and claimed only with this
\* session's nonce, the parent only with nothing attached.  A refused
\* duplicate whose id is free is what the script wanted.
ClaimAmbiguous ==
  /\ Doing("once") \/ Doing("duplicate")
  /\ at \in {"reread", "refused"}
  /\ \/ /\ Sound
        /\ own' = own \cup {r \in {Target} :
                              Proves(r, there[r]) /\ (r = "parent" => ~Attached)}
        /\ IF Doing("duplicate") /\ at = "refused" /\ there[Target] = "none"
           THEN Continue ELSE Stop
     \/ Fault /\ Stop /\ UNCHANGED own
  /\ UNCHANGED <<stack, claimed, armed, lease, published, edits>>

\* reread_marker_*_before_mutation.
Recheck ==
  /\ Doing("recheck")
  /\ LET intact == Proves(Target, there[Target]) /\ (Target = "parent" => ~Attached)
     IN  \/ intact /\ Sound /\ Continue
         \/ ~intact /\ Sound /\ Stop
         \/ Fault /\ Stop
  /\ UNCHANGED <<stack, held, published, edits>>

\* The bootstrap policy is deleted once; its answer is not believed either way.
Drop ==
  /\ Doing("drop") /\ at = "first"
  /\ \/ there[Target] # "none" /\ Take(Target) /\ (Sound \/ Fault)
     \/ there[Target] = "none" /\ Sound /\ UNCHANGED stack
     \/ Fault /\ UNCHANGED stack
  /\ Then("verify")
  /\ UNCHANGED <<held, published, edits>>

DropVerified ==
  /\ Doing("drop") /\ at = "verify"
  /\ \/ there[Target] = "none" /\ Sound /\ Continue /\ own' = own \ {Target}
     \/ there[Target] # "none" /\ Sound /\ Stop /\ UNCHANGED own
     \/ Fault /\ Stop /\ UNCHANGED own
  /\ UNCHANGED <<stack, claimed, armed, lease, published, edits>>

\* With no policy owned any more, the inventory is compared and the three ids
\* are proved free; record_session ends with the same helper.
Audit ==
  /\ Doing("audit")
  /\ IF own \cap Fleet = {} /\ armed
     THEN LET clean == \A r \in Fleet : there[r] = "none"
          IN  \/ clean /\ Sound /\ Continue /\ armed' = FALSE
              \/ ~clean /\ Sound /\ Stop /\ UNCHANGED armed
              \/ Fault /\ Stop /\ UNCHANGED armed
     ELSE Sound /\ Continue /\ UNCHANGED armed
  /\ UNCHANGED <<stack, own, claimed, lease, published, edits>>

-----------------------------------------------------------------------------
(* The default data view.                                                  *)

\* What require_pending_data_view_default_state accepts of a default: the raw
\* snapshot itself, else what the decoded forms allow.
Expected(l, d) ==
  \/ d = l.was
  \/ l.phase = "create" /\ l.was \in Unset /\ d = "source"
  \/ l.phase = "explicit" /\ d \in {"source"} \cup Unset

\* How the stack may report a default that was written; a null comes back in
\* either form.
Reported(d) == IF d \in Unset THEN Unset ELSE {d}

\* Mutant: any default is restored over.
RestorableAlways(l, d) == TRUE

\* Cleanup must also be able to restore a default the source displaced.
Restorable(l, d) == Expected(l, d) \/ (l.phase = "create" /\ d = "source")

Snapshot ==
  /\ Doing("snapshot")
  /\ \/ /\ default \notin {"source", "replacement"} /\ Sound /\ Continue
        /\ lease' = [phase |-> "seen", was |-> default]
     \/ default \in {"source", "replacement"} /\ Sound /\ Stop /\ UNCHANGED lease
     \/ Fault /\ Stop /\ UNCHANGED lease
  /\ UNCHANGED <<stack, own, claimed, armed, published, edits>>

\* Mutant: the source is claimed, the lease is left for later.
TakeNoLease ==
  /\ Doing("lease")
  /\ \/ /\ default = lease.was /\ Sound /\ Continue
        /\ own' = own \cup {Target} /\ UNCHANGED lease
     \/ default # lease.was /\ Sound /\ Stop /\ UNCHANGED <<lease, own>>
     \/ Fault /\ Stop /\ UNCHANGED <<lease, own>>
  /\ UNCHANGED <<stack, claimed, armed, published, edits>>

\* The lease and the source are claimed before the source is created.
TakeLease ==
  /\ Doing("lease")
  /\ \/ /\ default = lease.was /\ Sound /\ Continue
        /\ lease' = [lease EXCEPT !.phase = "create"] /\ own' = own \cup {Target}
     \/ default # lease.was /\ Sound /\ Stop /\ UNCHANGED <<lease, own>>
     \/ Fault /\ Stop /\ UNCHANGED <<lease, own>>
  /\ UNCHANGED <<stack, claimed, armed, published, edits>>

CheckLeased ==
  /\ Doing("leased")
  /\ \/ Expected(lease, default) /\ Sound /\ Continue
     \/ ~Expected(lease, default) /\ Sound /\ Stop
     \/ Fault /\ Stop
  /\ UNCHANGED <<stack, held, published, edits>>

\* From here on the session sets the default itself.
Stake ==
  /\ Doing("stake")
  /\ lease' = [lease EXCEPT !.phase = "explicit"]
  /\ Continue
  /\ UNCHANGED <<stack, own, claimed, armed, published, edits, faults>>

SetDefault ==
  /\ Doing("default")
  /\ \/ /\ \E d \in Reported(Target) : Move(d)
        /\ (Sound /\ Continue) \/ (Fault /\ Stop)
     \/ Fault /\ Stop /\ UNCHANGED <<default, mover>>
  /\ UNCHANGED <<there, enabled, alerts, taken, held, published, edits>>

\* The swap deletes the source and leaves it as the default.
Dangling ==
  /\ Doing("dangling")
  /\ \/ default = Target /\ Sound /\ Continue
     \/ default # Target /\ Sound /\ Stop
     \/ Fault /\ Stop
  /\ UNCHANGED <<stack, held, published, edits>>

\* restore_pending_data_view_default: read, post, read again.
RestoreRead ==
  /\ Doing("restore") /\ at = "first"
  /\ IF Leased
     THEN \/ /\ Sound /\ mover' = IF mover = "unseen" THEN "seen" ELSE mover
             /\ IF Restorable(lease, default) THEN Then("post") ELSE Stop
          \/ Fault /\ Stop /\ UNCHANGED mover
     ELSE /\ Sound /\ UNCHANGED mover
          /\ IF phase = "record" THEN Stop ELSE Continue
  /\ UNCHANGED <<there, default, enabled, alerts, taken, held, published, edits>>

RestorePost ==
  /\ Doing("restore") /\ at = "post"
  /\ \/ /\ \E d \in Reported(lease.was) : Move(d)
        /\ (Sound /\ Then("verify")) \/ (Fault /\ Stop)
     \/ Fault /\ Stop /\ UNCHANGED <<default, mover>>
  /\ UNCHANGED <<there, enabled, alerts, taken, held, published, edits>>

RestoreVerify ==
  /\ Doing("restore") /\ at = "verify"
  /\ \/ /\ default = lease.was /\ Sound /\ Continue
        /\ lease' = [lease EXCEPT !.phase = "none"]
     \/ default # lease.was /\ Sound /\ Stop /\ UNCHANGED lease
     \/ Fault /\ Stop /\ UNCHANGED lease
  /\ UNCHANGED <<stack, own, claimed, armed, published, edits>>

-----------------------------------------------------------------------------
(* Alerts.                                                                 *)

\* No alert of the alert rule may be open before the session starts its own.
Quiet ==
  /\ Doing("quiet")
  /\ \/ alerts # "open" /\ Sound /\ Continue
     \/ alerts = "open" /\ Sound /\ Stop
     \/ Fault /\ Stop
  /\ UNCHANGED <<stack, held, published, edits>>

\* The open alerts are polled for; the attempts may run out.
Poll ==
  /\ Doing("poll")
  /\ \/ alerts = "open" /\ Sound /\ Continue
     \/ Fault /\ Stop
  /\ UNCHANGED <<stack, held, published, edits>>

Disable ==
  /\ Doing("disable")
  /\ \/ enabled' = FALSE /\ ((Sound /\ Continue) \/ (Fault /\ Stop))
     \/ Fault /\ Stop /\ UNCHANGED enabled
  /\ UNCHANGED <<there, default, mover, alerts, taken, held, published, edits>>

\* The close by query that is recorded: the rule is disabled once more, best
\* effort, and a failed close is tried again, up to five times.
Close ==
  /\ Doing("close")
  /\ \/ enabled' = FALSE /\ Sound
     \/ enabled' = enabled /\ Fault
  /\ \/ alerts' = "closed" /\ (Continue \/ Stop)
     \/ alerts' = alerts /\ Stop
  /\ UNCHANGED <<there, default, mover, taken, held, published, edits>>

\* sweep_close_marker_alerts: disable, then close until a read finds no open
\* alert; a failed read counts as an open alert.
SweepDisable ==
  /\ Doing("sweep") /\ at = "first"
  /\ \/ enabled' = FALSE /\ Sound
     \/ enabled' = enabled /\ Fault
  /\ Then("check")
  /\ UNCHANGED <<there, default, mover, alerts, taken, held, published, edits>>

SweepCheck ==
  /\ Doing("sweep") /\ at = "check"
  /\ \/ alerts # "open" /\ Sound /\ Continue
     \/ alerts = "open" /\ Sound /\ Then("post")
     \/ Fault /\ Then("post")
  /\ UNCHANGED <<stack, held, published, edits>>

SweepClose ==
  /\ Doing("sweep") /\ at = "post"
  /\ \/ alerts' = "closed" /\ ((Sound /\ Then("check")) \/ (Fault /\ Stop))
     \/ Fault /\ Stop /\ UNCHANGED alerts
  /\ UNCHANGED <<there, default, mover, enabled, taken, held, published, edits>>

-----------------------------------------------------------------------------
(* Cleanup.                                                                *)

\* Mutant: whatever is owned is removed, in whatever state the rest is.
DueAtOnce(r) == r \in own

\* What is owned is removed, dependants first: the parent after its policies,
\* the data views after a restored default and the dashboards, their index
\* after them.
Due(r) ==
  /\ r \in own
  /\ r = "parent" => own \cap Integrations = {}
  /\ r \in Views \cup {"data_view_index"} => ~Leased /\ own \cap Dashboards = {}
  /\ r = "data_view_index" => own \cap Views = {}

NotDue ==
  /\ Doing("remove") /\ at = "first" /\ ~Due(Target)
  /\ Continue
  /\ UNCHANGED <<stack, held, published, edits, faults>>

\* The case keeps its flag to the end: it has no id to be read by again.
Released == own \ ({Target} \ {"case"})

\* Indices read by their marker document, whose absence counts as the index's.
KnownByDocument == {"scratch_index", "search_index", "alert_index"}

\* The object is read first: absent, the ownership ends; without the marker,
\* the deletion is refused; Fleet's needs the nonce, its parent no attachment.
Look ==
  /\ Doing("remove") /\ at = "first" /\ Due(Target)
  /\ LET found == there[Target]
         mine  == /\ Proves(Target, found)
                  /\ Target \in Fleet => armed
                  /\ Target = "parent" => ~Attached
     IN  \/ found = "none" /\ Sound /\ Continue /\ own' = Released
         \/ /\ found = "foreign" /\ Target \in KnownByDocument
            /\ Sound /\ Continue /\ own' = Released
         \/ found # "none" /\ mine /\ Sound /\ Then("delete") /\ UNCHANGED own
         \/ found # "none" /\ ~mine /\ Sound /\ Stop /\ UNCHANGED own
         \/ Fault /\ Stop /\ UNCHANGED own
  /\ UNCHANGED <<stack, claimed, armed, lease, published, edits>>

\* Deletes whose effect cleanup reads back before it gives the ownership up.
Verified == Views \cup Dashboards \cup Policies \cup Fleet \cup {"data_view_index", "case"}

Remove ==
  /\ Doing("remove") /\ at = "delete"
  /\ \/ /\ there[Target] # "none" /\ Take(Target)
        /\ \/ Sound /\ Target \in Verified /\ Then("verify") /\ UNCHANGED own
           \/ Sound /\ Target \notin Verified /\ Continue /\ own' = own \ {Target}
           \/ Fault /\ Stop /\ UNCHANGED own
     \/ there[Target] = "none" /\ Sound /\ Stop /\ UNCHANGED <<stack, own>>
     \/ Fault /\ Stop /\ UNCHANGED <<stack, own>>
  /\ UNCHANGED <<claimed, armed, lease, published, edits>>

RemoveVerified ==
  /\ Doing("remove") /\ at = "verify"
  /\ \/ there[Target] = "none" /\ Sound /\ Continue /\ own' = Released
     \/ there[Target] # "none" /\ Sound /\ Stop /\ UNCHANGED own
     \/ Fault /\ Stop /\ UNCHANGED own
  /\ UNCHANGED <<stack, claimed, armed, lease, published, edits>>

\* record writes the fixtures, one file after the other.
WriteRecording ==
  /\ phase = "write"
  /\ phase' = "done"
  /\ published' = TRUE
  /\ UNCHANGED <<pc, at, stack, held, failed, errors, edits, faults>>

\* record returns its error or its success, and the process ends.
Exited == phase = "done" /\ UNCHANGED vars

-----------------------------------------------------------------------------
(* The rest of the world.                                                  *)

\* Another client, or another recorder, takes an id that is free.  Nobody
\* deletes or rewrites the session's objects.
OthersCreate ==
  /\ edits < MaxEdits /\ edits' = edits + 1
  /\ phase \in {"record", "cleanup"}
  /\ \E r \in Shared, v \in {"marked", "foreign"} :
       there[r] = "none" /\ there' = [there EXCEPT ![r] = v]
  /\ UNCHANGED <<phase, pc, at, held, default, mover, enabled, alerts, taken, failed, errors,
                 published, faults>>

\* The default may be chosen, or unset, at any time: nothing on the stack ties
\* the read and the post of a restore together.
OthersSetDefault ==
  /\ edits < MaxEdits /\ edits' = edits + 1
  /\ phase \in {"record", "cleanup"}
  /\ \E d \in {"others"} \cup Unset : d # default /\ default' = d
  /\ mover' = "unseen"
  /\ UNCHANGED <<phase, pc, at, held, there, enabled, alerts, taken, failed, errors,
                 published, faults>>

\* The alert rule fires over its index.
Fire ==
  /\ enabled /\ there["alert_rule"] = "ours" /\ there["alert_index"] \in Written
  /\ Running /\ alerts # "open"
  /\ alerts' = "open"
  /\ UNCHANGED <<phase, pc, at, held, there, default, mover, enabled, taken, failed, errors,
                 published, faults, edits>>

-----------------------------------------------------------------------------
Init ==
  /\ phase = "record" /\ pc = 1 /\ at = "first"
  /\ there = [r \in Objects |-> "none"]
  /\ own = {} /\ claimed = {} /\ armed = FALSE
  /\ lease = [phase |-> "none", was |-> "none"]
  /\ default \in Unset \cup {"kept"} /\ mover = "seen"
  /\ enabled = FALSE /\ alerts \in {"none", "closed"}
  /\ failed = FALSE /\ errors = FALSE /\ published = FALSE
  /\ taken = {} /\ faults = 0 /\ edits = 0

Next ==
  \/ RequireAbsent \/ Unclaimed \/ Claim \/ Create \/ Write \/ Prove \/ Use \/ Delete
  \/ Gone \/ Conflict
  \/ Arm \/ CreateOnce \/ ClaimAmbiguous \/ Recheck \/ Drop \/ DropVerified \/ Audit
  \/ Snapshot \/ TakeLease \/ CheckLeased \/ Stake \/ SetDefault \/ Dangling
  \/ RestoreRead \/ RestorePost \/ RestoreVerify
  \/ Quiet \/ Poll \/ Disable \/ Close \/ SweepDisable \/ SweepCheck \/ SweepClose
  \/ NotDue \/ Look \/ Remove \/ RemoveVerified \/ WriteRecording \/ Exited
  \/ OthersCreate \/ OthersSetDefault \/ Fire

Spec == Init /\ [][Next]_vars

-----------------------------------------------------------------------------
(* Properties.                                                             *)

\* Nothing of another client is deleted: no object without the session's
\* markers, and none of Fleet's with another session's nonce.  Two data views
\* are left out: cleanup knows them by their id alone (owns_recorded_data_view).
ForeignSurvives ==
  \A x \in taken :
    /\ x[2] = "foreign" => x[1] \in {"source", "replacement"}
    /\ x[1] \in Fleet => x[2] = "ours"

\* A session whose fixtures are written has left nothing on the stack; and
\* when only the recording failed, whatever was claimed before it was created
\* is gone too, also after a create whose answer was lost.
NothingLeftBehind ==
  /\ published => /\ \A r \in Objects : there[r] \notin Written
                  /\ ~Leased /\ own \subseteq {"case"} /\ alerts # "open"
  /\ phase = "done" /\ ~errors =>
       \A r \in Objects \ (LateClaims \cup Fleet) : there[r] \notin Written

\* While the default is a marker view the lease to restore it is held; without it,
\* what the session itself set last is the raw default it found, or the companion,
\* which the stack may make the default and no lease covers.  And a restore displaces
\* another client's choice only when that was made behind the restore's own read
\* (restore_pending_data_view_default reads, then posts by force).  An unset default
\* is no choice here: the code takes it for its own and restores over it.
DefaultIsGivenBack ==
  /\ [](~Leased => /\ default \notin {"source", "replacement"}
                   /\ mover = "session" => default \in {lease.was, "companion"})
  /\ [][Doing("restore") /\ default' # default /\ mover' = "session"
           => default # "others" \/ mover = "unseen"]_vars

\* What each object must outlive.
Dependants(r) ==
  CASE r = "parent" -> Integrations
    [] r = "companion" -> Dashboards
    [] r = "data_view_index" -> Views
    [] OTHER -> {}

\* Nothing is deleted before what refers to it: no parent with an attached
\* policy, no data view under a dashboard, no index under a data view.
DependantsGoFirst ==
  [][\A r \in Objects :
       there[r] \in Written /\ there'[r] = "none" =>
         \A d \in Dependants(r) : there[d] # "ours"]_vars

=============================================================================
