---------------------------- MODULE ConfirmedRun ----------------------------
(***************************************************************************)
(* What every guarded command promises, whatever it is about: nothing is    *)
(* changed before the operator confirmed the preview, nothing behind the    *)
(* report, only objects of the preview are, the report claims an effect     *)
(* only when there is one, and the run ends.                                *)
(***************************************************************************)
CONSTANT Objects

VARIABLES
    phase,      \* "planning", "applying" or "ended"
    confirmed,  \* the operator gave --yes
    targets,    \* objects the command was asked to change
    done,       \* objects it has changed
    claimed     \* objects the report says it has changed

vars == <<phase, confirmed, targets, done, claimed>>

Init ==
    /\ phase = "planning" /\ confirmed \in BOOLEAN /\ targets \in SUBSET Objects
    /\ done = {} /\ claimed = {}

\* Planning ends in the preview; without --yes the run ends there.
Preview ==
    /\ phase = "planning"
    /\ phase' \in (IF confirmed THEN {"applying", "ended"} ELSE {"ended"})
    /\ UNCHANGED <<confirmed, targets, done, claimed>>

\* Some objects are changed, some changes are reported, and the run may end.
Apply ==
    /\ phase = "applying" /\ phase' \in {"applying", "ended"}
    /\ done \subseteq done' /\ done' \subseteq targets
    /\ claimed \subseteq claimed' /\ claimed' \subseteq done'
    /\ UNCHANGED <<confirmed, targets>>

Next == Preview \/ Apply
Safety == Init /\ [][Next]_vars
Spec == Safety /\ <>(phase = "ended")
=============================================================================
