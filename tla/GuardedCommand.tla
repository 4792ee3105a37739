--------------------------- MODULE GuardedCommand ---------------------------
(***************************************************************************)
(* One run of a mutating command: it plans with reads, shows a preview at   *)
(* the guard, applies the plan with `--yes` and reports one row per object. *)
(* The modules of the components extend this one, and a run is a run of one *)
(* of them; `stack` has the shape of that component.                        *)
(*                                                                          *)
(* Other clients of the stack change it at any step, and a request may be   *)
(* refused, may be done with its answer lost, or may be done, answered 5xx  *)
(* and sent again.                                                          *)
(***************************************************************************)
EXTENDS Naturals, FiniteSets, Sequences, Functions

CONSTANTS
    Ids,        \* stable ids of the objects; their order is that of the ids
    MaxEdits,   \* changes other clients make during the run
    MaxFaults   \* requests that go wrong during the run

ASSUME CommandAssumption ==
    /\ Ids \in SUBSET (Nat \ {0}) /\ IsFiniteSet(Ids)
    /\ MaxEdits \in Nat /\ MaxFaults \in Nat

VARIABLES
    cmd,    \* what the command is asked to do
    pc,     \* the step of the command that comes next
    todo,   \* ids the loop under way has still to handle
    plan,   \* what planning has seen: the facts of the preview
    stack,  \* the objects the stack has
    moved,  \* facts other clients changed since the command last read them
    writes, \* writes of the command that took effect
    rows,   \* rows of the report
    faults, edits

runVars == <<pc, todo, rows>>
vars    == <<cmd, pc, todo, plan, stack, moved, writes, rows, faults, edits>>

Ended   == pc \in {"done", "failed"}
Results == {"created", "replaced", "unchanged", "deleted", "changed", "lossy",
             "skipped", "conflict", "failed"}

\* The objects of S in the order of their ids.
Sorted(S) ==
    CHOOSE s \in [1..Cardinality(S) -> S] : \A i, j \in DOMAIN s : i < j => s[i] < s[j]

\* What planning knows of the objects it has read, object o now among them.
Noted(known, o, fact) == [x \in DOMAIN known \cup {o} |-> IF x = o THEN fact ELSE known[x]]

Row(o, result, applied) == [id |-> o, result |-> result, applied |-> applied]
FailedRows == {r \in rows : r.result \in {"failed", "lossy"}}
\* An error of the command itself or a row that failed.
ExitCode == IF pc = "failed" \/ FailedRows # {} THEN 1 ELSE 0

\* The start of every run.
Begins ==
    /\ pc = "start" /\ todo = <<>> /\ rows = {} /\ writes = {} /\ moved = {}
    /\ faults = MaxFaults /\ edits = MaxEdits

Goto(step) == pc' = step /\ UNCHANGED <<todo, rows>>
Fail == Goto("failed")

\* The rows of a report that is made in one go.
ReportAll(set) == rows' = set /\ pc' = "done" /\ UNCHANGED todo

\* Mutant: the loop goes on with the object it has just reported.
ReportAgain(o, result, applied) ==
    /\ rows' = rows \cup {Row(o, result, applied)}
    /\ todo' = todo
    /\ pc' = IF Len(todo) = 1 /\ result # "created" THEN "done" ELSE "check"

\* The row of the object at the head of the loop, and on to the next.
Report(o, result, applied) ==
    /\ rows' = rows \cup {Row(o, result, applied)}
    /\ todo' = Tail(todo)
    /\ pc' = IF Len(todo) = 1 THEN "done" ELSE "check"

\* The guard: without --yes the preview is all there is.  A plan without
\* targets has nothing to apply.
Guard(p, targets) ==
    /\ plan' = p
    /\ todo' = IF cmd.yes THEN targets ELSE <<>>
    /\ pc' = IF cmd.yes /\ targets # <<>> THEN "check" ELSE "done"

\* The facts in `seen` are as the stack has them now.
Checked(seen) == moved' = moved \ seen

\* A request that only reads: it answers, or the error is the caller's.
Read(ok, failed) ==
    \/ ok /\ UNCHANGED faults
    \/ faults > 0 /\ faults' = faults - 1 /\ failed /\ UNCHANGED moved

\* A write of object o, which the preview showed as `shown` and the stack holds
\* as `found`; it is excused when another client changed one of the `facts` it
\* relies on behind the last read of them.
Write(o, shown, found, facts) ==
    [id |-> o, asShown |-> found = shown \/ moved \cap facts # {}, answered |-> TRUE]
Unanswered(w) == [w EXCEPT !.answered = FALSE]

\* A request that changes the stack, with the writes it makes.  A fault is an
\* error without an effect, an effect whose answer is an error, or, where the
\* transport retries, an effect with a 5xx behind which the request is sent again.
MutateAll(new, ws, ok, failed, retries) ==
    \/ stack' = new /\ writes' = writes \cup ws /\ ok /\ UNCHANGED faults
    \/ faults > 0 /\ faults' = faults - 1 /\ failed /\ UNCHANGED <<stack, writes>>
    \/ /\ faults > 0 /\ faults' = faults - 1
       /\ stack' = new /\ writes' = writes \cup {Unanswered(w) : w \in ws}
       /\ \/ failed
          \/ retries /\ UNCHANGED runVars

Mutate(new, w, ok, failed, retries) == MutateAll(new, {w}, ok, failed, retries)

\* Another client changes the stack, and with it the facts in `which`.
Edit(new, which) ==
    /\ ~Ended /\ edits > 0 /\ new # stack
    /\ edits' = edits - 1 /\ stack' = new /\ moved' = moved \cup which
    /\ UNCHANGED <<cmd, pc, todo, plan, writes, rows, faults>>
=============================================================================
