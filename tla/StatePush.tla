----------------------------- MODULE StatePush -----------------------------
(***************************************************************************)
(* `state push` (crates/elasticctl-api/src/state/push.rs, diff.rs, mod.rs, *)
(* mirror.rs): it reads the mirror, reads the stack one request at a time, *)
(* plans the writes that bring the stack to the mirror and, with --yes,    *)
(* performs them in a fixed order: exception lists, their items, rules.    *)
(* The stack does not check the pointer from a rule to its list, so the    *)
(* push resolves it again before it writes.  Other clients change the      *)
(* stack between any two requests, and a pull or an editor the mirror.     *)
(*                                                                         *)
(* A rule references at most one list and contents are members of Bodies:  *)
(* a name, a query or an entry is what two versions differ in.  Selectors  *)
(* and --source are the scope, a set of rules.                             *)
(***************************************************************************)
EXTENDS Naturals, FiniteSets

CONSTANTS
  Rules,      \* rule_id
  Lists,      \* list_id and namespace, in key order
  Items,      \* item_id
  Bodies,     \* contents of an object
  Home,       \* the lists an item may be in
  None,       \* no such object, no such reference
  MaxEdits,   \* bound on changes by others, to the stack or the mirror
  MaxFaults   \* bound on requests that fail

ASSUME KeysAreOrdered == Rules \cup Lists \cup Items \subseteq Nat
ASSUME ListsAreFinite == IsFiniteSet(Lists)
ASSUME HomesAreLists == Home \in [Items -> SUBSET Lists]
ASSUME BoundsAreNat == MaxEdits \in Nat /\ MaxFaults \in Nat

VARIABLES
  \* the mirror: rule files, list files with the items in them
  mirror,
  \* the stack: what it holds, and the last list id it minted
  stack, minted,
  \* the push
  pc,
  scope,    \* the rules it is about
  yes,      \* --yes
  local,    \* the mirror as it was read, narrowed to the scope
  remote,   \* the stack as it was read
  todo,     \* lists left to read, or to resolve
  ids,      \* the live id of each list the rules to write reference
  ops,      \* writes left
  report,   \* the change report
  outcome,  \* how the last push ended
  \* history and bounds
  changed,  \* what others changed on the stack since the push began
  edits, faults

plan == <<scope, yes, local>>
vars == <<mirror, stack, minted, pc, plan, remote, todo, ids, ops, report, outcome,
          changed, edits, faults>>

\* In a mirror an item is in a list file; on the stack it has a list.
MirrorRule == [body : Bodies, ref : Lists \cup {None}]
MirrorItem == [list : Lists, body : Bodies]
StackRule == [body : Bodies, ref : Lists, ptr : Nat] \cup [body : Bodies, ref : {None}, ptr : {None}]
StackList == [body : Bodies, id : Nat]

ASSUME NoneIsNothing ==
  None \notin Bodies \cup Nat \cup MirrorRule \cup MirrorItem \cup StackRule \cup StackList

Kinds == {"list", "item", "rule"}
\* A planned write.  The items of a created list come before those of the
\* others, a changed rule before one whose pointer alone is repaired.
Op(kind, act, id, list, late) ==
  [kind |-> kind, act |-> act, id |-> id, list |-> list, late |-> late]
NoList == 0   \* the list field of a rule's write

Before(a, b) ==
  IF a.late # b.late THEN b.late
  ELSE IF a.list # b.list THEN a.list < b.list
  ELSE a.id < b.id

OpsOn(kind) == {o \in ops : o.kind = kind}
First(kind) ==
  CHOOSE o \in OpsOn(kind) : \A q \in OpsOn(kind) \ {o} : Before(o, q)
Smallest(S) == CHOOSE l \in S : \A k \in S : l <= k

EmptyReport == [applied |-> {}, failed |-> {}, pending |-> {}]
NoneRead == [rules |-> [r \in Rules |-> None], lists |-> [l \in Lists |-> None],
             items |-> {}]

Existing(f) == {x \in DOMAIN f : f[x] # None}
\* referenced_keys
Refs(rules) == {rules[r].ref : r \in Existing(rules)} \ {None}

\* A mirror just pulled: what the rules reference is in it.
Init ==
  /\ minted = CHOOSE n \in Lists : \A l \in Lists : l <= n
  /\ \E body \in Bodies, L \in SUBSET Lists :
     \E ref \in [Rules -> L \cup {None}], R \in SUBSET Rules, place \in [Items -> L \cup {None}] :
       LET inMirror(l) == \E r \in R : ref[r] = l
           item(i) == [list |-> place[i], body |-> body] IN
       /\ \A i \in Items : place[i] # None => place[i] \in Home[i]
       /\ stack =
            [rules |-> [r \in Rules |->
               IF r \in R THEN [body |-> body, ref |-> ref[r], ptr |-> ref[r]] ELSE None],
             lists |-> [l \in Lists |-> IF l \in L THEN [body |-> body, id |-> l] ELSE None],
             items |-> [i \in Items |-> IF place[i] = None THEN None ELSE item(i)]]
       /\ mirror =
            [rules |-> [r \in Rules |->
               IF r \in R THEN [body |-> body, ref |-> ref[r]] ELSE None],
             lists |-> [l \in Lists |-> IF inMirror(l) THEN body ELSE None],
             items |-> [i \in Items |->
               IF place[i] # None /\ inMirror(place[i]) THEN item(i) ELSE None]]
  /\ pc = "idle" /\ scope = {} /\ yes = FALSE
  /\ local = mirror /\ remote = NoneRead
  /\ todo = {} /\ ids = [l \in Lists |-> None] /\ ops = {}
  /\ report = EmptyReport /\ outcome = "none"
  /\ changed = {} /\ edits = 0 /\ faults = 0

-----------------------------------------------------------------------------
(* What the steps share.                                                   *)

Fault == faults < MaxFaults /\ faults' = faults + 1
NoFault == faults' = faults

\* A push ends: its error or exit status is the outcome.
Return(result) ==
  /\ pc' = "idle" /\ outcome' = result
  /\ todo' = {} /\ ops' = {}

-----------------------------------------------------------------------------
(* plan_push: reading.                                                     *)

\* read_mirror takes no lock.  While a pull replaces files some are missing:
\* a file is read whole or not at all.
ReadMirror(lostRules, lostLists) ==
  [rules |-> [r \in Rules |-> IF r \in lostRules THEN None ELSE mirror.rules[r]],
   lists |-> [l \in Lists |-> IF l \in lostLists THEN None ELSE mirror.lists[l]],
   items |-> [i \in Items |->
      IF mirror.items[i] # None /\ mirror.items[i].list \in lostLists
      THEN None ELSE mirror.items[i]]]

\* Scope::narrow
Narrow(m, sc) ==
  [m EXCEPT !.rules = [r \in Rules |-> IF r \in sc THEN m.rules[r] ELSE None]]

Start(sc, y) ==
  /\ pc = "idle"
  /\ \E lostRules \in SUBSET Existing(mirror.rules), lostLists \in SUBSET Existing(mirror.lists) :
       /\ local' = Narrow(ReadMirror(lostRules, lostLists), sc)
       /\ IF lostRules \cup lostLists = {} THEN edits' = edits
          ELSE edits < MaxEdits /\ edits' = edits + 1
  /\ scope' = sc /\ yes' = y
  /\ pc' = "rules" /\ outcome' = "none"
  /\ remote' = NoneRead /\ report' = EmptyReport
  /\ ids' = [l \in Lists |-> None]
  /\ changed' = {}
  /\ UNCHANGED <<mirror, stack, minted, todo, ops, faults>>

\* Every list a rule of the scope references, here or on the stack.
Wanted == Refs(local.rules) \cup Refs(remote.rules)

ReadRules ==
  /\ pc = "rules"
  /\ remote' = [remote EXCEPT !.rules =
                  [r \in Rules |-> IF r \in scope THEN stack.rules[r] ELSE None]]
  /\ todo' = Refs(local.rules) \cup Refs(remote'.rules)
  /\ pc' = "lists"
  /\ UNCHANGED <<mirror, stack, minted, plan, ids, ops, report, outcome, changed, edits, faults>>

FetchList ==
  /\ pc = "lists" /\ todo # {}
  /\ LET l == Smallest(todo) IN
       /\ remote' = [remote EXCEPT !.lists[l] = stack.lists[l]]
       /\ todo' = todo \ {l}
  /\ UNCHANGED <<mirror, stack, minted, pc, plan, ids, ops, report, outcome, changed,
                 edits, faults>>

LocalLists == Existing(local.lists) \cap Wanted
RemoteLists == Existing(remote.lists)
AllRemote == RemoteLists
Both == LocalLists \cap RemoteLists

ListsFetched ==
  /\ pc = "lists" /\ todo = {}
  /\ todo' = Both
  /\ pc' = "items"
  /\ UNCHANGED <<mirror, stack, minted, plan, remote, ids, ops, report, outcome, changed,
                 edits, faults>>

FindItems ==
  /\ pc = "items" /\ todo # {}
  /\ LET l == Smallest(todo)
         here == {i \in Existing(stack.items) : stack.items[i].list = l} IN
       /\ remote' = [remote EXCEPT !.items = @ \cup
                       {[item |-> i, list |-> l, body |-> stack.items[i].body] : i \in here}]
       /\ todo' = todo \ {l}
  /\ UNCHANGED <<mirror, stack, minted, pc, plan, ids, ops, report, outcome, changed,
                 edits, faults>>

ReadFails ==
  /\ pc \in {"rules", "lists", "items", "resolve"} /\ Fault
  /\ Return("err")
  /\ UNCHANGED <<mirror, stack, minted, plan, remote, ids, report, changed, edits>>

-----------------------------------------------------------------------------
(* plan_push: the plan.                                                    *)

\* list_drift
CreatedLists == LocalLists \ RemoteLists
ListOps ==
  {Op("list", "create", l, l, FALSE) : l \in CreatedLists} \cup
  {Op("list", "update", l, l, FALSE) :
     l \in {k \in Both : local.lists[k] # remote.lists[k].body}}

LocalItems(l) == {i \in Existing(local.items) : local.items[i].list = l}
RemoteItems(l) == {s.item : s \in {t \in remote.items : t.list = l}}
RemoteBody(i, l) == (CHOOSE s \in remote.items : s.item = i /\ s.list = l).body

ReconcileKeeping(l) ==
  {Op("item", "create", i, l, TRUE) : i \in LocalItems(l) \ RemoteItems(l)} \cup
  {Op("item", "update", i, l, TRUE) :
     i \in {k \in LocalItems(l) \cap RemoteItems(l) : local.items[k].body # RemoteBody(k, l)}}

\* item_reconciliation of one list
Reconcile(l) ==
  {Op("item", "create", i, l, TRUE) : i \in LocalItems(l) \ RemoteItems(l)} \cup
  {Op("item", "remove", i, l, TRUE) : i \in RemoteItems(l) \ LocalItems(l)} \cup
  {Op("item", "update", i, l, TRUE) :
     i \in {k \in LocalItems(l) \cap RemoteItems(l) : local.items[k].body # RemoteBody(k, l)}}

ItemOps ==
  {Op("item", "create", i, local.items[i].list, FALSE) :
     i \in {k \in Existing(local.items) : local.items[k].list \in CreatedLists}} \cup
  UNION {Reconcile(l) : l \in Both}

\* Drift::compute: the pointer is not part of the comparison.
SameRule(r) == /\ local.rules[r].body = remote.rules[r].body
               /\ local.rules[r].ref = remote.rules[r].ref
Added == Existing(local.rules) \ Existing(remote.rules)
Modified == {r \in Existing(local.rules) \cap Existing(remote.rules) : ~SameRule(r)}

\* dangling_pointers
LiveId(l) == IF remote.lists[l] = None THEN None ELSE remote.lists[l].id
Dangling == {r \in Existing(remote.rules) :
               remote.rules[r].ref # None /\ LiveId(remote.rules[r].ref) # remote.rules[r].ptr}
NoRepairs == {}
Repairs == (Dangling \cap Existing(local.rules)) \ (Added \cup Modified)

RuleOps ==
  {Op("rule", "create", r, NoList, FALSE) : r \in Added} \cup
  {Op("rule", "update", r, NoList, FALSE) : r \in Modified} \cup
  {Op("rule", "update", r, NoList, TRUE) : r \in Repairs}

DesiredRefs == {local.rules[o.id].ref : o \in RuleOps} \ {None}
Resolvable == RemoteLists \cup CreatedLists

\* A rule that references a list which is nowhere refuses the push.
PlanWrites ==
  /\ pc = "items" /\ todo = {}
  /\ IF ~(DesiredRefs \subseteq Resolvable)
     THEN Return("refused") /\ UNCHANGED report
     ELSE /\ report' = [EmptyReport EXCEPT !.pending = RuleOps]
          /\ IF yes
             THEN /\ pc' = "resolve" /\ todo' = DesiredRefs
                  /\ ops' = ListOps \cup ItemOps \cup RuleOps
                  /\ UNCHANGED outcome
             ELSE Return("dry")
  /\ UNCHANGED <<mirror, stack, minted, plan, remote, ids, changed, edits, faults>>

-----------------------------------------------------------------------------
(* apply_push.                                                             *)

\* resolve_ids: a list that does not exist yet has no id.
ResolveId ==
  /\ pc = "resolve" /\ todo # {}
  /\ LET l == Smallest(todo) IN
       /\ ids' = [ids EXCEPT ![l] = IF stack.lists[l] = None THEN None ELSE stack.lists[l].id]
       /\ todo' = todo \ {l}
  /\ UNCHANGED <<mirror, stack, minted, pc, plan, remote, ops, report, outcome, changed,
                 edits, faults>>

Resolved ==
  /\ pc = "resolve" /\ todo = {}
  /\ pc' = "list"
  /\ UNCHANGED <<mirror, stack, minted, plan, remote, todo, ids, ops, report, outcome,
                 changed, edits, faults>>

\* The stack refuses to create what exists and to change what does not.  It
\* knows an item by its item_id alone.
Accepts(o) ==
  CASE o.kind = "list" -> (stack.lists[o.id] = None) = (o.act = "create")
    [] o.kind = "item" -> /\ (stack.items[o.id] = None) = (o.act = "create")
                          /\ o.act = "create" => stack.lists[o.list] # None
    [] o.kind = "rule" -> (stack.rules[o.id] = None) = (o.act = "create")

WriteList(o) ==
  IF o.act = "create"
  THEN /\ minted' = minted + 1
       /\ stack' = [stack EXCEPT !.lists[o.id] = [body |-> local.lists[o.id], id |-> minted']]
  ELSE /\ stack' = [stack EXCEPT !.lists[o.id].body = local.lists[o.id]]
       /\ UNCHANGED minted

WriteItem(o) ==
  /\ stack' = [stack EXCEPT !.items[o.id] =
        CASE o.act = "create" -> local.items[o.id]
          [] o.act = "update" -> [@ EXCEPT !.body = local.items[o.id].body]
          [] o.act = "remove" -> None]
  /\ UNCHANGED minted

CarryPointer(o) ==
  LET desired == local.rules[o.id]
      stored == IF remote.rules[o.id] = None THEN None ELSE remote.rules[o.id].ptr IN
  /\ stack' = [stack EXCEPT !.rules[o.id] =
        [body |-> desired.body, ref |-> desired.ref,
         ptr |-> IF desired.ref = None THEN None
                 ELSE IF stored # None THEN stored ELSE ids[desired.ref]]]
  /\ UNCHANGED minted

WriteRule(o) ==
  LET desired == local.rules[o.id] IN
  /\ stack' = [stack EXCEPT !.rules[o.id] =
        [body |-> desired.body, ref |-> desired.ref,
         ptr |-> IF desired.ref = None THEN None ELSE ids[desired.ref]]]
  /\ UNCHANGED minted

Succeeded(o) == [report EXCEPT !.applied = @ \cup {o}, !.pending = @ \ {o}]
Unrecorded(o) == [report EXCEPT !.pending = @ \ {o}]
Failed(o) == [report EXCEPT !.failed = @ \cup {o}, !.pending = @ \ {o}]

Write(o) ==
  CASE o.kind = "list" -> WriteList(o)
    [] o.kind = "item" -> WriteItem(o)
    [] o.kind = "rule" -> WriteRule(o)

\* A write that answers an error did not happen, or did and its answer was lost.
Errs(o) ==
  \/ NoFault /\ ~Accepts(o) /\ UNCHANGED <<stack, minted>>
  \/ Fault /\ (UNCHANGED <<stack, minted>> \/ (Accepts(o) /\ Write(o)))

\* A failed list or item stops the push; the rules stay pending.
ApplyList ==
  /\ pc = "list" /\ OpsOn("list") # {}
  /\ LET o == First("list") IN
       \/ /\ Accepts(o) /\ Write(o) /\ NoFault
          /\ report' = Succeeded(o) /\ ops' = ops \ {o}
          /\ ids' = IF o.act = "create" THEN [ids EXCEPT ![o.id] = minted'] ELSE ids
          /\ UNCHANGED <<pc, todo, outcome>>
       \/ /\ Errs(o)
          /\ report' = Failed(o) /\ Return("failed") /\ UNCHANGED ids
  /\ UNCHANGED <<mirror, plan, remote, changed, edits>>

ListsApplied ==
  /\ pc = "list" /\ OpsOn("list") = {}
  /\ pc' = "item"
  /\ UNCHANGED <<mirror, stack, minted, plan, remote, todo, ids, ops, report, outcome,
                 changed, edits, faults>>

KeepGoing ==
  /\ pc = "item" /\ OpsOn("item") # {}
  /\ LET o == First("item") IN
       /\ ops' = ops \ {o}
       /\ \/ Accepts(o) /\ Write(o) /\ NoFault /\ report' = Succeeded(o)
          \/ Errs(o) /\ report' = Failed(o)
  /\ UNCHANGED <<mirror, pc, plan, remote, todo, ids, outcome, changed, edits>>

ApplyItem ==
  /\ pc = "item" /\ OpsOn("item") # {}
  /\ LET o == First("item") IN
       \/ /\ Accepts(o) /\ Write(o) /\ NoFault
          /\ report' = Succeeded(o) /\ ops' = ops \ {o}
          /\ UNCHANGED <<pc, todo, outcome>>
       \/ /\ Errs(o)
          /\ report' = Failed(o) /\ Return("failed")
  /\ UNCHANGED <<mirror, plan, remote, ids, changed, edits>>

ItemsApplied ==
  /\ pc = "item" /\ OpsOn("item") = {}
  /\ pc' = "rule"
  /\ UNCHANGED <<mirror, stack, minted, plan, remote, todo, ids, ops, report, outcome,
                 changed, edits, faults>>

AlwaysInjectable(o) == TRUE

\* inject_list_ids
Injectable(o) == LET l == local.rules[o.id].ref IN l # None => ids[l] # None

\* A failed rule does not stop the others.
ApplyRule ==
  /\ pc = "rule" /\ OpsOn("rule") # {}
  /\ LET o == First("rule") IN
       /\ ops' = ops \ {o}
       /\ \/ /\ Injectable(o) /\ Accepts(o) /\ Write(o) /\ NoFault
             /\ report' = Succeeded(o)
          \/ Injectable(o) /\ Errs(o) /\ report' = Failed(o)
          \/ ~Injectable(o) /\ NoFault /\ UNCHANGED <<stack, minted>> /\ report' = Failed(o)
  /\ UNCHANGED <<mirror, pc, plan, remote, todo, ids, outcome, changed, edits>>

RulesApplied ==
  /\ pc = "rule" /\ OpsOn("rule") = {}
  /\ Return(IF report.failed = {} THEN "ok" ELSE "failed")
  /\ UNCHANGED <<mirror, stack, minted, plan, remote, ids, report, changed, edits, faults>>

-----------------------------------------------------------------------------
(* The others.                                                             *)

Edit == edits < MaxEdits /\ edits' = edits + 1

ClientDeletesList(l) ==
  /\ stack.lists[l] # None
  /\ stack' = [stack EXCEPT !.lists[l] = None,
                !.items = [i \in Items |-> IF @[i] # None /\ @[i].list = l THEN None ELSE @[i]]]
  /\ changed' = changed \cup {<<"list", l>>} \cup
       {<<"item", i>> : i \in {k \in Existing(stack.items) : stack.items[k].list = l}}
  /\ UNCHANGED minted

ClientWritesList(l, body) ==
  /\ minted' = IF stack.lists[l] = None THEN minted + 1 ELSE minted
  /\ stack' = [stack EXCEPT !.lists[l] =
        [body |-> body, id |-> IF stack.lists[l] = None THEN minted' ELSE stack.lists[l].id]]
  /\ changed' = changed \cup {<<"list", l>>}

ClientWritesItem(i, new) ==
  /\ new # None => new.list \in Home[i] /\ stack.lists[new.list] # None
  /\ stack' = [stack EXCEPT !.items[i] = new]
  /\ changed' = changed \cup {<<"item", i>>}
  /\ UNCHANGED minted

ClientWritesRule(r, new) ==
  /\ new # None => new.ref \in Existing(stack.lists) \cup {None}
  /\ stack' = [stack EXCEPT !.rules[r] =
        IF new = None THEN None
        ELSE [body |-> new.body, ref |-> new.ref,
              ptr |-> IF new.ref = None THEN None ELSE stack.lists[new.ref].id]]
  /\ changed' = changed \cup {<<"rule", r>>}
  /\ UNCHANGED minted

ClientEdits ==
  /\ Edit
  /\ \/ \E l \in Lists : ClientDeletesList(l) \/ \E body \in Bodies : ClientWritesList(l, body)
     \/ \E i \in Items, new \in MirrorItem \cup {None} :
          stack.items[i] # new /\ ClientWritesItem(i, new)
     \/ \E r \in Rules, new \in MirrorRule \cup {None} : ClientWritesRule(r, new)
  /\ UNCHANGED <<mirror, pc, plan, remote, todo, ids, ops, report, outcome, faults>>

\* An editor, or a pull, changes a rule file, a list file or an item in one.
MirrorEdits ==
  /\ Edit
  /\ \/ \E r \in Rules, new \in MirrorRule \cup {None} :
          mirror' = [mirror EXCEPT !.rules[r] = new]
     \/ \E l \in Lists, body \in Bodies : mirror' = [mirror EXCEPT !.lists[l] = body]
     \/ \E l \in Lists :
          mirror' = [mirror EXCEPT !.lists[l] = None,
            !.items = [i \in Items |-> IF @[i] # None /\ @[i].list = l THEN None ELSE @[i]]]
     \/ \E i \in Items, new \in MirrorItem \cup {None} :
          /\ new # None => new.list \in Home[i] /\ mirror.lists[new.list] # None
          /\ mirror' = [mirror EXCEPT !.items[i] = new]
  /\ UNCHANGED <<stack, minted, pc, plan, remote, todo, ids, ops, report, outcome, changed,
                 faults>>

-----------------------------------------------------------------------------
Step ==
  \/ ReadRules \/ FetchList \/ ListsFetched \/ FindItems \/ ReadFails \/ PlanWrites
  \/ ResolveId \/ Resolved
  \/ ApplyList \/ ListsApplied \/ ApplyItem \/ ItemsApplied \/ ApplyRule \/ RulesApplied

Next ==
  \/ \E sc \in SUBSET Rules, y \in BOOLEAN : Start(sc, y)
  \/ Step
  \/ ClientEdits \/ MirrorEdits

Spec == Init /\ [][Next]_vars

\* A running push goes on, and the whole mirror is pushed again and again.
RetriedSpec == Spec /\ WF_vars(Step) /\ SF_vars(Start(Rules, TRUE))

-----------------------------------------------------------------------------
(* Properties.                                                             *)

\* Every variable has its type; a rule points somewhere exactly when it
\* references a list, since the stack refuses a reference without an id.
TypeOK ==
  /\ mirror.rules \in [Rules -> MirrorRule \cup {None}]
  /\ mirror.lists \in [Lists -> Bodies \cup {None}]
  /\ mirror.items \in [Items -> MirrorItem \cup {None}]
  /\ stack.rules \in [Rules -> StackRule \cup {None}]
  /\ stack.lists \in [Lists -> StackList \cup {None}]
  /\ stack.items \in [Items -> MirrorItem \cup {None}]
  /\ scope \subseteq Rules /\ yes \in BOOLEAN /\ todo \subseteq Lists
  /\ ids \in [Lists -> Nat \cup {None}]
  /\ pc \in {"idle", "rules", "lists", "items", "resolve", "list", "item", "rule"}
  /\ outcome \in {"none", "err", "refused", "dry", "ok", "failed"}

\* The stack rule and its pointer are what a mirror rule asks for.
RuleInSync(desired, r) ==
  /\ stack.rules[r] # None
  /\ stack.rules[r].body = desired.body /\ stack.rules[r].ref = desired.ref
  /\ desired.ref # None =>
       stack.lists[desired.ref] # None /\ stack.lists[desired.ref].id = stack.rules[r].ptr

\* A list has the content of the mirror and exactly its items.
ListInSync(m, l) ==
  /\ stack.lists[l] # None /\ stack.lists[l].body = m.lists[l]
  /\ \A i \in Items :
       \/ stack.items[i] = m.items[i]
       \/ /\ stack.items[i] = None \/ stack.items[i].list # l
          /\ m.items[i] = None \/ m.items[i].list # l

\* A push that reports no failure leaves nothing to push: every rule of the scope
\* and every list they reference is what the mirror says, down to the pointers
\* that the diff does not compare and the items that had to go.
CleanAfterPush ==
  pc = "idle" /\ outcome = "ok" /\ changed = {} =>
    /\ \A r \in Existing(local.rules) : RuleInSync(local.rules[r], r)
    /\ \A l \in LocalLists : ListInSync(local, l)

Pushes == edits' = edits /\ stack' # stack

\* The design: a rule is never written before the list it points at exists; it is
\* written with that list's id, however old the pointer it had; and not once a
\* list or an item has failed, nor while one is left to write: a rule must not go
\* live without the exceptions that were to suppress it.
RulesComeLast ==
  [][Pushes /\ stack'.rules # stack.rules =>
       /\ \A o \in ops \cup report.failed : o.kind = "rule"
       /\ \A r \in Rules : stack'.rules[r] # stack.rules[r] =>
            LET l == stack'.rules[r].ref IN
            \/ l = None \/ <<"list", l>> \in changed
            \/ stack.lists[l] # None /\ stack.lists[l].id = stack'.rules[r].ptr]_vars

\* An item is deleted only from a list whose file was read, lacking that item, and
\* that had it: not for a missing file, and not in a list the mirror leaves alone.
RemovalWasInstructed ==
  [][\A i \in Items : Pushes /\ stack.items[i] # None /\ stack'.items[i] = None =>
       LET l == stack.items[i].list IN
       \/ <<"item", i>> \in changed
       \/ /\ local.lists[l] # None /\ i \in RemoteItems(l)
          /\ local.items[i] = None \/ local.items[i].list # l]_vars

Recorded == report.applied \cup report.failed

\* The object of a write has become what the preview showed.
AsPlanned(o) ==
  CASE o.kind = "list" -> stack.lists[o.id] # None /\ stack.lists[o.id].body = local.lists[o.id]
    [] o.kind = "item" -> stack.items[o.id] = (IF o.act = "remove" THEN None ELSE local.items[o.id])
    [] o.kind = "rule" -> RuleInSync(local.rules[o.id], o.id)

\* The report tells the truth: what changed on the stack is in it, as applied or
\* as failed with an answer that was lost, and what it calls applied is there.
ReportIsTrue ==
  [][/\ Pushes => \E o \in Recorded' \ Recorded :
        /\ \A r \in Rules : stack'.rules[r] # stack.rules[r] => o.kind = "rule" /\ o.id = r
        /\ \A l \in Lists : stack'.lists[l] # stack.lists[l] => o.kind = "list" /\ o.id = l
        /\ \A i \in Items : stack'.items[i] # stack.items[i] => o.kind = "item" /\ o.id = i
     /\ \A o \in report'.applied \ report.applied :
          AsPlanned(o)' \/ changed # {}]_vars

Nowhere == \E r \in Existing(mirror.rules) :
  mirror.rules[r].ref \notin Existing(mirror.lists) \cup Existing(stack.lists) \cup {None}

\* Every rule of the mirror, and every list one references here or on the stack.
MirrorInSync ==
  /\ \A r \in Existing(mirror.rules) : RuleInSync(mirror.rules[r], r)
  /\ \A l \in Existing(mirror.lists) \cap (Refs(mirror.rules) \cup Refs(stack.rules)) :
       ListInSync(mirror, l)

\* Whatever failed half way, pushing again brings the stack to the mirror, unless
\* a rule references a list that is nowhere.
Converges == <>[](Nowhere \/ MirrorInSync)

\* apply_push on a failed item: "a retry re-plans against the partial state and
\* re-converges".  Checked where an item may move from one list to another.
RetryReconverges == Converges
=============================================================================
