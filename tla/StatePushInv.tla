---------------------------- MODULE StatePushInv ----------------------------
(***************************************************************************)
(* The inductive invariant of StatePush: what the variables hold at each   *)
(* point of a push, while others change the stack.  What others changed    *)
(* since the push began is in `changed`; of the rest the push knows what   *)
(* it has read, and of what it has not written yet it knows that a write   *)
(* is still planned.                                                       *)
(***************************************************************************)
EXTENDS StatePush

Acts == {"create", "update", "remove"}
Writes == [kind : Kinds, act : Acts, id : Nat, list : Nat, late : BOOLEAN]
Snapshot == [item : Items, list : Lists, body : Bodies]
Mirrors ==
  [rules : [Rules -> MirrorRule \cup {None}], lists : [Lists -> Bodies \cup {None}],
   items : [Items -> MirrorItem \cup {None}]]
Stacks ==
  [rules : [Rules -> StackRule \cup {None}], lists : [Lists -> StackList \cup {None}],
   items : [Items -> MirrorItem \cup {None}]]
Reads ==
  [rules : [Rules -> StackRule \cup {None}], lists : [Lists -> StackList \cup {None}],
   items : SUBSET Snapshot]
Reports == [applied : SUBSET Writes, failed : SUBSET Writes, pending : SUBSET Writes]

Writing == pc \in {"resolve", "list", "item", "rule"}

\* What TypeOK says, and the shapes of what it leaves out.
ShapeInv ==
  /\ mirror \in Mirrors /\ local \in Mirrors
  /\ stack \in Stacks /\ remote \in Reads /\ report \in Reports /\ ops \subseteq Writes
  /\ scope \subseteq Rules /\ todo \subseteq Lists
  /\ ids \in [Lists -> Nat \cup {None}]
  /\ pc \in {"idle", "rules", "lists", "items", "resolve", "list", "item", "rule"}
  /\ outcome \in {"none", "err", "refused", "dry", "ok", "failed"}
  /\ Lists # {} => minted \in Nat
  /\ edits \in Nat

\* On the stack an item is in a list that exists.
HomeInv ==
  \A i \in Items : stack.items[i] # None => stack.lists[stack.items[i].list] # None

\* The mirror is narrowed to the scope, and only lists somebody references are read.
ScopeInv ==
  pc # "idle" =>
    /\ Existing(local.rules) \subseteq scope
    /\ Existing(remote.lists) \subseteq Wanted

\* What is read so far, and that it is what the stack has.
ReadRulesInv ==
  /\ pc = "rules" => remote = NoneRead
  /\ pc \in {"lists", "items"} /\ changed = {} =>
       \A r \in scope : remote.rules[r] = stack.rules[r]

ReadListsInv ==
  /\ pc = "lists" => todo \subseteq Wanted /\ remote.items = {}
  /\ pc \in {"lists", "items"} /\ changed = {} =>
       \A l \in Wanted : (pc = "lists" /\ l \in todo) \/ remote.lists[l] = stack.lists[l]

ReadItemsInv ==
  pc = "items" =>
    /\ todo \subseteq Both
    /\ \A s \in remote.items :
         /\ s.list \in Both \ todo
         /\ \/ <<"item", s.item>> \in changed
            \/ /\ stack.items[s.item] # None
               /\ stack.items[s.item].list = s.list /\ stack.items[s.item].body = s.body
    /\ changed = {} =>
         \A i \in Existing(stack.items) :
           stack.items[i].list \in Both \ todo =>
             \E s \in remote.items : s.item = i /\ s.list = stack.items[i].list

\* A planned write is one the mirror asks for.
Planned(o) ==
  CASE o.kind = "list" ->
         o.id \in Lists /\ o.act \in {"create", "update"} /\ local.lists[o.id] # None
    [] o.kind = "item" ->
         /\ o.id \in Items /\ o.list \in Lists
         /\ o.act # "remove" =>
              local.items[o.id] # None /\ local.items[o.id].list = o.list
         /\ o.act = "remove" =>
              /\ local.lists[o.list] # None /\ o.id \in RemoteItems(o.list)
              /\ local.items[o.id] = None \/ local.items[o.id].list # o.list
    [] o.kind = "rule" ->
         o.id \in Rules /\ o.act \in {"create", "update"} /\ local.rules[o.id] # None

\* The writes that are left.  No object has two in one list, and an item that is
\* to be updated or removed is where it was read unless others moved it.
OpsInv ==
  /\ ~Writing => ops = {}
  /\ \A o \in ops : Planned(o)
  /\ \A o, q \in ops : o.kind = q.kind /\ o.id = q.id /\ o.list = q.list => o = q
  /\ \A o \in ops : o.kind = "item" /\ o.act # "create" =>
       \/ <<"item", o.id>> \in changed
       \/ stack.items[o.id] # None /\ stack.items[o.id].list = o.list

\* Lists come before items and items before rules; what was written or tried is
\* in the report, and a failed list or item ends the push.
OrderInv ==
  /\ pc = "item" => OpsOn("list") = {}
  /\ pc = "rule" => \A o \in ops : o.kind = "rule"
  /\ Writing => /\ ops \cap Recorded = {}
                /\ \A o \in report.failed : pc = "rule" /\ o.kind = "rule"

\* An id the push has resolved or was given is that of the list.
IdsInv ==
  pc # "idle" =>
    \A l \in Lists : ids[l] # None =>
      \/ <<"list", l>> \in changed
      \/ stack.lists[l] # None /\ stack.lists[l].id = ids[l]

PendingOn(kind, id) == \E o \in ops : o.kind = kind /\ o.id = id

\* Where nobody else changed anything, what differs has a write to come.
RulesInv ==
  Writing /\ changed = {} =>
    \A r \in Existing(local.rules) :
      \/ RuleInSync(local.rules[r], r)
      \/ PendingOn("rule", r)
      \/ \E o \in report.failed : o.kind = "rule" /\ o.id = r

ListsInv ==
  Writing /\ changed = {} =>
    \A l \in LocalLists :
      \/ stack.lists[l] # None /\ stack.lists[l].body = local.lists[l]
      \/ PendingOn("list", l)

\* As far as list l is concerned, item i is as the mirror has it.
Settled(i, l) ==
  \/ stack.items[i] = local.items[i]
  \/ /\ stack.items[i] = None \/ stack.items[i].list # l
     /\ local.items[i] = None \/ local.items[i].list # l

ItemsInv ==
  Writing /\ changed = {} =>
    \A l \in LocalLists, i \in Items :
      Settled(i, l) \/ \E o \in ops : o.kind = "item" /\ o.id = i /\ o.list = l

IInv ==
  /\ ShapeInv /\ HomeInv /\ ScopeInv /\ ReadRulesInv /\ ReadListsInv /\ ReadItemsInv
  /\ OpsInv /\ OrderInv /\ IdsInv /\ RulesInv /\ ListsInv /\ ItemsInv
  /\ CleanAfterPush
=============================================================================
