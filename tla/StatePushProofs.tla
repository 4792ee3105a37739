-------------------------- MODULE StatePushProofs --------------------------
(***************************************************************************)
(* The safety properties of StatePush, for every set of rules, lists and   *)
(* items, from the inductive invariant IInv.                               *)
(***************************************************************************)
EXTENDS StatePushInv, FiniteSetTheorems, WellFoundedInduction, TLAPS

(* Numbers have a least among them.                                        *)
LEMMA LeastExists ==
  ASSUME NEW S \in SUBSET Nat, S # {}
  PROVE  \E m \in S : \A k \in S : m <= k
<1>1. PICK m \in S : \A k \in S : <<k, m>> \notin OpToRel(<, Nat)
  BY NatLessThanWellFounded, WFMin
<1>2. \A k \in S : ~(k < m)
  BY <1>1 DEF OpToRel
<1> QED
  BY <1>2

(* Smallest of some numbers is a least of them.                            *)
LEMMA SmallestFacts ==
  ASSUME NEW S \in SUBSET Nat, S # {}
  PROVE  Smallest(S) \in S /\ \A k \in S : Smallest(S) <= k
BY LeastExists DEF Smallest

(* Finitely many numbers have a greatest.                                  *)
LEMMA GreatestExists ==
  ASSUME NEW S \in SUBSET Nat, IsFiniteSet(S), S # {}
  PROVE  \E m \in S : \A k \in S : k <= m
<1> SUFFICES ASSUME \A m \in S : \E k \in S : m < k PROVE FALSE
  OBVIOUS
<1> DEFINE Above(m) == {k \in S : m < k}
           next == [m \in S |-> Smallest(Above(m))]
<1>1. PICK low \in S : \A k \in S : low <= k
  BY LeastExists
<1>2. ASSUME NEW m \in S PROVE next[m] \in S /\ m < next[m] /\ \A k \in Above(m) : next[m] <= k
  BY SmallestFacts
<1>3. next \in [S -> S \ {low}]
  BY <1>1, <1>2
<1> HIDE DEF next
<1>4. /\ Cardinality(S) \in Nat /\ Cardinality(S \ {low}) = Cardinality(S) - 1
      /\ IsFiniteSet(S \ {low})
  BY FS_CardinalityType, FS_RemoveElement
<1>5. PICK x \in S, y \in S : x # y /\ next[x] = next[y]
  <2>1. Cardinality(S \ {low}) \in Nat /\ Cardinality(S \ {low}) < Cardinality(S)
    BY <1>4, FS_CardinalityType
  <2> DEFINE T == S \ {low}
  <2> HIDE DEF T
  <2>2. IsFiniteSet(T) /\ Cardinality(T) < Cardinality(S) /\ next \in [S -> T]
    BY <1>3, <1>4, <2>1 DEF T
  <2> QED
    BY <2>2, FS_PigeonHole
<1>6. ASSUME NEW a \in S, NEW b \in S, a < b PROVE next[a] < next[b]
  <2>1. next[a] \in Nat /\ next[b] \in Nat
    BY <1>2
  <2>2. b \in Above(a)
    BY <1>6
  <2> QED
    BY <1>2, <2>1, <2>2
<1>7. x < y \/ y < x
  BY <1>5
<1>8. next[x] \in Nat /\ next[y] \in Nat
  BY <1>2
<1> QED
  BY <1>5, <1>6, <1>7, <1>8
-----------------------------------------------------------------------------
(* Lemmas about the plan.                                                  *)

KeysFacts == /\ Rules \subseteq Nat /\ Lists \subseteq Nat /\ Items \subseteq Nat
             /\ None \notin Nat /\ None \notin Bodies

(* Rules, lists and items are numbered.                                    *)
LEMMA Keys == KeysFacts
BY KeysAreOrdered, NoneIsNothing DEF KeysFacts

(* A write that is left is in its plan, and the first is well defined.     *)
LEMMA FirstFacts ==
  ASSUME ops \subseteq Writes, OpsInv, NEW kind, OpsOn(kind) # {}
  PROVE  First(kind) \in ops /\ First(kind).kind = kind
<1> DEFINE S == OpsOn(kind)
           T == IF \E o \in S : ~o.late THEN {o \in S : ~o.late} ELSE S
           U == {o.list : o \in T}
           V == {o.id : o \in {q \in T : q.list = Smallest(U)}}
<1>1. S \subseteq Writes /\ T \subseteq S /\ T # {}
  BY DEF OpsOn
<1>a. \A o \in T : o.list \in Nat /\ o.id \in Nat
  BY <1>1 DEF Writes
<1>b. \A o \in T, q \in S \ T : ~o.late /\ q.late
  OBVIOUS
<1>c. \A o, q \in T : o.late = q.late
  BY <1>1, Zenon DEF Writes
<1> HIDE DEF T
<1>2. U \subseteq Nat /\ U # {}
  BY <1>1, <1>a
<1>3. Smallest(U) \in U /\ \A k \in U : Smallest(U) <= k
  BY <1>2, SmallestFacts
<1>4. V \subseteq Nat /\ V # {}
  <2>1. PICK p \in T : p.list = Smallest(U)
    BY <1>3
  <2> QED
    BY <1>a, <2>1
<1>5. Smallest(V) \in V /\ \A k \in V : Smallest(V) <= k
  BY <1>4, SmallestFacts
<1>6. PICK o \in T : o.list = Smallest(U) /\ o.id = Smallest(V)
  BY <1>5
<1>7. ASSUME NEW q \in S \ {o} PROVE Before(o, q)
  <2>1. CASE q \notin T
    <3>1. q.late /\ ~o.late
      BY <1>b, <1>6, <1>7, <2>1
    <3> QED
      BY <3>1, Zenon DEF Before
  <2>2. CASE q \in T /\ q.list # o.list
    <3>1. o.list < q.list
      <4>1. o.list <= q.list /\ o.list \in Nat /\ q.list \in Nat
        BY <1>a, <1>3, <1>6, <2>2
      <4> QED
        BY <2>2, <4>1
    <3>2. o.late = q.late
      BY <1>c, <1>6, <2>2, Zenon
    <3> QED
      BY <2>2, <3>1, <3>2, Zenon DEF Before
  <2>3. CASE q \in T /\ q.list = o.list
    <3>1. q.id # o.id
      BY <1>1, <1>6, <1>7, <2>3 DEF OpsInv, OpsOn
    <3>2. q.id \in V
      BY <1>6, <2>3
    <3>3. o.id < q.id
      <4>1. o.id <= q.id /\ o.id \in Nat /\ q.id \in Nat
        BY <1>a, <1>5, <1>6, <2>3, <3>2
      <4> QED
        BY <3>1, <4>1
    <3>4. o.late = q.late
      BY <1>c, <1>6, <2>3, Zenon
    <3> QED
      BY <2>3, <3>3, <3>4, Zenon DEF Before
  <2> QED
    BY <2>1, <2>2, <2>3
<1>8. First(kind) \in S
  BY <1>1, <1>6, <1>7 DEF First
<1> QED
  BY <1>8 DEF OpsOn
-----------------------------------------------------------------------------
(* Lemmas about what a write does to the stack.                            *)

(* What a list's write does to the stack: one list has the local body, and *)
(* another id if it is created; the items and the rules stay.              *)
LEMMA ListWritten ==
  ASSUME ShapeInv, NEW o \in ops, o.kind = "list", Planned(o), Accepts(o), Write(o)
  PROVE  /\ stack' \in Stacks /\ minted' \in Nat
         /\ stack'.rules = stack.rules /\ stack'.items = stack.items
         /\ \A l \in Lists \ {o.id} : stack'.lists[l] = stack.lists[l]
         /\ stack'.lists[o.id] # None /\ stack'.lists[o.id].body = local.lists[o.id]
         /\ stack.lists[o.id] # None => stack'.lists[o.id].id = stack.lists[o.id].id
         /\ o.act = "create" <=> stack.lists[o.id] = None
         /\ o.act = "create" => stack'.lists[o.id].id = minted'
<1>0. /\ o.id \in Lists /\ o.act \in {"create", "update"} /\ local.lists[o.id] \in Bodies
      /\ minted \in Nat
  BY DEF ShapeInv, Planned, Mirrors
<1>n. \A x \in StackList : x # None
  BY NoneIsNothing
<1>1. o.act = "create" <=> stack.lists[o.id] = None
  BY <1>0 DEF Accepts
<1>2. WriteList(o)
  BY DEF Write
<1>3. stack \in Stacks
  BY DEF ShapeInv
<1>4. CASE o.act = "create"
  <2>1. /\ minted' = minted + 1
        /\ stack' = [stack EXCEPT !.lists[o.id] = [body |-> local.lists[o.id], id |-> minted']]
    BY <1>2, <1>4 DEF WriteList
  <2>2. [body |-> local.lists[o.id], id |-> minted'] \in StackList
    BY <1>0, <2>1 DEF StackList
  <2>3. stack' \in Stacks /\ stack'.lists[o.id] = [body |-> local.lists[o.id], id |-> minted']
        /\ \A l \in Lists \ {o.id} : stack'.lists[l] = stack.lists[l]
        /\ stack'.rules = stack.rules /\ stack'.items = stack.items
    BY <1>0, <1>3, <2>1, <2>2 DEF Stacks
  <2> QED
    BY <1>0, <1>1, <1>4, <1>n, <2>1, <2>2, <2>3
<1>5. CASE o.act = "update"
  <2>1. /\ minted' = minted
        /\ stack' = [stack EXCEPT !.lists[o.id].body = local.lists[o.id]]
    BY <1>2, <1>5 DEF WriteList
  <2>2. stack.lists[o.id] \in StackList
    BY <1>0, <1>1, <1>3, <1>5 DEF Stacks
  <2>3. [stack.lists[o.id] EXCEPT !.body = local.lists[o.id]] \in StackList
    BY <1>0, <2>2 DEF StackList
  <2>4. stack' \in Stacks
        /\ stack'.lists[o.id] = [stack.lists[o.id] EXCEPT !.body = local.lists[o.id]]
        /\ \A l \in Lists \ {o.id} : stack'.lists[l] = stack.lists[l]
        /\ stack'.rules = stack.rules /\ stack'.items = stack.items
    BY <1>0, <1>3, <2>1, <2>3 DEF Stacks
  <2>5. /\ stack'.lists[o.id].body = local.lists[o.id]
        /\ stack'.lists[o.id].id = stack.lists[o.id].id
    BY <2>2, <2>4 DEF StackList
  <2> QED
    BY <1>0, <1>1, <1>5, <1>n, <2>1, <2>3, <2>4, <2>5
<1> QED
  BY <1>0, <1>4, <1>5

(* What an item's write does: one item is created, updated or deleted, and *)
(* nothing else changes.                                                   *)
LEMMA ItemWritten ==
  ASSUME ShapeInv, NEW o \in ops, o.kind = "item", Planned(o), Accepts(o), Write(o)
  PROVE  /\ stack' \in Stacks /\ minted' = minted
         /\ stack'.rules = stack.rules /\ stack'.lists = stack.lists
         /\ \A i \in Items \ {o.id} : stack'.items[i] = stack.items[i]
         /\ o.act = "create" <=> stack.items[o.id] = None
         /\ o.act = "create" =>
              stack'.items[o.id] = local.items[o.id] /\ stack.lists[o.list] # None
         /\ o.act = "update" =>
              /\ stack'.items[o.id] # None
              /\ stack'.items[o.id].list = stack.items[o.id].list
              /\ stack'.items[o.id].body = local.items[o.id].body
         /\ o.act = "remove" => stack'.items[o.id] = None
<1>0. o.id \in Items /\ o.act \in Acts /\ o.list \in Lists
      /\ (o.act # "remove" => local.items[o.id] \in MirrorItem)
  BY DEF ShapeInv, Planned, Mirrors, Writes
<1>n. \A x \in MirrorItem : x # None
  BY NoneIsNothing
<1>1. /\ o.act = "create" <=> stack.items[o.id] = None
      /\ o.act = "create" => stack.lists[o.list] # None
  BY <1>0 DEF Accepts
<1>2. WriteItem(o) /\ minted' = minted
  BY DEF Write, WriteItem
<1>3. stack \in Stacks
  BY DEF ShapeInv
<1>4. ASSUME NEW v \in MirrorItem \cup {None}, stack' = [stack EXCEPT !.items[o.id] = v]
      PROVE  /\ stack' \in Stacks /\ stack'.items[o.id] = v
             /\ \A i \in Items \ {o.id} : stack'.items[i] = stack.items[i]
             /\ stack'.rules = stack.rules /\ stack'.lists = stack.lists
  BY <1>0, <1>3, <1>4 DEF Stacks
<1>5. CASE o.act = "create"
  <2>1. stack' = [stack EXCEPT !.items[o.id] = local.items[o.id]]
    BY <1>2, <1>5 DEF WriteItem
  <2> QED
    BY <1>0, <1>1, <1>2, <1>4, <1>5, <2>1
<1>6. CASE o.act = "update"
  <2> DEFINE v == [stack.items[o.id] EXCEPT !.body = local.items[o.id].body]
  <2>1. stack' = [stack EXCEPT !.items[o.id] = v]
    BY <1>2, <1>6 DEF WriteItem
  <2>2. stack.items[o.id] \in MirrorItem
    BY <1>0, <1>1, <1>3, <1>6 DEF Stacks
  <2>3. v \in MirrorItem /\ v.list = stack.items[o.id].list /\ v.body = local.items[o.id].body
    BY <1>0, <1>6, <2>2 DEF MirrorItem
  <2> HIDE DEF v
  <2> QED
    BY <1>0, <1>1, <1>2, <1>4, <1>6, <1>n, <2>1, <2>3
<1>7. CASE o.act = "remove"
  <2>1. stack' = [stack EXCEPT !.items[o.id] = None]
    BY <1>2, <1>7 DEF WriteItem
  <2> QED
    BY <1>0, <1>1, <1>2, <1>4, <1>7, <2>1
<1> QED
  BY <1>0, <1>5, <1>6, <1>7 DEF Acts

(* What a rule's write does: one rule has the local body and refers to     *)
(* what ResolvedRefs says.                                                 *)
LEMMA RuleWritten ==
  ASSUME ShapeInv, NEW o \in ops, o.kind = "rule", Planned(o), Injectable(o), Write(o)
  PROVE  /\ stack' \in Stacks /\ minted' = minted
         /\ stack'.items = stack.items /\ stack'.lists = stack.lists
         /\ \A r \in Rules \ {o.id} : stack'.rules[r] = stack.rules[r]
         /\ stack'.rules[o.id] # None
         /\ stack'.rules[o.id].body = local.rules[o.id].body
         /\ stack'.rules[o.id].ref = local.rules[o.id].ref
         /\ local.rules[o.id].ref # None =>
              /\ local.rules[o.id].ref \in Lists /\ ids[local.rules[o.id].ref] # None
              /\ stack'.rules[o.id].ptr = ids[local.rules[o.id].ref]
<1> DEFINE d == local.rules[o.id]
           v == [body |-> d.body, ref |-> d.ref,
                 ptr |-> IF d.ref = None THEN None ELSE ids[d.ref]]
<1>0. o.id \in Rules /\ d \in MirrorRule
  BY DEF ShapeInv, Planned, Mirrors
<1>n. \A x \in StackRule : x # None
  BY NoneIsNothing
<1>1. d.body \in Bodies /\ d.ref \in Lists \cup {None}
  BY <1>0 DEF MirrorRule
<1>2. d.ref # None => ids[d.ref] # None /\ ids[d.ref] \in Nat
  BY <1>1 DEF ShapeInv, Injectable
<1>3. v \in StackRule
  BY <1>1, <1>2 DEF StackRule
<1>4. stack' = [stack EXCEPT !.rules[o.id] = v] /\ minted' = minted
  BY DEF Write, WriteRule
<1>5. stack \in Stacks
  BY DEF ShapeInv
<1>6. v.body = d.body /\ v.ref = d.ref /\ (d.ref # None => v.ptr = ids[d.ref])
  OBVIOUS
<1> HIDE DEF v
<1>7. /\ stack' \in Stacks /\ stack'.rules[o.id] = v
      /\ \A r \in Rules \ {o.id} : stack'.rules[r] = stack.rules[r]
      /\ stack'.items = stack.items /\ stack'.lists = stack.lists
  BY <1>0, <1>3, <1>4, <1>5 DEF Stacks
<1> QED
  BY <1>1, <1>2, <1>3, <1>4, <1>6, <1>7, <1>n
-----------------------------------------------------------------------------
(* The steps of the others.                                                *)

(* What a step of another client does: it changes one list or one item,    *)
(* which `changed` then names.                                             *)
LEMMA ClientFacts ==
  ASSUME ShapeInv, HomeInv, ClientEdits
  PROVE  /\ stack' \in Stacks /\ (Lists # {} => minted' \in Nat) /\ HomeInv'
         /\ changed' # {}
         /\ \A l \in Lists : <<"list", l>> \in changed =>  <<"list", l>> \in changed'
         /\ \A i \in Items : <<"item", i>> \in changed =>  <<"item", i>> \in changed'
         /\ \A l \in Lists : <<"list", l>> \in changed' \/ stack'.lists[l] = stack.lists[l]
         /\ \A i \in Items : <<"item", i>> \in changed' \/ stack'.items[i] = stack.items[i]
<1> USE DEF ShapeInv
<1>n. /\ \A x \in MirrorItem : x # None
      /\ \A x \in StackList : x # None
  BY NoneIsNothing
<1>0. stack \in Stacks
  OBVIOUS
<1>1. ASSUME NEW l \in Lists, ClientDeletesList(l)
      PROVE  /\ stack' \in Stacks /\ minted' = minted
             /\ stack'.lists = [stack.lists EXCEPT ![l] = None]
             /\ stack'.items = [i \in Items |-> IF stack.items[i] # None /\ stack.items[i].list = l
                                               THEN None ELSE stack.items[i]]
             /\ changed' = changed \cup {<<"list", l>>} \cup
                  {<<"item", i>> : i \in {k \in Existing(stack.items) : stack.items[k].list = l}}
  BY <1>0, <1>1 DEF ClientDeletesList, Stacks
<1>2. ASSUME NEW l \in Lists, ClientDeletesList(l)
      PROVE  /\ HomeInv'
             /\ \A i \in Items : <<"item", i>> \in changed' \/ stack'.items[i] = stack.items[i]
             /\ \A k \in Lists : <<"list", k>> \in changed' \/ stack'.lists[k] = stack.lists[k]
  <2>0. /\ stack'.lists = [stack.lists EXCEPT ![l] = None]
        /\ stack'.items = [i \in Items |-> IF stack.items[i] # None /\ stack.items[i].list = l
                                            THEN None ELSE stack.items[i]]
        /\ changed' = changed \cup {<<"list", l>>} \cup
             {<<"item", i>> : i \in {k \in Existing(stack.items) : stack.items[k].list = l}}
    BY <1>1, <1>2
  <2>a. /\ \A i \in Items : stack.items[i] # None => stack.items[i].list \in Lists
        /\ DOMAIN stack.items = Items /\ DOMAIN stack.lists = Lists
    BY <1>0 DEF Stacks, MirrorItem
  <2>1. HomeInv'
    <3> SUFFICES ASSUME NEW i \in Items, stack'.items[i] # None
                 PROVE  stack'.lists[stack'.items[i].list] # None
      BY DEF HomeInv
    <3>1. stack'.items[i] = stack.items[i] /\ stack.items[i].list # l
      BY <2>0
    <3> QED
      BY <2>0, <2>a, <3>1 DEF HomeInv
  <2>2. ASSUME NEW i \in Items, stack'.items[i] # stack.items[i] PROVE <<"item", i>> \in changed'
    <3>1. stack.items[i] # None /\ stack.items[i].list = l
      BY <2>0, <2>2
    <3> QED
      BY <2>0, <2>a, <3>1 DEF Existing
  <2>3. \A k \in Lists : <<"list", k>> \in changed' \/ stack'.lists[k] = stack.lists[k]
    BY <2>0, <2>a
  <2> QED
    BY <2>1, <2>2, <2>3
<1>3. ASSUME NEW l \in Lists, NEW body \in Bodies, ClientWritesList(l, body)
      PROVE  /\ stack' \in Stacks /\ minted' \in Nat
             /\ stack'.items = stack.items /\ changed' = changed \cup {<<"list", l>>}
             /\ stack'.lists[l] # None
             /\ \A k \in Lists \ {l} : stack'.lists[k] = stack.lists[k]
  <2> DEFINE id == IF stack.lists[l] = None THEN minted' ELSE stack.lists[l].id
             v == [body |-> body, id |-> id]
  <2>1. stack' = [stack EXCEPT !.lists[l] = v] /\ changed' = changed \cup {<<"list", l>>}
    BY <1>3 DEF ClientWritesList
  <2>2. minted' \in Nat /\ id \in Nat
    BY <1>0, <1>3 DEF ClientWritesList, Stacks, StackList
  <2>3. v \in StackList
    BY <2>2 DEF StackList
  <2> HIDE DEF v
  <2> QED
    BY <1>0, <1>n, <2>1, <2>2, <2>3 DEF Stacks
<1>4. ASSUME NEW i \in Items, NEW new \in MirrorItem \cup {None}, ClientWritesItem(i, new)
      PROVE  /\ stack' \in Stacks /\ minted' = minted /\ HomeInv'
             /\ stack'.lists = stack.lists /\ changed' = changed \cup {<<"item", i>>}
             /\ \A k \in Items \ {i} : stack'.items[k] = stack.items[k]
  <2>1. /\ stack' \in Stacks /\ minted' = minted
        /\ stack'.lists = stack.lists /\ changed' = changed \cup {<<"item", i>>}
        /\ \A k \in Items \ {i} : stack'.items[k] = stack.items[k]
        /\ stack'.items[i] = new /\ (new # None => stack.lists[new.list] # None)
    BY <1>0, <1>4 DEF ClientWritesItem, Stacks
  <2>2. HomeInv'
    BY <2>1 DEF HomeInv
  <2> QED
    BY <2>1, <2>2
<1>5. ASSUME NEW r \in Rules, NEW new \in MirrorRule \cup {None}, ClientWritesRule(r, new)
      PROVE  /\ stack' \in Stacks /\ minted' = minted
             /\ stack'.lists = stack.lists /\ stack'.items = stack.items
             /\ changed' = changed \cup {<<"rule", r>>}
  <2> DEFINE v == IF new = None THEN None
                  ELSE [body |-> new.body, ref |-> new.ref,
                        ptr |-> IF new.ref = None THEN None ELSE stack.lists[new.ref].id]
  <2>1. /\ stack' = [stack EXCEPT !.rules[r] = v] /\ minted' = minted
        /\ changed' = changed \cup {<<"rule", r>>}
        /\ new # None => new.ref \in Existing(stack.lists) \cup {None}
    BY <1>5 DEF ClientWritesRule
  <2>2. v \in StackRule \cup {None}
    <3>1. CASE new = None
      BY <3>1
    <3>2. CASE new # None /\ new.ref = None
      BY <3>2, NoneIsNothing DEF StackRule, MirrorRule
    <3>3. CASE new # None /\ new.ref # None
      <4>1. new.ref \in Lists /\ new.body \in Bodies /\ stack.lists[new.ref] # None
        BY <1>0, <2>1, <3>3 DEF Existing, Stacks, MirrorRule
      <4>2. stack.lists[new.ref].id \in Nat
        BY <1>0, <4>1 DEF Stacks, StackList
      <4> QED
        BY <3>3, <4>1, <4>2 DEF StackRule
    <3> QED
      BY <3>1, <3>2, <3>3
  <2> HIDE DEF v
  <2> QED
    BY <1>0, <2>1, <2>2 DEF Stacks
<1>6. ASSUME NEW l \in Lists, ClientDeletesList(l) \/ \E body \in Bodies : ClientWritesList(l, body)
      PROVE  /\ stack' \in Stacks /\ (Lists # {} => minted' \in Nat) /\ HomeInv'
             /\ changed' # {} /\ changed \subseteq changed'
             /\ \A k \in Lists : <<"list", k>> \in changed' \/ stack'.lists[k] = stack.lists[k]
             /\ \A i \in Items : <<"item", i>> \in changed' \/ stack'.items[i] = stack.items[i]
  <2>1. CASE ClientDeletesList(l)
    BY <1>1, <1>2, <2>1
  <2>2. ASSUME NEW body \in Bodies, ClientWritesList(l, body)
        PROVE  /\ stack' \in Stacks /\ minted' \in Nat /\ HomeInv'
               /\ changed' # {} /\ changed \subseteq changed'
               /\ \A k \in Lists : <<"list", k>> \in changed' \/ stack'.lists[k] = stack.lists[k]
               /\ \A i \in Items : stack'.items[i] = stack.items[i]
    <3>1. /\ stack' \in Stacks /\ minted' \in Nat
          /\ stack'.items = stack.items /\ changed' = changed \cup {<<"list", l>>}
          /\ stack'.lists[l] # None
          /\ \A k \in Lists \ {l} : stack'.lists[k] = stack.lists[k]
      BY <1>3, <2>2
    <3>2. \A i \in Items : stack.items[i] # None => stack.items[i].list \in Lists
      BY <1>0 DEF Stacks, MirrorItem
    <3>3. HomeInv'
      BY <3>1, <3>2 DEF HomeInv
    <3> QED
      BY <3>1, <3>3
  <2> QED
    BY <1>6, <2>1, <2>2
<1>7. ASSUME NEW i \in Items, NEW new \in MirrorItem \cup {None}, ClientWritesItem(i, new)
      PROVE  /\ stack' \in Stacks /\ (Lists # {} => minted' \in Nat) /\ HomeInv'
             /\ changed' # {} /\ changed \subseteq changed'
             /\ \A k \in Lists : <<"list", k>> \in changed' \/ stack'.lists[k] = stack.lists[k]
             /\ \A k \in Items : <<"item", k>> \in changed' \/ stack'.items[k] = stack.items[k]
  BY <1>4, <1>7
<1>8. ASSUME NEW r \in Rules, NEW new \in MirrorRule \cup {None}, ClientWritesRule(r, new)
      PROVE  /\ stack' \in Stacks /\ (Lists # {} => minted' \in Nat) /\ HomeInv'
             /\ changed' # {} /\ changed \subseteq changed'
             /\ \A k \in Lists : <<"list", k>> \in changed' \/ stack'.lists[k] = stack.lists[k]
             /\ \A k \in Items : <<"item", k>> \in changed' \/ stack'.items[k] = stack.items[k]
  BY <1>5, <1>8 DEF HomeInv
<1> QED
  BY <1>6, <1>7, <1>8 DEF ClientEdits

(* Another client changes the stack. *)
LEMMA ClientStep ==
  ASSUME IInv, ClientEdits
  PROVE  IInv'
<1>a. /\ UNCHANGED <<mirror, pc, scope, local, remote, todo, ids, ops, report, outcome>>
      /\ edits' \in Nat
  BY DEF ClientEdits, Edit, plan, IInv, ShapeInv
<1>b. /\ stack' \in Stacks /\ (Lists # {} => minted' \in Nat) /\ HomeInv'
      /\ changed' # {}
      /\ \A l \in Lists : <<"list", l>> \in changed =>  <<"list", l>> \in changed'
      /\ \A i \in Items : <<"item", i>> \in changed =>  <<"item", i>> \in changed'
      /\ \A l \in Lists : <<"list", l>> \in changed' \/ stack'.lists[l] = stack.lists[l]
      /\ \A i \in Items : <<"item", i>> \in changed' \/ stack'.items[i] = stack.items[i]
  BY ClientFacts DEF IInv
<1>c. remote \in Reads /\ (\A o \in ops : o.kind = "item" => o.id \in Items)
  BY DEF IInv, ShapeInv, OpsInv, Planned
<1>1. ShapeInv'
  BY <1>a, <1>b, <1>c DEF IInv, ShapeInv
<1>2. HomeInv'
  BY <1>a, <1>b, <1>c DEF IInv, HomeInv
<1>3. ScopeInv'
  BY <1>a, <1>b, <1>c DEF IInv, ScopeInv, Existing, Wanted, Refs
<1>4. ReadRulesInv'
  BY <1>a, <1>b, <1>c DEF IInv, ReadRulesInv, NoneRead
<1>5. ReadListsInv'
  BY <1>a, <1>b, <1>c DEF IInv, ReadListsInv, Wanted, Refs, Existing
<1>6. ReadItemsInv'
  <2>1. Both' = Both
    BY <1>a, <1>b, <1>c DEF Both, LocalLists, RemoteLists, Wanted
  <2>2. remote.items \subseteq Snapshot
    BY DEF IInv, ShapeInv, Reads
  <2> QED
    BY <1>a, <1>b, <1>c, <2>1, <2>2 DEF IInv, ReadItemsInv, Existing, Snapshot
<1>7. OpsInv'
  BY <1>a, <1>b, <1>c DEF IInv, OpsInv, Writing, Planned, RemoteItems
<1>8. OrderInv'
  BY <1>a, <1>b, <1>c DEF IInv, OrderInv, Writing, OpsOn, Recorded
<1>9. IdsInv'
  BY <1>a, <1>b, <1>c DEF IInv, IdsInv
<1>10. RulesInv'
  BY <1>a, <1>b, <1>c DEF IInv, RulesInv, Writing, Existing, RuleInSync, PendingOn
<1>11. ListsInv'
  BY <1>a, <1>b, <1>c DEF IInv, ListsInv, Writing, LocalLists, Existing, Wanted, Refs, PendingOn
<1>12. ItemsInv'
  BY <1>a, <1>b, <1>c DEF IInv, ItemsInv, Writing, Settled, LocalLists, Existing, Wanted, Refs
<1>13. CleanAfterPush'
  BY <1>a, <1>b, <1>c DEF IInv, CleanAfterPush, RuleInSync, ListInSync, LocalLists, Existing,
     Wanted, Refs
<1> QED
  BY <1>1, <1>2, <1>3, <1>4, <1>5, <1>6, <1>7, <1>8, <1>9, <1>10, <1>11, <1>12, <1>13 DEF IInv

(* An editor or a pull changes the mirror. *)
LEMMA MirrorStep ==
  ASSUME IInv, MirrorEdits
  PROVE  IInv'
<1>a. UNCHANGED <<stack, minted, pc, scope, local, remote, todo, ids, ops, report, outcome, changed>> /\ edits' \in Nat
  <2>1. edits' \in Nat
    <3>1. Edit
      BY Zenon DEF MirrorEdits
    <3> QED
      BY <3>1 DEF Edit, IInv, ShapeInv
  <2> QED
    BY <2>1 DEF MirrorEdits, plan
<1>b. mirror' \in Mirrors
  <2>0. mirror \in Mirrors
    BY DEF IInv, ShapeInv
  <2>1. ASSUME NEW r \in Rules, NEW new \in MirrorRule \cup {None}, mirror' = [mirror EXCEPT !.rules[r] = new]
        PROVE mirror' \in Mirrors
    BY <2>0, <2>1 DEF Mirrors
  <2>2. ASSUME NEW l \in Lists, NEW body \in Bodies, mirror' = [mirror EXCEPT !.lists[l] = body]
        PROVE mirror' \in Mirrors
    BY <2>0, <2>2 DEF Mirrors
  <2>3. ASSUME NEW l \in Lists,
               mirror' = [mirror EXCEPT !.lists[l] = None,
                 !.items = [i \in Items |-> IF @[i] # None /\ @[i].list = l THEN None ELSE @[i]]]
        PROVE mirror' \in Mirrors
    BY <2>0, <2>3 DEF Mirrors
  <2>4. ASSUME NEW i \in Items, NEW new \in MirrorItem \cup {None}, mirror' = [mirror EXCEPT !.items[i] = new]
        PROVE mirror' \in Mirrors
    BY <2>0, <2>4 DEF Mirrors
  <2> QED
    BY <2>1, <2>2, <2>3, <2>4 DEF MirrorEdits
<1>1. ShapeInv'
  BY <1>a, <1>b DEF IInv, ShapeInv
<1>2. HomeInv'
  BY <1>a, <1>b DEF IInv, HomeInv
<1>3. ScopeInv'
  BY <1>a, <1>b DEF IInv, ScopeInv, Existing, Wanted, Refs
<1>4. ReadRulesInv'
  BY <1>a, <1>b DEF IInv, ReadRulesInv, NoneRead
<1>5. ReadListsInv'
  BY <1>a, <1>b DEF IInv, ReadListsInv, Wanted, Refs, Existing
<1>6. ReadItemsInv'
  <2>1. Both' = Both
    BY <1>a, <1>b DEF Both, LocalLists, RemoteLists, Wanted
  <2>2. remote.items \subseteq Snapshot
    BY DEF IInv, ShapeInv, Reads
  <2> QED
    BY <1>a, <1>b, <2>1, <2>2 DEF IInv, ReadItemsInv, Existing, Snapshot
<1>7. OpsInv'
  BY <1>a, <1>b DEF IInv, OpsInv, Writing, Planned, RemoteItems
<1>8. OrderInv'
  BY <1>a, <1>b DEF IInv, OrderInv, Writing, OpsOn, Recorded
<1>9. IdsInv'
  BY <1>a, <1>b DEF IInv, IdsInv
<1>10. RulesInv'
  BY <1>a, <1>b DEF IInv, RulesInv, Writing, Existing, RuleInSync, PendingOn
<1>11. ListsInv'
  BY <1>a, <1>b DEF IInv, ListsInv, Writing, LocalLists, Existing, Wanted, Refs, PendingOn
<1>12. ItemsInv'
  BY <1>a, <1>b DEF IInv, ItemsInv, Writing, Settled, LocalLists, Existing, Wanted, Refs
<1>13. CleanAfterPush'
  BY <1>a, <1>b DEF IInv, CleanAfterPush, RuleInSync, ListInSync, LocalLists, Existing,
     Wanted, Refs
<1> QED
  BY <1>1, <1>2, <1>3, <1>4, <1>5, <1>6, <1>7, <1>8, <1>9, <1>10, <1>11, <1>12, <1>13 DEF IInv

(* A push starts: what it knew is forgotten. *)
LEMMA StartStep ==
  ASSUME IInv, NEW sc \in SUBSET Rules, NEW y \in BOOLEAN, Start(sc, y)
  PROVE  IInv'
<1>a. /\ pc = "idle" /\ pc' = "rules" /\ outcome' = "none" /\ scope' = sc
      /\ remote' = NoneRead /\ report' = EmptyReport /\ ids' = [l \in Lists |-> None]
      /\ changed' = {}
      /\ UNCHANGED <<mirror, stack, minted, todo, ops>>
  BY DEF Start
<1>b. edits' \in Nat
  BY DEF Start, IInv, ShapeInv
<1>c. local' \in Mirrors /\ Existing(local'.rules) \subseteq sc
  <2>1. PICK lostRules, lostLists : local' = Narrow(ReadMirror(lostRules, lostLists), sc)
    BY DEF Start
  <2>2. mirror \in Mirrors
    BY DEF IInv, ShapeInv
  <2>3. ReadMirror(lostRules, lostLists) \in Mirrors
    BY <2>2 DEF ReadMirror, Mirrors
  <2> QED
    BY <2>1, <2>3 DEF Narrow, Mirrors, Existing
<1>d. NoneRead \in Reads /\ EmptyReport \in Reports
  BY DEF NoneRead, Reads, EmptyReport, Reports
<1>e. ops = {}
  BY <1>a DEF IInv, OpsInv, Writing
<1>1. ShapeInv'
  BY <1>a, <1>b, <1>c, <1>d, <1>e DEF IInv, ShapeInv
<1>2. HomeInv'
  BY <1>a, <1>b, <1>c, <1>d, <1>e DEF IInv, HomeInv
<1>3. ScopeInv'
  BY <1>a, <1>b, <1>c, <1>d, <1>e DEF ScopeInv, NoneRead, Existing
<1>4. ReadRulesInv'
  BY <1>a, <1>b, <1>c, <1>d, <1>e DEF IInv, ReadRulesInv, NoneRead
<1>5. ReadListsInv'
  BY <1>a, <1>b, <1>c, <1>d, <1>e DEF IInv, ReadListsInv, Wanted, Refs, Existing
<1>6. ReadItemsInv'
  BY <1>a, <1>b, <1>c, <1>d, <1>e DEF IInv, ReadItemsInv, Both, LocalLists, RemoteLists,
     Existing, Wanted, Refs
<1>7. OpsInv'
  BY <1>a, <1>b, <1>c, <1>d, <1>e DEF IInv, OpsInv, Writing, Planned, RemoteItems
<1>8. OrderInv'
  BY <1>a, <1>b, <1>c, <1>d, <1>e DEF IInv, OrderInv, Writing, OpsOn, Recorded
<1>9. IdsInv'
  BY <1>a, <1>b, <1>c, <1>d, <1>e DEF IInv, IdsInv
<1>10. RulesInv'
  BY <1>a, <1>b, <1>c, <1>d, <1>e DEF IInv, RulesInv, Writing, Existing, RuleInSync, PendingOn
<1>11. ListsInv'
  BY <1>a, <1>b, <1>c, <1>d, <1>e DEF IInv, ListsInv, Writing, LocalLists, Existing, Wanted,
     Refs, PendingOn
<1>12. ItemsInv'
  BY <1>a, <1>b, <1>c, <1>d, <1>e DEF IInv, ItemsInv, Writing, Settled, LocalLists, Existing,
     Wanted, Refs
<1>13. CleanAfterPush'
  BY <1>a, <1>b, <1>c, <1>d, <1>e DEF IInv, CleanAfterPush, RuleInSync, ListInSync,
     LocalLists, Existing, Wanted, Refs
<1> QED
  BY <1>1, <1>2, <1>3, <1>4, <1>5, <1>6, <1>7, <1>8, <1>9, <1>10, <1>11, <1>12, <1>13 DEF IInv

-----------------------------------------------------------------------------
(* Reading and planning.                                                   *)

(* The rules of the scope are read. *)
LEMMA ReadRulesStep ==
  ASSUME IInv, ReadRules
  PROVE  IInv'
<1>a. /\ pc = "rules" /\ pc' = "lists"
      /\ UNCHANGED <<mirror, stack, minted, local, scope, ids, ops, report, outcome, changed, edits>>
  BY DEF ReadRules, plan
<1>b. todo' = Wanted'
  BY DEF ReadRules, plan, Wanted
<1>c. remote = NoneRead /\ ops = {}
  BY <1>a DEF IInv, ReadRulesInv, OpsInv, Writing
<1>t. stack \in Stacks /\ local \in Mirrors /\ scope \subseteq Rules
  BY DEF IInv, ShapeInv
<1>d. /\ remote'.rules = [r \in Rules |-> IF r \in scope THEN stack.rules[r] ELSE None]
      /\ remote'.lists = NoneRead.lists /\ remote'.items = {} /\ remote' \in Reads
  BY <1>c, <1>t DEF ReadRules, NoneRead, Reads, Stacks
<1>e. Refs(local.rules) \subseteq Lists /\ Refs(remote'.rules) \subseteq Lists
  BY <1>d, <1>t DEF Refs, Existing, Mirrors, Reads, MirrorRule, StackRule
<1>1. ShapeInv'
  <2>1. todo' \subseteq Lists
    BY <1>a, <1>b, <1>e DEF Wanted
  <2> QED
    BY <1>a, <1>b, <1>c, <1>t, <1>d, <1>e, <2>1 DEF IInv, ShapeInv
<1>2. HomeInv'
  BY <1>a, <1>b, <1>c, <1>t, <1>d, <1>e DEF IInv, HomeInv
<1>3. ScopeInv'
  BY <1>a, <1>b, <1>c, <1>t, <1>d, <1>e DEF IInv, ScopeInv, NoneRead, Existing
<1>4. ReadRulesInv'
  BY <1>a, <1>b, <1>c, <1>t, <1>d, <1>e DEF IInv, ReadRulesInv, NoneRead
<1>5. ReadListsInv'
  BY <1>a, <1>b, <1>c, <1>t, <1>d, <1>e DEF IInv, ReadListsInv
<1>6. ReadItemsInv'
  BY <1>a, <1>b, <1>c, <1>t, <1>d, <1>e DEF IInv, ReadItemsInv, Both, LocalLists, RemoteLists,
     Existing, Wanted, Refs
<1>7. OpsInv'
  BY <1>a, <1>b, <1>c, <1>t, <1>d, <1>e DEF IInv, OpsInv, Writing, Planned, RemoteItems
<1>8. OrderInv'
  BY <1>a, <1>b, <1>c, <1>t, <1>d, <1>e DEF IInv, OrderInv, Writing, OpsOn, Recorded
<1>9. IdsInv'
  BY <1>a, <1>b, <1>c, <1>t, <1>d, <1>e DEF IInv, IdsInv
<1>10. RulesInv'
  BY <1>a, <1>b, <1>c, <1>t, <1>d, <1>e DEF IInv, RulesInv, Writing, Existing, RuleInSync,
     PendingOn
<1>11. ListsInv'
  BY <1>a, <1>b, <1>c, <1>t, <1>d, <1>e DEF IInv, ListsInv, Writing, LocalLists, Existing,
     Wanted, Refs, PendingOn
<1>12. ItemsInv'
  BY <1>a, <1>b, <1>c, <1>t, <1>d, <1>e DEF IInv, ItemsInv, Writing, Settled, LocalLists,
     Existing, Wanted, Refs
<1>13. CleanAfterPush'
  BY <1>a, <1>b, <1>c, <1>t, <1>d, <1>e DEF IInv, CleanAfterPush, RuleInSync, ListInSync,
     LocalLists, Existing, Wanted, Refs
<1> QED
  BY <1>1, <1>2, <1>3, <1>4, <1>5, <1>6, <1>7, <1>8, <1>9, <1>10, <1>11, <1>12, <1>13 DEF IInv

(* A list is read. *)
LEMMA FetchListStep ==
  ASSUME IInv, FetchList
  PROVE  IInv'
<1>a. /\ pc = "lists" /\ pc' = pc /\ todo # {}
      /\ UNCHANGED <<mirror, stack, minted, local, scope, ids, ops, report, outcome, changed, edits>>
  BY DEF FetchList, plan
<1>b. stack \in Stacks /\ todo \subseteq Lists /\ remote \in Reads
  BY DEF IInv, ShapeInv
<1>c. PICK l \in todo : remote' = [remote EXCEPT !.lists[l] = stack.lists[l]] /\ todo' = todo \ {l}
  <2>1. Smallest(todo) \in todo
    BY <1>a, <1>b, SmallestFacts, Keys DEF KeysFacts
  <2> QED
    BY <2>1 DEF FetchList
<1>d. /\ remote' \in Reads /\ remote'.rules = remote.rules /\ remote'.items = remote.items
      /\ remote'.lists = [remote.lists EXCEPT ![l] = stack.lists[l]]
  BY <1>b, <1>c DEF Reads, Stacks
<1>e. Wanted' = Wanted /\ DOMAIN remote.lists = Lists /\ DOMAIN remote'.lists = Lists
  BY <1>a, <1>b, <1>d DEF Wanted, Refs, Existing, Reads
<1>f. ops = {} /\ todo \subseteq Wanted
  BY <1>a DEF IInv, OpsInv, Writing, ReadListsInv
<1>1. ShapeInv'
  BY <1>a, <1>b, <1>c, <1>d, <1>e, <1>f DEF IInv, ShapeInv
<1>2. HomeInv'
  BY <1>a, <1>b, <1>c, <1>d, <1>e, <1>f DEF IInv, HomeInv
<1>3. ScopeInv'
  BY <1>a, <1>b, <1>c, <1>d, <1>e, <1>f DEF IInv, ScopeInv, Existing
<1>4. ReadRulesInv'
  BY <1>a, <1>b, <1>c, <1>d, <1>e, <1>f DEF IInv, ReadRulesInv, NoneRead
<1>5. ReadListsInv'
  BY <1>a, <1>b, <1>c, <1>d, <1>e, <1>f DEF IInv, ReadListsInv
<1>6. ReadItemsInv'
  BY <1>a, <1>b, <1>c, <1>d, <1>e, <1>f DEF IInv, ReadItemsInv, Both, LocalLists, RemoteLists,
     Existing, Wanted, Refs
<1>7. OpsInv'
  BY <1>a, <1>b, <1>c, <1>d, <1>e, <1>f DEF IInv, OpsInv, Writing, Planned, RemoteItems
<1>8. OrderInv'
  BY <1>a, <1>b, <1>c, <1>d, <1>e, <1>f DEF IInv, OrderInv, Writing, OpsOn, Recorded
<1>9. IdsInv'
  BY <1>a, <1>b, <1>c, <1>d, <1>e, <1>f DEF IInv, IdsInv
<1>10. RulesInv'
  BY <1>a, <1>b, <1>c, <1>d, <1>e, <1>f DEF IInv, RulesInv, Writing, Existing, RuleInSync,
     PendingOn
<1>11. ListsInv'
  BY <1>a, <1>b, <1>c, <1>d, <1>e, <1>f DEF IInv, ListsInv, Writing, LocalLists, Existing,
     Wanted, Refs, PendingOn
<1>12. ItemsInv'
  BY <1>a, <1>b, <1>c, <1>d, <1>e, <1>f DEF IInv, ItemsInv, Writing, Settled, LocalLists,
     Existing, Wanted, Refs
<1>13. CleanAfterPush'
  BY <1>a, <1>b, <1>c, <1>d, <1>e, <1>f DEF IInv, CleanAfterPush, RuleInSync, ListInSync,
     LocalLists, Existing, Wanted, Refs
<1> QED
  BY <1>1, <1>2, <1>3, <1>4, <1>5, <1>6, <1>7, <1>8, <1>9, <1>10, <1>11, <1>12, <1>13 DEF IInv

(* Every list that is wanted has been read. *)
LEMMA ListsFetchedStep ==
  ASSUME IInv, ListsFetched
  PROVE  IInv'
<1>a. /\ pc = "lists" /\ pc' = "items" /\ todo = {} /\ todo' = Both /\ remote' = remote
      /\ UNCHANGED <<mirror, stack, minted, local, scope, ids, ops, report, outcome, changed, edits>>
  BY DEF ListsFetched, plan
<1>b. Both \subseteq Lists
  <2>1. local \in Mirrors
    BY DEF IInv, ShapeInv
  <2> QED
    BY <2>1 DEF Both, LocalLists, Existing, Mirrors
<1>e. Wanted' = Wanted /\ Both' = Both
  BY <1>a DEF Wanted, Both, LocalLists, RemoteLists, Existing, Refs
<1>f. ops = {} /\ remote.items = {}
  BY <1>a DEF IInv, OpsInv, Writing, ReadListsInv
<1>1. ShapeInv'
  BY <1>a, <1>b, <1>e, <1>f DEF IInv, ShapeInv
<1>2. HomeInv'
  BY <1>a, <1>b, <1>e, <1>f DEF IInv, HomeInv
<1>3. ScopeInv'
  BY <1>a, <1>b, <1>e, <1>f DEF IInv, ScopeInv
<1>4. ReadRulesInv'
  BY <1>a, <1>b, <1>e, <1>f DEF IInv, ReadRulesInv, NoneRead
<1>5. ReadListsInv'
  BY <1>a, <1>b, <1>e, <1>f DEF IInv, ReadListsInv
<1>6. ReadItemsInv'
  BY <1>a, <1>b, <1>e, <1>f DEF IInv, ReadItemsInv
<1>7. OpsInv'
  BY <1>a, <1>b, <1>e, <1>f DEF IInv, OpsInv, Writing, Planned, RemoteItems
<1>8. OrderInv'
  BY <1>a, <1>b, <1>e, <1>f DEF IInv, OrderInv, Writing, OpsOn, Recorded
<1>9. IdsInv'
  BY <1>a, <1>b, <1>e, <1>f DEF IInv, IdsInv
<1>10. RulesInv'
  BY <1>a, <1>b, <1>e, <1>f DEF IInv, RulesInv, Writing, Existing, RuleInSync, PendingOn
<1>11. ListsInv'
  BY <1>a, <1>b, <1>e, <1>f DEF IInv, ListsInv, Writing, LocalLists, Existing, Wanted, Refs,
     PendingOn
<1>12. ItemsInv'
  BY <1>a, <1>b, <1>e, <1>f DEF IInv, ItemsInv, Writing, Settled, LocalLists, Existing,
     Wanted, Refs
<1>13. CleanAfterPush'
  BY <1>a, <1>b, <1>e, <1>f DEF IInv, CleanAfterPush, RuleInSync, ListInSync, LocalLists,
     Existing, Wanted, Refs
<1> QED
  BY <1>1, <1>2, <1>3, <1>4, <1>5, <1>6, <1>7, <1>8, <1>9, <1>10, <1>11, <1>12, <1>13 DEF IInv

(* The items of a list are read. *)
LEMMA FindItemsStep ==
  ASSUME IInv, FindItems
  PROVE  IInv'
<1>a. /\ pc = "items" /\ pc' = pc /\ todo # {}
      /\ UNCHANGED <<mirror, stack, minted, local, scope, ids, ops, report, outcome, changed, edits>>
  BY DEF FindItems, plan
<1>b. stack \in Stacks /\ todo \subseteq Lists /\ remote \in Reads
  BY DEF IInv, ShapeInv
<1>c. PICK l \in todo :
        /\ remote' = [remote EXCEPT !.items = remote.items \cup
             {[item |-> i, list |-> l, body |-> stack.items[i].body] :
                i \in {k \in Existing(stack.items) : stack.items[k].list = l}}]
        /\ todo' = todo \ {l}
  <2>1. Smallest(todo) \in todo
    BY <1>a, <1>b, SmallestFacts, Keys DEF KeysFacts
  <2> QED
    BY <2>1 DEF FindItems
<1>g. /\ remote'.rules = remote.rules /\ remote'.lists = remote.lists
      /\ remote'.items = remote.items \cup
             {[item |-> i, list |-> l, body |-> stack.items[i].body] :
                i \in {k \in Existing(stack.items) : stack.items[k].list = l}}
      /\ remote' \in Reads
  <2>1. {[item |-> i, list |-> l, body |-> stack.items[i].body] :
           i \in {k \in Existing(stack.items) : stack.items[k].list = l}} \subseteq Snapshot
    BY <1>b DEF Snapshot, Existing, Stacks, MirrorItem
  <2> QED
    BY <1>b, <1>c, <2>1 DEF Reads
<1>e. Wanted' = Wanted /\ Both' = Both
  BY <1>a, <1>g DEF Wanted, Both, LocalLists, RemoteLists
<1>f. ops = {} /\ todo \subseteq Both
  BY <1>a DEF IInv, OpsInv, Writing, ReadItemsInv
<1>1. ShapeInv'
  BY <1>a, <1>b, <1>c, <1>g DEF IInv, ShapeInv
<1>2. HomeInv'
  BY <1>a, <1>b, <1>c, <1>g, <1>e, <1>f DEF IInv, HomeInv
<1>3. ScopeInv'
  BY <1>a, <1>g, <1>e DEF IInv, ScopeInv
<1>4. ReadRulesInv'
  BY <1>a, <1>g DEF IInv, ReadRulesInv
<1>5. ReadListsInv'
  BY <1>a, <1>e, <1>g DEF IInv, ReadListsInv
<1>6. ReadItemsInv'
  <2>0. /\ \A s \in remote.items :
             /\ s.list \in Both \ todo
             /\ \/ <<"item", s.item>> \in changed
                \/ /\ stack.items[s.item] # None
                   /\ stack.items[s.item].list = s.list /\ stack.items[s.item].body = s.body
        /\ changed = {} =>
             \A i \in Existing(stack.items) :
               stack.items[i].list \in Both \ todo =>
                 \E s \in remote.items : s.item = i /\ s.list = stack.items[i].list
    BY <1>a DEF IInv, ReadItemsInv
  <2>1. ASSUME NEW s \in remote'.items
        PROVE  /\ s.list \in Both \ todo'
               /\ \/ <<"item", s.item>> \in changed
                  \/ /\ stack.items[s.item] # None
                     /\ stack.items[s.item].list = s.list /\ stack.items[s.item].body = s.body
    <3>1. CASE s \in remote.items
      BY <2>0, <3>1, <1>c, <1>f
    <3>2. CASE s \notin remote.items
      <4>1. PICK i \in Existing(stack.items) :
              s = [item |-> i, list |-> l, body |-> stack.items[i].body] /\ stack.items[i].list = l
        BY <1>g, <2>1, <3>2
      <4> QED
        BY <4>1, <1>c, <1>f DEF Existing
    <3> QED
      BY <3>1, <3>2
  <2>2. ASSUME changed = {}, NEW i \in Existing(stack.items), stack.items[i].list \in Both \ todo'
        PROVE  \E s \in remote'.items : s.item = i /\ s.list = stack.items[i].list
    <3>1. CASE stack.items[i].list = l
      <4>1. [item |-> i, list |-> l, body |-> stack.items[i].body] \in remote'.items
        BY <1>g, <2>2, <3>1
      <4> QED
        BY <3>1, <4>1
    <3>2. CASE stack.items[i].list # l
      BY <2>0, <2>2, <3>2, <1>c, <1>g
    <3> QED
      BY <3>1, <3>2
  <2>3. todo' \subseteq Both
    BY <1>c, <1>f
  <2> QED
    BY <1>a, <1>e, <2>1, <2>2, <2>3 DEF ReadItemsInv
<1>7. OpsInv'
  BY <1>a, <1>b, <1>c, <1>g, <1>e, <1>f DEF IInv, OpsInv, Writing, Planned, RemoteItems
<1>8. OrderInv'
  BY <1>a, <1>b, <1>c, <1>g, <1>e, <1>f DEF IInv, OrderInv, Writing, OpsOn, Recorded
<1>9. IdsInv'
  BY <1>a, <1>b, <1>c, <1>g, <1>e, <1>f DEF IInv, IdsInv
<1>10. RulesInv'
  BY <1>a, <1>b, <1>c, <1>g, <1>e, <1>f DEF IInv, RulesInv, Writing, Existing, RuleInSync,
     PendingOn
<1>11. ListsInv'
  BY <1>a, <1>b, <1>c, <1>g, <1>e, <1>f DEF IInv, ListsInv, Writing, LocalLists, Existing,
     Wanted, Refs, PendingOn
<1>12. ItemsInv'
  BY <1>a, <1>b, <1>c, <1>g, <1>e, <1>f DEF IInv, ItemsInv, Writing, Settled, LocalLists,
     Existing, Wanted, Refs
<1>13. CleanAfterPush'
  BY <1>a, <1>b, <1>c, <1>g, <1>e, <1>f DEF IInv, CleanAfterPush, RuleInSync, ListInSync,
     LocalLists, Existing, Wanted, Refs
<1> QED
  BY <1>1, <1>2, <1>3, <1>4, <1>5, <1>6, <1>7, <1>8, <1>9, <1>10, <1>11, <1>12, <1>13 DEF IInv


(* A push that returns has nothing under way; when it succeeded, the stack *)
(* is as the local state says.                                             *)
LEMMA ReturnStep ==
  ASSUME IInv, NEW result \in {"err", "refused", "dry", "failed", "ok"}, Return(result),
         result # "ok" \/ CleanAfterPush',
         stack' \in Stacks, HomeInv', Lists # {} => minted' \in Nat,
         UNCHANGED <<mirror, local, scope, remote, ids, edits>>, report' \in Reports
  PROVE  IInv'
<1> USE DEF Return
<1>1. ShapeInv'
  BY DEF IInv, ShapeInv
<1>2. ScopeInv' /\ IdsInv'
  BY DEF ScopeInv, IdsInv
<1>3. ReadRulesInv' /\ ReadListsInv' /\ ReadItemsInv'
  BY DEF ReadRulesInv, ReadListsInv, ReadItemsInv
<1>4. OpsInv' /\ OrderInv' /\ RulesInv' /\ ListsInv' /\ ItemsInv'
  BY DEF OpsInv, OrderInv, RulesInv, ListsInv, ItemsInv, Writing
<1>5. CleanAfterPush'
  BY DEF CleanAfterPush
<1> QED
  BY <1>1, <1>2, <1>3, <1>4, <1>5 DEF IInv

(* A read that fails ends the push.                                        *)
LEMMA ReadFailsStep == ASSUME IInv, ReadFails PROVE IInv'
<1>1. /\ Return("err")
      /\ UNCHANGED <<mirror, stack, minted, local, scope, remote, ids, report, edits>>
  BY DEF ReadFails, plan
<1>2. HomeInv'
  BY <1>1 DEF IInv, HomeInv
<1> QED
  BY <1>1, <1>2, ReturnStep DEF IInv, ShapeInv

(* What is in the plan.                                                    *)
LEMMA ListOpsFacts ==
  ASSUME NEW o \in ListOps
  PROVE  \/ o.id \in CreatedLists /\ o = Op("list", "create", o.id, o.id, FALSE)
         \/ o.id \in Both /\ o = Op("list", "update", o.id, o.id, FALSE)
BY DEF ListOps, Op

(* The items a plan creates, updates or deletes, and whether its list was  *)
(* there.                                                                  *)
LEMMA ItemOpsFacts ==
  ASSUME NEW o \in ItemOps
  PROVE  \/ /\ o.list \in CreatedLists /\ o.id \in LocalItems(o.list)
            /\ o = Op("item", "create", o.id, o.list, FALSE)
         \/ /\ o.list \in Both
            /\ \/ /\ o.id \in LocalItems(o.list) \ RemoteItems(o.list)
                  /\ o = Op("item", "create", o.id, o.list, TRUE)
               \/ /\ o.id \in RemoteItems(o.list) \ LocalItems(o.list)
                  /\ o = Op("item", "remove", o.id, o.list, TRUE)
               \/ /\ o.id \in LocalItems(o.list) \cap RemoteItems(o.list)
                  /\ o = Op("item", "update", o.id, o.list, TRUE)
<1>1. CASE o \in {Op("item", "create", i, local.items[i].list, FALSE) :
                    i \in {k \in Existing(local.items) : local.items[k].list \in CreatedLists}}
  BY <1>1 DEF Op, LocalItems
<1>2. ASSUME NEW l \in Both, o \in Reconcile(l)
      PROVE  /\ o.list = l
             /\ \/ /\ o.id \in LocalItems(o.list) \ RemoteItems(o.list)
                   /\ o = Op("item", "create", o.id, o.list, TRUE)
                \/ /\ o.id \in RemoteItems(o.list) \ LocalItems(o.list)
                   /\ o = Op("item", "remove", o.id, o.list, TRUE)
                \/ /\ o.id \in LocalItems(o.list) \cap RemoteItems(o.list)
                   /\ o = Op("item", "update", o.id, o.list, TRUE)
  BY <1>2 DEF Reconcile, Op
<1> QED
  BY <1>1, <1>2 DEF ItemOps

(* The rules a plan creates, updates or repairs.                           *)
LEMMA RuleOpsFacts ==
  ASSUME NEW o \in RuleOps
  PROVE  \/ o.id \in Added /\ o = Op("rule", "create", o.id, NoList, FALSE)
         \/ o.id \in Modified /\ o = Op("rule", "update", o.id, NoList, FALSE)
         \/ o.id \in Repairs /\ o = Op("rule", "update", o.id, NoList, TRUE)
BY DEF RuleOps, Op

AllOps == ListOps \cup ItemOps \cup RuleOps

(* Where the sets of the plan come from.                                   *)
LEMMA PlanSets ==
  ASSUME IInv
  PROVE  /\ CreatedLists \cup Both \subseteq Existing(local.lists) /\ CreatedLists \cap Both = {}
         /\ Existing(local.lists) \subseteq Lists
         /\ \A l : LocalItems(l) \subseteq Items /\ RemoteItems(l) \subseteq Items
         /\ Added \cup Modified \cup Repairs \subseteq Existing(local.rules)
         /\ Existing(local.rules) \subseteq Rules
         /\ Added \cap Modified = {} /\ Repairs \cap (Added \cup Modified) = {}
<1>1. local \in Mirrors /\ remote \in Reads
  BY DEF IInv, ShapeInv
<1>2. \A l : LocalItems(l) \subseteq Items /\ RemoteItems(l) \subseteq Items
  BY <1>1 DEF LocalItems, RemoteItems, Existing, Mirrors, Reads, Snapshot
<1>3. Existing(local.lists) \subseteq Lists /\ Existing(local.rules) \subseteq Rules
  BY <1>1 DEF Existing, Mirrors
<1> QED
  BY <1>2, <1>3 DEF CreatedLists, Both, LocalLists, Added, Modified, Repairs

(* Every planned write is a write.                                         *)
LEMMA PlanIsTyped == ASSUME IInv PROVE AllOps \subseteq Writes /\ RuleOps \subseteq Writes
<1>t. \A kind \in Kinds, act \in Acts, id \in Nat, list \in Nat, late \in BOOLEAN :
        Op(kind, act, id, list, late) \in Writes
  BY Zenon DEF Op, Writes
<1>k. "list" \in Kinds /\ "item" \in Kinds /\ "rule" \in Kinds
      /\ "create" \in Acts /\ "update" \in Acts /\ "remove" \in Acts
  BY DEF Kinds, Acts
<1>2. ASSUME NEW o \in ListOps PROVE o \in Writes
  <2>1. o.id \in Nat
    BY ListOpsFacts, PlanSets, Keys DEF KeysFacts
  <2> QED
    BY <1>t, <1>k, <2>1, ListOpsFacts, Zenon
<1>3. ASSUME NEW o \in ItemOps PROVE o \in Writes
  <2>1. o.id \in Nat /\ o.list \in Nat
    BY ItemOpsFacts, PlanSets, Keys DEF KeysFacts
  <2>2. \/ o = Op("item", "create", o.id, o.list, FALSE)
        \/ o = Op("item", "create", o.id, o.list, TRUE)
        \/ o = Op("item", "remove", o.id, o.list, TRUE)
        \/ o = Op("item", "update", o.id, o.list, TRUE)
    BY ItemOpsFacts
  <2> QED
    BY <1>t, <1>k, <2>1, <2>2, Zenon
<1>4. ASSUME NEW o \in RuleOps PROVE o \in Writes
  <2>1. o.id \in Nat /\ NoList \in Nat
    BY RuleOpsFacts, PlanSets, Keys DEF KeysFacts, NoList
  <2> QED
    BY <1>t, <1>k, <2>1, RuleOpsFacts, Zenon
<1> QED
  BY <1>2, <1>3, <1>4 DEF AllOps

(* Each planned write is one that the sets of the diff explain.            *)
LEMMA PlanIsPlanned == ASSUME IInv, NEW o \in AllOps PROVE Planned(o)
<1>1. CASE o \in ListOps
  <2>1. o.kind = "list" /\ o.act \in {"create", "update"} /\ o.id \in CreatedLists \cup Both
    BY <1>1, ListOpsFacts DEF Op
  <2> QED
    BY <2>1, PlanSets DEF Planned, Existing
<1>2. CASE o \in ItemOps
  <2>0. o.kind = "item" /\ o.list \in CreatedLists \cup Both /\ o.id \in Items
    BY <1>2, ItemOpsFacts, PlanSets DEF Op
  <2>1. o.list \in Lists /\ local.lists[o.list] # None
    BY <2>0, PlanSets DEF Existing
  <2>2. CASE o.act # "remove"
    <3>1. o.id \in LocalItems(o.list)
      BY <1>2, <2>2, ItemOpsFacts DEF Op
    <3> QED
      BY <2>0, <2>1, <2>2, <3>1 DEF Planned, LocalItems, Existing
  <2>3. CASE o.act = "remove"
    <3>1. o.id \in RemoteItems(o.list) \ LocalItems(o.list)
      BY <1>2, <2>3, ItemOpsFacts DEF Op
    <3>2. DOMAIN local.items = Items
      BY DEF IInv, ShapeInv, Mirrors
    <3>3. local.items[o.id] = None \/ local.items[o.id].list # o.list
      BY <2>0, <3>1, <3>2 DEF LocalItems, Existing
    <3> QED
      BY <2>0, <2>1, <2>3, <3>1, <3>3 DEF Planned
  <2> QED
    BY <2>2, <2>3
<1>3. CASE o \in RuleOps
  <2>1. /\ o.kind = "rule" /\ o.act \in {"create", "update"}
        /\ o.id \in Added \cup Modified \cup Repairs
    BY <1>3, RuleOpsFacts DEF Op
  <2> QED
    BY <2>1, PlanSets DEF Planned, Existing
<1> QED
  BY <1>1, <1>2, <1>3 DEF AllOps

(* No object is written twice by one plan.                                 *)
LEMMA PlanIsUnique ==
  ASSUME IInv, NEW o \in AllOps, NEW q \in AllOps,
         o.kind = q.kind, o.id = q.id, o.list = q.list
  PROVE  o = q
<1>1. CASE o \in ListOps
  <2>1. q \in ListOps
    BY <1>1, ListOpsFacts, ItemOpsFacts, RuleOpsFacts DEF AllOps, Op
  <2> QED
    BY <1>1, <2>1, ListOpsFacts, PlanSets
<1>2. CASE o \in ItemOps
  <2>1. q \in ItemOps
    BY <1>2, ListOpsFacts, ItemOpsFacts, RuleOpsFacts DEF AllOps, Op
  <2> QED
    BY <1>2, <2>1, ItemOpsFacts, PlanSets
<1>3. CASE o \in RuleOps
  <2>1. q \in RuleOps
    BY <1>3, ListOpsFacts, ItemOpsFacts, RuleOpsFacts DEF AllOps, Op
  <2>2. Added \cap Modified = {} /\ Repairs \cap (Added \cup Modified) = {}
    BY PlanSets
  <2>3. CASE o.id \in Added
    BY <1>3, <2>1, <2>2, <2>3, RuleOpsFacts
  <2>4. CASE o.id \in Modified
    BY <1>3, <2>1, <2>2, <2>4, RuleOpsFacts
  <2>5. CASE o.id \in Repairs
    BY <1>3, <2>1, <2>2, <2>5, RuleOpsFacts
  <2> QED
    BY <1>3, <2>3, <2>4, <2>5, RuleOpsFacts
<1> QED
  BY <1>1, <1>2, <1>3 DEF AllOps

(* An item to update or remove is where it was read.                       *)
LEMMA PlanIsPlaced ==
  ASSUME IInv, pc = "items", NEW o \in AllOps, o.kind = "item", o.act # "create"
  PROVE  \/ <<"item", o.id>> \in changed
         \/ stack.items[o.id] # None /\ stack.items[o.id].list = o.list
<1>1. o \in ItemOps
  BY ListOpsFacts, RuleOpsFacts DEF AllOps, Op
<1>2. o.id \in RemoteItems(o.list)
  BY <1>1, ItemOpsFacts DEF Op
<1>3. PICK s \in remote.items : s.item = o.id /\ s.list = o.list
  BY <1>2 DEF RemoteItems
<1> QED
  BY <1>3 DEF IInv, ReadItemsInv

(* A rule the plan leaves alone is in sync.                                *)
LEMMA RulesAreCovered ==
  ASSUME IInv, pc = "items", changed = {}, NEW r \in Existing(local.rules)
  PROVE  RuleInSync(local.rules[r], r) \/ \E o \in AllOps : o.kind = "rule" /\ o.id = r
<1>0. local \in Mirrors /\ remote \in Reads /\ stack \in Stacks /\ r \in Rules /\ r \in scope
  BY PlanSets DEF IInv, ShapeInv, ScopeInv
<1>1. CASE r \in Added \cup Modified \cup Repairs
  <2> DEFINE add == Op("rule", "create", r, NoList, FALSE)
             mod == Op("rule", "update", r, NoList, FALSE)
             fix == Op("rule", "update", r, NoList, TRUE)
  <2>a. add \in RuleOps \/ mod \in RuleOps \/ fix \in RuleOps
    BY <1>1 DEF RuleOps
  <2>b. /\ add.kind = "rule" /\ add.id = r
        /\ mod.kind = "rule" /\ mod.id = r
        /\ fix.kind = "rule" /\ fix.id = r
    BY DEF Op
  <2> HIDE DEF add, mod, fix
  <2>1. PICK o \in RuleOps : o.kind = "rule" /\ o.id = r
    BY <2>a, <2>b
  <2> QED
    BY <2>1 DEF AllOps
<1>2. CASE r \notin Added \cup Modified \cup Repairs
  <2>1. r \in Existing(remote.rules) /\ SameRule(r) /\ r \notin Dangling
    BY <1>2 DEF Added, Modified, Repairs
  <2>2. remote.rules[r] = stack.rules[r] /\ stack.rules[r] # None
    BY <1>0, <2>1 DEF IInv, ReadRulesInv, Existing
  <2>3. stack.rules[r].body = local.rules[r].body /\ stack.rules[r].ref = local.rules[r].ref
    BY <2>1, <2>2 DEF SameRule
  <2>4. ASSUME NEW l, l = local.rules[r].ref, l # None
        PROVE  stack.lists[l] # None /\ stack.lists[l].id = stack.rules[r].ptr
    <3>1. l \in Lists /\ l \in Wanted
      BY <1>0, <2>4 DEF Wanted, Refs, Mirrors, MirrorRule, Existing
    <3>2. remote.lists[l] = stack.lists[l]
      BY <3>1 DEF IInv, ReadListsInv
    <3>3. LiveId(l) = remote.rules[r].ptr
      BY <1>0, <2>1, <2>2, <2>3, <2>4 DEF Dangling
    <3>4. remote.rules[r].ptr \in Nat
      BY <1>0, <2>2, <2>3, <2>4, <3>1 DEF Stacks, StackRule
    <3>5. remote.lists[l] # None /\ remote.lists[l].id = remote.rules[r].ptr
      BY <3>3, <3>4, Keys DEF LiveId, KeysFacts
    <3> QED
      BY <3>2, <3>5, <2>2
  <2> QED
    BY <2>2, <2>3, <2>4 DEF RuleInSync
<1> QED
  BY <1>1, <1>2

(* A local list that nobody else touched is as the local state has it, or  *)
(* written by the plan.                                                    *)
LEMMA ListsAreCovered ==
  ASSUME IInv, pc = "items", changed = {}, NEW l \in LocalLists
  PROVE  \/ stack.lists[l] # None /\ stack.lists[l].body = local.lists[l]
         \/ \E o \in AllOps : o.kind = "list" /\ o.id = l
<1>1. remote.lists[l] = stack.lists[l]
  BY DEF IInv, ReadListsInv, LocalLists
<1>2. CASE l \in CreatedLists
  <2>1. \E o \in ListOps : o.kind = "list" /\ o.id = l
    <3>1. Op("list", "create", l, l, FALSE) \in ListOps
      BY <1>2 DEF ListOps
    <3> QED
      BY <3>1 DEF Op
  <2> QED
    BY <2>1 DEF AllOps
<1>3. CASE l \notin CreatedLists
  <2>1. l \in Both /\ remote.lists[l] # None
    BY <1>3 DEF CreatedLists, Both, RemoteLists, Existing
  <2>2. CASE local.lists[l] # remote.lists[l].body
    <3>1. \E o \in ListOps : o.kind = "list" /\ o.id = l
      <4>1. Op("list", "update", l, l, FALSE) \in ListOps
        BY <2>1, <2>2 DEF ListOps
      <4> QED
        BY <4>1 DEF Op
    <3> QED
      BY <3>1 DEF AllOps
  <2> QED
    BY <1>1, <2>1, <2>2
<1> QED
  BY <1>2, <1>3

(* So is each item of a local list.                                        *)
LEMMA ItemsAreCovered ==
  ASSUME IInv, pc = "items", todo = {}, changed = {}, NEW l \in LocalLists, NEW i \in Items
  PROVE  Settled(i, l) \/ \E o \in AllOps : o.kind = "item" /\ o.id = i /\ o.list = l
<1> SUFFICES ASSUME ~\E o \in ItemOps : o.kind = "item" /\ o.id = i /\ o.list = l
             PROVE  Settled(i, l)
  BY DEF AllOps
<1>0. local \in Mirrors /\ remote \in Reads /\ stack \in Stacks
  BY DEF IInv, ShapeInv
<1>1. remote.lists[l] = stack.lists[l] /\ DOMAIN remote.lists = Lists /\ l \in Lists
  BY <1>0, PlanSets DEF IInv, ReadListsInv, LocalLists, Reads
<1>a. /\ i \in LocalItems(l) <=> local.items[i] # None /\ local.items[i].list = l
      /\ i \in Existing(stack.items) <=> stack.items[i] # None
  BY <1>0 DEF LocalItems, Existing, Mirrors, Stacks
<1>2. CASE l \in CreatedLists
  <2>1. i \notin LocalItems(l)
    <3>1. i \in LocalItems(l) => Op("item", "create", i, l, FALSE) \in ItemOps
      BY <1>2 DEF ItemOps, LocalItems
    <3> QED
      BY <3>1 DEF Op
  <2>2. stack.lists[l] = None
    BY <1>1, <1>2 DEF CreatedLists, RemoteLists, Existing
  <2>3. stack.items[i] = None \/ stack.items[i].list # l
    BY <2>2 DEF IInv, HomeInv
  <2> QED
    BY <1>a, <2>1, <2>3 DEF Settled
<1>3. CASE l \notin CreatedLists
  <2>1. l \in Both
    BY <1>3 DEF CreatedLists, Both
  <2>2. Reconcile(l) \subseteq ItemOps
    BY <2>1 DEF ItemOps
  <2>3. /\ i \in LocalItems(l) => i \in RemoteItems(l)
        /\ i \in RemoteItems(l) => i \in LocalItems(l)
        /\ i \in LocalItems(l) /\ i \in RemoteItems(l) => local.items[i].body = RemoteBody(i, l)
    <3>1. ASSUME i \in LocalItems(l), i \notin RemoteItems(l) PROVE FALSE
      <4>1. Op("item", "create", i, l, TRUE) \in ItemOps
        BY <2>2, <3>1 DEF Reconcile
      <4> QED
        BY <4>1 DEF Op
    <3>2. ASSUME i \notin LocalItems(l), i \in RemoteItems(l) PROVE FALSE
      <4>1. Op("item", "remove", i, l, TRUE) \in ItemOps
        BY <2>2, <3>2 DEF Reconcile
      <4> QED
        BY <4>1 DEF Op
    <3>3. ASSUME i \in LocalItems(l), i \in RemoteItems(l), local.items[i].body # RemoteBody(i, l)
          PROVE  FALSE
      <4>1. Op("item", "update", i, l, TRUE) \in ItemOps
        BY <2>2, <3>3 DEF Reconcile
      <4> QED
        BY <4>1 DEF Op
    <3> QED
      BY <3>1, <3>2, <3>3
  <2>4. ASSUME NEW s \in remote.items, s.item = i, s.list = l
        PROVE  stack.items[i] # None /\ stack.items[i].list = l /\ stack.items[i].body = s.body
    BY <2>4 DEF IInv, ReadItemsInv
  <2>5. ASSUME i \in RemoteItems(l)
        PROVE  stack.items[i] # None /\ stack.items[i].list = l
               /\ stack.items[i].body = RemoteBody(i, l)
    BY <2>4, <2>5 DEF RemoteItems, RemoteBody
  <2>6. ASSUME stack.items[i] # None, stack.items[i].list = l PROVE i \in RemoteItems(l)
    <3>1. \E s \in remote.items : s.item = i /\ s.list = l
      BY <1>a, <2>1, <2>6 DEF IInv, ReadItemsInv
    <3> QED
      BY <3>1 DEF RemoteItems
  <2>7. CASE i \in LocalItems(l)
    <3>1. stack.items[i] \in MirrorItem /\ local.items[i] \in MirrorItem
      BY <1>0, <1>a, <2>3, <2>5, <2>7 DEF Stacks, Mirrors
    <3>2. stack.items[i].list = local.items[i].list /\ stack.items[i].body = local.items[i].body
      BY <1>a, <2>3, <2>5, <2>7
    <3>3. stack.items[i] = local.items[i]
      BY <3>1, <3>2 DEF MirrorItem
    <3> QED
      BY <3>3 DEF Settled
  <2>8. CASE i \notin LocalItems(l)
    BY <1>a, <2>3, <2>6, <2>8 DEF Settled
  <2> QED
    BY <2>7, <2>8
<1> QED
  BY <1>2, <1>3

(* The plan is made.                                                       *)
LEMMA PlanWritesStep == ASSUME IInv, PlanWrites PROVE IInv'
<1>0. /\ pc = "items" /\ todo = {}
      /\ UNCHANGED <<mirror, stack, minted, local, scope, remote, ids, changed, edits>>
  BY DEF PlanWrites, plan
<1>h. HomeInv'
  BY <1>0 DEF IInv, HomeInv
<1>r. RuleOps \subseteq Writes /\ [EmptyReport EXCEPT !.pending = RuleOps] \in Reports
  BY PlanIsTyped DEF EmptyReport, Reports
<1>1. CASE Return("refused") /\ UNCHANGED report
  BY <1>0, <1>1, <1>h, ReturnStep DEF IInv, ShapeInv
<1>2. CASE Return("dry") /\ report' = [EmptyReport EXCEPT !.pending = RuleOps]
  BY <1>0, <1>2, <1>h, <1>r, ReturnStep DEF IInv, ShapeInv
<1>3. CASE /\ report' = [EmptyReport EXCEPT !.pending = RuleOps]
           /\ pc' = "resolve" /\ todo' = DesiredRefs /\ ops' = ListOps \cup ItemOps \cup RuleOps
           /\ UNCHANGED outcome
  <2>1. ops' = AllOps /\ report'.failed = {} /\ report'.applied = {}
    BY <1>3 DEF AllOps, EmptyReport
  <2>2. DesiredRefs \subseteq Lists
    <3>1. \A o \in RuleOps : o.id \in Existing(local.rules) /\ o.id \in Rules
      BY RuleOpsFacts, PlanSets
    <3>2. local \in Mirrors
      BY DEF IInv, ShapeInv
    <3> QED
      BY <3>1, <3>2 DEF DesiredRefs, Existing, Mirrors, MirrorRule
  <2>3. ShapeInv'
    BY <1>0, <1>3, <1>r, <2>1, <2>2, PlanIsTyped DEF IInv, ShapeInv
  <2>4. /\ Wanted' = Wanted /\ LocalLists' = LocalLists
        /\ \A l : RemoteItems(l)' = RemoteItems(l)
    BY <1>0 DEF Wanted, LocalLists, RemoteItems
  <2>5. ScopeInv'
    BY <1>0, <1>3, <2>4 DEF IInv, ScopeInv
  <2>6. ReadRulesInv' /\ ReadListsInv' /\ ReadItemsInv' /\ CleanAfterPush'
    BY <1>3 DEF ReadRulesInv, ReadListsInv, ReadItemsInv, CleanAfterPush
  <2>7. OpsInv'
    <3>1. \A o \in AllOps : Planned(o)'
      <4>1. ASSUME NEW o \in AllOps PROVE Planned(o)' <=> Planned(o)
        BY <1>0, <2>4 DEF Planned
      <4> QED
        BY <4>1, PlanIsPlanned
    <3> QED
      BY <1>0, <1>3, <2>1, <3>1, PlanIsUnique, PlanIsPlaced DEF OpsInv, Writing
  <2>8. OrderInv'
    BY <1>3, <2>1 DEF OrderInv, Recorded
  <2>9. IdsInv'
    BY <1>0, <1>3 DEF IInv, IdsInv
  <2>10. RulesInv'
    BY <1>0, <2>1, RulesAreCovered DEF RulesInv, RuleInSync, PendingOn
  <2>11. ListsInv'
    BY <1>0, <2>1, <2>4, ListsAreCovered DEF ListsInv, PendingOn
  <2>12. ItemsInv'
    BY <1>0, <2>1, <2>4, ItemsAreCovered DEF ItemsInv, Settled
  <2> QED
    BY <1>h, <2>3, <2>5, <2>6, <2>7, <2>8, <2>9, <2>10, <2>11, <2>12 DEF IInv
<1> QED
  BY <1>1, <1>2, <1>3 DEF PlanWrites

-----------------------------------------------------------------------------
(* Writing.                                                                *)

(* The id of a list is resolved. *)
LEMMA ResolveIdStep ==
  ASSUME IInv, ResolveId
  PROVE  IInv'
<1>a. pc = "resolve" /\ pc' = pc /\ todo # {} /\ ops' = ops /\ outcome' = outcome
      /\ UNCHANGED <<mirror, stack, minted, local, scope, remote, report, changed, edits>>
  BY DEF ResolveId, plan
<1>b. stack \in Stacks /\ todo \subseteq Lists
  BY DEF IInv, ShapeInv
<1>c. PICK l \in todo :
        /\ ids' = [ids EXCEPT ![l] = IF stack.lists[l] = None THEN None ELSE stack.lists[l].id]
        /\ todo' = todo \ {l}
  <2>1. Smallest(todo) \in todo
    BY <1>a, <1>b, SmallestFacts, Keys DEF KeysFacts
  <2> QED
    BY <2>1 DEF ResolveId
<1>d. (IF stack.lists[l] = None THEN None ELSE stack.lists[l].id) \in Nat \cup {None}
  BY <1>b DEF Stacks, StackList
<1>1. ShapeInv'
  BY <1>a, <1>b, <1>c, <1>d DEF IInv, ShapeInv
<1>2. HomeInv'
  BY <1>a, <1>b, <1>c, <1>d DEF IInv, HomeInv
<1>3. ScopeInv'
  BY <1>a, <1>b, <1>c, <1>d DEF IInv, ScopeInv, Existing, Wanted, Refs
<1>4. ReadRulesInv'
  BY <1>a, <1>b, <1>c, <1>d DEF IInv, ReadRulesInv, NoneRead
<1>5. ReadListsInv'
  BY <1>a, <1>b, <1>c, <1>d DEF IInv, ReadListsInv, Wanted, Refs, Existing
<1>6. ReadItemsInv'
  BY <1>a, <1>b, <1>c, <1>d DEF IInv, ReadItemsInv, Both, LocalLists, RemoteLists, Existing,
     Wanted, Refs
<1>7. OpsInv'
  <2>1. \A k : RemoteItems(k)' = RemoteItems(k)
    BY <1>a, <1>b, <1>c, <1>d DEF RemoteItems
  <2>2. ASSUME NEW o \in ops PROVE Planned(o)' <=> Planned(o)
    BY <1>a, <1>b, <1>c, <1>d, <2>1 DEF Planned
  <2> QED
    BY <1>a, <1>b, <1>c, <1>d, <2>2 DEF IInv, OpsInv, Writing
<1>8. OrderInv'
  BY <1>a, <1>b, <1>c, <1>d DEF IInv, OrderInv, Writing, OpsOn, Recorded
<1>9. IdsInv'
  BY <1>a, <1>b, <1>c, <1>d DEF IInv, IdsInv
<1>10. RulesInv'
  BY <1>a, <1>b, <1>c, <1>d DEF IInv, RulesInv, Writing, Existing, RuleInSync, PendingOn
<1>11. ListsInv'
  BY <1>a, <1>b, <1>c, <1>d DEF IInv, ListsInv, Writing, LocalLists, Existing, Wanted, Refs,
     PendingOn
<1>12. ItemsInv'
  BY <1>a, <1>b, <1>c, <1>d DEF IInv, ItemsInv, Writing, Settled, LocalLists, Existing,
     Wanted, Refs
<1>13. CleanAfterPush'
  BY <1>a, <1>b, <1>c, <1>d DEF IInv, CleanAfterPush, RuleInSync, ListInSync, LocalLists,
     Existing, Wanted, Refs
<1> QED
  BY <1>1, <1>2, <1>3, <1>4, <1>5, <1>6, <1>7, <1>8, <1>9, <1>10, <1>11, <1>12, <1>13 DEF IInv

(* Every id is resolved. *)
LEMMA ResolvedStep ==
  ASSUME IInv, Resolved
  PROVE  IInv'
<1>a. pc = "resolve" /\ pc' = "list" /\ ops' = ops /\ outcome' = outcome
      /\ todo' = todo /\ ids' = ids
      /\ UNCHANGED <<mirror, stack, minted, local, scope, remote, report, changed, edits>>
  BY DEF Resolved, plan
<1>1. ShapeInv'
  BY <1>a DEF IInv, ShapeInv
<1>2. HomeInv'
  BY <1>a DEF IInv, HomeInv
<1>3. ScopeInv'
  BY <1>a DEF IInv, ScopeInv, Existing, Wanted, Refs
<1>4. ReadRulesInv'
  BY <1>a DEF IInv, ReadRulesInv, NoneRead
<1>5. ReadListsInv'
  BY <1>a DEF IInv, ReadListsInv, Wanted, Refs, Existing
<1>6. ReadItemsInv'
  BY <1>a DEF IInv, ReadItemsInv, Both, LocalLists, RemoteLists, Existing, Wanted, Refs
<1>7. OpsInv'
  <2>1. \A k : RemoteItems(k)' = RemoteItems(k)
    BY <1>a DEF RemoteItems
  <2>2. ASSUME NEW o \in ops PROVE Planned(o)' <=> Planned(o)
    BY <1>a, <2>1 DEF Planned
  <2> QED
    BY <1>a, <2>2 DEF IInv, OpsInv, Writing
<1>8. OrderInv'
  BY <1>a DEF IInv, OrderInv, Writing, OpsOn, Recorded
<1>9. IdsInv'
  BY <1>a DEF IInv, IdsInv
<1>10. RulesInv'
  BY <1>a DEF IInv, RulesInv, Writing, Existing, RuleInSync, PendingOn
<1>11. ListsInv'
  BY <1>a DEF IInv, ListsInv, Writing, LocalLists, Existing, Wanted, Refs, PendingOn
<1>12. ItemsInv'
  BY <1>a DEF IInv, ItemsInv, Writing, Settled, LocalLists, Existing, Wanted, Refs
<1>13. CleanAfterPush'
  BY <1>a DEF IInv, CleanAfterPush, RuleInSync, ListInSync, LocalLists, Existing, Wanted, Refs
<1> QED
  BY <1>1, <1>2, <1>3, <1>4, <1>5, <1>6, <1>7, <1>8, <1>9, <1>10, <1>11, <1>12, <1>13 DEF IInv

(* No list is left. *)
LEMMA ListsAppliedStep ==
  ASSUME IInv, ListsApplied
  PROVE  IInv'
<1>a. pc = "list" /\ pc' = "item" /\ ops' = ops /\ outcome' = outcome
      /\ todo' = todo /\ ids' = ids
      /\ UNCHANGED <<mirror, stack, minted, local, scope, remote, report, changed, edits>>
  BY DEF ListsApplied, plan
<1>b. OpsOn("list") = {}
  BY DEF ListsApplied
<1>c. \A o \in ops : o.kind \in Kinds
  BY DEF IInv, ShapeInv, Writes
<1>1. ShapeInv'
  BY <1>a, <1>b, <1>c DEF IInv, ShapeInv
<1>2. HomeInv'
  BY <1>a, <1>b, <1>c DEF IInv, HomeInv
<1>3. ScopeInv'
  BY <1>a, <1>b, <1>c DEF IInv, ScopeInv, Existing, Wanted, Refs
<1>4. ReadRulesInv'
  BY <1>a, <1>b, <1>c DEF IInv, ReadRulesInv, NoneRead
<1>5. ReadListsInv'
  BY <1>a, <1>b, <1>c DEF IInv, ReadListsInv, Wanted, Refs, Existing
<1>6. ReadItemsInv'
  BY <1>a, <1>b, <1>c DEF IInv, ReadItemsInv, Both, LocalLists, RemoteLists, Existing, Wanted,
     Refs
<1>7. OpsInv'
  <2>1. \A k : RemoteItems(k)' = RemoteItems(k)
    BY <1>a, <1>b, <1>c DEF RemoteItems
  <2>2. ASSUME NEW o \in ops PROVE Planned(o)' <=> Planned(o)
    BY <1>a, <1>b, <1>c, <2>1 DEF Planned
  <2> QED
    BY <1>a, <1>b, <1>c, <2>2 DEF IInv, OpsInv, Writing
<1>8. OrderInv'
  BY <1>a, <1>b, <1>c DEF IInv, OrderInv, Writing, OpsOn, Recorded, Kinds
<1>9. IdsInv'
  BY <1>a, <1>b, <1>c DEF IInv, IdsInv
<1>10. RulesInv'
  BY <1>a, <1>b, <1>c DEF IInv, RulesInv, Writing, Existing, RuleInSync, PendingOn
<1>11. ListsInv'
  BY <1>a, <1>b, <1>c DEF IInv, ListsInv, Writing, LocalLists, Existing, Wanted, Refs, PendingOn
<1>12. ItemsInv'
  BY <1>a, <1>b, <1>c DEF IInv, ItemsInv, Writing, Settled, LocalLists, Existing, Wanted, Refs
<1>13. CleanAfterPush'
  BY <1>a, <1>b, <1>c DEF IInv, CleanAfterPush, RuleInSync, ListInSync, LocalLists, Existing,
     Wanted, Refs
<1> QED
  BY <1>1, <1>2, <1>3, <1>4, <1>5, <1>6, <1>7, <1>8, <1>9, <1>10, <1>11, <1>12, <1>13 DEF IInv

(* No item is left. *)
LEMMA ItemsAppliedStep ==
  ASSUME IInv, ItemsApplied
  PROVE  IInv'
<1>a. pc = "item" /\ pc' = "rule" /\ ops' = ops /\ outcome' = outcome
      /\ todo' = todo /\ ids' = ids
      /\ UNCHANGED <<mirror, stack, minted, local, scope, remote, report, changed, edits>>
  BY DEF ItemsApplied, plan
<1>b. OpsOn("item") = {}
  BY DEF ItemsApplied
<1>c. \A o \in ops : o.kind \in Kinds
  BY DEF IInv, ShapeInv, Writes
<1>1. ShapeInv'
  BY <1>a, <1>b, <1>c DEF IInv, ShapeInv
<1>2. HomeInv'
  BY <1>a, <1>b, <1>c DEF IInv, HomeInv
<1>3. ScopeInv'
  BY <1>a, <1>b, <1>c DEF IInv, ScopeInv, Existing, Wanted, Refs
<1>4. ReadRulesInv'
  BY <1>a, <1>b, <1>c DEF IInv, ReadRulesInv, NoneRead
<1>5. ReadListsInv'
  BY <1>a, <1>b, <1>c DEF IInv, ReadListsInv, Wanted, Refs, Existing
<1>6. ReadItemsInv'
  BY <1>a, <1>b, <1>c DEF IInv, ReadItemsInv, Both, LocalLists, RemoteLists, Existing, Wanted,
     Refs
<1>7. OpsInv'
  <2>1. \A k : RemoteItems(k)' = RemoteItems(k)
    BY <1>a, <1>b, <1>c DEF RemoteItems
  <2>2. ASSUME NEW o \in ops PROVE Planned(o)' <=> Planned(o)
    BY <1>a, <1>b, <1>c, <2>1 DEF Planned
  <2> QED
    BY <1>a, <1>b, <1>c, <2>2 DEF IInv, OpsInv, Writing
<1>8. OrderInv'
  BY <1>a, <1>b, <1>c DEF IInv, OrderInv, Writing, OpsOn, Recorded, Kinds
<1>9. IdsInv'
  BY <1>a, <1>b, <1>c DEF IInv, IdsInv
<1>10. RulesInv'
  BY <1>a, <1>b, <1>c DEF IInv, RulesInv, Writing, Existing, RuleInSync, PendingOn
<1>11. ListsInv'
  BY <1>a, <1>b, <1>c DEF IInv, ListsInv, Writing, LocalLists, Existing, Wanted, Refs, PendingOn
<1>12. ItemsInv'
  BY <1>a, <1>b, <1>c DEF IInv, ItemsInv, Writing, Settled, LocalLists, Existing, Wanted, Refs
<1>13. CleanAfterPush'
  BY <1>a, <1>b, <1>c DEF IInv, CleanAfterPush, RuleInSync, ListInSync, LocalLists, Existing,
     Wanted, Refs
<1> QED
  BY <1>1, <1>2, <1>3, <1>4, <1>5, <1>6, <1>7, <1>8, <1>9, <1>10, <1>11, <1>12, <1>13 DEF IInv

(* An accepted list or item write leaves every item in a list that exists. *)
LEMMA HomeIsKept ==
  ASSUME ShapeInv, HomeInv, NEW o \in ops, Planned(o), o.kind \in {"list", "item"},
         Accepts(o), Write(o)
  PROVE  stack' \in Stacks /\ HomeInv' /\ (Lists # {} => minted' \in Nat)
<1>0. /\ \A i \in Items : stack.items[i] # None => stack.items[i].list \in Lists
      /\ Lists # {} => minted \in Nat
  BY DEF ShapeInv, Stacks, MirrorItem
<1>1. CASE o.kind = "list"
  <2>1. /\ stack' \in Stacks /\ minted' \in Nat /\ stack'.items = stack.items
        /\ \A l \in Lists \ {o.id} : stack'.lists[l] = stack.lists[l]
        /\ stack'.lists[o.id] # None
    BY <1>1, ListWritten
  <2> QED
    BY <1>0, <2>1 DEF HomeInv
<1>2. CASE o.kind = "item"
  <2>1. /\ stack' \in Stacks /\ minted' = minted /\ stack'.lists = stack.lists
        /\ \A i \in Items \ {o.id} : stack'.items[i] = stack.items[i]
        /\ o.act = "create" <=> stack.items[o.id] = None
        /\ o.act = "create" =>
             stack'.items[o.id] = local.items[o.id] /\ stack.lists[o.list] # None
        /\ o.act = "update" => stack'.items[o.id].list = stack.items[o.id].list
        /\ o.act = "remove" => stack'.items[o.id] = None
    BY <1>2, ItemWritten
  <2>2. /\ o.act \in Acts
        /\ o.act = "create" => local.items[o.id].list = o.list
    BY <1>2 DEF ShapeInv, Writes, Planned
  <2>3. stack'.items[o.id] # None => stack.lists[stack'.items[o.id].list] # None
    <3>1. CASE o.act = "create"
      BY <2>1, <2>2, <3>1
    <3>2. CASE o.act = "update"
      <4>1. stack.items[o.id] # None /\ o.id \in Items
        BY <1>2, <2>1, <3>2 DEF Planned
      <4> QED
        BY <2>1, <3>2, <4>1 DEF HomeInv
    <3>3. CASE o.act = "remove"
      BY <2>1, <3>3
    <3> QED
      BY <2>2, <3>1, <3>2, <3>3 DEF Acts
  <2> QED
    BY <1>0, <2>1, <2>3 DEF HomeInv
<1> QED
  BY <1>1, <1>2

(* A list or an item that fails ends the push.                             *)
LEMMA FailedStep ==
  ASSUME IInv, NEW o \in ops, o.kind \in {"list", "item"}, Errs(o),
         report' = Failed(o), Return("failed"),
         UNCHANGED <<mirror, plan, remote, ids, changed, edits>>
  PROVE  IInv'
<1>1. report' \in Reports
  BY DEF IInv, ShapeInv, Failed, Reports
<1>2. CASE UNCHANGED <<stack, minted>>
  <2>1. HomeInv'
    BY <1>2 DEF IInv, HomeInv
  <2> QED
    BY <1>1, <1>2, <2>1, ReturnStep DEF IInv, ShapeInv, plan
<1>3. CASE Accepts(o) /\ Write(o)
  <2>1. stack' \in Stacks /\ HomeInv' /\ (Lists # {} => minted' \in Nat)
    BY <1>3, HomeIsKept DEF IInv, OpsInv
  <2> QED
    BY <1>1, <2>1, ReturnStep DEF plan
<1> QED
  BY <1>2, <1>3 DEF Errs

(* A list is written. *)
LEMMA ListWrittenStep ==
  ASSUME IInv, NEW o \in ops, o.kind = "list", pc = "list", Accepts(o), Write(o), NoFault,
         report' = Succeeded(o), ops' = ops \ {o},
         ids' = (IF o.act = "create" THEN [ids EXCEPT ![o.id] = minted'] ELSE ids),
         UNCHANGED <<pc, todo, outcome>>, UNCHANGED <<mirror, plan, remote, changed, edits>>
  PROVE  IInv'
<1>a. /\ pc = "list" /\ pc' = pc /\ todo' = todo /\ outcome' = outcome /\ ops' = ops \ {o}
      /\ o.kind = "list"
      /\ UNCHANGED <<mirror, local, scope, remote, changed, edits>>
  BY DEF plan
<1>b. Planned(o) /\ o.id \in Lists /\ o.act \in {"create", "update"}
  BY DEF IInv, OpsInv, Planned
<1>c. /\ stack' \in Stacks /\ minted' \in Nat
      /\ stack'.rules = stack.rules /\ stack'.items = stack.items
      /\ \A l \in Lists \ {o.id} : stack'.lists[l] = stack.lists[l]
      /\ stack'.lists[o.id] # None /\ stack'.lists[o.id].body = local.lists[o.id]
      /\ stack.lists[o.id] # None => stack'.lists[o.id].id = stack.lists[o.id].id
      /\ o.act = "create" <=> stack.lists[o.id] = None
      /\ o.act = "create" => stack'.lists[o.id].id = minted'
  BY <1>b, ListWritten DEF IInv
<1>d. /\ report' \in Reports /\ report'.failed = report.failed
      /\ report'.applied = report.applied \cup {o}
  BY DEF IInv, ShapeInv, Succeeded, Reports
<1>e. /\ ids' \in [Lists -> Nat \cup {None}]
      /\ \A l \in Lists : ids'[l] = IF l = o.id /\ o.act = "create" THEN minted' ELSE ids[l]
  BY <1>b, <1>c DEF IInv, ShapeInv
<1>h. HomeInv'
  BY <1>b, HomeIsKept DEF IInv
<1>1. ShapeInv'
  BY <1>a, <1>b, <1>c, <1>d, <1>e, <1>h DEF IInv, ShapeInv
<1>2. HomeInv'
  BY <1>h
<1>3. ScopeInv'
  BY <1>a, <1>b, <1>c, <1>d, <1>e, <1>h DEF IInv, ScopeInv, Existing, Wanted, Refs
<1>4. ReadRulesInv'
  BY <1>a, <1>b, <1>c, <1>d, <1>e, <1>h DEF IInv, ReadRulesInv, NoneRead
<1>5. ReadListsInv'
  BY <1>a, <1>b, <1>c, <1>d, <1>e, <1>h DEF IInv, ReadListsInv, Wanted, Refs, Existing
<1>6. ReadItemsInv'
  BY <1>a, <1>b, <1>c, <1>d, <1>e, <1>h DEF IInv, ReadItemsInv, Both, LocalLists, RemoteLists,
     Existing, Wanted, Refs
<1>7. OpsInv'
  <2>1. \A k : RemoteItems(k)' = RemoteItems(k)
    BY <1>a, <1>b, <1>c, <1>d, <1>e, <1>h DEF RemoteItems
  <2>2. ASSUME NEW q \in ops PROVE Planned(q)' <=> Planned(q)
    BY <1>a, <1>b, <1>c, <1>d, <1>e, <1>h, <2>1 DEF Planned
  <2> QED
    BY <1>a, <1>b, <1>c, <1>d, <1>e, <1>h, <2>2 DEF IInv, OpsInv, Writing
<1>8. OrderInv'
  BY <1>a, <1>b, <1>c, <1>d, <1>e, <1>h DEF IInv, OrderInv, Writing, OpsOn, Recorded
<1>9. IdsInv'
  BY <1>a, <1>b, <1>c, <1>d, <1>e, <1>h DEF IInv, IdsInv
<1>10. RulesInv'
  <2> SUFFICES ASSUME Writing, changed = {}, NEW r \in Existing(local.rules)
               PROVE  \/ RuleInSync(local.rules[r], r)'
                      \/ PendingOn("rule", r)'
                      \/ \E q \in report'.failed : q.kind = "rule" /\ q.id = r
    BY <1>a, <1>b, <1>c, <1>d, <1>e, <1>h, Zenon DEF RulesInv, Writing
  <2>1. CASE RuleInSync(local.rules[r], r)
    <3>1. local.rules[r].ref \in Lists \cup {None}
      BY DEF IInv, ShapeInv, Mirrors, MirrorRule, Existing
    <3>2. RuleInSync(local.rules[r], r)'
      BY <1>a, <1>b, <1>c, <1>d, <1>e, <1>h, <2>1, <3>1 DEF RuleInSync
    <3> QED
      BY <3>2
  <2>2. CASE PendingOn("rule", r)
    BY <1>a, <1>b, <1>c, <1>d, <1>e, <1>h, <2>2 DEF PendingOn
  <2> QED
    BY <1>a, <1>b, <1>c, <1>d, <1>e, <1>h, <2>1, <2>2 DEF IInv, RulesInv
<1>11. ListsInv'
  <2>0. LocalLists' = LocalLists
    BY <1>a, <1>b, <1>c, <1>d, <1>e, <1>h DEF LocalLists, Wanted
  <2>l. LocalLists \subseteq Lists
    BY DEF IInv, ShapeInv, Mirrors, LocalLists, Existing
  <2> SUFFICES ASSUME Writing, changed = {}, NEW l \in LocalLists
               PROVE  \/ stack'.lists[l] # None /\ stack'.lists[l].body = local.lists[l]
                      \/ PendingOn("list", l)'
    BY <1>a, <1>b, <1>c, <1>d, <1>e, <1>h, <2>0 DEF ListsInv, Writing
  <2>1. CASE stack.lists[l] # None /\ stack.lists[l].body = local.lists[l]
    BY <1>a, <1>b, <1>c, <1>d, <1>e, <1>h, <2>l, <2>1
  <2>2. CASE PendingOn("list", l)
    BY <1>a, <1>b, <1>c, <1>d, <1>e, <1>h, <2>2 DEF PendingOn
  <2> QED
    BY <2>1, <2>2 DEF IInv, ListsInv
<1>12. ItemsInv'
  <2>0. LocalLists' = LocalLists
    BY <1>a, <1>b, <1>c, <1>d, <1>e, <1>h DEF LocalLists, Wanted
  <2> SUFFICES ASSUME Writing, changed = {}, NEW l \in LocalLists, NEW i \in Items
               PROVE  Settled(i, l)' \/ \E q \in ops' : q.kind = "item" /\ q.id = i /\ q.list = l
    BY <1>a, <1>b, <1>c, <1>d, <1>e, <1>h, <2>0 DEF ItemsInv, Writing
  <2>1. Settled(i, l)' <=> Settled(i, l)
    BY <1>a, <1>b, <1>c, <1>d, <1>e, <1>h DEF Settled
  <2>2. \A q \in ops : q.kind = "item" => q \in ops'
    BY <1>a, <1>b, <1>c, <1>d, <1>e, <1>h
  <2> QED
    BY <2>1, <2>2 DEF IInv, ItemsInv
<1>13. CleanAfterPush'
  BY <1>a, <1>b, <1>c, <1>d, <1>e, <1>h DEF IInv, CleanAfterPush, RuleInSync, ListInSync,
     LocalLists, Existing, Wanted, Refs
<1> QED
  BY <1>1, <1>2, <1>3, <1>4, <1>5, <1>6, <1>7, <1>8, <1>9, <1>10, <1>11, <1>12, <1>13 DEF IInv

(* A list's write keeps the invariant, whether it succeeds or fails.       *)
LEMMA ApplyListStep == ASSUME IInv, ApplyList PROVE IInv'
<1> DEFINE o == First("list")
<1>1. o \in ops /\ o.kind = "list" /\ pc = "list"
  BY FirstFacts DEF IInv, ShapeInv, ApplyList
<1> HIDE DEF o
<1>2. \/ /\ Accepts(o) /\ Write(o) /\ NoFault
         /\ report' = Succeeded(o) /\ ops' = ops \ {o}
         /\ ids' = IF o.act = "create" THEN [ids EXCEPT ![o.id] = minted'] ELSE ids
         /\ UNCHANGED <<pc, todo, outcome>>
      \/ /\ Errs(o)
         /\ report' = Failed(o) /\ Return("failed") /\ UNCHANGED ids
  BY DEF ApplyList, o
<1>3. UNCHANGED <<mirror, plan, remote, changed, edits>>
  BY DEF ApplyList
<1> QED
  BY <1>1, <1>2, <1>3, ListWrittenStep, FailedStep

(* An item is written. *)
LEMMA ItemWrittenStep ==
  ASSUME IInv, NEW o \in ops, o.kind = "item", pc = "item", Accepts(o), Write(o), NoFault,
         report' = Succeeded(o), ops' = ops \ {o},
         UNCHANGED <<pc, todo, outcome>>, UNCHANGED <<mirror, plan, remote, ids, changed, edits>>
  PROVE  IInv'
<1>a. /\ pc = "item" /\ pc' = pc /\ todo' = todo /\ outcome' = outcome /\ ops' = ops \ {o}
      /\ o.kind = "item"
      /\ ids' = ids /\ UNCHANGED <<mirror, local, scope, remote, changed, edits>>
  BY DEF plan
<1>b. /\ Planned(o) /\ o.id \in Items /\ o.list \in Lists /\ o.act \in Acts
  BY DEF IInv, ShapeInv, OpsInv, Planned, Writes
<1>c. /\ stack' \in Stacks /\ minted' = minted
      /\ stack'.rules = stack.rules /\ stack'.lists = stack.lists
      /\ \A i \in Items \ {o.id} : stack'.items[i] = stack.items[i]
      /\ o.act = "create" <=> stack.items[o.id] = None
      /\ o.act = "create" =>
           stack'.items[o.id] = local.items[o.id] /\ stack.lists[o.list] # None
      /\ o.act = "update" =>
           /\ stack'.items[o.id] # None
           /\ stack'.items[o.id].list = stack.items[o.id].list
           /\ stack'.items[o.id].body = local.items[o.id].body
      /\ o.act = "remove" => stack'.items[o.id] = None
  BY <1>b, ItemWritten DEF IInv
<1>d. /\ report' \in Reports /\ report'.failed = report.failed
      /\ report'.applied = report.applied \cup {o}
  BY DEF IInv, ShapeInv, Succeeded, Reports
<1>h. HomeInv'
  BY <1>b, HomeIsKept DEF IInv
<1>p. o.act # "create" => <<"item", o.id>> \in changed \/ (stack.items[o.id] # None /\ stack.items[o.id].list = o.list)
  BY DEF IInv, OpsInv
<1>1. ShapeInv'
  BY <1>a, <1>b, <1>c, <1>d, <1>h, <1>p DEF IInv, ShapeInv
<1>2. HomeInv'
  BY <1>h
<1>3. ScopeInv'
  BY <1>a, <1>b, <1>c, <1>d, <1>h, <1>p DEF IInv, ScopeInv, Existing, Wanted, Refs
<1>4. ReadRulesInv'
  BY <1>a, <1>b, <1>c, <1>d, <1>h, <1>p DEF IInv, ReadRulesInv, NoneRead
<1>5. ReadListsInv'
  BY <1>a, <1>b, <1>c, <1>d, <1>h, <1>p DEF IInv, ReadListsInv, Wanted, Refs, Existing
<1>6. ReadItemsInv'
  BY <1>a, <1>b, <1>c, <1>d, <1>h, <1>p DEF IInv, ReadItemsInv, Both, LocalLists, RemoteLists,
     Existing, Wanted, Refs
<1>7. OpsInv'
  <2>1. \A k : RemoteItems(k)' = RemoteItems(k)
    BY <1>a, <1>b, <1>c, <1>d, <1>h, <1>p DEF RemoteItems
  <2>2. ASSUME NEW q \in ops PROVE Planned(q)' <=> Planned(q)
    BY <1>a, <1>b, <1>c, <1>d, <1>h, <1>p, <2>1 DEF Planned
  <2>3. ASSUME NEW q \in ops \ {o}, q.kind = "item", q.act # "create"
        PROVE  \/ <<"item", q.id>> \in changed
               \/ stack'.items[q.id] # None /\ stack'.items[q.id].list = q.list
    <3>1. \/ <<"item", q.id>> \in changed
          \/ stack.items[q.id] # None /\ stack.items[q.id].list = q.list
      BY <2>3 DEF IInv, OpsInv
    <3>2. q.id = o.id => q.list # o.list
      BY <1>a, <2>3 DEF IInv, OpsInv
    <3>3. q.id \in Items
      BY <2>3 DEF IInv, OpsInv, Planned
    <3> QED
      BY <1>c, <1>p, <3>1, <3>2, <3>3
  <2> QED
    BY <1>a, <1>b, <1>c, <1>d, <1>h, <1>p, <2>2, <2>3 DEF IInv, OpsInv, Writing
<1>8. OrderInv'
  BY <1>a, <1>b, <1>c, <1>d, <1>h, <1>p DEF IInv, OrderInv, Writing, OpsOn, Recorded
<1>9. IdsInv'
  BY <1>a, <1>b, <1>c, <1>d, <1>h, <1>p DEF IInv, IdsInv
<1>10. RulesInv'
  BY <1>a, <1>b, <1>c, <1>d, <1>h, <1>p DEF IInv, RulesInv, Writing, Existing, RuleInSync,
     PendingOn
<1>11. ListsInv'
  <2>0. LocalLists' = LocalLists
    BY <1>a, <1>b, <1>c, <1>d, <1>h, <1>p DEF LocalLists, Wanted
  <2>l. LocalLists \subseteq Lists
    BY DEF IInv, ShapeInv, Mirrors, LocalLists, Existing
  <2> SUFFICES ASSUME Writing, changed = {}, NEW l \in LocalLists
               PROVE  \/ stack'.lists[l] # None /\ stack'.lists[l].body = local.lists[l]
                      \/ PendingOn("list", l)'
    BY <1>a, <1>b, <1>c, <1>d, <1>h, <1>p, <2>0 DEF ListsInv, Writing
  <2>1. CASE stack.lists[l] # None /\ stack.lists[l].body = local.lists[l]
    BY <1>a, <1>b, <1>c, <1>d, <1>h, <1>p, <2>l, <2>1
  <2>2. CASE PendingOn("list", l)
    BY <1>a, <1>b, <1>c, <1>d, <1>h, <1>p, <2>2 DEF PendingOn
  <2> QED
    BY <2>1, <2>2 DEF IInv, ListsInv
<1>12. ItemsInv'
  <2>0. LocalLists' = LocalLists
    BY <1>a, <1>b, <1>c, <1>d, <1>h, <1>p DEF LocalLists, Wanted
  <2> SUFFICES ASSUME Writing, changed = {}, NEW l \in LocalLists, NEW i \in Items
               PROVE  Settled(i, l)' \/ \E q \in ops' : q.kind = "item" /\ q.id = i /\ q.list = l
    BY <1>a, <1>b, <1>c, <1>d, <1>h, <1>p, <2>0 DEF ItemsInv, Writing
  <2>1. Settled(i, l) \/ \E q \in ops : q.kind = "item" /\ q.id = i /\ q.list = l
    BY DEF IInv, ItemsInv
  <2>2. CASE i # o.id
    BY <1>a, <1>b, <1>c, <1>d, <1>h, <1>p, <2>1, <2>2 DEF Settled
  <2>3. CASE i = o.id /\ o.act \in {"create", "update"}
    <3>1. stack'.items[i] = local.items[i]
      <4>1. CASE o.act = "create"
        BY <1>c, <2>3, <4>1
      <4>2. CASE o.act = "update"
        <5>1. local.items[i] \in MirrorItem /\ local.items[i].list = o.list
          BY <1>a, <1>b, <2>3, <4>2 DEF IInv, ShapeInv, Mirrors, Planned
        <5>2. stack'.items[i] \in MirrorItem
          BY <1>c, <2>3, <4>2 DEF Stacks
        <5>3. stack'.items[i].list = o.list /\ stack'.items[i].body = local.items[i].body
          BY <1>c, <1>p, <2>3, <4>2
        <5> QED
          BY <5>1, <5>2, <5>3 DEF MirrorItem
      <4> QED
        BY <2>3, <4>1, <4>2
    <3> QED
      BY <1>a, <3>1 DEF Settled
  <2>4. CASE i = o.id /\ o.act = "remove"
    <3>1. stack'.items[i] = None
      BY <1>c, <2>4
    <3>2. local.items[i] = None \/ local.items[i].list # o.list
      BY <1>a, <1>b, <2>4 DEF Planned
    <3>3. stack.items[i] # None /\ stack.items[i].list = o.list
      BY <1>p, <2>4
    <3>4. CASE l = o.list
      BY <1>a, <3>1, <3>2, <3>4 DEF Settled
    <3>5. CASE l # o.list /\ Settled(i, l)
      <4>1. local.items[i] = None \/ local.items[i].list # l
        BY <3>3, <3>5 DEF Settled
      <4> QED
        BY <1>a, <3>1, <4>1 DEF Settled
    <3>6. CASE l # o.list /\ ~Settled(i, l)
      BY <1>a, <2>1, <3>6
    <3> QED
      BY <3>4, <3>5, <3>6
  <2> QED
    BY <1>b, <2>2, <2>3, <2>4 DEF Acts
<1>13. CleanAfterPush'
  BY <1>a, <1>b, <1>c, <1>d, <1>h, <1>p DEF IInv, CleanAfterPush, RuleInSync, ListInSync,
     LocalLists, Existing, Wanted, Refs
<1> QED
  BY <1>1, <1>2, <1>3, <1>4, <1>5, <1>6, <1>7, <1>8, <1>9, <1>10, <1>11, <1>12, <1>13 DEF IInv

(* So does an item's write.                                                *)
LEMMA ApplyItemStep == ASSUME IInv, ApplyItem PROVE IInv'
<1> DEFINE o == First("item")
<1>1. o \in ops /\ o.kind = "item" /\ pc = "item"
  BY FirstFacts DEF IInv, ShapeInv, ApplyItem
<1> HIDE DEF o
<1>2. \/ /\ Accepts(o) /\ Write(o) /\ NoFault
         /\ report' = Succeeded(o) /\ ops' = ops \ {o}
         /\ UNCHANGED <<pc, todo, outcome>>
      \/ /\ Errs(o)
         /\ report' = Failed(o) /\ Return("failed")
  BY DEF ApplyItem, o
<1>3. UNCHANGED <<mirror, plan, remote, ids, changed, edits>>
  BY DEF ApplyItem
<1> QED
  BY <1>1, <1>2, <1>3, ItemWrittenStep, FailedStep

(* A rule is written, or fails. *)
LEMMA ApplyRuleStep ==
  ASSUME IInv, ApplyRule
  PROVE  IInv'
<1>a. pc = "rule" /\ pc' = pc /\ todo' = todo /\ outcome' = outcome
      /\ ids' = ids /\ UNCHANGED <<mirror, local, scope, remote, changed, edits>>
  BY DEF ApplyRule, plan
<1>o. PICK o \in ops :
        /\ o.kind = "rule" /\ ops' = ops \ {o}
        /\ \/ Injectable(o) /\ Write(o) /\ report' = Succeeded(o)
           \/ Injectable(o) /\ Write(o) /\ report' = Failed(o)
           \/ UNCHANGED <<stack, minted>> /\ report' = Failed(o)
  <2>1. First("rule") \in ops /\ First("rule").kind = "rule"
    BY FirstFacts DEF IInv, ShapeInv, ApplyRule
  <2> QED
    BY <2>1 DEF ApplyRule, Errs
<1>b. Planned(o) /\ o.id \in Rules /\ local.rules[o.id] # None
  BY <1>o DEF IInv, OpsInv, Planned
<1>c. /\ stack' \in Stacks /\ minted' = minted
      /\ stack'.items = stack.items /\ stack'.lists = stack.lists
      /\ \A r \in Rules \ {o.id} : stack'.rules[r] = stack.rules[r]
  <2>1. CASE Injectable(o) /\ Write(o)
    BY <1>o, <1>b, <2>1, RuleWritten DEF IInv
  <2>2. CASE UNCHANGED <<stack, minted>>
    BY <2>2 DEF IInv, ShapeInv
  <2> QED
    BY <1>o, <2>1, <2>2
<1>d. /\ report' \in Reports /\ Recorded' = Recorded \cup {o}
      /\ report'.failed = report.failed \/ report'.failed = report.failed \cup {o}
      /\ o \in report'.failed \/ report' = Succeeded(o)
  <2>0. report \in Reports /\ o \in Writes
    BY DEF IInv, ShapeInv
  <2>1. /\ Succeeded(o) \in Reports /\ Succeeded(o).failed = report.failed
        /\ Succeeded(o).applied = report.applied \cup {o}
    BY <2>0 DEF Succeeded, Reports
  <2>2. /\ Failed(o) \in Reports /\ Failed(o).failed = report.failed \cup {o}
        /\ Failed(o).applied = report.applied
    BY <2>0 DEF Failed, Reports
  <2>3. CASE report' = Succeeded(o)
    BY <2>1, <2>3 DEF Recorded
  <2>4. CASE report' = Failed(o)
    BY <2>2, <2>4 DEF Recorded
  <2> QED
    BY <1>o, <2>3, <2>4
<1>e. changed = {} => RuleInSync(local.rules[o.id], o.id)' \/ o \in report'.failed
  <2> SUFFICES ASSUME changed = {}, o \notin report'.failed
               PROVE  RuleInSync(local.rules[o.id], o.id)'
    OBVIOUS
  <2>1. o \in Failed(o).failed
    BY DEF IInv, ShapeInv, Failed, Reports
  <2>2. Injectable(o) /\ Write(o)
    BY <1>o, <2>1
  <2>3. /\ stack'.rules[o.id] # None
        /\ stack'.rules[o.id].body = local.rules[o.id].body
        /\ stack'.rules[o.id].ref = local.rules[o.id].ref
        /\ local.rules[o.id].ref # None =>
             /\ local.rules[o.id].ref \in Lists /\ ids[local.rules[o.id].ref] # None
             /\ stack'.rules[o.id].ptr = ids[local.rules[o.id].ref]
    BY <1>o, <1>b, <2>2, RuleWritten DEF IInv
  <2> QED
    BY <1>a, <1>c, <2>3 DEF IInv, IdsInv, RuleInSync
<1>1. ShapeInv'
  BY <1>a, <1>o, <1>b, <1>c, <1>d, <1>e DEF IInv, ShapeInv
<1>2. HomeInv'
  BY <1>a, <1>o, <1>b, <1>c, <1>d, <1>e DEF IInv, HomeInv
<1>3. ScopeInv'
  BY <1>a, <1>o, <1>b, <1>c, <1>d, <1>e DEF IInv, ScopeInv, Existing, Wanted, Refs
<1>4. ReadRulesInv'
  BY <1>a, <1>o, <1>b, <1>c, <1>d, <1>e DEF IInv, ReadRulesInv, NoneRead
<1>5. ReadListsInv'
  BY <1>a, <1>o, <1>b, <1>c, <1>d, <1>e DEF IInv, ReadListsInv, Wanted, Refs, Existing
<1>6. ReadItemsInv'
  BY <1>a, <1>o, <1>b, <1>c, <1>d, <1>e DEF IInv, ReadItemsInv, Both, LocalLists, RemoteLists,
     Existing, Wanted, Refs
<1>7. OpsInv'
  <2>1. \A k : RemoteItems(k)' = RemoteItems(k)
    BY <1>a, <1>o, <1>b, <1>c, <1>d, <1>e DEF RemoteItems
  <2>2. ASSUME NEW q \in ops PROVE Planned(q)' <=> Planned(q)
    BY <1>a, <1>o, <1>b, <1>c, <1>d, <1>e, <2>1 DEF Planned
  <2> QED
    BY <1>a, <1>o, <1>c, <2>2 DEF IInv, OpsInv, Writing
<1>8. OrderInv'
  <2>1. \A q \in report'.failed : q \in report.failed \/ q = o
    BY <1>d
  <2>2. ops' \subseteq ops /\ o \notin ops'
    BY <1>o
  <2> QED
    BY <1>a, <1>o, <1>d, <2>1, <2>2 DEF IInv, OrderInv, Writing
<1>9. IdsInv'
  BY <1>a, <1>o, <1>b, <1>c, <1>d, <1>e DEF IInv, IdsInv
<1>10. RulesInv'
  <2> SUFFICES ASSUME Writing, changed = {}, NEW r \in Existing(local.rules)
               PROVE  \/ RuleInSync(local.rules[r], r)'
                      \/ PendingOn("rule", r)'
                      \/ \E q \in report'.failed : q.kind = "rule" /\ q.id = r
    BY <1>a, Zenon DEF RulesInv, Writing
  <2>0. r \in Rules
    BY DEF IInv, ShapeInv, Mirrors, Existing
  <2>1. CASE r = o.id
    BY <1>o, <1>e, <2>1
  <2>2. CASE r # o.id /\ RuleInSync(local.rules[r], r)
    BY <1>a, <1>c, <2>0, <2>2 DEF RuleInSync
  <2>3. CASE r # o.id /\ PendingOn("rule", r)
    BY <1>o, <2>3 DEF PendingOn
  <2> QED
    BY <1>d, <2>1, <2>2, <2>3 DEF IInv, RulesInv
<1>11. ListsInv'
  <2>0. LocalLists' = LocalLists
    BY <1>a, <1>o, <1>b, <1>c, <1>d, <1>e DEF LocalLists, Wanted
  <2>l. LocalLists \subseteq Lists
    BY DEF IInv, ShapeInv, Mirrors, LocalLists, Existing
  <2> SUFFICES ASSUME Writing, changed = {}, NEW l \in LocalLists
               PROVE  \/ stack'.lists[l] # None /\ stack'.lists[l].body = local.lists[l]
                      \/ PendingOn("list", l)'
    BY <1>a, <1>o, <1>b, <1>c, <1>d, <1>e, <2>0 DEF ListsInv, Writing
  <2>1. CASE stack.lists[l] # None /\ stack.lists[l].body = local.lists[l]
    BY <1>a, <1>o, <1>b, <1>c, <1>d, <1>e, <2>l, <2>1
  <2>2. CASE PendingOn("list", l)
    BY <1>a, <1>o, <1>b, <1>c, <1>d, <1>e, <2>2 DEF PendingOn
  <2> QED
    BY <2>1, <2>2 DEF IInv, ListsInv
<1>12. ItemsInv'
  <2>0. LocalLists' = LocalLists
    BY <1>a, <1>o, <1>b, <1>c, <1>d, <1>e DEF LocalLists, Wanted
  <2> SUFFICES ASSUME Writing, changed = {}, NEW l \in LocalLists, NEW i \in Items
               PROVE  Settled(i, l)' \/ \E q \in ops' : q.kind = "item" /\ q.id = i /\ q.list = l
    BY <1>a, <1>o, <1>b, <1>c, <1>d, <1>e, <2>0 DEF ItemsInv, Writing
  <2>1. Settled(i, l)' <=> Settled(i, l)
    BY <1>a, <1>o, <1>b, <1>c, <1>d, <1>e DEF Settled
  <2>2. \A q \in ops : q.kind = "item" => q \in ops'
    BY <1>a, <1>o, <1>b, <1>c, <1>d, <1>e
  <2> QED
    BY <2>1, <2>2 DEF IInv, ItemsInv
<1>13. CleanAfterPush'
  BY <1>a, <1>o, <1>b, <1>c, <1>d, <1>e DEF IInv, CleanAfterPush, RuleInSync, ListInSync,
     LocalLists, Existing, Wanted, Refs
<1> QED
  BY <1>1, <1>2, <1>3, <1>4, <1>5, <1>6, <1>7, <1>8, <1>9, <1>10, <1>11, <1>12, <1>13 DEF IInv

(* Every rule has been tried.                                              *)
LEMMA RulesAppliedStep == ASSUME IInv, RulesApplied PROVE IInv'
<1>1. /\ pc = "rule" /\ OpsOn("rule") = {}
      /\ Return(IF report.failed = {} THEN "ok" ELSE "failed")
      /\ UNCHANGED <<mirror, stack, minted, local, scope, remote, ids, report, changed, edits>>
  BY DEF RulesApplied, plan
<1>2. ops = {}
  BY <1>1 DEF IInv, OrderInv, OpsOn
<1>3. HomeInv' /\ stack' \in Stacks /\ (Lists # {} => minted' \in Nat) /\ report' \in Reports
  BY <1>1 DEF IInv, HomeInv, ShapeInv
<1>4. CASE report.failed = {}
  <2>1. CleanAfterPush'
    <3>0. LocalLists' = LocalLists
      BY <1>1 DEF LocalLists, Wanted
    <3>1. ASSUME changed = {}, NEW r \in Existing(local.rules) PROVE RuleInSync(local.rules[r], r)
      BY <1>1, <1>2, <1>4, <3>1 DEF IInv, RulesInv, Writing, PendingOn
    <3>2. ASSUME changed = {}, NEW l \in LocalLists PROVE ListInSync(local, l)
      BY <1>1, <1>2, <3>2 DEF IInv, ListsInv, ItemsInv, Writing, PendingOn, Settled, ListInSync
    <3> QED
      BY <1>1, <3>0, <3>1, <3>2 DEF CleanAfterPush, RuleInSync, ListInSync
  <2> QED
    BY <1>1, <1>3, <1>4, <2>1, ReturnStep
<1>5. CASE report.failed # {}
  BY <1>1, <1>3, <1>5, ReturnStep
<1> QED
  BY <1>4, <1>5

-----------------------------------------------------------------------------
(* The invariant.                                                          *)

(* The mirror just pulled satisfies it.                                    *)
LEMMA IInvInit == ASSUME Init PROVE IInv
<1>1. PICK body \in Bodies, L \in SUBSET Lists :
      \E ref \in [Rules -> L \cup {None}], R \in SUBSET Rules, place \in [Items -> L \cup {None}] :
        /\ \A i \in Items : place[i] # None => place[i] \in Home[i]
        /\ stack =
             [rules |-> [r \in Rules |->
                IF r \in R THEN [body |-> body, ref |-> ref[r], ptr |-> ref[r]] ELSE None],
              lists |-> [l \in Lists |-> IF l \in L THEN [body |-> body, id |-> l] ELSE None],
              items |-> [i \in Items |->
                IF place[i] = None THEN None ELSE [list |-> place[i], body |-> body]]]
        /\ mirror =
             [rules |-> [r \in Rules |->
                IF r \in R THEN [body |-> body, ref |-> ref[r]] ELSE None],
              lists |-> [l \in Lists |-> IF \E r \in R : ref[r] = l THEN body ELSE None],
              items |-> [i \in Items |->
                IF place[i] # None /\ (\E r \in R : ref[r] = place[i])
                THEN [list |-> place[i], body |-> body] ELSE None]]
  BY DEF Init
<1>2. PICK ref \in [Rules -> L \cup {None}], R \in SUBSET Rules, place \in [Items -> L \cup {None}] :
        /\ stack =
             [rules |-> [r \in Rules |->
                IF r \in R THEN [body |-> body, ref |-> ref[r], ptr |-> ref[r]] ELSE None],
              lists |-> [l \in Lists |-> IF l \in L THEN [body |-> body, id |-> l] ELSE None],
              items |-> [i \in Items |->
                IF place[i] = None THEN None ELSE [list |-> place[i], body |-> body]]]
        /\ mirror =
             [rules |-> [r \in Rules |->
                IF r \in R THEN [body |-> body, ref |-> ref[r]] ELSE None],
              lists |-> [l \in Lists |-> IF \E r \in R : ref[r] = l THEN body ELSE None],
              items |-> [i \in Items |->
                IF place[i] # None /\ (\E r \in R : ref[r] = place[i])
                THEN [list |-> place[i], body |-> body] ELSE None]]
  BY <1>1
<1>3. /\ pc = "idle" /\ scope = {} /\ local = mirror /\ remote = NoneRead /\ todo = {}
      /\ ids = [l \in Lists |-> None] /\ ops = {} /\ report = EmptyReport /\ outcome = "none"
      /\ edits = 0 /\ minted = CHOOSE n \in Lists : \A l \in Lists : l <= n
  BY DEF Init
<1>4. Lists # {} => minted \in Nat
  <2>1. ASSUME Lists # {} PROVE \E n \in Lists : \A l \in Lists : l <= n
    BY <2>1, Keys, ListsAreFinite, GreatestExists DEF KeysFacts
  <2> QED
    BY <1>3, <2>1, Keys DEF KeysFacts
<1>5. stack \in Stacks
  <2>1. ASSUME NEW r \in Rules PROVE [body |-> body, ref |-> ref[r], ptr |-> ref[r]] \in StackRule
    <3>1. CASE ref[r] = None
      BY <3>1 DEF StackRule
    <3>2. CASE ref[r] # None
      <4>1. ref[r] \in Lists /\ ref[r] \in Nat
        BY <3>2, Keys DEF KeysFacts
      <4> QED
        BY <4>1 DEF StackRule
    <3> QED
      BY <3>1, <3>2
  <2>2. \A l \in Lists : [body |-> body, id |-> l] \in StackList
    BY Keys DEF StackList, KeysFacts
  <2>3. \A i \in Items : place[i] # None => [list |-> place[i], body |-> body] \in MirrorItem
    BY DEF MirrorItem
  <2> QED
    BY <1>2, <2>1, <2>2, <2>3 DEF Stacks
<1>6. mirror \in Mirrors
  <2>1. \A r \in Rules : [body |-> body, ref |-> ref[r]] \in MirrorRule
    BY DEF MirrorRule
  <2>2. \A i \in Items : place[i] # None => [list |-> place[i], body |-> body] \in MirrorItem
    BY DEF MirrorItem
  <2> QED
    BY <1>2, <2>1, <2>2 DEF Mirrors
<1>7. NoneRead \in Reads /\ EmptyReport \in Reports
  BY DEF NoneRead, Reads, EmptyReport, Reports
<1>8. ShapeInv
  BY <1>3, <1>4, <1>5, <1>6, <1>7 DEF ShapeInv
<1>9. HomeInv
  <2>1. ASSUME NEW i \in Items, stack.items[i] # None
        PROVE  stack.lists[stack.items[i].list] # None
    <3>1. place[i] # None /\ stack.items[i].list = place[i]
      BY <1>2, <2>1
    <3>2. place[i] \in L
      BY <3>1
    <3>3. stack.lists[place[i]] = [body |-> body, id |-> place[i]]
      BY <1>2, <3>2
    <3>4. [body |-> body, id |-> place[i]] \in StackList
      BY <3>2, Keys DEF KeysFacts, StackList
    <3> QED
      BY <3>1, <3>3, <3>4, NoneIsNothing
  <2> QED
    BY <2>1 DEF HomeInv
<1>10. ScopeInv /\ IdsInv /\ ReadRulesInv /\ ReadListsInv /\ ReadItemsInv /\ CleanAfterPush
  BY <1>3 DEF ScopeInv, IdsInv, ReadRulesInv, ReadListsInv, ReadItemsInv, CleanAfterPush
<1>11. OpsInv /\ OrderInv /\ RulesInv /\ ListsInv /\ ItemsInv
  BY <1>3 DEF OpsInv, OrderInv, RulesInv, ListsInv, ItemsInv, Writing
<1> QED
  BY <1>8, <1>9, <1>10, <1>11 DEF IInv

(* A step that changes nothing. *)
LEMMA IInvUnchanged ==
  ASSUME IInv, UNCHANGED vars
  PROVE  IInv'
<1>a. UNCHANGED <<mirror, stack, minted, pc, scope, local, remote, todo, ids, ops, report, outcome, changed, edits>>
  BY DEF vars, plan
<1>b. Both' = Both /\ Wanted' = Wanted
  BY <1>a DEF Both, LocalLists, RemoteLists, Wanted
<1>1. ShapeInv'
  BY <1>a, <1>b DEF IInv, ShapeInv
<1>2. HomeInv'
  BY <1>a, <1>b DEF IInv, HomeInv
<1>3. ScopeInv'
  BY <1>a, <1>b DEF IInv, ScopeInv, Existing, Wanted, Refs
<1>4. ReadRulesInv'
  BY <1>a, <1>b DEF IInv, ReadRulesInv, NoneRead
<1>5. ReadListsInv'
  BY <1>a, <1>b DEF IInv, ReadListsInv, Wanted, Refs, Existing
<1>6. ReadItemsInv'
  BY <1>a, <1>b DEF IInv, ReadItemsInv, Both, LocalLists, RemoteLists, Existing, Wanted, Refs
<1>7. OpsInv'
  BY <1>a, <1>b DEF IInv, OpsInv, Writing, Planned, RemoteItems
<1>8. OrderInv'
  BY <1>a, <1>b DEF IInv, OrderInv, Writing, OpsOn, Recorded
<1>9. IdsInv'
  BY <1>a, <1>b DEF IInv, IdsInv
<1>10. RulesInv'
  BY <1>a, <1>b DEF IInv, RulesInv, Writing, Existing, RuleInSync, PendingOn
<1>11. ListsInv'
  BY <1>a, <1>b DEF IInv, ListsInv, Writing, LocalLists, Existing, Wanted, Refs, PendingOn
<1>12. ItemsInv'
  BY <1>a, <1>b DEF IInv, ItemsInv, Writing, Settled, LocalLists, Existing, Wanted, Refs
<1>13. CleanAfterPush'
  BY <1>a, <1>b DEF IInv, CleanAfterPush, RuleInSync, ListInSync, LocalLists, Existing,
     Wanted, Refs
<1> QED
  BY <1>1, <1>2, <1>3, <1>4, <1>5, <1>6, <1>7, <1>8, <1>9, <1>10, <1>11, <1>12, <1>13 DEF IInv

(* Every step keeps the invariant.                                         *)
LEMMA IInvStep == ASSUME IInv, [Next]_vars PROVE IInv'
<1>1. CASE UNCHANGED vars
  BY <1>1, IInvUnchanged
<1>2. CASE \E sc \in SUBSET Rules, y \in BOOLEAN : Start(sc, y)
  BY <1>2, StartStep
<1>3. CASE Step
  BY <1>3, ReadRulesStep, FetchListStep, ListsFetchedStep, FindItemsStep, ReadFailsStep,
     PlanWritesStep, ResolveIdStep, ResolvedStep, ApplyListStep, ListsAppliedStep,
     ApplyItemStep, ItemsAppliedStep, ApplyRuleStep, RulesAppliedStep, Zenon DEF Step
<1>4. CASE ClientEdits
  BY <1>4, ClientStep
<1>5. CASE MirrorEdits
  BY <1>5, MirrorStep
<1> QED
  BY <1>1, <1>2, <1>3, <1>4, <1>5 DEF Next

(* What is known at each point of a push, as StatePushInv states it, holds  *)
(* in every state: for every number of rules, lists and items, whatever     *)
(* others do between two requests and whatever fails.                       *)
THEOREM PushInvariantHolds == Spec => []IInv
<1>1. Init => IInv
  BY IInvInit
<1>2. IInv /\ [Next]_vars => IInv'
  BY IInvStep
<1> QED
  BY <1>1, <1>2, PTL DEF Spec

(* --yes is a Boolean.                                                     *)
YesInv == yes \in BOOLEAN

(* `yes` is a Boolean; the invariant does not need it.                     *)
LEMMA YesIsBoolean == Spec => []YesInv
<1>1. Init => YesInv
  BY Zenon DEF Init, YesInv
<1>2. YesInv /\ [Next]_vars => YesInv'
  <2> SUFFICES ASSUME YesInv, [Next]_vars PROVE YesInv'
    OBVIOUS
  <2>1. ASSUME NEW sc \in SUBSET Rules, NEW y \in BOOLEAN, Start(sc, y) PROVE YesInv'
    BY <2>1, Zenon DEF Start, YesInv
  <2>2. yes' = yes => YesInv'
    BY Zenon DEF YesInv
  <2>3. UNCHANGED vars => yes' = yes
    BY DEF vars, plan
  <2>4. Step => yes' = yes
    BY DEF Step, ReadRules, FetchList, ListsFetched, FindItems, ReadFails, PlanWrites,
       ResolveId,
       Resolved, ApplyList, ListsApplied, ApplyItem, ItemsApplied, ApplyRule, RulesApplied, plan
  <2>5. ClientEdits \/ MirrorEdits => yes' = yes
    BY DEF ClientEdits, MirrorEdits, plan
  <2> QED
    BY <2>1, <2>2, <2>3, <2>4, <2>5, Zenon DEF Next
<1> QED
  BY <1>1, <1>2, PTL DEF Spec

(* Every variable of the push has its type in every state.                  *)
THEOREM PushTypeCorrect == Spec => []TypeOK
<1>1. IInv /\ YesInv => TypeOK
  <2>1. IInv => /\ mirror \in Mirrors /\ stack \in Stacks
                /\ scope \subseteq Rules /\ todo \subseteq Lists
                /\ ids \in [Lists -> Nat \cup {None}]
                /\ pc \in {"idle", "rules", "lists", "items", "resolve", "list", "item", "rule"}
                /\ outcome \in {"none", "err", "refused", "dry", "ok", "failed"}
    BY DEF IInv, ShapeInv
  <2>2. mirror \in Mirrors => /\ mirror.rules \in [Rules -> MirrorRule \cup {None}]
                              /\ mirror.lists \in [Lists -> Bodies \cup {None}]
                              /\ mirror.items \in [Items -> MirrorItem \cup {None}]
    BY DEF Mirrors
  <2>3. stack \in Stacks => /\ stack.rules \in [Rules -> StackRule \cup {None}]
                            /\ stack.lists \in [Lists -> StackList \cup {None}]
                            /\ stack.items \in [Items -> MirrorItem \cup {None}]
    BY DEF Stacks
  <2> QED
    BY <2>1, <2>2, <2>3, Zenon DEF TypeOK, YesInv
<1> QED
  BY <1>1, PushInvariantHolds, YesIsBoolean, PTL

(* CleanAfterPush: a push that reports no failure, and that nobody         *)
(* interfered with, leaves every rule of its scope and every list they      *)
(* reference as the mirror has them, down to the pointers.                  *)
THEOREM SuccessLeavesNothing == Spec => []CleanAfterPush
<1>1. IInv => CleanAfterPush
  BY DEF IInv
<1> QED
  BY <1>1, PushInvariantHolds, PTL
-----------------------------------------------------------------------------
(* What a write may do.                                                    *)

(* Only the three writing steps change the stack, each by one write.        *)
LEMMA PushWrites ==
  ASSUME IInv, [Next]_vars, Pushes
  PROVE  \E o \in ops :
           /\ \/ pc = "list" /\ o.kind = "list" /\ Accepts(o)
              \/ pc = "item" /\ o.kind = "item" /\ Accepts(o)
              \/ pc = "rule" /\ o.kind = "rule" /\ Injectable(o)
           /\ Write(o) /\ Planned(o)
           /\ report' = Succeeded(o) \/ report' = Failed(o)
<1>0. edits \in Nat /\ edits' = edits /\ stack' # stack
  BY DEF IInv, ShapeInv, Pushes
<1>1. ~(ClientEdits \/ MirrorEdits)
  <2>1. ~Edit
    BY <1>0 DEF Edit
  <2> QED
    BY <2>1, Zenon DEF ClientEdits, MirrorEdits
<1>2. ~(UNCHANGED vars) /\ ~(\E sc \in SUBSET Rules, y \in BOOLEAN : Start(sc, y))
  BY <1>0 DEF vars, Start
<1>3. ~(\/ ReadRules \/ FetchList \/ ListsFetched \/ FindItems \/ ReadFails \/ PlanWrites
        \/ ResolveId \/ Resolved \/ ListsApplied \/ ItemsApplied \/ RulesApplied)
  BY <1>0 DEF ReadRules, FetchList, ListsFetched, FindItems, ReadFails, PlanWrites, ResolveId,
     Resolved, ListsApplied, ItemsApplied, RulesApplied
<1>4. ApplyList \/ ApplyItem \/ ApplyRule
  BY <1>1, <1>2, <1>3 DEF Next, Step
<1>5. \A o \in ops : Planned(o)
  BY DEF IInv, OpsInv
<1>6. CASE ApplyList
  <2>1. First("list") \in ops /\ First("list").kind = "list"
    BY <1>6, FirstFacts DEF IInv, ShapeInv, ApplyList
  <2> QED
    BY <1>0, <1>5, <1>6, <2>1 DEF ApplyList, Errs
<1>7. CASE ApplyItem
  <2>1. First("item") \in ops /\ First("item").kind = "item"
    BY <1>7, FirstFacts DEF IInv, ShapeInv, ApplyItem
  <2> QED
    BY <1>0, <1>5, <1>7, <2>1 DEF ApplyItem, Errs
<1>8. CASE ApplyRule
  <2>1. First("rule") \in ops /\ First("rule").kind = "rule"
    BY <1>8, FirstFacts DEF IInv, ShapeInv, ApplyRule
  <2> QED
    BY <1>0, <1>5, <1>8, <2>1 DEF ApplyRule, Errs
<1> QED
  BY <1>4, <1>6, <1>7, <1>8

(* What the report newly calls applied is what the step wrote.              *)
LEMMA AppliedByWrite ==
  ASSUME IInv, [Next]_vars, NEW o \in report'.applied \ report.applied
  PROVE  /\ o \in ops /\ report' = Succeeded(o) /\ UNCHANGED <<local, changed>>
         /\ Write(o) /\ Planned(o)
         /\ \/ pc = "list" /\ o.kind = "list" /\ Accepts(o)
            \/ pc = "item" /\ o.kind = "item" /\ Accepts(o)
            \/ pc = "rule" /\ o.kind = "rule" /\ Injectable(o)
<1>0. report \in Reports
  BY DEF IInv, ShapeInv
<1>r. \A q \in ops : /\ Succeeded(q).applied = report.applied \cup {q}
                     /\ Failed(q).applied = report.applied
  BY <1>0 DEF Succeeded, Failed, Reports
<1>1. ~(UNCHANGED vars \/ ClientEdits \/ MirrorEdits)
  BY DEF vars, ClientEdits, MirrorEdits
<1>2. ~(\E sc \in SUBSET Rules, y \in BOOLEAN : Start(sc, y)) /\ ~PlanWrites
  BY DEF Start, PlanWrites, EmptyReport
<1>3. ~(\/ ReadRules \/ FetchList \/ ListsFetched \/ FindItems \/ ReadFails
        \/ ResolveId \/ Resolved \/ ListsApplied \/ ItemsApplied \/ RulesApplied)
  BY DEF ReadRules, FetchList, ListsFetched, FindItems, ReadFails, ResolveId,
     Resolved, ListsApplied, ItemsApplied, RulesApplied
<1>4. ApplyList \/ ApplyItem \/ ApplyRule
  BY <1>1, <1>2, <1>3 DEF Next, Step
<1>5. \A q \in ops : Planned(q)
  BY DEF IInv, OpsInv
<1>6. CASE ApplyList
  <2> DEFINE q == First("list")
  <2>1. q \in ops /\ q.kind = "list"
    BY <1>6, FirstFacts DEF IInv, ShapeInv, ApplyList
  <2>2. /\ pc = "list" /\ UNCHANGED <<local, changed>>
        /\ (Accepts(q) /\ Write(q) /\ report' = Succeeded(q)) \/ report' = Failed(q)
    BY <1>6 DEF ApplyList, plan
  <2> HIDE DEF q
  <2> QED
    BY <1>r, <1>5, <2>1, <2>2
<1>7. CASE ApplyItem
  <2> DEFINE q == First("item")
  <2>1. q \in ops /\ q.kind = "item"
    BY <1>7, FirstFacts DEF IInv, ShapeInv, ApplyItem
  <2>2. /\ pc = "item" /\ UNCHANGED <<local, changed>>
        /\ (Accepts(q) /\ Write(q) /\ report' = Succeeded(q)) \/ report' = Failed(q)
    BY <1>7 DEF ApplyItem, plan
  <2> HIDE DEF q
  <2> QED
    BY <1>r, <1>5, <2>1, <2>2
<1>8. CASE ApplyRule
  <2> DEFINE q == First("rule")
  <2>1. q \in ops /\ q.kind = "rule"
    BY <1>8, FirstFacts DEF IInv, ShapeInv, ApplyRule
  <2>2. /\ pc = "rule" /\ UNCHANGED <<local, changed>>
        /\ (Injectable(q) /\ Write(q) /\ report' = Succeeded(q)) \/ report' = Failed(q)
    BY <1>8 DEF ApplyRule, plan
  <2> HIDE DEF q
  <2> QED
    BY <1>r, <1>5, <2>1, <2>2
<1> QED
  BY <1>4, <1>6, <1>7, <1>8

(* RulesComeLast: no rule is written while a list or an item is left to     *)
(* write or has failed, and the rule's pointer is the id of the list it     *)
(* references.                                                              *)
THEOREM RulesAreWrittenLast == Spec => RulesComeLast
<1>1. ASSUME IInv, [Next]_vars, Pushes, stack'.rules # stack.rules
      PROVE  /\ \A o \in ops \cup report.failed : o.kind = "rule"
             /\ \A r \in Rules : stack'.rules[r] # stack.rules[r] =>
                  LET l == stack'.rules[r].ref IN
                  \/ l = None \/ <<"list", l>> \in changed
                  \/ stack.lists[l] # None /\ stack.lists[l].id = stack'.rules[r].ptr
  <2>1. PICK o \in ops :
           /\ \/ pc = "list" /\ o.kind = "list" /\ Accepts(o)
              \/ pc = "item" /\ o.kind = "item" /\ Accepts(o)
              \/ pc = "rule" /\ o.kind = "rule" /\ Injectable(o)
           /\ Write(o) /\ Planned(o)
    BY <1>1, PushWrites
  <2>2. pc = "rule" /\ o.kind = "rule" /\ Injectable(o)
    BY <1>1, <2>1, ListWritten, ItemWritten DEF IInv
  <2>3. \A q \in ops \cup report.failed : q.kind = "rule"
    BY <1>1, <2>2 DEF IInv, OrderInv, Writing
  <2>4. /\ \A r \in Rules \ {o.id} : stack'.rules[r] = stack.rules[r]
        /\ stack'.rules[o.id].ref = local.rules[o.id].ref
        /\ local.rules[o.id].ref # None =>
             /\ local.rules[o.id].ref \in Lists /\ ids[local.rules[o.id].ref] # None
             /\ stack'.rules[o.id].ptr = ids[local.rules[o.id].ref]
    BY <1>1, <2>1, <2>2, RuleWritten DEF IInv
  <2>5. \A l \in Lists : ids[l] # None =>
          \/ <<"list", l>> \in changed
          \/ stack.lists[l] # None /\ stack.lists[l].id = ids[l]
    BY <1>1, <2>2 DEF IInv, IdsInv
  <2> QED
    BY <2>3, <2>4, <2>5
<1>2. IInv /\ [Next]_vars =>
        [Pushes /\ stack'.rules # stack.rules =>
           /\ \A o \in ops \cup report.failed : o.kind = "rule"
           /\ \A r \in Rules : stack'.rules[r] # stack.rules[r] =>
                LET l == stack'.rules[r].ref IN
                \/ l = None \/ <<"list", l>> \in changed
                \/ stack.lists[l] # None /\ stack.lists[l].id = stack'.rules[r].ptr]_vars
  BY <1>1
<1> QED
  BY <1>2, PushInvariantHolds, PTL DEF Spec, RulesComeLast

(* RemovalWasInstructed: an item is deleted only from a list whose file was *)
(* read, that lacks the item, and that was seen to have it.                 *)
THEOREM RemovalsAreInstructed == Spec => RemovalWasInstructed
<1>1. ASSUME IInv, [Next]_vars, NEW i \in Items, Pushes,
             stack.items[i] # None, stack'.items[i] = None
      PROVE  LET l == stack.items[i].list IN
             \/ <<"item", i>> \in changed
             \/ /\ local.lists[l] # None /\ i \in RemoteItems(l)
                /\ local.items[i] = None \/ local.items[i].list # l
  <2>1. PICK o \in ops :
           /\ \/ pc = "list" /\ o.kind = "list" /\ Accepts(o)
              \/ pc = "item" /\ o.kind = "item" /\ Accepts(o)
              \/ pc = "rule" /\ o.kind = "rule" /\ Injectable(o)
           /\ Write(o) /\ Planned(o)
    BY <1>1, PushWrites
  <2>2. o.kind = "item" /\ Accepts(o)
    BY <1>1, <2>1, ListWritten, RuleWritten DEF IInv
  <2>3. /\ \A k \in Items \ {o.id} : stack'.items[k] = stack.items[k]
        /\ o.act = "create" <=> stack.items[o.id] = None
        /\ o.act = "update" => stack'.items[o.id] # None
    BY <1>1, <2>1, <2>2, ItemWritten DEF IInv
  <2>4. o.id = i /\ o.act = "remove"
    BY <1>1, <2>3 DEF IInv, ShapeInv, Writes, Acts
  <2>5. <<"item", i>> \in changed \/ stack.items[i].list = o.list
    BY <1>1, <2>2, <2>4 DEF IInv, OpsInv
  <2> QED
    BY <2>1, <2>2, <2>4, <2>5 DEF Planned
<1>2. IInv /\ [Next]_vars =>
        [\A i \in Items : Pushes /\ stack.items[i] # None /\ stack'.items[i] = None =>
           LET l == stack.items[i].list IN
           \/ <<"item", i>> \in changed
           \/ /\ local.lists[l] # None /\ i \in RemoteItems(l)
              /\ local.items[i] = None \/ local.items[i].list # l]_vars
  BY <1>1
<1> QED
  BY <1>2, PushInvariantHolds, PTL DEF Spec, RemovalWasInstructed

(* ReportIsTrue: the object that changed is the one of the write that the   *)
(* step records, and a write it records as applied has had its effect.      *)
THEOREM ReportTellsTheTruth == Spec => ReportIsTrue
<1> DEFINE Named == \E o \in Recorded' \ Recorded :
             /\ \A r \in Rules : stack'.rules[r] # stack.rules[r] => o.kind = "rule" /\ o.id = r
             /\ \A l \in Lists : stack'.lists[l] # stack.lists[l] => o.kind = "list" /\ o.id = l
             /\ \A i \in Items : stack'.items[i] # stack.items[i] => o.kind = "item" /\ o.id = i
           True == \A o \in report'.applied \ report.applied : AsPlanned(o)' \/ changed # {}
<1>1. ASSUME IInv, [Next]_vars, Pushes PROVE Named
  <2>1. PICK o \in ops :
           /\ \/ pc = "list" /\ o.kind = "list" /\ Accepts(o)
              \/ pc = "item" /\ o.kind = "item" /\ Accepts(o)
              \/ pc = "rule" /\ o.kind = "rule" /\ Injectable(o)
           /\ Write(o) /\ Planned(o)
           /\ report' = Succeeded(o) \/ report' = Failed(o)
    BY <1>1, PushWrites
  <2>2. o \notin Recorded
    BY <1>1, <2>1 DEF IInv, OrderInv, Writing
  <2>3. o \in Recorded'
    <3>1. report \in Reports
      BY <1>1 DEF IInv, ShapeInv
    <3>2. o \in Succeeded(o).applied /\ o \in Failed(o).failed
      BY <3>1 DEF Reports, Succeeded, Failed
    <3> QED
      BY <2>1, <3>2 DEF Recorded
  <2>4. /\ \A r \in Rules : stack'.rules[r] # stack.rules[r] => o.kind = "rule" /\ o.id = r
        /\ \A l \in Lists : stack'.lists[l] # stack.lists[l] => o.kind = "list" /\ o.id = l
        /\ \A i \in Items : stack'.items[i] # stack.items[i] => o.kind = "item" /\ o.id = i
    <3>1. CASE o.kind = "list" /\ Accepts(o)
      BY <1>1, <2>1, <3>1, ListWritten DEF IInv
    <3>2. CASE o.kind = "item" /\ Accepts(o)
      BY <1>1, <2>1, <3>2, ItemWritten DEF IInv
    <3>3. CASE o.kind = "rule" /\ Injectable(o)
      BY <1>1, <2>1, <3>3, RuleWritten DEF IInv
    <3> QED
      BY <2>1, <3>1, <3>2, <3>3
  <2> QED
    BY <2>2, <2>3, <2>4
<1>2. ASSUME IInv, [Next]_vars PROVE True
  <2> SUFFICES ASSUME NEW o \in report'.applied \ report.applied, changed = {}
               PROVE  AsPlanned(o)'
    OBVIOUS
  <2>0. report \in Reports
    BY <1>2 DEF IInv, ShapeInv
  <2>1. /\ o \in ops /\ report' = Succeeded(o) /\ UNCHANGED <<local, changed>> /\ Write(o)
        /\ Planned(o)
        /\ \/ pc = "list" /\ o.kind = "list" /\ Accepts(o)
           \/ pc = "item" /\ o.kind = "item" /\ Accepts(o)
           \/ pc = "rule" /\ o.kind = "rule" /\ Injectable(o)
    BY <1>2, <2>0, AppliedByWrite
  <2>2. CASE o.kind = "list"
    BY <1>2, <2>1, <2>2, ListWritten DEF IInv, AsPlanned
  <2>3. CASE o.kind = "item"
    <3>1. CASE o.act = "create"
      BY <1>2, <2>1, <2>3, <3>1, ItemWritten DEF IInv, AsPlanned
    <3>2. CASE o.act = "remove"
      BY <1>2, <2>1, <2>3, <3>2, ItemWritten DEF IInv, AsPlanned
    <3>3. CASE o.act = "update"
      <4>0. /\ o.id \in Items /\ local.items[o.id] \in MirrorItem
            /\ local.items[o.id].list = o.list
        BY <1>2, <2>1, <2>3, <3>3 DEF Planned, IInv, ShapeInv, Mirrors
      <4>1. stack.items[o.id] # None /\ stack.items[o.id].list = o.list
        BY <1>2, <2>1, <2>3, <3>3 DEF IInv, OpsInv
      <4>2. /\ stack' \in Stacks /\ stack'.items[o.id] # None
            /\ stack'.items[o.id].list = stack.items[o.id].list
            /\ stack'.items[o.id].body = local.items[o.id].body
        BY <1>2, <2>1, <2>3, <3>3, ItemWritten DEF IInv
      <4>3. stack'.items[o.id] \in MirrorItem
        BY <4>0, <4>2 DEF Stacks
      <4>4. stack'.items[o.id] = local.items[o.id]
        BY <4>0, <4>1, <4>2, <4>3 DEF MirrorItem
      <4> QED
        BY <2>1, <2>3, <3>3, <4>4 DEF AsPlanned
    <3> QED
      BY <1>2, <2>1, <3>1, <3>2, <3>3 DEF IInv, ShapeInv, Writes, Acts
  <2>4. CASE o.kind = "rule"
    <3>1. /\ stack'.lists = stack.lists
          /\ stack'.rules[o.id] # None
          /\ stack'.rules[o.id].body = local.rules[o.id].body
          /\ stack'.rules[o.id].ref = local.rules[o.id].ref
          /\ local.rules[o.id].ref # None =>
               /\ local.rules[o.id].ref \in Lists /\ ids[local.rules[o.id].ref] # None
               /\ stack'.rules[o.id].ptr = ids[local.rules[o.id].ref]
      BY <1>2, <2>1, <2>4, RuleWritten DEF IInv
    <3>2. local.rules[o.id].ref # None =>
            /\ stack.lists[local.rules[o.id].ref] # None
            /\ stack.lists[local.rules[o.id].ref].id = ids[local.rules[o.id].ref]
      BY <1>2, <2>1, <2>4, <3>1 DEF IInv, IdsInv
    <3> QED
      BY <2>1, <2>4, <3>1, <3>2 DEF AsPlanned, RuleInSync
  <2> QED
    BY <2>1, <2>2, <2>3, <2>4
<1>3. IInv /\ [Next]_vars => [(Pushes => Named) /\ True]_vars
  BY <1>1, <1>2
<1> QED
  BY <1>3, PushInvariantHolds, PTL DEF Spec, ReportIsTrue
=============================================================================
