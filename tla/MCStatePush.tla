---------------------------- MODULE MCStatePush ----------------------------
(* Instances of StatePush for TLC.                                         *)
EXTENDS StatePush, TLC

\* Every item has one list it may be in, or may move between all of them.
OneHome == [i \in Items |-> {1}]
AnyHome == [i \in Items |-> Lists]

\* Contents are interchangeable.
Symmetry == Permutations(Bodies)
=============================================================================
