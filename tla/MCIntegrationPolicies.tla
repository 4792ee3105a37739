----------------------- MODULE MCIntegrationPolicies -----------------------
(* Instances of IntegrationPolicies for TLC.                               *)
EXTENDS IntegrationPolicies, TLC

P(name, parents, body) == [name |-> name, parents |-> parents, package |-> 1, body |-> body]

\* Policies 1 and 2 are in files, 3 belongs to somebody else.
TwoFiles ==
  {[i \in Ids |-> CASE i = 1 -> P("n1", {1}, "b1") [] i = 2 -> P("n2", {1, 2}, "b1") [] OTHER -> None],
   [i \in Ids |-> CASE i = 1 -> P("n1", {2}, "b2") [] i = 2 -> P("n2", {2}, "b1") [] OTHER -> None]}

Quiet == [p \in Parents |-> [agents |-> 1, portable |-> TRUE]]
Holding(one, two, version) ==
  [policies |-> [i \in Ids |-> CASE i = 1 -> one [] i = 2 -> two [] OTHER -> None],
   parents |-> Quiet, packages |-> [k \in Packages |-> version]]
SomeFleets ==
  {Holding(None, None, None), Holding(None, None, "exact"),
   Holding(P("n1", {1}, "b1"), None, "exact"),
   Holding(P("n1", {1}, "b1"), P("n2", {1, 2}, "b1"), "exact")}

SomePolicies == {P("n1", {1}, "b2"), P("n2", {2}, "b2")}
=============================================================================
