---------------------------- MODULE MCBridgeHost ----------------------------
(* Instances of BridgeHost for TLC.  Addresses are small numbers.  In the  *)
(* first instance the subnet of b lies inside the one of a, the case the   *)
(* kernel's refusal of a second identical route does not catch; in the     *)
(* second the subnets are disjoint, so that both sandboxes get to install  *)
(* their rules around each other.                                          *)
EXTENDS BridgeHost

CONSTANTS a, b, MaxStuckRules

MCAddr == 1 .. 4

NestedSubnet == (a :> {1, 2, 3}) @@ (b :> {2, 3})
NestedGateway == (a :> 1) @@ (b :> 2)

DisjointSubnet == (a :> {1, 2}) @@ (b :> {3, 4})
DisjointGateway == (a :> 1) @@ (b :> 3)

Troubled == {s \in Sandboxes : failed[s] \/ ~alive[s]}

\* Bound: at most MaxStuckRules deletions of rules fail in one sandbox.
FewStuckRules ==
  \A s \in Sandboxes :
    pc[s] \notin {"firewallAdd", "moveVeth", "running"}
      => Len(firewall[s]) - index[s] <= MaxStuckRules

\* Bound: commands fail, or a crash happens, in at most one of the sandboxes.
OneTroubled == FewStuckRules /\ Cardinality(Troubled) <= 1
=============================================================================
