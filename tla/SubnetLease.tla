----------------------------- MODULE SubnetLease -----------------------------
(***************************************************************************)
(* What bridge mode promises about IPv4 subnets: a sandbox holds a lease   *)
(* on its subnet from the moment SetupParentBridge succeeds until its      *)
(* bridge is gone, and two leases never overlap.  BridgeHost, where the    *)
(* promise rests on two unlocked readings of the host's routing table, is  *)
(* shown to implement this specification.                                  *)
(***************************************************************************)
CONSTANTS Sandboxes, Subnet

VARIABLE leases     \* the sandboxes that hold their subnet

Overlaps(p, q) == p \cap q # {}

LeaseInit == leases = {}

\* A lease is granted only when no current one overlaps it.
Grant(s) ==
  /\ s \notin leases
  /\ \A t \in leases : ~Overlaps(Subnet[s], Subnet[t])
  /\ leases' = leases \cup {s}

Release(s) ==
  /\ s \in leases
  /\ leases' = leases \ {s}

LeaseNext == \E s \in Sandboxes : Grant(s) \/ Release(s)

LeaseSpec == LeaseInit /\ [][LeaseNext]_leases
=============================================================================
