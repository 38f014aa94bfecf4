-------------------------- MODULE BridgeHostProofs --------------------------
(***************************************************************************)
(* Theorems about BridgeHost, for every set of sandboxes, every choice of  *)
(* subnets and any number of failures and crashes.                         *)
(***************************************************************************)
EXTENDS BridgeHost, SequenceTheorems, WellFoundedInduction, TLAPS

-----------------------------------------------------------------------------
(* Sequences.                                                              *)

\* Taking one element out of a sequence (a rule out of BridgeState.firewall or
\* out of a chain) leaves a sequence over the same set, one element shorter.
LEMMA RemoveAtProperties ==
  ASSUME NEW S, NEW q \in Seq(S), NEW i \in 1 .. Len(q)
  PROVE  /\ RemoveAt(q, i) \in Seq(S)
         /\ Len(RemoveAt(q, i)) = Len(q) - 1
<1>1. Len(q) \in Nat /\ \A j \in 1 .. Len(q) : q[j] \in S
  OBVIOUS
<1>2. /\ SubSeq(q, 1, i - 1) \in Seq(S)
      /\ Len(SubSeq(q, 1, i - 1)) = i - 1
  BY <1>1, SubSeqProperties
<1>3. /\ SubSeq(q, i + 1, Len(q)) \in Seq(S)
      /\ Len(SubSeq(q, i + 1, Len(q))) = Len(q) - i
  BY <1>1, SubSeqProperties
<1>4. RemoveAt(q, i) = SubSeq(q, 1, i - 1) \o SubSeq(q, i + 1, Len(q))
  BY DEF RemoveAt
<1>5. ASSUME NEW u \in Seq(S), NEW v \in Seq(S)
      PROVE  u \o v \in Seq(S) /\ Len(u \o v) = Len(u) + Len(v)
  OBVIOUS
<1>6. RemoveAt(q, i) \in Seq(S)
  BY <1>2, <1>3, <1>4, <1>5
<1>7. Len(RemoveAt(q, i)) = (i - 1) + (Len(q) - i)
  BY <1>2, <1>3, <1>4, <1>5
<1> QED
  BY <1>1, <1>6, <1>7

-----------------------------------------------------------------------------
(* Type correctness.                                                       *)

SetupLabels == {"preCheck", "bridgeAdd", "vethCreate", "configureLinks",
                "addrAdd", "routeAdd", "postCheck"}

\* The bookkeeping of the rules: none before setup succeeded, fewer than six
\* while they are installed, and a loop index that points into the list.
RuleCount ==
  \A s \in Sandboxes :
    /\ pc[s] \in SetupLabels => firewall[s] = <<>>
    /\ pc[s] = "firewallAdd" => Len(firewall[s]) < 6
    /\ pc[s] \in {"rollback", "removeRules"} => index[s] <= Len(firewall[s])

TypeInv == TypeOK /\ RuleCount

\* The host begins with types in order.
LEMMA TypeInvInit == Init => TypeInv
<1> SUFFICES ASSUME Init PROVE TypeInv
  OBVIOUS
<1> QED
  BY DEF Init, TypeInv, TypeOK, RuleCount, Labels, SetupLabels, ChainNames, RuleIds

\* Every step keeps them.
LEMMA TypeInvStep == TypeInv /\ [Next]_vars => TypeInv'
<1> SUFFICES ASSUME TypeInv, [Next]_vars PROVE TypeInv'
  OBVIOUS
<1> USE DEF TypeInv, TypeOK, RuleCount, Labels, SetupLabels, At, GoTo, Fail,
            procVars, hostVars
<1>len. \A s \in Sandboxes : Len(firewall[s]) \in Nat
  OBVIOUS
<1>teardown. ASSUME NEW s \in Sandboxes, Teardown(s),
                    UNCHANGED <<alive, ownedBridge, ownedVeth, firewall, hasState, hostVars>>,
                    Fail(s) \/ UNCHANGED failed
             PROVE  TypeInv'
  <2>1. index' \in [Sandboxes -> Nat] /\ index'[s] = Len(firewall[s])
    BY <1>teardown, <1>len DEF Teardown
  <2>2. failed' \in [Sandboxes -> BOOLEAN]
    BY <1>teardown
  <2>3. TypeOK'
    BY <1>teardown, <2>1, <2>2 DEF Teardown
  <2>4. RuleCount'
    BY <1>teardown, <1>len, <2>1 DEF Teardown
  <2> QED
    BY <2>3, <2>4
<1>error. ASSUME NEW s \in Sandboxes, ReturnError(s) \/ SetupFailure(s) PROVE TypeInv'
  BY <1>error DEF ReturnError, SetupFailure
<1>preCheck. ASSUME NEW s \in Sandboxes, PreCheck(s) PROVE TypeInv'
  BY <1>preCheck, <1>error DEF PreCheck
<1>bridgeAdd. ASSUME NEW s \in Sandboxes, BridgeAdd(s) PROVE TypeInv'
  BY <1>bridgeAdd, <1>error DEF BridgeAdd
<1>vethCreate. ASSUME NEW s \in Sandboxes, VethCreate(s) PROVE TypeInv'
  BY <1>vethCreate, <1>error DEF VethCreate
<1>configureLinks. ASSUME NEW s \in Sandboxes, ConfigureLinks(s) PROVE TypeInv'
  BY <1>configureLinks, <1>error DEF ConfigureLinks
<1>addrAdd. ASSUME NEW s \in Sandboxes, AddrAdd(s) PROVE TypeInv'
  <2>1. LocalRoute(s) \in Routes
    BY BridgeConfigAssumption DEF LocalRoute, Routes, Devices
  <2> QED
    BY <2>1, <1>addrAdd, <1>error DEF AddrAdd
<1>routeAdd. ASSUME NEW s \in Sandboxes, RouteAdd(s) PROVE TypeInv'
  <2>1. SubnetRoute(s) \in Routes
    BY BridgeConfigAssumption DEF SubnetRoute, Routes, Devices
  <2> QED
    BY <2>1, <1>routeAdd, <1>error DEF RouteAdd
<1>postCheck. ASSUME NEW s \in Sandboxes, PostCheck(s) PROVE TypeInv'
  <2>1. CASE /\ hasState' = [hasState EXCEPT ![s] = TRUE]
             /\ GoTo(s, "firewallAdd")
             /\ UNCHANGED <<alive, ownedBridge, ownedVeth, firewall, index, failed, hostVars>>
    <3>1. firewall[s] = <<>> /\ Len(firewall'[s]) < 6
      BY <1>postCheck, <2>1 DEF PostCheck
    <3> QED
      BY <2>1, <3>1
  <2> QED
    BY <1>postCheck, <1>error, <2>1 DEF PostCheck
<1>moveVeth. ASSUME NEW s \in Sandboxes, MoveVeth(s) PROVE TypeInv'
  <2>1. CASE /\ peerMoved' = peerMoved \cup {s}
             /\ GoTo(s, "running")
             /\ UNCHANGED <<alive, procVars, bridges, veths, routes, chains>>
    BY <2>1
  <2> QED
    BY <1>moveVeth, <1>teardown, <2>1 DEF MoveVeth
<1>childExit. ASSUME NEW s \in Sandboxes, ChildExit(s) PROVE TypeInv'
  BY <1>childExit, <1>teardown DEF ChildExit
<1>crash. ASSUME NEW s \in Sandboxes, Crash(s) PROVE TypeInv'
  BY <1>crash DEF Crash
<1>kernel. ASSUME NEW s \in Sandboxes, KernelRemovesVeth(s) PROVE TypeInv'
  BY <1>kernel DEF KernelRemovesVeth
<1>hostBridge. ASSUME NEW s \in Sandboxes, HostRemovesBridge(s) PROVE TypeInv'
  BY <1>hostBridge DEF HostRemovesBridge, RemoveBridge
<1>vethDelete. ASSUME NEW s \in Sandboxes, VethDelete(s) PROVE TypeInv'
  BY <1>vethDelete DEF VethDelete
<1>vethInspect. ASSUME NEW s \in Sandboxes, VethInspect(s) PROVE TypeInv'
  BY <1>vethInspect DEF VethInspect
<1>bridgeDel. ASSUME NEW s \in Sandboxes, BridgeDel(s) PROVE TypeInv'
  BY <1>bridgeDel DEF BridgeDel, RemoveBridge
<1>bridgeInspect. ASSUME NEW s \in Sandboxes, BridgeInspect(s) PROVE TypeInv'
  BY <1>bridgeInspect DEF BridgeInspect
<1>hostRoute. ASSUME NEW p \in HostPrefixes, HostRouteAdd(p) PROVE TypeInv'
  <2>1. HostRoute(p) \in Routes
    BY BridgeConfigAssumption DEF HostRoute, Routes, Devices
  <2> QED
    BY <2>1, <1>hostRoute DEF HostRouteAdd
<1>firewallAdd. ASSUME NEW s \in Sandboxes, FirewallAdd(s) PROVE TypeInv'
  <2> DEFINE k == Len(firewall[s]) + 1
  <2>1. k \in RuleIds /\ RuleChain(k) \in ChainNames
    <3>1. k \in RuleIds
      BY <1>firewallAdd, <1>len DEF FirewallAdd, RuleIds
    <3> QED
      BY <3>1 DEF RuleIds, ChainNames, RuleChain
  <2>2. CASE /\ InsertRule(s, k)
             /\ firewall' = [firewall EXCEPT ![s] = Append(@, k)]
             /\ GoTo(s, IF k = 6 THEN "moveVeth" ELSE "firewallAdd")
             /\ UNCHANGED <<alive, ownedBridge, ownedVeth, index, hasState, failed,
                            bridges, veths, peerMoved, routes>>
    <3>1. <<s, k>> \in Sandboxes \X RuleIds
      BY <2>1
    <3>2. <<<<s, k>>>> \o chains[RuleChain(k)] \in Seq(Sandboxes \X RuleIds)
      BY <2>1, <3>1
    <3>3. chains' \in [ChainNames -> Seq(Sandboxes \X RuleIds)]
      BY <2>1, <2>2, <3>2 DEF InsertRule
    <3>4. firewall' \in [Sandboxes -> Seq(RuleIds)]
      BY <2>1, <2>2
    <3>5. k # 6 => Len(firewall'[s]) < 6
      BY <2>1, <2>2 DEF RuleIds
    <3> QED
      BY <1>firewallAdd, <2>2, <3>3, <3>4, <3>5 DEF FirewallAdd
  <2>3. CASE /\ Fail(s)
             /\ index' = [index EXCEPT ![s] = Len(firewall[s])]
             /\ GoTo(s, "rollback")
             /\ UNCHANGED <<alive, ownedBridge, ownedVeth, firewall, hasState, hostVars>>
    BY <1>firewallAdd, <2>3 DEF FirewallAdd
  <2> QED
    BY <1>firewallAdd, <2>2, <2>3 DEF FirewallAdd
<1>removeOne. ASSUME NEW s \in Sandboxes, pc[s] \in {"rollback", "removeRules"},
                     RemoveOneRule(s)
              PROVE  TypeInv'
  <2> DEFINE i == index[s]
  <2>1. i \in 1 .. Len(firewall[s])
    BY <1>removeOne DEF RemoveOneRule
  <2>2. CASE /\ DeleteRule(s, firewall[s][i])
             /\ firewall' = [firewall EXCEPT ![s] = RemoveAt(@, i)]
             /\ UNCHANGED failed
    <3>1. /\ RemoveAt(firewall[s], i) \in Seq(RuleIds)
          /\ Len(RemoveAt(firewall[s], i)) = Len(firewall[s]) - 1
      BY <2>1, RemoveAtProperties
    <3>2. firewall[s][i] \in RuleIds /\ RuleChain(firewall[s][i]) \in ChainNames
      BY <2>1 DEF RuleIds, RuleChain, ChainNames
    <3>3. chains' \in [ChainNames -> Seq(Sandboxes \X RuleIds)]
      <4>1. PICK n \in DOMAIN chains[RuleChain(firewall[s][i])] :
              chains' = [chains EXCEPT ![RuleChain(firewall[s][i])] = RemoveAt(@, n)]
        BY <2>2 DEF DeleteRule
      <4>2. RemoveAt(chains[RuleChain(firewall[s][i])], n) \in Seq(Sandboxes \X RuleIds)
        <5>1. chains[RuleChain(firewall[s][i])] \in Seq(Sandboxes \X RuleIds)
          BY <3>2
        <5>2. n \in 1 .. Len(chains[RuleChain(firewall[s][i])])
          BY <5>1, <4>1
        <5> QED
          BY <5>1, <5>2, RemoveAtProperties
      <4> QED
        BY <3>2, <4>1, <4>2
    <3> QED
      BY <1>removeOne, <2>1, <2>2, <3>1, <3>3 DEF RemoveOneRule
  <2>3. CASE Fail(s) /\ UNCHANGED <<firewall, chains>>
    BY <1>removeOne, <2>1, <2>3 DEF RemoveOneRule
  <2> QED
    BY <1>removeOne, <2>2, <2>3 DEF RemoveOneRule
<1>rollback. ASSUME NEW s \in Sandboxes, Rollback(s) PROVE TypeInv'
  BY <1>rollback, <1>removeOne, <1>teardown DEF Rollback
<1>removeRules. ASSUME NEW s \in Sandboxes, RemoveRules(s) PROVE TypeInv'
  BY <1>removeRules, <1>removeOne DEF RemoveRules
<1>stutter. CASE UNCHANGED vars
  BY <1>stutter DEF vars
<1> QED
  BY <1>preCheck, <1>bridgeAdd, <1>vethCreate, <1>configureLinks, <1>addrAdd,
     <1>routeAdd, <1>postCheck, <1>firewallAdd, <1>rollback, <1>moveVeth,
     <1>childExit, <1>crash, <1>kernel, <1>hostBridge, <1>removeRules,
     <1>vethDelete, <1>vethInspect, <1>bridgeDel, <1>bridgeInspect,
     <1>hostRoute, <1>stutter
  DEF Next, Setup, Cleanup

\* The types hold of every reachable state: in particular no command of setup
\* or cleanup is ever run with a rule number or a loop index out of range.
THEOREM TypeCorrect == Spec => []TypeOK
<1>1. TypeInv => TypeOK
  BY DEF TypeInv
<1> QED
  BY <1>1, TypeInvInit, TypeInvStep, PTL DEF Spec
-----------------------------------------------------------------------------
(* Overlapping subnets are never admitted together.                        *)

\* Why the second reading of the routes suffices: a sandbox that holds its
\* subnet has its route in the table until its bridge goes, so whoever reads the
\* table later sees it; and nobody holds a subnet while still in setup.
LeaseInv ==
  /\ TypeInv
  /\ \A s \in Sandboxes : pc[s] \in SetupLabels => ~hasState[s]
  /\ \A s \in Sandboxes : Holds(s) => SubnetRoute(s) \in routes
  /\ SubnetExclusive

\* Nobody holds a subnet at first.
LEMMA LeaseInvInit == Init => LeaseInv
<1> SUFFICES ASSUME Init PROVE LeaseInv
  OBVIOUS
<1>1. TypeInv
  BY TypeInvInit
<1> QED
  BY <1>1 DEF Init, LeaseInv, Holds, SubnetExclusive

\* A step that takes nobody's state, bridge or route away and admits nobody.
LEMMA LeaseInvQuiet ==
  ASSUME LeaseInv, TypeInv', hasState' = hasState, bridges' \subseteq bridges,
         \A t \in Sandboxes :
           /\ t \in bridges' /\ SubnetRoute(t) \in routes => SubnetRoute(t) \in routes'
           /\ pc'[t] \in SetupLabels => pc[t] \in SetupLabels
  PROVE  LeaseInv'
BY DEF LeaseInv, Holds, SubnetExclusive, SubnetRoute

\* Every step keeps a holder's route in the table, and the subnets exclusive.
LEMMA LeaseInvStep == LeaseInv /\ [Next]_vars => LeaseInv'
<1> SUFFICES ASSUME LeaseInv, [Next]_vars PROVE LeaseInv'
  OBVIOUS
<1>type. TypeInv /\ TypeInv' /\ TypeOK
  BY TypeInvStep DEF LeaseInv, TypeInv
<1> USE DEF At, GoTo, Fail, procVars, hostVars
<1>quietSetup. ASSUME NEW s \in Sandboxes,
                      \/ PreCheck(s) \/ VethCreate(s) \/ ConfigureLinks(s) \/ AddrAdd(s)
                      \/ RouteAdd(s) \/ FirewallAdd(s) \/ MoveVeth(s)
               PROVE  LeaseInv'
  <2>1. hasState' = hasState /\ bridges' = bridges /\ routes \subseteq routes'
    BY <1>quietSetup
       DEF PreCheck, VethCreate, ConfigureLinks, AddrAdd, RouteAdd, FirewallAdd,
           MoveVeth, ReturnError, SetupFailure, Teardown
  <2>2. \A t \in Sandboxes : pc'[t] \in SetupLabels => pc[t] \in SetupLabels
    BY <1>quietSetup, <1>type
       DEF PreCheck, VethCreate, ConfigureLinks, AddrAdd, RouteAdd, FirewallAdd,
           MoveVeth, ReturnError, SetupFailure, Teardown, TypeOK, SetupLabels
  <2> QED
    BY <1>type, <2>1, <2>2, LeaseInvQuiet
<1>quietCleanup. ASSUME NEW s \in Sandboxes,
                        \/ Rollback(s) \/ ChildExit(s) \/ RemoveRules(s) \/ VethDelete(s)
                        \/ VethInspect(s) \/ BridgeInspect(s) \/ Crash(s)
                        \/ KernelRemovesVeth(s)
                 PROVE  LeaseInv'
  <2>1. hasState' = hasState /\ bridges' = bridges /\ routes' = routes
    BY <1>quietCleanup
       DEF Rollback, ChildExit, RemoveRules, VethDelete, VethInspect, BridgeInspect,
           Crash, KernelRemovesVeth, RemoveOneRule, Teardown
  <2>2. \A t \in Sandboxes : pc'[t] \in SetupLabels => pc[t] \in SetupLabels
    BY <1>quietCleanup, <1>type
       DEF Rollback, ChildExit, RemoveRules, VethDelete, VethInspect, BridgeInspect,
           Crash, KernelRemovesVeth, RemoveOneRule, Teardown, TypeOK, SetupLabels
  <2> QED
    BY <1>type, <2>1, <2>2, LeaseInvQuiet
<1>hostRoute. ASSUME NEW p \in HostPrefixes, HostRouteAdd(p) PROVE LeaseInv'
  BY <1>hostRoute, <1>type, LeaseInvQuiet DEF HostRouteAdd
<1>gone. ASSUME NEW s \in Sandboxes, BridgeDel(s) \/ HostRemovesBridge(s) PROVE LeaseInv'
  <2>1. /\ hasState' = hasState
        /\ bridges' \subseteq bridges
        /\ \/ routes' = routes
           \/ s \notin bridges' /\ routes' = {r \in routes : r.dev # s}
    BY <1>gone DEF BridgeDel, HostRemovesBridge, RemoveBridge
  <2>2. \A t \in Sandboxes : pc'[t] \in SetupLabels => pc[t] \in SetupLabels
    BY <1>gone, <1>type DEF BridgeDel, HostRemovesBridge, TypeOK, SetupLabels
  <2>3. \A t \in Sandboxes :
          t \in bridges' /\ SubnetRoute(t) \in routes => SubnetRoute(t) \in routes'
    BY <2>1 DEF SubnetRoute
  <2> QED
    BY <1>type, <2>1, <2>2, <2>3, LeaseInvQuiet
<1>bridgeAdd. ASSUME NEW s \in Sandboxes, BridgeAdd(s) PROVE LeaseInv'
  <2>1. /\ hasState' = hasState /\ ~hasState[s] /\ routes' = routes
        /\ bridges' \subseteq bridges \cup {s}
    BY <1>bridgeAdd DEF BridgeAdd, ReturnError, LeaseInv, SetupLabels
  <2>2. \A t \in Sandboxes : pc'[t] \in SetupLabels => pc[t] \in SetupLabels
    BY <1>bridgeAdd, <1>type DEF BridgeAdd, ReturnError, TypeOK, SetupLabels
  <2> QED
    BY <1>type, <2>1, <2>2 DEF LeaseInv, Holds, SubnetExclusive, SubnetRoute
<1>postCheck. ASSUME NEW s \in Sandboxes, PostCheck(s) PROVE LeaseInv'
  <2>1. CASE SetupFailure(s)
    <3>1. \A t \in Sandboxes : pc'[t] \in SetupLabels => pc[t] \in SetupLabels
      BY <2>1, <1>type DEF SetupFailure, TypeOK, SetupLabels
    <3> QED
      BY <1>type, <2>1, <3>1, LeaseInvQuiet DEF SetupFailure
  <2>2. CASE /\ SubnetRoute(s) \in routes
             /\ \A r \in routes : r.dev # s => ~Overlaps(r.prefix, Subnet[s])
             /\ hasState' = [hasState EXCEPT ![s] = TRUE]
             /\ GoTo(s, "firewallAdd")
             /\ UNCHANGED <<alive, ownedBridge, ownedVeth, firewall, index, failed, hostVars>>
    <3>1. \A t \in Sandboxes : t # s => (Holds(t)' <=> Holds(t))
      BY <2>2, <1>type DEF Holds, TypeOK
    <3>2. \A t \in Sandboxes : t # s /\ Holds(t) => ~Overlaps(Subnet[t], Subnet[s])
      BY <2>2 DEF LeaseInv, SubnetRoute
    <3>3. \A t \in Sandboxes : pc'[t] \in SetupLabels => ~hasState'[t]
      BY <2>2, <1>type DEF LeaseInv, TypeOK, SetupLabels
    <3>4. \A t \in Sandboxes : Holds(t)' => SubnetRoute(t) \in routes'
      BY <2>2, <3>1 DEF LeaseInv
    <3>5. SubnetExclusive'
      BY <3>1, <3>2 DEF LeaseInv, SubnetExclusive, Overlaps
    <3> QED
      BY <1>type, <3>3, <3>4, <3>5 DEF LeaseInv, SubnetRoute
  <2> QED
    BY <1>postCheck, <2>1, <2>2 DEF PostCheck
<1>stutter. CASE UNCHANGED vars
  BY <1>stutter, <1>type, LeaseInvQuiet DEF vars
<1> QED
  BY <1>quietSetup, <1>quietCleanup, <1>hostRoute, <1>gone, <1>bridgeAdd,
     <1>postCheck, <1>stutter
  DEF Next, Setup, Cleanup

\* Two sandboxes with overlapping subnets are never both admitted, for any
\* number of sandboxes, any subnets, failures, crashes and foreign routes.
THEOREM SubnetsExclude == Spec => []SubnetExclusive
<1>1. LeaseInv => SubnetExclusive
  BY DEF LeaseInv
<1> QED
  BY <1>1, LeaseInvInit, LeaseInvStep, PTL DEF Spec
-----------------------------------------------------------------------------
(* Bridge setup implements the subnet lease.                               *)

held == {s \in Sandboxes : Holds(s)}

\* Every step of the host is a step of the lease, or none.
LEMMA LeaseStep == LeaseInv /\ [Next]_vars => [Lease!LeaseNext]_held
<1> SUFFICES ASSUME LeaseInv, [Next]_vars PROVE [Lease!LeaseNext]_held
  OBVIOUS
<1>type. TypeOK
  BY DEF LeaseInv, TypeInv
<1> USE DEF At, GoTo, Fail, procVars, hostVars
<1>same. ASSUME hasState' = hasState, bridges' = bridges PROVE UNCHANGED held
  BY <1>same DEF held, Holds
<1>quiet. ASSUME NEW s \in Sandboxes,
                 \/ PreCheck(s) \/ VethCreate(s) \/ ConfigureLinks(s) \/ AddrAdd(s)
                 \/ RouteAdd(s) \/ FirewallAdd(s) \/ MoveVeth(s) \/ Rollback(s)
                 \/ ChildExit(s) \/ RemoveRules(s) \/ VethDelete(s) \/ VethInspect(s)
                 \/ BridgeInspect(s) \/ Crash(s) \/ KernelRemovesVeth(s)
          PROVE  UNCHANGED held
  BY <1>quiet, <1>same
     DEF PreCheck, VethCreate, ConfigureLinks, AddrAdd, RouteAdd, FirewallAdd,
         MoveVeth, ReturnError, SetupFailure, Teardown, Rollback, ChildExit,
         RemoveRules, VethDelete, VethInspect, BridgeInspect, Crash,
         KernelRemovesVeth, RemoveOneRule
<1>hostRoute. ASSUME NEW p \in HostPrefixes, HostRouteAdd(p) PROVE UNCHANGED held
  BY <1>hostRoute, <1>same DEF HostRouteAdd
<1>bridgeAdd. ASSUME NEW s \in Sandboxes, BridgeAdd(s) PROVE UNCHANGED held
  <2>1. hasState' = hasState /\ ~hasState[s] /\ bridges \subseteq bridges'
        /\ bridges' \subseteq bridges \cup {s}
    BY <1>bridgeAdd DEF BridgeAdd, ReturnError, LeaseInv, SetupLabels
  <2> QED
    BY <2>1 DEF held, Holds
<1>gone. ASSUME NEW s \in Sandboxes, BridgeDel(s) \/ HostRemovesBridge(s)
         PROVE  UNCHANGED held \/ Lease!Release(s)
  <2>1. CASE RemoveBridge(s)
    <3>1. hasState' = hasState /\ bridges' = bridges \ {s}
      BY <1>gone, <2>1 DEF BridgeDel, HostRemovesBridge, RemoveBridge
    <3> QED
      BY <3>1 DEF held, Holds, Lease!Release
  <2>2. CASE UNCHANGED <<hasState, bridges>>
    BY <2>2, <1>same
  <2> QED
    BY <1>gone, <2>1, <2>2 DEF BridgeDel, HostRemovesBridge
<1>postCheck. ASSUME NEW s \in Sandboxes, PostCheck(s)
              PROVE  UNCHANGED held \/ Lease!Grant(s)
  <2>1. CASE SetupFailure(s)
    BY <2>1, <1>same DEF SetupFailure
  <2>2. CASE /\ SubnetRoute(s) \in routes
             /\ \A r \in routes : r.dev # s => ~Overlaps(r.prefix, Subnet[s])
             /\ hasState' = [hasState EXCEPT ![s] = TRUE]
             /\ bridges' = bridges
    <3>1. ~hasState[s]
      BY <1>postCheck DEF PostCheck, LeaseInv, SetupLabels
    <3>2. \A t \in held : t # s /\ ~Overlaps(Subnet[t], Subnet[s])
      BY <2>2, <3>1 DEF LeaseInv, SubnetRoute, held, Holds
    <3>3. held' = held \/ held' = held \cup {s}
      BY <1>type, <2>2 DEF held, Holds, TypeOK
    <3> QED
      BY <3>2, <3>3 DEF Lease!Grant, Lease!Overlaps, Overlaps, held
  <2> QED
    BY <1>postCheck, <2>1, <2>2 DEF PostCheck
<1>stutter. CASE UNCHANGED vars
  BY <1>stutter, <1>same DEF vars
<1> QED
  BY <1>quiet, <1>hostRoute, <1>bridgeAdd, <1>gone, <1>postCheck, <1>stutter
  DEF Next, Setup, Cleanup, Lease!LeaseNext

\* SetupParentBridge, with its two unlocked readings of the routing table,
\* implements an atomic grant of non-overlapping subnets.
THEOREM BridgeImplementsLease == Spec => ImplementsLease
<1>1. Init => Lease!LeaseInit
  BY DEF Init, Lease!LeaseInit, Holds
<1> QED
  BY <1>1, LeaseInvInit, LeaseInvStep, LeaseStep, PTL
  DEF Spec, ImplementsLease, Lease!LeaseSpec, held
-----------------------------------------------------------------------------
(* What a sandbox has on the host, and what its state says it owns.        *)

\* The commands of BridgeState.cleanup, and what follows.
LinkLabels == {"vethDelete", "vethInspect", "bridgeDel", "bridgeInspect", "exited"}

\* A link that exists is owned by the state that cleanup works from, and a route
\* goes with its bridge; without an error each part of the cleanup is complete
\* before the next one begins.
OwnInv ==
  /\ \A s \in bridges : ownedBridge[s]
  /\ \A s \in veths : ownedVeth[s]
  /\ \A r \in routes : r.dev \in bridges \cup {HostDev}
  /\ \A s \in Sandboxes : ~failed[s] =>
       /\ pc[s] = "removeRules" => index[s] = Len(firewall[s])
       /\ pc[s] \in LinkLabels => firewall[s] = <<>>
       /\ pc[s] \in {"bridgeDel", "bridgeInspect", "exited"} => ~ownedVeth[s]
       /\ pc[s] = "exited" => ~ownedBridge[s]

\* Nothing on the host is owned at first.
LEMMA OwnInvInit == Init => OwnInv
BY DEF Init, OwnInv, LinkLabels

\* Every step keeps links with the state that owns them, and routes with their bridge.
LEMMA OwnInvStep == TypeInv /\ OwnInv /\ [Next]_vars => OwnInv'
<1> SUFFICES ASSUME TypeInv, OwnInv, [Next]_vars PROVE OwnInv'
  OBVIOUS
<1>type. TypeOK /\ RuleCount
  BY DEF TypeInv
<1> USE DEF OwnInv, TypeOK, At, GoTo, Fail, procVars, hostVars, LinkLabels
<1>error. ASSUME NEW s \in Sandboxes, pc[s] \in SetupLabels,
                 \/ pc[s] \in {"preCheck", "bridgeAdd"} /\ ReturnError(s)
                 \/ SetupFailure(s)
          PROVE  OwnInv'
  <2>1. /\ failed' = [failed EXCEPT ![s] = TRUE]
        /\ UNCHANGED <<ownedBridge, ownedVeth, firewall, index, bridges, veths, routes>>
        /\ \A t \in Sandboxes : t # s => pc'[t] = pc[t]
    BY <1>error, <1>type DEF ReturnError, SetupFailure
  <2> QED
    BY <1>type, <2>1
<1>checks. ASSUME NEW s \in Sandboxes, PreCheck(s) \/ ConfigureLinks(s) \/ PostCheck(s)
           PROVE  OwnInv'
  <2>1. CASE PreCheck(s) /\ ~ReturnError(s)
    BY <1>type, <2>1 DEF PreCheck
  <2>2. CASE ConfigureLinks(s) /\ ~SetupFailure(s)
    BY <1>type, <2>2 DEF ConfigureLinks
  <2>3. CASE PostCheck(s) /\ ~SetupFailure(s)
    BY <1>type, <2>3 DEF PostCheck
  <2> QED
    BY <1>checks, <1>error, <2>1, <2>2, <2>3
       DEF PreCheck, ConfigureLinks, PostCheck, SetupLabels
<1>links. ASSUME NEW s \in Sandboxes, BridgeAdd(s) \/ VethCreate(s)
          PROVE  OwnInv'
  <2>1. CASE BridgeAdd(s) /\ ~ReturnError(s)
    BY <1>type, <2>1 DEF BridgeAdd
  <2>2. CASE VethCreate(s) /\ ~SetupFailure(s)
    BY <1>type, <2>2 DEF VethCreate
  <2> QED
    BY <1>links, <1>error, <2>1, <2>2 DEF BridgeAdd, VethCreate, SetupLabels
<1>routes. ASSUME NEW s \in Sandboxes, AddrAdd(s) \/ RouteAdd(s) PROVE OwnInv'
  BY <1>routes, <1>type
     DEF AddrAdd, RouteAdd, LocalRoute, SubnetRoute, SetupFailure
<1>teardown. ASSUME NEW s \in Sandboxes, pc[s] \in {"moveVeth", "running"}, Teardown(s),
                    failed' = [failed EXCEPT ![s] = TRUE] \/ UNCHANGED failed,
                    UNCHANGED <<alive, ownedBridge, ownedVeth, firewall, hasState, hostVars>>
             PROVE  OwnInv'
  BY <1>teardown, <1>type DEF Teardown
<1>running. ASSUME NEW s \in Sandboxes, ChildExit(s) \/ MoveVeth(s) PROVE OwnInv'
  <2>1. CASE \/ ChildExit(s)
             \/ /\ MoveVeth(s) /\ Teardown(s) /\ Fail(s)
                /\ UNCHANGED <<alive, ownedBridge, ownedVeth, firewall, hasState, hostVars>>
    <3>1. /\ pc[s] \in {"moveVeth", "running"} /\ Teardown(s)
          /\ failed' = [failed EXCEPT ![s] = TRUE] \/ UNCHANGED failed
      BY <2>1 DEF ChildExit, MoveVeth
    <3>2. UNCHANGED <<alive, ownedBridge, ownedVeth, firewall, hasState, hostVars>>
      BY <2>1 DEF ChildExit, MoveVeth, Teardown
    <3> QED
      BY <1>teardown, <3>1, <3>2
  <2>2. CASE /\ MoveVeth(s) /\ GoTo(s, "running")
             /\ UNCHANGED <<alive, procVars, bridges, veths, routes, chains>>
    BY <1>type, <2>2
  <2> QED
    BY <1>running, <2>1, <2>2 DEF MoveVeth
<1>firewallAdd. ASSUME NEW s \in Sandboxes, FirewallAdd(s) PROVE OwnInv'
  BY <1>firewallAdd, <1>type DEF FirewallAdd
<1>removeOne. ASSUME NEW s \in Sandboxes, pc[s] \in {"rollback", "removeRules"},
                     RemoveOneRule(s)
              PROVE  OwnInv'
  <2>1. index[s] \in 1 .. Len(firewall[s])
    BY <1>removeOne, <1>type DEF RemoveOneRule, RuleCount
  <2>2. CASE firewall' = [firewall EXCEPT ![s] = RemoveAt(@, index[s])] /\ UNCHANGED failed
    <3>1. /\ RemoveAt(firewall[s], index[s]) \in Seq(RuleIds)
          /\ Len(RemoveAt(firewall[s], index[s])) = Len(firewall[s]) - 1
      BY <1>type, <2>1, RemoveAtProperties
    <3> QED
      BY <1>removeOne, <1>type, <2>1, <2>2, <3>1 DEF RemoveOneRule
  <2>3. CASE Fail(s) /\ UNCHANGED firewall
    BY <1>removeOne, <1>type, <2>3 DEF RemoveOneRule
  <2> QED
    BY <1>removeOne, <2>2, <2>3 DEF RemoveOneRule
<1>rollback. ASSUME NEW s \in Sandboxes, Rollback(s) PROVE OwnInv'
  BY <1>rollback, <1>removeOne, <1>type DEF Rollback, Teardown
<1>removeRules. ASSUME NEW s \in Sandboxes, RemoveRules(s) PROVE OwnInv'
  <2>1. CASE RemoveOneRule(s)
    BY <1>removeRules, <1>removeOne, <2>1 DEF RemoveRules
  <2>2. CASE index[s] = 0 /\ GoTo(s, "vethDelete") /\ UNCHANGED <<alive, procVars, hostVars>>
    <3>1. ~failed[s] => firewall[s] = <<>>
      BY <1>removeRules, <1>type, <2>2 DEF RemoveRules
    <3> QED
      BY <1>type, <2>2, <3>1
  <2> QED
    BY <1>removeRules, <2>1, <2>2 DEF RemoveRules
<1>veth. ASSUME NEW s \in Sandboxes, VethDelete(s) \/ VethInspect(s) \/ KernelRemovesVeth(s)
         PROVE  OwnInv'
  <2>1. CASE VethDelete(s)
    BY <1>type, <2>1 DEF VethDelete
  <2>2. CASE VethInspect(s)
    BY <1>type, <2>2 DEF VethInspect
  <2>3. CASE KernelRemovesVeth(s)
    BY <1>type, <2>3 DEF KernelRemovesVeth
  <2> QED
    BY <1>veth, <2>1, <2>2, <2>3
<1>bridge. ASSUME NEW s \in Sandboxes, BridgeDel(s) \/ BridgeInspect(s) \/ HostRemovesBridge(s)
           PROVE  OwnInv'
  <2>1. CASE BridgeDel(s)
    BY <1>type, <2>1 DEF BridgeDel, RemoveBridge
  <2>2. CASE BridgeInspect(s)
    BY <1>type, <2>2 DEF BridgeInspect
  <2>3. CASE HostRemovesBridge(s)
    BY <1>type, <2>3 DEF HostRemovesBridge, RemoveBridge
  <2> QED
    BY <1>bridge, <2>1, <2>2, <2>3
<1>others. CASE \/ \E s \in Sandboxes : Crash(s)
                \/ \E p \in HostPrefixes : HostRouteAdd(p)
                \/ UNCHANGED vars
  BY <1>others, <1>type DEF Crash, HostRouteAdd, HostRoute, vars
<1> QED
  BY <1>checks, <1>links, <1>routes, <1>running, <1>firewallAdd, <1>rollback, <1>removeRules,
     <1>veth, <1>bridge, <1>others
  DEF Next, Setup, Cleanup
-----------------------------------------------------------------------------
(* The rules of the sandboxes in the chains of the host.                   *)

\* Of one sandbox the rules with higher numbers come first, so none comes twice.
Ordered(chain) ==
  \A i, j \in DOMAIN chain :
    i < j /\ chain[i][1] = chain[j][1] => chain[j][2] < chain[i][2]

Increasing(q) == \A i, j \in DOMAIN q : i < j => q[i] < q[j]

\* `-I chain 1'.
LEMMA Prepended ==
  ASSUME NEW S, NEW x \in S, NEW q \in Seq(S), NEW p, p = <<x>> \o q
  PROVE  /\ p \in Seq(S) /\ Len(p) = Len(q) + 1 /\ p[1] = x
         /\ \A i \in 1 .. Len(q) : p[i + 1] = q[i]
         /\ ToSet(<<x>> \o q) = ToSet(q) \cup {x}
<1> DEFINE one == <<x>>
<1>1. one \in Seq(S) /\ Len(one) = 1 /\ one[1] = x /\ Len(q) \in Nat
  BY LenProperties
<1> HIDE DEF one
<1>2. p = one \o q
  BY DEF one
<1>3. /\ p \in Seq(S) /\ Len(p) = Len(one) + Len(q)
      /\ \A i \in 1 .. Len(one) + Len(q) : p[i] = IF i <= Len(one) THEN one[i] ELSE q[i - Len(one)]
  BY <1>1, <1>2, ConcatProperties
<1>4. Len(p) = Len(q) + 1 /\ p[1] = x
  BY <1>1, <1>3
<1>5. ASSUME NEW i \in 1 .. Len(q) PROVE p[i + 1] = q[i]
  <2>1. i + 1 \in 1 .. Len(one) + Len(q) /\ ~(i + 1 <= Len(one)) /\ i + 1 - Len(one) = i
    BY <1>1
  <2> QED
    BY <1>3, <2>1
<1>6. DOMAIN p = 1 .. Len(p) /\ DOMAIN q = 1 .. Len(q)
  BY <1>3, LenProperties
<1>7. ASSUME NEW r \in ToSet(p) PROVE r \in ToSet(q) \cup {x}
  <2>1. PICK i \in 1 .. Len(p) : r = p[i]
    BY <1>6, <1>7 DEF ToSet
  <2>2. CASE i = 1
    BY <1>4, <2>1, <2>2
  <2>3. CASE i # 1
    <3>1. i - 1 \in 1 .. Len(q) /\ (i - 1) + 1 = i
      BY <1>1, <1>4, <2>1, <2>3
    <3> QED
      BY <1>5, <1>6, <2>1, <3>1 DEF ToSet
  <2> QED
    BY <2>2, <2>3
<1>8. ASSUME NEW r \in ToSet(q) \cup {x} PROVE r \in ToSet(p)
  <2>1. CASE r = x
    <3>1. 1 \in DOMAIN p
      BY <1>1, <1>4, <1>6
    <3> QED
      BY <1>4, <2>1, <3>1 DEF ToSet
  <2>2. CASE r # x
    <3>1. PICK i \in 1 .. Len(q) : r = q[i]
      BY <1>6, <1>8, <2>2 DEF ToSet
    <3>2. i + 1 \in DOMAIN p
      BY <1>1, <1>4, <1>6, <3>1
    <3> QED
      BY <1>5, <3>1, <3>2 DEF ToSet
  <2> QED
    BY <2>1, <2>2
<1> QED
  BY <1>3, <1>4, <1>5, <1>7, <1>8

\* `-D': what is left of a chain, or of BridgeState.firewall.
LEMMA TakenOut ==
  ASSUME NEW S, NEW q \in Seq(S), NEW n \in 1 .. Len(q), NEW p, p = RemoveAt(q, n)
  PROVE  /\ p \in Seq(S) /\ Len(p) = Len(q) - 1
         /\ \A i \in 1 .. (Len(q) - 1) : p[i] = IF i < n THEN q[i] ELSE q[i + 1]
<1> DEFINE u == SubSeq(q, 1, n - 1)
           v == SubSeq(q, n + 1, Len(q))
<1>1. Len(q) \in Nat /\ \A j \in 1 .. Len(q) : q[j] \in S
  OBVIOUS
<1>2. /\ u \in Seq(S) /\ Len(u) = n - 1
      /\ \A i \in 1 .. (n - 1) : u[i] = q[i]
  <2>1. /\ u \in Seq(S)
        /\ Len(u) = IF 1 <= n - 1 THEN (n - 1) - 1 + 1 ELSE 0
        /\ \A i \in 1 .. (n - 1) - 1 + 1 : u[i] = q[1 + i - 1]
    BY <1>1, SubSeqProperties
  <2> HIDE DEF u
  <2> QED
    BY <2>1
<1>3. /\ v \in Seq(S) /\ Len(v) = Len(q) - n
      /\ \A i \in 1 .. (Len(q) - n) : v[i] = q[n + i]
  <2>1. /\ v \in Seq(S)
        /\ Len(v) = IF n + 1 <= Len(q) THEN Len(q) - (n + 1) + 1 ELSE 0
        /\ \A i \in 1 .. Len(q) - (n + 1) + 1 : v[i] = q[n + 1 + i - 1]
    BY <1>1, SubSeqProperties
  <2> HIDE DEF v
  <2> QED
    BY <1>1, <2>1
<1>4. p = u \o v
  BY DEF RemoveAt
<1> HIDE DEF u, v
<1>5. /\ p \in Seq(S) /\ Len(p) = Len(u) + Len(v)
      /\ \A i \in 1 .. Len(u) + Len(v) : p[i] = IF i <= Len(u) THEN u[i] ELSE v[i - Len(u)]
  <2>1. u \in Seq(S) /\ v \in Seq(S)
    BY <1>2, <1>3
  <2> QED
    BY <1>4, <2>1, ConcatProperties
<1>6. ASSUME NEW i \in 1 .. (Len(q) - 1) PROVE p[i] = IF i < n THEN q[i] ELSE q[i + 1]
  <2>1. CASE i < n
    <3>1. i \in 1 .. Len(u) + Len(v) /\ i <= Len(u) /\ i \in 1 .. (n - 1)
      BY <1>1, <1>2, <1>3, <2>1
    <3> QED
      BY <1>2, <1>5, <2>1, <3>1
  <2>2. CASE ~(i < n)
    <3>1. /\ i \in 1 .. Len(u) + Len(v) /\ ~(i <= Len(u)) /\ i - Len(u) \in 1 .. (Len(q) - n)
          /\ n + (i - Len(u)) = i + 1
      BY <1>1, <1>2, <1>3, <2>2
    <3> QED
      BY <1>3, <1>5, <2>2, <3>1
  <2> QED
    BY <2>1, <2>2
<1> QED
  BY <1>1, <1>2, <1>3, <1>5, <1>6

\* Without its n-th element a sequence of different elements is the rest of them.
LEMMA TakenOutSet ==
  ASSUME NEW S, NEW q \in Seq(S), NEW n \in 1 .. Len(q),
         \A i, j \in 1 .. Len(q) : i # j => q[i] # q[j]
  PROVE  ToSet(RemoveAt(q, n)) = ToSet(q) \ {q[n]}
<1> DEFINE p == RemoveAt(q, n)
<1>0. p = RemoveAt(q, n)
  OBVIOUS
<1> HIDE DEF p
<1>1. /\ p \in Seq(S) /\ Len(p) = Len(q) - 1
      /\ \A i \in 1 .. (Len(q) - 1) : p[i] = IF i < n THEN q[i] ELSE q[i + 1]
  BY <1>0, TakenOut
<1>2. Len(q) \in Nat /\ DOMAIN p = 1 .. (Len(q) - 1) /\ DOMAIN q = 1 .. Len(q)
  BY <1>1, LenProperties
<1>3. ASSUME NEW r \in ToSet(p) PROVE r \in ToSet(q) \ {q[n]}
  <2>1. PICK i \in 1 .. (Len(q) - 1) : r = p[i]
    BY <1>2, <1>3 DEF ToSet
  <2>2. PICK j \in 1 .. Len(q) : r = q[j] /\ j # n
    <3>1. i \in 1 .. Len(q) /\ i + 1 \in 1 .. Len(q)
      BY <1>2
    <3> QED
      BY <1>1, <2>1, <3>1
  <2> QED
    BY <1>2, <2>2 DEF ToSet
<1>4. ASSUME NEW r \in ToSet(q) \ {q[n]} PROVE r \in ToSet(p)
  <2>1. PICK j \in 1 .. Len(q) : r = q[j] /\ j # n
    BY <1>2, <1>4 DEF ToSet
  <2>2. CASE j < n
    <3>1. j \in 1 .. (Len(q) - 1) /\ p[j] = q[j]
      BY <1>1, <1>2, <2>2
    <3> QED
      BY <1>2, <2>1, <3>1 DEF ToSet
  <2>3. CASE ~(j < n)
    <3>1. j - 1 \in 1 .. (Len(q) - 1) /\ ~(j - 1 < n) /\ (j - 1) + 1 = j
      BY <1>2, <2>1, <2>3
    <3>2. p[j - 1] = q[j]
      BY <1>1, <3>1
    <3> QED
      BY <1>2, <2>1, <3>1, <3>2 DEF ToSet
  <2> QED
    BY <2>2, <2>3
<1> QED
  BY <1>0, <1>3, <1>4

Installing == {"firewallAdd", "moveVeth", "running"}

\* The chains hold exactly the rules that the states know of, each one once, in
\* its chain, and in the order that firewallRules wants for one sandbox.
ChainsInv ==
  /\ \A c \in ChainNames : Ordered(chains[c])
  /\ \A c \in ChainNames : \A r \in ToSet(chains[c]) : RuleChain(r[2]) = c
  /\ \A s \in Sandboxes, k \in RuleIds :
       k \in ToSet(firewall[s]) <=> <<s, k>> \in ToSet(chains[RuleChain(k)])
  /\ \A s \in Sandboxes :
       /\ Increasing(firewall[s])
       /\ pc[s] \in Installing => \A i \in DOMAIN firewall[s] : firewall[s][i] = i
       /\ pc[s] \in {"moveVeth", "running"} => Len(firewall[s]) = 6

\* The chain each of the six rules goes into.
LEMMA ChainOf ==
  /\ \A k \in RuleIds : RuleChain(k) \in ChainNames
  /\ RuleChain(1) = "FORWARD" /\ RuleChain(2) = "FORWARD" /\ RuleChain(3) = "FORWARD"
  /\ RuleChain(4) = "INPUT" /\ RuleChain(5) = "FORWARD" /\ RuleChain(6) = "POSTROUTING"
BY DEF RuleChain, RuleIds, ChainNames

\* The chains begin empty.
LEMMA ChainsInvInit == Init => ChainsInv
<1> SUFFICES ASSUME Init PROVE ChainsInv
  OBVIOUS
<1>1. \A c \in ChainNames : chains[c] = <<>>
  BY DEF Init
<1>2. \A s \in Sandboxes : firewall[s] = <<>> /\ pc[s] = "preCheck"
  BY DEF Init
<1> QED
  BY <1>1, <1>2, ChainOf DEF ChainsInv, Ordered, Increasing, ToSet, Installing

\* A step that leaves the rules alone.
LEMMA ChainsQuiet ==
  ASSUME ChainsInv, UNCHANGED <<firewall, chains>>,
         \A t \in Sandboxes :
           /\ pc'[t] \in Installing => pc[t] \in Installing \/ firewall[t] = <<>>
           /\ pc'[t] \in {"moveVeth", "running"} => pc[t] \in {"moveVeth", "running"}
  PROVE  ChainsInv'
<1>1. \A t \in Sandboxes : pc'[t] \in Installing => \A i \in DOMAIN firewall[t] : firewall[t][i] = i
  BY DEF ChainsInv
<1> QED
  BY <1>1 DEF ChainsInv

\* A rule that is inserted and recorded keeps the chains and the records in agreement.
LEMMA ChainsInsert ==
  ASSUME TypeInv, ChainsInv, NEW s \in Sandboxes, pc[s] = "firewallAdd",
         NEW k, k = Len(firewall[s]) + 1,
         InsertRule(s, k), firewall' = [firewall EXCEPT ![s] = Append(@, k)],
         GoTo(s, IF k = 6 THEN "moveVeth" ELSE "firewallAdd")
  PROVE  ChainsInv'
<1> DEFINE c0 == RuleChain(k)
           q == chains[c0]
           p == chains'[c0]
           f == firewall[s]
           g == firewall'[s]
<1>1. /\ f \in Seq(RuleIds) /\ Len(f) \in Nat /\ DOMAIN f = 1 .. Len(f)
      /\ k \in RuleIds /\ c0 \in ChainNames /\ q \in Seq(Sandboxes \X RuleIds)
  <2>1. f \in Seq(RuleIds) /\ Len(f) < 6
    BY DEF TypeInv, TypeOK, RuleCount
  <2>2. Len(f) \in Nat /\ DOMAIN f = 1 .. Len(f)
    BY <2>1, LenProperties
  <2>3. k \in RuleIds
    BY <2>1, <2>2 DEF RuleIds
  <2> QED
    BY <2>1, <2>2, <2>3, ChainOf DEF TypeInv, TypeOK
<1>2. \A i \in 1 .. Len(f) : f[i] = i
  BY <1>1 DEF ChainsInv, Installing
<1>3. /\ p = <<<<s, k>>>> \o q
      /\ \A c \in ChainNames : c # c0 => chains'[c] = chains[c]
  BY <1>1 DEF InsertRule, TypeInv, TypeOK
<1>4. /\ g = Append(f, k)
      /\ \A t \in Sandboxes : t # s => firewall'[t] = firewall[t]
  BY DEF TypeInv, TypeOK
<1>5. /\ pc'[s] = IF k = 6 THEN "moveVeth" ELSE "firewallAdd"
      /\ \A t \in Sandboxes : t # s => pc'[t] = pc[t]
  BY DEF GoTo, TypeInv, TypeOK
<1>old. /\ \A c \in ChainNames : Ordered(chains[c])
        /\ \A c \in ChainNames : \A r \in ToSet(chains[c]) : RuleChain(r[2]) = c
        /\ \A t \in Sandboxes, j \in RuleIds :
             j \in ToSet(firewall[t]) <=> <<t, j>> \in ToSet(chains[RuleChain(j)])
        /\ \A t \in Sandboxes :
             /\ Increasing(firewall[t])
             /\ pc[t] \in Installing => \A i \in DOMAIN firewall[t] : firewall[t][i] = i
             /\ pc[t] \in {"moveVeth", "running"} => Len(firewall[t]) = 6
  BY DEF ChainsInv
<1>seq. \A c \in ChainNames : chains[c] \in Seq(Sandboxes \X RuleIds)
  BY DEF TypeInv, TypeOK
<1> HIDE DEF c0, q, p, f, g
<1>6. /\ p \in Seq(Sandboxes \X RuleIds) /\ Len(p) = Len(q) + 1 /\ p[1] = <<s, k>>
      /\ \A i \in 1 .. Len(q) : p[i + 1] = q[i]
      /\ ToSet(p) = ToSet(q) \cup {<<s, k>>}
  <2> DEFINE x == <<s, k>>
             S == Sandboxes \X RuleIds
  <2>1. x \in S /\ q \in Seq(S) /\ p = <<x>> \o q
    BY <1>1, <1>3
  <2> HIDE DEF x, S
  <2>2. p \in Seq(S) /\ Len(p) = Len(q) + 1 /\ p[1] = x
    BY ONLY <2>1, Prepended
  <2>3. \A i \in 1 .. Len(q) : p[i + 1] = q[i]
    BY ONLY <2>1, Prepended
  <2>4. ToSet(<<x>> \o q) = ToSet(q) \cup {x}
    BY ONLY <2>1, Prepended
  <2> QED
    BY <2>1, <2>2, <2>3, <2>4 DEF x, S
<1>7. /\ Len(g) = Len(f) + 1 /\ DOMAIN g = 1 .. Len(g)
      /\ \A i \in 1 .. Len(g) : g[i] = i
      /\ ToSet(g) = ToSet(f) \cup {k}
  <2>1. k \in RuleIds /\ f \in Seq(RuleIds) /\ k = Len(f) + 1
    BY <1>1 DEF f
  <2>2. /\ g \in Seq(RuleIds) /\ Len(g) = Len(f) + 1
        /\ \A i \in 1 .. Len(f) : g[i] = f[i]
        /\ g[Len(f) + 1] = k
    BY <1>4, <2>1, AppendProperties
  <2>3. DOMAIN g = 1 .. Len(g)
    BY <2>2, LenProperties
  <2>4. \A i \in 1 .. Len(g) : g[i] = i
    BY <1>1, <1>2, <2>1, <2>2
  <2>5. ToSet(g) = 1 .. Len(g) /\ ToSet(f) = 1 .. Len(f)
    BY <1>1, <1>2, <2>3, <2>4 DEF ToSet
  <2> QED
    BY <1>1, <2>1, <2>2, <2>3, <2>4, <2>5
<1>8. ASSUME NEW r \in ToSet(q), r[1] = s PROVE r[2] < k
  <2>1. r \in Sandboxes \X RuleIds
    BY <1>1, <1>8 DEF ToSet
  <2>2. r = <<s, r[2]>> /\ r[2] \in RuleIds /\ RuleChain(r[2]) = c0
    BY <1>1, <1>8, <1>old, <2>1 DEF q
  <2>3. <<s, r[2]>> \in ToSet(chains[RuleChain(r[2])])
    BY <1>8, <2>2 DEF q
  <2>4. r[2] \in ToSet(f)
    BY <1>old, <2>2, <2>3 DEF f
  <2>5. k = Len(f) + 1
    BY DEF f
  <2> QED
    BY <1>1, <1>2, <2>4, <2>5 DEF ToSet
<1>9. DOMAIN p = 1 .. Len(p) /\ DOMAIN q = 1 .. Len(q) /\ Len(q) \in Nat
  BY <1>1, <1>6, LenProperties
<1>10. Ordered(p)
  <2> SUFFICES ASSUME NEW i \in 1 .. Len(p), NEW j \in 1 .. Len(p), i < j, p[i][1] = p[j][1]
               PROVE  p[j][2] < p[i][2]
    BY <1>9 DEF Ordered
  <2>1. j - 1 \in 1 .. Len(q) /\ (j - 1) + 1 = j
    BY <1>6, <1>9
  <2>2. p[j] = q[j - 1] /\ q[j - 1] \in ToSet(q)
    BY <1>6, <1>9, <2>1 DEF ToSet
  <2>3. CASE i = 1
    BY <1>6, <1>8, <2>2, <2>3
  <2>4. CASE i # 1
    <3>1. i - 1 \in 1 .. Len(q) /\ (i - 1) + 1 = i /\ i - 1 < j - 1
      BY <1>6, <1>9, <2>4
    <3>2. p[i] = q[i - 1]
      BY <1>6, <3>1
    <3>3. Ordered(q)
      BY <1>1, <1>old DEF q
    <3>4. \A m, n \in 1 .. Len(q) : m < n /\ q[m][1] = q[n][1] => q[n][2] < q[m][2]
      BY <1>9, <3>3 DEF Ordered
    <3> QED
      BY <2>1, <2>2, <3>1, <3>2, <3>4
  <2> QED
    BY <2>3, <2>4
<1>11. ASSUME NEW c \in ChainNames
       PROVE  Ordered(chains'[c]) /\ \A r \in ToSet(chains'[c]) : RuleChain(r[2]) = c
  <2>1. CASE c = c0
    BY <1>1, <1>6, <1>10, <1>old, <2>1 DEF p, q, c0
  <2>2. CASE c # c0
    BY <1>3, <1>old, <2>2
  <2> QED
    BY <2>1, <2>2
<1>12. ASSUME NEW t \in Sandboxes, NEW j \in RuleIds
       PROVE  j \in ToSet(firewall'[t]) <=> <<t, j>> \in ToSet(chains'[RuleChain(j)])
  <2>0. RuleChain(j) \in ChainNames
    BY ChainOf
  <2>1. j \in ToSet(firewall'[t]) <=> (j \in ToSet(firewall[t]) \/ (t = s /\ j = k))
    BY <1>4, <1>7 DEF f, g
  <2>2. <<t, j>> \in ToSet(chains'[RuleChain(j)])
          <=> (<<t, j>> \in ToSet(chains[RuleChain(j)]) \/ (t = s /\ j = k))
    <3>1. CASE RuleChain(j) = c0
      BY <1>6, <3>1 DEF p, q
    <3>2. CASE RuleChain(j) # c0
      BY <1>3, <2>0, <3>2 DEF c0
    <3> QED
      BY <3>1, <3>2
  <2> QED
    BY <1>old, <2>1, <2>2
<1>13. ASSUME NEW t \in Sandboxes
       PROVE  /\ Increasing(firewall'[t])
              /\ pc'[t] \in Installing => \A i \in DOMAIN firewall'[t] : firewall'[t][i] = i
              /\ pc'[t] \in {"moveVeth", "running"} => Len(firewall'[t]) = 6
  <2>1. CASE t = s
    <3>1. k = Len(g)
      BY <1>7 DEF f
    <3> QED
      BY <1>5, <1>7, <2>1, <3>1 DEF Increasing, g
  <2>2. CASE t # s
    BY <1>4, <1>5, <1>old, <2>2
  <2> QED
    BY <2>1, <2>2
<1> QED
  BY <1>11, <1>12, <1>13 DEF ChainsInv

\* A rule is taken out of its chain and out of the state together.
LEMMA ChainsDelete ==
  ASSUME TypeInv, ChainsInv, NEW s \in Sandboxes, NEW n \in 1 .. Len(firewall[s]),
         DeleteRule(s, firewall[s][n]),
         firewall' = [firewall EXCEPT ![s] = RemoveAt(@, n)],
         pc' = pc, pc[s] \notin Installing
  PROVE  ChainsInv'
<1> DEFINE f == firewall[s]
           g == firewall'[s]
           k == f[n]
           c0 == RuleChain(k)
           q == chains[c0]
           p == chains'[c0]
<1>1. /\ f \in Seq(RuleIds) /\ Len(f) \in Nat /\ DOMAIN f = 1 .. Len(f)
      /\ k \in RuleIds /\ c0 \in ChainNames /\ q \in Seq(Sandboxes \X RuleIds)
  <2>1. f \in Seq(RuleIds)
    BY DEF TypeInv, TypeOK
  <2>2. Len(f) \in Nat /\ DOMAIN f = 1 .. Len(f) /\ k \in RuleIds
    BY <2>1, LenProperties
  <2> QED
    BY <2>1, <2>2, ChainOf DEF TypeInv, TypeOK
<1>2. PICK m \in DOMAIN q : q[m] = <<s, k>> /\ chains' = [chains EXCEPT ![c0] = RemoveAt(@, m)]
  BY DEF DeleteRule
<1>3. /\ p = RemoveAt(q, m)
      /\ \A c \in ChainNames : c # c0 => chains'[c] = chains[c]
  BY <1>1, <1>2 DEF TypeInv, TypeOK
<1>4. /\ g = RemoveAt(f, n)
      /\ \A t \in Sandboxes : t # s => firewall'[t] = firewall[t]
  BY DEF TypeInv, TypeOK
<1>old. /\ \A c \in ChainNames : Ordered(chains[c])
        /\ \A c \in ChainNames : \A r \in ToSet(chains[c]) : RuleChain(r[2]) = c
        /\ \A t \in Sandboxes, j \in RuleIds :
             j \in ToSet(firewall[t]) <=> <<t, j>> \in ToSet(chains[RuleChain(j)])
        /\ \A t \in Sandboxes :
             /\ Increasing(firewall[t])
             /\ pc[t] \in Installing => \A i \in DOMAIN firewall[t] : firewall[t][i] = i
             /\ pc[t] \in {"moveVeth", "running"} => Len(firewall[t]) = 6
  BY DEF ChainsInv
<1>n. n \in 1 .. Len(f) /\ k = f[n]
  OBVIOUS
<1> HIDE DEF f, g, k, c0, q, p
<1>m. m \in 1 .. Len(q) /\ DOMAIN q = 1 .. Len(q) /\ Len(q) \in Nat
  BY <1>1, <1>2, LenProperties
<1>5. \A i, j \in 1 .. Len(f) : i < j => f[i] < f[j]
  BY <1>1, <1>old DEF f, Increasing
<1>6. \A i, j \in 1 .. Len(q) : i < j /\ q[i][1] = q[j][1] => q[j][2] < q[i][2]
  BY <1>1, <1>m, <1>old DEF q, Ordered
<1>7. /\ Len(g) = Len(f) - 1 /\ DOMAIN g = 1 .. (Len(f) - 1)
      /\ \A i \in 1 .. (Len(f) - 1) : g[i] = IF i < n THEN f[i] ELSE f[i + 1]
      /\ ToSet(g) = ToSet(f) \ {k}
  <2>0. f \in Seq(RuleIds) /\ n \in 1 .. Len(f) /\ g = RemoveAt(f, n)
    BY <1>1, <1>4, <1>n
  <2>1. /\ g \in Seq(RuleIds) /\ Len(g) = Len(f) - 1
        /\ \A i \in 1 .. (Len(f) - 1) : g[i] = IF i < n THEN f[i] ELSE f[i + 1]
    BY ONLY <2>0, TakenOut
  <2>2. ASSUME NEW i \in 1 .. Len(f), NEW j \in 1 .. Len(f), i # j PROVE f[i] # f[j]
    <3>1. f[i] \in RuleIds /\ f[j] \in RuleIds
      BY <1>1
    <3>2. f[i] \in Int /\ f[j] \in Int
      BY <3>1 DEF RuleIds
    <3>3. i < j \/ j < i
      BY <2>2
    <3> QED
      BY <1>5, <3>2, <3>3
  <2>3. ToSet(RemoveAt(f, n)) = ToSet(f) \ {f[n]}
    BY <1>1, <1>n, <2>2, TakenOutSet
  <2> QED
    BY <1>4, <1>n, <2>1, <2>3, LenProperties
<1>8. /\ Len(p) = Len(q) - 1 /\ DOMAIN p = 1 .. (Len(q) - 1)
      /\ \A i \in 1 .. (Len(q) - 1) : p[i] = IF i < m THEN q[i] ELSE q[i + 1]
      /\ ToSet(p) = ToSet(q) \ {<<s, k>>}
  <2> DEFINE S == Sandboxes \X RuleIds
  <2>0. q \in Seq(S)
    BY <1>1
  <2>2. ASSUME NEW i \in 1 .. Len(q), NEW j \in 1 .. Len(q), i # j PROVE q[i] # q[j]
    <3>1. q[i] \in S /\ q[j] \in S
      BY <2>0
    <3>2. q[i][2] \in Int /\ q[j][2] \in Int
      BY <3>1 DEF RuleIds
    <3>3. i < j \/ j < i
      BY <2>2
    <3> QED
      BY <1>6, <3>2, <3>3
  <2> HIDE DEF S
  <2>4. m \in 1 .. Len(q) /\ p = RemoveAt(q, m)
    BY <1>3, <1>m
  <2>1. /\ p \in Seq(S) /\ Len(p) = Len(q) - 1
        /\ \A i \in 1 .. (Len(q) - 1) : p[i] = IF i < m THEN q[i] ELSE q[i + 1]
    BY ONLY <2>0, <2>4, TakenOut
  <2>3. ToSet(RemoveAt(q, m)) = ToSet(q) \ {q[m]}
    BY <1>m, <2>0, <2>2, TakenOutSet
  <2> QED
    BY <1>2, <1>3, <2>1, <2>3, LenProperties
<1>9. Ordered(p)
  <2> SUFFICES ASSUME NEW i \in 1 .. (Len(q) - 1), NEW j \in 1 .. (Len(q) - 1), i < j,
                      p[i][1] = p[j][1]
               PROVE  p[j][2] < p[i][2]
    BY <1>8 DEF Ordered
  <2> DEFINE x == IF i < m THEN i ELSE i + 1
             y == IF j < m THEN j ELSE j + 1
  <2>1. p[i] = q[x] /\ p[j] = q[y]
    BY <1>8
  <2>2. x \in 1 .. Len(q) /\ y \in 1 .. Len(q) /\ x < y
    BY <1>m
  <2> HIDE DEF x, y
  <2> QED
    BY <1>6, <2>1, <2>2
<1>10. Increasing(g)
  <2> SUFFICES ASSUME NEW i \in 1 .. (Len(f) - 1), NEW j \in 1 .. (Len(f) - 1), i < j
               PROVE  g[i] < g[j]
    BY <1>7 DEF Increasing
  <2> DEFINE x == IF i < n THEN i ELSE i + 1
             y == IF j < n THEN j ELSE j + 1
  <2>1. g[i] = f[x] /\ g[j] = f[y]
    BY <1>7
  <2>2. x \in 1 .. Len(f) /\ y \in 1 .. Len(f) /\ x < y
    BY <1>1, <1>n
  <2> HIDE DEF x, y
  <2> QED
    BY <1>5, <2>1, <2>2
<1>11. ASSUME NEW c \in ChainNames
       PROVE  Ordered(chains'[c]) /\ \A r \in ToSet(chains'[c]) : RuleChain(r[2]) = c
  <2>1. CASE c = c0
    <3>1. \A r \in ToSet(q) : RuleChain(r[2]) = c0
      BY <1>1, <1>old DEF q
    <3> QED
      BY <1>8, <1>9, <2>1, <3>1 DEF p
  <2>2. CASE c # c0
    BY <1>3, <1>old, <2>2
  <2> QED
    BY <2>1, <2>2
<1>12. ASSUME NEW t \in Sandboxes, NEW j \in RuleIds
       PROVE  j \in ToSet(firewall'[t]) <=> <<t, j>> \in ToSet(chains'[RuleChain(j)])
  <2>0. RuleChain(j) \in ChainNames
    BY ChainOf
  <2>1. j \in ToSet(firewall'[t]) <=> (j \in ToSet(firewall[t]) /\ ~(t = s /\ j = k))
    BY <1>4, <1>7 DEF f, g
  <2>2. <<t, j>> \in ToSet(chains'[RuleChain(j)])
          <=> (<<t, j>> \in ToSet(chains[RuleChain(j)]) /\ ~(t = s /\ j = k))
    <3>1. CASE RuleChain(j) = c0
      BY <1>8, <3>1 DEF p, q
    <3>2. CASE RuleChain(j) # c0
      BY <1>3, <2>0, <3>2 DEF c0
    <3> QED
      BY <3>1, <3>2
  <2> QED
    BY <1>old, <2>1, <2>2
<1>13. ASSUME NEW t \in Sandboxes
       PROVE  /\ Increasing(firewall'[t])
              /\ pc'[t] \in Installing => \A i \in DOMAIN firewall'[t] : firewall'[t][i] = i
              /\ pc'[t] \in {"moveVeth", "running"} => Len(firewall'[t]) = 6
  <2>1. CASE t = s
    BY <1>10, <2>1 DEF Installing, g
  <2>2. CASE t # s
    BY <1>4, <1>old, <2>2
  <2> QED
    BY <2>1, <2>2
<1> QED
  BY <1>11, <1>12, <1>13 DEF ChainsInv

\* So does every step.
LEMMA ChainsInvStep == TypeInv /\ ChainsInv /\ [Next]_vars => ChainsInv'
<1> SUFFICES ASSUME TypeInv, ChainsInv, [Next]_vars PROVE ChainsInv'
  OBVIOUS
<1>type. TypeOK /\ RuleCount
  BY DEF TypeInv
<1>pc. pc \in [Sandboxes -> Labels]
  BY <1>type DEF TypeOK
<1> USE DEF At, GoTo, procVars, hostVars, Installing
<1>setup. ASSUME NEW s \in Sandboxes,
                 \/ PreCheck(s) \/ BridgeAdd(s) \/ VethCreate(s) \/ ConfigureLinks(s)
                 \/ AddrAdd(s) \/ RouteAdd(s) \/ PostCheck(s)
          PROVE  ChainsInv'
  <2>1. /\ UNCHANGED <<firewall, chains>>
        /\ pc[s] \in SetupLabels /\ pc'[s] \notin {"moveVeth", "running"}
        /\ \A t \in Sandboxes : t # s => pc'[t] = pc[t]
    BY <1>setup, <1>pc
       DEF PreCheck, BridgeAdd, VethCreate, ConfigureLinks, AddrAdd, RouteAdd, PostCheck,
           ReturnError, SetupFailure, SetupLabels
  <2>2. firewall[s] = <<>>
    BY <1>type, <2>1 DEF RuleCount
  <2> QED
    BY <2>1, <2>2, ChainsQuiet
<1>end. ASSUME NEW s \in Sandboxes,
               \/ ChildExit(s) \/ VethDelete(s) \/ VethInspect(s) \/ BridgeDel(s)
               \/ BridgeInspect(s) \/ Crash(s) \/ KernelRemovesVeth(s) \/ HostRemovesBridge(s)
        PROVE  ChainsInv'
  <2>1. /\ UNCHANGED <<firewall, chains>>
        /\ pc'[s] \notin Installing \/ pc'[s] = pc[s]
        /\ \A t \in Sandboxes : t # s => pc'[t] = pc[t]
    BY <1>end, <1>pc
       DEF ChildExit, VethDelete, VethInspect, BridgeDel, BridgeInspect, Crash,
           KernelRemovesVeth, HostRemovesBridge, Teardown
  <2> QED
    BY <2>1, ChainsQuiet
<1>moveVeth. ASSUME NEW s \in Sandboxes, MoveVeth(s) PROVE ChainsInv'
  <2>1. /\ UNCHANGED <<firewall, chains>>
        /\ pc[s] = "moveVeth" /\ pc'[s] \in {"running", "removeRules"}
        /\ \A t \in Sandboxes : t # s => pc'[t] = pc[t]
    BY <1>moveVeth, <1>pc DEF MoveVeth, Teardown
  <2> QED
    BY <2>1, ChainsQuiet
<1>firewallAdd. ASSUME NEW s \in Sandboxes, FirewallAdd(s) PROVE ChainsInv'
  <2> DEFINE k == Len(firewall[s]) + 1
  <2>1. pc[s] = "firewallAdd"
    BY <1>firewallAdd DEF FirewallAdd
  <2>2. CASE /\ InsertRule(s, k)
             /\ firewall' = [firewall EXCEPT ![s] = Append(@, k)]
             /\ GoTo(s, IF k = 6 THEN "moveVeth" ELSE "firewallAdd")
    BY <2>1, <2>2, ChainsInsert
  <2>3. CASE GoTo(s, "rollback") /\ UNCHANGED <<firewall, chains>>
    <3>1. pc'[s] = "rollback" /\ \A t \in Sandboxes : t # s => pc'[t] = pc[t]
      BY <1>pc, <2>3
    <3> QED
      BY <2>3, <3>1, ChainsQuiet
  <2> QED
    BY <1>firewallAdd, <2>2, <2>3 DEF FirewallAdd
<1>removeOne. ASSUME NEW s \in Sandboxes, pc[s] \in {"rollback", "removeRules"},
                     RemoveOneRule(s)
              PROVE  ChainsInv'
  <2>1. index[s] \in 1 .. Len(firewall[s])
    BY <1>removeOne, <1>type DEF RemoveOneRule, RuleCount, TypeOK
  <2>2. CASE /\ DeleteRule(s, firewall[s][index[s]])
             /\ firewall' = [firewall EXCEPT ![s] = RemoveAt(@, index[s])]
    <3>1. pc' = pc /\ pc[s] \notin Installing
      BY <1>removeOne DEF RemoveOneRule
    <3> QED
      BY <2>1, <2>2, <3>1, ChainsDelete
  <2>3. CASE UNCHANGED <<firewall, chains>>
    BY <1>removeOne, <2>3, ChainsQuiet DEF RemoveOneRule
  <2> QED
    BY <1>removeOne, <2>2, <2>3 DEF RemoveOneRule
<1>rules. ASSUME NEW s \in Sandboxes, Rollback(s) \/ RemoveRules(s) PROVE ChainsInv'
  <2>1. CASE RemoveOneRule(s)
    BY <1>rules, <1>removeOne, <2>1 DEF Rollback, RemoveRules
  <2>2. CASE ~RemoveOneRule(s)
    <3>1. /\ UNCHANGED <<firewall, chains>>
          /\ pc'[s] \in {"removeRules", "vethDelete"}
          /\ \A t \in Sandboxes : t # s => pc'[t] = pc[t]
      BY <1>rules, <1>pc, <2>2 DEF Rollback, RemoveRules, Teardown
    <3> QED
      BY <3>1, ChainsQuiet
  <2> QED
    BY <2>1, <2>2
<1>others. CASE (\E p \in HostPrefixes : HostRouteAdd(p)) \/ UNCHANGED vars
  BY <1>others, ChainsQuiet DEF HostRouteAdd, vars
<1> QED
  BY <1>setup, <1>end, <1>moveVeth, <1>firewallAdd, <1>rules, <1>others
  DEF Next, Setup, Cleanup

HostInv == TypeInv /\ OwnInv /\ ChainsInv

\* The strengthening holds of every behaviour.
LEMMA HostInvHolds == Spec => []HostInv
<1>1. Init => HostInv
  BY TypeInvInit, OwnInvInit, ChainsInvInit DEF HostInv
<1>2. HostInv /\ [Next]_vars => HostInv'
  BY TypeInvStep, OwnInvStep, ChainsInvStep DEF HostInv
<1> QED
  BY <1>1, <1>2, PTL DEF Spec

\* A run that reports success left no link, no route and no rule of its own on
\* the host, whichever commands of the others came between.
THEOREM SuccessLeavesNothing == Spec => []NoLeakOnSuccess
<1>1. HostInv => NoLeakOnSuccess
  <2> SUFFICES ASSUME HostInv, NEW s \in Sandboxes, pc[s] = "exited", ~failed[s]
               PROVE  ~OnHost(s)
    BY DEF NoLeakOnSuccess
  <2>1. firewall[s] = <<>> /\ ~ownedVeth[s] /\ ~ownedBridge[s]
    BY DEF HostInv, OwnInv, LinkLabels
  <2>2. s \notin bridges /\ s \notin veths
    BY <2>1 DEF HostInv, OwnInv
  <2>3. \A r \in routes : r.dev # s
    BY <2>2, BridgeConfigAssumption DEF HostInv, OwnInv
  <2>4. ASSUME NEW c \in ChainNames, NEW i \in DOMAIN chains[c], chains[c][i][1] = s PROVE FALSE
    <3>1. chains[c] \in Seq(Sandboxes \X RuleIds)
      BY DEF HostInv, TypeInv, TypeOK
    <3>2. chains[c][i] \in Sandboxes \X RuleIds
      BY <3>1
    <3> DEFINE r == chains[c][i]
    <3>3. r \in ToSet(chains[c]) /\ r = <<s, r[2]>> /\ r[2] \in RuleIds
      BY <2>4, <3>2 DEF ToSet
    <3>4. RuleChain(r[2]) = c
      BY <3>3 DEF HostInv, ChainsInv
    <3> HIDE DEF r
    <3>5. r[2] \in ToSet(firewall[s])
      BY <3>3, <3>4 DEF HostInv, ChainsInv
    <3> QED
      BY <2>1, <3>5 DEF ToSet
  <2> QED
    BY <2>2, <2>3, <2>4 DEF OnHost
<1> QED
  BY <1>1, HostInvHolds, PTL
-----------------------------------------------------------------------------
(* What the chains decide.                                                 *)

\* A rule that matches, with none that matches before it.
LEMMA FirstDecides ==
  ASSUME NEW chain \in Seq(Sandboxes \X RuleIds), NEW p, NEW n \in DOMAIN chain,
         Matches(chain[n], p), \A j \in DOMAIN chain : j < n => ~Matches(chain[j], p)
  PROVE  Verdict(chain, p) = Target(chain[n][2])
<1> DEFINE hits == {i \in DOMAIN chain : Matches(chain[i], p)}
           first == CHOOSE i \in hits : \A j \in hits : i <= j
<1>1. DOMAIN chain = 1 .. Len(chain) /\ Len(chain) \in Nat
  BY LenProperties
<1>2. hits \subseteq Nat
  BY <1>1
<1>3. n \in hits /\ \A j \in hits : n <= j
  <2>1. ASSUME NEW j \in hits PROVE n <= j
    <3>1. n \in Nat /\ j \in Nat /\ ~(j < n)
      BY <1>1, <1>2
    <3> QED
      BY <3>1
  <2> QED
    BY <2>1
<1>4. Verdict(chain, p) = IF hits = {} THEN "NONE" ELSE Target(chain[first][2])
  BY DEF Verdict
<1> HIDE DEF hits
<1>5. first \in hits /\ \A j \in hits : first <= j
  BY <1>3
<1> HIDE DEF first
<1>6. first = n
  <2>1. first \in Nat /\ n \in Nat /\ first <= n /\ n <= first
    BY <1>2, <1>3, <1>5
  <2> QED
    BY <2>1
<1> QED
  BY <1>3, <1>4, <1>6

\* A rule that matches, where all that match have the same target.
LEMMA AllAgree ==
  ASSUME NEW chain \in Seq(Sandboxes \X RuleIds), NEW p, NEW n \in DOMAIN chain,
         Matches(chain[n], p), NEW v,
         \A j \in DOMAIN chain : Matches(chain[j], p) => Target(chain[j][2]) = v
  PROVE  Verdict(chain, p) = v
<1> DEFINE hits == {i \in DOMAIN chain : Matches(chain[i], p)}
           R == OpToRel(<, Nat)
<1>1. DOMAIN chain = 1 .. Len(chain) /\ Len(chain) \in Nat
  BY LenProperties
<1>2. hits \subseteq Nat /\ hits # {}
  BY <1>1
<1>3. PICK m \in hits : \A j \in hits : ~(<<j, m>> \in R)
  BY <1>2, NatLessThanWellFounded, WFMin
<1>4. R = {ss \in Nat \X Nat : ss[1] < ss[2]}
  BY Zenon DEF OpToRel
<1> HIDE DEF R
<1>5. \A j \in DOMAIN chain : j < m => ~Matches(chain[j], p)
  <2> SUFFICES ASSUME NEW j \in hits, j < m PROVE FALSE
    OBVIOUS
  <2>1. j \in Nat /\ m \in Nat
    BY <1>2
  <2>2. <<j, m>> \in R
    BY <1>4, <2>1
  <2> QED
    BY <1>3, <2>2
<1>6. Verdict(chain, p) = Target(chain[m][2])
  BY <1>5, FirstDecides
<1> QED
  BY <1>6

\* The rules of FORWARD and what they match.
LEMMA ForwardMatches ==
  ASSUME NEW r \in Sandboxes \X RuleIds, RuleChain(r[2]) = "FORWARD",
         NEW in, NEW out, NEW ct, NEW linkLocal \in BOOLEAN, NEW src
  PROVE  /\ r[2] \in {1, 2, 3, 5}
         /\ Matches(r, Packet(in, out, ct, linkLocal, src)) <=>
              \/ r[2] = 1 /\ in = r[1]
              \/ r[2] = 2 /\ out = r[1] /\ ct = "NEW"
              \/ r[2] = 3 /\ out = r[1] /\ ct = "ESTABLISHED"
              \/ r[2] = 5 /\ in = r[1] /\ linkLocal
<1>1. r[2] \in {1, 2, 3, 5}
  BY DEF RuleChain, RuleIds
<1> DEFINE p == Packet(in, out, ct, linkLocal, src)
<1>2. p.in = in /\ p.out = out /\ p.ct = ct /\ p.linkLocal = linkLocal
  BY DEF Packet
<1> HIDE DEF p
<1>3. r[2] = 1 => (Matches(r, p) <=> in = r[1])
  BY <1>2 DEF Matches
<1>4. r[2] = 2 => (Matches(r, p) <=> (out = r[1] /\ ct = "NEW"))
  BY <1>2 DEF Matches
<1>5. r[2] = 3 => (Matches(r, p) <=> (out = r[1] /\ ct = "ESTABLISHED"))
  BY <1>2 DEF Matches
<1>6. r[2] = 5 => (Matches(r, p) <=> (in = r[1] /\ linkLocal))
  BY <1>2 DEF Matches
<1> QED
  BY <1>1, <1>3, <1>4, <1>5, <1>6 DEF p

\* Outside of FORWARD a rule decides by the interface or the subnet of its sandbox.
LEMMA OtherMatches ==
  ASSUME NEW r \in Sandboxes \X RuleIds,
         NEW in, NEW out, NEW ct, NEW linkLocal \in BOOLEAN, NEW src
  PROVE  /\ RuleChain(r[2]) = "INPUT" =>
              /\ r[2] = 4
              /\ Matches(r, Packet(in, out, ct, linkLocal, src)) <=> in = r[1]
         /\ RuleChain(r[2]) = "POSTROUTING" =>
              /\ r[2] = 6
              /\ Matches(r, Packet(in, out, ct, linkLocal, src)) <=>
                   (src \in Subnet[r[1]] /\ out # r[1])
<1>1. r[2] \in RuleIds
  OBVIOUS
<1>2. /\ RuleChain(r[2]) = "INPUT" => r[2] = 4
      /\ RuleChain(r[2]) = "POSTROUTING" => r[2] = 6
  BY <1>1 DEF RuleChain, RuleIds
<1> DEFINE p == Packet(in, out, ct, linkLocal, src)
<1>3. p.in = in /\ p.out = out /\ p.src = src
  BY DEF Packet
<1> HIDE DEF p
<1>4. r[2] = 4 => (Matches(r, p) <=> in = r[1])
  BY <1>3 DEF Matches
<1>5. r[2] = 6 => (Matches(r, p) <=> (src \in Subnet[r[1]] /\ out # r[1]))
  BY <1>3 DEF Matches
<1> QED
  BY <1>2, <1>4, <1>5 DEF p

\* A running sandbox has all of its rules in the chains.
LEMMA AllInstalled ==
  ASSUME HostInv, NEW s \in Sandboxes, pc[s] = "running", NEW k \in RuleIds
  PROVE  \E i \in DOMAIN chains[RuleChain(k)] : chains[RuleChain(k)][i] = <<s, k>>
<1>1. firewall[s] \in Seq(RuleIds)
  BY DEF HostInv, TypeInv, TypeOK
<1>2. Len(firewall[s]) = 6 /\ \A i \in DOMAIN firewall[s] : firewall[s][i] = i
  BY DEF HostInv, ChainsInv, Installing
<1>3. k \in DOMAIN firewall[s]
  BY <1>1, <1>2 DEF RuleIds
<1>4. k \in ToSet(firewall[s])
  BY <1>2, <1>3 DEF ToSet
<1>5. <<s, k>> \in ToSet(chains[RuleChain(k)])
  BY <1>4 DEF HostInv, ChainsInv
<1> QED
  BY <1>5 DEF ToSet

\* What is known of a rule in a chain.
LEMMA InChain ==
  ASSUME HostInv, NEW c \in ChainNames
  PROVE  /\ chains[c] \in Seq(Sandboxes \X RuleIds)
         /\ \A i \in DOMAIN chains[c] :
              /\ chains[c][i] \in Sandboxes \X RuleIds
              /\ RuleChain(chains[c][i][2]) = c
         /\ \A i, j \in DOMAIN chains[c] :
              /\ chains[c][i][1] = chains[c][j][1] /\ chains[c][i][2] > chains[c][j][2] => i < j
<1>1. chains[c] \in Seq(Sandboxes \X RuleIds)
  BY DEF HostInv, TypeInv, TypeOK
<1>2. \A i \in DOMAIN chains[c] : chains[c][i] \in Sandboxes \X RuleIds
  BY <1>1
<1>3. \A i \in DOMAIN chains[c] : RuleChain(chains[c][i][2]) = c
  BY DEF HostInv, ChainsInv, ToSet
<1>4. ASSUME NEW i \in DOMAIN chains[c], NEW j \in DOMAIN chains[c],
             chains[c][i][1] = chains[c][j][1], chains[c][i][2] > chains[c][j][2], ~(i < j)
      PROVE  FALSE
  <2>1. i \in Nat /\ j \in Nat
    BY <1>1
  <2>2. chains[c][i][2] \in Nat /\ chains[c][j][2] \in Nat
    BY <1>2 DEF RuleIds
  <2>3. j < i
    BY <1>4, <2>1, <2>2
  <2>4. chains[c][i][2] < chains[c][j][2]
    BY <1>4, <2>3 DEF HostInv, ChainsInv, Ordered
  <2> QED
    BY <1>4, <2>2, <2>4
<1> QED
  BY <1>1, <1>2, <1>3, <1>4

\* The rules of FORWARD and their targets.
LEMMA ForwardTargets ==
  Target(1) = "ACCEPT" /\ Target(2) = "REJECT" /\ Target(3) = "ACCEPT" /\ Target(5) = "REJECT"
BY DEF Target

\* The same, of a packet to an ordinary address.
LEMMA ForwardHits ==
  ASSUME NEW r \in Sandboxes \X RuleIds, NEW in, NEW out,
         NEW ct \in {"NEW", "ESTABLISHED"}, NEW src,
         RuleChain(r[2]) = "FORWARD"
  PROVE  Matches(r, Packet(in, out, ct, FALSE, src)) <=>
           \/ r[2] = 1 /\ in = r[1]
           \/ r[2] = 2 /\ out = r[1] /\ ct = "NEW"
           \/ r[2] = 3 /\ out = r[1] /\ ct = "ESTABLISHED"
<1>1. \A linkLocal \in BOOLEAN :
        Matches(r, Packet(in, out, ct, linkLocal, src)) <=>
          \/ r[2] = 1 /\ in = r[1]
          \/ r[2] = 2 /\ out = r[1] /\ ct = "NEW"
          \/ r[2] = 3 /\ out = r[1] /\ ct = "ESTABLISHED"
          \/ r[2] = 5 /\ in = r[1] /\ linkLocal
  BY ForwardMatches
<1>2. Matches(r, Packet(in, out, ct, FALSE, src)) <=>
        \/ r[2] = 1 /\ in = r[1]
        \/ r[2] = 2 /\ out = r[1] /\ ct = "NEW"
        \/ r[2] = 3 /\ out = r[1] /\ ct = "ESTABLISHED"
        \/ r[2] = 5 /\ in = r[1] /\ FALSE
  BY <1>1, Zenon
<1> QED
  BY <1>2

\* The same, of a packet to a link-local address.
LEMMA LinkLocalHits ==
  ASSUME NEW r \in Sandboxes \X RuleIds, NEW in, NEW out,
         NEW ct \in {"NEW", "ESTABLISHED"}, NEW src,
         RuleChain(r[2]) = "FORWARD"
  PROVE  Matches(r, Packet(in, out, ct, TRUE, src)) <=>
           \/ r[2] \in {1, 5} /\ in = r[1]
           \/ r[2] = 2 /\ out = r[1] /\ ct = "NEW"
           \/ r[2] = 3 /\ out = r[1] /\ ct = "ESTABLISHED"
<1>1. \A linkLocal \in BOOLEAN :
        Matches(r, Packet(in, out, ct, linkLocal, src)) <=>
          \/ r[2] = 1 /\ in = r[1]
          \/ r[2] = 2 /\ out = r[1] /\ ct = "NEW"
          \/ r[2] = 3 /\ out = r[1] /\ ct = "ESTABLISHED"
          \/ r[2] = 5 /\ in = r[1] /\ linkLocal
  BY ForwardMatches
<1>2. Matches(r, Packet(in, out, ct, TRUE, src)) <=>
        \/ r[2] = 1 /\ in = r[1]
        \/ r[2] = 2 /\ out = r[1] /\ ct = "NEW"
        \/ r[2] = 3 /\ out = r[1] /\ ct = "ESTABLISHED"
        \/ r[2] = 5 /\ in = r[1] /\ TRUE
  BY <1>1, Zenon
<1> QED
  BY <1>2

\* A rule of FORWARD at its place, and what is there at all.
LEMMA InForward ==
  ASSUME HostInv
  PROVE  LET chain == chains["FORWARD"]
         IN  /\ chain \in Seq(Sandboxes \X RuleIds)
             /\ \A i \in DOMAIN chain :
                  /\ chain[i] \in Sandboxes \X RuleIds
                  /\ RuleChain(chain[i][2]) = "FORWARD"
             /\ \A i, j \in DOMAIN chain :
                  chain[i][1] = chain[j][1] /\ chain[i][2] > chain[j][2] => i < j
             /\ \A s \in Sandboxes : pc[s] = "running" =>
                  \A k \in {1, 2, 3, 5} : \E i \in DOMAIN chain : chain[i] = <<s, k>>
<1>1. "FORWARD" \in ChainNames
  BY DEF ChainNames
<1>2. ASSUME NEW s \in Sandboxes, pc[s] = "running", NEW k \in {1, 2, 3, 5}
      PROVE  \E i \in DOMAIN chains["FORWARD"] : chains["FORWARD"][i] = <<s, k>>
  <2>1. k \in RuleIds /\ RuleChain(k) = "FORWARD"
    BY DEF RuleIds, RuleChain
  <2> QED
    BY <1>2, <2>1, AllInstalled
<1> QED
  BY <1>1, <1>2, InChain

\* Each rule is in FORWARD once.
LEMMA OnceInForward ==
  ASSUME HostInv, NEW i \in DOMAIN chains["FORWARD"], NEW j \in DOMAIN chains["FORWARD"],
         chains["FORWARD"][i] = chains["FORWARD"][j]
  PROVE  i = j
<1> DEFINE chain == chains["FORWARD"]
<1>1. /\ chain \in Seq(Sandboxes \X RuleIds) /\ Ordered(chain)
  BY DEF HostInv, TypeInv, TypeOK, ChainsInv, ChainNames
<1> HIDE DEF chain
<1>2. i \in DOMAIN chain /\ j \in DOMAIN chain /\ chain[i] = chain[j]
  BY DEF chain
<1>3. i \in Nat /\ j \in Nat /\ chain[i][2] \in Nat
  <2>1. chain[i] \in Sandboxes \X RuleIds
    BY <1>1, <1>2
  <2> QED
    BY <1>1, <1>2, <2>1 DEF RuleIds
<1>4. ~(i < j) /\ ~(j < i)
  <2>1. ~(chain[i][2] < chain[i][2])
    BY <1>3
  <2> QED
    BY <1>1, <1>2, <2>1 DEF Ordered
<1> QED
  BY <1>3, <1>4

\* Whatever rules other sandboxes have put between and around its own, what a
\* running sandbox exchanges with the uplink is decided as firewallRules intends.
THEOREM UplinkAsIntended == Spec => []UplinkPolicy
<1>1. HostInv => UplinkPolicy
  <2> SUFFICES ASSUME HostInv, NEW s \in Sandboxes, pc[s] = "running",
                      NEW ct \in {"NEW", "ESTABLISHED"}, NEW a \in Subnet[s]
               PROVE
                 /\ Verdict(chains["FORWARD"], Packet(s, HostDev, ct, FALSE, a)) = "ACCEPT"
                 /\ Verdict(chains["FORWARD"], Packet(s, HostDev, ct, TRUE, a)) = "REJECT"
                 /\ Verdict(chains["FORWARD"], Packet(HostDev, s, ct, FALSE, a))
                      = IF ct = "NEW" THEN "REJECT" ELSE "ACCEPT"
                 /\ Verdict(chains["INPUT"], Packet(s, HostDev, ct, FALSE, a)) = "REJECT"
                 /\ Verdict(chains["POSTROUTING"], Packet(s, HostDev, ct, FALSE, a)) = "MASQUERADE"
    BY DEF UplinkPolicy
  <2>host. HostDev \notin Sandboxes
    BY BridgeConfigAssumption
  <2> DEFINE chain == chains["FORWARD"]
  <2>fw. /\ chain \in Seq(Sandboxes \X RuleIds)
         /\ \A i \in DOMAIN chain :
              /\ chain[i] \in Sandboxes \X RuleIds
              /\ chain[i][1] \in Sandboxes
              /\ RuleChain(chain[i][2]) = "FORWARD"
         /\ \A i, j \in DOMAIN chain :
              chain[i][1] = chain[j][1] /\ chain[i][2] > chain[j][2] => i < j
         /\ \A k \in {1, 2, 3, 5} : \E i \in DOMAIN chain : chain[i] = <<s, k>>
    BY InForward
  <2> HIDE DEF chain
  <2>1. Verdict(chain, Packet(s, HostDev, ct, FALSE, a)) = "ACCEPT"
    <3> DEFINE p == Packet(s, HostDev, ct, FALSE, a)
    <3>1. ASSUME NEW i \in DOMAIN chain
          PROVE  Matches(chain[i], p) <=> (chain[i][2] = 1 /\ chain[i][1] = s)
      <4> DEFINE r == chain[i]
      <4>1. r \in Sandboxes \X RuleIds /\ r[1] \in Sandboxes /\ RuleChain(r[2]) = "FORWARD"
        BY <2>fw
      <4> HIDE DEF r
      <4>2. Matches(r, Packet(s, HostDev, ct, FALSE, a)) <=>
              \/ r[2] = 1 /\ s = r[1]
              \/ r[2] = 2 /\ HostDev = r[1] /\ ct = "NEW"
              \/ r[2] = 3 /\ HostDev = r[1] /\ ct = "ESTABLISHED"
        BY ONLY <4>1, ForwardHits, ZenonT(60)
      <4> QED
        BY <2>host, <4>1, <4>2 DEF r
    <3> HIDE DEF p
    <3>2. PICK n \in DOMAIN chain : chain[n] = <<s, 1>>
      BY <2>fw
    <3>3. Matches(chain[n], p) /\ \A j \in DOMAIN chain : Matches(chain[j], p) => Target(chain[j][2]) = "ACCEPT"
      BY <3>1, <3>2, ForwardTargets
    <3>4. Verdict(chain, p) = "ACCEPT"
      BY <2>fw, <3>3, AllAgree
    <3> QED
      BY <3>4 DEF p
  <2>2. Verdict(chain, Packet(s, HostDev, ct, TRUE, a)) = "REJECT"
    <3> DEFINE p == Packet(s, HostDev, ct, TRUE, a)
    <3>1. ASSUME NEW i \in DOMAIN chain
          PROVE  Matches(chain[i], p) <=> (chain[i][2] \in {1, 5} /\ chain[i][1] = s)
      <4> DEFINE r == chain[i]
      <4>1. r \in Sandboxes \X RuleIds /\ r[1] \in Sandboxes /\ RuleChain(r[2]) = "FORWARD"
        BY <2>fw
      <4> HIDE DEF r
      <4>2. Matches(r, Packet(s, HostDev, ct, TRUE, a)) <=>
              \/ r[2] \in {1, 5} /\ s = r[1]
              \/ r[2] = 2 /\ HostDev = r[1] /\ ct = "NEW"
              \/ r[2] = 3 /\ HostDev = r[1] /\ ct = "ESTABLISHED"
        BY ONLY <4>1, LinkLocalHits, ZenonT(60)
      <4> QED
        BY <2>host, <4>1, <4>2 DEF r
    <3> HIDE DEF p
    <3>2. PICK n \in DOMAIN chain : chain[n] = <<s, 5>>
      BY <2>fw
    <3>3. Matches(chain[n], p)
      BY <3>1, <3>2
    <3>4. ASSUME NEW j \in DOMAIN chain, j < n, Matches(chain[j], p) PROVE FALSE
      <4>1. chain[j][1] = s /\ chain[j][2] \in {1, 5}
        BY <3>1, <3>4
      <4>nat. j \in Nat /\ n \in Nat
        BY <2>fw
      <4>2. chain[j][2] # 1
        <5>1. chain[j][2] = 1 => n < j
          BY <2>fw, <3>2, <4>1
        <5> QED
          BY <3>4, <4>nat, <5>1
      <4>3. chain[j] = <<s, 5>>
        BY <2>fw, <4>1, <4>2
      <4> QED
        <5>1. j = n
          BY <3>2, <4>3, OnceInForward DEF chain
        <5> QED
          BY <3>4, <4>nat, <5>1
    <3>5. Verdict(chain, p) = Target(chain[n][2])
      BY <2>fw, <3>3, <3>4, FirstDecides
    <3>6. Verdict(chain, p) = "REJECT"
      BY <3>2, <3>5, ForwardTargets
    <3> QED
      BY <3>6 DEF p
  <2>3. Verdict(chain, Packet(HostDev, s, ct, FALSE, a)) = IF ct = "NEW" THEN "REJECT" ELSE "ACCEPT"
    <3> DEFINE p == Packet(HostDev, s, ct, FALSE, a)
               k == IF ct = "NEW" THEN 2 ELSE 3
    <3>1. ASSUME NEW i \in DOMAIN chain
          PROVE  Matches(chain[i], p) <=> (chain[i][2] = k /\ chain[i][1] = s)
      <4> DEFINE r == chain[i]
      <4>1. r \in Sandboxes \X RuleIds /\ r[1] \in Sandboxes /\ RuleChain(r[2]) = "FORWARD"
        BY <2>fw
      <4> HIDE DEF r
      <4>2. Matches(r, Packet(HostDev, s, ct, FALSE, a)) <=>
              \/ r[2] = 1 /\ HostDev = r[1]
              \/ r[2] = 2 /\ s = r[1] /\ ct = "NEW"
              \/ r[2] = 3 /\ s = r[1] /\ ct = "ESTABLISHED"
        BY ONLY <4>1, ForwardHits, ZenonT(60)
      <4> QED
        BY <2>host, <4>1, <4>2 DEF r
    <3>2. PICK n \in DOMAIN chain : chain[n] = <<s, k>>
      BY <2>fw
    <3> HIDE DEF p
    <3>3. /\ Matches(chain[n], p)
          /\ \A j \in DOMAIN chain : Matches(chain[j], p) => Target(chain[j][2]) = Target(k)
      BY <3>1, <3>2
    <3>4. Verdict(chain, p) = Target(k)
      BY <2>fw, <3>3, AllAgree
    <3> QED
      BY <3>4, ForwardTargets DEF p
  <2>4. Verdict(chains["INPUT"], Packet(s, HostDev, ct, FALSE, a)) = "REJECT"
    <3> DEFINE p == Packet(s, HostDev, ct, FALSE, a)
               input == chains["INPUT"]
    <3>1. /\ input \in Seq(Sandboxes \X RuleIds)
          /\ \A i \in DOMAIN input :
               input[i] \in Sandboxes \X RuleIds /\ RuleChain(input[i][2]) = "INPUT"
      BY InChain DEF ChainNames
    <3>2. \E i \in DOMAIN input : input[i] = <<s, 4>>
      <4>1. 4 \in RuleIds /\ RuleChain(4) = "INPUT"
        BY DEF RuleIds, RuleChain
      <4> QED
        BY <4>1, AllInstalled
    <3> HIDE DEF input
    <3>3. PICK n \in DOMAIN input : input[n] = <<s, 4>>
      BY <3>2
    <3>4. \A i \in DOMAIN input : input[i][2] = 4 /\ (Matches(input[i], p) <=> input[i][1] = s)
      BY <3>1, OtherMatches
    <3> HIDE DEF p
    <3>5. /\ Matches(input[n], p)
          /\ \A j \in DOMAIN input : Matches(input[j], p) => Target(input[j][2]) = "REJECT"
      BY <3>3, <3>4 DEF Target
    <3>6. Verdict(input, p) = "REJECT"
      BY <3>1, <3>5, AllAgree
    <3> QED
      BY <3>6 DEF p, input
  <2>5. Verdict(chains["POSTROUTING"], Packet(s, HostDev, ct, FALSE, a)) = "MASQUERADE"
    <3> DEFINE p == Packet(s, HostDev, ct, FALSE, a)
               nat == chains["POSTROUTING"]
    <3>1. /\ nat \in Seq(Sandboxes \X RuleIds)
          /\ \A i \in DOMAIN nat :
               nat[i] \in Sandboxes \X RuleIds /\ RuleChain(nat[i][2]) = "POSTROUTING"
      BY InChain DEF ChainNames
    <3>2. \E i \in DOMAIN nat : nat[i] = <<s, 6>>
      <4>1. 6 \in RuleIds /\ RuleChain(6) = "POSTROUTING"
        BY DEF RuleIds, RuleChain
      <4> QED
        BY <4>1, AllInstalled
    <3> HIDE DEF nat
    <3>3. PICK n \in DOMAIN nat : nat[n] = <<s, 6>>
      BY <3>2
    <3>4. \A i \in DOMAIN nat :
            /\ nat[i][2] = 6
            /\ Matches(nat[i], p) <=> (a \in Subnet[nat[i][1]] /\ HostDev # nat[i][1])
      BY <3>1, OtherMatches
    <3> HIDE DEF p
    <3>5. /\ Matches(nat[n], p)
          /\ \A j \in DOMAIN nat : Matches(nat[j], p) => Target(nat[j][2]) = "MASQUERADE"
      BY <2>host, <3>3, <3>4 DEF Target
    <3>6. Verdict(nat, p) = "MASQUERADE"
      BY <3>1, <3>5, AllAgree
    <3> QED
      BY <3>6 DEF p, nat
  <2> QED
    BY <2>1, <2>2, <2>3, <2>4, <2>5 DEF chain
<1> QED
  BY <1>1, HostInvHolds, PTL

\* Between two running sandboxes neither can both begin a conversation and be
\* begun one with: each has the rule that refuses new connections before the one
\* that lets its own out, so only one of them can have its accepting rule first.
\* Answers are always let through.
THEOREM OneWayAtMost == Spec => []AtMostOneWay
<1>1. HostInv => AtMostOneWay
  <2> SUFFICES ASSUME HostInv, NEW s \in Sandboxes, NEW t \in Sandboxes, s # t,
                      pc[s] = "running", pc[t] = "running",
                      NEW a \in Subnet[s], NEW b \in Subnet[t]
               PROVE
                 /\ ~ /\ Verdict(chains["FORWARD"], Packet(s, t, "NEW", FALSE, a)) = "ACCEPT"
                      /\ Verdict(chains["FORWARD"], Packet(t, s, "NEW", FALSE, b)) = "ACCEPT"
                 /\ Verdict(chains["FORWARD"], Packet(s, t, "ESTABLISHED", FALSE, a)) = "ACCEPT"
    BY DEF AtMostOneWay
  <2> DEFINE chain == chains["FORWARD"]
  <2>fw. /\ chain \in Seq(Sandboxes \X RuleIds)
         /\ \A i \in DOMAIN chain :
              /\ chain[i] \in Sandboxes \X RuleIds
              /\ chain[i][1] \in Sandboxes
              /\ RuleChain(chain[i][2]) = "FORWARD"
         /\ \A i, j \in DOMAIN chain :
              chain[i][1] = chain[j][1] /\ chain[i][2] > chain[j][2] => i < j
         /\ \A u \in {s, t}, k \in {1, 2, 3, 5} : \E i \in DOMAIN chain : chain[i] = <<u, k>>
    BY InForward
  <2>once. \A i, j \in DOMAIN chain : chain[i] = chain[j] => i = j
    BY OnceInForward
  <2>nat. DOMAIN chain \subseteq Nat
    BY <2>fw
  <2> HIDE DEF chain
  \* Of u's new connections to v: u's rule 1 lets them pass, v's rule 2 does not.
  <2>new. ASSUME NEW u \in {s, t}, NEW v \in {s, t}, u # v, NEW src,
                 NEW m \in DOMAIN chain, chain[m] = <<u, 1>>,
                 NEW n \in DOMAIN chain, chain[n] = <<v, 2>>,
                 Verdict(chain, Packet(u, v, "NEW", FALSE, src)) = "ACCEPT"
          PROVE  m < n
    <3> DEFINE p == Packet(u, v, "NEW", FALSE, src)
    <3>1. ASSUME NEW i \in DOMAIN chain
          PROVE  Matches(chain[i], p) <=> chain[i] \in {<<u, 1>>, <<v, 2>>}
      <4> DEFINE r == chain[i]
      <4>1. r \in Sandboxes \X RuleIds /\ r[1] \in Sandboxes /\ RuleChain(r[2]) = "FORWARD"
        BY <2>fw
      <4> DEFINE ct == "NEW"
      <4>c. ct = "NEW" /\ ct \in {"NEW", "ESTABLISHED"} /\ p = Packet(u, v, ct, FALSE, src)
        OBVIOUS
      <4> HIDE DEF r, ct, p
      <4>2. Matches(r, Packet(u, v, ct, FALSE, src)) <=>
              \/ r[2] = 1 /\ u = r[1]
              \/ r[2] = 2 /\ v = r[1] /\ ct = "NEW"
              \/ r[2] = 3 /\ v = r[1] /\ ct = "ESTABLISHED"
        BY ONLY <4>c, <4>1, ForwardHits, ZenonT(60)
      <4>3. r \in {<<u, 1>>, <<v, 2>>} <=> ((r[2] = 1 /\ u = r[1]) \/ (r[2] = 2 /\ v = r[1]))
        BY <4>1
      <4> QED
        BY <4>c, <4>2, <4>3 DEF r
    <3>2. CASE n < m
      <4>1. \A j \in DOMAIN chain : j < n => ~Matches(chain[j], p)
        <5> SUFFICES ASSUME NEW j \in DOMAIN chain, j < n, Matches(chain[j], p) PROVE FALSE
          OBVIOUS
        <5>1. chain[j] = chain[m] \/ chain[j] = chain[n]
          BY <2>new, <3>1
        <5>2. j = m \/ j = n
          BY <2>once, <5>1
        <5> QED
          BY <2>nat, <3>2, <5>2
      <4>2. Matches(chain[n], p)
        BY <2>new, <3>1
      <4> HIDE DEF p
      <4>3. Verdict(chain, p) = Target(chain[n][2])
        BY <2>fw, <4>1, <4>2, FirstDecides
      <4>4. Verdict(chain, p) = "REJECT"
        BY <2>new, <4>3, ForwardTargets
      <4> QED
        BY <2>new, <4>4 DEF p
    <3>3. m # n
      BY <2>new
    <3> QED
      BY <2>nat, <3>2, <3>3
  <2>1. ~ /\ Verdict(chain, Packet(s, t, "NEW", FALSE, a)) = "ACCEPT"
          /\ Verdict(chain, Packet(t, s, "NEW", FALSE, b)) = "ACCEPT"
    <3> SUFFICES ASSUME Verdict(chain, Packet(s, t, "NEW", FALSE, a)) = "ACCEPT",
                        Verdict(chain, Packet(t, s, "NEW", FALSE, b)) = "ACCEPT"
                 PROVE  FALSE
      OBVIOUS
    <3>1. PICK s1 \in DOMAIN chain : chain[s1] = <<s, 1>>
      BY <2>fw
    <3>2. PICK s2 \in DOMAIN chain : chain[s2] = <<s, 2>>
      BY <2>fw
    <3>3. PICK t1 \in DOMAIN chain : chain[t1] = <<t, 1>>
      BY <2>fw
    <3>4. PICK t2 \in DOMAIN chain : chain[t2] = <<t, 2>>
      BY <2>fw
    <3>5. s1 < t2 /\ t1 < s2
      BY <2>new, <3>1, <3>2, <3>3, <3>4
    <3>6. s2 < s1 /\ t2 < t1
      BY <2>fw, <3>1, <3>2, <3>3, <3>4
    <3> QED
      BY <2>nat, <3>5, <3>6
  <2>2. Verdict(chain, Packet(s, t, "ESTABLISHED", FALSE, a)) = "ACCEPT"
    <3> DEFINE p == Packet(s, t, "ESTABLISHED", FALSE, a)
    <3>1. ASSUME NEW i \in DOMAIN chain
          PROVE  Matches(chain[i], p) <=>
                   ((chain[i][2] = 1 /\ s = chain[i][1]) \/ (chain[i][2] = 3 /\ t = chain[i][1]))
      <4> DEFINE r == chain[i]
      <4>1. r \in Sandboxes \X RuleIds /\ r[1] \in Sandboxes /\ RuleChain(r[2]) = "FORWARD"
        BY <2>fw
      <4> DEFINE ct == "ESTABLISHED"
      <4>c. ct = "ESTABLISHED" /\ ct \in {"NEW", "ESTABLISHED"} /\ p = Packet(s, t, ct, FALSE, a)
        OBVIOUS
      <4> HIDE DEF r, ct, p
      <4>2. Matches(r, Packet(s, t, ct, FALSE, a)) <=>
              \/ r[2] = 1 /\ s = r[1]
              \/ r[2] = 2 /\ t = r[1] /\ ct = "NEW"
              \/ r[2] = 3 /\ t = r[1] /\ ct = "ESTABLISHED"
        BY ONLY <4>c, <4>1, ForwardHits, ZenonT(60)
      <4> QED
        BY <4>c, <4>2 DEF r
    <3> HIDE DEF p
    <3>2. PICK n \in DOMAIN chain : chain[n] = <<s, 1>>
      BY <2>fw
    <3>3. /\ Matches(chain[n], p)
          /\ \A j \in DOMAIN chain : Matches(chain[j], p) => Target(chain[j][2]) = "ACCEPT"
      BY <3>1, <3>2, ForwardTargets
    <3>4. Verdict(chain, p) = "ACCEPT"
      BY <2>fw, <3>3, AllAgree
    <3> QED
      BY <3>4 DEF p
  <2> QED
    BY <2>1, <2>2 DEF chain
<1> QED
  BY <1>1, HostInvHolds, PTL
=============================================================================
