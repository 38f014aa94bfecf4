----------------------------- MODULE BridgeHost -----------------------------
(***************************************************************************)
(* Several sandboxes in bridge mode on one host.  Each runs, without any   *)
(* lock shared with the others, the part of Parent (parent/parent.go) that *)
(* calls SetupParentBridge, SetupFirewallForBridge, MoveVethToChild and    *)
(* TeardownParentBridge (network/bridge.go, network/iptables.go).  What    *)
(* they share is the host: its links, its IPv4 routes and its iptables     *)
(* chains.  One action is one `ip' or `iptables' command, which may fail;  *)
(* the link attribute commands, which nobody else reads, are one action.   *)
(*                                                                         *)
(* A sandbox names its links with 48 random bits (resourceNames), so its   *)
(* bridge, veth pair and rules are identified by the sandbox itself.       *)
(***************************************************************************)
EXTENDS Naturals, Sequences, SequencesExt

CONSTANTS
  Sandboxes,      \* the sandbox processes
  Addr,           \* IPv4 addresses
  Subnet,         \* Subnet[s], the prefix of s's BridgeConfig as its addresses
  Gateway,        \* Gateway[s], the address given to the bridge of s
  HostDev,        \* every device that no sandbox made
  HostPrefixes    \* prefixes the host may route, now or later

ASSUME BridgeConfigAssumption ==
  /\ Subnet \in [Sandboxes -> SUBSET Addr]
  /\ Gateway \in [Sandboxes -> Addr]
  /\ \A s \in Sandboxes : Gateway[s] \in Subnet[s] /\ Subnet[s] # {Gateway[s]}
  /\ HostPrefixes \subseteq SUBSET Addr
  /\ HostDev \notin Sandboxes

VARIABLES
  pc,           \* pc[s], the command s is about to run
  alive,        \* alive[s] is FALSE once the process of s was killed
  ownedBridge,  \* BridgeState.ownedBridge
  ownedVeth,    \* BridgeState.ownedVeth
  firewall,     \* BridgeState.firewall, the numbers of the installed rules
  index,        \* i of the loop in removeFirewallRulesLocked
  hasState,     \* SetupParentBridge returned a state, so teardown is deferred
  failed,       \* an error was met: Parent returns a nonzero result
  bridges,      \* host: the sandboxes whose bridge exists
  veths,        \* host: the sandboxes whose veth pair exists
  peerMoved,    \* host: the sandboxes whose veth peer is in the child's namespace
  routes,       \* host: the routes of `ip -4 route show table all'
  chains        \* host: the iptables chains, first rule first

procVars == <<ownedBridge, ownedVeth, firewall, index, hasState, failed>>
hostVars == <<bridges, veths, peerMoved, routes, chains>>
vars == <<pc, alive, procVars, hostVars>>

Labels == {"preCheck", "bridgeAdd", "vethCreate", "configureLinks", "addrAdd",
           "routeAdd", "postCheck", "firewallAdd", "rollback", "moveVeth",
           "running", "removeRules", "vethDelete", "vethInspect",
           "bridgeDel", "bridgeInspect", "exited"}

RuleIds == 1 .. 6
ChainNames == {"FORWARD", "INPUT", "POSTROUTING"}
Devices == Sandboxes \cup {HostDev}
Routes == [prefix : SUBSET Addr, dev : Devices]

Overlaps(p, q) == p \cap q # {}

SubnetRoute(s) == [prefix |-> Subnet[s], dev |-> s]
\* `addr add ... noprefixroute' still enters the address in the local table.
LocalRoute(s) == [prefix |-> {Gateway[s]}, dev |-> s]
HostRoute(p) == [prefix |-> p, dev |-> HostDev]

Init ==
  /\ pc = [s \in Sandboxes |-> "preCheck"]
  /\ alive = [s \in Sandboxes |-> TRUE]
  /\ ownedBridge = [s \in Sandboxes |-> FALSE]
  /\ ownedVeth = [s \in Sandboxes |-> FALSE]
  /\ firewall = [s \in Sandboxes |-> <<>>]
  /\ index = [s \in Sandboxes |-> 0]
  /\ hasState = [s \in Sandboxes |-> FALSE]
  /\ failed = [s \in Sandboxes |-> FALSE]
  /\ bridges = {}
  /\ veths = {}
  /\ peerMoved = {}
  /\ routes = {}
  /\ chains = [c \in ChainNames |-> <<>>]

-----------------------------------------------------------------------------
(* Control flow.                                                           *)

At(s, label) == alive[s] /\ pc[s] = label

GoTo(s, label) == pc' = [pc EXCEPT ![s] = label]

Fail(s) == failed' = [failed EXCEPT ![s] = TRUE]

\* An error return before anything was created: nothing to clean up.
ReturnError(s) ==
  /\ GoTo(s, "exited")
  /\ Fail(s)
  /\ UNCHANGED <<alive, ownedBridge, ownedVeth, firewall, index, hasState, hostVars>>

\* setupFailure: clean up what the state owns (it has no rules yet) and return
\* no state, so that nothing is torn down a second time.
SetupFailure(s) ==
  /\ GoTo(s, "vethDelete")
  /\ Fail(s)
  /\ UNCHANGED <<alive, ownedBridge, ownedVeth, firewall, index, hasState, hostVars>>

\* The deferred TeardownParentBridge: remove the rules from the last one on.
Teardown(s) ==
  /\ GoTo(s, "removeRules")
  /\ index' = [index EXCEPT ![s] = Len(firewall[s])]

-----------------------------------------------------------------------------
(* SetupParentBridge.                                                      *)

\* Prerequisites, BridgeConfig.Validate and the first reading of the routes.
PreCheck(s) ==
  /\ At(s, "preCheck")
  /\ \/ /\ \A r \in routes : ~Overlaps(r.prefix, Subnet[s])
        /\ GoTo(s, "bridgeAdd")
        /\ UNCHANGED <<alive, procVars, hostVars>>
     \/ ReturnError(s)

BridgeAdd(s) ==
  /\ At(s, "bridgeAdd")
  /\ \/ /\ bridges' = bridges \cup {s}
        /\ ownedBridge' = [ownedBridge EXCEPT ![s] = TRUE]
        /\ GoTo(s, "vethCreate")
        /\ UNCHANGED <<alive, ownedVeth, firewall, index, hasState, failed,
                       veths, peerMoved, routes, chains>>
     \/ ReturnError(s)

VethCreate(s) ==
  /\ At(s, "vethCreate")
  /\ \/ /\ veths' = veths \cup {s}
        /\ ownedVeth' = [ownedVeth EXCEPT ![s] = TRUE]
        /\ GoTo(s, "configureLinks")
        /\ UNCHANGED <<alive, ownedBridge, firewall, index, hasState, failed,
                       bridges, peerMoved, routes, chains>>
     \/ SetupFailure(s)

\* Master, MTU and up, for the bridge and for the host end of the pair.
ConfigureLinks(s) ==
  /\ At(s, "configureLinks")
  /\ \/ /\ s \in bridges
        /\ GoTo(s, "addrAdd")
        /\ UNCHANGED <<alive, procVars, hostVars>>
     \/ SetupFailure(s)

AddrAdd(s) ==
  /\ At(s, "addrAdd")
  /\ \/ /\ s \in bridges
        /\ routes' = routes \cup {LocalRoute(s)}
        /\ GoTo(s, "routeAdd")
        /\ UNCHANGED <<alive, procVars, bridges, veths, peerMoved, chains>>
     \/ SetupFailure(s)

\* `ip route add' refuses a prefix that is routed already, but not one that
\* contains or is contained in a routed one.
RouteAdd(s) ==
  /\ At(s, "routeAdd")
  /\ \/ /\ s \in bridges
        /\ \A r \in routes : r.prefix # Subnet[s]
        /\ routes' = routes \cup {SubnetRoute(s)}
        /\ GoTo(s, "postCheck")
        /\ UNCHANGED <<alive, procVars, bridges, veths, peerMoved, chains>>
     \/ SetupFailure(s)

\* Mutant: the second reading looks for the own route only.
PostCheckOwnOnly(s) ==
  /\ At(s, "postCheck")
  /\ \/ /\ SubnetRoute(s) \in routes
        /\ hasState' = [hasState EXCEPT ![s] = TRUE]
        /\ GoTo(s, "firewallAdd")
        /\ UNCHANGED <<alive, ownedBridge, ownedVeth, firewall, index, failed, hostVars>>
     \/ SetupFailure(s)

\* Mutant: it compares prefixes for equality instead of overlap.
PostCheckEqual(s) ==
  /\ At(s, "postCheck")
  /\ \/ /\ SubnetRoute(s) \in routes
        /\ \A r \in routes : r.dev # s => r.prefix # Subnet[s]
        /\ hasState' = [hasState EXCEPT ![s] = TRUE]
        /\ GoTo(s, "firewallAdd")
        /\ UNCHANGED <<alive, ownedBridge, ownedVeth, firewall, index, failed, hostVars>>
     \/ SetupFailure(s)

\* The second reading: the own route is there and no foreign one overlaps it.
PostCheck(s) ==
  /\ At(s, "postCheck")
  /\ \/ /\ SubnetRoute(s) \in routes
        /\ \A r \in routes : r.dev # s => ~Overlaps(r.prefix, Subnet[s])
        /\ hasState' = [hasState EXCEPT ![s] = TRUE]
        /\ GoTo(s, "firewallAdd")
        /\ UNCHANGED <<alive, ownedBridge, ownedVeth, firewall, index, failed, hostVars>>
     \/ SetupFailure(s)

-----------------------------------------------------------------------------
(* SetupFirewallForBridge and the rules it installs.                       *)

\* The chain each rule of firewallRules goes to.
RuleChain(k) ==
  CASE k \in {1, 2, 3, 5} -> "FORWARD"
    [] k = 4 -> "INPUT"
    [] k = 6 -> "POSTROUTING"

\* Mutant: `-A chain', behind all others.
InsertRuleLast(s, k) ==
  chains' = [chains EXCEPT ![RuleChain(k)] = Append(@, <<s, k>>)]

\* Mutant: the first two rules of the list are exchanged.
InsertRuleSwapped(s, k) ==
  LET r == IF k \in {1, 2} THEN 3 - k ELSE k IN
  chains' = [chains EXCEPT ![RuleChain(k)] = <<<<s, r>>>> \o @]

\* `-I chain 1' puts a rule before all others.
InsertRule(s, k) ==
  chains' = [chains EXCEPT ![RuleChain(k)] = <<<<s, k>>>> \o @]

\* `-D chain spec' removes the first rule with that specification.
DeleteRule(s, k) ==
  LET c == RuleChain(k) IN
  \E i \in DOMAIN chains[c] :
    /\ chains[c][i] = <<s, k>>
    /\ \A j \in 1 .. i - 1 : chains[c][j] # <<s, k>>
    /\ chains' = [chains EXCEPT ![c] = RemoveAt(@, i)]

FirewallAdd(s) ==
  /\ At(s, "firewallAdd")
  /\ LET k == Len(firewall[s]) + 1 IN
     \/ /\ InsertRule(s, k)
        /\ firewall' = [firewall EXCEPT ![s] = Append(@, k)]
        /\ GoTo(s, IF k = 6 THEN "moveVeth" ELSE "firewallAdd")
        /\ UNCHANGED <<alive, ownedBridge, ownedVeth, index, hasState, failed,
                       bridges, veths, peerMoved, routes>>
     \/ /\ Fail(s)
        /\ index' = [index EXCEPT ![s] = Len(firewall[s])]
        /\ GoTo(s, "rollback")
        /\ UNCHANGED <<alive, ownedBridge, ownedVeth, firewall, hasState, hostVars>>

\* Mutant: the loop runs once too often.
RemoveOneRuleTooMany(s) ==
  /\ index' = [index EXCEPT ![s] = @ - 1]
  /\ \/ /\ index[s] > 0
        /\ DeleteRule(s, firewall[s][index[s]])
        /\ firewall' = [firewall EXCEPT ![s] = RemoveAt(@, index[s])]
        /\ UNCHANGED failed
     \/ /\ Fail(s)
        /\ UNCHANGED <<firewall, chains>>
  /\ UNCHANGED <<pc, alive, ownedBridge, ownedVeth, hasState, bridges, veths, peerMoved, routes>>

\* Mutant: a rule that could not be deleted is forgotten without an error.
RemoveOneRuleForgets(s) ==
  /\ index[s] > 0
  /\ index' = [index EXCEPT ![s] = @ - 1]
  /\ DeleteRule(s, firewall[s][index[s]]) \/ UNCHANGED chains
  /\ firewall' = [firewall EXCEPT ![s] = RemoveAt(@, index[s])]
  /\ UNCHANGED <<pc, alive, ownedBridge, ownedVeth, hasState, failed, bridges, veths,
                 peerMoved, routes>>

\* One iteration of removeFirewallRulesLocked; a rule that cannot be deleted
\* stays in the state and is tried again by the next call.
RemoveOneRule(s) ==
  /\ index[s] > 0
  /\ index' = [index EXCEPT ![s] = @ - 1]
  /\ \/ /\ DeleteRule(s, firewall[s][index[s]])
        /\ firewall' = [firewall EXCEPT ![s] = RemoveAt(@, index[s])]
        /\ UNCHANGED failed
     \/ /\ Fail(s)
        /\ UNCHANGED <<firewall, chains>>
  /\ UNCHANGED <<pc, alive, ownedBridge, ownedVeth, hasState, bridges, veths, peerMoved, routes>>

\* After a failed insertion the rules are removed at once; Parent then returns
\* and its deferred teardown removes the ones that are left.
Rollback(s) ==
  /\ At(s, "rollback")
  /\ \/ RemoveOneRule(s)
     \/ /\ index[s] = 0
        /\ Teardown(s)
        /\ UNCHANGED <<alive, ownedBridge, ownedVeth, firewall, hasState, failed, hostVars>>

-----------------------------------------------------------------------------
(* The sandboxed program, and BridgeState.cleanup.                         *)

\* MoveVethToChild hands the peer to the namespace of the started child; every
\* failure of Parent from here on goes to the deferred teardown.
MoveVeth(s) ==
  /\ At(s, "moveVeth")
  /\ \/ /\ peerMoved' = peerMoved \cup {s}
        /\ GoTo(s, "running")
        /\ UNCHANGED <<alive, procVars, bridges, veths, routes, chains>>
     \/ /\ Teardown(s)
        /\ Fail(s)
        /\ UNCHANGED <<alive, ownedBridge, ownedVeth, firewall, hasState, hostVars>>

\* The child was reaped, with status zero or not.
ChildExit(s) ==
  /\ At(s, "running")
  /\ Teardown(s)
  /\ Fail(s) \/ UNCHANGED failed
  /\ UNCHANGED <<alive, ownedBridge, ownedVeth, firewall, hasState, hostVars>>

\* When the child is dead, reaped or not, the kernel destroys its namespace some
\* time later and the veth pair with it: the host end may vanish at any step.
KernelRemovesVeth(s) ==
  /\ s \in peerMoved \cap veths
  /\ veths' = veths \ {s}
  /\ UNCHANGED <<pc, alive, procVars, bridges, peerMoved, routes, chains>>

RemoveRules(s) ==
  /\ At(s, "removeRules")
  /\ \/ RemoveOneRule(s)
     \/ /\ index[s] = 0
        /\ GoTo(s, "vethDelete")
        /\ UNCHANGED <<alive, procVars, hostVars>>

\* cleanup skips a link the state does not own.  A delete command that fails is
\* followed by a look at the links that exist.
VethDelete(s) ==
  /\ At(s, "vethDelete")
  /\ \/ /\ ~ownedVeth[s]
        /\ GoTo(s, "bridgeDel")
        /\ UNCHANGED <<alive, procVars, hostVars>>
     \/ /\ ownedVeth[s] /\ s \in veths
        /\ veths' = veths \ {s}
        /\ ownedVeth' = [ownedVeth EXCEPT ![s] = FALSE]
        /\ GoTo(s, "bridgeDel")
        /\ UNCHANGED <<alive, ownedBridge, firewall, index, hasState, failed,
                       bridges, peerMoved, routes, chains>>
     \/ /\ ownedVeth[s]
        /\ GoTo(s, "vethInspect")
        /\ UNCHANGED <<alive, procVars, hostVars>>

VethInspect(s) ==
  /\ At(s, "vethInspect")
  /\ GoTo(s, "bridgeDel")
  /\ \/ /\ s \notin veths
        /\ ownedVeth' = [ownedVeth EXCEPT ![s] = FALSE]
        /\ UNCHANGED failed
     \/ /\ Fail(s)
        /\ UNCHANGED ownedVeth
  /\ UNCHANGED <<alive, ownedBridge, firewall, index, hasState, hostVars>>

\* A bridge that goes takes its address and its routes along.
RemoveBridge(s) ==
  /\ s \in bridges
  /\ bridges' = bridges \ {s}
  /\ routes' = {r \in routes : r.dev # s}

BridgeDel(s) ==
  /\ At(s, "bridgeDel") /\ ownedBridge[s]
  /\ \/ /\ RemoveBridge(s)
        /\ ownedBridge' = [ownedBridge EXCEPT ![s] = FALSE]
        /\ GoTo(s, "exited")
        /\ UNCHANGED <<alive, ownedVeth, firewall, index, hasState, failed,
                       veths, peerMoved, chains>>
     \/ /\ GoTo(s, "bridgeInspect")
        /\ UNCHANGED <<alive, procVars, hostVars>>

BridgeInspect(s) ==
  /\ At(s, "bridgeInspect")
  /\ GoTo(s, "exited")
  /\ \/ /\ s \notin bridges
        /\ ownedBridge' = [ownedBridge EXCEPT ![s] = FALSE]
        /\ UNCHANGED failed
     \/ /\ Fail(s)
        /\ UNCHANGED ownedBridge
  /\ UNCHANGED <<alive, ownedVeth, firewall, index, hasState, hostVars>>

-----------------------------------------------------------------------------
(* The environment.                                                        *)

\* SIGKILL or loss of the process: no deferred function runs.
Crash(s) ==
  /\ alive[s] /\ pc[s] # "exited"
  /\ alive' = [alive EXCEPT ![s] = FALSE]
  /\ UNCHANGED <<pc, procVars, hostVars>>

\* Somebody else may delete the bridge; cleanup accepts that it is gone.
HostRemovesBridge(s) ==
  /\ RemoveBridge(s)
  /\ UNCHANGED <<pc, alive, procVars, veths, peerMoved, chains>>

\* The host may get a route (a VPN, another bridge) at any time.
HostRouteAdd(p) ==
  /\ \A r \in routes : r.prefix # p
  /\ routes' = routes \cup {HostRoute(p)}
  /\ UNCHANGED <<pc, alive, procVars, bridges, veths, peerMoved, chains>>

Setup(s) ==
  \/ PreCheck(s) \/ BridgeAdd(s) \/ VethCreate(s) \/ ConfigureLinks(s)
  \/ AddrAdd(s) \/ RouteAdd(s) \/ PostCheck(s)
  \/ FirewallAdd(s) \/ Rollback(s) \/ MoveVeth(s)

Cleanup(s) ==
  \/ RemoveRules(s) \/ VethDelete(s) \/ VethInspect(s)
  \/ BridgeDel(s) \/ BridgeInspect(s)

Next ==
  \/ \E s \in Sandboxes :
       Setup(s) \/ ChildExit(s) \/ Cleanup(s) \/ Crash(s)
       \/ KernelRemovesVeth(s) \/ HostRemovesBridge(s)
  \/ \E p \in HostPrefixes : HostRouteAdd(p)

Spec == Init /\ [][Next]_vars

-----------------------------------------------------------------------------
(* Properties.                                                             *)

\* Every variable has its type: the process states of bridgeManager and
\* BridgeState, and the links, routes and chains of the host.
TypeOK ==
  /\ pc \in [Sandboxes -> Labels]
  /\ alive \in [Sandboxes -> BOOLEAN]
  /\ ownedBridge \in [Sandboxes -> BOOLEAN]
  /\ ownedVeth \in [Sandboxes -> BOOLEAN]
  /\ firewall \in [Sandboxes -> Seq(RuleIds)]
  /\ index \in [Sandboxes -> Nat]
  /\ hasState \in [Sandboxes -> BOOLEAN]
  /\ failed \in [Sandboxes -> BOOLEAN]
  /\ bridges \subseteq Sandboxes
  /\ veths \subseteq Sandboxes
  /\ peerMoved \subseteq Sandboxes
  /\ routes \subseteq Routes
  /\ chains \in [ChainNames -> Seq(Sandboxes \X RuleIds)]

\* s was given its subnet by SetupParentBridge and its bridge still carries it,
\* be its process alive or killed.
Holds(s) == hasState[s] /\ s \in bridges

\* Two sandboxes whose subnets overlap are never both admitted, although both
\* may have passed the first reading of the routes: the reading that follows
\* the own route decides (setupParentBridge).
SubnetExclusive ==
  \A s, t \in Sandboxes :
    s # t /\ Holds(s) /\ Holds(t) => ~Overlaps(Subnet[s], Subnet[t])

OnHost(s) ==
  \/ s \in bridges
  \/ s \in veths
  \/ \E r \in routes : r.dev = s
  \/ \E c \in ChainNames : \E i \in DOMAIN chains[c] : chains[c][i][1] = s

\* A run that reports success left nothing of its own on the host: no link, no
\* route and no rule, whichever deletions failed and whatever the kernel or
\* someone else removed first (cleanup, deleteOwnedLink, Parent's result).  A
\* set-up that failed never reports success, also when its rollback was made good
\* later, so what this is about is the clean-up of a run that went well.
NoLeakOnSuccess ==
  \A s \in Sandboxes : pc[s] = "exited" /\ ~failed[s] => ~OnHost(s)

\* The subnet lease this module implements.
Lease == INSTANCE SubnetLease WITH leases <- {s \in Sandboxes : Holds(s)}

\* Bridge setup with its unlocked check before and after is an atomic grant of
\* a subnet lease, and every other step keeps or releases leases.
ImplementsLease == Lease!LeaseSpec

-----------------------------------------------------------------------------
(* What the chains do to a packet.                                         *)

\* The match of each rule of firewallRules.
Matches(rule, p) ==
  LET s == rule[1] IN
  CASE rule[2] = 1 -> p.in = s
    [] rule[2] = 2 -> p.out = s /\ p.ct = "NEW"
    [] rule[2] = 3 -> p.out = s /\ p.ct = "ESTABLISHED"
    [] rule[2] = 4 -> p.in = s
    [] rule[2] = 5 -> p.in = s /\ p.linkLocal
    [] rule[2] = 6 -> p.src \in Subnet[s] /\ p.out # s

Target(k) ==
  CASE k \in {1, 3} -> "ACCEPT"
    [] k \in {2, 4, 5} -> "REJECT"
    [] k = 6 -> "MASQUERADE"

\* The first rule that matches decides.
Verdict(chain, p) ==
  LET hits == {i \in DOMAIN chain : Matches(chain[i], p)}
  IN  IF hits = {} THEN "NONE"
      ELSE Target(chain[CHOOSE i \in hits : \A j \in hits : i <= j][2])

Packet(in, out, ct, linkLocal, src) ==
  [in |-> in, out |-> out, ct |-> ct, linkLocal |-> linkLocal, src |-> src]

\* While the program of s can send, traffic between s and the uplink is decided
\* as firewallRules intends: new connections reach out, not in, answers pass,
\* link-local addresses and the host itself are refused, and what leaves is
\* masqueraded, however the rules of other sandboxes come and go around them.
UplinkPolicy ==
  \A s \in Sandboxes : pc[s] = "running" /\ alive[s] =>
    \A ct \in {"NEW", "ESTABLISHED"}, a \in Subnet[s] :
      /\ Verdict(chains["FORWARD"], Packet(s, HostDev, ct, FALSE, a)) = "ACCEPT"
      /\ Verdict(chains["FORWARD"], Packet(s, HostDev, ct, TRUE, a)) = "REJECT"
      /\ Verdict(chains["FORWARD"], Packet(HostDev, s, ct, FALSE, a))
           = IF ct = "NEW" THEN "REJECT" ELSE "ACCEPT"
      /\ Verdict(chains["INPUT"], Packet(s, HostDev, ct, FALSE, a)) = "REJECT"
      /\ Verdict(chains["POSTROUTING"], Packet(s, HostDev, ct, FALSE, a)) = "MASQUERADE"

\* Of two running sandboxes at most one can open connections to the other: the
\* one that installed its rules later, or neither when they installed them at
\* the same time.  So there is never a conversation that both may begin, and no
\* answer is refused to the one that may.
AtMostOneWay ==
  \A s, t \in Sandboxes :
    s # t /\ {pc[s], pc[t]} = {"running"} /\ alive[s] /\ alive[t] =>
      \A a \in Subnet[s], b \in Subnet[t] :
        /\ ~ /\ Verdict(chains["FORWARD"], Packet(s, t, "NEW", FALSE, a)) = "ACCEPT"
             /\ Verdict(chains["FORWARD"], Packet(t, s, "NEW", FALSE, b)) = "ACCEPT"
        /\ Verdict(chains["FORWARD"], Packet(s, t, "ESTABLISHED", FALSE, a)) = "ACCEPT"
=============================================================================
