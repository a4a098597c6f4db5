---------------------------- MODULE NetworkRules -----------------------------
(***************************************************************************)
(* The network of a sandbox on Linux: what apply_network_rules does in     *)
(* pasta's namespace before it runs the program, the ruleset nftables.py   *)
(* writes, and the traffic of the program under it.                        *)
(*                                                                         *)
(* A flow is the tuple the program sees: the port inside, the address and  *)
(* the port it talks to.  Connection tracking knows a flow by who opened   *)
(* it and whether the other side has spoken since.  The kernel and pasta   *)
(* are external, modelled from what the ruleset says of them.              *)
(***************************************************************************)
EXTENDS Naturals, FiniteSets

CONSTANTS
  Ports,      \* the ports that occur
  ProxyPort,  \* the port the proxy reported
  Builds,     \* the settings the sandbox may be built with
  MaxFlows    \* bounds the flows tracked at once

(* allowed is allowedHostPorts, null being all of Ports; published the     *)
(* publishedPorts whose bindAddr a peer on the network can reach.          *)
ASSUME BuildsAssumption ==
  Builds \subseteq [restricted : BOOLEAN, allowed : SUBSET Ports,
                    published : SUBSET Ports, unix : BOOLEAN]

VARIABLES
  build,     \* this sandbox's settings
  stage,     \* where apply_network_rules is
  localnet,  \* route_localnet
  ipv6,      \* has eth0 an IPv6 address?
  loaded,    \* is the ruleset in the kernel?
  fd3,       \* SECCOMP_FD: shut, open, or open and inherited by exec
  ct         \* connection tracking, for each flow

networkVars == <<build, stage, localnet, ipv6, loaded, fd3, ct>>

(* 127.0.0.1, the namespace's own address, pasta's gateway (the host), and *)
(* what lies beyond, by IPv4 and by IPv6.                                  *)
Addresses == {"lo", "self", "gateway", "remote", "v6"}
Flows == [proto : {"tcp", "udp"}, port : Ports, addr : Addresses, peer : Ports]
Tracked == {"none", "out", "outEst", "in", "inEst"}
Stages == {"started", "configured", "filtered", "sealed", "running", "failed"}

TypeOK ==
  /\ build \in Builds
  /\ stage \in Stages
  /\ localnet \in BOOLEAN /\ ipv6 \in BOOLEAN /\ loaded \in BOOLEAN
  /\ fd3 \in {"shut", "open", "inherited"}
  /\ ct \in [Flows -> Tracked]

NetworkInit ==
  /\ build \in Builds
  /\ stage = "started"
  /\ localnet = FALSE
  /\ ipv6 \in BOOLEAN
  /\ loaded = FALSE
  /\ fd3 = "shut"
  /\ ct = [f \in Flows |-> "none"]

-----------------------------------------------------------------------------
(* get_nft_rules.  Rules that differ only in their port stand together in  *)
(* the ruleset and are one rule here, with the set of their ports.         *)

HostPort(f) == f.proto = "tcp" /\ f.peer \in build.allowed

(* The nat chain: of the flow's first packet, before the filter chain.     *)
Dnat(f) == f.addr = "lo" /\ HostPort(f)
Daddr(f) == IF Dnat(f) THEN "gateway" ELSE f.addr

(* postrouting: pasta must see the namespace's address as the source.      *)
Masquerade(f) == Dnat(f)
Saddr(f) == IF f.addr = "lo" /\ ~Masquerade(f) THEN "lo" ELSE "self"

Rule(match, verdict) == [match |-> match, verdict |-> verdict]

(* ct state established, of a packet the program sends.                    *)
Established(f) == ct[f] \in {"in", "inEst", "outEst"}

OifLo(oif) == Rule(oif = "lo", "accept")
Replies(f) ==
  Rule(f.proto = "tcp" /\ f.port \in build.published /\ Established(f), "accept")
ToProxy(f) ==
  Rule(Daddr(f) = "gateway" /\ f.proto = "tcp" /\ f.peer = ProxyPort, "accept")
ToHostPort(f) == Rule(Daddr(f) = "gateway" /\ HostPort(f), "accept")
ToGateway(f) == Rule(Daddr(f) = "gateway", "drop")

(* Slip: the replies of a published port accepted without their state.     *)
FilterChainStateless(f, oif) ==
  IF build.restricted
    THEN <<OifLo(oif),
           Rule(f.proto = "tcp" /\ f.port \in build.published, "accept"),
           ToProxy(f), ToHostPort(f)>>
    ELSE <<ToHostPort(f), ToGateway(f)>>

FilterChain(f, oif) ==
  IF build.restricted
    THEN <<OifLo(oif), Replies(f), ToProxy(f), ToHostPort(f)>>
    ELSE <<ToHostPort(f), ToGateway(f)>>

Policy == IF build.restricted THEN "drop" ELSE "accept"

(* The first rule that matches decides, and the policy if none does.       *)
Accepts(rules, policy) ==
  \/ \E i \in DOMAIN rules :
       /\ rules[i].match /\ rules[i].verdict = "accept"
       /\ \A j \in DOMAIN rules : j < i => ~rules[j].match
  \/ policy = "accept" /\ \A i \in DOMAIN rules : ~rules[i].match

(* The interface was chosen before the translation, and a kernel may or    *)
(* may not look it up again: nothing here depends on which.                *)
Oif(f) ==
  CASE f.addr = "self" -> {"lo"}
    [] f.addr = "lo" -> IF Dnat(f) THEN {"lo", "eth0"} ELSE {"lo"}
    [] OTHER -> {"eth0"}

(* A packet from 127.0.0.1 is routed off the loopback only where           *)
(* route_localnet is set.  The table is of family ip: IPv6 passes it by.   *)
Passes(f, oif) ==
  IF f.addr = "v6" THEN ipv6
  ELSE /\ loaded => Accepts(FilterChain(f, oif), Policy)
       /\ Dnat(f) => localnet

Leaves(f) ==
  Daddr(f) \notin {"lo", "self"} /\ \E oif \in Oif(f) : Passes(f, oif)

-----------------------------------------------------------------------------
(* apply_network_rules: each step may fail, and the failure ends the       *)
(* launch with nothing run.                                                *)

Step(from, to) == stage = from /\ stage' = to

Fail ==
  /\ stage \in {"started", "configured", "filtered"}
  /\ stage' = "failed"
  /\ UNCHANGED <<build, localnet, ipv6, loaded, fd3, ct>>

(* compute_launch_config asks for route_localnet where there is any DNAT.   *)
NeedsLocalnet == build.allowed # {}

(* Slip: route_localnet left at its default.                               *)
WriteIPv6Only ==
  /\ Step("started", "configured")
  /\ ipv6' = FALSE
  /\ UNCHANGED <<build, localnet, loaded, fd3, ct>>

WriteSysctls ==
  /\ Step("started", "configured")
  /\ localnet' = (localnet \/ NeedsLocalnet)
  /\ ipv6' = FALSE
  /\ UNCHANGED <<build, loaded, fd3, ct>>

LoadRules ==
  /\ Step("configured", "filtered")
  /\ loaded' = TRUE
  /\ UNCHANGED <<build, localnet, ipv6, fd3, ct>>

(* The filter's descriptor ends up as SECCOMP_FD, whichever number open    *)
(* gave it, and is made inheritable.                                       *)
OpenFilter ==
  /\ Step("filtered", "sealed")
  /\ fd3' = IF build.unix THEN fd3 ELSE "inherited"
  /\ UNCHANGED <<build, localnet, ipv6, loaded, ct>>

(* bubblewrap stops if --seccomp names a descriptor that is not open.      *)
Exec ==
  /\ Step("sealed", IF build.unix \/ fd3 = "inherited" THEN "running"
                                                       ELSE "failed")
  /\ UNCHANGED <<build, localnet, ipv6, loaded, fd3, ct>>

-----------------------------------------------------------------------------
(* The traffic.                                                            *)

MayTrack(f) ==
  ct[f] # "none" \/ Cardinality({g \in Flows : ct[g] # "none"}) < MaxFlows

(* The program sends what it likes; a packet that is dropped leaves no     *)
(* trace in connection tracking.                                           *)
Send(f) ==
  /\ stage = "running"
  /\ MayTrack(f)
  /\ Leaves(f)
  /\ ct' = [ct EXCEPT ![f] = CASE @ = "none" -> "out"
                               [] @ = "in"   -> "inEst"
                               [] OTHER      -> @]
  /\ UNCHANGED <<build, stage, localnet, ipv6, loaded, fd3>>

(* The peer's answer finds its way to a source it can see.                 *)
Answer(f) ==
  /\ ct[f] = "out"
  /\ Saddr(f) = "self"
  /\ ct' = [ct EXCEPT ![f] = "outEst"]
  /\ UNCHANGED <<build, stage, localnet, ipv6, loaded, fd3>>

(* A peer calls a published port: pasta's -t forwards, and no other.       *)
CallIn(f) ==
  /\ stage = "running"
  /\ f.proto = "tcp" /\ f.addr = "remote" /\ f.port \in build.published
  /\ ct[f] = "none"
  /\ MayTrack(f)
  /\ ct' = [ct EXCEPT ![f] = "in"]
  /\ UNCHANGED <<build, stage, localnet, ipv6, loaded, fd3>>

(* The connection ends, or its entry times out.                            *)
Forget(f) ==
  /\ ct[f] # "none"
  /\ ct' = [ct EXCEPT ![f] = "none"]
  /\ UNCHANGED <<build, stage, localnet, ipv6, loaded, fd3>>

BootNext == Fail \/ WriteSysctls \/ LoadRules \/ OpenFilter \/ Exec

NetworkNext ==
  \/ BootNext
  \/ \E f \in Flows : Send(f) \/ Answer(f) \/ CallIn(f) \/ Forget(f)

NetworkSpec == NetworkInit /\ [][NetworkNext]_networkVars

-----------------------------------------------------------------------------
(* What the program may open: in restricted mode the proxy and the allowed *)
(* host ports, in open mode anything but the host's other services.        *)
Permitted(f) ==
  \/ Daddr(f) = "gateway" /\ HostPort(f)
  \/ IF build.restricted
       THEN Daddr(f) = "gateway" /\ f.proto = "tcp" /\ f.peer = ProxyPort
       ELSE Daddr(f) = "remote"

(* Whatever the program sends, from whichever port, and whoever has called *)
(* in before: a flow that reaches the outside was permitted or was opened  *)
(* by a peer of a published port.  "ct state established keeps this from   *)
(* widening egress" (nftables.py:38-40), and no step of the boot that      *)
(* fails lets the program run unfiltered (apply_network_rules.py:1-3).     *)
EgressWithinPolicy ==
  \A f \in Flows :
    /\ ct[f] \in {"out", "outEst"} => Permitted(f)
    /\ ct[f] \in {"in", "inEst"} => f.port \in build.published

Granted(f) ==
  \/ f.addr \in {"lo", "gateway"} /\ HostPort(f)
  \/ /\ build.restricted
     /\ f.addr = "gateway" /\ f.proto = "tcp" /\ f.peer = ProxyPort
  \/ ct[f] \in {"in", "inEst"}

(* What is granted works: a program that runs gets through to the proxy    *)
(* and, by 127.0.0.1 as by the gateway, to the allowed host ports, from a  *)
(* source they can answer; and a caller of a published port is answered.   *)
(* The sysctls, both nat rules and the order of the filter's rules each    *)
(* have a part in it (nftables.py:47-78, compute.py:288-294).              *)
GrantedPasses ==
  stage = "running" =>
    \A f \in Flows :
      Granted(f) => Saddr(f) = "self" /\ \A oif \in Oif(f) : Passes(f, oif)

=============================================================================
