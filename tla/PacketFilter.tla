---------------------------- MODULE PacketFilter ----------------------------
(***************************************************************************)
(* The guard's packet filters on the three desktop systems: the WFP        *)
(* filters of internal/netmode/wfp, the nftables chains of guard_linux.go  *)
(* and the pf rules of guard_darwin.go.  Each is written down the way the  *)
(* system evaluates it: weighted filters in layers, or the first rule that *)
(* matches.  What they are for is written once, without any order:         *)
(* MayLeave and MustPass.                                                  *)
(*                                                                         *)
(* A packet is one of a finite set of classes: which layer sees it, who    *)
(* sent it, through what (the tunnel, the loopback or a physical adapter), *)
(* to what kind of address, and which service it is.                       *)
(***************************************************************************)
EXTENDS Integers, Sequences, FiniteSets

VARIABLES
  up,     \* the guard is in force
  inforce,   \* the GuardSpec it was last put up with
  lost    \* WFP filters that have vanished since they were installed

filterVars == <<up, inforce, lost>>

-----------------------------------------------------------------------------
(* Packets and guard specifications *)

Lan == {"private", "linklocal", "mcast", "bcast", "fake"}   \* fake: the v6 fake-ip range, inside fc00::/7
Peers(fam) ==                       \* azure: 168.63.129.16, a cloud platform's public address
  {"private", "mcast", "cn", "world"} \cup (IF fam = 4 THEN {"bcast", "azure"} ELSE {"fake"})

DnsPorts == {"dns", "dot"}              \* 53, 853
UpnpOut == {"ssdp", "natpmp"}           \* 1900, 5351

Packets ==
  {p \in [layer : {"out"}, fam : {4, 6}, via : {"phys", "tun", "lo"},
          from : {"core", "exe", "root", "user", "resolved", "routed"},
          peer : Peers(4) \cup Peers(6), reply : BOOLEAN,
          svc : {"web", "game", "dns", "dot", "ssdp", "natpmp", "dhcp", "dhcpd", "rs", "ns"}] :
     /\ p.peer \in Peers(p.fam)
     /\ p.reply => p.svc = "web"
     /\ p.svc = "dhcpd" => p.fam = 4
     /\ p.svc \in {"rs", "ns"} => p.fam = 6 /\ p.from = "user"
     /\ p.from \in {"routed", "resolved"} => p.svc \in {"web", "game", "dns"}
     /\ p.via = "lo" => p.from = "user" /\ p.peer = "private" /\ p.svc \in {"web", "dns"}}
  \cup
  {p \in [layer : {"in"}, fam : {4, 6}, via : {"phys", "tun"}, from : {"core", "user"},
          peer : {"private", "linklocal", "cn", "world"}, reply : {FALSE},
          svc : {"web", "ssdp", "dhcp", "dhcpd", "dnsd", "ra", "ns"}] :
     /\ p.svc \in {"dhcpd", "dnsd"} => p.fam = 4
     /\ p.svc \in {"ra", "ns"} => p.fam = 6}
  \cup
  {p \in [layer : {"fwd"}, fam : {4, 6}, via : {"phys", "tun"},
          from : {"device", "blocked", "free"}, peer : Peers(4) \cup Peers(6),
          reply : BOOLEAN, svc : {"web", "game", "dns"}] :
     p.peer \in Peers(p.fam) /\ (p.reply => p.svc = "web")}

Specs ==
  [lan : BOOLEAN, rule : BOOLEAN, gateway : BOOLEAN, sealdns : BOOLEAN,
   direct : {{}, {"cn"}, {"cn", "private"}}, ports : {{}, {"game"}, {"game", "dns"}}]

(* The global mode's specification carries nothing of the rules.           *)
GuardSpecs == {s \in Specs : ~s.rule => s.direct = {} /\ s.ports = {}}

-----------------------------------------------------------------------------
(* Windows: weighted filters *)

Filter(name, layer, w, act, veto) ==
  [name |-> name, layer |-> layer, w |-> w, act |-> act, veto |-> veto]

Both(name, w, act, veto) == {Filter(name, l, w, act, veto) : l \in {"out", "in"}}

(* What a filter's conditions match.                                       *)
permitSelf(p) == p.from = "core"
permitLAN(p) == p.peer \in Lan
permitDHCPIPv4(p) == p.fam = 4 /\ p.svc = "dhcp" /\ (p.layer = "out" => p.peer = "bcast")
permitDHCPIPv6(p) ==
  p.fam = 6 /\ p.svc = "dhcp" /\ p.peer = (IF p.layer = "out" THEN "mcast" ELSE "linklocal")
routerSolicitOrAdvert(p) ==
  (p.svc = "rs" /\ p.peer = "mcast") \/ (p.svc = "ra" /\ p.peer = "linklocal")
neighborSolicitOrAdvert(p) == p.svc = "ns"
permitNdp(p) == routerSolicitOrAdvert(p) \/ neighborSolicitOrAdvert(p)
\* mutant: the DHCP server answers whoever asks
FaultypermitHotspot(p) ==
  p.fam = 4 /\ (p.svc = "dhcpd" \/ (p.svc = "dnsd" /\ p.peer = "private"))
permitHotspot(p) ==
  /\ p.fam = 4
  /\ \/ p.svc = "dhcpd" /\ (p.layer = "out" => p.peer \in {"private", "bcast"})
     \/ p.svc = "dnsd" /\ p.peer = "private"
blockUPnP(p) == p.svc \in UpnpOut
blockFakeIP6(p) == p.fam = 6 /\ p.peer = "fake"
permitTunAddress(p) == p.via = "tun"
permitLoopback(p) == p.via = "lo"

Matches(f, s, p) ==
  /\ f.layer = p.layer
  /\ CASE f.name = "self"   -> permitSelf(p)
       [] f.name = "lo"     -> permitLoopback(p)
       [] f.name = "tun"    -> permitTunAddress(p)
       [] f.name = "dns"    -> p.svc \in DnsPorts
       [] f.name = "upnp"   -> blockUPnP(p)
       [] f.name = "fake6"  -> blockFakeIP6(p)
       [] f.name = "lan"    -> permitLAN(p)
       [] f.name = "dhcp"   -> permitDHCPIPv4(p) \/ permitDHCPIPv6(p)
       [] f.name = "ndp"    -> permitNdp(p)
       [] f.name = "hotspot" -> permitHotspot(p)
       [] f.name = "ports"  -> p.svc \in s.ports
       [] f.name = "ruledns" -> p.svc = "dns"
       [] f.name = "direct" -> p.peer \in s.direct
       [] OTHER             -> TRUE                 \* "inbound", "all": no condition

permitDirect(layer) == {Filter("direct", layer, 10, "permit", FALSE)}
permitRuleDNS == {Filter("ruledns", "out", 10, "permit", FALSE)}
permitInbound == {Filter("inbound", "in", 10, "permit", FALSE)}
blockTunnelPorts(veto) == {Filter("ports", "out", 11, "block", veto)}
blockDNS(w, veto) == {Filter("dns", "out", w, "block", veto)}
blockAll(veto) == Both("all", 0, "block", veto)
blockForward == {Filter("all", "fwd", 0, "block", FALSE)}
permitForwardLAN == {Filter("lan", "fwd", 12, "permit", FALSE)}
permitForwardTun == {Filter("tun", "fwd", 12, "permit", FALSE)}

(* The forwarding layer.  The filters for the tunnel's own adapter are     *)
(* there while the adapter is (TunUp, TunDown).                            *)
installForward(s, running) ==
  blockForward
  \cup (IF s.lan THEN permitForwardLAN ELSE {})
  \cup (IF running THEN permitForwardTun ELSE {})
  \cup (IF s.rule /\ running THEN permitDirect("fwd") ELSE {})

(* installSet(session, spec, withSelf, withForward): withSelf is the       *)
(* persistent set; the other is in force from boot until BFE runs.         *)
installSet(s, withSelf) ==
  LET rule == s.rule /\ withSelf
      leak == IF rule THEN 9 ELSE 13
  IN (IF withSelf THEN Both("self", 15, "permit", FALSE) ELSE {})
     \cup Both("lo", 14, "permit", FALSE)
     \cup Both("tun", 14, "permit", FALSE)
     \cup blockDNS(leak, withSelf)
     \cup Both("upnp", leak, "block", withSelf)
     \cup {Filter("fake6", "out", 13, "block", withSelf)}
     \cup (IF s.lan THEN Both("lan", 12, "permit", FALSE) ELSE {})
     \cup Both("dhcp", 12, "permit", FALSE)
     \cup Both("ndp", 12, "permit", FALSE)
     \cup Both("hotspot", 12, "permit", FALSE)
     \cup (IF rule THEN blockTunnelPorts(withSelf) \cup permitRuleDNS
                            \cup permitDirect("out") \cup permitInbound ELSE {})
     \cup blockAll(withSelf)

WfpSet(s, withSelf) == installSet(s, withSelf) \cup installForward(s, withSelf)

(* Our sublayer's verdict is the heaviest match's.  While the tunnel runs, *)
(* the kernel library permits its own executable in a sublayer of the same *)
(* weight: only a block that clears the action right outranks that.        *)
WfpPasses(filters, s, p) ==
  LET hits == {f \in filters : Matches(f, s, p)}
      top == {f \in hits : \A g \in hits : g.w <= f.w}
  IN \/ hits = {}
     \/ \E f \in top : f.act = "permit"
     \/ p.from \in {"core", "exe"} /\ p.layer = "out" /\ \E f \in top : ~f.veto

(* guardCovers: a block without conditions in every layer, and the named   *)
(* blocks in theirs.                                                       *)
guardCovers(filters) ==
  LET blocks(n) == {f.layer : f \in {g \in filters : g.name = n /\ g.act = "block"}}
  IN /\ blocks("all") = {"out", "in", "fwd"}
     /\ blocks("dns") = {"out"} /\ blocks("upnp") = {"out", "in"} /\ blocks("fake6") = {"out"}

-----------------------------------------------------------------------------
(* Linux and macOS: the first rule that matches *)

(* A rule that is not written for this spec is one that never matches.     *)
Rule(match, act) == [match |-> match, act |-> act]

FirstMatch(rules) ==
  LET hits == {i \in 1..Len(rules) : rules[i].match}
  IN IF hits = {} THEN "accept"
     ELSE rules[CHOOSE i \in hits : \A j \in hits : i <= j].act

Root(p) == p.from \in {"core", "root"}
LinuxTun(s, p) == p.via = "tun" /\ (p.from = "routed" => ~s.gateway)

ruleAllow(s, p, forward) ==
  <<Rule(s.rule /\ forward /\ p.from = "blocked", "drop"),
    Rule(s.rule /\ forward /\ p.from = "free", "accept"),
    Rule(s.rule /\ p.svc \in s.ports, "drop"),
    Rule(s.rule /\ ~forward /\ ~s.gateway /\ p.from = "resolved" /\ p.svc = "dns", "drop"),
    Rule(s.rule /\ p.svc = "dns", "accept"),
    Rule(s.rule /\ p.peer \in s.direct, "accept")>>

fakeDrop(p) == p.fam = 6 /\ p.peer = "fake"

outputChain(s, p) ==
  <<Rule(p.via = "lo", "accept"),
    Rule(LinuxTun(s, p), "accept"),
    Rule(p.from = "core", "accept"),
    Rule(s.gateway /\ p.from = "routed", "accept"),
    Rule(p.reply /\ (s.rule \/ Root(p)), "accept"),
    Rule(Root(p) /\ p.svc = "dhcp" /\ p.fam = 4, "accept"),
    Rule(~s.rule /\ s.sealdns /\ p.svc \in DnsPorts, "drop"),
    Rule(~s.rule /\ p.svc \in UpnpOut, "drop"),
    Rule(fakeDrop(p), "drop"),
    Rule(s.lan /\ p.peer \in Lan, "accept"),
    Rule(s.lan /\ Root(p) /\ p.peer = "azure", "accept")>>
  \o ruleAllow(s, p, FALSE) \o
  <<Rule(p.fam = 4 /\ p.svc = "dhcp" /\ p.peer = "bcast", "accept"),
    Rule(p.svc \in {"rs", "ra", "ns"}, "accept"),
    Rule(TRUE, "drop")>>

forwardChain(s, p) ==
  <<Rule(p.via = "tun", "accept"),
    Rule(s.rule /\ p.reply, "accept"),
    Rule(~s.rule /\ s.sealdns /\ p.svc \in DnsPorts, "drop"),
    Rule(s.lan /\ fakeDrop(p), "drop"),
    Rule(s.lan /\ p.peer \in Lan, "accept")>>
  \o ruleAllow(s, p, TRUE) \o <<Rule(TRUE, "drop")>>

(* In gateway mode the output chain sees a redirected packet before it is  *)
(* rerouted; the postrouting chain sees where it really goes.              *)
postrouting(s, p) ==
  IF s.gateway /\ p.from = "routed" /\ p.via # "tun" THEN "drop" ELSE "accept"

NftPasses(s, p) ==
  CASE p.layer = "out" -> FirstMatch(outputChain(s, p)) = "accept" /\ postrouting(s, p) = "accept"
    [] p.layer = "fwd" -> FirstMatch(forwardChain(s, p)) = "accept"
    [] OTHER -> TRUE

(* pf: outgoing rules only.  "no state" rules and the inbound rule let     *)
(* both directions of a connection through.                                *)
guardRules(s, p) ==
  <<Rule(p.via = "lo", "accept"),
    Rule(Root(p), "accept"),
    Rule(p.via = "tun", "accept"),
    Rule(s.rule /\ p.reply, "accept"),
    Rule(~s.rule /\ p.svc \in DnsPorts, "drop"),
    Rule(~s.rule /\ p.svc \in UpnpOut, "drop"),
    Rule(fakeDrop(p), "drop"),
    Rule(s.lan /\ p.peer \in Lan, "accept"),
    Rule(s.rule /\ p.svc \in s.ports, "drop"),
    Rule(s.rule /\ p.svc = "dns", "accept"),
    Rule(s.rule /\ p.peer \in s.direct, "accept"),
    Rule(p.fam = 4 /\ p.svc = "dhcp" /\ p.peer = "bcast", "accept"),
    Rule(p.svc \in {"rs", "ra", "ns"}, "accept"),
    Rule(TRUE, "drop")>>

PfPasses(s, p) == p.layer = "out" => FirstMatch(guardRules(s, p)) = "accept"

-----------------------------------------------------------------------------
(* The guard is put up, changed or taken down, or a WFP filter vanishes *)

FilterInit ==
  /\ up = FALSE /\ lost = {}
  /\ inforce = [lan |-> FALSE, rule |-> FALSE, gateway |-> FALSE, sealdns |-> FALSE,
             direct |-> {}, ports |-> {}]

\* mutant: the filters of the old specification stay in the count of the lost ones
FaultyReapply(s) == up' = TRUE /\ inforce' = s /\ UNCHANGED lost

(* ApplyGuard replaces the whole set in one transaction.                   *)
Reapply(s) == up' = TRUE /\ inforce' = s /\ lost' = {}

ClearGuard == up /\ up' = FALSE /\ lost' = {} /\ UNCHANGED inforce

(* External: another program deletes one of our filters.                   *)
Lose(f) == up /\ lost = {} /\ ~inforce.rule /\ ~inforce.gateway /\ lost' = {f} /\ UNCHANGED <<up, inforce>>

FilterNext ==
  \/ \E s \in GuardSpecs : Reapply(s)
  \/ ClearGuard
  \/ \E f \in WfpSet(inforce, TRUE) : Lose(f)

FilterSpec == FilterInit /\ [][FilterNext]_filterVars

FilterTypeOK == up \in BOOLEAN /\ inforce \in GuardSpecs /\ lost \subseteq WfpSet(inforce, TRUE)

-----------------------------------------------------------------------------
(* The contract *)

Leaks(os, s) == (IF os = "linux" /\ ~s.sealdns THEN {} ELSE DnsPorts) \cup UpnpOut

(* What may leave through a physical adapter, whatever the tunnel does.    *)
MayLeave(os, s, p) ==
  \/ p.from = "core"
  \/ os = "macos" /\ p.from = "root"                     \* pf cannot tell root's processes apart
  \/ /\ s.lan /\ (~s.rule => p.svc \notin Leaks(os, s))
     /\ \/ p.peer \in Lan \ {"fake"}
        \/ os = "linux" /\ p.from = "root" /\ p.peer = "azure"   \* the platform's guest agent
  \/ p.svc = "dhcp" /\ (p.peer \in {"bcast", "mcast"} \/ (os = "linux" /\ p.from = "root"))
  \/ p.svc \in {"rs", "ns"}
  \/ p.svc = "dhcpd" /\ p.peer \in Lan
  \/ p.reply /\ (s.rule \/ p.from = "root")
  \/ s.rule /\ p.svc \notin s.ports /\ (p.svc = "dns" \/ p.peer \in s.direct) /\ p.peer # "fake"

(* The same for what is forwarded for other devices.  The WFP forwarding   *)
(* layer knows no ports and no devices (rules_forward.go).                 *)
MayForward(os, s, p) ==
  \/ s.lan /\ p.peer \in Lan
  \/ p.reply /\ s.rule
  \/ s.rule /\ os = "windows" /\ p.peer \in s.direct
  \/ s.rule /\ p.from = "free"
  \/ s.rule /\ p.from = "device" /\ p.svc \notin s.ports /\ (p.svc = "dns" \/ p.peer \in s.direct)

Passes(os, s, filters, p) ==
  CASE os = "windows" -> WfpPasses(filters, s, p)
    [] os = "linux" -> NftPasses(s, p)
    [] os = "macos" -> PfPasses(s, p)

Systems == {"windows", "linux", "macos"}

Physical(layer) == {p \in Packets : p.layer = layer /\ p.via = "phys"}

(* Of the sealed guard: the service's own connections, the local network   *)
(* without DNS and UPnP (on Linux with it the cloud platform's address,    *)
(* for root alone), and what keeps the adapter configured; of the rule     *)
(* guard also what the rules send direct.  pf does not filter what is      *)
(* forwarded.                                                              *)
NothingElseLeaves ==
  LET filters == WfpSet(inforce, TRUE)
  IN \A os \in Systems :
       /\ \A p \in Physical("out") : Passes(os, inforce, filters, p) => MayLeave(os, inforce, p)
       /\ os # "macos" =>
            \A p \in Physical("fwd") : Passes(os, inforce, filters, p) => MayForward(os, inforce, p)

(* The set in force before BFE runs lets out no more than the sealed guard *)
(* does, and less: no process is trusted and no rule applies.              *)
BootIsSealed ==
  LET sealed == [inforce EXCEPT !.rule = FALSE, !.direct = {}, !.ports = {}]
      boot == WfpSet(inforce, FALSE)
      full == WfpSet(sealed, TRUE)
  IN \A p \in Packets :
       p.via = "phys" /\ p.from # "exe" /\ WfpPasses(boot, inforce, p) =>
         p.from = "core" \/ WfpPasses(full, sealed, p)

(* On no system does a packet get out through a physical adapter unless    *)
(* the guard is meant to let it, while it is in force and in the seconds   *)
(* of a boot before it is.                                                 *)
NothingEscapes == up /\ lost = {} => NothingElseLeaves /\ BootIsSealed

(* What has to work under the guard works on every system: the tunnel, the *)
(* service's own connections, an allowed local network, and in rule mode   *)
(* what the rules send direct and anybody who connects to this computer;   *)
(* on Linux the cloud platform's agent.                                    *)
WantedPasses ==
  up /\ lost = {} =>
    LET filters == WfpSet(inforce, TRUE)
    IN \A p \in Packets :
         /\ (\/ p.via = "lo" /\ p.layer = "out"
             \/ p.via = "tun" /\ p.layer = "out" /\ (p.from = "routed" => inforce.gateway)
             \/ p.from = "core" /\ p.layer = "out"
             \/ p.layer = "out" /\ inforce.lan /\ p.peer \in Lan \ {"fake"}
                  /\ p.svc \in {"web", "game"} /\ p.from \in {"exe", "root", "user"}
             \/ p.layer = "out" /\ p.from = "user" /\ inforce.rule
                  /\ p.svc \in {"web", "game"} \ inforce.ports /\ p.peer \in inforce.direct
             \/ p.layer = "in" /\ inforce.rule /\ p.svc = "web")
            => \A os \in Systems : Passes(os, inforce, filters, p)
         /\ p.layer = "out" /\ p.from = "root" /\ p.peer = "azure" /\ p.svc = "web" /\ inforce.lan
            => NftPasses(inforce, p)

(* A sealed guard that lost a filter and still counts as complete          *)
(* (PersistentGuardReady) lets nothing more out: what is lost is noticed,  *)
(* or it was a permit.                                                     *)
LossIsNoticed ==
  LET full == WfpSet(inforce, TRUE)
      left == full \ lost
  IN lost # {} /\ guardCovers(left) =>
       \A p \in Packets : WfpPasses(left, inforce, p) => WfpPasses(full, inforce, p)

(* What the filter lets through is what it is meant to, all of that, and   *)
(* what is lost of it is noticed.                                          *)
FilterIsRight == NothingEscapes /\ WantedPasses /\ LossIsNoticed
=============================================================================
