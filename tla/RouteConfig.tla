----------------------------- MODULE RouteConfig -----------------------------
(***************************************************************************)
(* The configuration the daemon renders for the core (internal/builder):   *)
(* its routing rules and its DNS rules, first match wins, and the folding  *)
(* of the same settings into what the firewall lets through while the core *)
(* is down (guardrules.go).  On top of it the daemon's decision which      *)
(* change of settings the running core takes over by switching its Clash   *)
(* mode, and which needs a configuration rendered anew.                    *)
(*                                                                         *)
(* A destination is one of a few classes of addresses, reached by literal  *)
(* address or by name; a group of rules is an outbound and the kinds of    *)
(* conditions it holds.                                                    *)
(***************************************************************************)
EXTENDS Integers, Sequences, FiniteSets, SequencesExt

CONSTANTS
  Lists,     \* the lists of rule groups there may be
  Starts,    \* the settings a behaviour starts with
  Families,  \* sets of settings: a behaviour changes them within one of these
  Onwards    \* TRUE: any of them also while an older configuration is kept; FALSE:
             \* then only the mode

VARIABLES
  saved,      \* the settings file
  built,      \* the settings the running configuration was rendered from
  clash,      \* the Clash mode of the running core
  kept        \* an older configuration was kept because the new one could not be prepared

routeVars == <<saved, built, clash, kept>>

Addrs == {"lan", "mixed", "cn", "cnpart", "ads", "special", "world", "node", "fake"}
AddrFams == Addrs \X {4, 6}

(* A group's conditions: what each kind of them matches.                   *)
Covers(kind) ==
  CASE kind = "ip" -> {"cnpart", "special"}       [] kind = "geoip" -> {"special", "world"}
    [] kind = "domain" -> {"cnpart", "world"}     [] kind = "geosite" -> {"cn", "special"}
    [] OTHER -> {}

Group(on, out, conds) == [on |-> on, out |-> out, conds |-> conds]
RuleGroups ==
  [on : BOOLEAN, out : {"direct", "proxy", "reject"},
   conds : SUBSET {"ip", "geoip", "domain", "geosite", "port", "process"}]

RouteSettings ==
  [mode : {"rule", "global", "direct"}, noDirect : BOOLEAN, lan : BOOLEAN, ipv6 : BOOLEAN,
   private : {"direct", "proxy", "reject"}, cn : {"direct", "proxy", "reject"}, final : {"direct", "proxy"},
   ads : BOOLEAN, gateway : BOOLEAN, bypass : BOOLEAN, groups : Lists,
   \* not settings, but what the builder is given with them: the rule sets at hand, its own executable's name
   sets : BOOLEAN, self : BOOLEAN]

ASSUME RouteConstants ==
  /\ Lists \subseteq Seq(RuleGroups)
  /\ Starts \subseteq RouteSettings /\ \A F \in Families : F \subseteq RouteSettings

Strict(s) == s.noDirect /\ s.mode = "global"
ModeName(mode) == CASE mode = "global" -> "Global" [] mode = "direct" -> "Direct" [] OTHER -> "Rule"

(* Connections as the core sees them.  With IPv6 off a name resolves to    *)
(* IPv4 addresses only.                                                    *)
Devices == {"dev", "devreject", "devdirect", "devproxy"}
Connections ==
  {c \in [addr : Addrs \ {"fake"}, fam : {4, 6}, named : BOOLEAN, port : {"web", "game", "dns"},
          from : {"user", "app", "core"} \cup Devices] :
     /\ c.addr \in {"mixed", "ads"} => c.named
     /\ c.port = "dns" => ~c.named}

Seen(s, c) == (c.from \in Devices => s.gateway) /\ (c.named /\ ~s.ipv6 => c.fam = 4)

-----------------------------------------------------------------------------
(* The routing rules *)

R(on, arg, out) == [on |-> on, arg |-> arg, out |-> out]
When(b, rules) == IF b THEN rules ELSE <<>>

(* ruleSetPicker: a rule set that is not at hand is left out, and with it  *)
(* a group that has no other condition.                                    *)
Conds(sets, g) == IF sets THEN g.conds ELSE g.conds \ {"geoip", "geosite"}

groupRule(sets, g) ==
  When(g.on /\ Conds(sets, g) # {}, <<R("group", Conds(sets, g), g.out)>>)

groupRules(sets, groups) ==
  LET upTo[n \in 0..Len(groups)] ==
        IF n = 0 THEN <<>> ELSE upTo[n - 1] \o groupRule(sets, groups[n])
  IN upTo[Len(groups)]

(* Every answer a local address: one public address among them is enough   *)
(* for the rule not to match.                                              *)
lanDest(c) == c.addr = "lan"

deviceRules(s) ==
  When(s.gateway,
       <<R("from", {"devreject"}, "reject")>>
       \o When(~Strict(s), <<R("from", {"devdirect"}, "direct")>>)
       \o <<R("from", {"devproxy"}, "proxy")>>)

(* nodeAddrs, hostCIDRs: the servers of the nodes, at their ports.  In     *)
(* global mode for the core's own process only.                            *)
nodeRules(s) ==
  <<R("node", IF s.mode = "global" /\ s.self THEN {"core"} ELSE {}, "direct")>>

buildConfig(s) ==
  <<R("port53", {}, "hijack-dns")>>
  \o When(~s.ipv6, <<R("v6", {}, "reject")>>)
  \o When(s.bypass /\ ~Strict(s), <<R("from", {"app"}, "direct")>>)
  \o deviceRules(s)
  \o nodeRules(s)
  \o When(s.lan, <<R("lan", {"Global"}, "direct")>>)
  \o <<R("clash", {"Direct"}, "direct"), R("clash", {"Global"}, "proxy")>>
  \o groupRules(s.sets, s.groups)
  \o <<R("lan", {}, s.private)>>
  \o When(s.ads /\ s.sets, <<R("ads", {}, "reject")>>)
  \o When(s.sets, <<R("cn", {}, s.cn)>>)
  \o <<R("final", {}, s.final)>>

InGroup(conds, c) ==
  \/ \E kind \in conds \cap {"ip", "geoip"} : c.addr \in Covers(kind)
  \/ c.named /\ \E kind \in conds \cap {"domain", "geosite"} : c.addr \in Covers(kind)
  \/ "port" \in conds /\ c.port = "game"
  \/ "process" \in conds /\ c.from = "app"

(* External: sing-box's rule engine.                                       *)
RouteMatches(r, mode, c) ==
  CASE r.on = "port53" -> c.port = "dns"
    [] r.on = "v6" -> c.fam = 6 /\ ~c.named
    [] r.on = "from" -> c.from \in r.arg
    [] r.on = "node" -> c.addr = "node" /\ c.port = "web" /\ (r.arg # {} => c.from \in r.arg)
    [] r.on = "lan" -> lanDest(c) /\ (r.arg # {} => mode \in r.arg)
    [] r.on = "clash" -> mode \in r.arg
    [] r.on = "group" -> InGroup(r.arg, c)
    [] r.on = "ads" -> c.addr = "ads"
    [] r.on = "cn" -> c.addr \in {"cn", "cnpart"}
    [] OTHER -> TRUE

Route(rules, mode, c) ==
  LET hits == {i \in 1..Len(rules) : RouteMatches(rules[i], mode, c)}
  IN rules[CHOOSE i \in hits : \A j \in hits : i <= j].out

-----------------------------------------------------------------------------
(* The DNS servers and rules *)

(* Each server of the configuration: how it is asked.                      *)
dnsServers(s) ==
  [system |-> IF Strict(s) THEN "doh" ELSE "plain",
   local |-> IF Strict(s) THEN "doh" ELSE "plain",       \* LocalDNS = "system"
   remoteBoot |-> IF Strict(s) THEN "proxied" ELSE "plain", \* RemoteDNS is a name
   lan |-> IF s.lan /\ ~s.gateway /\ ~Strict(s) THEN "plain" ELSE "none"]

groupDomainConds(sets, g) == Conds(sets, g) \cap {"domain", "geosite"}

(* The domain conditions of the enabled direct groups before the i-th.     *)
directConds(sets, groups, i) ==
  UNION {groupDomainConds(sets, groups[j]) :
           j \in {k \in 1..(i - 1) : groups[k].on /\ groups[k].out = "direct"}}

D(mode, conds, skip, types, server) ==
  [mode |-> mode, conds |-> conds, skip |-> skip, types |-> types, server |-> server]

AnyType == {"A", "AAAA", "TXT"}
FakeTypes(ipv6) == IF ipv6 THEN {"A", "AAAA"} ELSE {"A"}

groupDNSRules(sets, ipv6, groups, i) ==
  LET g == groups[i]
      conds == groupDomainConds(sets, g)
      skip == directConds(sets, groups, i)
  IN IF ~g.on \/ g.out = "direct" \/ conds = {} THEN <<>>
     ELSE IF g.out = "reject" THEN <<D("Rule", conds, skip, AnyType, "reject")>>
     ELSE <<D("Rule", conds, skip, FakeTypes(ipv6), "fakeip"),
            D("Rule", conds, skip, AnyType, "remote")>>

groupsDNSRules(sets, ipv6, groups) ==
  LET upTo[n \in 0..Len(groups)] ==
        IF n = 0 THEN <<>> ELSE upTo[n - 1] \o groupDNSRules(sets, ipv6, groups, n)
  IN upTo[Len(groups)]

localCN(s) == s.sets /\ s.cn = "direct"

dnsRules(s) ==
  <<D("Direct", {"any"}, {}, AnyType, "local")>>
  \o groupsDNSRules(s.sets, s.ipv6, s.groups)
  \o When(localCN(s), <<D("Rule", {"cn"}, {}, AnyType, "local")>>)
  \o <<D("any", {"any"}, {}, FakeTypes(s.ipv6), "fakeip"), D("any", {"any"}, {}, AnyType, "remote")>>

NameIn(conds, addr) ==
  \/ "any" \in conds
  \/ "cn" \in conds /\ addr \in {"cn", "cnpart"}
  \/ \E kind \in conds : addr \in Covers(kind)

DnsServer(rules, mode, addr, type) ==
  LET hits == {i \in 1..Len(rules) :
                 /\ rules[i].mode \in {mode, "any"}
                 /\ type \in rules[i].types
                 /\ NameIn(rules[i].conds, addr) /\ ~NameIn(rules[i].skip, addr)}
  IN rules[CHOOSE i \in hits : \A j \in hits : i <= j].server

-----------------------------------------------------------------------------
(* RuleGuard: what the firewall lets through instead, by address and port  *)

geoIPPrefixes(s, kind) ==
  IF ~s.sets THEN {}
  ELSE (IF kind = "cn" THEN {"cn", "cnpart", "ads"} ELSE Covers(kind)) \X {4, 6}

Lay(direct, out, prefixes) == IF out = "direct" THEN direct \cup prefixes ELSE direct \ prefixes

LayGroup(s, g, direct) ==
  IF ~g.on THEN direct
  ELSE Lay(direct, g.out,
           (IF "ip" \in g.conds THEN Covers("ip") \X {4, 6} ELSE {})
           \cup (IF "geoip" \in g.conds THEN geoIPPrefixes(s, "geoip") ELSE {}))

LayDefaults(s) ==
  Lay(Lay(IF s.final = "direct" THEN AddrFams ELSE {}, s.cn, geoIPPrefixes(s, "cn")),
      s.private, {"lan"} \X {4, 6})

Never(s) == {"fake"} \X {4, 6} \cup IF s.ipv6 THEN {} ELSE Addrs \X {6}

\* mutant: the groups are laid from the first to the last
FaultyRuleGuard(s) ==
  LET laid[n \in 0..Len(s.groups)] ==
        IF n = 0 THEN LayDefaults(s) ELSE LayGroup(s, s.groups[n], laid[n - 1])
  IN laid[Len(s.groups)] \ Never(s)

(* Laid from the last group to the first, so that the first one wins.      *)
RuleGuard(s) ==
  LET laid[n \in 0..Len(s.groups)] ==
        IF n = 0 THEN LayDefaults(s)
        ELSE LayGroup(s, s.groups[Len(s.groups) - n + 1], laid[n - 1])
  IN laid[Len(s.groups)] \ Never(s)

TunnelPorts(s) ==
  UNION {IF g.on /\ g.out # "direct" /\ "port" \in g.conds THEN {"game"} ELSE {} : g \in ToSet(s.groups)}

DeviceBlock == {"devreject", "devproxy"}
DeviceDirect == {"devdirect"}

(* The chains that carry this out are in PacketFilter (ruleAllow).         *)
GuardLets(s, c) ==
  /\ c.from \notin DeviceBlock
  /\ \/ c.from \in DeviceDirect
     \/ <<c.addr, c.fam>> \in RuleGuard(s) /\ c.port \notin TunnelPorts(s)

-----------------------------------------------------------------------------
(* Changes of the settings while the core runs *)

needsPrivacyRebuild(prev, next) == Strict(prev) # Strict(next) \/ prev.ipv6 # next.ipv6

\* mutant: a change of mode is always taken over live
FaultymodeSwitchIsLive(prev, next) == TRUE
(* The two configurations differ in nothing but the default mode.          *)
modeSwitchIsLive(prev, next) ==
  /\ buildConfig(prev) = buildConfig(next)
  /\ dnsServers(prev) = dnsServers(next) /\ dnsRules(prev) = dnsRules(next)

privacyRelaxes(prev, next) ==
  \/ prev.noDirect /\ ~next.noDirect
  \/ prev.mode = "global" /\ next.mode # "global"
  \/ prev.noDirect /\ prev.mode # "direct" /\ next.mode = "direct"
  \/ ~prev.ipv6 /\ next.ipv6

(* The new configuration is prepared and started, or it cannot be prepared *)
(* and the running one stays.                                              *)
Rebuilt(next) == saved' = next /\ built' = next /\ clash' = ModeName(next.mode) /\ kept' = FALSE
KeepsOld(next) == saved' = next /\ kept' = TRUE /\ UNCHANGED <<built, clash>>

(* restartForPrivacySettings: tightening is rolled back when it fails, and *)
(* the rollback may fail as well.                                          *)
restartForPrivacySettings(next) ==
  \/ Rebuilt(next)
  \/ KeepsOld(next)
  \/ ~privacyRelaxes(saved, next) /\ UNCHANGED routeVars

switchModeLive(next) == saved' = next /\ clash' = ModeName(next.mode) /\ UNCHANGED <<built, kept>>

(* The handler of MSetMode, while the core runs.                           *)
SetMode(mode) ==
  LET next == [saved EXCEPT !.mode = mode]
      rebuild == needsPrivacyRebuild(saved, next) \/ ~modeSwitchIsLive(saved, next)
  IN /\ mode # saved.mode
     /\ \/ ~rebuild /\ switchModeLive(next)
        \/ rebuild /\ restartForPrivacySettings(next)

(* MSetSettings: mode and noDirect are what the core can take over.        *)
Live(prev, next) == [prev EXCEPT !.mode = next.mode, !.noDirect = next.noDirect] = next

SetSettings(next) ==
  \/ needsPrivacyRebuild(saved, next) /\ restartForPrivacySettings(next)
  \/ /\ ~needsPrivacyRebuild(saved, next)
     /\ IF Live(saved, next) /\ (next.mode = saved.mode \/ modeSwitchIsLive(saved, next))
        THEN IF next.mode = saved.mode
             THEN saved' = next /\ UNCHANGED <<built, clash, kept>>
             ELSE switchModeLive(next)
        ELSE Rebuilt(next) \/ KeepsOld(next)

-----------------------------------------------------------------------------
RouteInit ==
  /\ saved \in Starts
  /\ built = saved /\ clash = ModeName(saved.mode) /\ kept = FALSE

RouteNext ==
  \E F \in Families :
    /\ saved \in F
    /\ \/ \E mode \in {"rule", "global", "direct"} :
            [saved EXCEPT !.mode = mode] \in F /\ SetMode(mode)
       \/ (kept => Onwards) /\ \E next \in F : SetSettings(next)

RouteSpec == RouteInit /\ [][RouteNext]_routeVars

RouteTypeOK ==
  /\ saved \in RouteSettings /\ built \in RouteSettings
  /\ clash \in {"Rule", "Global", "Direct"} /\ kept \in BOOLEAN

-----------------------------------------------------------------------------
(* What the firewall lets out by itself while the core is down is what the *)
(* rules send direct by address, for this computer and for any device      *)
(* without a policy of its own: never more, and without a rule on ports    *)
(* never less (guardrules.go:15-19, 46-47).                                *)
FallbackAgrees ==
  built = saved /\ saved.mode = "rule" =>
    LET rules == buildConfig(saved)
        lets == RuleGuard(saved)
        ports == TunnelPorts(saved)
    IN \A c \in Connections :
         /\ ~c.named /\ c.port # "dns" /\ c.from \in {"user", "dev"} /\ Seen(saved, c)
         => /\ <<c.addr, c.fam>> \in lets /\ c.port \notin ports
                 => Route(rules, "Rule", c) = "direct"
            /\ (\A g \in ToSet(saved.groups) : "port" \notin g.conds) /\ c.addr # "node"
                 => (Route(rules, "Rule", c) = "direct" => <<c.addr, c.fam>> \in lets)

(* The firewall forwards nothing for a device that the rules would not     *)
(* send direct, or that has to stay inside with IPv6 off                   *)
(* (guardrules.go:85 "the v6 never goes out", builder.go:304-308).         *)
DevicesAgree ==
  built = saved /\ saved.mode = "rule" =>
    LET rules == buildConfig(saved)
    IN \A c \in Connections :
         /\ ~c.named /\ c.port # "dns" /\ c.from \in Devices /\ Seen(saved, c) /\ GuardLets(saved, c)
         => Route(rules, "Rule", c) = "direct"

(* A configuration for the strict global mode sends out nothing past the   *)
(* tunnel but the core's own connections to the nodes and, if allowed,     *)
(* what is local; and it asks no DNS server in the clear, nor a foreign    *)
(* one outside the tunnel for the remote server's name.                    *)
SealedConfig ==
  Strict(built) =>
    LET rules == buildConfig(built) IN
    /\ \A c \in Connections :
         Seen(built, c) /\ Route(rules, "Global", c) = "direct" =>
           \/ c.addr = "node" /\ (built.self => c.from = "core")
           \/ c.addr = "lan" /\ built.lan
    /\ \A k \in DOMAIN dnsServers(built) : dnsServers(built)[k] # "plain"

(* Unless an older configuration was kept, the running core routes and     *)
(* asks every name as one started from the settings would: what is         *)
(* switched live is no different from what is rebuilt.                     *)
SwitchIsFaithful ==
  ~kept /\ built # saved =>
    LET now == ModeName(saved.mode)
        runs == buildConfig(built)   fresh == buildConfig(saved)
        asks == dnsRules(built)         would == dnsRules(saved) IN
    /\ \A c \in Connections : Seen(saved, c) => Route(runs, clash, c) = Route(fresh, now, c)
    /\ \A addr \in Addrs, type \in AnyType :
         DnsServer(asks, clash, addr, type) = DnsServer(would, now, addr, type)
    /\ dnsServers(built) = dnsServers(saved)

(* A name is asked outside the tunnel only if its connections go direct    *)
(* (or nowhere) by the rules that know names: a group that claims the name *)
(* for the proxy, or CN sent through the proxy, takes the query along      *)
(* (builder.go:553-558, 249-252).                                          *)
NamesFollowRoutes ==
  built = saved /\ saved.mode = "rule" =>
    LET rules == buildConfig(saved)
        names == dnsRules(saved)
    IN \A c \in Connections :
         /\ c.named /\ c.port = "web" /\ c.from = "user" /\ Seen(saved, c)
         /\ \A g \in ToSet(saved.groups) : g.on => ~InGroup(Conds(saved.sets, g) \cap {"ip", "geoip"}, c)
         /\ \E type \in AnyType : DnsServer(names, "Rule", c.addr, type) = "local"
         => Route(rules, "Rule", c) \in {"direct", "reject"}

(* What leaves outside the tunnel, through the core, through the firewall  *)
(* while the core is down or as a query, is what is meant to.              *)
DirectIsMeant == FallbackAgrees /\ SealedConfig /\ NamesFollowRoutes
=============================================================================
