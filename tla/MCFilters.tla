------------------------------ MODULE MCFilters ------------------------------
(***************************************************************************)
(* What decides which way a packet takes, checked in one run: the packet   *)
(* filters, the core's configuration, and the WFP transactions.  part says *)
(* which of the three a behaviour is about; the others stay as they start. *)
(***************************************************************************)
EXTENDS PacketFilter, RouteConfig, WfpGuard

VARIABLE part

filtersVars == <<filterVars, routeVars, wfpVars, part>>

\* Groups that overlap, with every kind of condition and outbound, one of them off.
SomeGroups ==
  {Group(TRUE, "direct", {"ip"}), Group(TRUE, "proxy", {"ip"}),
   Group(TRUE, "proxy", {"geoip", "port"}), Group(TRUE, "direct", {"domain", "geoip"}),
   Group(TRUE, "reject", {"domain", "port"}), Group(TRUE, "proxy", {"geosite"}),
   Group(FALSE, "direct", {"ip", "domain"}), Group(TRUE, "direct", {"geosite", "process"})}

Disagreeing ==
  <<Group(TRUE, "direct", {"ip", "domain"}), Group(TRUE, "proxy", {"geoip", "geosite"})>>

MCLists ==
  {<<>>, Disagreeing} \cup {<<g>> : g \in SomeGroups}
  \cup {<<g, h>> : g \in SomeGroups, h \in SomeGroups}

\* A behaviour without a change of settings has any list of groups, in rule mode.
Settled ==
  {s \in [mode : {"rule"}, noDirect : {TRUE}, lan : {TRUE}, ipv6 : BOOLEAN,
          private : {"direct", "proxy"}, cn : {"direct", "proxy", "reject"},
          final : {"direct", "proxy"}, ads : {TRUE}, gateway : {TRUE}, bypass : {FALSE},
          groups : Lists, sets : BOOLEAN, self : {TRUE}] :
     s.private = "proxy" => s.cn = "direct"}

\* One with changes has two groups that disagree, and changes mode, noDirect, ipv6 and
\* bypass.
Changeable(lan, cn, self) ==
  [mode : {"rule", "global", "direct"}, noDirect : BOOLEAN, lan : {lan}, ipv6 : BOOLEAN,
   private : {"direct"}, cn : {cn}, final : {"proxy"}, ads : {FALSE}, gateway : {TRUE},
   bypass : BOOLEAN, groups : {Disagreeing}, sets : {TRUE}, self : {self}]

MCFamilies ==
  {Changeable(lan, cn, self) : lan \in BOOLEAN, cn \in {"direct", "proxy"}, self \in BOOLEAN}
MCStarts == Settled \cup UNION MCFamilies

RouteAtRest ==
  saved.mode = "direct" /\ ~saved.noDirect /\ ~saved.lan /\ ~saved.ipv6 /\ saved.cn = "direct"
  /\ ~saved.bypass /\ saved.self
WfpAtRest == store = {}

FiltersInit ==
  /\ part \in {"filter", "route", "wfp"}
  /\ FilterInit
  /\ RouteInit /\ (part # "route" => RouteAtRest)
  /\ WfpInit /\ (part # "wfp" => WfpAtRest)

FiltersNext ==
  /\ \/ part = "filter" /\ FilterNext /\ UNCHANGED <<routeVars, wfpVars>>
     \/ part = "route" /\ RouteNext /\ UNCHANGED <<filterVars, wfpVars>>
     \/ part = "wfp" /\ WfpNext /\ UNCHANGED <<filterVars, routeVars>>
  /\ UNCHANGED part

FiltersSpec == FiltersInit /\ [][FiltersNext]_filtersVars /\ WfpFairness

\* The variables of every component keep their types.
FiltersTypeOK == FilterTypeOK /\ RouteTypeOK /\ WfpTypeOK
=============================================================================
