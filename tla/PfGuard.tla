------------------------------ MODULE PfGuard ------------------------------
(***************************************************************************)
(* The guard of macOS (internal/netmode/guard_darwin.go, internal/svc/     *)
(* init_darwin.go).  Its rules are loaded into an anchor that the main     *)
(* ruleset hooks in, and they count only while pf is enabled.  pf counts   *)
(* references: each pfctl -E gives a token, and pf is enabled while one is *)
(* held.  The tokens are kept in a file, so that whoever takes the guard   *)
(* down can give them back; neither rules nor tokens survive a reboot, the *)
(* file does.                                                              *)
(*                                                                         *)
(* Two processes run pfctl: the service, and at power-on the LaunchDaemon  *)
(* of the boot guard, with nothing to order one after the other.  A third  *)
(* party has references of its own, and may disable pf or flush its rules. *)
(***************************************************************************)
EXTENDS Naturals, Sequences

CONSTANTS
  PfTokens, \* what pfctl -E may return
  PfBounds  \* how many boots, requests, interventions of others and faults

Procs == {"service", "boot"}
Other == 0

ASSUME PfConstants == Other \notin PfTokens

VARIABLES
  anchored,  \* the anchor has the guard's rules
  hook,      \* the main ruleset has com.apple/*
  refs,      \* the references held: pf is enabled while there is one
  tokens,    \* the file pf-tokens
  bootRules, \* BootGuardFile
  steps,     \* what each process has still to do
  token,     \* what its pfctl -E returned; 0 is nothing
  sought,    \* GuardWanted
  believed,  \* d.guardOn
  lost,      \* references whose token was never written down
  borrowed,  \* no reference was taken, for one there was, and it was another program's
  shaken,    \* since the guard was last put up another program took rules or references away, or an
             \* ApplyGuard failed that would have been needed
  armed,     \* the boot guard found rules, and nothing failed or interfered since
  behind,    \* what the service does not know of: the boot guard's, put up after it took things
             \* down, or what an ApplyGuard that failed halfway left
  remaining  \* what is left of the bounds

osVars == <<anchored, hook, refs>>
keptVars == <<tokens, bootRules>>
historyVars == <<lost, borrowed, shaken, armed, behind>>
pfVars == <<osVars, keptVars, steps, token, sought, believed, historyVars, remaining>>

Draws(what) == remaining[what] > 0 /\ remaining' = [remaining EXCEPT ![what] = @ - 1]
At(p, step) == steps[p] # <<>> /\ Head(steps[p]) = step
Onward(p) == steps' = [steps EXCEPT ![p] = Tail(@)]
GivesUp(p) == steps' = [steps EXCEPT ![p] = <<>>]
Idles == steps["service"] = <<>>

Apply == <<"load", "enable", "token", "check", "write">>
ClearSteps == <<"flush", "unlink", "release", "forget">>
BootSteps == <<"read", "main", "load", "enable", "token", "check">>

\* The service has flushed the anchor and does not look at it again.
TakenDown == IF Idles THEN ~believed ELSE Head(steps["service"]) \in {"unlink", "release", "forget"}

Enabled == refs # {}
Evaluated == anchored /\ hook /\ Enabled

\* The guard is in force for as long as another program wants pf.
Unheld == Evaluated /\ refs = {Other}

(***************************************************************************)
(* ApplyGuard and ApplyBootGuard                                           *)
(***************************************************************************)
ReadRules ==
  /\ At("boot", "read")
  /\ armed' = (bootRules # "none")
  /\ IF bootRules = "none" THEN GivesUp("boot") ELSE Onward("boot")
  /\ UNCHANGED <<osVars, keptVars, token, sought, believed, lost, borrowed, shaken, behind, remaining>>

\* The system may not have loaded /etc/pf.conf yet.
MainRules ==
  /\ At("boot", "main")
  /\ \/ hook' = TRUE /\ Onward("boot") /\ UNCHANGED <<remaining, armed>>
     \/ ~hook /\ Draws("faults") /\ GivesUp("boot") /\ armed' = FALSE /\ UNCHANGED hook
  /\ UNCHANGED <<anchored, refs, keptVars, token, sought, believed, lost, borrowed, shaken, behind>>

\* An ApplyGuard that failed has said so.
Reports(p) == shaken' = IF p = "service" /\ ~(anchored /\ refs \cap PfTokens # {}) THEN "yes" ELSE shaken

\* When it ends halfway, the service takes the guard to be what it was before.
Halfway(p) ==
  /\ GivesUp(p) /\ armed' = FALSE /\ Reports(p)
  /\ behind' = (behind \/ p = "boot" \/ ~believed)

\* The boot guard loads the strictest rules when those on disk are broken.
LoadAnchor(p) ==
  /\ At(p, "load")
  /\ \/ /\ anchored' = TRUE /\ Onward(p)
        /\ behind' = (behind \/ (p = "boot" /\ TakenDown))
        /\ UNCHANGED <<remaining, armed, shaken>>
     \/ /\ Draws("faults") /\ GivesUp(p) /\ armed' = FALSE /\ UNCHANGED anchored
        /\ behind' = (behind \/ ~believed)
        /\ Reports(p)
  /\ UNCHANGED <<hook, refs, keptVars, token, sought, believed, lost, borrowed>>

\* mutant: pf is only enabled when it is not
FaultyEnablePF(p) ==
  /\ At(p, "enable")
  /\ \/ /\ Enabled
        /\ steps' = [steps EXCEPT ![p] = Tail(Tail(Tail(@)))]
        /\ UNCHANGED <<refs, token, borrowed>>
     \/ /\ ~Enabled
        /\ \E t \in PfTokens \ tokens : refs' = {t} /\ token' = [token EXCEPT ![p] = t]
        /\ borrowed' = FALSE /\ Onward(p)
  /\ UNCHANGED <<anchored, hook, keptVars, sought, believed, lost, shaken, armed, behind, remaining>>

\* Enabled, and a token on file: no further reference is taken.
EnablePF(p) ==
  /\ At(p, "enable")
  /\ IF Enabled /\ tokens # {}
     THEN /\ steps' = [steps EXCEPT ![p] = Tail(Tail(Tail(@)))]
          /\ borrowed' = (refs = {Other})
          /\ UNCHANGED <<refs, token, armed, shaken, behind, remaining>>
     ELSE \/ /\ \E t \in PfTokens \ (refs \cup tokens) : refs' = refs \cup {t} /\ token' = [token EXCEPT ![p] = t]
             /\ borrowed' = FALSE /\ Onward(p) /\ UNCHANGED <<armed, shaken, behind, remaining>>
          \/ Draws("faults") /\ Halfway(p) /\ UNCHANGED <<refs, token, borrowed>>
  /\ UNCHANGED <<anchored, hook, keptVars, sought, believed, lost>>

\* A token that cannot be written down is forgotten.
SaveToken(p) ==
  /\ At(p, "token") /\ Onward(p) /\ token' = [token EXCEPT ![p] = 0]
  /\ \/ tokens' = tokens \cup {token[p]} /\ UNCHANGED <<lost, remaining>>
     \/ Draws("faults") /\ lost' = lost \cup {token[p]} /\ UNCHANGED tokens
  /\ behind' = (behind \/ (p = "boot" /\ TakenDown))
  /\ UNCHANGED <<osVars, bootRules, sought, believed, borrowed, shaken, armed>>

CheckEnabled(p) ==
  /\ At(p, "check")
  /\ \/ Enabled /\ Onward(p) /\ UNCHANGED <<armed, shaken, behind>>
     \/ ~Enabled /\ Halfway(p)
  /\ UNCHANGED <<osVars, keptVars, token, sought, believed, lost, borrowed, remaining>>

\* What is done last; the guard is up whether or not the file could be written.
WriteBootRules ==
  /\ At("service", "write") /\ Onward("service") /\ believed' = TRUE /\ behind' = FALSE
  /\ shaken' = IF shaken = "mending" THEN "no" ELSE shaken
  /\ \/ bootRules' = "good" /\ UNCHANGED remaining
     \/ Draws("faults") /\ UNCHANGED bootRules
  /\ UNCHANGED <<osVars, tokens, token, sought, lost, borrowed, armed>>

(***************************************************************************)
(* ClearGuard                                                              *)
(***************************************************************************)
FlushAnchor ==
  /\ At("service", "flush") /\ armed' = FALSE
  /\ \/ anchored' = FALSE /\ behind' = FALSE /\ Onward("service") /\ UNCHANGED <<believed, remaining>>
     \/ Draws("faults") /\ GivesUp("service") /\ believed' = TRUE /\ UNCHANGED <<anchored, behind>>
  /\ UNCHANGED <<hook, refs, keptVars, token, sought, lost, borrowed, shaken>>

RemoveBootRules ==
  /\ At("service", "unlink") /\ armed' = FALSE
  /\ \/ bootRules' = "none" /\ behind' = (behind \/ anchored) /\ Onward("service") /\ UNCHANGED <<believed, remaining>>
     \/ Draws("faults") /\ bootRules # "none" /\ GivesUp("service") /\ believed' = TRUE /\ UNCHANGED <<bootRules, behind>>
  /\ UNCHANGED <<osVars, tokens, token, sought, lost, borrowed, shaken>>

\* One by one, those from before the last boot in vain.
GiveBack ==
  /\ At("service", "release") /\ Onward("service")
  /\ refs' = refs \ tokens
  /\ UNCHANGED <<anchored, hook, keptVars, token, sought, believed, historyVars, remaining>>

\* A token that the boot guard took after they were read goes with the file.
ForgetTokens ==
  /\ At("service", "forget") /\ Onward("service")
  /\ tokens' = {} /\ believed' = FALSE
  /\ lost' = IF behind THEN lost \cup (tokens \cap refs) ELSE lost
  /\ UNCHANGED <<osVars, bootRules, token, sought, borrowed, shaken, armed, behind, remaining>>

(***************************************************************************)
(* The service                                                             *)
(***************************************************************************)
Does(list) ==
  /\ steps' = [steps EXCEPT !["service"] = list]
  /\ shaken' = IF shaken = "yes" /\ list = Apply THEN "mending" ELSE shaken

\* The user connects or disconnects; syncGuard does what differs from what it believes.
Wishes ==
  /\ Idles /\ Draws("requests") /\ sought' = ~sought
  /\ IF sought' /\ ~(believed /\ Evaluated) THEN Does(Apply)
     ELSE IF ~sought' /\ believed THEN Does(ClearSteps)
     ELSE UNCHANGED <<steps, shaken>>
  /\ borrowed' = (borrowed \/ (sought' /\ believed /\ Unheld))
  /\ UNCHANGED <<osVars, keptVars, token, believed, lost, armed, behind>>

\* guardWatchLoop: every fifteen seconds
GuardWatch ==
  /\ Idles /\ believed /\ sought /\ ~Evaluated /\ Does(Apply)
  /\ UNCHANGED <<osVars, keptVars, token, sought, believed, lost, borrowed, armed, behind, remaining>>

\* Run: what there is counts as the guard until reconcileGuard has done its part.
Starts ==
  /\ At("service", "start")
  /\ believed' = Evaluated /\ Does(IF sought THEN Apply ELSE ClearSteps)
  /\ borrowed' = (borrowed \/ Unheld)
  /\ UNCHANGED <<osVars, keptVars, token, sought, lost, armed, behind, remaining>>

\* The process dies and is started again.
GuardDies ==
  /\ Draws("faults")
  /\ believed' = FALSE /\ Does(<<"start">>)
  /\ lost' = lost \cup ({token["service"]} \ {0}) /\ token' = [token EXCEPT !["service"] = 0]
  /\ UNCHANGED <<osVars, keptVars, sought, borrowed, armed, behind>>

(***************************************************************************)
(* The computer and the others                                             *)
(***************************************************************************)
\* launchd starts both.
Reboots ==
  /\ Draws("boots")
  /\ anchored' = FALSE /\ hook' = FALSE /\ refs' = {} /\ lost' = {}
  /\ steps' = [p \in Procs |-> IF p = "boot" THEN BootSteps ELSE <<"start">>]
  /\ token' = [p \in Procs |-> 0]
  /\ believed' = FALSE /\ shaken' = "no" /\ armed' = FALSE /\ behind' = FALSE /\ borrowed' = FALSE
  /\ UNCHANGED <<keptVars, sought>>

\* The system loads its ruleset.
SystemLoads ==
  /\ ~hook /\ hook' = TRUE
  /\ UNCHANGED <<anchored, refs, keptVars, steps, token, sought, believed, historyVars, remaining>>

\* pfctl -E and -X of another program
OtherUses ==
  /\ Draws("strangers")
  /\ refs' = IF Other \in refs THEN refs \ {Other} ELSE refs \cup {Other}
  /\ UNCHANGED <<anchored, hook, keptVars, steps, token, sought, believed, historyVars>>

\* pfctl -d, which makes every token worthless, or -F
OtherBreaks ==
  /\ Draws("strangers") /\ shaken' = "yes" /\ armed' = FALSE
  /\ \/ refs' = {} /\ lost' = {} /\ UNCHANGED <<anchored, hook>>
     \/ anchored' = FALSE /\ UNCHANGED <<refs, lost, hook>>
     \/ hook' = FALSE /\ UNCHANGED <<refs, lost, anchored>>
  /\ UNCHANGED <<keptVars, steps, token, sought, believed, borrowed, behind>>

PfInit ==
  /\ anchored = FALSE /\ hook = TRUE /\ refs = {} /\ tokens = {} /\ bootRules = "none"
  /\ steps = [p \in Procs |-> <<>>] /\ token = [p \in Procs |-> 0]
  /\ sought = FALSE /\ believed = FALSE
  /\ lost = {} /\ borrowed = FALSE /\ shaken = "no" /\ armed = FALSE /\ behind = FALSE
  /\ remaining \in PfBounds

PfNext ==
  \/ ReadRules \/ MainRules
  \/ \E p \in Procs : LoadAnchor(p) \/ EnablePF(p) \/ SaveToken(p) \/ CheckEnabled(p)
  \/ WriteBootRules \/ FlushAnchor \/ RemoveBootRules \/ GiveBack \/ ForgetTokens
  \/ Wishes \/ GuardWatch \/ Starts \/ GuardDies \/ Reboots \/ SystemLoads \/ OtherUses \/ OtherBreaks

PfSpec == PfInit /\ [][PfNext]_pfVars

(***************************************************************************)
(* Properties                                                              *)
(***************************************************************************)
\* Every variable has its type.
PfTypeOK ==
  /\ anchored \in BOOLEAN /\ hook \in BOOLEAN /\ refs \subseteq {Other} \cup PfTokens
  /\ tokens \subseteq PfTokens /\ bootRules \in {"none", "good"}
  /\ steps \in [Procs -> Seq({"read", "main", "load", "enable", "token", "check", "write",
                              "flush", "unlink", "release", "forget", "start"})]
  /\ token \in [Procs -> {0} \cup PfTokens]
  /\ sought \in BOOLEAN /\ believed \in BOOLEAN
  /\ lost \subseteq PfTokens
  /\ borrowed \in BOOLEAN /\ shaken \in {"no", "yes", "mending"} /\ armed \in BOOLEAN /\ behind \in BOOLEAN

\* What the service believes to be up is there, and pf is held enabled by a reference of the service's own,
\* whatever other programs do with theirs and however its two processes interleave; and what the boot guard
\* found on disk is evaluated when it is through.  Excepted is what others took away since, and the
\* reference that was not taken because an old token was on file (ApplyGuard, ApplyBootGuard, enablePF).
GuardIsHeld ==
  /\ believed /\ sought /\ Idles /\ steps["boot"] = <<>> /\ shaken = "no" /\ ~borrowed => anchored /\ refs \cap PfTokens # {}
  /\ armed /\ steps["boot"] = <<>> /\ steps["service"] \in {<<>>, <<"start">>, Apply} /\ ~borrowed => Evaluated

\* What was taken is given back: after the guard is down pf is left to those who enabled it, and no rule,
\* no file and no token stays behind, but for what the service cannot know of (ClearGuard).
NothingStaysBehind ==
  ~believed /\ Idles /\ steps["boot"] = <<>> /\ ~sought /\ ~behind
    => ~anchored /\ bootRules = "none" /\ refs \subseteq {Other} \cup lost

\* Held while it is wanted, gone once it is not.
PfMatches == GuardIsHeld /\ NothingStaysBehind

\* A reference of the service's own is behind every guard that is up: "enabled, and we hold a reference".
ReferenceIsOurs == believed /\ sought /\ Idles /\ steps["boot"] = <<>> /\ shaken = "no" => refs \cap PfTokens # {}

\* A guard that was taken down does not come back by itself.
DownStaysDown == ~believed /\ Idles /\ steps["boot"] = <<>> /\ ~sought => ~anchored
=============================================================================
