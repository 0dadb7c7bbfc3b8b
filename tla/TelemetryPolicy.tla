-------------------------- MODULE TelemetryPolicy --------------------------
(***************************************************************************)
(* The life of an active telemetry policy, from the operator's draft to    *)
(* what a node executes: the two wire formats and their validation         *)
(* (internal/probepolicy), the readiness check and the upgrade-first       *)
(* projection of a deployment (controller/telemetry_policy_readiness.go),  *)
(* the choice of the bundle member (render), the capability gate of the    *)
(* rendered installer (renderer/script.go with telemetrycap) and the       *)
(* agent's acceptance (agent.go, candidateTelemetryPolicy).                *)
(*                                                                         *)
(* The fleet is mixed: a node may run the agent of this source tree, which *)
(* implements every capability, or an older one that knows telemetry.json  *)
(* only, or one that knows neither.  What an older agent does is external: *)
(* it ignores members it does not know, and its launcher sets only the     *)
(* markers of what it implements.                                          *)
(***************************************************************************)
EXTENDS Integers, FiniteSets

CONSTANTS
  Nodes,
  Drafts,        \* node policies an operator may write
  Levels,        \* agent binaries in the fleet
  NewLevel,      \* the one that is rolled out
  MaxEdits,      \* edits of the draft explored
  MaxFaults      \* reinstalled agents and controller restarts explored

VARIABLES
  draft,         \* the stored topology's policy of each node
  ready,         \* the nodes that are enrolled
  keystone,      \* the controller has a pinned operator credential
  level,         \* the binary each node runs
  cred,          \* the nodes whose agent has the operator credential
  advert,        \* the latest capabilities each node advertised
  served,        \* the bundle each node is offered
  pending,       \* the bundle each node has fetched
  applied,       \* the bundle each node applied last
  active,        \* its durable last-known-good policy
  omitted,       \* the nodes the last deployment reports as stripped
  outcome,       \* how the last deployment attempt ended
  regressed,     \* nodes reinstalled with less than they had advertised when
                 \* their bundle was compiled
  budget

vars == <<draft, ready, keystone, level, cred, advert, served, pending, applied, active,
          omitted, outcome, regressed, budget>>

---------------------------------------------------------------------------
(* probepolicy *)

NoDraft == [probes |-> {}, devices |-> "none"]
NoPolicy == [v |-> 0, probes |-> {}, devices |-> "none"]
ParseError == [v |-> -1, probes |-> {}, devices |-> "none"]

MinIntervalSeconds == 30
MaxIntervalSeconds == 3600
DefaultIntervalSeconds == 60
DefaultExpectedStatus == 200

EffectiveIntervalSeconds(p) == IF p.interval = 0 THEN DefaultIntervalSeconds ELSE p.interval
EffectiveExpectedStatus(p) == IF p.status = 0 THEN DefaultExpectedStatus ELSE p.status
canonicalExpectedStatus(p) == IF p.type = "url" THEN EffectiveExpectedStatus(p) ELSE 0

\* The bounds on names, hosts, URLs and timeouts are all of one kind; the
\* interval stands for them.
Validate(probes) ==
  /\ \A p, q \in probes : p.id = q.id => p = q
  /\ \A p \in probes :
       /\ EffectiveIntervalSeconds(p) \in MinIntervalSeconds..MaxIntervalSeconds
       /\ p.type # "url" => p.status = 0
       /\ p.type = "url" => EffectiveExpectedStatus(p) \in 100..599

ValidateDevicePolicy(d) == d \in {"none", "all-eligible"}

validateLegacyProbes(probes) ==
  Validate(probes) /\ \A p \in probes : p.type # "url" /\ p.status = 0

\* The wire probes: the controller's display name stays behind, and the
\* successor writes the expected status out.
executableProbe(p) == [id |-> p.id, type |-> p.type, status |-> 0, interval |-> p.interval, name |-> ""]
successorProbe(p) == [executableProbe(p) EXCEPT !.status = canonicalExpectedStatus(p)]

Marshal(probes) ==
  CASE probes = {} -> NoPolicy
    [] probes # {} /\ ~validateLegacyProbes(probes) -> ParseError
    [] OTHER -> [v |-> 1, probes |-> {executableProbe(p) : p \in probes}, devices |-> "none"]

Parse(w) ==
  IF w.v = 1 /\ w.probes # {} /\ validateLegacyProbes(w.probes) THEN w ELSE ParseError

MarshalSuccessor(pol) ==
  IF (pol.probes = {} /\ pol.devices = "none") \/ ~Validate(pol.probes) \/ ~ValidateDevicePolicy(pol.devices)
    THEN ParseError
    ELSE [v |-> 2, probes |-> {successorProbe(p) : p \in pol.probes}, devices |-> pol.devices]

ParseSuccessor(w) ==
  IF /\ w.v = 2 /\ (w.probes # {} \/ w.devices # "none")
     /\ Validate(w.probes) /\ ValidateDevicePolicy(w.devices)
    THEN w ELSE ParseError

ParseActive(w) == CASE w.v = 1 -> Parse(w) [] w.v = 2 -> ParseSuccessor(w) [] OTHER -> ParseError

RequiresSuccessor(pol) == pol.devices # "none" \/ \E p \in pol.probes : p.type = "url"

RequiredCapabilities(pol) ==
  IF ~RequiresSuccessor(pol) THEN {}
  ELSE {"v2"} \cup {"url" : p \in {q \in pol.probes : q.type = "url"}}
              \cup (IF pol.devices # "none" THEN {"device"} ELSE {})

ProjectLegacy(pol) == [probes |-> {p \in pol.probes : p.type # "url"}, devices |-> "none"]

---------------------------------------------------------------------------
(* Binaries.  The agent's own list of capabilities serves both as its      *)
(* advertisement, without v1, and as its installer's markers.              *)

Implemented(l) ==
  CASE l = 0 -> {} [] l = 1 -> {"v1"} [] OTHER -> {"v1", "v2", "url", "device"}

agentCapabilities(l) == Implemented(l) \ {"v1"}

---------------------------------------------------------------------------
(* The controller *)

NoBundle == [file |-> NoPolicy, req |-> {}, src |-> NoDraft, want |-> NoDraft, mode |-> "none"]

GateV1Only(pol) == IF pol.probes # {} \/ RequiresSuccessor(pol) THEN {"v1"} ELSE {}

\* requiredInstallerCapabilities: what install.sh demands before it changes
\* anything.
requiredInstallerCapabilities(pol) ==
  IF RequiresSuccessor(pol) THEN RequiredCapabilities(pol)
  ELSE IF pol.probes # {} THEN {"v1"} ELSE {}

\* The member render writes for an agent-held node.
Member(pol) == IF RequiresSuccessor(pol) THEN MarshalSuccessor(pol) ELSE Marshal(pol.probes)

\* src is what the bundle was compiled from, want the draft of that moment.
Bundle(pol, want, mode) ==
  [file |-> Member(pol), req |-> requiredInstallerCapabilities(pol), src |-> pol, want |-> want, mode |-> mode]

ValidNode(pol) == Validate(pol.probes) /\ ValidateDevicePolicy(pol.devices)

\* A successor-bearing ready node whose latest advertisement does not cover it.
Blocked(n) ==
  RequiresSuccessor(draft[n]) /\ ~(RequiredCapabilities(draft[n]) \subseteq advert[n])

\* PrepareTelemetryPolicyDeployment, the keystone requirement and the rendering
\* of one deployment.
Compiled(n, mode) ==
  IF mode = "upgrade-agents-first" /\ RequiresSuccessor(draft[n]) THEN ProjectLegacy(draft[n])
  ELSE draft[n]

Refused(mode) ==
  CASE \E n \in ready : ~ValidNode(draft[n]) -> "schema"
    [] (\A n \in ready : ValidNode(draft[n])) /\ mode = "normal" /\ (\E n \in ready : Blocked(n))
         -> "readiness"
    [] OTHER ->
         IF ~keystone /\ \E n \in ready : Compiled(n, mode) # NoDraft
           THEN "keystone" ELSE "ok"

Omitted(mode) == {n \in ready : mode = "upgrade-agents-first" /\ RequiresSuccessor(draft[n])}

Deploy(mode) ==
  /\ outcome' = Refused(mode)
  /\ IF outcome' = "ok"
       THEN /\ served' = [n \in Nodes |-> IF n \in ready THEN Bundle(Compiled(n, mode), draft[n], mode)
                                                         ELSE served[n]]
            /\ omitted' = Omitted(mode)
            /\ regressed' = {n \in Nodes : ~(advert[n] \subseteq Implemented(level[n]))}
       ELSE UNCHANGED <<served, omitted, regressed>>
  /\ UNCHANGED <<draft, ready, keystone, level, cred, advert, pending, applied, active, budget>>

Edit ==
  /\ budget.edits > 0
  /\ \E n \in Nodes, d \in Drafts : d # draft[n] /\ draft' = [draft EXCEPT ![n] = d]
  /\ budget' = [budget EXCEPT !.edits = @ - 1]
  /\ UNCHANGED <<ready, keystone, level, cred, advert, served, pending, applied, active, omitted, outcome, regressed>>

Enroll ==
  /\ \E n \in Nodes \ ready : ready' = ready \cup {n}
  /\ UNCHANGED <<draft, keystone, level, cred, advert, served, pending, applied, active, omitted, outcome,
                 regressed, budget>>

\* The operator pins the credential at the controller, and gives it to an agent.
PinKeystone ==
  /\ ~keystone
  /\ keystone' = TRUE
  /\ UNCHANGED <<draft, ready, level, cred, advert, served, pending, applied, active, omitted, outcome,
                 regressed, budget>>

GiveCredential ==
  /\ \E n \in Nodes \ cred : cred' = cred \cup {n}
  /\ UNCHANGED <<draft, ready, keystone, level, advert, served, pending, applied, active, omitted, outcome,
                 regressed, budget>>

---------------------------------------------------------------------------
(* The node *)

\* An accepted heartbeat; older agents advertise nothing.
Advertise(n) ==
  /\ n \in ready
  /\ advert' = [advert EXCEPT ![n] = agentCapabilities(level[n])]
  /\ UNCHANGED <<draft, ready, keystone, level, cred, served, pending, applied, active, omitted, outcome,
                 regressed, budget>>

\* Advertisements are volatile: a restarted controller has none.
Restart ==
  /\ budget.faults > 0
  /\ \E n \in Nodes : advert[n] # {}
  /\ advert' = [n \in Nodes |-> {}]
  /\ budget' = [budget EXCEPT !.faults = @ - 1]
  /\ UNCHANGED <<draft, ready, keystone, level, cred, served, pending, applied, active, omitted, outcome,
                 regressed>>

\* Someone reinstalls another binary.
Reinstall(n) ==
  /\ budget.faults > 0
  /\ \E l \in Levels \ {level[n]} :
       /\ level' = [level EXCEPT ![n] = l]
       /\ regressed' = IF l < level[n] THEN regressed \cup {n} ELSE regressed
  /\ budget' = [budget EXCEPT !.faults = @ - 1]
  /\ UNCHANGED <<draft, ready, keystone, cred, advert, served, pending, applied, active, omitted, outcome>>

\* The signed self-update that a cleanly applied bundle pins.
SelfUpdate(n) ==
  /\ applied[n] # NoBundle
  /\ level[n] # NewLevel
  /\ level' = [level EXCEPT ![n] = NewLevel]
  /\ UNCHANGED <<draft, ready, keystone, cred, advert, served, pending, applied, active, omitted, outcome,
                 regressed, budget>>

Fetch(n) ==
  /\ served[n] # NoBundle /\ pending[n] = NoBundle
  /\ pending' = [pending EXCEPT ![n] = served[n]]
  /\ UNCHANGED <<draft, ready, keystone, level, cred, advert, served, applied, active, omitted, outcome,
                 regressed, budget>>

\* The policy the agent would keep: ParseError refuses the bundle.
candidateTelemetryPolicy(n, file) ==
  CASE level[n] = 0 \/ (level[n] = 1 /\ file.v = 2) \/ file.v = 0 -> NoPolicy
    [] level[n] # 0 /\ file.v # 0 /\ ~(level[n] = 1 /\ file.v = 2) /\ n \notin cred -> ParseError
    [] OTHER -> IF ParseActive(file) = ParseError THEN ParseError
                ELSE IF file.v = 1 THEN Marshal(Parse(file).probes)
                ELSE MarshalSuccessor(ParseSuccessor(file))

CanApply(n, b) ==
  candidateTelemetryPolicy(n, b.file) # ParseError /\ b.req \subseteq Implemented(level[n])

\* A refused bundle leaves the last-known-good policy; a successful apply
\* replaces it, by nothing if the bundle carries none.
Apply(n) ==
  /\ pending[n] # NoBundle
  /\ pending' = [pending EXCEPT ![n] = NoBundle]
  /\ IF CanApply(n, pending[n])
       THEN /\ applied' = [applied EXCEPT ![n] = pending[n]]
            /\ active' = [active EXCEPT ![n] = candidateTelemetryPolicy(n, pending[n].file)]
       ELSE UNCHANGED <<applied, active>>
  /\ UNCHANGED <<draft, ready, keystone, level, cred, advert, served, omitted, outcome, regressed, budget>>

---------------------------------------------------------------------------
Init ==
  /\ draft = [n \in Nodes |-> NoDraft]
  /\ ready \in SUBSET Nodes
  /\ keystone = FALSE
  /\ level \in [Nodes -> Levels]
  /\ cred = {}
  /\ advert = [n \in Nodes |-> {}]
  /\ served = [n \in Nodes |-> NoBundle]
  /\ pending = [n \in Nodes |-> NoBundle]
  /\ applied = [n \in Nodes |-> NoBundle]
  /\ active = [n \in Nodes |-> NoPolicy]
  /\ omitted = {}
  /\ outcome = "ok"
  /\ regressed = {}
  /\ budget = [edits |-> MaxEdits, faults |-> MaxFaults]

Modes == {"normal", "upgrade-agents-first"}

Next ==
  \/ \E mode \in Modes : Deploy(mode)
  \/ Edit \/ Enroll \/ Restart \/ PinKeystone \/ GiveCredential
  \/ \E n \in Nodes : Advertise(n) \/ Reinstall(n) \/ SelfUpdate(n) \/ Fetch(n) \/ Apply(n)

Spec == Init /\ [][Next]_vars

(***************************************************************************)
(* An operator who deploys what is ready, chooses upgrade-first when told  *)
(* that agents must be upgraded, and hands out the credential; agents that *)
(* poll, report and update themselves.                                     *)
(***************************************************************************)
DeployWhenReady == Refused("normal") # "readiness" /\ Deploy("normal")
DeployUpgradeFirst == Refused("normal") = "readiness" /\ Deploy("upgrade-agents-first")

Operated ==
  \/ DeployWhenReady \/ DeployUpgradeFirst \/ Edit \/ Enroll \/ Restart \/ PinKeystone \/ GiveCredential
  \/ \E n \in Nodes : Advertise(n) \/ Reinstall(n) \/ SelfUpdate(n) \/ Fetch(n) \/ Apply(n)

FairSpec ==
  /\ Init /\ [][Operated]_vars
  /\ WF_vars(DeployWhenReady) /\ WF_vars(DeployUpgradeFirst)
  /\ WF_vars(Enroll) /\ WF_vars(PinKeystone) /\ WF_vars(GiveCredential)
  /\ \A n \in Nodes : WF_vars(Advertise(n)) /\ WF_vars(SelfUpdate(n)) /\ WF_vars(Fetch(n)) /\ WF_vars(Apply(n))

---------------------------------------------------------------------------
(* Properties *)

\* What a node is asked to do: its probes with every default written out.
Executes(pol) ==
  [probes |-> {<<p.id, p.type, EffectiveIntervalSeconds(p), canonicalExpectedStatus(p)>> : p \in pol.probes},
   devices |-> pol.devices]

\* A node executes exactly what the bundle it applied was compiled from, through
\* both encodings, the agent's own canonical form and its parser; and an agent
\* too old for a member never applies the bundle and silently drops the policy.
RunsWhatWasSigned ==
  \A n \in Nodes :
    LET run == IF active[n] = NoPolicy THEN NoDraft ELSE ParseActive(active[n])
    IN Executes(run) = Executes(applied[n].src)

\* A normal deployment offers a successor policy only to agents that can apply
\* it: unless the node was reinstalled with an older binary since it last
\* reported, the installer's gate and the agent's parser accept the bundle.
NormalIsApplicable ==
  \A n \in Nodes :
    LET b == served[n] IN
    b.mode = "normal" /\ b.file.v = 2 /\ n \notin regressed /\ n \in cred => CanApply(n, b)

\* A deployment that offers a node less than its draft says so, and what it
\* leaves out is at most what needs a newer agent.
NothingStrippedSilently ==
  \A n \in Nodes :
    LET b == served[n] IN
    /\ Executes(b.src) # Executes(b.want) => n \in omitted
    /\ {p \in b.want.probes : p.type # "url"} \subseteq b.src.probes

\* Upgrade-first leads out of the deadlock in which a node needs a new agent to
\* take the policy and a deployment to get the new agent: a draft that is left
\* alone is in the end what every node executes.
Converges ==
  \A n \in Nodes :
    <>[](\A m \in Nodes : ValidNode(draft[m])) =>
      <>[](Executes(IF active[n] = NoPolicy THEN NoDraft ELSE active[n])
             = Executes(draft[n]))

\* A policy reaches a node as it was signed, or says so.
PolicyHeld == RunsWhatWasSigned /\ NormalIsApplicable /\ NothingStrippedSilently
=============================================================================
