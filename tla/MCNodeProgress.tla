--------------------------- MODULE MCNodeProgress ---------------------------
(***************************************************************************)
(* What a node must eventually do, for TLC: the agent's cycle, self-update,*)
(* device sampling, probes, adoption of a telemetry policy, and teardown   *)
(* by the deploy-all scripts.  The scenario chosen in the initial state is *)
(* the one that moves, the others keep an initial state; fairness is that  *)
(* of the scenario.                                                        *)
(***************************************************************************)
EXTENDS Naturals

CONSTANTS None, n1, b1, f1, g1, p1

VARIABLES
    scenario,
    srv, pin, key, st, state, lease, proc, cur, host, inst, ran, kits, faults,
    cat, exe, bak, run, at, upd, update, looped, fresh, proven, boots, targets, updateFaults,
    policy, hw, pc, sampler, wk, collector, pr, served, epoch, budget,
    disk, changes, hb, probes, running, cancelled, gor, slots, samples, since, kick, serial, last,
    draft, ready, keystone, level, cred, advert, offer, pending, applied, active, omitted,
    outcome, regressed, edits,
    script, tally, dirs, remote, did, deployFaults

B(when, id, epo, cr, pol) == [at |-> when, id |-> id, epoch |-> epo, cred |-> cr, pol |-> pol]

\* Two successive bundles of a fleet with the keystone, the first with a policy.
Cycle == INSTANCE AgentCycle WITH
    Catalog <- {B(1, 1, 1, "c1", TRUE), B(2, 2, 2, "c1", FALSE)}, KitBundles <- {},
    Creds <- {"c1"}, FirstPin <- "c1", MaxGen <- 2, MaxKey <- 4, MaxFaults <- 1, MaxKits <- 0,
    CanClear <- FALSE, disk <- state

\* Version 2 is bad; two rollouts, one fault.
Update == INSTANCE SelfUpdate WITH
    MaxVersion <- 3, Bad <- {2}, RollbackFaults <- {"exec"}, MaxTargets <- 2, MaxFaults <- 1,
    st <- update, faults <- updateFaults, pc <- at

\* One rollout; the rename and the re-exec of its rollback fail, too.
Rollback == INSTANCE SelfUpdate WITH
    MaxVersion <- 2, Bad <- {2}, RollbackFaults <- {"rename", "exec"}, MaxTargets <- 1,
    MaxFaults <- 3, st <- update, faults <- updateFaults, pc <- at

\* A policy granted and withdrawn; a policy granted, and a worker or a provider that panics.
\* One slot: two providers never run at once (SamplerAuthorized).
Stuck == INSTANCE DeviceSampler WITH
    Block <- {b1}, FS <- {f1}, GPU <- {g1}, Parent <- [f \in {f1} |-> b1], Slots <- {p1},
    MaxFlips <- 2, MaxPanics <- 0, MaxPlugs <- 0, s <- sampler, c <- collector
Sampler == INSTANCE DeviceSampler WITH
    Block <- {b1}, FS <- {f1}, GPU <- {g1}, Parent <- [f \in {f1} |-> b1], Slots <- {p1},
    MaxFlips <- 1, MaxPanics <- 1, MaxPlugs <- 0, s <- sampler, c <- collector

\* One probe whose cadence changes beside one that stays, one slot.
Cadences == {[i \in {"p", "q"} |-> [dest |-> "d1", every |-> IF i = "p" THEN e ELSE 1]] :
               e \in {1, 2}}
Prober == INSTANCE ProbeRunner WITH
    Policies <- Cadences, MaxSlots <- 1, Window <- 1, MaxChanges <- 2, pending <- kick

tcp == [id |-> 1, type |-> "tcp", status |-> 0, interval |-> 0, name |-> "gateway"]
teapot == [id |-> 2, type |-> "url", status |-> 418, interval |-> 0, name |-> "pot"]

\* One node with an old binary, two edits and a reinstallation.
Adopt == INSTANCE TelemetryPolicy WITH
    Nodes <- {n1}, Levels <- {1, 3}, NewLevel <- 3, MaxEdits <- 2, MaxFaults <- 1,
    Drafts <- {[probes |-> {}, devices |-> "none"], [probes |-> {tcp}, devices |-> "none"],
               [probes |-> {tcp, teapot}, devices |-> "all-eligible"]},
    served <- offer, budget <- edits

\* Two operators tear a fleet of three down, one with each script.
Teardown == INSTANCE DeployAll WITH
    Order <- <<"n1", "n2", "n3">>, HasSSH <- {"n1", "n2"}, Bundled <- {"n1", "n2"},
    Runs <- {"a", "b"}, Uninstalls <- {"a", "b"}, PS1 <- {"b"}, MaxFaults <- 1,
    faults <- deployFaults

ASSUME Cycle!AgentAssumption /\ Sampler!DeviceAssumption
ASSUME Update!SelfUpdateAssumption /\ Rollback!SelfUpdateAssumption
ASSUME Teardown!DeployAllAssumption

cycleVars == <<srv, pin, key, st, state, lease, proc, cur, host, inst, ran, kits, faults>>
updateVars == <<cat, exe, bak, run, at, upd, update, looped, fresh, proven, boots, targets,
                updateFaults>>
samplerVars == <<policy, hw, pc, sampler, wk, collector, pr, served, epoch, budget>>
probeVars == <<disk, changes, hb, probes, running, cancelled, gor, slots, samples, since,
               kick, serial, last>>
policyVars == <<draft, ready, keystone, level, cred, advert, offer, pending, applied, active,
                omitted, outcome, regressed, edits>>
deployVars == <<script, tally, dirs, remote, did, deployFaults>>
mcVars == <<scenario, cycleVars, updateVars, samplerVars, probeVars, policyVars, deployVars>>

\* "stuck": nothing is asked of the provider, which may sit in a driver call for ever.
MCInit ==
    /\ scenario \in {"cycle", "update", "rollback", "stuck", "sampler", "prober", "adopt",
                     "teardown"}
    /\ Cycle!Init /\ Update!Init
    /\ IF scenario = "stuck" THEN Stuck!Init ELSE Sampler!Init
    /\ Prober!Init
    /\ Adopt!Init /\ (scenario # "adopt" => ready = {} /\ level = [n \in {n1} |-> 3])
    /\ Teardown!Init

Move ==
    /\ UNCHANGED scenario
    /\ IF scenario = "cycle" THEN Cycle!Next ELSE UNCHANGED cycleVars
    /\ CASE scenario = "update" -> Update!Next
         [] scenario = "rollback" -> Rollback!Next
         [] OTHER -> UNCHANGED updateVars
    /\ CASE scenario = "stuck" -> Stuck!Next
         [] scenario = "sampler" -> Sampler!Next
         [] OTHER -> UNCHANGED samplerVars
    /\ IF scenario = "prober" THEN Prober!Next ELSE UNCHANGED probeVars
    /\ IF scenario = "adopt" THEN Adopt!Operated ELSE UNCHANGED policyVars
    /\ IF scenario = "teardown" THEN Teardown!Next ELSE UNCHANGED deployVars

(* systemd restarts the daemon, whose loop never stops, and a script ends;   *)
(* the heartbeat keeps calling Sample, timers fire, goroutines and free      *)
(* slots are scheduled; the operator deploys what is ready and upgrades      *)
(* first when told to; remote commands end and the local scripts go on.      *)
CycleFairness ==
    /\ WF_cycleVars(scenario = "cycle" /\ Cycle!Daemon)
    /\ \A p \in Cycle!Proc : WF_cycleVars(scenario = "cycle" /\ Cycle!GuardianExits(p))
UpdateFairness ==
    /\ WF_updateVars(scenario = "update" /\ Update!Boot)
    /\ WF_updateVars(scenario = "update" /\ Update!Process)
    /\ WF_updateVars(scenario = "update" /\ run = 2 /\ Update!Crash)
SamplerFairness ==
    /\ WF_samplerVars(scenario \in {"stuck", "sampler"} /\ Sampler!SampleGranted)
    /\ WF_samplerVars(scenario \in {"stuck", "sampler"} /\ Sampler!SampleRevoked)
    /\ WF_samplerVars(scenario \in {"stuck", "sampler"} /\ Sampler!ResetRateBaselines)
    /\ \A g \in 1 .. 5 : WF_samplerVars(scenario \in {"stuck", "sampler"} /\ g \in DOMAIN wk /\ Sampler!Worker(g))
    /\ WF_samplerVars(scenario = "sampler" /\ Sampler!Provider(p1))
ProberFairness ==
    /\ WF_probeVars(scenario = "prober" /\ Prober!Sample)
    /\ \A i \in {"p", "q"}, n \in 0 .. 2 :
          /\ WF_probeVars(scenario = "prober" /\ Prober!Step(i, n))
          /\ SF_probeVars(scenario = "prober" /\ Prober!Take(i, n))
AdoptFairness ==
    /\ WF_policyVars(scenario = "adopt" /\ Adopt!DeployWhenReady)
    /\ WF_policyVars(scenario = "adopt" /\ Adopt!DeployUpgradeFirst)
    /\ WF_policyVars(scenario = "adopt" /\ Adopt!Enroll)
    /\ WF_policyVars(scenario = "adopt" /\ Adopt!PinKeystone)
    /\ WF_policyVars(scenario = "adopt" /\ Adopt!GiveCredential)
    /\ WF_policyVars(scenario = "adopt" /\ Adopt!Advertise(n1))
    /\ WF_policyVars(scenario = "adopt" /\ Adopt!SelfUpdate(n1))
    /\ WF_policyVars(scenario = "adopt" /\ Adopt!Fetch(n1))
    /\ WF_policyVars(scenario = "adopt" /\ Adopt!Apply(n1))
TeardownFairness ==
    /\ \A r \in {"a", "b"} : WF_deployVars(scenario = "teardown" /\ Teardown!Local(r))
    /\ WF_deployVars(scenario = "teardown" /\ Teardown!Remote)

MCSpec ==
    /\ MCInit /\ [][Move]_mcVars
    /\ CycleFairness /\ UpdateFairness /\ SamplerFairness /\ ProberFairness
    /\ AdoptFairness /\ TeardownFairness

-----------------------------------------------------------------------------
(* The properties of the instances, each on the scenarios it is about.       *)

\* AgentCycle, SelfUpdate, TelemetryPolicy: once faults stop, the node runs the promoted
\* bundle and one key, a binary that cannot run is rolled back for good and one that can is
\* installed, and a draft that is left alone is what the node executes.  A daemon never
\* installs again a bundle that it committed, and the crash-loop ceiling bounds the starts of
\* a binary also when its rollback fails.
NodesSettle ==
    /\ [][scenario = "cycle" => Cycle!NoRootRerun]_mcVars
    /\ scenario = "cycle" => Cycle!Converges
    /\ scenario = "cycle" => Cycle!RotationSettles
    /\ [](scenario = "rollback" => Rollback!BoundedBoots)
    /\ scenario = "update" => Update!BadIsRolledBack
    /\ scenario = "update" => Update!RolloutLands
    /\ scenario = "adopt" => Adopt!Converges

\* DeviceSampler, ProbeRunner, DeployAll: a hanging provider does not end device telemetry,
\* the one-worker latch is released, every probe is probed again and again, and a script
\* comes to the end of its nodes.
NothingStalls ==
    /\ scenario = "stuck" => Stuck!Served
    /\ scenario = "sampler" => Sampler!LatchReleased
    /\ scenario = "prober" => Prober!Probed
    /\ scenario = "teardown" => Teardown!EveryNodeVisited
=============================================================================
