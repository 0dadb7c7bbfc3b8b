------------------------------ MODULE MCAgent -------------------------------
(***************************************************************************)
(* What runs on a node, for TLC: the agent's cycle, its self-update, the   *)
(* rendered install.sh and the deploy-all scripts that run it by hand.     *)
(* The scenario chosen in the initial state is the one that moves, the     *)
(* others keep an initial state.                                           *)
(***************************************************************************)
EXTENDS SelfUpdate

CONSTANT None

VARIABLES
    scenario,
    srv, pin, key, state, disk, lease, proc, cur, host, inst, ran, kits, cycleFaults,
    machine, scriptRun, env, egress, scriptFaults, runs, used,
    script, tally, dirs, remote, did, deployFaults

B(at, id, epoch, cred, pol) == [at |-> at, id |-> id, epoch |-> epoch, cred |-> cred, pol |-> pol]

\* Three bundles of one membership epoch, two of them compiled in the same second.
Twins == {B(1, 1, 1, "c1", TRUE), B(1, 3, 1, "c1", FALSE), B(2, 2, 1, "c1", FALSE)}

\* A design first deployed with the keystone off, then signed, then with a new member.
Adopted == {B(1, 1, 0, None, FALSE), B(2, 2, 1, "c1", FALSE), B(2, 3, 2, "c1", FALSE)}

\* The same design before and after the keystone's credential is rotated.
Rotated == {B(1, 1, 1, "c1", FALSE), B(2, 2, 2, "c2", FALSE)}

Custody == INSTANCE AgentCycle WITH
    Catalog <- Twins, KitBundles <- Twins, Creds <- {"c1"}, FirstPin <- "c1",
    MaxGen <- 2, MaxKey <- 2, MaxFaults <- 2, MaxKits <- 1, CanClear <- FALSE,
    st <- state, faults <- cycleFaults
Adoption == INSTANCE AgentCycle WITH
    Catalog <- Adopted, KitBundles <- Adopted, Creds <- {"c1"}, FirstPin <- None,
    MaxGen <- 2, MaxKey <- 1, MaxFaults <- 1, MaxKits <- 2, CanClear <- FALSE,
    st <- state, faults <- cycleFaults
Rotation == INSTANCE AgentCycle WITH
    Catalog <- Rotated, KitBundles <- {}, Creds <- {"c1", "c2"}, FirstPin <- "c1",
    MaxGen <- 2, MaxKey <- 2, MaxFaults <- 1, MaxKits <- 0, CanClear <- TRUE,
    st <- state, faults <- cycleFaults

\* Four bundles of one node over time: a router with a mimic link that must
\* not fall back beside one that may, in native XDP mode; the same node
\* renumbered, without Babel and with a link that may fall back; plain links
\* only; and the node turned into a client.
Bundles ==
    [strict |-> [role |-> "router", babel |-> TRUE, xdp |-> "native",
                 ip |-> "ip1", cidr |-> "c1",
                 links |-> [x \in {"wg1", "wg2"} |->
                            IF x = "wg1" THEN "none" ELSE "udp"]],
     loose  |-> [role |-> "router", babel |-> FALSE, xdp |-> "",
                 ip |-> "ip2", cidr |-> "c1",
                 links |-> [x \in {"wg2"} |-> "udp"]],
     plain  |-> [role |-> "router", babel |-> TRUE, xdp |-> "",
                 ip |-> "ip2", cidr |-> "c2",
                 links |-> [x \in {"wg1"} |-> "plain"]],
     client |-> [role |-> "client", babel |-> FALSE, xdp |-> "",
                 ip |-> "ip1", cidr |-> "c1",
                 links |-> [x \in {"wg0"} |-> "none"]]]

Hosts == {e \in [module : BOOLEAN, ebpf : BOOLEAN, native : BOOLEAN, nft : BOOLEAN] :
            e.native => e.module /\ e.ebpf}

\* Three runs of install.sh with a fault; with uninstalls and two faults.
Install == INSTANCE InstallScript WITH
    Ifaces <- {"wg0", "wg1", "wg2"}, Nics <- {"eth0", "eth1"}, Names <- DOMAIN Bundles,
    Bundle <- Bundles, Envs <- Hosts, Modes <- {"install", "clean"},
    MaxRuns <- 3, MaxFaults <- 1, host <- machine, run <- scriptRun, faults <- scriptFaults
Uninstall == INSTANCE InstallScript WITH
    Ifaces <- {"wg0", "wg1", "wg2"}, Nics <- {"eth0", "eth1"}, Names <- {"strict", "client"},
    Bundle <- Bundles, Envs <- Hosts, Modes <- {"install", "uninstall", "teardown"},
    MaxRuns <- 3, MaxFaults <- 2, host <- machine, run <- scriptRun, faults <- scriptFaults

\* Two operators, one with each script, three nodes, the last without a bundle.
Deploy == INSTANCE DeployAll WITH
    Order <- <<"n1", "n2", "n3">>, HasSSH <- {"n1", "n2", "n3"}, Bundled <- {"n1", "n2"},
    Runs <- {"a", "b"}, Uninstalls <- {}, PS1 <- {"b"}, MaxFaults <- 3, faults <- deployFaults

ASSUME Custody!AgentAssumption /\ Adoption!AgentAssumption /\ Rotation!AgentAssumption
ASSUME SelfUpdateAssumption
ASSUME Deploy!DeployAllAssumption

cycleVars == <<srv, pin, key, state, disk, lease, proc, cur, host, inst, ran, kits, cycleFaults>>
installVars == <<machine, scriptRun, env, egress, scriptFaults, runs, used>>
deployVars == <<script, tally, dirs, remote, did, deployFaults>>
mcVars == <<scenario, cycleVars, vars, installVars, deployVars>>

MCInit ==
    /\ scenario \in {"custody", "adoption", "rotation", "update", "install", "uninstall",
                     "deploy"}
    /\ IF scenario = "adoption" THEN Adoption!Init ELSE Custody!Init
    /\ Init
    /\ Install!Init /\ egress = "eth0"      \* the first of two alike
    /\ scenario \notin {"install", "uninstall"} => env.native /\ env.nft
    /\ Deploy!Init

Move ==
    /\ UNCHANGED scenario
    /\ CASE scenario = "custody" -> Custody!Next
         [] scenario = "adoption" -> Adoption!Next
         [] scenario = "rotation" -> Rotation!Next
         [] OTHER -> UNCHANGED cycleVars
    /\ IF scenario = "update" THEN Next ELSE UNCHANGED vars
    /\ CASE scenario = "install" -> Install!Next
         [] scenario = "uninstall" -> Uninstall!Next
         [] OTHER -> UNCHANGED installVars
    /\ IF scenario = "deploy" THEN Deploy!Next ELSE UNCHANGED deployVars

MCSpec == MCInit /\ [][Move]_mcVars

-----------------------------------------------------------------------------
(* The properties of the instances, each on the scenarios it is about;       *)
(* UnprovenRevertible is SelfUpdate's own.                                   *)

\* AgentCycle: what a power loss leaves on disk describes the host, its policy included, and
\* killing the Go parent admits no second root installer.
DiskDescribesHost ==
    /\ Custody!OneInstaller /\ Custody!DiskDescribesHost
    /\ scenario = "custody" => Custody!PolicyOfLastGood

\* AgentCycle, SelfUpdate: no installer starts on an older bundle, epoch or trust, recovery
\* goes forward, and no path installs a binary below the confirmed floor.
OnlyForward == [][Custody!OnlyForward /\ NeverBelowFloor]_mcVars

\* InstallScript: a completed install leaves exactly its own bundle, also after a reboot, and
\* reports mimic as it runs; a link that demands mimic is never up without it; uninstalling
\* with the installed script removes everything.
HostFollowsBundle ==
    IF scenario = "uninstall" THEN Uninstall!FailClosed /\ Uninstall!CrumbTruth
                                     /\ Uninstall!UninstallMatching
    ELSE Install!HostFollowsBundle

\* DeployAll: an install runs from a directory its own script made and filled; success, and
\* exit 0, mean that it ended with 0 and nothing is left behind.
SummaryTrue == Deploy!SummaryTrue
=============================================================================
