---------------------------- MODULE InstallScript ----------------------------
(***************************************************************************)
(* install.sh on one host: the script internal/renderer/script.go fills in *)
(* from templates/install.sh.tmpl (routers and peers) or                   *)
(* client-install.sh.tmpl (clients).  It runs as a sequence of steps under *)
(* `set -e`; it can be killed between any two of them (the agent's apply   *)
(* timeout, a lost SSH session, a command that fails), the host can reboot *)
(* at any moment, and the next run starts from whatever is there.          *)
(*                                                                         *)
(* `host` is what the script manages: live kernel and daemon state, and    *)
(* the files and enabled units a boot rebuilds it from.  `run` is the      *)
(* script that is running or ran last.  The bundle an interface or daemon  *)
(* was configured from is recorded by name.                                *)
(***************************************************************************)
EXTENDS Naturals, FiniteSets

CONSTANTS
    Ifaces,         \* WireGuard interface names
    Nics,           \* candidate egress interfaces
    Names,          \* names of the bundles the operator deploys
    Bundle,         \* [Names -> what the renderer put in the script]
    Envs,           \* hosts: what the kernel and the distribution offer
    Modes,          \* subset of {"install", "clean", "uninstall", "teardown"}
    MaxRuns,        \* bound on script runs
    MaxFaults       \* bound on kills, reboots, failed commands, route moves

VARIABLES host, run, env, egress, faults, runs, used
vars == <<host, run, env, egress, faults, runs, used>>

Nothing == "none"

------------------------------------------------------------------------------
(* What the renderer decides.  A link is "plain", or a mimic link with the *)
(* fallback policy "udp" or "none".                                        *)

Links(b) == Bundle[b].links
Listed(b) == DOMAIN Links(b)
Router(b) == Bundle[b].role = "router"
HasBabel(b) == Bundle[b].babel
MimicLinks(b) == {i \in Listed(b) : Links(b)[i] # "plain"}
HasMimic(b) == MimicLinks(b) # {}

resolveMimicFallbackUDP(b) ==
    MimicLinks(b) # {} /\ \A i \in MimicLinks(b) : Links(b)[i] = "udp"

resolveMimicXDPMode(b) == IF Bundle[b].xdp = "native" THEN "native" ELSE "skb"

\* What deploy-all --uninstall knows of the node ("teardown": the same steps,
\* sent over SSH instead of read from the installed bundle).
NodeInfo(b) ==
    [ifaces |-> IF Router(b) THEN Listed(b) ELSE {"wg0"},
     mimic  |-> HasMimic(b),
     babel  |-> Router(b) /\ HasBabel(b)]

Rule(b) == [nft |-> env.nft, cidr |-> Bundle[b].cidr, ip |-> Bundle[b].ip]

------------------------------------------------------------------------------
(* The host.                                                               *)

Bare == [wg           |-> [i \in Ifaces |-> Nothing],   \* running, from bundle
         wgConf       |-> [i \in Ifaces |-> Nothing],
         wgEnabled    |-> {},
         unit         |-> [n \in Nics |-> "dead"],   \* mimic@n
         mimicConf    |-> [n \in Nics |-> Nothing],
         mimicEnabled |-> {},
         babel        |-> Nothing,
         babelConf    |-> Nothing,
         babelEnabled |-> FALSE,
         dummy        |-> Nothing,                      \* overlay address
         dummySvc     |-> Nothing,
         snat         |-> {},
         snatSvc      |-> {},
         sysctl       |-> Nothing,
         crumb        |-> [outcome |-> Nothing, nic |-> Nothing]]

Up(h) == {n \in Nics : h.unit[n] = "up"}

\* mimic loads when its module does, in a mode the NIC's driver supports.
CanRun(mode) ==
    /\ mode # Nothing
    /\ env.module /\ env.ebpf
    /\ mode = "native" => env.native

\* A boot drops the live state and starts what is enabled and configured.
Boot(h) ==
    [h EXCEPT !.wg = [i \in Ifaces |-> IF i \in h.wgEnabled
                                       THEN h.wgConf[i] ELSE Nothing],
              !.unit = [n \in Nics |-> IF n \notin h.mimicEnabled THEN "dead"
                                       ELSE IF CanRun(h.mimicConf[n])
                                       THEN "up" ELSE "failed"],
              !.babel = IF h.babelEnabled THEN h.babelConf ELSE Nothing,
              !.dummy = h.dummySvc,
              !.snat = h.snatSvc]

Idle == [pc |-> "idle", b |-> Nothing, mode |-> Nothing, skip |-> FALSE,
         todo |-> {}, failed |-> {}, why |-> Nothing, nic |-> Nothing,
         outcome |-> Nothing, torn |-> FALSE]

Init ==
    /\ host = Bare
    /\ run = Idle
    /\ env \in Envs
    /\ egress \in Nics
    /\ faults = 0 /\ runs = 0 /\ used = {}

------------------------------------------------------------------------------
(* One step of the script: at `here`, leaving the host as h and the        *)
(* script's locals as r.                                                   *)

b0 == run.b
Step(here, h, r) ==
    /\ run.pc = here
    /\ host' = h /\ run' = r
    /\ UNCHANGED <<env, egress, runs, used>>
To(pc) == [run EXCEPT !.pc = pc]
Exit(outcome) == [run EXCEPT !.pc = "idle", !.outcome = outcome]
Works == faults' = faults
Fails == faults < MaxFaults /\ faults' = faults + 1

\* The breadcrumb file; the NIC is known to the script from Phase 3 on.
Crumb(h, outcome) == [h EXCEPT !.crumb = [outcome |-> outcome,
                                          nic |-> run.nic]]

Start(b, mode) ==
    /\ run.pc = "idle" /\ runs < MaxRuns
    /\ runs' = runs + 1
    /\ used' = used \cup {<<b, egress>>}
    /\ run' = [Idle EXCEPT !.pc = IF mode = "teardown" THEN "u_mimic"
                                  ELSE "preflight", !.b = b, !.mode = mode,
                           !.torn = run.torn]
    /\ UNCHANGED <<host, env, egress, faults>>

\* Capabilities, signature, checksums, root: all before the first change.
Preflight ==
    \/ /\ Step("preflight", host,
               To(CASE run.mode = "uninstall" -> "u_mimic"
                    [] run.mode = "clean"     -> "clean"
                    [] OTHER                  -> "p0_mimic"))
       /\ Works
    \/ Step("preflight", host, Exit("refused")) /\ Fails

------------------------------------------------------------------------------
(* --uninstall.                                                            *)

StopMimic(h, S) ==
    [h EXCEPT !.unit = [n \in Nics |-> IF n \in S THEN "dead" ELSE @[n]],
              !.mimicEnabled = @ \ S]
DropMimicConf(h, S) ==
    [h EXCEPT !.mimicConf = [n \in Nics |-> IF n \in S THEN Nothing ELSE @[n]]]

\* The egress NIC is detected again, as the installer did.
UninstallMimic ==
    /\ Step("u_mimic",
            IF NodeInfo(b0).mimic
            THEN DropMimicConf(StopMimic(host, {egress}), {egress}) ELSE host,
            To("u_wg"))
    /\ Works

\* wg-quick down and disable, for the listed and for every other running one.
Running(h) == {i \in Ifaces : h.wg[i] # Nothing}
StopWg(h, S) ==
    [h EXCEPT !.wg = [i \in Ifaces |-> IF i \in S THEN Nothing ELSE @[i]],
              !.wgEnabled = @ \ S]
DropConfs(h) == [h EXCEPT !.wgConf = [i \in Ifaces |-> Nothing]]

UninstallWg ==
    /\ Step("u_wg", DropConfs(StopWg(host, NodeInfo(b0).ifaces
                                           \cup Running(host))),
            [To("u_babel") EXCEPT !.torn = FALSE])
    /\ Works

StopBabel(h) == [h EXCEPT !.babel = Nothing, !.babelEnabled = FALSE,
                          !.babelConf = Nothing]

UninstallBabel ==
    /\ Step("u_babel", IF NodeInfo(b0).babel THEN StopBabel(host) ELSE host,
            To("u_sysctl"))
    /\ Works

UninstallSysctl ==
    /\ Step("u_sysctl", [host EXCEPT !.sysctl = Nothing],
            IF Router(b0) THEN To("u_snat") ELSE Exit("uninstalled"))
    /\ Works

\* nft: the whole table.  iptables: every rule of this transit pool.
SnatCleanup(h, b) ==
    [h EXCEPT !.snat = {r \in @ : ~r.nft /\ r.cidr # Bundle[b].cidr}]

\* deploy-all matches no pool: it deletes every SNAT rule on wg-+.
TeardownSnat(h) == [h EXCEPT !.snat = {}]

UninstallSnat ==
    /\ Step("u_snat",
            [IF run.mode = "teardown" THEN TeardownSnat(host)
             ELSE SnatCleanup(host, b0) EXCEPT !.snatSvc = {}], To("u_dummy"))
    /\ Works

UninstallDummy ==
    /\ Step("u_dummy", [host EXCEPT !.dummy = Nothing, !.dummySvc = Nothing],
            Exit("uninstalled"))
    /\ Works

------------------------------------------------------------------------------
(* --clean, and Phase 0.                                                   *)

\* Interfaces go down without their units being disabled; the client script
\* has no SNAT part.
Clean ==
    /\ LET h == [DropConfs(host) EXCEPT !.wg = [i \in Ifaces |-> Nothing]]
       IN  Step("clean", IF Router(b0)
                         THEN [h EXCEPT !.snat = {}, !.snatSvc = {}] ELSE h,
                To("p0_mimic"))
    /\ Works

\* `systemctl list-units` shows the active and the failed units.
Phase0MimicOwn ==
    /\ Step("p0_mimic",
            IF HasMimic(b0) THEN DropMimicConf(StopMimic(host, Nics), Nics)
            ELSE host, To("p0_wg"))
    /\ Works

Phase0Mimic ==
    /\ Step("p0_mimic",
            DropMimicConf(StopMimic(host, {n \in Nics :
                                           host.unit[n] # "dead"}), Nics),
            To("p0_wg"))
    /\ Works

Phase0Wg ==
    /\ Step("p0_wg", DropConfs(StopWg(host, Listed(b0) \cup Running(host))),
            [To("p0_babel") EXCEPT !.torn = FALSE])
    /\ Works

Phase0Babel ==
    /\ Step("p0_babel",
            [IF Router(b0) /\ HasBabel(b0) THEN StopBabel(host) ELSE host
             EXCEPT !.sysctl = Nothing], To("p1_mimic"))
    /\ Works

------------------------------------------------------------------------------
(* Phase 1.                                                                *)

\* Not provisioned: skip mimic when every mimic link allows it, else exit.
Unprovisioned(outcome) ==
    Step("p1_mimic", Crumb(host, outcome),
         IF resolveMimicFallbackUDP(b0)
         THEN [To("p1_tools") EXCEPT !.skip = TRUE, !.why = outcome]
         ELSE Exit("failed"))

Phase1Mimic ==
    \/ ~HasMimic(b0) /\ Step("p1_mimic", host, To("p1_tools")) /\ Works
    \/ HasMimic(b0) /\ Unprovisioned("install_failed") /\ Fails
    \/ HasMimic(b0) /\ ~env.module /\ Unprovisioned("module_unavailable")
       /\ Works
    \/ HasMimic(b0) /\ env.module /\ Step("p1_mimic", host, To("p1_tools"))
       /\ Works

\* A required tool could not be installed.
Phase1Tools ==
    \/ Step("p1_tools", host, To(IF Router(b0) THEN "p1_dummy" ELSE "p2_conf"))
       /\ Works
    \/ Step("p1_tools", host, Exit("failed")) /\ Fails

Phase1Dummy ==
    /\ Step("p1_dummy", [host EXCEPT !.dummy = Bundle[b0].ip], To("p1_svc"))
    /\ Works

Phase1DummySvc ==
    /\ Step("p1_svc", [host EXCEPT !.dummySvc = Bundle[b0].ip], To("p1_snat"))
    /\ Works

Phase1Snat ==
    /\ Step("p1_snat",
            [SnatCleanup(host, b0) EXCEPT !.snat = @ \cup {Rule(b0)}],
            To("p1_snatsvc"))
    /\ Works

Phase1SnatSvc ==
    /\ Step("p1_snatsvc", [host EXCEPT !.snatSvc = {Rule(b0)}], To("p2_conf"))
    /\ Works

------------------------------------------------------------------------------
(* Phase 2 and Phase 3.                                                    *)

\* Copies every conf, with the agent's own key spliced in when the bundle
\* carries the placeholder; no key, no install.
Phase2Conf ==
    \/ /\ Step("p2_conf",
               [host EXCEPT !.wgConf = [i \in Ifaces |->
                   IF i \in Listed(b0) THEN b0 ELSE @[i]]], To("p2_babel"))
       /\ Works
    \/ Step("p2_conf", host, Exit("failed")) /\ Fails

Phase2Babel ==
    /\ Step("p2_babel",
            [host EXCEPT !.babelConf = IF Router(b0) /\ HasBabel(b0)
                                       THEN b0 ELSE @,
                         !.sysctl = b0], To("p3_egress"))
    /\ Works

WgNext == [run EXCEPT !.pc = "p3_wg", !.todo = Listed(b0)]

\* Without a usable egress or eBPF: plain UDP, or exit.
Unusable(outcome) ==
    LET r == [run EXCEPT !.nic = egress]
        h == [host EXCEPT !.crumb = [outcome |-> outcome, nic |-> egress]]
    IN  Step("p3_egress", h,
             IF resolveMimicFallbackUDP(b0)
             THEN [r EXCEPT !.pc = "p3_wg", !.todo = Listed(b0)]
             ELSE [r EXCEPT !.pc = "idle", !.outcome = "failed"])

Phase3Egress ==
    \/ ~HasMimic(b0) /\ Step("p3_egress", host, WgNext) /\ Works
    \/ HasMimic(b0) /\ run.skip
       /\ Step("p3_egress", Crumb(host, "fell_back_to_udp"), WgNext) /\ Works
    \/ HasMimic(b0) /\ ~run.skip /\ Unusable("egress_unresolved") /\ Fails
    \/ HasMimic(b0) /\ ~run.skip /\ ~env.ebpf /\ Unusable("kernel_too_old")
       /\ Works
    \/ /\ HasMimic(b0) /\ ~run.skip /\ env.ebpf
       /\ Step("p3_egress", host, [To("p3_conf") EXCEPT !.nic = egress])
       /\ Works

\* The whitelist of filters and the XDP mode; enabled for boot, stopped.
Phase3MimicConf ==
    /\ Step("p3_conf",
            [host EXCEPT !.mimicConf[run.nic] = resolveMimicXDPMode(b0),
                         !.mimicEnabled = @ \cup {run.nic},
                         !.unit[run.nic] = "dead"], To("p3_mimic"))
    /\ Works

MimicStarted(h, outcome) ==
    Step("p3_mimic", Crumb([h EXCEPT !.unit[run.nic] = "up"], outcome), WgNext)

MimicFailed ==
    LET n == run.nic
        h == Crumb(host, "ebpf_load_failed")
    IN  Step("p3_mimic",
             IF resolveMimicFallbackUDP(b0)
             THEN DropMimicConf(StopMimic(h, {n}), {n})
             ELSE [h EXCEPT !.unit[n] = "failed"],
             IF resolveMimicFallbackUDP(b0) THEN WgNext ELSE Exit("failed"))

\* Started in the written mode; or a native attach failed and skb works; or
\* neither, for a reason that may be gone at the next try.
Phase3Mimic ==
    /\ run.pc = "p3_mimic"
    /\ \/ CanRun(host.mimicConf[run.nic]) /\ MimicStarted(host, "active") /\ Works
       \/ /\ host.mimicConf[run.nic] = "native" /\ CanRun("skb")
          /\ MimicStarted([host EXCEPT !.mimicConf[run.nic] = "skb"],
                          "native_downgraded_skb")
          /\ IF env.native THEN Fails ELSE Works
       \/ MimicFailed /\ Fails

\* wg-quick up fails on an interface that exists; the unit is enabled anyway.
Phase3Wg ==
    \E i \in run.todo :
        LET rest == [run EXCEPT !.todo = @ \ {i}]
            h    == [host EXCEPT !.wgEnabled = @ \cup {i}]
        IN  \/ /\ host.wg[i] = Nothing
               /\ Step("p3_wg", [h EXCEPT !.wg[i] = host.wgConf[i]], rest)
               /\ Works
            \/ /\ Step("p3_wg", h, [rest EXCEPT !.failed = @ \cup {i}])
               /\ IF host.wg[i] = Nothing THEN Fails ELSE Works

Phase3Babel ==
    /\ run.todo = {}
    /\ Step("p3_wg",
            IF Router(b0) /\ HasBabel(b0)
            THEN [host EXCEPT !.babel = host.babelConf, !.babelEnabled = TRUE]
            ELSE host,
            Exit(IF run.failed = {} THEN "installed" ELSE "failed"))
    /\ Works

------------------------------------------------------------------------------
(* What happens to the host and the script.                                *)

\* mimic is stopped before WireGuard; a run cut in between leaves it so.
Cut == [run EXCEPT !.pc = "idle",
                   !.outcome = IF run.pc = "idle" THEN @ ELSE "cut",
                   !.torn = @ \/ run.pc \in {"p0_wg", "u_wg"}]

Kill ==
    /\ run.pc # "idle" /\ run' = Cut /\ Fails
    /\ UNCHANGED <<host, env, egress, runs, used>>

Reboot ==
    /\ host' = Boot(host) /\ run' = Cut /\ Fails
    /\ UNCHANGED <<env, egress, runs, used>>

\* The default route moves to another NIC while no script runs.
NewRoute(n) ==
    /\ run.pc = "idle" /\ n # egress /\ egress' = n /\ Fails
    /\ UNCHANGED <<host, run, env, runs, used>>

Script ==
    /\ run.pc # "idle"
    /\ \/ Preflight
       \/ UninstallMimic \/ UninstallWg \/ UninstallBabel \/ UninstallSysctl
       \/ UninstallSnat \/ UninstallDummy
       \/ Clean \/ Phase0Mimic \/ Phase0Wg \/ Phase0Babel
       \/ Phase1Mimic \/ Phase1Tools \/ Phase1Dummy \/ Phase1DummySvc
       \/ Phase1Snat \/ Phase1SnatSvc
       \/ Phase2Conf \/ Phase2Babel
       \/ Phase3Egress \/ Phase3MimicConf \/ Phase3Mimic \/ Phase3Wg
       \/ Phase3Babel

Next ==
    \/ \E b \in Names, mode \in Modes : Start(b, mode)
    \/ Script
    \/ Kill \/ Reboot
    \/ \E n \in Nics : NewRoute(n)

Spec == Init /\ [][Next]_vars

------------------------------------------------------------------------------
(* What the agent reports of mimic.                                        *)

expectsMimicRunning(outcome) ==
    outcome \in {"active", "native_downgraded_skb"}

\* Nothing when the breadcrumb is absent; "stopped" when the live unit disagrees.
readMimicCondition(h) ==
    LET c == h.crumb
    IN  IF c.nic # Nothing /\ expectsMimicRunning(c.outcome)
           /\ h.unit[c.nic] # "up"
        THEN "stopped" ELSE c.outcome

------------------------------------------------------------------------------
(* Properties.                                                             *)

\* The live host is what bundle b describes, in the parts b manages.
Matches(h, b) ==
    /\ \A i \in Ifaces : h.wg[i] = IF i \in Listed(b) THEN b ELSE Nothing
    /\ Up(h) = IF expectsMimicRunning(h.crumb.outcome) /\ HasMimic(b)
               THEN {run.nic} ELSE {}
    /\ Router(b) /\ HasBabel(b) => h.babel = b
    /\ Router(b) => /\ h.dummy = Bundle[b].ip
                    /\ {r \in h.snat : r.nft \/ r.cidr = Bundle[b].cidr}
                          = {Rule(b)}

\* Whatever earlier runs of other bundles left, cut short at any step, a run
\* that ends in "Installation complete" leaves the host running exactly its
\* own bundle, and a reboot restores the same: no interface, SNAT rule or
\* mimic unit of an earlier bundle, no native XDP mode the NIC cannot attach.
InstallSettles ==
    run.pc = "idle" /\ run.outcome = "installed"
        => Matches(host, run.b) /\ Matches(Boot(host), run.b)

\* An interface whose link demands mimic ("none": no plain UDP) is up only
\* while a mimic unit is: through failed provisioning, downgrades, failed and
\* repeated runs, kills and reboots.  The one gap is Phase 0 (or uninstall)
\* itself, which stops mimic before WireGuard; a run cut there stays exposed
\* until the next run passes that point.
FailClosed ==
    \A i \in Ifaces :
        /\ host.wg[i] # Nothing /\ Links(host.wg[i])[i] = "none"
        /\ ~run.torn /\ run.pc \notin {"p0_wg", "u_wg"}
        => Up(host) # {}

\* After a completed install of a bundle with mimic links the condition the
\* agent reports from the breadcrumb says "running" exactly when a mimic unit
\* runs, and never that a unit it expects has stopped.
CrumbTruth ==
    run.pc = "idle" /\ run.outcome = "installed" /\ HasMimic(run.b)
        => LET c == readMimicCondition(host)
           IN  c # "stopped" /\ (expectsMimicRunning(c) <=> Up(host) # {})

Removed(h) == [h EXCEPT !.crumb = Bare.crumb] = Bare

\* Uninstalling with the script that was installed, on the same default
\* route, removes everything the installs (complete or cut short) made,
\* enabled units and files included; only the mimic breadcrumb stays.
UninstallMatching ==
    run.outcome = "uninstalled" /\ used = {<<run.b, egress>>}
        => Removed(host)

\* The host follows the bundle: a completed install is exact and reported truthfully, and
\* a link that demands mimic is never up without it.
HostFollowsBundle == InstallSettles /\ CrumbTruth /\ FailClosed
==============================================================================
