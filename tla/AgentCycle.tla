----------------------------- MODULE AgentCycle -----------------------------
(***************************************************************************)
(* One node: the controller-mode daemon and a manual `kit apply` that      *)
(* share a state directory, and the root installer they run (agent.go,     *)
(* apply_intent.go, cycle.go, state.go, state_lock.go, keygen.go,          *)
(* reprovision.go, controller_client.go, cmd/agent/main.go).               *)
(*                                                                         *)
(* The custody lease is a non-blocking flock; the guardian of install.sh   *)
(* inherits it, so a killed parent leaves it held until the script ends.   *)
(* state.json is replaced by a rename and a directory sync: a failed save  *)
(* may have published a record that a power loss takes back (st, disk).    *)
(* A bundle is a record: compiled_at, its content (manifest checksum and   *)
(* digest), the trust-list epoch, the credential that signed the trust     *)
(* list, and whether it carries an active telemetry policy.                *)
(***************************************************************************)
EXTENDS Naturals, FiniteSets

CONSTANTS
    Catalog,     \* the bundles that can be promoted or carried to the node
    KitBundles,  \* those of them an operator applies by hand
    Creds,       \* operator credentials
    FirstPin,    \* the credential pinned at first, or None
    MaxGen,      \* bound: tenant generations
    MaxKey,      \* bound: WireGuard keys generated
    MaxFaults,   \* bound: crashes, I/O errors, lost calls
    MaxKits,     \* bound: manual applies
    CanClear,    \* the operator clears rekey flags
    None

Bundle == [at : Nat \ {0}, id : Nat, epoch : Nat, cred : Creds \cup {None}, pol : BOOLEAN]

AgentAssumption ==
    /\ Catalog \subseteq Bundle /\ KitBundles \subseteq Catalog
    /\ FirstPin \in Creds \cup {None} /\ None \notin Creds
    /\ {MaxGen, MaxKey, MaxFaults, MaxKits} \subseteq Nat
    /\ CanClear \in BOOLEAN

Proc == {"daemon", "kit"}
Action == {"apply", "uninstall"}

VARIABLES
    srv,     \* the controller: tenant generation, promoted bundle, this node's record
    pin,     \* operator-cred.pem
    key,     \* /etc/wireguard/agent.key
    st,      \* state.json as readers see it
    disk,    \* state.json as it survives a power loss
    lease,   \* who holds .run.lock
    proc,    \* the run() of each process
    cur,     \* the daemon's cursor and what its client remembers
    host,    \* what install.sh left on the host
    inst,    \* the installers running, by the process that started them
    ran,     \* ghost: bundle generations this daemon committed and nobody replaced
    kits, faults

vars == <<srv, pin, key, st, disk, lease, proc, cur, host, inst, ran, kits, faults>>

\* The pending root mutation, with the floors and the anchor it was verified under.
Intent == [b : Catalog, act : Action, cred : Creds \cup {None}]

State == [at : Nat, id : Nat \cup {None}, act : Action \cup {None}, epoch : Nat,
          ver : BOOLEAN, result : {"none", "pending", "ok", "error"},
          pend : Intent \cup {None}, pol : BOOLEAN]

NoState == [at |-> 0, id |-> None, act |-> None, epoch |-> 0, ver |-> FALSE,
            result |-> "none", pend |-> None, pol |-> FALSE]

Off == [pc |-> "off", b |-> None, act |-> "apply", cred |-> None, prev |-> NoState]
NoCursor == [after |-> 0, polled |-> 0, gen |-> 0, rekey |-> FALSE, b |-> None, prior |-> 0]

Init ==
    /\ srv = [gen |-> 0, b |-> None, bgen |-> 0, bkey |-> 1, rekey |-> FALSE,
              reg |-> 1, applied |-> 0]
    /\ pin = FirstPin
    /\ key = 1
    /\ st = NoState /\ disk = NoState
    /\ lease = "free"
    /\ proc = [p \in Proc |-> Off]
    /\ cur = NoCursor
    /\ host = [b |-> None, gen |-> 0, act |-> None, whole |-> TRUE, ver |-> FALSE, key |-> 1]
    /\ inst = {}
    /\ ran = {}
    /\ kits = 0 /\ faults = 0

\* A failure the environment chooses; each use costs one of MaxFaults.
Fails == faults < MaxFaults /\ faults' = faults + 1
Works == faults' = faults

Higher(a, b) == IF a > b THEN a ELSE b

-----------------------------------------------------------------------------
(* The controller and the operator.                                        *)

\* Stage and promote a newer bundle, compiled for the registered key.
Promote(b) ==
    /\ srv.gen < MaxGen
    /\ srv.b # None => b.at > srv.b.at
    /\ srv' = [srv EXCEPT !.gen = @ + 1, !.b = b, !.bgen = srv.gen + 1, !.bkey = srv.reg]
    /\ UNCHANGED <<pin, key, st, disk, lease, proc, cur, host, inst, ran, kits, faults>>

\* rekey-all: flag the node and bump the generation without a new bundle.
RekeyAll ==
    /\ srv.gen < MaxGen /\ srv.b # None
    /\ srv' = [srv EXCEPT !.gen = @ + 1, !.rekey = TRUE]
    /\ UNCHANGED <<pin, key, st, disk, lease, proc, cur, host, inst, ran, kits, faults>>

\* A promote or a bump for the sake of other nodes.
BumpGeneration ==
    /\ srv.gen < MaxGen /\ srv.b # None
    /\ srv' = [srv EXCEPT !.gen = @ + 1]
    /\ UNCHANGED <<pin, key, st, disk, lease, proc, cur, host, inst, ran, kits, faults>>

ClearRekey ==
    /\ CanClear /\ srv.rekey
    /\ srv' = [srv EXCEPT !.rekey = FALSE]
    /\ UNCHANGED <<pin, key, st, disk, lease, proc, cur, host, inst, ran, kits, faults>>

\* reprovision-keystone rewrites the pin; it takes no lease and leaves state.json alone.
\* The command then restarts the daemon (Crash and Start).
ReprovisionKeystone(c) ==
    /\ c # pin /\ pin # None
    /\ pin' = c
    /\ UNCHANGED <<srv, key, st, disk, lease, proc, cur, host, inst, ran, kits, faults>>

-----------------------------------------------------------------------------
(* state.json                                                              *)

\* Replace the record.  An error may follow the rename.
SaveState(s, ok) ==
    \/ ok /\ Works /\ st' = s /\ disk' = s
    \/ ~ok /\ Fails /\ st' \in {st, s} /\ UNCHANGED disk

\* The epoch a run relies on: nothing is verified without a pinned credential.
VerifiedEpoch(b, cred) == IF cred = None THEN 0 ELSE b.epoch

effectiveMembershipFloor(s) ==
    IF s.pend = None THEN s.epoch ELSE Higher(s.epoch, VerifiedEpoch(s.pend.b, s.pend.cred))

effectiveRollbackState(s) ==
    IF s.pend = None THEN s.at ELSE Higher(s.at, s.pend.b.at)

\* The unresolved apply is resumed under the credential it was verified with.
validatePendingApply(s, cred) == s.pend # None /\ s.pend.cred # None => cred = s.pend.cred

\* Once a membership was verified, a run without a credential is refused.
KeystoneSticky(s, cred) == (s.ver \/ s.epoch > 0) => cred # None

\* Mutant: the same compiled_at is taken for the same bundle.
SameSecondSameBundle(s, b, act) == s.pend # None => act = s.pend.act

\* Same action; at the same compiled_at, the same bytes.
validateCandidateAgainstPending(s, b, act) ==
    s.pend # None => act = s.pend.act /\ (b.at = s.pend.b.at => b.id = s.pend.b.id)

CheckRollback(s, b) == b.at >= effectiveRollbackState(s)

candidateTelemetryPolicy(b, cred) == b.pol => cred # None

VerifyMembership(s, b, cred) ==
    cred # None => b.cred = cred /\ b.epoch >= effectiveMembershipFloor(s)

Verified(s, b, act, cred) ==
    /\ candidateTelemetryPolicy(b, cred)
    /\ VerifyMembership(s, b, cred)
    /\ CheckRollback(s, b)
    /\ validateCandidateAgainstPending(s, b, act)

IntentOf(r) == [b |-> r.b, act |-> r.act, cred |-> r.cred]

\* An exact retry keeps the record; anything else replaces the intent.
IntentState(r) ==
    IF r.prev.pend = IntentOf(r) THEN r.prev
    ELSE [r.prev EXCEPT !.pend = IntentOf(r), !.result = "pending"]

recordSuccess(r) ==
    [at |-> r.b.at, id |-> r.b.id, act |-> r.act, result |-> "ok", pend |-> None,
     epoch |-> Higher(VerifiedEpoch(r.b, r.cred), r.prev.epoch),
     ver |-> r.cred # None \/ r.prev.ver \/ r.prev.epoch > 0,
     pol |-> r.b.pol /\ r.act = "apply"]

\* Mutant: a failed attempt forgets the intent.
FailureDropsIntent(s) ==
    [s EXCEPT !.result = "error", !.ver = s.ver \/ s.epoch > 0, !.pend = None]

recordFailure(s) ==
    [s EXCEPT !.result = "error", !.ver = s.ver \/ s.epoch > 0]

-----------------------------------------------------------------------------
(* run(): verify, persist the intent, install, commit.                     *)

\* Report: the fetched generation after a success, the prior watermark otherwise.
\* Best effort, and only the daemon's source is a Reporter.
Report(p, s) ==
    \/ p = "daemon" /\ srv' = [srv EXCEPT !.applied = IF s.result = "ok" THEN cur.gen ELSE cur.prior]
    \/ UNCHANGED srv

\* The process leaves run(); the daemon goes back to its loop with the cursor it is given.
Leave(p, after) ==
    /\ lease' = "free"
    /\ proc' = [proc EXCEPT ![p] = IF p = "daemon" THEN [@ EXCEPT !.pc = "poll", !.b = None, !.prev = NoState]
                                                   ELSE Off]
    /\ cur' = IF p = "daemon" THEN [NoCursor EXCEPT !.after = after] ELSE cur

\* The bundle is damaged: a file misses its checksum or is not listed, or the signature over
\* the checksums is missing or not the pinned key's.
VerifyBundleFails == Fails

\* Refusals before the fetch are not recorded.  The daemon's fetch is a second one.
RunVerify(p) ==
    LET r == proc[p]
        b == IF p = "daemon" THEN srv.b ELSE r.b
        To(pc) == proc' = [proc EXCEPT ![p] = [@ EXCEPT !.pc = pc, !.b = b, !.prev = st]]
    IN  /\ r.pc = "verify"
        /\ \/ /\ ~(validatePendingApply(st, r.cred) /\ KeystoneSticky(st, r.cred))
              /\ Leave(p, cur.after) /\ Works
           \/ /\ validatePendingApply(st, r.cred) /\ KeystoneSticky(st, r.cred)
              /\ lease' = lease
              /\ \/ VerifyBundleFails /\ To("fail") /\ cur' = cur
                 \/ /\ Works
                    /\ cur' = IF p = "daemon" THEN [cur EXCEPT !.gen = srv.bgen] ELSE cur
                    /\ IF Verified(st, b, r.act, r.cred) THEN To("persist") ELSE To("fail")
        /\ UNCHANGED <<srv, pin, key, st, disk, host, inst, ran, kits>>

persistPendingApply(p) ==
    LET r == proc[p] IN
    /\ r.pc = "persist"
    /\ \/ /\ SaveState(IntentState(r), TRUE)
          /\ proc' = [proc EXCEPT ![p] = [@ EXCEPT !.pc = "install", !.prev = IntentState(r)]]
       \/ /\ SaveState(IntentState(r), FALSE)
          /\ proc' = [proc EXCEPT ![p].pc = "fail"]
    /\ UNCHANGED <<srv, pin, key, lease, cur, host, inst, ran, kits>>

\* install.sh splices the local key and rewrites the host piecemeal.
Install(p) ==
    LET r == proc[p] IN
    /\ r.pc = "install"
    /\ host' = [b |-> r.b, gen |-> IF p = "daemon" THEN cur.gen ELSE 0, act |-> r.act,
                whole |-> FALSE, ver |-> r.cred # None, key |-> key]
    /\ inst' = inst \cup {p}
    /\ proc' = [proc EXCEPT ![p].pc = "installing"]
    /\ UNCHANGED <<srv, pin, key, st, disk, lease, cur, ran, kits, faults>>

InstallExits(p) ==
    /\ proc[p].pc = "installing"
    /\ inst' = inst \ {p}
    /\ \/ Works /\ host' = [host EXCEPT !.whole = TRUE] /\ proc' = [proc EXCEPT ![p].pc = "commit"]
       \/ Fails /\ host' = host /\ proc' = [proc EXCEPT ![p].pc = "fail"]
    /\ UNCHANGED <<srv, pin, key, st, disk, lease, cur, ran, kits>>

\* The cursor of a successful cycle is the generation fetched by run(), not the polled one.
Commit(p) ==
    LET s == recordSuccess(proc[p]) IN
    /\ proc[p].pc = "commit"
    /\ \/ SaveState(s, TRUE) /\ Report(p, s) /\ Leave(p, cur.gen)
          /\ ran' = IF p = "daemon" THEN ran \cup {cur.gen} ELSE ran
       \/ SaveState(s, FALSE) /\ UNCHANGED <<srv, ran>> /\ Leave(p, cur.after)
    /\ UNCHANGED <<pin, key, host, inst, kits>>

\* Mutant: the cursor moves past a failed cycle.
FailureAdvances(p) ==
    LET s == recordFailure(proc[p].prev) IN
    /\ proc[p].pc = "fail"
    /\ \/ SaveState(s, TRUE) /\ Report(p, s)
       \/ SaveState(s, FALSE) /\ UNCHANGED srv
    /\ Leave(p, cur.polled)
    /\ ran' = {}
    /\ UNCHANGED <<pin, key, host, inst, kits>>

RecordFailure(p) ==
    LET s == recordFailure(proc[p].prev) IN
    /\ proc[p].pc = "fail"
    /\ \/ SaveState(s, TRUE) /\ Report(p, s)
       \/ SaveState(s, FALSE) /\ UNCHANGED srv
    /\ Leave(p, cur.after)
    /\ ran' = {}
    /\ UNCHANGED <<pin, key, host, inst, kits>>

-----------------------------------------------------------------------------
(* The daemon's cycle.                                                     *)

\* The credential is read once, at the start; the cursor starts cold.
Start ==
    /\ proc["daemon"].pc = "off"
    /\ proc' = [proc EXCEPT !["daemon"] = [Off EXCEPT !.pc = "poll", !.cred = pin]]
    /\ cur' = NoCursor /\ ran' = {}
    /\ UNCHANGED <<srv, pin, key, st, disk, lease, host, inst, kits, faults>>

Poll ==
    /\ proc["daemon"].pc = "poll"
    /\ srv.gen > cur.after
    /\ cur' = [cur EXCEPT !.polled = srv.gen]
    /\ proc' = [proc EXCEPT !["daemon"].pc = "fetch"]
    /\ UNCHANGED <<srv, pin, key, st, disk, lease, host, inst, ran, kits, faults>>

\* The first fetch, outside the lease.
Fetch ==
    /\ proc["daemon"].pc = "fetch"
    /\ \/ /\ Works
          /\ cur' = [cur EXCEPT !.gen = srv.bgen, !.rekey = srv.rekey, !.b = srv.b]
          /\ proc' = [proc EXCEPT !["daemon"].pc = "branch"]
       \/ /\ Fails
          /\ cur' = [NoCursor EXCEPT !.after = cur.after]
          /\ proc' = [proc EXCEPT !["daemon"].pc = "poll"]
    /\ UNCHANGED <<srv, pin, key, st, disk, lease, host, inst, ran, kits>>

\* Served again, already applied by this daemon: generation and checksum both say so.
AlreadyApplied ==
    /\ cur.gen <= cur.after
    /\ st.result = "ok" /\ st.id = cur.b.id

\* Under the lease: rotate, idle or apply.
Branch ==
    /\ proc["daemon"].pc = "branch"
    /\ \/ /\ lease # "free"
          /\ cur' = [NoCursor EXCEPT !.after = cur.after]
          /\ proc' = [proc EXCEPT !["daemon"].pc = "poll"]
          /\ lease' = lease
       \/ /\ lease = "free"
          /\ \/ /\ cur.rekey
                /\ lease' = "daemon" /\ cur' = cur
                /\ proc' = [proc EXCEPT !["daemon"].pc = "regenerate"]
             \/ /\ ~cur.rekey /\ AlreadyApplied
                /\ Leave("daemon", cur.polled)
             \/ /\ ~cur.rekey /\ ~AlreadyApplied
                /\ lease' = "daemon" /\ cur' = [cur EXCEPT !.prior = cur.after]
                /\ proc' = [proc EXCEPT !["daemon"].pc = "verify"]
    /\ UNCHANGED <<srv, pin, key, st, disk, host, inst, ran, kits, faults>>

RegenerateKey ==
    /\ proc["daemon"].pc = "regenerate"
    /\ key < MaxKey
    /\ key' = key + 1
    /\ proc' = [proc EXCEPT !["daemon"].pc = "register"]
    /\ UNCHANGED <<srv, pin, st, disk, lease, cur, host, inst, ran, kits, faults>>

RekeyResume == Higher(cur.polled, cur.gen)

\* POST /rekey.  The call, or only its answer, may be lost.
Rekey ==
    /\ proc["daemon"].pc = "register"
    /\ \/ /\ Works
          /\ srv' = [srv EXCEPT !.reg = key, !.rekey = FALSE]
          /\ Leave("daemon", RekeyResume)
       \/ /\ Fails
          /\ srv' \in {srv, [srv EXCEPT !.reg = key, !.rekey = FALSE]}
          /\ Leave("daemon", cur.after)
    /\ UNCHANGED <<pin, key, st, disk, host, inst, ran, kits>>

-----------------------------------------------------------------------------
(* The manual kit, crashes, and the guardian.                              *)

\* Refused up front: a kit with a trust list and no credential to verify it.
KitApply(b, act, cred) ==
    /\ proc["kit"].pc = "off" /\ kits < MaxKits
    /\ lease = "free"
    /\ b.cred # None => cred # None
    /\ lease' = "kit" /\ kits' = kits + 1 /\ ran' = {}
    /\ proc' = [proc EXCEPT !["kit"] = [Off EXCEPT !.pc = "verify", !.b = b, !.act = act, !.cred = cred]]
    /\ UNCHANGED <<srv, pin, key, st, disk, cur, host, inst, faults>>

\* The guardian holds the same open file description.
LeaseAfterKill(p) == lease' = IF lease = p /\ p \notin inst THEN "free" ELSE lease

Kill(p) ==
    /\ proc[p].pc # "off" /\ Fails
    /\ proc' = [proc EXCEPT ![p] = Off]
    /\ cur' = IF p = "daemon" THEN NoCursor ELSE cur
    /\ LeaseAfterKill(p)
    /\ UNCHANGED <<srv, pin, key, st, disk, host, inst, ran, kits>>

\* install.sh of a killed parent ends, either way; the guardian releases the lease.
GuardianExits(p) ==
    /\ p \in inst /\ proc[p].pc # "installing"
    /\ inst' = inst \ {p}
    /\ host' \in {host, [host EXCEPT !.whole = TRUE]}
    /\ lease' = IF lease = p THEN "free" ELSE lease
    /\ UNCHANGED <<srv, pin, key, st, disk, proc, cur, ran, kits, faults>>

PowerLoss ==
    /\ Fails
    /\ proc' = [p \in Proc |-> Off] /\ cur' = NoCursor
    /\ inst' = {} /\ lease' = "free"
    /\ st' = disk
    /\ UNCHANGED <<srv, pin, key, disk, host, ran, kits>>

Run(p) == \/ RunVerify(p) \/ persistPendingApply(p) \/ Install(p) \/ InstallExits(p)
          \/ Commit(p) \/ RecordFailure(p)

Daemon == Start \/ Poll \/ Fetch \/ Branch \/ RegenerateKey \/ Rekey \/ Run("daemon")

Next ==
    \/ \E b \in Catalog : Promote(b)
    \/ RekeyAll
    \/ BumpGeneration
    \/ ClearRekey
    \/ \E c \in Creds : ReprovisionKeystone(c)
    \/ Daemon
    \/ \E b \in KitBundles, act \in Action, c \in Creds \cup {None} : KitApply(b, act, c)
    \/ Run("kit")
    \/ \E p \in Proc : Kill(p) \/ GuardianExits(p)
    \/ PowerLoss

Spec == Init /\ [][Next]_vars

\* systemd restarts the daemon, its loop never stops, install.sh ends; the kit is a person.
Fairness == /\ WF_vars(Daemon) /\ WF_vars(Run("kit"))
            /\ \A p \in Proc : WF_vars(GuardianExits(p))

FairSpec == Spec /\ Fairness

-----------------------------------------------------------------------------
(* Properties                                                              *)

\* state_lock.go: killing the Go parent cannot admit a competing root mutation.
OneInstaller == Cardinality(inst) <= 1

\* agent.md "Fail-closed": whatever a power loss leaves on disk describes the host.  Without
\* an intent the host is exactly the last-known-good bundle, whole; with one, nothing newer
\* than the intent has touched the host.
DiskDescribesHost ==
    /\ disk.pend = None =>
          \/ host.b = None /\ disk.at = 0
          \/ /\ host.b # None /\ host.whole
             /\ <<disk.at, disk.id, disk.act>> = <<host.b.at, host.b.id, host.act>>
    /\ disk.pend # None /\ host.b # None => disk.pend.b.at >= host.b.at

\* The active telemetry policy is the one of the bundle applied last under the keystone, and
\* an uninstall leaves none (recordSuccess, recordFailure).
PolicyOfLastGood ==
    disk.pol => /\ disk.act = "apply" /\ disk.ver
                /\ \E b \in Catalog : b.pol /\ b.at = disk.at /\ b.id = disk.id

\* apply_intent.go: recovery goes forward.  No installer ever starts on a bundle older than
\* the one on the host, nor with an older verified epoch, nor without the keystone once a
\* bundle verified by it was started; and what an interrupted installer left is replaced only
\* by the same bytes or a newer bundle, under the same action.  A condition on a step.
OnlyForward ==
    host.b # None /\ host' # host =>
        /\ host'.b.at >= host.b.at
        /\ host.ver => host'.ver /\ host'.b.epoch >= host.b.epoch
        /\ ~host.whole => /\ host'.act = host.act
                          /\ host'.b.at = host.b.at => host'.b.id = host.b.id

\* cycle.go: root install.sh never re-runs without a new bundle: a daemon that committed a
\* bundle does not install it again, whatever wakes it.  A condition on a step.
NoRootRerun ==
    proc["daemon"].pc = "install" /\ proc'["daemon"].pc = "installing" => cur.gen \notin ran

\* What the node should run: a bundle compiled for its registered key, under its credential.
Deployable == /\ srv.b # None /\ ~srv.rekey /\ srv.bkey = srv.reg
              /\ pin = srv.b.cred

\* agent.md "Keep-last-good with backoff": once faults stop, the node converges to the promoted
\* bundle: watermarks, refusals and retries never strand it.
Converges ==
    <>[](Deployable => host.b = srv.b /\ host.whole /\ host.act = "apply" /\ st.result = "ok")

\* deploy.md "Fleet-wide key rotation": a rotation the agent can still see is completed, and
\* both sides end with one key, whatever calls were lost.  (The exception is a flag that a
\* promote overtook while the agent was applying: the agent does not see it.)
RotationSettles ==
    <>[](/\ srv.rekey => srv.bgen = srv.gen
         /\ ~srv.rekey => srv.reg = key)
=============================================================================
