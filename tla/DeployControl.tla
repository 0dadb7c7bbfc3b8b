--------------------------- MODULE DeployControl ---------------------------
(***************************************************************************)
(* The deploy cycle of the controller on top of StagedStore: stage, sign    *)
(* off host, promote, rekey-all's wake, and the keystone credential         *)
(* (compile_stage.go, compile_promote.go, trustlist_sign.go, keystone.go).  *)
(*                                                                         *)
(* Stage, sign, promote and credential changes hold the tenant lock, but    *)
(* each is several store calls, and rekey-all calls BumpGeneration without  *)
(* that lock.  So such an operation first reads (its decision is kept in    *)
(* "tenant") and in a later step calls the store.  The tenant lock is given *)
(* back when that call begins (for a stage: with its first write), because  *)
(* nothing that needs the lock can start before the call has ended.         *)
(*                                                                         *)
(* What a compile produces is an input: a fleet maps each ready node to the *)
(* member entry of its bundle, [key, dig].  A signature is identified with  *)
(* the credential it verifies under.                                        *)
(***************************************************************************)
EXTENDS StagedStore

CONSTANTS
    Member,    \* member entries [key, dig]: WireGuard public key, bundle digest
    Fleet,     \* the fleets a compile can render: ready nodes to member entries
    MaxEpoch,  \* bound on trust-list epochs
    WakeMayFailAlone  \* BOOLEAN: rekey-all's wake can fail on an I/O error while an
                      \* operation that holds the tenant lock goes on

Cred == Sig

\* No node is ready.
EmptyFleet == [n \in {} |-> None]

ASSUME ControlAssumption ==
    /\ None \notin Content
    /\ \A m \in Member : m.dig \in Content
    /\ Fleet \subseteq UNION {[S -> Member] : S \in SUBSET Node}
    /\ EmptyFleet \in Fleet
    /\ MaxEpoch \in Nat
    /\ WakeMayFailAlone \in BOOLEAN
    /\ Manifest = [epoch : 0..MaxEpoch, members : Fleet]

VARIABLES
    cred,      \* the pinned operator credential, None while the keystone is off
    tenant,    \* the operation that holds the tenant lock, and what it has read
    shown,     \* history: the manifests GET /trustlist has handed out for signing
    deployed   \* history: the fleet of the last stage that deleted the seal

controlVars == <<storeVars, cred, tenant, shown, deployed>>

NoOp == [op |-> "none", gen |-> 0, fleet |-> EmptyFleet, bundles |-> NoPuts, sl |-> None]

-----------------------------------------------------------------------------
(***************************************************************************)
(* Reads and decisions.                                                     *)
(***************************************************************************)
keystoneOn == cred # None

\* Mutant: the epochs chain off the served manifest only.
LastServedTrustList == servedTL

GetLastStagedTrustList ==
    IF stagedTLHist # None THEN stagedTLHist
    ELSE IF stagedTL # None THEN stagedTL
    ELSE servedTL

\* The served manifest's signature no longer verifies under the pin.
KeystoneRedeployRequired == servedTL # None /\ servedTL.sig # None /\ servedTL.sig # cred

stageSkipEnabled == keystoneOn => servedTL # None /\ ~KeystoneRedeployRequired

\* Mutant: the epoch is reused although the membership changed.
EpochReused(fleet) ==
    IF GetLastStagedTrustList = None THEN 0 ELSE GetLastStagedTrustList.man.epoch

\* The epoch of a manifest over this fleet: reused for the same membership.
NextEpoch(fleet) ==
    LET last == GetLastStagedTrustList IN
    IF last = None THEN 0
    ELSE IF last.man.members = fleet THEN last.man.epoch ELSE last.man.epoch + 1

buildStagedManifest(fleet) ==
    [man |-> [epoch |-> NextEpoch(fleet), members |-> fleet], sig |-> None]

\* Mutant: any served bundle counts as unchanged.
UnchangedIfServed(fleet, forced) ==
    {n \in DOMAIN fleet \ forced : stageSkipEnabled /\ current[n] # None}

\* The ready nodes the delta-skip leaves alone.
Unchanged(fleet, forced) ==
    {n \in DOMAIN fleet \ forced :
        stageSkipEnabled /\ current[n] # None /\ current[n].content = fleet[n].dig}

StagedBundles(fleet, forced) ==
    [n \in Node |->
        IF n \in DOMAIN fleet \ Unchanged(fleet, forced)
        THEN [gen |-> next, content |-> fleet[n].dig] ELSE None]

\* Mutant: any signature will do.
StagedSignaturePresent ==
    LET sl == GetCurrentSignedTrustList IN sl # None /\ sl.sig # None

\* verifyStoredAgainstPin on the staged manifest.
StagedSignatureVerifies ==
    LET sl == GetCurrentSignedTrustList IN sl # None /\ sl.sig = cred

\* PromoteStaged's keystone gate.
PromoteGate == keystoneOn => StagedSignatureVerifies

\* GetServedConfig: None when there is no bundle, Skip when it refuses because a
\* record is ahead of the committed generation.
GetServedConfig(n) ==
    IF current[n] = None THEN None
    ELSE IF Ahead(n) \/ (keystoneOn /\ ServedAhead) THEN Skip
    ELSE [bundle |-> current[n], keystone |-> keystoneOn,
          man |-> IF keystoneOn /\ servedTL # None /\ servedTL.sig # None
                  THEN servedTL.man ELSE None]

-----------------------------------------------------------------------------
(***************************************************************************)
(* Operations.  store is unchanged while one only reads.                    *)
(***************************************************************************)
Free == tenant = NoOp /\ call = Idle

\* CompileAndStage up to its ReplaceStagedSet call.
CompileAndStage(fleet, forced) ==
    /\ Free
    /\ keystoneOn /\ fleet # EmptyFleet => ~ServedAhead
    /\ keystoneOn => NextEpoch(fleet) <= MaxEpoch
    /\ LET bundles == StagedBundles(fleet, forced) IN
       tenant' = [op |-> "stage", gen |-> next, fleet |-> fleet, bundles |-> bundles,
                  sl |-> IF keystoneOn /\ bundles # NoPuts
                         THEN buildStagedManifest(fleet) ELSE None]
    /\ UNCHANGED <<storeVars, cred, shown, deployed>>

\* The ReplaceStagedSet call: empty when nothing is ready or nothing changed.
PublishStage ==
    /\ tenant.op = "stage"
    /\ IF tenant.bundles = NoPuts THEN ReplaceStagedSetEmpty
       ELSE tenant.gen = next /\ ReplaceStagedSet(tenant.bundles, tenant.sl)
    /\ tenant' = [tenant EXCEPT !.op = "storing"]
    /\ UNCHANGED <<cred, shown, deployed>>

\* GET /trustlist: the operator takes the staged manifest away to sign it.
FetchTrustList ==
    /\ call = Idle
    /\ GetCurrentSignedTrustList # None
    /\ shown' = shown \cup {GetCurrentSignedTrustList.man}
    /\ UNCHANGED <<storeVars, cred, tenant, deployed>>

\* InstallTrustListSignature of bytes fetched earlier, up to its store call: they
\* must be the staged ones, signed under the pin.
InstallTrustListSignature(man) ==
    /\ Free
    /\ keystoneOn
    /\ man \in shown
    /\ GetCurrentSignedTrustList # None
    /\ GetCurrentSignedTrustList.man = man
    /\ tenant' = [NoOp EXCEPT !.op = "sign", !.sl = [man |-> man, sig |-> cred]]
    /\ UNCHANGED <<storeVars, cred, shown, deployed>>

StoreSignature ==
    /\ tenant.op = "sign"
    /\ PutSignedTrustList(tenant.sl)
    /\ tenant' = NoOp
    /\ UNCHANGED <<cred, shown, deployed>>

\* The controller's PromoteStaged up to its store call: only the gate.
GatePromote ==
    /\ Free
    /\ PromoteGate
    /\ tenant' = [NoOp EXCEPT !.op = "promote"]
    /\ UNCHANGED <<storeVars, cred, shown, deployed>>

StorePromote ==
    /\ tenant.op = "promote"
    /\ PromoteStaged
    /\ tenant' = NoOp
    /\ UNCHANGED <<cred, shown, deployed>>

\* The store refuses the call: it is stale, uncommitted, or nothing is promotable.
StoreRefuses ==
    /\ call = Idle
    /\ \/ /\ tenant.op = "stage"
          /\ \/ ~requireCompletedPromotion
             \/ tenant.bundles # NoPuts /\ tenant.gen # next
       \/ tenant.op = "sign" /\ ~requireCompletedPromotion
       \/ tenant.op = "promote" /\ (~Promotable \/ generation >= MaxGen)
    /\ tenant' = NoOp
    /\ UNCHANGED <<storeVars, cred, shown, deployed>>

\* HandleRekeyAll's wake: no tenant lock.
RekeyAllWake ==
    /\ BumpGeneration
    /\ UNCHANGED <<cred, tenant, shown, deployed>>

\* CompareAndSetKeystoneCredential: first pin, or rotation.
SetKeystoneCredential(c) ==
    /\ Free
    /\ c # cred
    /\ cred' = c
    /\ UNCHANGED <<storeVars, tenant, shown, deployed>>

\* A write of the operation that holds the store lock.  A stage supersedes the one
\* before with its first write, the deletion of the seal.
StoreWrite ==
    /\ StoreStep
    /\ IF tenant.op = "storing"
       THEN tenant' = NoOp /\ deployed' = tenant.fleet
       ELSE UNCHANGED <<tenant, deployed>>
    /\ UNCHANGED <<cred, shown>>

\* An I/O error ends the store operation; a crash also ends the tenant's.
Fault ==
    /\ \/ /\ Interrupt
          /\ tenant.op \in {"none", "storing"} \/ WakeMayFailAlone
          /\ tenant' = IF tenant.op = "storing" THEN NoOp ELSE tenant
       \/ /\ tenant # NoOp
          /\ tenant' = NoOp
          /\ call' = Idle
          /\ UNCHANGED disk
    /\ UNCHANGED <<cred, shown, deployed>>

ControlInit ==
    /\ generation = 0
    /\ seal = None
    /\ staged = NoPuts
    /\ current = NoPuts
    /\ desired = [n \in Node |-> 0]
    /\ stagedTL = None
    /\ stagedTLHist = None
    /\ servedTL = None
    /\ call = Idle
    /\ cred = None
    /\ tenant = NoOp
    /\ shown = {}
    /\ deployed = EmptyFleet

ControlNext ==
    \/ \E fleet \in Fleet : \E forced \in SUBSET DOMAIN fleet : CompileAndStage(fleet, forced)
    \/ PublishStage
    \/ FetchTrustList
    \/ \E man \in shown : InstallTrustListSignature(man)
    \/ StoreSignature
    \/ GatePromote
    \/ StorePromote
    \/ StoreRefuses
    \/ RekeyAllWake
    \/ \E c \in Cred : SetKeystoneCredential(c)
    \/ StoreWrite
    \/ Fault

ControlSpec == ControlInit /\ [][ControlNext]_controlVars

-----------------------------------------------------------------------------
(***************************************************************************)
(* Properties.                                                              *)
(***************************************************************************)

\* The controller's own state has the shape the code gives it.
ControlTypeOK ==
    /\ StoreTypeOK
    /\ cred \in Cred \cup {None}
    /\ tenant \in [op : {"none", "stage", "storing", "sign", "promote"}, gen : Nat, fleet : Fleet,
                   bundles : [Node -> BundleOrNone], sl : TrustListOrNone]
    /\ shown \subseteq Manifest
    /\ deployed \in Fleet

\* GetServedConfig "can never expose a torn (old-bundle, new-manifest) pair": a
\* bundle served with a manifest that lists the node has the digest listed there,
\* whatever crashed, was delta-skipped or was rotated before.
NoTornPair ==
    \A n \in Node :
        LET sc == GetServedConfig(n) IN
        sc \notin {None, Skip} /\ sc.man # None /\ n \in DOMAIN sc.man.members
            => sc.bundle.content = sc.man.members[n].dig

\* The keystone makes the off-host signature mandatory: with a credential pinned,
\* the generation that publishes bundles also publishes a manifest of that very
\* generation signed under the credential pinned at that moment.
PromotedUnderPin ==
    [][(\E n \in Node : Ahead(n)) /\ generation' # generation /\ keystoneOn
         => servedTL # None /\ servedTL.sig = cred /\ servedTL.promoted = generation']_controlVars

\* What the agents' anti-rollback floor needs: the served epoch never goes back,
\* and stays only if the membership does.
ServedEpochMonotone ==
    [][servedTL # None /\ servedTL' # servedTL
         => /\ servedTL'.man.epoch >= servedTL.man.epoch
            /\ servedTL'.man.epoch = servedTL.man.epoch => servedTL'.man = servedTL.man]_controlVars

\* "A later manifest must not reuse an already-issued epoch": two manifests handed
\* out for signing with one epoch are the same manifest, though stages are
\* abandoned, crash half-written, are purged or are woken over.
EpochNamesOneManifest ==
    \A x, y \in shown : x.epoch = y.epoch => x = y

\* No promote makes "a reverted/retracted config LIVE": when one commits, every
\* node of the last stage that replaced the staged set serves what that stage
\* compiled, and no other node changes; under the keystone the manifest served with
\* it binds "EVERY enrolled node's digest (updated AND skipped)" of that stage.
OnlyLastStageGoesLive ==
    [][(\E n \in Node : Ahead(n)) /\ generation' # generation
         => /\ \A n \in DOMAIN deployed :
                  current[n] # None /\ current[n].content = deployed[n].dig
            /\ \A n \in Node : Ahead(n) => n \in DOMAIN deployed
            /\ keystoneOn => servedTL.man.members = deployed]_controlVars

\* "A crash before that final promote commit remains retryable": the controller's
\* promote admits the retry of an interrupted promotion.
PromoteRetryAdmitted == Free /\ Uncommitted => PromoteGate /\ Promotable

\* "The signed member set includes unchanged deployment-ready nodes even when their
\* bundle delta-skips": a stage that finds nothing to change under a healthy keystone
\* leaves every ready node a member of the served manifest.
UnchangedStageIsBound ==
    tenant.op = "stage" /\ keystoneOn /\ tenant.bundles = NoPuts =>
        \A n \in DOMAIN tenant.fleet : n \in DOMAIN servedTL.man.members
=============================================================================
