------------------------ MODULE DeployControlProofs ------------------------
(***************************************************************************)
(* DeployControl for any nodes, fleets, credentials and epochs and any      *)
(* number of generations, crashes and wakes.                                *)
(*                                                                         *)
(* The store's part is StagedStoreProofs' invariant: every operation of the *)
(* controller is a call of the store.  Above it:                            *)
(*                                                                         *)
(*   LockInv   while a tenant operation has read and not yet called the     *)
(*             store, only a wake can be in flight;                         *)
(*   HistInv   the manifest of a seal is also in the history slot, which a  *)
(*             wake cannot lose;                                            *)
(*   EpochInv  every manifest that may be sealed later has a higher epoch   *)
(*             than the manifests already issued, or is the same;           *)
(*   PinInv    what the promote gate saw still holds at the commit.         *)
(***************************************************************************)
EXTENDS DeployControl, StagedStoreProofs

\* The tenant operation has read, and calls the store later.
Deciding == tenant.op \in {"stage", "sign", "promote"}

LockInv ==
    /\ Deciding =>
         /\ PromoteIdle
         /\ call.put = NoPuts /\ call.prune = {} /\ call.hist2 = Skip /\ call.tl2 = Skip
         /\ call.seal # Skip => call.seal.historical
         /\ call.hist # Skip \/ call.tl # Skip \/ call.seal # Skip => call.unseal \/ seal = None
    /\ tenant.op = "storing" => call.unseal
    /\ tenant.op \in {"none", "promote"} => tenant.sl = None
    /\ tenant.op = "sign" => tenant.sl # None

\* The history slot once the plan's staging writes are done.
FinalHist ==
    IF call.hist2 # Skip THEN call.hist2 ELSE IF call.hist # Skip THEN call.hist ELSE stagedTLHist

HistInv ==
    /\ seal # None /\ seal.man # None =>
         /\ stagedTLHist # None /\ stagedTLHist.man = seal.man
         /\ call.hist # Skip /\ ~call.unseal => call.hist.man = seal.man
         /\ call.hist2 # Skip => call.unseal
    /\ call.seal # Skip /\ call.seal.man # None =>
         FinalHist # None /\ FinalHist.man = call.seal.man
    /\ call.cleanHist # Skip => seal # None /\ seal.man = call.cleanHist.man
    /\ call.cleanSeal \notin {Skip, None} => seal # None /\ seal.man = call.cleanSeal.man

\* m may have been issued before t is.
Precedes(m, t) == m.epoch < t.epoch \/ m = t

\* Every manifest handed out for signing or promoted may have been issued before t is.
IssuedBefore(t) ==
    /\ \A m \in shown : Precedes(m, t)
    /\ servedTL # None => Precedes(servedTL.man, t)
    /\ call.served # Skip => Precedes(call.served.man, t)

\* The manifests that may be handed out or promoted later.
Pending ==
    {stagedTLHist, stagedTL, call.hist, call.tl, call.hist2, call.tl2, call.cleanHist,
     tenant.sl} \ {None, Skip}

EpochInv ==
    /\ EpochNamesOneManifest
    /\ shown # {} \/ servedTL # None \/ call.served # Skip => stagedTLHist # None
    /\ \A sl \in Pending : IssuedBefore(sl.man)
    /\ tenant.op \in {"stage", "sign"} /\ tenant.sl # None =>
         /\ stagedTLHist # None => Precedes(stagedTLHist.man, tenant.sl.man)
         /\ stagedTLHist = None /\ stagedTL # None => Precedes(stagedTL.man, tenant.sl.man)
         /\ call.hist # Skip => Precedes(call.hist.man, tenant.sl.man)
         /\ call.tl \notin {None, Skip} => stagedTLHist # None \/ call.hist # Skip
    /\ tenant.op = "sign" =>
         /\ stagedTLHist # None /\ stagedTLHist.man = tenant.sl.man
         /\ call.hist # Skip => call.hist.man = tenant.sl.man

PinInv ==
    /\ cred = None =>
         /\ stagedTL = None /\ stagedTLHist = None /\ servedTL = None /\ tenant.sl = None
         /\ call.hist = Skip /\ call.tl \in {None, Skip} /\ call.hist2 = Skip /\ call.tl2 = Skip
         /\ call.served = Skip /\ call.cleanHist = Skip
    /\ tenant.op = "promote" /\ cred # None /\ seal # None /\ ~seal.historical =>
         seal.man # None /\ stagedTL.sig = cred
    /\ call.commit /\ cred # None => seal.man # None /\ stagedTL.sig = cred

CInv == IInv /\ ControlTypeOK /\ LockInv /\ HistInv /\ EpochInv /\ PinInv

-----------------------------------------------------------------------------
(***************************************************************************)
(* Types.                                                                   *)
(***************************************************************************)

\* A fleet maps nodes to member entries, and their digests are contents.
LEMMA FleetType ==
    ASSUME NEW f \in Fleet
    PROVE  DOMAIN f \subseteq Node /\ \A n \in DOMAIN f : f[n] \in Member /\ f[n].dig \in Content
  BY ControlAssumption

\* A manifest has a natural epoch and binds a fleet; it is determined by the two.
LEMMA ManifestType ==
    /\ \A m \in Manifest : m.epoch \in Nat /\ m.members \in Fleet
    /\ \A m1, m2 \in Manifest : m1.epoch = m2.epoch /\ m1.members = m2.members => m1 = m2
  BY ControlAssumption

-----------------------------------------------------------------------------
(***************************************************************************)
(* The store's invariant.                                                   *)
(***************************************************************************)

\* A candidate the controller stages is one of the store's candidates.
LEMMA BundlesAreCandidate ==
    ASSUME NEW bundles \in [Node -> BundleOrNone],
           \A n \in Node : bundles[n] # None => bundles[n].gen = next
    PROVE  bundles \in Candidates
<1> DEFINE c == [n \in Node |-> IF bundles[n] = None THEN None ELSE bundles[n].content]
<1>1. c \in [Node -> Content \cup {None}]
  BY DEF BundleOrNone, Bundle
<1>2. ASSUME NEW n \in Node
      PROVE  bundles[n] = IF c[n] = None THEN None ELSE [gen |-> next, content |-> c[n]]
  <2>1. CASE bundles[n] = None
    BY <2>1
  <2>2. CASE bundles[n] # None
    <3>1. bundles[n] \in Bundle /\ bundles[n].gen = next
      BY <2>2 DEF BundleOrNone
    <3>2. bundles[n] = [gen |-> next, content |-> bundles[n].content] /\ bundles[n].content # None
      BY <3>1, ControlAssumption DEF Bundle
    <3> QED
      BY <2>2, <3>2
  <2> QED
    BY <2>1, <2>2
<1>3. bundles = [n \in Node |-> IF c[n] = None THEN None ELSE [gen |-> next, content |-> c[n]]]
  BY <1>2
<1> QED
  BY <1>1, <1>3, Zenon DEF Candidates

\* Every step of the controller is a step of the store, or leaves it alone.
LEMMA ControlIsStore ==
    ASSUME ControlTypeOK, LockInv, [ControlNext]_controlVars
    PROVE  [StoreNext]_storeVars
<1> USE DEF ControlTypeOK
<1>1. CASE \E fleet \in Fleet : \E forced \in SUBSET DOMAIN fleet : CompileAndStage(fleet, forced)
  BY <1>1 DEF CompileAndStage
<1>2. CASE PublishStage
  <2>1. CASE tenant.bundles = NoPuts
    BY <1>2, <2>1 DEF PublishStage, StoreNext, StoreCall
  <2>2. CASE tenant.bundles # NoPuts
    <3>1. ReplaceStagedSet(tenant.bundles, tenant.sl)
      BY <1>2, <2>2 DEF PublishStage
    <3>2. tenant.bundles \in Candidates
      BY <3>1, BundlesAreCandidate DEF ReplaceStagedSet
    <3> QED
      BY <3>1, <3>2 DEF StoreNext, StoreCall
  <2> QED
    BY <2>1, <2>2
<1>3. CASE FetchTrustList
  BY <1>3 DEF FetchTrustList
<1>4. CASE \E man \in shown : InstallTrustListSignature(man)
  BY <1>4 DEF InstallTrustListSignature
<1>5. CASE StoreSignature
  <2>1. PutSignedTrustList(tenant.sl)
    BY <1>5 DEF StoreSignature
  <2>2. tenant.sl \in TrustList
    BY <1>5 DEF StoreSignature, LockInv, TrustListOrNone
  <2> QED
    BY <2>1, <2>2 DEF StoreNext, StoreCall
<1>6. CASE GatePromote
  BY <1>6 DEF GatePromote
<1>7. CASE StorePromote
  BY <1>7 DEF StorePromote, StoreNext, StoreCall
<1>8. CASE StoreRefuses
  BY <1>8 DEF StoreRefuses
<1>9. CASE RekeyAllWake
  BY <1>9 DEF RekeyAllWake, StoreNext, StoreCall
<1>10. CASE \E c \in Cred : SetKeystoneCredential(c)
  BY <1>10 DEF SetKeystoneCredential
<1>11. CASE StoreWrite
  BY <1>11 DEF StoreWrite, StoreNext
<1>12. CASE Fault
  BY <1>12 DEF Fault, Interrupt, StoreNext, storeVars
<1>13. CASE UNCHANGED controlVars
  BY <1>13 DEF controlVars
<1> QED
  BY <1>1, <1>2, <1>3, <1>4, <1>5, <1>6, <1>7, <1>8, <1>9, <1>10, <1>11, <1>12, <1>13
     DEF ControlNext

\* The control starts in the invariant.
LEMMA ControlInitInv == ControlInit => CInv
<1> SUFFICES ASSUME ControlInit PROVE CInv
  OBVIOUS
<1>1. StoreInit
  BY DEF ControlInit, StoreInit
<1>2. IInv
  BY <1>1, InitInv
<1>3. ControlTypeOK
  <2>1. NoPuts \in [Node -> BundleOrNone]
    BY DEF NoPuts, BundleOrNone
  <2> QED
    BY <1>2, <2>1, ControlAssumption DEF IInv, ControlTypeOK, ControlInit, NoOp, TrustListOrNone
<1>4. /\ call.put = NoPuts /\ call.hist = Skip /\ call.tl = Skip /\ call.hist2 = Skip
      /\ call.tl2 = Skip /\ call.seal = Skip /\ call.served = Skip /\ ~call.commit
      /\ call.cleanHist = Skip /\ call.cleanSeal = Skip
  BY DEF ControlInit, Idle
<1>5. /\ tenant.op = "none" /\ tenant.sl = None /\ shown = {} /\ cred = None /\ seal = None
      /\ stagedTL = None /\ stagedTLHist = None /\ servedTL = None
  BY DEF ControlInit, NoOp
<1>6. LockInv /\ HistInv /\ PinInv
  BY <1>4, <1>5 DEF LockInv, Deciding, HistInv, PinInv
<1>7. EpochInv
  BY <1>4, <1>5, Distinct DEF EpochInv, EpochNamesOneManifest, Pending
<1> QED
  BY <1>2, <1>3, <1>6, <1>7 DEF CInv

\* The manifest of a stage has its fleet, and an epoch that follows the last one's.
LEMMA StagedManifest ==
    ASSUME ControlTypeOK, NEW fleet \in Fleet, NextEpoch(fleet) <= MaxEpoch
    PROVE  /\ buildStagedManifest(fleet) \in TrustList
           /\ GetLastStagedTrustList # None =>
                 Precedes(GetLastStagedTrustList.man, buildStagedManifest(fleet).man)
<1> DEFINE last == GetLastStagedTrustList
<1>1. last # None => last.man \in Manifest
  BY DEF GetLastStagedTrustList, ControlTypeOK, StoreTypeOK, TrustListOrNone, TrustList,
     ServedTrustList
<1>2. NextEpoch(fleet) \in 0..MaxEpoch
  BY <1>1, ManifestType, ControlAssumption DEF NextEpoch
<1>3. [epoch |-> NextEpoch(fleet), members |-> fleet] \in Manifest
  BY <1>2, ControlAssumption
<1>4. buildStagedManifest(fleet) \in TrustList
  BY <1>3 DEF buildStagedManifest, TrustList
<1>5. ASSUME last # None PROVE Precedes(last.man, [epoch |-> NextEpoch(fleet), members |-> fleet])
  BY <1>1, <1>3, <1>5, ManifestType DEF NextEpoch, Precedes
<1> QED
  BY <1>4, <1>5 DEF buildStagedManifest

\* The bundles of a stage.
LEMMA StagedBundlesType ==
    ASSUME StoreTypeOK, NEW fleet \in Fleet, NEW forced
    PROVE  StagedBundles(fleet, forced) \in [Node -> BundleOrNone]
<1>1. ASSUME NEW n \in DOMAIN fleet PROVE [gen |-> next, content |-> fleet[n].dig] \in Bundle
  BY FleetType DEF Bundle, Gens, next, StoreTypeOK
<1> QED
  BY <1>1 DEF StagedBundles, BundleOrNone

\* Every step of the controller keeps every variable within its type.
LEMMA ControlTypes ==
    ASSUME CInv, [ControlNext]_controlVars
    PROVE  ControlTypeOK'
<1>0. IInv'
  BY ControlIsStore, NextInv DEF CInv
<1>00. StoreTypeOK'
  BY <1>0 DEF IInv
<1> USE <1>00 DEF CInv, ControlTypeOK
<1> DEFINE T == [op : {"none", "stage", "storing", "sign", "promote"}, gen : Nat, fleet : Fleet,
                 bundles : [Node -> BundleOrNone], sl : TrustListOrNone]
<1>n. NoOp \in T
  BY ControlAssumption DEF NoOp, NoPuts, BundleOrNone, TrustListOrNone
<1>1. ASSUME NEW fleet \in Fleet, NEW forced, CompileAndStage(fleet, forced)
      PROVE  ControlTypeOK'
  <2>1. StagedBundles(fleet, forced) \in [Node -> BundleOrNone]
    BY StagedBundlesType
  <2>2. keystoneOn => buildStagedManifest(fleet) \in TrustList
    BY <1>1, StagedManifest DEF CompileAndStage
  <2>3. next \in Nat
    BY DEF StoreTypeOK, next
  <2>4. tenant' \in T
    BY <1>1, <2>1, <2>2, <2>3 DEF CompileAndStage, TrustListOrNone
  <2> QED
    BY <1>1, <2>4 DEF CompileAndStage
<1>2. CASE PublishStage
  BY <1>2 DEF PublishStage
<1>3. CASE FetchTrustList
  <2>1. GetCurrentSignedTrustList \in TrustList
    BY <1>3 DEF FetchTrustList, GetCurrentSignedTrustList, StoreTypeOK, TrustListOrNone
  <2> QED
    BY <1>3, <2>1 DEF FetchTrustList, TrustList
<1>4. ASSUME NEW man \in shown, InstallTrustListSignature(man)
      PROVE  ControlTypeOK'
  <2>1. [man |-> man, sig |-> cred] \in TrustList
    BY <1>4 DEF InstallTrustListSignature, TrustList, Cred
  <2>2. tenant' \in T
    BY <1>4, <1>n, <2>1, Zenon DEF InstallTrustListSignature, TrustListOrNone
  <2> QED
    BY <1>4, <2>2 DEF InstallTrustListSignature
<1>5. CASE StoreSignature
  BY <1>5, <1>n DEF StoreSignature
<1>6. CASE GatePromote
  BY <1>6, <1>n DEF GatePromote
<1>7. CASE StorePromote
  BY <1>7, <1>n DEF StorePromote
<1>8. CASE StoreRefuses
  BY <1>8, <1>n DEF StoreRefuses
<1>9. CASE RekeyAllWake
  BY <1>9 DEF RekeyAllWake
<1>10. ASSUME NEW c \in Cred, SetKeystoneCredential(c) PROVE ControlTypeOK'
  BY <1>10 DEF SetKeystoneCredential
<1>11. CASE StoreWrite
  BY <1>11, <1>n DEF StoreWrite
<1>12. CASE Fault
  BY <1>12, <1>n DEF Fault
<1>13. CASE UNCHANGED controlVars
  BY <1>13 DEF controlVars
<1> QED
  BY <1>1, <1>2, <1>3, <1>4, <1>5, <1>6, <1>7, <1>8, <1>9, <1>10, <1>11, <1>12, <1>13
     DEF ControlNext

-----------------------------------------------------------------------------
(***************************************************************************)
(* The record writes, under the operation that holds the store lock.        *)
(***************************************************************************)

\* A deciding operation sees only staging writes, and a stage that was just called
\* starts with the seal.
LEMMA WriterTenant ==
    ASSUME CInv, StoreWrite
    PROVE  /\ StageWrite \/ PromoteWrite \/ CleanWrite
           /\ tenant.op = "storing" => DeleteSeal /\ tenant' = NoOp
           /\ tenant.op # "storing" => UNCHANGED tenant
           /\ PromoteWrite \/ CleanWrite => tenant.op = "none"
           /\ UNCHANGED <<cred, shown>>
<1>1. /\ StageWrite \/ PromoteWrite \/ CleanWrite
      /\ tenant.op = "storing" => tenant' = NoOp
      /\ tenant.op # "storing" => UNCHANGED tenant
      /\ UNCHANGED <<cred, shown>>
  BY DEF StoreWrite, StoreStep
<1>2. ASSUME PromoteWrite \/ CleanWrite PROVE tenant.op = "none"
  <2>1. StageIdle
    BY <1>2, PromoteOnly DEF CInv
  <2>2. ~PromoteIdle
    BY <1>2, Zenon DEF PromoteWrite, CleanWrite, GoLive, WriteDesired, WriteServedTL, Commit, CleanStaged,
       CleanHist, CleanSeal, CleanStagedTL, PromoteIdle
  <2>3. ~call.unseal
    BY <2>1 DEF StageIdle, StageDone, TL2Done, Hist2Done, TLDone, HistDone, BundlesDone, PutsDone,
       Unsealed
  <2> QED
    BY <2>2, <2>3 DEF CInv, LockInv, Deciding, ControlTypeOK
<1>3. ASSUME tenant.op = "storing" PROVE DeleteSeal
  <2>1. call.unseal
    BY <1>3 DEF CInv, LockInv
  <2>2. StageWrite
    BY <1>1, <1>2, <1>3
  <2> QED
    BY <2>1, <2>2 DEF StageWrite, WriteStaged, DeleteStaged, WriteHist, WriteStagedTL, WriteSeal,
       Wake, StageDone, TL2Done, Hist2Done, TLDone, HistDone, BundlesDone, PutsDone, Unsealed
<1> QED
  BY <1>1, <1>2, <1>3

\* What has been issued precedes t as long as nothing more is issued.
LEMMA IssuedKept ==
    ASSUME NEW CONSTANT t, IssuedBefore(t), UNCHANGED shown,
           \/ UNCHANGED servedTL /\ (call'.served = call.served \/ call'.served = Skip)
           \/ servedTL' = call.served /\ call.served # Skip /\ call'.served = Skip
    PROVE  IssuedBefore(t)'
  BY DEF IssuedBefore

\* EpochInv' when no manifest is issued and none is added to the pending ones.
LEMMA EpochKept ==
    ASSUME EpochInv, UNCHANGED shown,
           \/ UNCHANGED servedTL /\ (call'.served = call.served \/ call'.served = Skip)
           \/ servedTL' = call.served /\ call.served # Skip /\ call'.served = Skip,
           stagedTLHist # None => stagedTLHist' # None,
           Pending' \subseteq Pending
    PROVE  /\ EpochNamesOneManifest'
           /\ (shown # {} \/ servedTL # None \/ call.served # Skip => stagedTLHist # None)'
           /\ (\A sl \in Pending : IssuedBefore(sl.man))'
<1>1. EpochNamesOneManifest'
  BY DEF EpochInv, EpochNamesOneManifest
<1>2. (shown # {} \/ servedTL # None \/ call.served # Skip => stagedTLHist # None)'
  BY DEF EpochInv
<1>3. ASSUME NEW sl \in Pending' PROVE IssuedBefore(sl.man)'
  <2>1. IssuedBefore(sl.man)
    BY <1>3 DEF EpochInv
  <2> QED
    BY <2>1 DEF IssuedBefore
<1> QED
  BY <1>1, <1>2, <1>3

\* A staging write moves the records of the trust-list only as its plan says.
LEMMA StageWriteControl ==
    ASSUME CInv, StoreWrite, StageWrite
    PROVE  LockInv' /\ HistInv' /\ EpochInv' /\ PinInv'
<1>1. call \in Plan /\ PromoteIdle' /\ LockInv /\ HistInv /\ EpochInv /\ PinInv
  BY StagingOnly DEF CInv, ControlTypeOK, StoreTypeOK
<1>2. /\ UNCHANGED <<cred, shown>>
      /\ tenant.op # "storing" => UNCHANGED tenant
      /\ tenant.op = "storing" => DeleteSeal /\ tenant'.op = "none" /\ tenant'.sl = None
  BY WriterTenant DEF NoOp
<1>3. /\ call.served = Skip /\ call'.served = Skip /\ call.cleanHist = Skip /\ call'.cleanHist = Skip
      /\ call'.cleanSeal = Skip /\ ~call'.commit
  BY <1>1, StagingOnly DEF PromoteIdle, CInv
<1>4. ASSUME ~call.unseal PROVE UNCHANGED tenant /\ tenant.op # "storing"
  BY <1>1, <1>2, <1>4 DEF LockInv
<1>5. ASSUME Pending' \subseteq Pending, UNCHANGED servedTL, stagedTLHist # None => stagedTLHist' # None
      PROVE  /\ EpochNamesOneManifest'
             /\ (shown # {} \/ servedTL # None \/ call.served # Skip => stagedTLHist # None)'
             /\ (\A sl \in Pending : IssuedBefore(sl.man))'
  BY <1>1, <1>2, <1>3, <1>5, EpochKept
<1>6. ASSUME UNCHANGED <<tenant, seal, stagedTL, stagedTLHist, servedTL>>,
             UNCHANGED <<call.unseal, call.hist, call.tl, call.hist2, call.tl2, call.seal>>
      PROVE  HistInv' /\ EpochInv' /\ PinInv'
  <2>1. HistInv'
    BY <1>1, <1>3, <1>6 DEF HistInv, FinalHist
  <2>2. Pending' \subseteq Pending
    BY <1>3, <1>6 DEF Pending
  <2>3. EpochInv'
    BY <1>1, <1>5, <1>6, <2>2 DEF EpochInv
  <2>4. PinInv'
    BY <1>1, <1>2, <1>3, <1>6 DEF PinInv
  <2> QED
    BY <2>1, <2>3, <2>4
<1>7. CASE DeleteSeal
  <2>1. /\ ~call'.unseal /\ seal' = None /\ UNCHANGED <<stagedTL, stagedTLHist, servedTL>>
        /\ UNCHANGED <<call.put, call.prune, call.hist, call.tl, call.hist2, call.tl2, call.seal>>
    BY <1>1, <1>7 DEF DeleteSeal, Plan
  <2>2. LockInv'
    BY <1>1, <1>2, <2>1 DEF LockInv, Deciding
  <2>3. HistInv'
    BY <1>1, <1>3, <2>1 DEF HistInv, FinalHist
  <2>4. Pending' \subseteq Pending
    BY <1>2, <1>3, <2>1 DEF Pending
  <2>5. EpochInv'
    BY <1>1, <1>2, <1>5, <2>1, <2>4 DEF EpochInv
  <2>6. PinInv'
    BY <1>1, <1>2, <1>3, <2>1 DEF PinInv
  <2> QED
    BY <2>2, <2>3, <2>5, <2>6
<1>8. ASSUME NEW n \in Node, WriteStaged(n) \/ DeleteStaged(n)
      PROVE  LockInv' /\ HistInv' /\ EpochInv' /\ PinInv'
  <2>1. /\ ~call.unseal /\ (call.put[n] # None \/ call.prune # {})
        /\ UNCHANGED <<seal, stagedTL, stagedTLHist, servedTL>>
        /\ UNCHANGED <<call.unseal, call.hist, call.tl, call.hist2, call.tl2, call.seal>>
    <3>1. CASE WriteStaged(n)
      BY <1>1, <3>1 DEF WriteStaged, Plan, Unsealed
    <3>2. CASE DeleteStaged(n)
      BY <1>1, <3>2 DEF DeleteStaged, Plan, PutsDone, Unsealed
    <3> QED
      BY <1>8, <3>1, <3>2
  <2>2. LockInv'
    BY <1>1, <1>4, <2>1 DEF LockInv, Deciding, NoPuts
  <2> QED
    BY <1>4, <1>6, <2>1, <2>2
<1>9. CASE WriteHist
  <2>1. /\ ~call.unseal
        /\ \/ call.hist # Skip /\ stagedTLHist' = call.hist /\ call'.hist = Skip /\ UNCHANGED call.hist2
           \/ /\ call.hist = Skip /\ call.hist2 # Skip /\ stagedTLHist' = call.hist2
              /\ call'.hist2 = Skip /\ UNCHANGED call.hist
        /\ UNCHANGED <<seal, stagedTL, servedTL>>
        /\ UNCHANGED <<call.unseal, call.put, call.prune, call.tl, call.tl2, call.seal>>
    BY <1>1, <1>9 DEF WriteHist, Plan, TLDone, HistDone, BundlesDone, PutsDone, Unsealed
  <2>2. stagedTLHist' # None
    BY <1>1, <2>1, Distinct DEF Plan
  <2>3. UNCHANGED tenant
    BY <1>4, <2>1
  <2>4. LockInv'
    BY <1>1, <2>1, <2>3 DEF LockInv, Deciding
  <2>5. HistInv'
    BY <1>1, <1>3, <2>1, <2>2 DEF HistInv, FinalHist
  <2>6. Pending' \subseteq Pending
    BY <1>3, <2>1, <2>2, <2>3 DEF Pending
  <2>7. EpochInv'
    BY <1>1, <1>5, <2>1, <2>2, <2>3, <2>6, Zenon DEF EpochInv, LockInv, Deciding
  <2>8. PinInv'
    BY <1>1, <1>2, <1>3, <2>1, <2>3 DEF PinInv, LockInv, Deciding
  <2> QED
    BY <2>4, <2>5, <2>7, <2>8
<1>10. CASE WriteStagedTL
  <2>1. /\ ~call.unseal /\ call.hist = Skip
        /\ \/ call.tl # Skip /\ stagedTL' = call.tl /\ call'.tl = Skip /\ UNCHANGED call.tl2
           \/ /\ call.tl = Skip /\ call.tl2 # Skip /\ stagedTL' = call.tl2
              /\ call'.tl2 = Skip /\ UNCHANGED call.tl
        /\ UNCHANGED <<seal, stagedTLHist, servedTL>>
        /\ UNCHANGED <<call.unseal, call.put, call.prune, call.hist, call.hist2, call.seal>>
    BY <1>1, <1>10 DEF WriteStagedTL, Plan, Hist2Done, TLDone, HistDone, BundlesDone, PutsDone, Unsealed
  <2>2. UNCHANGED tenant
    BY <1>4, <2>1
  <2>3. LockInv'
    BY <1>1, <2>1, <2>2 DEF LockInv, Deciding
  <2>4. HistInv'
    BY <1>1, <1>3, <2>1 DEF HistInv, FinalHist
  <2>5. Pending' \subseteq Pending
    BY <1>3, <2>1, <2>2 DEF Pending
  <2>6. EpochInv'
    BY <1>1, <1>5, <2>1, <2>2, <2>5, Distinct, Zenon DEF EpochInv, LockInv, Deciding
  <2>7. PinInv'
    BY <1>1, <1>2, <1>3, <2>1, <2>2 DEF PinInv, LockInv, Deciding
  <2> QED
    BY <2>3, <2>4, <2>6, <2>7
<1>11. CASE WriteSeal
  <2>1. /\ ~call.unseal /\ call.hist = Skip /\ call.hist2 = Skip /\ call.seal # Skip
        /\ seal' = call.seal /\ call'.seal = Skip /\ UNCHANGED <<stagedTL, stagedTLHist, servedTL>>
        /\ UNCHANGED <<call.unseal, call.put, call.prune, call.hist, call.tl, call.hist2, call.tl2>>
    BY <1>1, <1>11 DEF WriteSeal, Plan, TL2Done, Hist2Done, TLDone, HistDone, BundlesDone, PutsDone, Unsealed
  <2>2. UNCHANGED tenant /\ call.tl = Skip
    BY <1>4, <1>11, <2>1 DEF WriteSeal, TL2Done, Hist2Done, TLDone
  <2>3. LockInv'
    BY <1>1, <2>1, <2>2 DEF LockInv, Deciding
  <2>4. HistInv'
    BY <1>1, <1>3, <2>1 DEF HistInv, FinalHist
  <2>5. Pending' \subseteq Pending
    BY <1>3, <2>1, <2>2 DEF Pending
  <2>6. EpochInv'
    BY <1>1, <1>5, <2>1, <2>2, <2>5, Zenon DEF EpochInv
  <2>7. PinInv'
    BY <1>1, <1>2, <1>3, <2>1, <2>2 DEF PinInv, LockInv, Deciding
  <2> QED
    BY <2>3, <2>4, <2>6, <2>7
<1>12. CASE Wake
  <2>1. /\ ~call.unseal /\ UNCHANGED <<seal, stagedTL, stagedTLHist, servedTL>>
        /\ UNCHANGED <<call.put, call.prune>>
        /\ UNCHANGED <<call.unseal, call.hist, call.tl, call.hist2, call.tl2, call.seal>>
    BY <1>1, <1>12 DEF Wake, Plan, StageDone, TL2Done, Hist2Done, TLDone, HistDone, BundlesDone,
       PutsDone, Unsealed
  <2>2. LockInv'
    BY <1>1, <1>4, <2>1 DEF LockInv, Deciding
  <2> QED
    BY <1>4, <1>6, <2>1, <2>2
<1> QED
  BY <1>7, <1>8, <1>9, <1>10, <1>11, <1>12 DEF StageWrite

\* A write of a promote or of its clean-up keeps the sealed manifest in the history slot.
LEMMA PromoteWriteControl ==
    ASSUME CInv, StoreWrite, PromoteWrite \/ CleanWrite
    PROVE  LockInv' /\ HistInv' /\ EpochInv' /\ PinInv'
<1>1. /\ call \in Plan /\ StageIdle /\ StageIdle'
      /\ UNCHANGED <<cred, shown, tenant>> /\ tenant.op = "none"
      /\ LockInv /\ HistInv /\ EpochInv /\ PinInv
  BY PromoteOnly, WriterTenant DEF CInv, ControlTypeOK, StoreTypeOK
<1>2. /\ ~call.unseal /\ call.hist = Skip /\ call.tl = Skip /\ call.hist2 = Skip /\ call.tl2 = Skip
      /\ call.seal = Skip
      /\ ~call'.unseal /\ call'.hist = Skip /\ call'.tl = Skip /\ call'.hist2 = Skip
      /\ call'.tl2 = Skip /\ call'.seal = Skip
  BY <1>1 DEF StageIdle, StageDone, TL2Done, Hist2Done, TLDone, HistDone, BundlesDone, PutsDone,
     Unsealed
<1>3. LockInv'
  BY <1>1 DEF LockInv, Deciding
<1>4. ASSUME Pending' \subseteq Pending, stagedTLHist # None => stagedTLHist' # None,
             \/ UNCHANGED servedTL /\ (call'.served = call.served \/ call'.served = Skip)
             \/ servedTL' = call.served /\ call.served # Skip /\ call'.served = Skip
      PROVE  EpochInv'
  <2>1. /\ EpochNamesOneManifest'
        /\ (shown # {} \/ servedTL # None \/ call.served # Skip => stagedTLHist # None)'
        /\ (\A sl \in Pending : IssuedBefore(sl.man))'
    BY <1>1, <1>4, EpochKept
  <2> QED
    BY <1>1, <2>1 DEF EpochInv
<1>5. ASSUME UNCHANGED <<seal, stagedTL, stagedTLHist>>,
             UNCHANGED <<call.cleanHist, call.cleanSeal>>,
             \/ UNCHANGED servedTL /\ (call'.served = call.served \/ call'.served = Skip)
             \/ servedTL' = call.served /\ call.served # Skip /\ call'.served = Skip,
             call'.commit => call.commit
      PROVE  LockInv' /\ HistInv' /\ EpochInv' /\ PinInv'
  <2>1. HistInv'
    BY <1>1, <1>2, <1>5 DEF HistInv
  <2>2. Pending' \subseteq Pending
    BY <1>1, <1>2, <1>5 DEF Pending
  <2>3. EpochInv'
    BY <1>4, <1>5, <2>2
  <2>4. PinInv'
    BY <1>1, <1>2, <1>5 DEF PinInv
  <2> QED
    BY <1>3, <2>1, <2>3, <2>4
<1>6. CASE \E n \in Node : GoLive(n)
  <2>1. /\ UNCHANGED <<seal, stagedTL, stagedTLHist, servedTL>>
        /\ UNCHANGED <<call.cleanHist, call.cleanSeal, call.served, call.commit>>
    BY <1>1, <1>6 DEF GoLive, Plan
  <2> QED
    BY <1>5, <2>1
<1>7. CASE \E n \in Node : WriteDesired(n)
  <2>1. /\ UNCHANGED <<seal, stagedTL, stagedTLHist, servedTL>>
        /\ UNCHANGED <<call.cleanHist, call.cleanSeal, call.served, call.commit>>
    BY <1>1, <1>7 DEF WriteDesired, Plan
  <2> QED
    BY <1>5, <2>1
<1>8. CASE WriteServedTL
  <2>1. /\ UNCHANGED <<seal, stagedTL, stagedTLHist>>
        /\ servedTL' = call.served /\ call.served # Skip /\ call'.served = Skip
        /\ UNCHANGED <<call.cleanHist, call.cleanSeal, call.commit>>
    BY <1>1, <1>8 DEF WriteServedTL, Plan
  <2> QED
    BY <1>5, <2>1
<1>9. CASE Commit
  <2>1. /\ UNCHANGED <<seal, stagedTL, stagedTLHist, servedTL>>
        /\ call' = [call EXCEPT !.commit = FALSE]
    BY <1>9 DEF Commit
  <2>2. ~call'.commit /\ UNCHANGED <<call.cleanHist, call.cleanSeal, call.served>>
    BY <1>1, <2>1 DEF Plan
  <2> QED
    BY <1>5, <2>1, <2>2
<1>10. CASE \E n \in Node : CleanStaged(n)
  <2>1. /\ UNCHANGED <<seal, stagedTL, stagedTLHist, servedTL>>
        /\ UNCHANGED <<call.cleanHist, call.cleanSeal, call.served, call.commit>>
    BY <1>1, <1>10 DEF CleanStaged, Plan
  <2> QED
    BY <1>5, <2>1
<1>11. CASE CleanHist
  <2>1. /\ call.cleanHist # Skip /\ call'.cleanHist = Skip
        /\ stagedTLHist' = stagedTLHist \/ stagedTLHist' = call.cleanHist
        /\ UNCHANGED <<seal, stagedTL, servedTL>>
        /\ UNCHANGED <<call.cleanSeal, call.served, call.commit>>
    BY <1>1, <1>11 DEF CleanHist, Plan
  <2>2. call.cleanHist \in TrustList /\ call.cleanHist # None
    BY <1>1, <2>1, Distinct DEF Plan
  <2>3. HistInv'
    BY <1>1, <1>2, <2>1, <2>2 DEF HistInv
  <2>4. Pending' \subseteq Pending
    BY <1>1, <1>2, <2>1, <2>2 DEF Pending
  <2>5. EpochInv'
    BY <1>4, <2>1, <2>2, <2>4
  <2>6. PinInv'
    BY <1>1, <1>2, <2>1 DEF PinInv
  <2> QED
    BY <1>3, <2>3, <2>5, <2>6
<1>12. CASE CleanSeal
  <2>1. /\ ~call.commit /\ call.cleanHist = Skip /\ call.cleanSeal # Skip /\ call'.cleanSeal = Skip
        /\ seal' = seal \/ seal' = call.cleanSeal
        /\ UNCHANGED <<stagedTL, stagedTLHist, servedTL>>
        /\ UNCHANGED <<call.cleanHist, call.served, call.commit>>
    BY <1>1, <1>12 DEF CleanSeal, Plan, Committed
  <2>2. HistInv'
    BY <1>1, <1>2, <2>1 DEF HistInv
  <2>3. Pending' \subseteq Pending
    BY <1>1, <1>2, <2>1 DEF Pending
  <2>4. EpochInv'
    BY <1>4, <2>1, <2>3
  <2>5. PinInv'
    BY <1>1, <1>2, <2>1 DEF PinInv
  <2> QED
    BY <1>3, <2>2, <2>4, <2>5
<1>13. CASE CleanStagedTL
  <2>1. /\ ~call.commit /\ (stagedTL' = stagedTL \/ stagedTL' = None)
        /\ UNCHANGED <<seal, stagedTLHist, servedTL>>
        /\ UNCHANGED <<call.cleanHist, call.cleanSeal, call.served, call.commit>>
    BY <1>1, <1>13 DEF CleanStagedTL, Plan, Committed
  <2>2. HistInv'
    BY <1>1, <1>2, <2>1 DEF HistInv
  <2>3. Pending' \subseteq Pending
    BY <1>1, <1>2, <2>1 DEF Pending
  <2>4. EpochInv'
    BY <1>4, <2>1, <2>3
  <2>5. PinInv'
    BY <1>1, <1>2, <2>1 DEF PinInv
  <2> QED
    BY <1>3, <2>2, <2>4, <2>5
<1> QED
  BY <1>6, <1>7, <1>8, <1>9, <1>10, <1>11, <1>12, <1>13 DEF PromoteWrite, CleanWrite

-----------------------------------------------------------------------------
(***************************************************************************)
(* The decisions and the calls.                                             *)
(***************************************************************************)

\* No plan: nothing is to be written.
LEMMA IdlePlan ==
    /\ ~Idle.unseal /\ Idle.put = NoPuts /\ Idle.prune = {} /\ Idle.hist = Skip /\ Idle.tl = Skip
    /\ Idle.hist2 = Skip /\ Idle.tl2 = Skip /\ Idle.seal = Skip /\ ~Idle.wake
    /\ Idle.live = {} /\ Idle.desire = {} /\ Idle.served = Skip /\ ~Idle.commit /\ Idle.clean = {}
    /\ Idle.cleanHist = Skip /\ Idle.cleanSeal = Skip /\ Idle.cleanTL = Skip
  BY DEF Idle

\* The plans of the calls the controller makes.
LEMMA EmptyFields ==
    ASSUME ReplaceStagedSetEmpty
    PROVE  LET history == IF stagedTL # None THEN stagedTL ELSE stagedTLHist IN
           /\ call = Idle /\ UNCHANGED disk
           /\ call'.unseal /\ call'.put = NoPuts /\ call'.tl = None /\ call'.hist2 = Skip
           /\ call'.hist = IF stagedTL # None THEN stagedTL ELSE Skip
           /\ call'.tl2 = IF history = None THEN Skip ELSE history
           /\ call'.seal = IF history = None THEN Skip ELSE HistoricalSeal(HistoricalGen, history)
           /\ call'.live = {} /\ call'.served = Skip /\ ~call'.commit /\ call'.clean = {}
           /\ call'.cleanHist = Skip /\ call'.cleanSeal = Skip /\ call'.cleanTL = Skip
  BY IdleType, IdlePlan DEF ReplaceStagedSetEmpty, Plan

\* The plan ReplaceStagedSet opens for a non-empty candidate.
LEMMA ReplaceFields ==
    ASSUME NEW bundles, NEW sl, ReplaceStagedSet(bundles, sl)
    PROVE  /\ call = Idle /\ UNCHANGED disk
           /\ call'.unseal /\ call'.put = bundles /\ call'.hist = Skip /\ call'.tl = sl
           /\ call'.prune = {n \in Node : staged[n] # None /\ bundles[n] = None}
           /\ call'.hist2 = (IF sl = None THEN Skip ELSE sl) /\ call'.tl2 = Skip
           /\ call'.seal = SealFor(bundles, sl, FALSE)
           /\ call'.live = {} /\ call'.served = Skip /\ ~call'.commit /\ call'.clean = {}
           /\ call'.cleanHist = Skip /\ call'.cleanSeal = Skip /\ call'.cleanTL = Skip
  BY IdleType, IdlePlan DEF ReplaceStagedSet, Plan

\* The plan PromoteStaged opens: what goes live, and the commit.
LEMMA PromoteFields ==
    ASSUME PromoteStaged
    PROVE  LET sl == IF seal.man = None THEN None ELSE stagedTL IN
           /\ call = Idle /\ Promotable /\ UNCHANGED disk
           /\ ~call'.unseal /\ call'.put = NoPuts /\ call'.prune = {} /\ call'.hist = Skip
           /\ call'.tl = Skip /\ call'.hist2 = Skip /\ call'.tl2 = Skip /\ call'.seal = Skip
           /\ call'.served = IF sl # None /\ sl.sig # None
                             THEN [man |-> sl.man, sig |-> sl.sig, promoted |-> next] ELSE Skip
           /\ call'.commit
           /\ call'.cleanHist = IF sl = None THEN Skip ELSE sl
           /\ call'.cleanSeal = IF sl = None THEN None ELSE HistoricalSeal(next, sl)
  BY IdleType, IdlePlan DEF PromoteStaged, Plan

\* The plan BumpGeneration opens: no bundle moves, history is kept.
LEMMA BumpFields ==
    ASSUME BumpGeneration
    PROVE  LET history == IF stagedTLHist # None THEN stagedTLHist ELSE stagedTL IN
           /\ call = Idle /\ UNCHANGED disk
           /\ call'.unseal /\ call'.put = NoPuts /\ call'.prune = {}
           /\ call'.hist = IF history = None THEN Skip ELSE history
           /\ call'.tl = history /\ call'.hist2 = Skip /\ call'.tl2 = Skip
           /\ call'.seal = IF history = None THEN Skip ELSE HistoricalSeal(next, history)
           /\ call'.wake /\ call'.live = {} /\ call'.desire = {} /\ call'.served = Skip /\ ~call'.commit
           /\ call'.clean = {} /\ call'.cleanHist = Skip /\ call'.cleanSeal = Skip
           /\ call'.cleanTL = Skip
  BY IdleType, IdlePlan DEF BumpGeneration, Plan

\* The plan PutSignedTrustList opens: the same manifest, now signed.
LEMMA PutSignedFields ==
    ASSUME NEW sl, PutSignedTrustList(sl)
    PROVE  /\ call = Idle /\ UNCHANGED disk
           /\ call'.put = NoPuts /\ call'.prune = {} /\ call'.tl = sl /\ call'.tl2 = Skip
           /\ call'.live = {} /\ call'.served = Skip /\ ~call'.commit
           /\ call'.clean = {} /\ call'.cleanHist = Skip /\ call'.cleanSeal = Skip
           /\ call'.cleanTL = Skip
           /\ \/ /\ seal.man = sl.man
                 /\ ~call'.unseal /\ call'.hist = sl /\ call'.hist2 = Skip /\ call'.seal = Skip
              \/ /\ ~(sealLoads /\ (seal.historical \/ seal.gen = next) /\ seal.man = sl.man)
                 /\ call'.unseal /\ call'.hist = Skip /\ call'.hist2 = sl
                 /\ call'.seal = SealFor(staged, sl, TRUE)
<1> DEFINE sameBytes == sealLoads /\ (seal.historical \/ seal.gen = next) /\ seal.man = sl.man
<1>1. /\ call = Idle /\ UNCHANGED disk
      /\ \/ seal.man = sl.man /\ call' = [Idle EXCEPT !.hist = sl, !.tl = sl]
         \/ /\ ~sameBytes
            /\ call' = [Idle EXCEPT !.unseal = TRUE, !.tl = sl, !.hist2 = sl,
                                    !.seal = SealFor(staged, sl, TRUE)]
  BY DEF PutSignedTrustList
<1> HIDE DEF sameBytes
<1>2. /\ call'.put = NoPuts /\ call'.prune = {} /\ call'.tl = sl /\ call'.tl2 = Skip
      /\ call'.live = {} /\ call'.served = Skip /\ ~call'.commit
      /\ call'.clean = {} /\ call'.cleanHist = Skip /\ call'.cleanSeal = Skip
      /\ call'.cleanTL = Skip
      /\ \/ /\ seal.man = sl.man
            /\ ~call'.unseal /\ call'.hist = sl /\ call'.hist2 = Skip /\ call'.seal = Skip
         \/ /\ ~sameBytes
            /\ call'.unseal /\ call'.hist = Skip /\ call'.hist2 = sl
            /\ call'.seal = SealFor(staged, sl, TRUE)
  BY <1>1, IdleType, IdlePlan, ZenonT(60) DEF Plan
<1> QED
  BY <1>1, <1>2, Zenon DEF sameBytes

\* Nothing is owed once no operation holds the store or the tenant lock.
LEMMA ReleasedControl ==
    ASSUME CInv, UNCHANGED <<disk, cred, shown>>,
           call' = Idle, tenant' = NoOp \/ (UNCHANGED tenant /\ tenant.op # "storing")
    PROVE  LockInv' /\ HistInv' /\ EpochInv' /\ PinInv'
<1>1. UNCHANGED <<seal, stagedTL, stagedTLHist, servedTL>>
  BY DEF disk
<1>2. NoOp.op = "none" /\ NoOp.sl = None
  BY DEF NoOp
<1> USE IdlePlan, <1>1, <1>2
<1>3. LockInv'
  BY DEF CInv, LockInv, Deciding, PromoteIdle
<1>4. HistInv'
  BY Zenon DEF CInv, HistInv
<1>5. EpochInv'
  <2>1. Pending' \subseteq Pending
    BY Zenon DEF Pending
  <2> QED
    BY <2>1, EpochKept, Zenon DEF CInv, EpochInv
<1>6. PinInv'
  BY Zenon DEF CInv, PinInv
<1> QED
  BY <1>3, <1>4, <1>5, <1>6

\* The manifest on offer is also the one in the history slot.
LEMMA OfferedManifest ==
    ASSUME CInv, GetCurrentSignedTrustList # None
    PROVE  /\ sealLoads /\ seal # None /\ seal.man # None
           /\ GetCurrentSignedTrustList = stagedTL /\ stagedTL \in TrustList
           /\ stagedTL.man = seal.man
           /\ stagedTLHist \in TrustList /\ stagedTLHist.man = seal.man
<1>1. /\ sealLoads /\ seal # None /\ seal.man # None
      /\ GetCurrentSignedTrustList = stagedTL /\ stagedTL # None /\ stagedTL.man = seal.man
  BY DEF GetCurrentSignedTrustList, sealLoads, sealedTrustListMatches
<1> QED
  BY <1>1 DEF CInv, HistInv, ControlTypeOK, StoreTypeOK, TrustListOrNone

\* Precedes is transitive on manifests.
LEMMA PrecedesTransitive ==
    ASSUME NEW x \in Manifest, NEW y \in Manifest, NEW z \in Manifest, Precedes(x, y), Precedes(y, z)
    PROVE  Precedes(x, z)
  BY ManifestType DEF Precedes

\* Stage up to the end of compilation decides a candidate and writes nothing.
LEMMA CompileControl ==
    ASSUME CInv, NEW fleet \in Fleet, NEW forced, CompileAndStage(fleet, forced)
    PROVE  LockInv' /\ HistInv' /\ EpochInv' /\ PinInv'
<1>1. /\ call = Idle /\ call' = Idle
      /\ UNCHANGED <<seal, stagedTL, stagedTLHist, servedTL, cred, shown>>
      /\ tenant'.op = "stage"
      /\ tenant'.sl = None \/ (keystoneOn /\ tenant'.sl = buildStagedManifest(fleet))
      /\ keystoneOn => NextEpoch(fleet) <= MaxEpoch
  BY DEF CompileAndStage, Free, storeVars, disk
<1> USE <1>1, IdlePlan
<1>2. LockInv'
  BY DEF LockInv, Deciding, PromoteIdle
<1>3. HistInv'
  BY DEF CInv, HistInv
<1>4. PinInv'
  BY Zenon DEF CInv, PinInv, keystoneOn
<1>5. EpochInv'
  <2>1. CASE tenant'.sl = None
    <3>1. Pending' \subseteq Pending
      BY <2>1, Zenon DEF Pending
    <3> QED
      BY <2>1, <3>1, EpochKept, Zenon DEF CInv, EpochInv
  <2>2. CASE keystoneOn /\ tenant'.sl = buildStagedManifest(fleet)
    <3> DEFINE new == buildStagedManifest(fleet)
    <3>1. /\ new \in TrustList /\ new.man \in Manifest
          /\ GetLastStagedTrustList # None => Precedes(GetLastStagedTrustList.man, new.man)
      BY <2>2, StagedManifest, Zenon DEF CInv, TrustList
    <3>2. /\ stagedTLHist # None => stagedTLHist \in TrustList /\ stagedTLHist.man \in Manifest
          /\ servedTL # None => servedTL.man \in Manifest
          /\ shown \subseteq Manifest
      BY Zenon DEF CInv, ControlTypeOK, StoreTypeOK, TrustListOrNone, TrustList, ServedTrustList
    <3>3. /\ stagedTLHist # None => Precedes(stagedTLHist.man, new.man)
          /\ stagedTLHist = None /\ stagedTL # None => Precedes(stagedTL.man, new.man)
      BY <3>1, Zenon DEF GetLastStagedTrustList
    <3>4. IssuedBefore(new.man)
      <4>1. CASE stagedTLHist = None
        BY <4>1, Zenon DEF CInv, EpochInv, IssuedBefore
      <4>2. CASE stagedTLHist # None
        <5>1. IssuedBefore(stagedTLHist.man)
          BY <4>2, <3>2, Distinct, Zenon DEF CInv, EpochInv, Pending
        <5>2. Precedes(stagedTLHist.man, new.man)
          BY <4>2, <3>3, Zenon
        <5>3. stagedTLHist.man \in Manifest
          BY <4>2, <3>2, Zenon
        <5> HIDE DEF new
        <5>4. ASSUME NEW m \in Manifest, Precedes(m, stagedTLHist.man)
              PROVE  Precedes(m, new.man)
          BY <5>2, <5>3, <5>4, <3>1, PrecedesTransitive, Zenon
        <5> QED
          BY <5>1, <5>4, <3>2, Zenon DEF IssuedBefore
      <4> QED
        BY <4>1, <4>2, Zenon
    <3>5. Pending' \subseteq Pending \cup {new}
      BY <2>2, Zenon DEF Pending
    <3> HIDE DEF new
    <3>6. \A sl \in Pending' : IssuedBefore(sl.man)
      BY <3>4, <3>5, Zenon DEF CInv, EpochInv
    <3>7. ASSUME NEW CONSTANT t, IssuedBefore(t) PROVE IssuedBefore(t)'
      BY <3>7, IssuedKept, Zenon
    <3>8. (\A sl \in Pending : IssuedBefore(sl.man))'
      BY <3>6, <3>7, Zenon
    <3>9. EpochNamesOneManifest'
      BY Zenon DEF CInv, EpochInv, EpochNamesOneManifest
    <3>10. tenant'.sl = new
      BY <2>2, Zenon DEF new
    <3> QED
      BY <3>3, <3>8, <3>9, <3>10, Zenon DEF CInv, EpochInv
  <2> QED
    BY <2>1, <2>2, Zenon
<1> QED
  BY <1>2, <1>3, <1>4, <1>5

\* Publishing the decided candidate opens the store call it decided.
LEMMA PublishControl ==
    ASSUME CInv, PublishStage
    PROVE  LockInv' /\ HistInv' /\ EpochInv' /\ PinInv'
<1>1. /\ call = Idle /\ tenant.op = "stage" /\ UNCHANGED <<disk, cred, shown>>
      /\ tenant' = [tenant EXCEPT !.op = "storing"]
  BY DEF PublishStage, ReplaceStagedSet, ReplaceStagedSetEmpty
<1>2. /\ UNCHANGED <<seal, stagedTL, stagedTLHist, servedTL, cred, shown>>
      /\ tenant'.op = "storing" /\ tenant'.sl = tenant.sl
  BY <1>1 DEF disk, CInv, ControlTypeOK
<1> DEFINE history == IF stagedTL # None THEN stagedTL ELSE stagedTLHist
<1>3. /\ call'.unseal /\ call'.served = Skip /\ ~call'.commit
      /\ call'.cleanHist = Skip /\ call'.cleanSeal = Skip
      /\ \/ /\ call'.hist = IF stagedTL # None THEN stagedTL ELSE Skip
            /\ call'.tl = None /\ call'.hist2 = Skip
            /\ call'.tl2 = IF history = None THEN Skip ELSE history
            /\ \/ history = None /\ call'.seal = Skip
               \/ history # None /\ call'.seal.man = history.man
         \/ /\ call'.hist = Skip /\ call'.tl = tenant.sl /\ call'.tl2 = Skip
            /\ call'.hist2 = IF tenant.sl = None THEN Skip ELSE tenant.sl
            /\ \/ call'.seal = Skip
               \/ call'.seal.man = IF tenant.sl = None THEN None ELSE tenant.sl.man
  <2>1. CASE tenant.bundles = NoPuts
    <3>1. ReplaceStagedSetEmpty
      BY <2>1 DEF PublishStage
    <3>2. HistoricalSeal(HistoricalGen, history).man = history.man
      BY DEF HistoricalSeal
    <3> QED
      BY <3>1, <3>2, EmptyFields, Zenon
  <2>2. CASE tenant.bundles # NoPuts
    <3>1. ReplaceStagedSet(tenant.bundles, tenant.sl)
      BY <2>2 DEF PublishStage
    <3>2. \/ SealFor(tenant.bundles, tenant.sl, FALSE) = Skip
          \/ SealFor(tenant.bundles, tenant.sl, FALSE).man
               = IF tenant.sl = None THEN None ELSE tenant.sl.man
      BY DEF SealFor
    <3>3. /\ call'.unseal /\ call'.hist = Skip /\ call'.tl = tenant.sl
          /\ call'.hist2 = (IF tenant.sl = None THEN Skip ELSE tenant.sl) /\ call'.tl2 = Skip
          /\ call'.seal = SealFor(tenant.bundles, tenant.sl, FALSE)
          /\ call'.served = Skip /\ ~call'.commit
          /\ call'.cleanHist = Skip /\ call'.cleanSeal = Skip
      BY <3>1, ReplaceFields, Zenon
    <3> QED
      BY <3>2, <3>3, Zenon
  <2> QED
    BY <2>1, <2>2, Zenon
<1>4. /\ stagedTL # None => stagedTL # Skip
      /\ stagedTLHist # None => stagedTLHist # Skip
      /\ tenant.sl # Skip
  BY Distinct DEF CInv, ControlTypeOK, StoreTypeOK, TrustListOrNone
<1> USE <1>2, <1>3, <1>4
<1>5. LockInv'
  BY Zenon DEF LockInv, Deciding
<1>6. HistInv'
  BY Zenon DEF CInv, HistInv, FinalHist
<1>7. EpochInv'
  <2>0. call.served = Skip
    BY <1>1, IdlePlan
  <2>1. Pending' \subseteq Pending
    BY Zenon DEF Pending
  <2> QED
    BY <2>0, <2>1, EpochKept DEF CInv, EpochInv
<1>8. PinInv'
  BY Zenon DEF CInv, PinInv
<1> QED
  BY <1>5, <1>6, <1>7, <1>8, Zenon

\* Serving the staged manifest to the operator writes nothing.
LEMMA FetchControl ==
    ASSUME CInv, FetchTrustList
    PROVE  LockInv' /\ HistInv' /\ EpochInv' /\ PinInv'
<1>1. /\ call = Idle /\ UNCHANGED <<call, seal, stagedTL, stagedTLHist, servedTL, cred, tenant>>
      /\ shown' = shown \cup {stagedTL.man}
  BY OfferedManifest DEF FetchTrustList, storeVars, disk
<1>2. /\ seal # None /\ seal.man # None /\ stagedTL \in TrustList /\ stagedTL.man = seal.man
      /\ stagedTLHist \in TrustList /\ stagedTLHist.man = seal.man
      /\ stagedTL.man \in Manifest
  BY OfferedManifest DEF FetchTrustList, TrustList
<1> USE <1>1, <1>2
<1>3. LockInv' /\ HistInv' /\ PinInv'
  BY Zenon DEF CInv, LockInv, Deciding, HistInv, FinalHist, PinInv, PromoteIdle
<1>4. EpochInv'
  <2>1. IssuedBefore(stagedTL.man)
    BY Distinct, Zenon DEF CInv, EpochInv, Pending
  <2>2. EpochNamesOneManifest'
    <3>1. ASSUME NEW m \in shown, m.epoch = stagedTL.man.epoch PROVE m = stagedTL.man
      <4>1. m \in Manifest
        BY Zenon DEF CInv, ControlTypeOK
      <4>2. m.epoch \in Nat
        BY <4>1, ManifestType, Zenon
      <4>3. Precedes(m, stagedTL.man)
        BY <2>1, Zenon DEF IssuedBefore
      <4> HIDE <1>1, <1>2
      <4> QED
        BY <3>1, <4>2, <4>3 DEF Precedes
    <3>2. EpochNamesOneManifest
      BY DEF CInv, EpochInv
    <3> QED
      BY <3>1, <3>2, Zenon DEF EpochNamesOneManifest
  <2>3. \A sl \in Pending : sl.man = stagedTL.man \/ sl = tenant.sl
    BY IdlePlan DEF Pending
  <2>4. tenant.sl # None => tenant.op \in {"stage", "sign"}
    BY IdlePlan DEF CInv, LockInv, ControlTypeOK
  <2>5. ASSUME NEW sl \in Pending PROVE Precedes(stagedTL.man, sl.man)
    <3>1. CASE sl.man = stagedTL.man
      BY <3>1 DEF Precedes
    <3>2. CASE sl = tenant.sl
      <4>1. tenant.sl # None
        BY <3>2 DEF Pending
      <4> QED
        BY <3>2, <4>1, <2>4, Distinct DEF CInv, EpochInv
    <3> QED
      BY <2>3, <3>1, <3>2
  <2>6. Pending' = Pending
    BY DEF Pending
  <2>7. ASSUME NEW sl \in Pending PROVE IssuedBefore(sl.man)'
    BY <2>5 DEF CInv, EpochInv, IssuedBefore
  <2>8. (\A sl \in Pending : IssuedBefore(sl.man))'
    BY <2>6, <2>7
  <2> QED
    BY <2>2, <2>8, Distinct, Zenon DEF CInv, EpochInv
<1> QED
  BY <1>3, <1>4, Zenon

\* An uploaded signature is put only on the manifest that is staged.
LEMMA InstallControl ==
    ASSUME CInv, NEW man \in shown, InstallTrustListSignature(man)
    PROVE  LockInv' /\ HistInv' /\ EpochInv' /\ PinInv'
<1>1. /\ call = Idle /\ call' = Idle /\ cred # None
      /\ UNCHANGED <<seal, stagedTL, stagedTLHist, servedTL, cred, shown>>
      /\ tenant'.op = "sign" /\ tenant'.sl = [man |-> man, sig |-> cred]
  BY DEF InstallTrustListSignature, Free, storeVars, disk, NoOp, keystoneOn
<1>2. /\ stagedTL \in TrustList /\ stagedTL.man = man
      /\ stagedTLHist \in TrustList /\ stagedTLHist.man = man
  BY OfferedManifest DEF InstallTrustListSignature
<1>3. tenant'.sl.man = man /\ tenant'.sl # None
  <2>1. [man |-> man, sig |-> cred] \in TrustList
    BY <1>1, Zenon DEF CInv, ControlTypeOK, TrustList, Cred
  <2>2. [man |-> man, sig |-> cred].man = man
    OBVIOUS
  <2>3. [man |-> man, sig |-> cred] # None
    BY <2>1, Distinct
  <2> QED
    BY <1>1, <2>2, <2>3, Zenon
<1> USE <1>1, <1>2, <1>3, IdlePlan
<1>4. LockInv'
  BY DEF LockInv, Deciding, PromoteIdle
<1>5. HistInv'
  BY DEF CInv, HistInv
<1>6. PinInv'
  BY Zenon DEF CInv, PinInv
<1>7. EpochInv'
  <2>1. IssuedBefore(man)
    BY Distinct, Zenon DEF CInv, EpochInv, Pending
  <2>2. Pending' \subseteq Pending \cup {tenant'.sl}
    BY Zenon DEF Pending
  <2>3. ASSUME NEW sl \in Pending' PROVE IssuedBefore(sl.man)
    BY <2>1, <2>2, Zenon DEF CInv, EpochInv
  <2>4. (\A sl \in Pending : IssuedBefore(sl.man))'
    BY <2>3, Zenon DEF IssuedBefore
  <2>5. EpochNamesOneManifest'
    BY Zenon DEF CInv, EpochInv, EpochNamesOneManifest
  <2> QED
    BY <2>4, <2>5, Distinct, Zenon DEF EpochInv, Precedes
<1> QED
  BY <1>4, <1>5, <1>6, <1>7, Zenon

\* The signed manifest enters the store under the tenant lock.
LEMMA SignatureControl ==
    ASSUME CInv, StoreSignature
    PROVE  LockInv' /\ HistInv' /\ EpochInv' /\ PinInv'
<1>1. /\ call = Idle /\ tenant.op = "sign" /\ tenant'.op = "none" /\ tenant'.sl = None
      /\ UNCHANGED <<seal, stagedTL, stagedTLHist, servedTL, cred, shown>>
      /\ PutSignedTrustList(tenant.sl)
  BY DEF StoreSignature, PutSignedTrustList, NoOp, disk
<1>2. tenant.sl # None /\ tenant.sl # Skip
  BY <1>1, Distinct, Zenon DEF CInv, LockInv, ControlTypeOK, TrustListOrNone
<1>3. /\ call'.tl = tenant.sl /\ call'.tl2 = Skip /\ call'.served = Skip /\ ~call'.commit
      /\ call'.cleanHist = Skip /\ call'.cleanSeal = Skip
      /\ \/ /\ ~call'.unseal /\ call'.hist = tenant.sl /\ call'.hist2 = Skip /\ call'.seal = Skip
            /\ seal.man = tenant.sl.man
         \/ /\ call'.unseal /\ call'.hist = Skip /\ call'.hist2 = tenant.sl
            /\ call'.seal = Skip \/ call'.seal.man = tenant.sl.man
  <2>1. \/ SealFor(staged, tenant.sl, TRUE) = Skip
        \/ SealFor(staged, tenant.sl, TRUE).man = tenant.sl.man
    BY <1>2, Zenon DEF SealFor
  <2> QED
    BY <1>1, <2>1, PutSignedFields, Zenon
<1> USE <1>1, <1>2, <1>3
<1>4. LockInv'
  BY Zenon DEF LockInv, Deciding
<1>5. HistInv'
  BY Zenon DEF CInv, HistInv, FinalHist
<1>6. EpochInv'
  <2>0. call.served = Skip
    BY IdlePlan, Zenon
  <2>1. Pending' \subseteq Pending
    BY Zenon DEF Pending
  <2> QED
    BY <2>0, <2>1, EpochKept DEF CInv, EpochInv
<1>7. PinInv'
  BY Zenon DEF CInv, PinInv
<1> QED
  BY <1>4, <1>5, <1>6, <1>7, Zenon

\* The promote gate only reads: it decides whether the call is made.
LEMMA GateControl ==
    ASSUME CInv, GatePromote
    PROVE  LockInv' /\ HistInv' /\ EpochInv' /\ PinInv'
<1>1. /\ call = Idle /\ call' = Idle /\ PromoteGate
      /\ UNCHANGED <<seal, stagedTL, stagedTLHist, servedTL, cred, shown>>
      /\ tenant'.op = "promote" /\ tenant'.sl = None
  BY DEF GatePromote, Free, storeVars, disk, NoOp
<1> USE <1>1, IdlePlan
<1>2. LockInv'
  BY Zenon DEF LockInv, Deciding, PromoteIdle
<1>3. HistInv'
  BY Zenon DEF CInv, HistInv
<1>4. EpochInv'
  <2>1. Pending' \subseteq Pending
    BY Zenon DEF Pending
  <2> QED
    BY <2>1, EpochKept, Zenon DEF CInv, EpochInv
<1>5. PinInv'
  <2>1. cred # None => seal.man # None /\ stagedTL.sig = cred
    BY OfferedManifest, Zenon DEF PromoteGate, StagedSignatureVerifies, keystoneOn
  <2> QED
    BY <2>1, Zenon DEF CInv, PinInv
<1> QED
  BY <1>2, <1>3, <1>4, <1>5, Zenon

\* The promote call is opened only behind a gate that saw this signature.
LEMMA PromoteControl ==
    ASSUME CInv, StorePromote
    PROVE  LockInv' /\ HistInv' /\ EpochInv' /\ PinInv'
<1> DEFINE sl == IF seal.man = None THEN None ELSE stagedTL
<1>1. /\ call = Idle /\ Promotable /\ tenant.op = "promote" /\ tenant'.op = "none" /\ tenant'.sl = None
      /\ UNCHANGED <<seal, stagedTL, stagedTLHist, servedTL, cred, shown>>
      /\ call'.hist = Skip /\ call'.tl = Skip /\ call'.hist2 = Skip /\ call'.tl2 = Skip
      /\ call'.seal = Skip
      /\ call'.served = Skip \/ (sl # None /\ call'.served.man = sl.man)
      /\ call'.cleanHist = IF sl = None THEN Skip ELSE sl
      /\ call'.cleanSeal = None \/ (sl # None /\ call'.cleanSeal.man = sl.man)
      /\ sl = None => call'.served = Skip
  <2>1. PromoteStaged /\ tenant.op = "promote" /\ tenant' = NoOp /\ UNCHANGED <<cred, shown>>
    BY DEF StorePromote
  <2>2. HistoricalSeal(next, sl).man = sl.man
    BY DEF HistoricalSeal
  <2>3. call'.served = [man |-> sl.man, sig |-> sl.sig, promoted |-> next]
          => call'.served.man = sl.man
    OBVIOUS
  <2>4. tenant'.op = "none" /\ tenant'.sl = None
    BY <2>1 DEF NoOp
  <2> QED
    BY <2>1, <2>2, <2>3, <2>4, PromoteFields DEF disk
<1>2. seal # None /\ ~seal.historical
  BY <1>1 DEF Promotable, sealLoads
<1>3. ASSUME seal.man # None
      PROVE  /\ sl = stagedTL /\ stagedTL \in TrustList /\ stagedTL.man = seal.man
             /\ stagedTLHist \in TrustList /\ stagedTLHist.man = seal.man
  BY <1>1, <1>2, <1>3, Zenon DEF Promotable, sealedTrustListMatches, CInv, HistInv, ControlTypeOK,
     StoreTypeOK, TrustListOrNone
<1>4. seal.man = None => sl = None
  OBVIOUS
<1> HIDE DEF sl
<1> USE <1>1, <1>2, <1>3, <1>4
<1>5. LockInv'
  BY DEF LockInv, Deciding
<1>6. HistInv'
  BY Distinct, Zenon DEF CInv, HistInv
<1>7. PinInv'
  BY Distinct, Zenon DEF CInv, PinInv
<1>8. EpochInv'
  <2>0. call.served = Skip
    BY IdlePlan
  <2>1. Pending' \subseteq Pending
    BY DEF Pending
  <2>2. CASE call'.served = Skip
    BY <2>0, <2>1, <2>2, EpochKept, Zenon DEF CInv, EpochInv
  <2>3. CASE call'.served # Skip
    <3>1. seal.man # None /\ call'.served.man = stagedTL.man
      BY <2>3
    <3>2. \A t \in Pending' : t.man = stagedTL.man
      BY <3>1 DEF Pending
    <3>3. ASSUME NEW t \in Pending' PROVE IssuedBefore(t.man)'
      <4>1. IssuedBefore(t.man)
        BY <2>1 DEF CInv, EpochInv
      <4> QED
        BY <4>1, <3>1, <3>2 DEF IssuedBefore, Precedes
    <3>4. EpochNamesOneManifest'
      BY DEF CInv, EpochInv, EpochNamesOneManifest
    <3> QED
      BY <3>1, <3>3, <3>4, Distinct, Zenon DEF EpochInv
  <2> QED
    BY <2>2, <2>3
<1> QED
  BY <1>5, <1>6, <1>7, <1>8, Zenon

\* Rekey-all's wake bumps the generation without the tenant lock.
LEMMA WakeControl ==
    ASSUME CInv, RekeyAllWake
    PROVE  LockInv' /\ HistInv' /\ EpochInv' /\ PinInv'
<1> DEFINE history == IF stagedTLHist # None THEN stagedTLHist ELSE stagedTL
<1>1. /\ call = Idle /\ UNCHANGED <<seal, stagedTL, stagedTLHist, servedTL, cred, shown, tenant>>
      /\ call'.unseal /\ call'.put = NoPuts /\ call'.prune = {}
      /\ call'.hist = IF history = None THEN Skip ELSE history
      /\ call'.tl = history /\ call'.hist2 = Skip /\ call'.tl2 = Skip
      /\ call'.seal = IF history = None THEN Skip ELSE HistoricalSeal(next, history)
      /\ call'.live = {} /\ call'.desire = {} /\ call'.served = Skip /\ ~call'.commit
      /\ call'.clean = {} /\ call'.cleanHist = Skip /\ call'.cleanSeal = Skip
      /\ call'.cleanTL = Skip
  <2>1. BumpGeneration /\ UNCHANGED <<cred, shown, tenant>>
    BY DEF RekeyAllWake
  <2> QED
    BY <2>1, BumpFields DEF disk
<1>2. /\ history # None => history \in TrustList /\ history # Skip
      /\ stagedTLHist # None => history = stagedTLHist
      /\ stagedTLHist = None => history = stagedTL
  BY Distinct DEF CInv, ControlTypeOK, StoreTypeOK, TrustListOrNone
<1>3. HistoricalSeal(next, history).historical /\ HistoricalSeal(next, history).man = history.man
  BY DEF HistoricalSeal
<1> HIDE DEF history
<1> USE <1>1, <1>2, <1>3
<1>4. LockInv'
  BY Zenon DEF CInv, LockInv, Deciding, PromoteIdle
<1>5. HistInv'
  BY Zenon DEF CInv, HistInv, FinalHist
<1>6. EpochInv'
  <2>0. call.served = Skip
    BY IdlePlan, Zenon
  <2>1. Pending' \subseteq Pending
    <3>1. /\ call.hist2 = Skip /\ call.tl2 = Skip /\ call.cleanHist = Skip
          /\ call'.hist \in {Skip, stagedTLHist, stagedTL}
          /\ call'.tl \in {stagedTLHist, stagedTL}
      BY IdlePlan, Zenon
    <3> QED
      BY <3>1, Zenon DEF Pending
  <2>2. EpochInv
    BY DEF CInv
  <2>3. /\ EpochNamesOneManifest'
        /\ (shown # {} \/ servedTL # None \/ call.served # Skip => stagedTLHist # None)'
        /\ (\A sl \in Pending : IssuedBefore(sl.man))'
    BY <2>0, <2>1, <2>2, EpochKept, Zenon
  <2>4. (tenant.op \in {"stage", "sign"} /\ tenant.sl # None =>
           /\ stagedTLHist # None => Precedes(stagedTLHist.man, tenant.sl.man)
           /\ stagedTLHist = None /\ stagedTL # None => Precedes(stagedTL.man, tenant.sl.man)
           /\ call.hist # Skip => Precedes(call.hist.man, tenant.sl.man)
           /\ call.tl \notin {None, Skip} => stagedTLHist # None \/ call.hist # Skip)'
    BY <2>2 DEF EpochInv, Precedes
  <2>5. (tenant.op = "sign" =>
           /\ stagedTLHist # None /\ stagedTLHist.man = tenant.sl.man
           /\ call.hist # Skip => call.hist.man = tenant.sl.man)'
    BY <2>2 DEF EpochInv
  <2> QED
    BY <2>3, <2>4, <2>5, Zenon DEF EpochInv
<1>7. PinInv'
  BY Zenon DEF CInv, PinInv
<1> QED
  BY <1>4, <1>5, <1>6, <1>7, Zenon

\* Pinning or rotating the credential never changes what is staged or served.
LEMMA PinControl ==
    ASSUME CInv, NEW c \in Cred, SetKeystoneCredential(c)
    PROVE  LockInv' /\ HistInv' /\ EpochInv' /\ PinInv'
<1>1. /\ call = Idle /\ call' = Idle /\ tenant = NoOp /\ cred' = c /\ c # None
      /\ UNCHANGED <<disk, seal, stagedTL, stagedTLHist, servedTL, shown, tenant, call>>
  BY Distinct DEF SetKeystoneCredential, Free, storeVars, disk, Cred
<1>2. tenant.op = "none"
  BY <1>1 DEF NoOp
<1> USE <1>1, <1>2, IdlePlan
<1>3. LockInv' /\ HistInv' /\ PinInv'
  BY Zenon DEF CInv, LockInv, Deciding, HistInv, PinInv
<1>4. EpochInv'
  <2>1. Pending' \subseteq Pending
    BY Zenon DEF Pending
  <2> QED
    BY <2>1, EpochKept, Zenon DEF CInv, EpochInv
<1> QED
  BY <1>3, <1>4, Zenon

\* Every step of the controller keeps the invariant.
LEMMA ControlNextInv == CInv /\ [ControlNext]_controlVars => CInv'
<1> SUFFICES ASSUME CInv, [ControlNext]_controlVars PROVE CInv'
  OBVIOUS
<1>0. IInv' /\ ControlTypeOK'
  BY ControlIsStore, NextInv, ControlTypes DEF CInv
<1> SUFFICES LockInv' /\ HistInv' /\ EpochInv' /\ PinInv'
  BY <1>0 DEF CInv
<1>1. CASE \E fleet \in Fleet : \E forced \in SUBSET DOMAIN fleet : CompileAndStage(fleet, forced)
  BY <1>1, CompileControl
<1>2. CASE PublishStage
  BY <1>2, PublishControl
<1>3. CASE FetchTrustList
  BY <1>3, FetchControl
<1>4. CASE \E man \in shown : InstallTrustListSignature(man)
  BY <1>4, InstallControl
<1>5. CASE StoreSignature
  BY <1>5, SignatureControl
<1>6. CASE GatePromote
  BY <1>6, GateControl
<1>7. CASE StorePromote
  BY <1>7, PromoteControl
<1>8. CASE StoreRefuses
  <2>1. call' = Idle /\ tenant' = NoOp /\ UNCHANGED <<disk, cred, shown>>
    BY <1>8 DEF StoreRefuses, storeVars
  <2> QED
    BY <2>1, ReleasedControl
<1>9. CASE RekeyAllWake
  BY <1>9, WakeControl
<1>10. CASE \E c \in Cred : SetKeystoneCredential(c)
  BY <1>10, PinControl
<1>11. CASE StoreWrite
  BY <1>11, WriterTenant, StageWriteControl, PromoteWriteControl
<1>12. CASE Fault
  <2>1. /\ call' = Idle /\ UNCHANGED <<disk, cred, shown>>
        /\ tenant' = NoOp \/ (UNCHANGED tenant /\ tenant.op # "storing")
    BY <1>12 DEF Fault, Interrupt
  <2> QED
    BY <2>1, ReleasedControl
<1>13. CASE UNCHANGED controlVars
  <2>1. UNCHANGED <<call, seal, stagedTL, stagedTLHist, servedTL, cred, tenant, shown>>
    BY <1>13 DEF controlVars, storeVars, disk
  <2>2. LockInv' /\ HistInv' /\ PinInv'
    BY <2>1, Zenon DEF CInv, LockInv, Deciding, HistInv, FinalHist, PinInv, PromoteIdle
  <2>3. Pending' \subseteq Pending
    BY <2>1 DEF Pending
  <2>4. EpochInv'
    BY <2>1, <2>3, EpochKept DEF CInv, EpochInv
  <2> QED
    BY <2>2, <2>4
<1> QED
  BY <1>1, <1>2, <1>3, <1>4, <1>5, <1>6, <1>7, <1>8, <1>9, <1>10, <1>11, <1>12, <1>13
     DEF ControlNext

-----------------------------------------------------------------------------
(***************************************************************************)
(* Who moves the counter and the served manifest.                           *)
(***************************************************************************)

\* Only a record write changes the disk.
LEMMA OnlyWritesChangeDisk ==
    ASSUME CInv, [ControlNext]_controlVars, disk' # disk
    PROVE  StoreStep
<1>1. StoreNext
  BY ControlIsStore DEF CInv, storeVars
<1> QED
  BY <1>1, Zenon DEF StoreNext, StoreCall, StageBundle, ReplaceStagedSet, ReplaceStagedSetEmpty,
     PruneStagedBundles, PromoteStaged, BumpGeneration, PutSignedTrustList, Interrupt

\* Only WriteServedTL of an open promotion changes the served manifest.
LEMMA ServedWriter ==
    ASSUME CInv, [ControlNext]_controlVars, servedTL' # servedTL
    PROVE  WriteServedTL
<1>1. StoreStep
  BY OnlyWritesChangeDisk DEF disk
<1> QED
  BY <1>1, Zenon DEF StoreStep, StageWrite, PromoteWrite, CleanWrite, DeleteSeal, WriteStaged,
     DeleteStaged, WriteHist, WriteStagedTL, WriteSeal, Wake, GoLive, WriteDesired, Commit,
     CleanStaged, CleanHist, CleanSeal, CleanStagedTL

\* With bundles ahead of the counter, what moves it is their commit.
LEMMA CounterWriter ==
    ASSUME CInv, [ControlNext]_controlVars, \E n \in Node : Ahead(n), generation' # generation
    PROVE  Commit
<1>1. StoreStep
  BY OnlyWritesChangeDisk DEF disk
<1>2. ~Wake
  BY StagingOnly DEF CInv, StageWrite, Uncommitted
<1> QED
  BY <1>1, <1>2, Zenon DEF StoreStep, StageWrite, PromoteWrite, CleanWrite, DeleteSeal, WriteStaged,
     DeleteStaged, WriteHist, WriteStagedTL, WriteSeal, GoLive, WriteDesired, WriteServedTL,
     CleanStaged, CleanHist, CleanSeal, CleanStagedTL

\* The commit under the keystone: the manifest served is the sealed one, signed under
\* the pin; without a pin no manifest is served.
LEMMA CommitServes ==
    ASSUME CInv, Commit
    PROVE  /\ generation' = next /\ Promotable
           /\ cred # None => /\ seal.man # None /\ stagedTL \in TrustList
                             /\ stagedTL.man = seal.man /\ stagedTL.sig = cred
                             /\ servedTL = ServedOf(stagedTL) /\ servedTL # None
           /\ cred = None => servedTL = None
<1>1. call.commit /\ call.served = Skip /\ generation' = next
  BY DEF Commit
<1>2. Promotable
  BY <1>1 DEF CInv, IInv, PromoteInv
<1>3. cred = None => servedTL = None
  BY DEF CInv, PinInv
<1>4. ASSUME cred # None
      PROVE  /\ seal.man # None /\ stagedTL \in TrustList
             /\ stagedTL.man = seal.man /\ stagedTL.sig = cred
             /\ servedTL = ServedOf(stagedTL) /\ servedTL # None
  <2>1. seal.man # None /\ stagedTL.sig = cred
    BY <1>1, <1>4 DEF CInv, PinInv
  <2>2. stagedTL \in TrustList /\ stagedTL.man = seal.man
    BY <1>2, <2>1 DEF Promotable, sealedTrustListMatches, CInv, ControlTypeOK, StoreTypeOK,
       TrustListOrNone
  <2>3. call.served = ServedOf(stagedTL) \/ servedTL = ServedOf(stagedTL)
    BY <1>1, <1>4, <2>1 DEF CInv, IInv, PromoteInv
  <2>4. next \in Nat
    BY DEF CInv, ControlTypeOK, StoreTypeOK, next
  <2>5. ServedOf(stagedTL) \in ServedTrustList
    BY <2>2, <2>4 DEF ServedOf, TrustList, ServedTrustList
  <2>6. servedTL = ServedOf(stagedTL)
    BY <1>1, <2>3, <2>5, Distinct
  <2> QED
    BY <2>1, <2>2, <2>5, <2>6, Distinct
<1> QED
  BY <1>1, <1>2, <1>3, <1>4

-----------------------------------------------------------------------------
(***************************************************************************)
(* Theorems.                                                                *)
(***************************************************************************)

\* The inductive invariant holds throughout, whichever operation fails where.
THEOREM ControlInvariance == ControlSpec => []CInv
  BY ControlInitInv, ControlNextInv, PTL DEF ControlSpec

\* The records, the plan in flight and the tenant operation keep their types.
THEOREM ControlTypeCorrect == ControlSpec => []ControlTypeOK
<1>1. CInv => ControlTypeOK
  BY DEF CInv
<1> QED
  BY ControlInvariance, <1>1, PTL

\* An epoch handed out for signing is never reused for another membership, though
\* CompileAndStage takes it from slots that crashes and wakes rewrite.
THEOREM EpochsNameOneManifest == ControlSpec => []EpochNamesOneManifest
<1>1. CInv => EpochNamesOneManifest
  BY Zenon DEF CInv, EpochInv
<1> QED
  BY ControlInvariance, <1>1, PTL

\* The epoch agents are served never goes back, and stays only with its membership.
THEOREM ServedEpochsMonotone == ControlSpec => ServedEpochMonotone
<1> DEFINE A == servedTL # None /\ servedTL' # servedTL
                  => /\ servedTL'.man.epoch >= servedTL.man.epoch
                     /\ servedTL'.man.epoch = servedTL.man.epoch => servedTL'.man = servedTL.man
<1>1. CInv /\ [ControlNext]_controlVars => [A]_controlVars
  <2> SUFFICES ASSUME CInv, [ControlNext]_controlVars, servedTL # None, servedTL' # servedTL
               PROVE  /\ servedTL'.man.epoch >= servedTL.man.epoch
                      /\ servedTL'.man.epoch = servedTL.man.epoch => servedTL'.man = servedTL.man
    OBVIOUS
  <2>1. WriteServedTL
    BY ServedWriter
  <2>2. call.served # Skip /\ servedTL' = call.served /\ call.commit
    BY <2>1 DEF WriteServedTL, CInv, IInv, OneKind
  <2>3. seal.man # None /\ call.served = ServedOf(stagedTL) /\ Promotable
    BY <2>2 DEF CInv, IInv, PromoteInv
  <2>4. stagedTL \in TrustList /\ servedTL'.man = stagedTL.man
    <3>1. stagedTL \in TrustList
      BY <2>3 DEF Promotable, sealedTrustListMatches, CInv, ControlTypeOK, StoreTypeOK, TrustListOrNone
    <3>2. ServedOf(stagedTL).man = stagedTL.man
      BY DEF ServedOf
    <3> QED
      BY <2>2, <2>3, <3>1, <3>2
  <2>5. Precedes(servedTL.man, servedTL'.man)
    BY <2>4, Distinct, Zenon DEF CInv, EpochInv, Pending, IssuedBefore
  <2>6. servedTL.man \in Manifest /\ servedTL'.man \in Manifest
    BY <2>4, Zenon DEF CInv, ControlTypeOK, StoreTypeOK, TrustList, ServedTrustList
  <2> QED
    BY <2>5, <2>6, ManifestType DEF Precedes
<1> QED
  BY ControlInvariance, <1>1, PTL DEF ControlSpec, ServedEpochMonotone

\* Under the keystone no generation goes out without a manifest of its own, signed
\* under the credential pinned at that moment: what the promote gate saw still holds
\* when the counter moves, whatever wake came between.
THEOREM AlwaysPromotedUnderPin == ControlSpec => PromotedUnderPin
<1> DEFINE A == (\E n \in Node : Ahead(n)) /\ generation' # generation /\ keystoneOn
                  => servedTL # None /\ servedTL.sig = cred /\ servedTL.promoted = generation'
<1>1. CInv /\ [ControlNext]_controlVars => [A]_controlVars
  <2> SUFFICES ASSUME CInv, [ControlNext]_controlVars, \E n \in Node : Ahead(n),
                      generation' # generation, keystoneOn
               PROVE  servedTL # None /\ servedTL.sig = cred /\ servedTL.promoted = generation'
    OBVIOUS
  <2>1. Commit /\ cred # None
    BY CounterWriter DEF keystoneOn
  <2>2. /\ generation' = next /\ servedTL = ServedOf(stagedTL) /\ servedTL # None
        /\ stagedTL.sig = cred
    BY <2>1, CommitServes, Zenon
  <2>3. servedTL.sig = stagedTL.sig /\ servedTL.promoted = next
    BY <2>2 DEF ServedOf
  <2> QED
    BY <2>2, <2>3, Zenon
<1> QED
  BY ControlInvariance, <1>1, PTL DEF ControlSpec, PromotedUnderPin
=============================================================================
