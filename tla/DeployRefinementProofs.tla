---------------------- MODULE DeployRefinementProofs ----------------------
(***************************************************************************)
(* StagedStore implements AtomicDeploy, for every value of the constants.   *)
(*                                                                         *)
(* Agents see the counter, the bundles that are not ahead of it and the     *)
(* served trust-list if it is not.  Four writes can change that view: a     *)
(* bundle going live (its node is refused from then on), the served         *)
(* trust-list, generation.json at the end of a promote, and the counter of  *)
(* a wake.  The target of the promotion begun is read off the sealed        *)
(* candidate, which the invariant of StagedStoreProofs keeps in place for   *)
(* as long as anything is ahead.                                            *)
(***************************************************************************)
EXTENDS DeployRefinement, StagedStoreProofs

\* The view, and the promotion begun: the refinement mapping of DeployRefinement.
ShownConfig == [n \in Node |-> IF Ahead(n) THEN Skip ELSE current[n]]

ShownTrust == IF servedTL = None THEN None
              ELSE IF ServedAhead THEN Skip
              ELSE [man |-> servedTL.man, sig |-> servedTL.sig]

SealedTarget == [bundles |-> [n \in seal.nodes |-> staged[n]],
                 trust |-> IF seal.man # None /\ stagedTL.sig # None THEN stagedTL ELSE None]

Begun == IF Uncommitted THEN SealedTarget ELSE None

View == <<generation, ShownConfig, ShownTrust, Begun>>

\* The store starts with a committed generation and nothing begun.
LEMMA InitRefines == StoreInit => Deploy!Init
<1> SUFFICES ASSUME StoreInit PROVE Deploy!Init
  OBVIOUS
<1>1. ~Uncommitted /\ StoreTypeOK
  <2>1. ~Uncommitted
    BY DEF StoreInit, Uncommitted, ServedAhead, Ahead, NoPuts
  <2> QED
    BY <2>1, InitInv DEF IInv
<1>2. ShownConfig = current /\ Begun = None
  BY <1>1 DEF ShownConfig, Begun, Uncommitted, StoreTypeOK
<1>3. current \in [Node -> Deploy!Bundle \cup {None}]
  BY <1>1 DEF StoreTypeOK, BundleOrNone, Bundle, Gens, Deploy!Bundle
<1>4. \A n \in Node : current[n] # None => current[n].gen <= generation
  BY <1>1 DEF Uncommitted, Ahead, StoreTypeOK, BundleOrNone, Bundle, Gens
<1>5. ShownTrust \in Deploy!TrustList \cup {None}
  BY <1>1 DEF ShownTrust, Uncommitted, StoreTypeOK, ServedTrustList, Deploy!TrustList
<1>6. generation \in Nat
  BY <1>1 DEF StoreTypeOK
<1> QED
  BY <1>2, <1>3, <1>4, <1>5, <1>6 DEF Deploy!Init, ShownConfig, ShownTrust, Begun, SealedTarget

\* What a promote has begun stays the target until the commit: the candidate is not
\* rewritten while something is ahead.
LEMMA TargetType ==
    ASSUME StoreTypeOK, Promotable
    PROVE  /\ SealedTarget \in Deploy!Target(seal.nodes)
           /\ SealedTarget # None
           /\ DOMAIN SealedTarget.bundles = seal.nodes
           /\ \A m \in seal.nodes : SealedTarget.bundles[m] = staged[m] /\ staged[m].gen = generation + 1
<1>1. [n \in seal.nodes |-> staged[n]] \in [seal.nodes -> Deploy!Bundle]
  BY CandidateIsNext DEF Bundle, Gens, Deploy!Bundle
<1>2. SealedTarget.trust \in Deploy!TrustList \cup {None}
  BY CandidateIsNext DEF SealedTarget, TrustList, Deploy!TrustList
<1>3. SealedTarget \in Deploy!Target(seal.nodes)
  BY <1>1, <1>2 DEF SealedTarget, Deploy!Target
<1>4. SealedTarget # None
  <2>1. SealedTarget \in [bundles : [seal.nodes -> Bundle], trust : TrustList \cup {None}]
    BY CandidateIsNext DEF SealedTarget
  <2>2. seal.nodes \in SUBSET Node
    BY CandidateIsNext
  <2> QED
    BY <2>1, <2>2, StoreAssumption
<1>5. \A m \in seal.nodes : SealedTarget.bundles[m] = staged[m] /\ staged[m].gen = generation + 1
  BY CandidateIsNext DEF SealedTarget, next
<1> QED
  BY <1>3, <1>4, <1>5 DEF SealedTarget

\* Once the bundles are copied something is ahead: a promotion is begun.
LEMMA CopiedIsBegun ==
    ASSUME IInv, call.commit, call.live = {}
    PROVE  Uncommitted /\ Begun = SealedTarget
<1>1. Promotable /\ \A n \in seal.nodes : current[n] = staged[n]
  BY DEF IInv, PromoteInv
<1>2. PICK n \in seal.nodes : TRUE
  BY <1>1 DEF Promotable
<1>3. n \in Node /\ current[n] # None /\ current[n].gen = next
  BY <1>1, CandidateIsNext DEF IInv
<1>4. Ahead(n)
  BY <1>3, AheadIsNext DEF IInv
<1> QED
  BY <1>3, <1>4 DEF Uncommitted, Begun

\* A bundle goes live: its node is refused, or was refused already (a retry).
LEMMA GoLiveRefines ==
    ASSUME IInv, NEW n \in Node, GoLive(n)
    PROVE  [Deploy!Next]_(Deploy!vars)
<1> USE DEF IInv
<1>1. /\ current' = [current EXCEPT ![n] = staged[n]] /\ n \in call.live
      /\ UNCHANGED <<generation, seal, staged, stagedTL, servedTL>>
  BY DEF GoLive
<1>2. Promotable /\ n \in seal.nodes
  BY <1>1 DEF OneKind, PromoteInv
<1>3. UNCHANGED <<SealedTarget, ShownTrust>> /\ (ServedAhead' <=> ServedAhead)
  BY <1>1 DEF SealedTarget, ShownTrust, ServedAhead
<1>4. staged[n] # None /\ staged[n].gen = generation + 1
  BY <1>2, CandidateIsNext DEF next
<1>5. Ahead(n)' /\ \A m \in Node \ {n} : Ahead(m)' <=> Ahead(m)
  BY <1>1, <1>4 DEF Ahead, StoreTypeOK
<1>6. ShownConfig' = [ShownConfig EXCEPT ![n] = Skip]
  BY <1>1, <1>5, Zenon DEF ShownConfig, StoreTypeOK
<1>7. Begun' = SealedTarget
  BY <1>3, <1>5 DEF Begun, Uncommitted
<1>8. Begun # None => Begun' = Begun
  BY <1>7 DEF Begun
<1>9. Begun' \in Deploy!Target(seal.nodes) /\ seal.nodes \in SUBSET Node
  BY <1>2, <1>7, TargetType, CandidateIsNext
<1>10. n \in DOMAIN Begun'.bundles
       /\ \A m \in DOMAIN Begun'.bundles : Begun'.bundles[m].gen = generation + 1
  BY <1>2, <1>7, TargetType
<1>11. Deploy!Withhold(n)
  BY <1>1, <1>3, <1>6, <1>8, <1>9, <1>10
     DEF Deploy!Withhold, ShownConfig, ShownTrust, Begun, SealedTarget
<1> QED
  BY <1>11 DEF Deploy!Next

\* The served trust-list is written: it is withheld from then on.
LEMMA ServedRefines ==
    ASSUME IInv, WriteServedTL
    PROVE  [Deploy!Next]_(Deploy!vars)
<1> USE DEF IInv
<1>1. /\ servedTL' = call.served /\ call.served # Skip /\ call.live = {}
      /\ UNCHANGED <<generation, seal, staged, current, stagedTL>>
  BY DEF WriteServedTL, LiveDone
<1>2. call.commit /\ Promotable
  BY <1>1 DEF OneKind, PromoteInv
<1>3. call.served = ServedOf(stagedTL) /\ seal.man # None /\ stagedTL.sig # None
  BY <1>1, <1>2 DEF PromoteInv
<1>4. Uncommitted /\ Begun = SealedTarget
  BY <1>1, <1>2, CopiedIsBegun
<1>5. UNCHANGED <<SealedTarget, ShownConfig>> /\ \A m \in Node : Ahead(m)' <=> Ahead(m)
  BY <1>1 DEF SealedTarget, ShownConfig, Ahead
<1>6. servedTL' # None /\ ServedAhead'
  <2>1. call.served \in ServedTrustList
    BY <1>1 DEF StoreTypeOK, Plan
  <2> QED
    BY <1>1, <1>3, <2>1, Distinct DEF ServedAhead, ServedOf, next, StoreTypeOK
<1>7. ShownTrust' = Skip /\ Begun' = Begun
  BY <1>4, <1>5, <1>6 DEF ShownTrust, Begun, Uncommitted
<1>8. Begun # None
  BY <1>2, <1>4, TargetType
<1>9. Begun.trust # None
  BY <1>2, <1>3, <1>4, CandidateIsNext, Distinct DEF SealedTarget
<1>10. Deploy!WithholdTrust
  BY <1>1, <1>5, <1>7, <1>8, <1>9
     DEF Deploy!WithholdTrust, ShownConfig, ShownTrust, Begun, SealedTarget
<1> QED
  BY <1>10 DEF Deploy!Next

\* generation.json is the commit: the whole target is shown at once.
LEMMA CommitRefines ==
    ASSUME IInv, Commit
    PROVE  [Deploy!Next]_(Deploy!vars)
<1> USE DEF IInv
<1>1. /\ generation' = generation + 1 /\ call.commit /\ call.live = {}
      /\ UNCHANGED <<seal, staged, current, stagedTL, servedTL>>
  BY DEF Commit, LiveDone, next
<1>2. Begun = SealedTarget /\ Promotable
  BY <1>1, CopiedIsBegun DEF PromoteInv
<1>3. Begun # None /\ DOMAIN Begun.bundles = seal.nodes
      /\ \A m \in seal.nodes : Begun.bundles[m] = staged[m]
  BY <1>2, TargetType
<1>4. Begun' = None /\ ~ServedAhead' /\ \A n \in Node : ~Ahead(n)'
  BY CommitCompletes DEF Begun, Uncommitted
<1>5. \A n \in Node : Ahead(n) <=> n \in seal.nodes
  BY CommitCompletes, AheadIsNext
<1>6. \A n \in Node : current[n] # Skip
  BY Distinct DEF StoreTypeOK, BundleOrNone
<1>7. \A n \in Node : ShownConfig[n] = Skip <=> n \in DOMAIN Begun.bundles
  BY <1>3, <1>5, <1>6 DEF ShownConfig
<1>8. ShownConfig' = [n \in Node |-> IF n \in DOMAIN Begun.bundles
                                     THEN Begun.bundles[n] ELSE ShownConfig[n]]
  BY <1>1, <1>3, <1>4, <1>5, CommitCompletes DEF ShownConfig
<1>9. CASE seal.man # None /\ stagedTL.sig # None
  <2>1. Begun.trust = stagedTL /\ stagedTL \in TrustList /\ stagedTL # None
    BY <1>2, <1>9, CandidateIsNext, Distinct DEF SealedTarget
  <2>2. servedTL = ServedOf(stagedTL)
    BY <1>9, CommitCompletes
  <2>3. servedTL # None
    <3>1. ServedOf(stagedTL) \in ServedTrustList
      BY <2>1 DEF ServedOf, ServedTrustList, TrustList, next, StoreTypeOK
    <3> QED
      BY <2>2, <3>1, Distinct
  <2>4. servedTL.man = stagedTL.man /\ servedTL.sig = stagedTL.sig /\ servedTL.promoted = next
    BY <2>2 DEF ServedOf
  <2>5. ShownTrust = Skip
    BY <2>3, <2>4, AheadIsNext DEF ShownTrust
  <2>6. ShownTrust' = stagedTL
    BY <1>1, <1>4, <2>1, <2>3, <2>4 DEF ShownTrust, TrustList
  <2> QED
    BY <1>1, <1>3, <1>4, <1>7, <1>8, <2>1, <2>5, <2>6
       DEF Deploy!Next, Deploy!Commit, ShownConfig, ShownTrust, Begun, SealedTarget
<1>10. CASE ~(seal.man # None /\ stagedTL.sig # None)
  <2>1. Begun.trust = None
    BY <1>2, <1>10 DEF SealedTarget
  <2>2. ~ServedAhead
    BY <1>10, CommitCompletes
  <2>3. ShownTrust' = ShownTrust
    BY <1>1, <1>4, <2>2 DEF ShownTrust
  <2> QED
    BY <1>1, <1>3, <1>4, <1>7, <1>8, <2>1, <2>3, Zenon
       DEF Deploy!Next, Deploy!Commit, ShownConfig, ShownTrust, Begun, SealedTarget
<1> QED
  BY <1>9, <1>10

\* A wake shows nothing new: it runs only when nothing is ahead.
LEMMA WakeRefines ==
    ASSUME IInv, Wake
    PROVE  [Deploy!Next]_(Deploy!vars)
<1>1. ~Uncommitted /\ ~Uncommitted'
  BY StagingOnly DEF StageWrite
<1>2. generation' = generation + 1 /\ UNCHANGED <<current, servedTL>>
  BY DEF Wake, next
<1>3. UNCHANGED <<ShownConfig, ShownTrust, Begun>> /\ Begun = None
  BY <1>1, <1>2 DEF ShownConfig, ShownTrust, Begun, Uncommitted
<1>4. Deploy!Wake
  BY <1>2, <1>3 DEF Deploy!Wake, ShownConfig, ShownTrust, Begun, SealedTarget
<1> QED
  BY <1>4 DEF Deploy!Next

\* Every other step leaves the view as it is.
LEMMA OthersStutter ==
    ASSUME IInv, [StoreNext]_storeVars,
           ~(\E n \in Node : GoLive(n)), ~WriteServedTL, ~Commit, ~Wake
    PROVE  UNCHANGED View
<1>1. ASSUME UNCHANGED <<generation, seal, staged, current, stagedTL, servedTL>>
      PROVE  UNCHANGED View
  BY <1>1 DEF View, ShownConfig, ShownTrust, Begun, SealedTarget, Uncommitted, ServedAhead, Ahead
<1>2. ASSUME ~Uncommitted, ~Uncommitted', UNCHANGED <<generation, current, servedTL>>
      PROVE  UNCHANGED View
  BY <1>2 DEF View, ShownConfig, ShownTrust, Begun, Uncommitted
<1>3. CASE StoreCall \/ Interrupt \/ UNCHANGED storeVars
  BY <1>1, <1>3, Zenon DEF StoreCall, StageBundle, ReplaceStagedSet, ReplaceStagedSetEmpty,
     PruneStagedBundles, PromoteStaged, BumpGeneration, PutSignedTrustList, Interrupt, storeVars, disk
<1>4. CASE StageWrite
  <2>1. UNCHANGED <<generation, current, servedTL>>
    BY <1>4 DEF StageWrite, DeleteSeal, WriteStaged, DeleteStaged, WriteHist, WriteStagedTL, WriteSeal
  <2> QED
    BY <1>2, <1>4, <2>1, StagingOnly
<1>5. CASE \E n \in Node : WriteDesired(n)
  BY <1>1, <1>5 DEF WriteDesired
<1>6. CASE CleanWrite
  <2>1. UNCHANGED <<generation, current, servedTL>>
    BY <1>6 DEF CleanWrite, CleanStaged, CleanHist, CleanSeal, CleanStagedTL
  <2>2. ~call.commit /\ ~PromoteIdle
    BY <1>6 DEF CleanWrite, CleanStaged, CleanHist, CleanSeal, CleanStagedTL, Committed, PromoteIdle
  <2>3. ~Uncommitted
    BY <2>2, IdleFields DEF IInv, AheadInv
  <2>4. ~Uncommitted'
    BY <2>1, <2>3 DEF Uncommitted, ServedAhead, Ahead
  <2> QED
    BY <1>2, <2>1, <2>3, <2>4
<1> QED
  BY <1>3, <1>4, <1>5, <1>6 DEF StoreNext, StoreStep, PromoteWrite

\* Whatever the callers do and wherever their operations are cut, agents see whole
\* promotions: the store implements AtomicDeploy.
THEOREM StoreImplementsAtomicDeploy == StoreSpec => ImplementsAtomicDeploy
<1>1. IInv /\ [StoreNext]_storeVars => [Deploy!Next]_(Deploy!vars)
  <2> SUFFICES ASSUME IInv, [StoreNext]_storeVars PROVE [Deploy!Next]_(Deploy!vars)
    OBVIOUS
  <2>1. CASE \E n \in Node : GoLive(n)
    BY <2>1, GoLiveRefines
  <2>2. CASE WriteServedTL \/ Commit \/ Wake
    BY <2>2, ServedRefines, CommitRefines, WakeRefines
  <2>3. CASE ~(\E n \in Node : GoLive(n)) /\ ~WriteServedTL /\ ~Commit /\ ~Wake
    <3>1. UNCHANGED View
      BY <2>3, OthersStutter
    <3> QED
      BY <3>1 DEF Deploy!vars, View, ShownConfig, ShownTrust, Begun, SealedTarget
  <2> QED
    BY <2>1, <2>2, <2>3
<1> QED
  BY InitRefines, StoreInvariance, <1>1, PTL DEF StoreSpec, ImplementsAtomicDeploy, Deploy!Spec
=============================================================================
