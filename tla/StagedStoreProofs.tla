------------------------- MODULE StagedStoreProofs -------------------------
(***************************************************************************)
(* StagedStore for any nodes, contents, manifests and signatures and any    *)
(* number of generations and interruptions.  The inductive invariant says   *)
(* what the plan in flight owes the records on disk:                        *)
(*                                                                         *)
(*   OneKind     a plan stages or promotes, never both;                     *)
(*   AheadInv    records ahead of the counter are copies of the sealed       *)
(*               candidate, and then only its promote can be in flight;     *)
(*   PromoteInv  what the promote in flight has already copied, and that    *)
(*               its inputs are still there;                                *)
(*   SealPlan    the seal still to be written will tell the truth about the *)
(*               records as they will be then, and until then there is none;*)
(*   CleanInv    clean-up touches only what the counter has passed.         *)
(***************************************************************************)
EXTENDS StagedStore, TLAPS

StageIdle == StageDone /\ ~call.wake

PromoteIdle ==
    /\ call.live = {} /\ call.desire = {} /\ call.served = Skip /\ ~call.commit
    /\ call.clean = {} /\ call.cleanHist = Skip /\ call.cleanSeal = Skip /\ call.cleanTL = Skip

OneKind ==
    /\ StageIdle \/ PromoteIdle
    /\ call.commit \/ (call.live = {} /\ call.desire = {} /\ call.served = Skip)

\* A live record that the counter has not reached belongs to the sealed candidate.
AheadInv ==
    Uncommitted =>
        /\ Promotable
        /\ call.commit \/ call = Idle
        /\ \A n \in Node : Ahead(n) => n \in seal.nodes /\ current[n] = staged[n]
        /\ ServedAhead => seal.man # None /\ stagedTL.sig # None /\ servedTL = ServedOf(stagedTL)

PromoteInv ==
    call.commit =>
        /\ Promotable
        /\ call.live \subseteq seal.nodes
        /\ \A m, n \in call.desire : m = n
        /\ \A n \in seal.nodes \ call.live :
              /\ current[n] = staged[n]
              /\ n \in Registered \ call.desire => desired[n] = next
        /\ IF seal.man # None /\ stagedTL.sig # None
           THEN \/ call.served = ServedOf(stagedTL)
                \/ call.served = Skip /\ servedTL = ServedOf(stagedTL)
           ELSE call.served = Skip

\* The staged collection and the staged trust-list once the plan's writes are done.
FinalStaged ==
    [n \in Node |-> IF call.put[n] # None THEN call.put[n]
                    ELSE IF n \in call.prune THEN None ELSE staged[n]]

FinalTL == IF call.tl2 # Skip THEN call.tl2 ELSE IF call.tl # Skip THEN call.tl ELSE stagedTL

SealPlan ==
    /\ call.seal # Skip =>
         /\ call.seal.man # None => FinalTL # None /\ FinalTL.man = call.seal.man
         /\ ~call.seal.historical =>
              call.seal.gen = next /\ call.seal.nodes = StagedFor(FinalStaged, next)
         /\ call.wake => call.seal.historical
    /\ \A n \in call.prune : call.put[n] = None
    /\ call.put # NoPuts \/ call.prune # {} \/ call.tl2 # Skip \/ call.seal # Skip
         => call.unseal \/ seal = None
    /\ call.tl # Skip => \/ call.unseal
                         \/ seal = None
                         \/ call.tl # None /\ seal.man = call.tl.man
    /\ call.wake => call.unseal \/ seal = None \/ seal.historical

CleanInv ==
    /\ call.clean # {} /\ ~call.commit => seal # None /\ seal.gen = generation
    /\ call.clean # {} => call.cleanSeal # Skip
    /\ call.cleanSeal \notin {Skip, None} =>
         /\ call.cleanSeal.historical
         /\ stagedTL # None /\ stagedTL.man = call.cleanSeal.man
         /\ call.cleanTL = Skip
    /\ call.cleanTL # Skip => seal = None \/ seal.man = None

IInv ==
    /\ StoreTypeOK
    /\ SealTruthful
    /\ OneKind
    /\ AheadInv
    /\ PromoteInv
    /\ SealPlan
    /\ CleanInv

-----------------------------------------------------------------------------
(***************************************************************************)
(* Types.                                                                   *)
(***************************************************************************)

\* None and Skip are no record, and differ.
LEMMA Distinct ==
    /\ None \notin Bundle /\ None \notin TrustList /\ None \notin ServedTrustList
    /\ None \notin stagedSetSeal /\ None \notin Manifest /\ None \notin Sig
    /\ Skip \notin Bundle /\ Skip \notin TrustList /\ Skip \notin ServedTrustList
    /\ Skip \notin stagedSetSeal /\ Skip # None
  BY StoreAssumption DEF Record

\* A finished operation leaves a well-formed plan.
LEMMA IdleType == Idle \in Plan
  BY DEF Idle, Plan, NoPuts

\* saveSealForGenerationLocked publishes a well-formed seal, if any.
LEMMA SealForType ==
    ASSUME generation \in Nat, NEW bundles, NEW sl \in TrustListOrNone, NEW e \in BOOLEAN
    PROVE  SealFor(bundles, sl, e) \in stagedSetSeal \cup {Skip}
  BY Distinct DEF SealFor, StagedFor, next, stagedSetSeal, Gens, TrustListOrNone, TrustList

\* So does a promote, a bump or an empty replacement with its historical seal.
LEMMA HistoricalSealType ==
    ASSUME NEW g \in Gens, NEW sl \in TrustList
    PROVE  HistoricalSeal(g, sl) \in stagedSetSeal
  BY DEF HistoricalSeal, stagedSetSeal, TrustList

\* Every operation installs a plan of the right shape.
LEMMA CallType == StoreTypeOK /\ StoreCall => StoreTypeOK'
<1> SUFFICES ASSUME StoreTypeOK, StoreCall PROVE call' \in Plan /\ UNCHANGED disk
  BY DEF StoreTypeOK, disk
<1>1. ASSUME NEW n \in Node, NEW c \in Content, NEW g \in {generation, next} \ {0},
             StageBundle(n, [gen |-> g, content |-> c])
      PROVE  call' \in Plan /\ UNCHANGED disk
  <2>1. pendingSealedTrustList \in TrustListOrNone
    BY DEF pendingSealedTrustList, StoreTypeOK, TrustListOrNone
  <2>2. [gen |-> g, content |-> c] \in Bundle
    BY DEF Bundle, Gens, next, StoreTypeOK
  <2>3. SealFor([staged EXCEPT ![n] = [gen |-> g, content |-> c]], pendingSealedTrustList, FALSE)
           \in stagedSetSeal \cup {Skip}
    BY <2>1, SealForType, Zenon DEF StoreTypeOK
  <2> QED
    BY <1>1, <2>2, <2>3, Zenon DEF StageBundle, Idle, Plan, NoPuts
<1>2. ASSUME NEW bundles \in Candidates, NEW sl \in TrustListOrNone, ReplaceStagedSet(bundles, sl)
      PROVE  call' \in Plan /\ UNCHANGED disk
  <2>1. bundles \in [Node -> Bundle \cup {None}]
    BY DEF Candidates, Bundle, Gens, next, StoreTypeOK
  <2>2. SealFor(bundles, sl, FALSE) \in stagedSetSeal \cup {Skip}
    BY SealForType, Zenon DEF StoreTypeOK
  <2> QED
    BY <1>2, <2>1, <2>2, Zenon DEF ReplaceStagedSet, Idle, Plan, NoPuts, TrustListOrNone
<1>3. CASE ReplaceStagedSetEmpty
  <2> DEFINE history == IF stagedTL # None THEN stagedTL ELSE stagedTLHist
  <2>1. HistoricalGen \in Gens
    BY DEF HistoricalGen, Gens, StoreTypeOK
  <2>2. history # None => history \in TrustList /\ HistoricalSeal(HistoricalGen, history) \in stagedSetSeal
    BY <2>1, HistoricalSealType DEF StoreTypeOK, TrustListOrNone
  <2>3. stagedTL # None => stagedTL \in TrustList
    BY DEF StoreTypeOK, TrustListOrNone
  <2> QED
    BY <1>3, <2>2, <2>3, ZenonT(60) DEF ReplaceStagedSetEmpty, Idle, Plan, NoPuts
<1>4. ASSUME NEW keep \in SUBSET Node, PruneStagedBundles(keep)
      PROVE  call' \in Plan /\ UNCHANGED disk
  <2>1. pendingSealedTrustList \in TrustListOrNone
    BY DEF pendingSealedTrustList, StoreTypeOK, TrustListOrNone
  <2> DEFINE pruned == {n \in Node : staged[n] # None /\ n \notin keep}
  <2>2. SealFor([n \in Node |-> IF n \in pruned THEN None ELSE staged[n]],
                pendingSealedTrustList, FALSE) \in stagedSetSeal \cup {Skip}
    BY <2>1, SealForType, Zenon DEF StoreTypeOK
  <2> QED
    BY <1>4, <2>2, Zenon DEF PruneStagedBundles, Idle, Plan, NoPuts
<1>5. CASE PromoteStaged
  <2> DEFINE sl == IF seal.man = None THEN None ELSE stagedTL
  <2>1. seal \in stagedSetSeal /\ sl \in TrustListOrNone /\ next \in Gens
    BY <1>5 DEF PromoteStaged, Promotable, sealLoads, StoreTypeOK, next, Gens, TrustListOrNone
  <2>2. seal.nodes \subseteq Node
    BY <2>1 DEF stagedSetSeal
  <2>3. sl # None => HistoricalSeal(next, sl) \in stagedSetSeal
    BY <2>1, HistoricalSealType DEF TrustListOrNone
  <2>4. sl # None => [man |-> sl.man, sig |-> sl.sig, promoted |-> next] \in ServedTrustList
    BY <2>1 DEF TrustListOrNone, TrustList, ServedTrustList, Gens
  <2> QED
    BY <1>5, <2>1, <2>2, <2>3, <2>4, ZenonT(60) DEF PromoteStaged, Idle, Plan, NoPuts, TrustListOrNone
<1>6. CASE BumpGeneration
  <2>1. next \in Gens
    BY DEF StoreTypeOK, next, Gens
  <2> DEFINE history == IF stagedTLHist # None THEN stagedTLHist ELSE stagedTL
  <2>2. history # None => history \in TrustList /\ HistoricalSeal(next, history) \in stagedSetSeal
    BY <2>1, HistoricalSealType DEF StoreTypeOK, TrustListOrNone
  <2> QED
    BY <1>6, <2>2, Zenon DEF BumpGeneration, Idle, Plan, NoPuts
<1>7. ASSUME NEW sl \in TrustList, PutSignedTrustList(sl) PROVE call' \in Plan /\ UNCHANGED disk
  <2>1. SealFor(staged, sl, TRUE) \in stagedSetSeal \cup {Skip}
    BY SealForType, Zenon DEF StoreTypeOK, TrustListOrNone
  <2> QED
    BY <1>7, <2>1, ZenonT(60) DEF PutSignedTrustList, Idle, Plan, NoPuts
<1> QED
  BY <1>1, <1>2, <1>3, <1>4, <1>5, <1>6, <1>7, Zenon DEF StoreCall

\* Every record write writes a record of its slot's type.
LEMMA StepType == StoreTypeOK /\ StoreStep => StoreTypeOK'
<1> SUFFICES ASSUME StoreTypeOK, StoreStep PROVE StoreTypeOK'
  OBVIOUS
<1> USE DEF StoreTypeOK
<1>1. CASE DeleteSeal
  BY <1>1, Zenon DEF DeleteSeal, Plan
<1>2. ASSUME NEW n \in Node, WriteStaged(n) PROVE StoreTypeOK'
  BY <1>2 DEF WriteStaged, Plan, BundleOrNone
<1>3. ASSUME NEW n \in Node, DeleteStaged(n) PROVE StoreTypeOK'
  BY <1>3 DEF DeleteStaged, Plan, BundleOrNone
<1>4. CASE WriteHist
  BY <1>4 DEF WriteHist, Plan, TrustListOrNone
<1>5. CASE WriteStagedTL
  BY <1>5 DEF WriteStagedTL, Plan, TrustListOrNone
<1>6. CASE WriteSeal
  BY <1>6 DEF WriteSeal, Plan
<1>7. CASE Wake
  <2>1. generation' \in Nat
    BY <1>7 DEF Wake, next
  <2> QED
    BY <1>7, <2>1, Zenon DEF Wake, Plan
<1>8. ASSUME NEW n \in Node, GoLive(n) PROVE StoreTypeOK'
  BY <1>8, Zenon DEF GoLive, Plan
<1>9. ASSUME NEW n \in Node, WriteDesired(n) PROVE StoreTypeOK'
  BY <1>9 DEF WriteDesired, Plan, next
<1>10. CASE WriteServedTL
  BY <1>10 DEF WriteServedTL, Plan
<1>11. CASE Commit
  <2>1. generation' \in Nat
    BY <1>11 DEF Commit, next
  <2>2. call' = [call EXCEPT !.commit = FALSE]
    BY <1>11 DEF Commit
  <2>3. call' \in Plan
    BY <2>2, Zenon DEF Plan
  <2>4. UNCHANGED <<seal, staged, current, desired, stagedTL, stagedTLHist, servedTL>>
    BY <1>11 DEF Commit
  <2> QED
    BY <2>1, <2>3, <2>4
<1>12. ASSUME NEW n \in Node, CleanStaged(n) PROVE StoreTypeOK'
  BY <1>12 DEF CleanStaged, Plan, BundleOrNone
<1>13. CASE CleanHist
  BY <1>13 DEF CleanHist, Plan, TrustListOrNone
<1>14. CASE CleanSeal
  BY <1>14 DEF CleanSeal, Plan
<1>15. CASE CleanStagedTL
  BY <1>15 DEF CleanStagedTL, Plan, TrustListOrNone
<1> QED
  BY <1>1, <1>2, <1>3, <1>4, <1>5, <1>6, <1>7, <1>8, <1>9, <1>10, <1>11, <1>12, <1>13, <1>14,
     <1>15 DEF StoreStep, StageWrite, PromoteWrite, CleanWrite

-----------------------------------------------------------------------------
(***************************************************************************)
(* The two kinds of plan.                                                   *)
(***************************************************************************)

\* An idle store is idle in both senses.
LEMMA IdleFields ==
    ASSUME call = Idle
    PROVE  StageIdle /\ PromoteIdle
  BY DEF Idle, StageIdle, PromoteIdle, StageDone, TL2Done, Hist2Done, TLDone, HistDone,
     BundlesDone, PutsDone, Unsealed

\* A staging write belongs to an operation that found no interrupted promotion
\* (requireCompletedPromotionLocked), and leaves none.
LEMMA StagingOnly ==
    ASSUME IInv, StageWrite
    PROVE  PromoteIdle /\ PromoteIdle' /\ ~Uncommitted /\ ~Uncommitted'
<1>1. ~StageIdle
  BY DEF StageWrite, DeleteSeal, WriteStaged, DeleteStaged, WriteHist, WriteStagedTL, WriteSeal,
     Wake, StageIdle, StageDone, TL2Done, Hist2Done, TLDone, HistDone, BundlesDone, PutsDone,
     Unsealed, NoPuts
<1>2. PromoteIdle
  BY <1>1 DEF IInv, OneKind
<1>3. ~Uncommitted
  BY <1>1, <1>2, IdleFields DEF IInv, AheadInv, PromoteIdle
<1>4. PromoteIdle'
  BY <1>2 DEF StageWrite, DeleteSeal, WriteStaged, DeleteStaged, WriteHist, WriteStagedTL,
     WriteSeal, Wake, PromoteIdle, IInv, StoreTypeOK, Plan
<1>5. UNCHANGED <<current, servedTL>> /\ (generation' = generation \/ generation' = generation + 1)
  BY DEF StageWrite, DeleteSeal, WriteStaged, DeleteStaged, WriteHist, WriteStagedTL, WriteSeal,
     Wake, next
<1>6. ~Uncommitted'
  BY <1>3, <1>5 DEF Uncommitted, ServedAhead, Ahead, IInv, StoreTypeOK, BundleOrNone, Bundle, Gens,
     ServedTrustList
<1> QED
  BY <1>2, <1>3, <1>4, <1>6

\* The writes of a promote, and its clean-up, belong to a plan with nothing to stage.
LEMMA PromoteOnly ==
    ASSUME IInv, PromoteWrite \/ CleanWrite
    PROVE  StageIdle /\ StageIdle'
<1>1. ~PromoteIdle
  BY Zenon DEF PromoteWrite, CleanWrite, GoLive, WriteDesired, WriteServedTL, Commit, CleanStaged,
     CleanHist, CleanSeal, CleanStagedTL, PromoteIdle
<1>2. StageIdle
  BY <1>1 DEF IInv, OneKind
<1>3. /\ call'.unseal = call.unseal /\ call'.put = call.put /\ call'.prune = call.prune
      /\ call'.hist = call.hist /\ call'.tl = call.tl /\ call'.hist2 = call.hist2
      /\ call'.tl2 = call.tl2 /\ call'.seal = call.seal /\ call'.wake = call.wake
  <2>1. CASE PromoteWrite
    <3>1. CASE \E n \in Node : GoLive(n) \/ WriteDesired(n)
      BY <3>1, ZenonT(60) DEF GoLive, WriteDesired, IInv, StoreTypeOK, Plan
    <3>2. CASE WriteServedTL
      BY <3>2 DEF WriteServedTL, IInv, StoreTypeOK, Plan
    <3>3. CASE Commit
      <4>1. call' = [call EXCEPT !.commit = FALSE]
        BY <3>3 DEF Commit
      <4> QED
        BY <4>1 DEF IInv, StoreTypeOK, Plan
    <3> QED
      BY <2>1, <3>1, <3>2, <3>3 DEF PromoteWrite
  <2>2. CASE CleanWrite
    BY <2>2 DEF CleanWrite, CleanStaged, CleanHist, CleanSeal, CleanStagedTL, IInv, StoreTypeOK,
       Plan
  <2> QED
    BY <2>1, <2>2
<1>4. StageIdle'
  BY <1>2, <1>3 DEF StageIdle, StageDone, TL2Done, Hist2Done, TLDone, HistDone, BundlesDone,
     PutsDone, Unsealed
<1> QED
  BY <1>2, <1>4

\* Only promotes owe anything to AheadInv, PromoteInv and CleanInv ...
LEMMA NothingOwedByStaging ==
    ASSUME PromoteIdle, ~Uncommitted
    PROVE  OneKind /\ AheadInv /\ PromoteInv /\ CleanInv
  BY DEF PromoteIdle, OneKind, AheadInv, PromoteInv, CleanInv

\* ... and only staging owes anything to SealPlan.
LEMMA NothingOwedByPromote ==
    ASSUME StageIdle
    PROVE  SealPlan
  BY DEF StageIdle, SealPlan, StageDone, TL2Done, Hist2Done, TLDone, HistDone, BundlesDone,
     PutsDone, Unsealed

-----------------------------------------------------------------------------
(***************************************************************************)
(* Staging: the seal goes first and comes back last, and tells the truth.   *)
(***************************************************************************)
LEMMA StageWriteSeal ==
    ASSUME IInv, StageWrite
    PROVE  SealTruthful' /\ SealPlan'
<1> USE DEF IInv
<1>1. CASE DeleteSeal
  <2>1. /\ call' = [call EXCEPT !.unseal = FALSE] /\ seal' = None
        /\ UNCHANGED <<generation, staged, stagedTL>>
    BY <1>1 DEF DeleteSeal
  <2>2. UNCHANGED <<call.put, call.prune, call.tl, call.tl2, call.seal, call.wake>>
    BY <2>1 DEF StoreTypeOK, Plan
  <2>3. UNCHANGED <<FinalStaged, FinalTL, next>>
    BY <2>1, <2>2 DEF FinalStaged, FinalTL, next
  <2> QED
    BY <2>1, <2>2, <2>3 DEF SealTruthful, SealPlan, StagedFor, NoPuts
<1>2. ASSUME NEW n \in Node, WriteStaged(n) PROVE SealTruthful' /\ SealPlan'
  <2>1. /\ call' = [call EXCEPT !.put[n] = None] /\ staged' = [staged EXCEPT ![n] = call.put[n]]
        /\ ~call.unseal /\ call.put[n] # None
        /\ UNCHANGED <<generation, seal, stagedTL>>
    BY <1>2 DEF WriteStaged, Unsealed
  <2>2. /\ UNCHANGED <<call.unseal, call.prune, call.tl, call.tl2, call.seal, call.wake>>
        /\ call'.put = [call.put EXCEPT ![n] = None]
        /\ call.put \in [Node -> BundleOrNone] /\ call.prune \subseteq Node
    BY <2>1 DEF StoreTypeOK, Plan, BundleOrNone
  <2>3. seal = None /\ n \notin call.prune
    BY <2>1, <2>2 DEF SealPlan, NoPuts
  <2>4. UNCHANGED <<FinalStaged, FinalTL, next>>
    BY <2>1, <2>2, <2>3 DEF FinalStaged, FinalTL, next, StoreTypeOK
  <2> QED
    BY <2>1, <2>2, <2>3, <2>4 DEF SealTruthful, SealPlan, StagedFor
<1>3. ASSUME NEW n \in Node, DeleteStaged(n) PROVE SealTruthful' /\ SealPlan'
  <2>1. /\ call' = [call EXCEPT !.prune = @ \ {n}] /\ staged' = [staged EXCEPT ![n] = None]
        /\ ~call.unseal /\ call.put = NoPuts /\ n \in call.prune
        /\ UNCHANGED <<generation, seal, stagedTL>>
    BY <1>3 DEF DeleteStaged, PutsDone, Unsealed
  <2>2. /\ UNCHANGED <<call.unseal, call.put, call.tl, call.tl2, call.seal, call.wake>>
        /\ call'.prune = call.prune \ {n}
    BY <2>1 DEF StoreTypeOK, Plan
  <2>3. seal = None
    BY <2>1 DEF SealPlan
  <2>4. UNCHANGED <<FinalStaged, FinalTL, next>>
    BY <2>1, <2>2 DEF FinalStaged, FinalTL, next, StoreTypeOK, NoPuts
  <2> QED
    BY <2>1, <2>2, <2>3, <2>4 DEF SealTruthful, SealPlan, StagedFor
<1>4. CASE WriteHist
  <2>1. UNCHANGED <<generation, seal, staged, stagedTL>>
    BY <1>4 DEF WriteHist
  <2>2. UNCHANGED <<call.unseal, call.put, call.prune, call.tl, call.tl2, call.seal, call.wake>>
    BY <1>4 DEF WriteHist, StoreTypeOK, Plan
  <2>3. UNCHANGED <<FinalStaged, FinalTL, next>>
    BY <2>1, <2>2 DEF FinalStaged, FinalTL, next
  <2> QED
    BY <2>1, <2>2, <2>3 DEF SealTruthful, SealPlan, StagedFor, sealedTrustListMatches, NoPuts
<1>5. CASE WriteStagedTL
  <2>1. UNCHANGED <<generation, seal, staged>>
    BY <1>5 DEF WriteStagedTL
  <2>2. CASE HistDone /\ call.tl # Skip /\ stagedTL' = call.tl /\ call' = [call EXCEPT !.tl = Skip]
    <3>1. /\ UNCHANGED <<call.unseal, call.put, call.prune, call.tl2, call.seal, call.wake>>
          /\ call'.tl = Skip
      BY <2>2 DEF StoreTypeOK, Plan
    <3>2. UNCHANGED <<FinalStaged, FinalTL, next>>
      BY <2>1, <2>2, <3>1 DEF FinalStaged, FinalTL, next
    <3>3. seal = None \/ (stagedTL' # None /\ seal.man = stagedTL'.man)
      BY <2>2 DEF SealPlan, HistDone, BundlesDone, PutsDone, Unsealed
    <3>4. SealTruthful'
      BY <2>1, <3>2, <3>3 DEF SealTruthful, StagedFor, sealedTrustListMatches
    <3> QED
      BY <2>1, <3>1, <3>2, <3>4 DEF SealPlan, StagedFor, NoPuts
  <2>3. CASE Hist2Done /\ call.tl2 # Skip /\ stagedTL' = call.tl2 /\ call' = [call EXCEPT !.tl2 = Skip]
    <3>1. /\ UNCHANGED <<call.unseal, call.put, call.prune, call.tl, call.seal, call.wake>>
          /\ call'.tl2 = Skip
      BY <2>3 DEF StoreTypeOK, Plan
    <3>2. ~call.unseal /\ call.tl = Skip
      BY <2>3 DEF Hist2Done, TLDone, HistDone, BundlesDone, PutsDone, Unsealed
    <3>3. UNCHANGED <<FinalStaged, FinalTL, next>>
      BY <2>1, <2>3, <3>1, <3>2 DEF FinalStaged, FinalTL, next
    <3>4. seal = None
      BY <2>3, <3>2 DEF SealPlan
    <3> QED
      BY <2>1, <3>1, <3>3, <3>4 DEF SealTruthful, SealPlan, StagedFor, NoPuts
  <2> QED
    BY <1>5, <2>2, <2>3 DEF WriteStagedTL
<1>6. CASE WriteSeal
  <2>1. /\ call' = [call EXCEPT !.seal = Skip] /\ seal' = call.seal /\ call.seal # Skip
        /\ UNCHANGED <<generation, staged, stagedTL>>
    BY <1>6 DEF WriteSeal
  <2>2. /\ UNCHANGED <<call.unseal, call.put, call.prune, call.tl, call.tl2, call.wake>>
        /\ call'.seal = Skip
    BY <2>1 DEF StoreTypeOK, Plan
  <2>3. call.put = NoPuts /\ call.prune = {} /\ call.tl = Skip /\ call.tl2 = Skip
    BY <1>6 DEF WriteSeal, TL2Done, Hist2Done, TLDone, HistDone, BundlesDone, PutsDone
  <2>4. FinalStaged = staged /\ FinalTL = stagedTL
    BY <2>3 DEF FinalStaged, FinalTL, NoPuts, StoreTypeOK
  <2>5. SealTruthful'
    BY <2>1, <2>4 DEF SealPlan, SealTruthful, sealedTrustListMatches, StagedFor, next
  <2>6. SealPlan'
    BY <2>1, <2>2, <2>3 DEF SealPlan, NoPuts
  <2> QED
    BY <2>5, <2>6
<1>7. CASE Wake
  <2>1. /\ call' = [call EXCEPT !.wake = FALSE]
        /\ UNCHANGED <<seal, staged, stagedTL>>
    BY <1>7 DEF Wake
  <2>2. /\ UNCHANGED <<call.unseal, call.put, call.prune, call.tl, call.tl2, call.seal>>
        /\ call'.wake = FALSE
    BY <2>1 DEF StoreTypeOK, Plan
  <2>3. /\ call.put = NoPuts /\ call.prune = {} /\ call.tl = Skip /\ call.tl2 = Skip
        /\ call.seal = Skip /\ ~call.unseal /\ call.wake
    BY <1>7 DEF Wake, StageDone, TL2Done, Hist2Done, TLDone, HistDone, BundlesDone, PutsDone, Unsealed
  <2>4. seal = None \/ seal.historical
    BY <2>3 DEF SealPlan
  <2>5. SealTruthful'
    BY <2>1, <2>4 DEF SealTruthful, sealedTrustListMatches
  <2>6. SealPlan'
    BY <2>2, <2>3 DEF SealPlan, NoPuts
  <2> QED
    BY <2>5, <2>6
<1> QED
  BY <1>1, <1>2, <1>3, <1>4, <1>5, <1>6, <1>7 DEF StageWrite

-----------------------------------------------------------------------------
(***************************************************************************)
(* Promoting: what is ahead of the counter is the sealed candidate, and the *)
(* commit finds all of it.                                                  *)
(***************************************************************************)

\* The sealed candidate's bundles are those of the next generation.
LEMMA CandidateIsNext ==
    ASSUME StoreTypeOK, Promotable
    PROVE  /\ seal \in stagedSetSeal /\ seal.nodes \subseteq Node
           /\ \A n \in seal.nodes : staged[n] # None /\ staged[n] \in Bundle /\ staged[n].gen = next
           /\ seal.man # None => stagedTL \in TrustList
  BY DEF StoreTypeOK, Promotable, sealLoads, StagedFor, stagedSetSeal, sealedTrustListMatches,
     TrustListOrNone, BundleOrNone

\* Nothing is further ahead of the counter than the next generation.
LEMMA AheadIsNext ==
    ASSUME StoreTypeOK, AheadInv
    PROVE  /\ \A n \in Node : Ahead(n) <=> current[n] # None /\ current[n].gen = next
           /\ ServedAhead <=> servedTL # None /\ servedTL.promoted = next
<1>1. ASSUME NEW n \in Node PROVE Ahead(n) <=> current[n] # None /\ current[n].gen = next
  <2>1. Ahead(n) => current[n].gen = next
    BY CandidateIsNext DEF AheadInv, Uncommitted
  <2>2. current[n] # None /\ current[n].gen = next => Ahead(n)
    BY DEF Ahead, next, StoreTypeOK
  <2> QED
    BY <2>1, <2>2 DEF Ahead
<1>2. ServedAhead <=> servedTL # None /\ servedTL.promoted = next
  BY DEF AheadInv, Uncommitted, ServedAhead, ServedOf, next, StoreTypeOK
<1> QED
  BY <1>1, <1>2

\* The commit completes exactly the sealed candidate, and then nothing is ahead.
LEMMA CommitCompletes ==
    ASSUME IInv, Commit
    PROVE  /\ Promotable
           /\ {n \in Node : current[n] # None /\ current[n].gen = next} = seal.nodes
           /\ \A n \in seal.nodes : current[n] = staged[n]
           /\ \A n \in seal.nodes \cap Registered : desired[n] = next
           /\ seal.man # None /\ stagedTL.sig # None => servedTL = ServedOf(stagedTL)
           /\ seal.man = None \/ stagedTL.sig = None => ~ServedAhead
           /\ ~Uncommitted'
<1> USE DEF IInv
<1>1. /\ call.commit /\ call.live = {} /\ call.desire = {} /\ call.served = Skip
      /\ generation' = next /\ UNCHANGED <<current, servedTL>>
  BY DEF Commit, LiveDone
<1>2. Promotable /\ \A n \in seal.nodes : current[n] = staged[n]
  BY <1>1 DEF PromoteInv
<1>3. \A n \in seal.nodes \cap Registered : desired[n] = next
  BY <1>1 DEF PromoteInv
<1>4. {n \in Node : current[n] # None /\ current[n].gen = next} = seal.nodes
  <2>1. ASSUME NEW n \in Node, current[n] # None, current[n].gen = next PROVE n \in seal.nodes
    BY <2>1, AheadIsNext DEF AheadInv, Uncommitted
  <2>2. ASSUME NEW n \in seal.nodes PROVE n \in Node /\ current[n] # None /\ current[n].gen = next
    BY <1>2, CandidateIsNext
  <2> QED
    BY <2>1, <2>2
<1>5. seal.man # None /\ stagedTL.sig # None => servedTL = ServedOf(stagedTL)
  <2>1. ASSUME seal.man # None, stagedTL.sig # None PROVE servedTL = ServedOf(stagedTL)
    <3>1. stagedTL \in TrustList
      BY <1>2, <2>1, CandidateIsNext
    <3>2. ServedOf(stagedTL) # Skip
      <4>1. ServedOf(stagedTL) \in ServedTrustList
        BY <3>1 DEF ServedOf, ServedTrustList, TrustList, next, StoreTypeOK
      <4> QED
        BY <4>1, Distinct
    <3> QED
      BY <1>1, <2>1, <3>2 DEF PromoteInv
  <2> QED
    BY <2>1
<1>6. seal.man = None \/ stagedTL.sig = None => ~ServedAhead
  BY DEF AheadInv, Uncommitted
<1>7. ~Uncommitted'
  <2>1. ASSUME NEW n \in Node PROVE ~Ahead(n)'
    <3>1. current[n] # None => current[n].gen <= next
      BY AheadIsNext DEF Ahead, next, StoreTypeOK, BundleOrNone, Bundle, Gens
    <3>2. current[n] # None => current[n].gen \in Nat
      BY DEF StoreTypeOK, BundleOrNone, Bundle, Gens
    <3> QED
      BY <1>1, <3>1, <3>2 DEF Ahead, next, StoreTypeOK
  <2>2. ~ServedAhead'
    BY <1>1, AheadIsNext DEF ServedAhead, next, StoreTypeOK, ServedTrustList
  <2> QED
    BY <2>1, <2>2 DEF Uncommitted
<1> QED
  BY <1>2, <1>3, <1>4, <1>5, <1>6, <1>7

\* Each write of a promote leaves its inputs alone, and copies from them.
LEMMA PromoteWriteInv ==
    ASSUME IInv, PromoteWrite
    PROVE  SealTruthful' /\ OneKind' /\ AheadInv' /\ PromoteInv' /\ CleanInv'
<1> USE DEF IInv
<1>0. StageIdle'
  BY PromoteOnly
<1>1. call.commit /\ Promotable
  BY Zenon DEF PromoteWrite, GoLive, WriteDesired, WriteServedTL, Commit, OneKind, PromoteInv
<1>2. ASSUME NEW n \in Node, GoLive(n)
      PROVE  SealTruthful' /\ OneKind' /\ AheadInv' /\ PromoteInv' /\ CleanInv'
  <2>1. /\ call' = [call EXCEPT !.live = @ \ {n}, !.desire = {n} \cap Registered]
        /\ current' = [current EXCEPT ![n] = staged[n]]
        /\ n \in call.live /\ call.desire = {}
        /\ UNCHANGED <<generation, seal, staged, desired, stagedTL, servedTL>>
    BY <1>2 DEF GoLive
  <2>2. /\ UNCHANGED <<call.served, call.commit, call.clean, call.cleanSeal, call.cleanTL>>
        /\ call'.live = call.live \ {n} /\ call'.desire = {n} \cap Registered
    BY <2>1 DEF StoreTypeOK, Plan
  <2>3. UNCHANGED <<next, Promotable, ServedOf(stagedTL)>> /\ (ServedAhead' <=> ServedAhead)
    BY <2>1 DEF next, Promotable, sealLoads, StagedFor, sealedTrustListMatches, ServedOf, ServedAhead
  <2>4. call.live \subseteq seal.nodes
    BY <1>1 DEF PromoteInv
  <2>5. current' \in [Node -> BundleOrNone] /\ current'[n] = staged[n]
        /\ \A m \in Node \ {n} : current'[m] = current[m]
    BY <2>1 DEF StoreTypeOK
  <2>6. \A m \in Node : Ahead(m)' => m \in seal.nodes /\ current'[m] = staged[m]
    BY <2>1, <2>4, <2>5 DEF Ahead, AheadInv, Uncommitted
  <2>7. AheadInv'
    BY <1>1, <2>1, <2>2, <2>3, <2>6 DEF AheadInv, Uncommitted
  <2>8. seal.nodes \subseteq Node
    BY <1>1, CandidateIsNext
  <2>9. PromoteInv'
    BY <1>1, <2>1, <2>2, <2>3, <2>4, <2>5, <2>8 DEF PromoteInv
  <2> QED
    BY <1>0, <1>1, <2>1, <2>2, <2>3, <2>7, <2>9
       DEF SealTruthful, OneKind, CleanInv, sealedTrustListMatches, StagedFor
<1>3. ASSUME NEW n \in Node, WriteDesired(n)
      PROVE  SealTruthful' /\ OneKind' /\ AheadInv' /\ PromoteInv' /\ CleanInv'
  <2>1. /\ call' = [call EXCEPT !.desire = {}]
        /\ desired' = [desired EXCEPT ![n] = next]
        /\ n \in call.desire
        /\ UNCHANGED <<generation, seal, staged, current, stagedTL, servedTL>>
    BY <1>3 DEF WriteDesired
  <2>2. /\ UNCHANGED <<call.live, call.served, call.commit, call.clean, call.cleanSeal, call.cleanTL>>
        /\ call'.desire = {}
    BY <2>1 DEF StoreTypeOK, Plan
  <2>3. UNCHANGED <<next, Promotable, ServedOf(stagedTL)>> /\ (ServedAhead' <=> ServedAhead)
        /\ \A m \in Node : Ahead(m)' <=> Ahead(m)
    BY <2>1 DEF next, Promotable, sealLoads, StagedFor, sealedTrustListMatches, ServedOf, ServedAhead,
       Ahead
  <2>4. AheadInv'
    BY <1>1, <2>1, <2>2, <2>3 DEF AheadInv, Uncommitted
  <2>5. call.desire = {n}
    BY <1>1, <2>1 DEF PromoteInv
  <2>6. PromoteInv'
    BY <1>1, <2>1, <2>2, <2>3, <2>5, CandidateIsNext DEF PromoteInv, StoreTypeOK
  <2> QED
    BY <1>0, <1>1, <2>1, <2>2, <2>3, <2>4, <2>6
       DEF SealTruthful, OneKind, CleanInv, sealedTrustListMatches, StagedFor
<1>4. CASE WriteServedTL
  <2>1. /\ call' = [call EXCEPT !.served = Skip]
        /\ servedTL' = call.served /\ call.served # Skip
        /\ UNCHANGED <<generation, seal, staged, current, desired, stagedTL>>
    BY <1>4 DEF WriteServedTL
  <2>2. /\ UNCHANGED <<call.live, call.desire, call.commit, call.clean, call.cleanSeal, call.cleanTL>>
        /\ call'.served = Skip
    BY <2>1 DEF StoreTypeOK, Plan
  <2>3. UNCHANGED <<next, Promotable, ServedOf(stagedTL)>>
        /\ \A m \in Node : Ahead(m)' <=> Ahead(m)
    BY <2>1 DEF next, Promotable, sealLoads, StagedFor, sealedTrustListMatches, ServedOf, Ahead
  <2>4. servedTL' = ServedOf(stagedTL) /\ seal.man # None /\ stagedTL.sig # None
    BY <1>1, <2>1 DEF PromoteInv
  <2>5. AheadInv'
    BY <1>1, <2>1, <2>2, <2>3, <2>4 DEF AheadInv, Uncommitted
  <2>6. PromoteInv'
    BY <1>1, <2>1, <2>2, <2>3, <2>4 DEF PromoteInv
  <2> QED
    BY <1>0, <1>1, <2>1, <2>2, <2>3, <2>5, <2>6
       DEF SealTruthful, OneKind, CleanInv, sealedTrustListMatches, StagedFor
<1>5. CASE Commit
  <2>1. /\ call' = [call EXCEPT !.commit = FALSE] /\ generation' = next
        /\ call.live = {} /\ call.desire = {} /\ call.served = Skip
        /\ UNCHANGED <<seal, staged, stagedTL>>
    BY <1>5 DEF Commit, LiveDone
  <2>2. /\ UNCHANGED <<call.live, call.desire, call.served, call.clean, call.cleanSeal, call.cleanTL>>
        /\ call'.commit = FALSE
    BY <2>1 DEF StoreTypeOK, Plan
  <2>3. AheadInv'
    BY <1>5, CommitCompletes DEF AheadInv
  <2>4. seal # None /\ seal.gen = next /\ next' = next + 1 /\ next \in Nat
    BY <1>1, <2>1 DEF Promotable, sealLoads, next, StoreTypeOK
  <2>5. SealTruthful'
    BY <2>1, <2>4 DEF SealTruthful, sealedTrustListMatches
  <2>6. OneKind'
    BY <1>0, <2>1, <2>2 DEF OneKind
  <2>7. PromoteInv'
    BY <2>2 DEF PromoteInv
  <2>8. CleanInv'
    BY <2>1, <2>2, <2>4 DEF CleanInv
  <2> QED
    BY <2>3, <2>5, <2>6, <2>7, <2>8
<1> QED
  BY <1>2, <1>3, <1>4, <1>5 DEF PromoteWrite

\* The clean-up deletes only what the counter has passed: it never runs while
\* something is ahead, and it cannot make a seal lie.
LEMMA CleanWriteInv ==
    ASSUME IInv, CleanWrite
    PROVE  SealTruthful' /\ OneKind' /\ AheadInv' /\ PromoteInv' /\ CleanInv'
<1> USE DEF IInv
<1>0. StageIdle'
  BY PromoteOnly
<1>1. /\ call.live = {} /\ call.desire = {} /\ call.served = Skip /\ ~call.commit
      /\ ~PromoteIdle
  BY DEF CleanWrite, CleanStaged, CleanHist, CleanSeal, CleanStagedTL, Committed, LiveDone, PromoteIdle
<1>2. ~Uncommitted
  BY <1>1, IdleFields DEF AheadInv
<1>3. /\ UNCHANGED <<generation, current, servedTL>>
      /\ UNCHANGED <<call.live, call.desire, call.served, call.commit>>
  BY DEF CleanWrite, CleanStaged, CleanHist, CleanSeal, CleanStagedTL, StoreTypeOK, Plan
<1>4. AheadInv'
  BY <1>2, <1>3 DEF AheadInv, Uncommitted, ServedAhead, Ahead
<1>5. OneKind' /\ PromoteInv'
  BY <1>0, <1>1, <1>3 DEF OneKind, PromoteInv
<1>6. ASSUME NEW n \in Node, CleanStaged(n) PROVE SealTruthful' /\ CleanInv'
  <2>1. /\ call' = [call EXCEPT !.clean = @ \ {n}] /\ n \in call.clean
        /\ UNCHANGED <<seal, stagedTL>>
    BY <1>6 DEF CleanStaged
  <2>2. UNCHANGED <<call.cleanSeal, call.cleanTL>> /\ call'.clean = call.clean \ {n}
    BY <2>1 DEF StoreTypeOK, Plan
  <2>3. seal # None /\ seal.gen = generation
    BY <1>1, <2>1 DEF CleanInv
  <2>4. SealTruthful'
    BY <1>3, <2>1, <2>3 DEF SealTruthful, sealedTrustListMatches, next, StoreTypeOK
  <2> QED
    BY <1>1, <1>3, <2>1, <2>2, <2>3, <2>4 DEF CleanInv
<1>7. CASE CleanHist
  <2>1. call' = [call EXCEPT !.cleanHist = Skip] /\ UNCHANGED <<seal, staged, stagedTL>>
    BY <1>7 DEF CleanHist
  <2>2. UNCHANGED <<call.clean, call.cleanSeal, call.cleanTL>>
    BY <2>1 DEF StoreTypeOK, Plan
  <2> QED
    BY <1>3, <1>4, <1>5, <2>1, <2>2
       DEF SealTruthful, CleanInv, sealedTrustListMatches, next, StagedFor
<1>8. CASE CleanSeal
  <2>1. /\ call' = [call EXCEPT !.cleanSeal = Skip] /\ call.clean = {} /\ call.cleanSeal # Skip
        /\ seal' \in {seal, call.cleanSeal} /\ UNCHANGED <<staged, stagedTL>>
    BY <1>8 DEF CleanSeal
  <2>2. UNCHANGED <<call.clean, call.cleanTL>> /\ call'.cleanSeal = Skip
    BY <2>1 DEF StoreTypeOK, Plan
  <2>3. SealTruthful'
    BY <1>3, <2>1 DEF SealTruthful, CleanInv, sealedTrustListMatches, next, StagedFor
  <2> QED
    BY <1>4, <1>5, <2>1, <2>2, <2>3 DEF CleanInv
<1>9. CASE CleanStagedTL
  <2>1. /\ call' = [call EXCEPT !.cleanTL = Skip] /\ call.cleanTL # Skip
        /\ call.clean = {} /\ call.cleanSeal = Skip
        /\ UNCHANGED <<seal, staged>>
    BY <1>9 DEF CleanStagedTL
  <2>2. UNCHANGED <<call.clean, call.cleanSeal>> /\ call'.cleanTL = Skip
    BY <2>1 DEF StoreTypeOK, Plan
  <2>3. SealTruthful'
    BY <1>3, <2>1 DEF SealTruthful, CleanInv, sealedTrustListMatches, next, StagedFor
  <2> QED
    BY <1>4, <1>5, <2>1, <2>2, <2>3 DEF CleanInv
<1> QED
  BY <1>4, <1>5, <1>6, <1>7, <1>8, <1>9 DEF CleanWrite

-----------------------------------------------------------------------------
(***************************************************************************)
(* The operations: the plan each one installs keeps the promise.            *)
(***************************************************************************)

\* Every operation but PromoteStaged installs a plan whose seal will be true.
LEMMA CallSealPlan ==
    ASSUME IInv, StoreCall, ~PromoteStaged
    PROVE  PromoteIdle' /\ ~Uncommitted' /\ SealPlan'
<1> USE DEF IInv
<1>0. UNCHANGED <<generation, seal, staged, current, stagedTL, stagedTLHist, servedTL>>
  BY Zenon DEF StoreCall, StageBundle, ReplaceStagedSet, ReplaceStagedSetEmpty, PruneStagedBundles,
     BumpGeneration, PutSignedTrustList, disk
<1>1. ~Uncommitted'
  <2>1. requireCompletedPromotion
    BY Zenon DEF StoreCall, StageBundle, ReplaceStagedSet, ReplaceStagedSetEmpty, PruneStagedBundles,
       BumpGeneration, PutSignedTrustList
  <2> QED
    BY <1>0, <2>1 DEF requireCompletedPromotion, Uncommitted, ServedAhead, Ahead
<1>2. pendingSealedTrustList \in {stagedTL, None}
  BY DEF pendingSealedTrustList
<1>3. ASSUME NEW n \in Node, NEW c \in Content, NEW g \in {generation, next} \ {0},
             StageBundle(n, [gen |-> g, content |-> c])
      PROVE  PromoteIdle' /\ SealPlan'
  <2> DEFINE b == [gen |-> g, content |-> c]
             bundles == [staged EXCEPT ![n] = b]
  <2>1. b \in Bundle /\ b # None
    BY Distinct DEF Bundle, Gens, next, StoreTypeOK
  <2>2. /\ call'.unseal /\ call'.put = [NoPuts EXCEPT ![n] = b] /\ call'.prune = {}
        /\ call'.tl = Skip /\ call'.tl2 = Skip /\ ~call'.wake
        /\ call'.seal = SealFor(bundles, pendingSealedTrustList, FALSE)
    BY <1>3 DEF StageBundle, Idle
  <2>3. PromoteIdle'
    BY <1>3 DEF StageBundle, Idle, PromoteIdle
  <2>4. FinalStaged' = bundles /\ FinalTL' = stagedTL
    BY <1>0, <2>1, <2>2, Zenon DEF FinalStaged, FinalTL, NoPuts, StoreTypeOK
  <2> HIDE DEF bundles
  <2>5. call'.seal # Skip =>
           /\ call'.seal.man # None => FinalTL' # None /\ FinalTL'.man = call'.seal.man
           /\ call'.seal.gen = next /\ call'.seal.nodes = StagedFor(bundles, next)
    BY <1>2, <2>2, <2>4 DEF SealFor
  <2>6. next' = next /\ StagedFor(FinalStaged, next)' = StagedFor(bundles, next)
    BY <1>0, <2>4 DEF StagedFor, next
  <2>7. SealPlan'
    BY <2>2, <2>5, <2>6, Zenon DEF SealPlan
  <2> QED
    BY <2>3, <2>7
<1>4. ASSUME NEW bundles \in Candidates, NEW sl \in TrustListOrNone, ReplaceStagedSet(bundles, sl)
      PROVE  PromoteIdle' /\ SealPlan'
  <2>1. /\ call'.unseal /\ call'.put = bundles /\ call'.tl = sl /\ call'.tl2 = Skip /\ ~call'.wake
        /\ call'.prune = {n \in Node : staged[n] # None /\ bundles[n] = None}
        /\ call'.seal = SealFor(bundles, sl, FALSE)
    BY <1>4 DEF ReplaceStagedSet, Idle
  <2>2. PromoteIdle'
    BY <1>4 DEF ReplaceStagedSet, Idle, PromoteIdle
  <2>3. sl # Skip /\ bundles = [n \in Node |-> bundles[n]]
    BY Distinct DEF TrustListOrNone, Candidates
  <2>4. FinalStaged' = bundles /\ FinalTL' = sl
    BY <1>0, <2>1, <2>3 DEF FinalStaged, FinalTL, StoreTypeOK
  <2>5. call'.seal # Skip =>
           /\ call'.seal.man # None => FinalTL' # None /\ FinalTL'.man = call'.seal.man
           /\ call'.seal.gen = next /\ call'.seal.nodes = StagedFor(bundles, next)
    BY <2>1, <2>4 DEF SealFor
  <2>6. next' = next /\ StagedFor(FinalStaged, next)' = StagedFor(bundles, next)
    BY <1>0, <2>4 DEF StagedFor, next
  <2>7. SealPlan'
    BY <2>1, <2>5, <2>6, Zenon DEF SealPlan
  <2> QED
    BY <2>2, <2>7
<1>5. ASSUME ReplaceStagedSetEmpty PROVE PromoteIdle' /\ SealPlan'
  <2> DEFINE history == IF stagedTL # None THEN stagedTL ELSE stagedTLHist
  <2>1. /\ call'.unseal /\ call'.put = NoPuts /\ ~call'.wake
        /\ call'.tl2 = IF history = None THEN Skip ELSE history
        /\ call'.seal = IF history = None THEN Skip ELSE HistoricalSeal(HistoricalGen, history)
    BY <1>5 DEF ReplaceStagedSetEmpty, Idle
  <2>2. PromoteIdle' /\ call'.prune \subseteq Node
    BY <1>5 DEF ReplaceStagedSetEmpty, Idle, PromoteIdle
  <2>3. history # None => history # Skip
    BY Distinct DEF StoreTypeOK, TrustListOrNone
  <2>4. history # None => FinalTL' = history
    BY <2>1, <2>3 DEF FinalTL
  <2> HIDE DEF history
  <2>5. call'.seal # Skip =>
           call'.seal.historical /\ FinalTL' # None /\ FinalTL'.man = call'.seal.man
    BY <2>1, <2>4 DEF HistoricalSeal
  <2>6. \A n \in call'.prune : call'.put[n] = None
    BY <2>1, <2>2 DEF NoPuts
  <2>7. SealPlan'
    BY <2>1, <2>5, <2>6, Zenon DEF SealPlan
  <2> QED
    BY <2>2, <2>7
<1>6. ASSUME NEW keep \in SUBSET Node, PruneStagedBundles(keep) PROVE PromoteIdle' /\ SealPlan'
  <2> DEFINE pruned == {n \in Node : staged[n] # None /\ n \notin keep}
             bundles == [n \in Node |-> IF n \in pruned THEN None ELSE staged[n]]
  <2>1. /\ call'.unseal /\ call'.put = NoPuts /\ call'.prune = pruned
        /\ call'.tl = Skip /\ call'.tl2 = Skip /\ ~call'.wake
        /\ call'.seal = SealFor(bundles, pendingSealedTrustList, FALSE)
    BY <1>6 DEF PruneStagedBundles, Idle
  <2>2. PromoteIdle'
    BY <1>6 DEF PruneStagedBundles, Idle, PromoteIdle
  <2>3. FinalStaged' = bundles /\ FinalTL' = stagedTL
    BY <1>0, <2>1 DEF FinalStaged, FinalTL, NoPuts
  <2>4. call'.seal # Skip =>
           /\ call'.seal.man # None => FinalTL' # None /\ FinalTL'.man = call'.seal.man
           /\ call'.seal.gen = next /\ call'.seal.nodes = StagedFor(bundles, next)
    BY <1>2, <2>1, <2>3 DEF SealFor
  <2>5. next' = next /\ StagedFor(FinalStaged, next)' = StagedFor(bundles, next)
    BY <1>0, <2>3 DEF StagedFor, next
  <2>6. SealPlan'
    BY <2>1, <2>4, <2>5, Zenon DEF SealPlan, NoPuts
  <2> QED
    BY <2>2, <2>6
<1>7. ASSUME BumpGeneration PROVE PromoteIdle' /\ SealPlan'
  <2> DEFINE history == IF stagedTLHist # None THEN stagedTLHist ELSE stagedTL
  <2>1. /\ call'.unseal /\ call'.put = NoPuts /\ call'.prune = {} /\ call'.tl2 = Skip
        /\ call'.tl = history
        /\ call'.seal = IF history = None THEN Skip ELSE HistoricalSeal(next, history)
    BY <1>7 DEF BumpGeneration, Idle
  <2>2. PromoteIdle'
    BY <1>7 DEF BumpGeneration, Idle, PromoteIdle
  <2>3. history # Skip
    BY Distinct DEF StoreTypeOK, TrustListOrNone
  <2>4. FinalTL' = history
    BY <2>1, <2>3 DEF FinalTL
  <2> HIDE DEF history
  <2>5. call'.seal # Skip =>
           call'.seal.historical /\ FinalTL' # None /\ FinalTL'.man = call'.seal.man
    BY <2>1, <2>4 DEF HistoricalSeal
  <2>6. SealPlan'
    BY <2>1, <2>5, Zenon DEF SealPlan
  <2> QED
    BY <2>2, <2>6
<1>8. ASSUME NEW sl \in TrustList, PutSignedTrustList(sl) PROVE PromoteIdle' /\ SealPlan'
  <2>1. sl # Skip /\ sl # None /\ sl \in TrustListOrNone
    BY Distinct DEF TrustListOrNone
  <2>2. CASE seal.man = sl.man /\ call' = [Idle EXCEPT !.hist = sl, !.tl = sl]
    <3>1. PromoteIdle'
      BY <2>2 DEF Idle, PromoteIdle
    <3> QED
      BY <1>0, <2>1, <2>2, <3>1 DEF SealPlan, Idle, NoPuts
  <2>3. CASE call' = [Idle EXCEPT !.unseal = TRUE, !.tl = sl, !.hist2 = sl,
                                  !.seal = SealFor(staged, sl, TRUE)]
    <3>1. PromoteIdle'
      BY <2>3 DEF Idle, PromoteIdle
    <3>2. /\ call'.unseal /\ call'.put = NoPuts /\ call'.prune = {} /\ call'.tl2 = Skip
          /\ call'.tl = sl /\ ~call'.wake /\ call'.seal = SealFor(staged, sl, TRUE)
      BY <2>3 DEF Idle
    <3>3. FinalStaged' = staged /\ FinalTL' = sl
      BY <1>0, <2>1, <3>2 DEF FinalStaged, FinalTL, NoPuts, StoreTypeOK
    <3>4. call'.seal # Skip =>
             /\ call'.seal.man # None => FinalTL' # None /\ FinalTL'.man = call'.seal.man
             /\ call'.seal.gen = next /\ call'.seal.nodes = StagedFor(staged, next)
      BY <2>1, <3>2, <3>3 DEF SealFor
    <3>5. next' = next /\ StagedFor(FinalStaged, next)' = StagedFor(staged, next)
      BY <1>0, <3>3 DEF StagedFor, next
    <3>6. SealPlan'
      BY <3>2, <3>4, <3>5, Zenon DEF SealPlan
    <3> QED
      BY <3>1, <3>6
  <2> QED
    BY <1>8, <2>2, <2>3 DEF PutSignedTrustList
<1> QED
  BY <1>1, <1>3, <1>4, <1>5, <1>6, <1>7, <1>8, Zenon DEF StoreCall

\* PromoteStaged begins with everything still to copy.
LEMMA PromoteCallInv ==
    ASSUME IInv, PromoteStaged
    PROVE  SealTruthful' /\ OneKind' /\ AheadInv' /\ PromoteInv' /\ SealPlan' /\ CleanInv'
<1> USE DEF IInv
<1> DEFINE sl == IF seal.man = None THEN None ELSE stagedTL
<1>1. UNCHANGED <<generation, seal, staged, current, stagedTL, servedTL>> /\ Promotable
  BY DEF PromoteStaged, disk
<1>2. /\ call'.live = seal.nodes /\ call'.desire = {} /\ call'.commit /\ call'.clean = seal.nodes
      /\ call'.served = IF sl # None /\ sl.sig # None
                        THEN [man |-> sl.man, sig |-> sl.sig, promoted |-> next] ELSE Skip
      /\ call'.cleanSeal = IF sl = None THEN None ELSE HistoricalSeal(next, sl)
      /\ call'.cleanTL = IF sl = None THEN None ELSE Skip
  BY DEF PromoteStaged, Idle
<1>3. StageIdle'
  BY DEF PromoteStaged, Idle, StageIdle, StageDone, TL2Done, Hist2Done, TLDone, HistDone,
     BundlesDone, PutsDone, Unsealed, NoPuts
<1>4. UNCHANGED <<next, Promotable, ServedOf(stagedTL)>> /\ (ServedAhead' <=> ServedAhead)
      /\ \A m \in Node : Ahead(m)' <=> Ahead(m)
  BY <1>1 DEF next, Promotable, sealLoads, StagedFor, sealedTrustListMatches, ServedOf, ServedAhead,
     Ahead
<1>5. SealTruthful'
  BY <1>1, <1>4 DEF SealTruthful, sealedTrustListMatches, StagedFor
<1>6. AheadInv'
  BY <1>1, <1>2, <1>4 DEF AheadInv, Uncommitted
<1>7. OneKind'
  BY <1>2, <1>3 DEF OneKind
<1>8. sl # None <=> seal.man # None
  BY <1>1, CandidateIsNext, Distinct
<1>9. PromoteInv'
  BY <1>1, <1>2, <1>4, <1>8 DEF PromoteInv, ServedOf
<1>10. SealPlan'
  <2>1. /\ call'.seal = Skip /\ call'.put = NoPuts /\ call'.prune = {} /\ call'.tl = Skip
        /\ call'.tl2 = Skip /\ ~call'.wake
    BY <1>3 DEF StageIdle, StageDone, TL2Done, Hist2Done, TLDone, HistDone, BundlesDone, PutsDone
  <2> QED
    BY <2>1 DEF SealPlan, NoPuts
<1>11. CleanInv'
  <2>1. HistoricalSeal(next, sl).historical /\ HistoricalSeal(next, sl).man = sl.man
    BY DEF HistoricalSeal
  <2>2. call'.cleanSeal # Skip
    <3>1. CASE sl = None
      BY <1>2, <3>1, Distinct
    <3>2. CASE sl # None
      <4>1. HistoricalSeal(next, sl) \in stagedSetSeal
        BY <1>1, <1>8, <3>2, CandidateIsNext, HistoricalSealType DEF next, Gens, StoreTypeOK
      <4> QED
        BY <1>2, <3>2, <4>1, Distinct
    <3> QED
      BY <3>1, <3>2
  <2>3. call'.cleanTL # Skip => seal.man = None
    BY <1>2, <1>8
  <2> QED
    BY <1>1, <1>2, <1>8, <2>1, <2>2, <2>3 DEF CleanInv
<1> QED
  BY <1>5, <1>6, <1>7, <1>9, <1>10, <1>11

-----------------------------------------------------------------------------
(***************************************************************************)
(* The invariant.                                                           *)
(***************************************************************************)

\* The store starts empty, or as a version without seals left it.
LEMMA InitInv == StoreInit => IInv
<1> SUFFICES ASSUME StoreInit PROVE IInv
  OBVIOUS
<1>1. call = Idle /\ seal = None /\ staged = NoPuts /\ stagedTLHist = None
  BY DEF StoreInit
<1>2. /\ generation \in Nat /\ current \in [Node -> BundleOrNone] /\ desired \in [Node -> Nat]
      /\ stagedTL \in TrustListOrNone /\ servedTL \in ServedTrustList \cup {None}
  BY Distinct DEF StoreInit, NoPuts, BundleOrNone, Bundle, Gens, TrustListOrNone, TrustList,
     ServedTrustList
<1>3. StoreTypeOK
  BY <1>1, <1>2, IdleType DEF StoreTypeOK, NoPuts, BundleOrNone, TrustListOrNone
<1>4. ~Uncommitted
  BY DEF StoreInit, Uncommitted, ServedAhead, Ahead, NoPuts
<1>5. StageIdle /\ PromoteIdle
  BY <1>1, IdleFields
<1>6. SealTruthful
  BY <1>1 DEF SealTruthful
<1> QED
  BY <1>3, <1>4, <1>5, <1>6, NothingOwedByStaging, NothingOwedByPromote DEF IInv

\* Every operation, every record write and every interruption preserves it.
LEMMA NextInv == IInv /\ [StoreNext]_storeVars => IInv'
<1> SUFFICES ASSUME IInv, [StoreNext]_storeVars PROVE IInv'
  OBVIOUS
<1>1. ASSUME PromoteIdle', ~Uncommitted' PROVE OneKind' /\ AheadInv' /\ PromoteInv' /\ CleanInv'
  BY <1>1 DEF PromoteIdle, OneKind, AheadInv, PromoteInv, CleanInv
<1>2. ASSUME StageIdle' PROVE SealPlan'
  BY <1>2 DEF StageIdle, SealPlan, StageDone, TL2Done, Hist2Done, TLDone, HistDone, BundlesDone,
     PutsDone, Unsealed
<1>3. CASE StoreCall
  <2>1. StoreTypeOK'
    BY <1>3, CallType DEF IInv
  <2>2. CASE PromoteStaged
    BY <2>1, <2>2, PromoteCallInv DEF IInv
  <2>3. CASE ~PromoteStaged
    <3>1. UNCHANGED <<generation, seal, staged, stagedTL>>
      BY <1>3, <2>3, Zenon DEF StoreCall, StageBundle, ReplaceStagedSet, ReplaceStagedSetEmpty,
         PruneStagedBundles, BumpGeneration, PutSignedTrustList, disk
    <3>2. SealTruthful'
      BY <3>1 DEF IInv, SealTruthful, sealedTrustListMatches, StagedFor, next
    <3> QED
      BY <1>1, <1>3, <2>1, <2>3, <3>2, CallSealPlan DEF IInv
  <2> QED
    BY <2>2, <2>3
<1>4. CASE StoreStep
  <2>1. StoreTypeOK'
    BY <1>4, StepType DEF IInv
  <2>2. CASE StageWrite
    BY <1>1, <2>1, <2>2, StagingOnly, StageWriteSeal DEF IInv
  <2>3. CASE PromoteWrite
    BY <1>2, <2>1, <2>3, PromoteOnly, PromoteWriteInv DEF IInv
  <2>4. CASE CleanWrite
    BY <1>2, <2>1, <2>4, PromoteOnly, CleanWriteInv DEF IInv
  <2> QED
    BY <1>4, <2>2, <2>3, <2>4 DEF StoreStep
<1>5. CASE Interrupt
  <2>1. call' = Idle
    BY <1>5 DEF Interrupt
  <2>2. UNCHANGED <<generation, seal, staged, current, desired, stagedTL, stagedTLHist, servedTL>>
    BY <1>5 DEF Interrupt, disk
  <2>3. StoreTypeOK'
    BY <2>1, <2>2, IdleType DEF IInv, StoreTypeOK
  <2>4. StageIdle' /\ PromoteIdle'
    BY <2>1 DEF Idle, StageIdle, PromoteIdle, StageDone, TL2Done, Hist2Done, TLDone, HistDone,
       BundlesDone, PutsDone, Unsealed, NoPuts
  <2>5. SealTruthful'
    BY <2>2 DEF IInv, SealTruthful, sealedTrustListMatches, StagedFor, next
  <2>6. AheadInv'
    BY <2>1, <2>2, Zenon DEF IInv, AheadInv, Uncommitted, ServedAhead, Ahead, Promotable, sealLoads,
       StagedFor, sealedTrustListMatches, ServedOf, next, Idle, NoPuts
  <2>7. OneKind' /\ PromoteInv' /\ CleanInv'
    BY <2>4 DEF PromoteIdle, OneKind, PromoteInv, CleanInv
  <2> QED
    BY <1>2, <2>3, <2>4, <2>5, <2>6, <2>7 DEF IInv
<1>6. CASE UNCHANGED storeVars
  <2>1. /\ UNCHANGED <<generation, seal, staged, current, desired, stagedTL, stagedTLHist, servedTL>>
        /\ UNCHANGED call
    BY <1>6 DEF storeVars, disk
  <2>2. StoreTypeOK' /\ SealTruthful'
    BY <2>1 DEF IInv, StoreTypeOK, SealTruthful, sealedTrustListMatches, StagedFor, next
  <2>3. OneKind' /\ CleanInv'
    BY <2>1 DEF IInv, OneKind, CleanInv, StageIdle, PromoteIdle, StageDone, TL2Done, Hist2Done,
       TLDone, HistDone, BundlesDone, PutsDone, Unsealed
  <2>4. AheadInv' /\ PromoteInv'
    BY <2>1, Zenon DEF IInv, AheadInv, PromoteInv, Uncommitted, ServedAhead, Ahead, Promotable, sealLoads,
       StagedFor, sealedTrustListMatches, ServedOf, next
  <2>5. SealPlan'
    BY <2>1 DEF IInv, SealPlan, FinalStaged, FinalTL, StagedFor, next
  <2> QED
    BY <2>2, <2>3, <2>4, <2>5 DEF IInv
<1> QED
  BY <1>3, <1>4, <1>5, <1>6 DEF StoreNext

\* The strengthened invariant holds in every state of the store, whatever its callers
\* do and wherever their operations are cut.
THEOREM StoreInvariance == StoreSpec => []IInv
  BY InitInv, NextInv, PTL DEF StoreSpec

\* The records and the plan in flight keep their types.
THEOREM StoreTypeCorrect == StoreSpec => []StoreTypeOK
<1>1. IInv => StoreTypeOK
  BY DEF IInv
<1> QED
  BY StoreInvariance, <1>1, PTL

\* staged-set.json never lies about the staged set or its manifest, in the middle of
\* an operation and after a crash too.
THEOREM SealAlwaysTruthful == StoreSpec => []SealTruthful
<1>1. IInv => SealTruthful
  BY DEF IInv
<1> QED
  BY StoreInvariance, <1>1, PTL

\* A promote cut before its commit can always be retried, and the retry writes the same
\* records again.
THEOREM PromotionRetryable == StoreSpec => []InterruptedPromotionRetryable
<1>1. IInv => InterruptedPromotionRetryable
  BY DEF IInv, AheadInv, InterruptedPromotionRetryable
<1> QED
  BY StoreInvariance, <1>1, PTL

\* generation.json moves by one, and with it either no live record or the whole sealed
\* candidate.
THEOREM CommitsExact == StoreSpec => CommitIsExact
<1>1. IInv /\ [StoreNext]_storeVars => [CommitExact]_storeVars
  <2> SUFFICES ASSUME IInv, StoreNext, generation' # generation PROVE CommitExact
    BY DEF CommitExact
  <2>1. CASE Commit
    <3>1. generation' = next
      BY <2>1 DEF Commit
    <3>2. seal # None
      BY <2>1, CommitCompletes DEF Promotable, sealLoads
    <3> QED
      BY <2>1, <3>1, <3>2, CommitCompletes DEF CommitExact
  <2>2. CASE Wake
    <3>1. generation' = next
      BY <2>2 DEF Wake
    <3>2. ~Uncommitted
      BY <2>2, StagingOnly DEF StageWrite
    <3>3. {n \in Node : current[n] # None /\ current[n].gen = next} = {} /\ ~ServedAhead
      BY <3>2, AheadIsNext DEF Uncommitted, IInv
    <3> QED
      BY <3>1, <3>3 DEF CommitExact
  <2>3. Commit \/ Wake
    BY Zenon DEF StoreNext, StoreCall, StoreStep, StageWrite, PromoteWrite, CleanWrite, Interrupt,
       StageBundle, ReplaceStagedSet, ReplaceStagedSetEmpty, PruneStagedBundles, PromoteStaged,
       BumpGeneration, PutSignedTrustList, DeleteSeal, WriteStaged, DeleteStaged, WriteHist,
       WriteStagedTL, WriteSeal, GoLive, WriteDesired, WriteServedTL, CleanStaged, CleanHist,
       CleanSeal, CleanStagedTL, disk
  <2> QED
    BY <2>1, <2>2, <2>3
<1> QED
  BY StoreInvariance, <1>1, PTL DEF StoreSpec, CommitIsExact
=============================================================================
