------------------------- MODULE DeployFleetProofs -------------------------
(***************************************************************************)
(* From the last stage to the agents, for any nodes, fleets and credentials *)
(* and any number of generations, when rekey-all's wake does not fail alone *)
(* under another operation.  Above DeployControlProofs' invariant:          *)
(*                                                                         *)
(*   DiskFleet   a seal that can be promoted is over the candidate of the   *)
(*               last stage: its nodes have what that stage compiled, the   *)
(*               others already serve it, and its manifest binds the fleet; *)
(*   CallFleet   so is a seal that a plan will publish;                     *)
(*   StageFleet  what a stage has decided is a candidate of its own fleet;  *)
(*   SignFleet   a signature is about the manifest of the seal;             *)
(*   TornInv     what is committed agrees with the served manifest.         *)
(***************************************************************************)
EXTENDS DeployControlProofs

\* The nodes of a candidate get what the fleet's compile made, and the others have it.
CandidateOf(fleet, nodes, bundles, man) ==
    /\ nodes \subseteq DOMAIN fleet
    /\ \A n \in nodes : bundles[n] # None /\ bundles[n].content = fleet[n].dig
    /\ \A n \in DOMAIN fleet \ nodes : current[n] # None /\ current[n].content = fleet[n].dig
    /\ man # None => man.members = fleet

\* A historical seal is one loadSealLocked accepts.
WellFormed(s) == s.historical => s.nodes = {} /\ s.man # None

DiskFleet ==
    /\ seal # None => WellFormed(seal)
    /\ \A n \in Node : staged[n] # None => staged[n].gen <= next
    /\ seal # None /\ ~seal.historical /\ seal.gen # next => StagedFor(staged, next) = {}
    /\ seal # None /\ ~seal.historical /\ seal.gen = next /\ seal.nodes # {} =>
         CandidateOf(deployed, seal.nodes, staged, seal.man)

CallFleet ==
    /\ call.seal # Skip => WellFormed(call.seal)
    /\ call.cleanSeal \notin {Skip, None} => WellFormed(call.cleanSeal)
    /\ \A n \in Node : call.put[n] # None => call.put[n].gen <= next
    /\ call.seal # Skip /\ ~call.seal.historical /\ call.seal.nodes # {} =>
         CandidateOf(IF tenant.op = "storing" THEN tenant.fleet ELSE deployed,
                     call.seal.nodes, FinalStaged, call.seal.man)

StageFleet ==
    tenant.op = "stage" =>
        CandidateOf(tenant.fleet, {n \in Node : tenant.bundles[n] # None}, tenant.bundles,
                    IF tenant.sl = None THEN None ELSE tenant.sl.man)

SignFleet ==
    tenant.op = "sign" =>
        \/ seal # None /\ seal.man = tenant.sl.man /\ ~call.unseal
        \/ /\ call.wake /\ call.seal # Skip /\ call.seal.historical
           /\ call.seal.man = tenant.sl.man

FleetInv == DiskFleet /\ CallFleet /\ StageFleet /\ SignFleet

TornInv ==
    servedTL # None =>
        \A n \in DOMAIN servedTL.man.members :
            current[n] # None /\ ~Ahead(n) /\ ~ServedAhead
                => current[n].content = servedTL.man.members[n].dig

FInv == CInv /\ FleetInv /\ TornInv

-----------------------------------------------------------------------------
(***************************************************************************)
(* What leaves each part alone.                                             *)
(***************************************************************************)

\* The disk still holds a whole candidate while what it is made of stays.
LEMMA DiskFleetKept ==
    ASSUME DiskFleet, UNCHANGED <<generation, seal, staged, current, deployed>>
    PROVE  DiskFleet'
<1>1. next' = next /\ StagedFor(staged, next)' = StagedFor(staged, next)
  BY DEF next, StagedFor
<1>2. CandidateOf(deployed, seal.nodes, staged, seal.man)' = CandidateOf(deployed, seal.nodes, staged, seal.man)
  BY DEF CandidateOf
<1> QED
  BY <1>1, <1>2 DEF DiskFleet, WellFormed

\* A call that publishes no seal over bundles owes nothing.
LEMMA CallFleetFree ==
    ASSUME call'.put = NoPuts,
           call'.seal = Skip \/ (call'.seal.historical /\ WellFormed(call'.seal))
                             \/ (~call'.seal.historical /\ call'.seal.nodes = {}),
           call'.cleanSeal \in {Skip, None} \/ WellFormed(call'.cleanSeal)
    PROVE  CallFleet'
<1>1. \A n \in Node : call'.put[n] = None
  BY DEF NoPuts
<1> QED
  BY <1>1 DEF CallFleet, WellFormed

\* A decided stage stays a whole candidate while the current bundles stay.
LEMMA StageFleetKept ==
    ASSUME StageFleet, UNCHANGED <<tenant, current>>
    PROVE  StageFleet'
  BY DEF StageFleet, CandidateOf

\* Nothing has been decided.
LEMMA NothingDecided ==
    ASSUME tenant'.op \notin {"stage", "sign"}
    PROVE  StageFleet' /\ SignFleet'
  BY DEF StageFleet, SignFleet

-----------------------------------------------------------------------------
(***************************************************************************)
(* The store's writes.                                                      *)
(***************************************************************************)

\* A write of a call that stages: the seal is deleted first and published last.
LEMMA StageWriteFleet ==
    ASSUME FInv, StoreWrite, StageWrite
    PROVE  FleetInv'
<1>1. /\ call \in Plan /\ PromoteIdle /\ PromoteIdle' /\ SealPlan
      /\ staged \in [Node -> BundleOrNone] /\ generation \in Nat /\ CInv
  BY StagingOnly DEF FInv, CInv, ControlTypeOK, StoreTypeOK, IInv
<1>2. /\ tenant.op # "storing" => UNCHANGED <<tenant, deployed>>
      /\ tenant.op = "storing" => DeleteSeal /\ tenant'.op = "none" /\ deployed' = tenant.fleet
  BY <1>1, WriterTenant DEF NoOp, StoreWrite
<1>3. /\ call.cleanSeal = Skip /\ call'.cleanSeal = Skip
      /\ ~call.unseal => tenant.op # "storing"
  BY <1>1 DEF PromoteIdle, CInv, LockInv
<1>4. DiskFleet /\ CallFleet /\ StageFleet /\ SignFleet
  BY DEF FInv, FleetInv
<1>5. CASE DeleteSeal
  <2>1. /\ seal' = None /\ UNCHANGED <<generation, staged, current>>
        /\ UNCHANGED <<call.put, call.prune, call.seal, call.wake>>
    BY <1>1, <1>5 DEF DeleteSeal, Plan
  <2>2. FinalStaged' = FinalStaged /\ next' = next
    BY <2>1 DEF FinalStaged, next
  <2>3. DiskFleet'
    BY <1>4, <2>1, <2>2 DEF DiskFleet
  <2>4. CallFleet'
    BY <1>2, <1>3, <1>4, <2>1, <2>2 DEF CallFleet, CandidateOf, WellFormed
  <2>5. StageFleet'
    BY <1>2, <1>4, <2>1, StageFleetKept DEF StageFleet
  <2>6. SignFleet'
    BY <1>1, <1>2, <1>4, <1>5, <2>1 DEF SignFleet, DeleteSeal
  <2> QED
    BY <2>3, <2>4, <2>5, <2>6 DEF FleetInv
<1>6. ASSUME ~call.unseal PROVE /\ UNCHANGED <<tenant, deployed>> /\ tenant.op # "storing"
  BY <1>2, <1>3, <1>6
<1>7. ASSUME UNCHANGED <<generation, seal, staged, current, tenant, deployed, call.unseal, call.put,
                         call.prune, call.seal, call.wake>>
      PROVE  FleetInv'
  <2>1. FinalStaged' = FinalStaged /\ next' = next
    BY <1>7 DEF FinalStaged, next
  <2>2. DiskFleet' /\ StageFleet'
    BY <1>4, <1>7, DiskFleetKept, StageFleetKept
  <2>3. CallFleet'
    BY <1>3, <1>4, <1>7, <2>1 DEF CallFleet, CandidateOf, WellFormed
  <2>4. SignFleet'
    BY <1>4, <1>7 DEF SignFleet
  <2> QED
    BY <2>2, <2>3, <2>4 DEF FleetInv
<1>8. CASE WriteHist
  <2>1. /\ ~call.unseal /\ UNCHANGED <<generation, seal, staged, current>>
        /\ UNCHANGED <<call.unseal, call.put, call.prune, call.seal, call.wake>>
    BY <1>1, <1>8 DEF WriteHist, Plan, TLDone, HistDone, BundlesDone, PutsDone, Unsealed
  <2> QED
    BY <1>6, <1>7, <2>1
<1>9. CASE WriteStagedTL
  <2>1. /\ ~call.unseal /\ UNCHANGED <<generation, seal, staged, current>>
        /\ UNCHANGED <<call.unseal, call.put, call.prune, call.seal, call.wake>>
    BY <1>1, <1>9 DEF WriteStagedTL, Plan, Hist2Done, TLDone, HistDone, BundlesDone, PutsDone,
       Unsealed
  <2> QED
    BY <1>6, <1>7, <2>1
<1>10. ASSUME NEW n \in Node, WriteStaged(n)
       PROVE  FleetInv'
  <2>1. /\ call.put \in [Node -> BundleOrNone] /\ call.put[n] # None /\ ~call.unseal
        /\ staged' = [staged EXCEPT ![n] = call.put[n]]
        /\ call'.put = [call.put EXCEPT ![n] = None]
        /\ UNCHANGED <<generation, seal, current>>
        /\ UNCHANGED <<call.unseal, call.prune, call.seal, call.wake>>
    BY <1>1, <1>10 DEF WriteStaged, Unsealed, Plan, BundleOrNone
  <2>2. UNCHANGED <<tenant, deployed>> /\ tenant.op # "storing"
    BY <1>6, <2>1
  <2>3. seal = None /\ next' = next /\ n \notin call.prune
    BY <1>1, <2>1 DEF SealPlan, NoPuts, next
  <2>4. /\ call'.put[n] = None /\ staged'[n] = call.put[n]
        /\ \A m \in Node \ {n} : call'.put[m] = call.put[m] /\ staged'[m] = staged[m]
    BY <1>1, <2>1
  <2>5. FinalStaged' = FinalStaged
    <3>1. \A m \in Node : FinalStaged'[m] = FinalStaged[m]
      BY <2>1, <2>3, <2>4 DEF FinalStaged
    <3> QED
      BY <3>1 DEF FinalStaged
  <2>6. DiskFleet'
    <3>1. \A m \in Node : staged'[m] # None => staged'[m].gen <= next
      BY <1>4, <2>4 DEF DiskFleet, CallFleet
    <3> QED
      BY <2>1, <2>3, <3>1 DEF DiskFleet
  <2>7. CallFleet'
    <3>1. \A m \in Node : call'.put[m] # None => call'.put[m].gen <= next
      BY <1>4, <2>4 DEF CallFleet
    <3> QED
      BY <1>3, <1>4, <2>1, <2>2, <2>3, <2>5, <3>1 DEF CallFleet, CandidateOf, WellFormed
  <2>8. StageFleet' /\ SignFleet'
    BY <1>4, <2>1, <2>2, StageFleetKept DEF SignFleet
  <2> QED
    BY <2>6, <2>7, <2>8 DEF FleetInv
<1>11. ASSUME NEW n \in Node, DeleteStaged(n)
       PROVE  FleetInv'
  <2>1. /\ ~call.unseal /\ call.put = NoPuts /\ n \in call.prune
        /\ call'.prune = call.prune \ {n} /\ staged' = [staged EXCEPT ![n] = None]
        /\ UNCHANGED <<generation, seal, current>>
        /\ UNCHANGED <<call.unseal, call.put, call.seal, call.wake>>
    BY <1>1, <1>11 DEF DeleteStaged, Plan, PutsDone, Unsealed
  <2>2. UNCHANGED <<tenant, deployed>> /\ tenant.op # "storing"
    BY <1>6, <2>1
  <2>3. seal = None /\ next' = next
    BY <1>1, <2>1 DEF SealPlan, next
  <2>4. staged'[n] = None /\ \A m \in Node \ {n} : staged'[m] = staged[m]
    BY <1>1, <2>1
  <2>5. FinalStaged' = FinalStaged
    <3>1. \A m \in Node : FinalStaged'[m] = FinalStaged[m]
      BY <2>1, <2>4 DEF FinalStaged, NoPuts
    <3> QED
      BY <3>1 DEF FinalStaged
  <2>6. DiskFleet'
    BY <1>4, <2>3, <2>1, <2>4 DEF DiskFleet
  <2>7. CallFleet'
    BY <1>3, <1>4, <2>1, <2>2, <2>3, <2>5 DEF CallFleet, CandidateOf, WellFormed
  <2>8. StageFleet' /\ SignFleet'
    BY <1>4, <2>1, <2>2, StageFleetKept DEF SignFleet
  <2> QED
    BY <2>6, <2>7, <2>8 DEF FleetInv
<1>12. CASE WriteSeal
  <2>1. /\ ~call.unseal /\ call.put = NoPuts /\ call.prune = {} /\ call.seal # Skip
        /\ seal' = call.seal /\ call'.seal = Skip /\ call'.put = NoPuts /\ ~call'.unseal
        /\ UNCHANGED <<generation, staged, current>>
    BY <1>1, <1>12 DEF WriteSeal, Plan, TL2Done, Hist2Done, TLDone, HistDone, BundlesDone,
       PutsDone, Unsealed
  <2>2. UNCHANGED <<tenant, deployed>> /\ tenant.op # "storing"
    BY <1>6, <2>1
  <2>3. next' = next /\ FinalStaged = staged
    BY <1>1, <2>1 DEF next, FinalStaged, NoPuts
  <2>4. seal' # None /\ (~seal'.historical => seal'.gen = next)
    BY <1>1, <2>1, Distinct DEF Plan, SealPlan
  <2>5. ~seal'.historical /\ seal'.nodes # {} => CandidateOf(deployed, seal.nodes, staged, seal.man)'
    BY <1>4, <2>1, <2>2, <2>3 DEF CallFleet, CandidateOf
  <2>6. DiskFleet'
    BY <1>4, <2>1, <2>3, <2>4, <2>5 DEF DiskFleet, CallFleet, WellFormed
  <2>7. CallFleet'
    BY <1>3, <2>1, CallFleetFree
  <2>8. StageFleet' /\ SignFleet'
    BY <1>1, <1>4, <2>1, <2>2, <2>4, StageFleetKept DEF SignFleet, SealPlan
  <2> QED
    BY <2>6, <2>7, <2>8 DEF FleetInv
<1>13. CASE Wake
  <2>1. /\ ~call.unseal /\ call.seal = Skip /\ call.put = NoPuts
        /\ call'.seal = Skip /\ call'.put = NoPuts /\ ~call'.unseal /\ generation' = next
        /\ UNCHANGED <<seal, staged, current>>
    BY <1>1, <1>13 DEF Wake, Plan, StageDone, TL2Done, Hist2Done, TLDone, HistDone, BundlesDone,
       PutsDone, Unsealed
  <2>2. UNCHANGED <<tenant, deployed>> /\ tenant.op # "storing"
    BY <1>6, <2>1
  <2>3. seal = None \/ seal.historical
    BY <1>1, <1>13, <2>1 DEF SealPlan, Wake
  <2>4. \A m \in Node : staged[m] # None => staged[m].gen <= next'
    <3>1. \A m \in Node : staged[m] # None => staged[m].gen \in Nat /\ staged[m].gen <= next
      BY <1>1, <1>4 DEF DiskFleet, BundleOrNone, Bundle, Gens
    <3>2. next' = next + 1 /\ next \in Nat
      BY <1>1, <2>1 DEF next
    <3> QED
      BY <3>1, <3>2
  <2>5. DiskFleet'
    BY <1>4, <2>1, <2>3, <2>4 DEF DiskFleet
  <2>6. CallFleet'
    BY <1>3, <2>1, CallFleetFree
  <2>7. StageFleet' /\ SignFleet'
    BY <1>4, <2>1, <2>2, StageFleetKept DEF SignFleet
  <2> QED
    BY <2>5, <2>6, <2>7 DEF FleetInv
<1> QED
  BY <1>5, <1>8, <1>9, <1>10, <1>11, <1>12, <1>13 DEF StageWrite

\* A write of a promote or of its clean-up: no tenant operation is under way.
LEMMA PromoteWriteFleet ==
    ASSUME FInv, StoreWrite, PromoteWrite \/ CleanWrite
    PROVE  FleetInv'
<1>1. CInv /\ IInv /\ StoreTypeOK /\ DiskFleet /\ CallFleet
  BY DEF FInv, FleetInv, CInv, ControlTypeOK
<1>2. /\ call \in Plan /\ StageIdle /\ StageIdle' /\ generation \in Nat
      /\ UNCHANGED <<tenant, deployed>> /\ tenant.op = "none"
      /\ staged \in [Node -> BundleOrNone] /\ current \in [Node -> BundleOrNone]
  <2>1. UNCHANGED tenant /\ tenant.op = "none"
    BY <1>1, WriterTenant
  <2> QED
    BY <1>1, <2>1, PromoteOnly DEF StoreTypeOK, StoreWrite
<1>3. StageFleet' /\ SignFleet'
  BY <1>2, NothingDecided
<1>4. call'.seal = Skip /\ call'.put = NoPuts
  BY <1>2 DEF StageIdle, StageDone, TL2Done, Hist2Done, TLDone, HistDone, BundlesDone, PutsDone
<1>5. ASSUME DiskFleet', call'.cleanSeal \in {Skip, call.cleanSeal} PROVE FleetInv'
  <2>1. CallFleet'
    BY <1>1, <1>4, <1>5, CallFleetFree DEF CallFleet
  <2> QED
    BY <1>3, <1>5, <2>1 DEF FleetInv
<1>6. ASSUME UNCHANGED <<generation, seal, staged, current, call.cleanSeal>>
      PROVE  FleetInv'
  BY <1>1, <1>2, <1>5, <1>6, DiskFleetKept
<1>7. ASSUME NEW n \in Node, GoLive(n)
      PROVE  FleetInv'
  <2>1. /\ n \in call.live /\ current' = [current EXCEPT ![n] = staged[n]]
        /\ UNCHANGED <<generation, seal, staged, call.cleanSeal>>
    BY <1>2, <1>7 DEF GoLive, Plan
  <2>2. n \in seal.nodes
    BY <1>1, <2>1 DEF IInv, OneKind, PromoteInv
  <2>3. next' = next /\ StagedFor(staged, next)' = StagedFor(staged, next)
    BY <2>1 DEF next, StagedFor
  <2>4. \A m \in Node \ seal.nodes : current'[m] = current[m]
    BY <1>2, <2>1, <2>2
  <2>5. \A m \in DOMAIN deployed : m \in Node
    BY <1>1, FleetType DEF CInv, ControlTypeOK
  <2>6. CandidateOf(deployed, seal.nodes, staged, seal.man) =>
            CandidateOf(deployed, seal.nodes, staged, seal.man)'
    BY <1>2, <2>1, <2>4, <2>5 DEF CandidateOf
  <2>7. DiskFleet'
    BY <1>1, <2>1, <2>3, <2>6 DEF DiskFleet, WellFormed
  <2> QED
    BY <1>5, <2>1, <2>7
<1>8. CASE \E n \in Node : WriteDesired(n)
  <2>1. UNCHANGED <<generation, seal, staged, current, call.cleanSeal>>
    BY <1>2, <1>8 DEF WriteDesired, Plan
  <2> QED
    BY <1>6, <2>1
<1>9. CASE WriteServedTL
  <2>1. UNCHANGED <<generation, seal, staged, current, call.cleanSeal>>
    BY <1>2, <1>9 DEF WriteServedTL, Plan
  <2> QED
    BY <1>6, <2>1
<1>10. CASE Commit
  <2>1. /\ generation' = next /\ call.commit
        /\ UNCHANGED <<seal, staged, current, call.cleanSeal>>
    BY <1>2, <1>10 DEF Commit, Plan
  <2>2. seal.gen = next
    BY <1>1, <2>1 DEF IInv, PromoteInv, Promotable
  <2>3. next' = next + 1 /\ next \in Nat
    BY <1>2, <2>1 DEF next
  <2>4. \A m \in Node : staged[m] # None => staged[m].gen \in Nat /\ staged[m].gen <= next
    BY <1>1, <1>2 DEF DiskFleet, BundleOrNone, Bundle, Gens
  <2>5. StagedFor(staged, next)' = {}
    BY <2>1, <2>3, <2>4 DEF StagedFor
  <2>6. /\ \A m \in Node : staged'[m] # None => staged'[m].gen <= next'
        /\ seal.gen # next'
    BY <2>1, <2>2, <2>3, <2>4
  <2>7. DiskFleet'
    BY <1>1, <2>1, <2>5, <2>6 DEF DiskFleet, WellFormed
  <2> QED
    BY <1>5, <2>1, <2>7
<1>11. ASSUME NEW n \in Node, CleanStaged(n)
       PROVE  FleetInv'
  <2>1. /\ ~call.commit /\ n \in call.clean
        /\ staged' = staged \/ staged' = [staged EXCEPT ![n] = None]
        /\ UNCHANGED <<generation, seal, current, call.cleanSeal>>
    BY <1>2, <1>11 DEF CleanStaged, Plan, Committed
  <2>2. seal.gen = generation
    BY <1>1, <2>1 DEF IInv, CleanInv
  <2>3. next' = next /\ seal.gen # next
    BY <1>2, <2>1, <2>2 DEF next
  <2>4. \A m \in Node : staged'[m] = staged[m] \/ staged'[m] = None
    BY <1>2, <2>1
  <2>5. StagedFor(staged, next)' \subseteq StagedFor(staged, next)
    BY <2>3, <2>4 DEF StagedFor
  <2>6. DiskFleet'
    BY <1>1, <2>1, <2>3, <2>4, <2>5 DEF DiskFleet, WellFormed
  <2> QED
    BY <1>5, <2>1, <2>6
<1>12. CASE CleanHist
  <2>1. UNCHANGED <<generation, seal, staged, current, call.cleanSeal>>
    BY <1>2, <1>12 DEF CleanHist, Plan
  <2> QED
    BY <1>6, <2>1
<1>13. CASE CleanSeal
  <2>1. /\ call.cleanSeal # Skip /\ call'.cleanSeal = Skip /\ ~call.commit
        /\ seal' = seal \/ seal' = call.cleanSeal
        /\ UNCHANGED <<generation, staged, current>>
    BY <1>2, <1>13 DEF CleanSeal, Plan, Committed
  <2>2. seal' # seal => seal' = None \/ (seal'.historical /\ WellFormed(seal'))
    BY <1>1, <2>1 DEF IInv, CleanInv, CallFleet
  <2>3. CASE seal' = seal
    BY <1>1, <1>2, <1>5, <2>1, <2>3, DiskFleetKept
  <2>4. CASE seal' # seal
    <3>1. next' = next
      BY <2>1 DEF next
    <3>2. DiskFleet'
      BY <1>1, <2>1, <2>2, <2>4, <3>1 DEF DiskFleet, WellFormed
    <3> QED
      BY <1>5, <2>1, <3>2
  <2> QED
    BY <2>3, <2>4
<1>14. CASE CleanStagedTL
  <2>1. UNCHANGED <<generation, seal, staged, current, call.cleanSeal>>
    BY <1>2, <1>14 DEF CleanStagedTL, Plan
  <2> QED
    BY <1>6, <2>1
<1> QED
  BY <1>7, <1>8, <1>9, <1>10, <1>11, <1>12, <1>13, <1>14 DEF PromoteWrite, CleanWrite

-----------------------------------------------------------------------------
(***************************************************************************)
(* The operations.                                                          *)
(***************************************************************************)

\* A stage writes what its fleet needs, and the nodes it leaves alone have it.
LEMMA StageIsCandidate ==
    ASSUME generation \in Nat, NEW fleet \in Fleet, NEW forced, NEW man,
           man # None => man.members = fleet, NEW b, b = StagedBundles(fleet, forced)
    PROVE  CandidateOf(fleet, {n \in Node : b[n] # None}, b, man)
<1> DEFINE U == Unchanged(fleet, forced)
<1>1. \A n \in U : current[n] # None /\ current[n].content = fleet[n].dig
  BY DEF Unchanged
<1>2. DOMAIN fleet \subseteq Node
  BY FleetType
<1>3. \A n \in Node : b[n] = IF n \in DOMAIN fleet \ U
                             THEN [gen |-> next, content |-> fleet[n].dig] ELSE None
  BY DEF StagedBundles
<1> HIDE DEF U
<1>4. ASSUME NEW n \in DOMAIN fleet \ U PROVE b[n] # None /\ b[n].content = fleet[n].dig
  <2>1. [gen |-> next, content |-> fleet[n].dig] \in Bundle
    BY FleetType DEF Bundle, Gens, next
  <2>2. b[n] = [gen |-> next, content |-> fleet[n].dig]
    BY <1>2, <1>3
  <2>3. b[n].content = fleet[n].dig
    BY <2>2
  <2> QED
    BY <2>1, <2>2, <2>3, Distinct, Zenon
<1>5. {n \in Node : b[n] # None} = DOMAIN fleet \ U
  BY <1>2, <1>3, <1>4, Zenon
<1> QED
  BY <1>1, <1>4, <1>5 DEF CandidateOf

\* Nothing is in flight and no stage or signature has been decided.
LEMMA ReleasedFleet ==
    ASSUME FInv, UNCHANGED <<disk, deployed>>, call' = Idle, tenant'.op \in {"none", "promote"}
    PROVE  FleetInv'
<1>1. DiskFleet'
  BY DiskFleetKept DEF disk, FInv, FleetInv
<1>2. CallFleet'
  BY IdlePlan, CallFleetFree
<1> QED
  BY <1>1, <1>2, NothingDecided DEF FleetInv

\* Compilation decides a candidate that covers the whole compiled fleet.
LEMMA CompileFleet ==
    ASSUME FInv, NEW fleet \in Fleet, NEW forced, CompileAndStage(fleet, forced)
    PROVE  FleetInv'
<1>1. /\ call' = Idle /\ UNCHANGED <<generation, seal, staged, current, deployed>>
      /\ tenant'.op = "stage" /\ tenant'.fleet = fleet
      /\ tenant'.bundles = StagedBundles(fleet, forced)
      /\ tenant'.sl # None => tenant'.sl.man.members = fleet
  BY DEF CompileAndStage, Free, storeVars, disk, buildStagedManifest
<1>2. generation \in Nat /\ DiskFleet
  BY DEF FInv, FleetInv, CInv, ControlTypeOK, StoreTypeOK
<1> DEFINE man == IF tenant'.sl = None THEN None ELSE tenant'.sl.man
           b == tenant'.bundles
<1>3. CandidateOf(fleet, {n \in Node : b[n] # None}, b, man)
  BY <1>1, <1>2, StageIsCandidate
<1>4. StageFleet'
  BY <1>1, <1>3 DEF StageFleet, CandidateOf
<1>5. DiskFleet' /\ CallFleet'
  BY <1>1, <1>2, DiskFleetKept, IdlePlan, CallFleetFree
<1>6. SignFleet'
  BY <1>1 DEF SignFleet
<1> QED
  BY <1>4, <1>5, <1>6 DEF FleetInv

\* The plan of a stage publishes what the stage decided.
LEMMA PublishFleet ==
    ASSUME FInv, PublishStage
    PROVE  FleetInv'
<1>1. /\ tenant.op = "stage" /\ UNCHANGED <<generation, seal, staged, current, deployed>>
      /\ tenant'.op = "storing" /\ tenant'.fleet = tenant.fleet
      /\ tenant.bundles = NoPuts => ReplaceStagedSetEmpty
      /\ tenant.bundles # NoPuts => ReplaceStagedSet(tenant.bundles, tenant.sl)
  BY DEF PublishStage, ReplaceStagedSet, ReplaceStagedSetEmpty, disk, FInv, CInv, ControlTypeOK
<1>2. DiskFleet' /\ StageFleet' /\ SignFleet'
  BY <1>1, DiskFleetKept, NothingDecided DEF FInv, FleetInv
<1>3. StoreTypeOK /\ next \in Nat
  BY DEF FInv, CInv, ControlTypeOK, StoreTypeOK, next
<1>4. CASE tenant.bundles = NoPuts
  <2> DEFINE history == IF stagedTL # None THEN stagedTL ELSE stagedTLHist
  <2>1. /\ call'.put = NoPuts /\ call'.cleanSeal = Skip
        /\ call'.seal = IF history = None THEN Skip ELSE HistoricalSeal(HistoricalGen, history)
    BY <1>1, <1>4, EmptyFields
  <2>2. history # None => history.man # None
    BY <1>3, Distinct DEF StoreTypeOK, TrustListOrNone, TrustList
  <2> HIDE DEF history
  <2>3. /\ HistoricalSeal(HistoricalGen, history).historical
        /\ history # None => WellFormed(HistoricalSeal(HistoricalGen, history))
    BY <2>2 DEF HistoricalSeal, WellFormed
  <2>4. CallFleet'
    BY <2>1, <2>3, CallFleetFree
  <2> QED
    BY <1>2, <2>4 DEF FleetInv
<1>5. CASE tenant.bundles # NoPuts
  <2> DEFINE b == tenant.bundles
             ids == {n \in Node : b[n] # None}
             man == IF tenant.sl = None THEN None ELSE tenant.sl.man
  <2>1. /\ call'.put = b /\ call'.cleanSeal = Skip
        /\ call'.seal = SealFor(b, tenant.sl, FALSE)
    BY <1>1, <1>5, ReplaceFields, Zenon
  <2>2. \A n \in Node : b[n] # None => b[n].gen = next
    BY <1>1, <1>5 DEF ReplaceStagedSet
  <2>3. StagedFor(b, next) = ids
    BY <2>2 DEF StagedFor
  <2>4. \/ SealFor(b, tenant.sl, FALSE) = Skip
        \/ /\ ~SealFor(b, tenant.sl, FALSE).historical
           /\ SealFor(b, tenant.sl, FALSE).nodes = ids /\ SealFor(b, tenant.sl, FALSE).man = man
    BY <2>3 DEF SealFor
  <2>5. CandidateOf(tenant.fleet, ids, b, man)
    BY <1>1 DEF FInv, FleetInv, StageFleet
  <2>6. \A n \in ids : FinalStaged'[n] = b[n]
    BY <2>1 DEF FinalStaged
  <2>7. \A m \in Node : call'.put[m] # None => call'.put[m].gen <= next'
    BY <1>1, <1>3, <2>1, <2>2 DEF next
  <2> HIDE DEF b, ids, man
  <2>8. call'.seal # Skip =>
          CandidateOf(tenant.fleet, call.seal.nodes, FinalStaged, call.seal.man)'
    BY <1>1, <2>1, <2>4, <2>5, <2>6, ZenonT(60) DEF CandidateOf
  <2>9. CallFleet'
    BY <1>1, <2>1, <2>4, <2>7, <2>8, Zenon DEF CallFleet, WellFormed
  <2> QED
    BY <1>2, <2>9 DEF FleetInv
<1> QED
  BY <1>4, <1>5

\* Uploading a signature leaves the staged candidate whole.
LEMMA InstallFleet ==
    ASSUME FInv, NEW man \in shown, InstallTrustListSignature(man)
    PROVE  FleetInv'
<1>1. /\ call' = Idle /\ UNCHANGED <<generation, seal, staged, current, deployed>>
      /\ tenant'.op = "sign" /\ tenant'.sl.man = man
  BY DEF InstallTrustListSignature, Free, storeVars, disk, NoOp
<1>2. seal # None /\ seal.man = man
  BY OfferedManifest DEF InstallTrustListSignature, FInv
<1>3. DiskFleet' /\ CallFleet'
  BY <1>1, DiskFleetKept, IdlePlan, CallFleetFree DEF FInv, FleetInv
<1>4. StageFleet' /\ SignFleet'
  BY <1>1, <1>2, IdlePlan DEF StageFleet, SignFleet
<1> QED
  BY <1>3, <1>4 DEF FleetInv

\* A signature is stored under the seal it was decided for, or under a seal without
\* bundles: it never gives loose bundles a seal.
LEMMA SignatureFleet ==
    ASSUME FInv, StoreSignature
    PROVE  FleetInv'
<1>1. /\ tenant.op = "sign" /\ tenant'.op = "none" /\ deployed' = deployed
      /\ PutSignedTrustList(tenant.sl)
  BY DEF StoreSignature, NoOp
<1>2. /\ call = Idle /\ UNCHANGED <<generation, seal, staged, current>>
      /\ call'.put = NoPuts /\ call'.cleanSeal = Skip
      /\ \/ call'.seal = Skip
         \/ /\ ~(sealLoads /\ (seal.historical \/ seal.gen = next) /\ seal.man = tenant.sl.man)
            /\ call'.seal = SealFor(staged, tenant.sl, TRUE)
  BY <1>1, PutSignedFields, Zenon DEF disk
<1>3. seal # None /\ seal.man = tenant.sl.man /\ sealLoads
  BY <1>1, <1>2, IdlePlan DEF FInv, FleetInv, DiskFleet, SignFleet, WellFormed, sealLoads
<1>4. CASE call'.seal = Skip
  <2>1. DiskFleet' /\ CallFleet'
    BY <1>1, <1>2, <1>4, DiskFleetKept, CallFleetFree DEF FInv, FleetInv
  <2> QED
    BY <1>1, <2>1, NothingDecided DEF FleetInv
<1>5. CASE call'.seal # Skip
  <2>1. StagedFor(staged, next) = {}
    BY <1>2, <1>3, <1>5, Zenon DEF FInv, FleetInv, DiskFleet
  <2>2. \/ SealFor(staged, tenant.sl, TRUE) = Skip
        \/ /\ ~SealFor(staged, tenant.sl, TRUE).historical
           /\ SealFor(staged, tenant.sl, TRUE).nodes = {}
    BY <2>1 DEF SealFor
  <2>3. CallFleet'
    BY <1>2, <2>2, CallFleetFree, Zenon
  <2>4. DiskFleet'
    BY <1>1, <1>2, DiskFleetKept DEF FInv, FleetInv
  <2> QED
    BY <1>1, <2>3, <2>4, NothingDecided DEF FleetInv
<1> QED
  BY <1>4, <1>5

\* Opening a promotion keeps the sealed candidate whole.
LEMMA PromoteFleet ==
    ASSUME FInv, StorePromote
    PROVE  FleetInv'
<1> DEFINE sl == IF seal.man = None THEN None ELSE stagedTL
<1>1. PromoteStaged /\ tenant'.op = "none" /\ deployed' = deployed
  BY DEF StorePromote, NoOp
<1>2. /\ UNCHANGED <<generation, seal, staged, current>>
      /\ call'.put = NoPuts /\ call'.seal = Skip
      /\ call'.cleanSeal = IF sl = None THEN None ELSE HistoricalSeal(next, sl)
  BY <1>1, PromoteFields, Zenon DEF disk
<1>3. sl # None => sl.man # None
  BY Distinct DEF FInv, CInv, ControlTypeOK, StoreTypeOK, TrustListOrNone, TrustList
<1> HIDE DEF sl
<1>4. sl # None => WellFormed(HistoricalSeal(next, sl))
  BY <1>3 DEF HistoricalSeal, WellFormed
<1>5. DiskFleet' /\ CallFleet'
  BY <1>1, <1>2, <1>4, DiskFleetKept, CallFleetFree DEF FInv, FleetInv
<1> QED
  BY <1>1, <1>5, NothingDecided DEF FleetInv

\* The wake of rekey-all puts the manifest a signature is about behind its own seal.
LEMMA WakeFleet ==
    ASSUME FInv, RekeyAllWake
    PROVE  FleetInv'
<1> DEFINE history == IF stagedTLHist # None THEN stagedTLHist ELSE stagedTL
           hs == HistoricalSeal(next, history)
<1>1. BumpGeneration /\ UNCHANGED <<deployed, tenant>>
  BY DEF RekeyAllWake
<1>2. /\ UNCHANGED <<generation, seal, staged, current>>
      /\ call'.put = NoPuts /\ call'.cleanSeal = Skip /\ call'.wake
      /\ call'.seal = IF history = None THEN Skip ELSE hs
  BY <1>1, BumpFields, Zenon DEF disk
<1>3. history # None => history \in TrustList /\ history.man # None
  BY Distinct DEF FInv, CInv, ControlTypeOK, StoreTypeOK, TrustListOrNone, TrustList
<1>4. tenant.op = "sign" => history # None /\ history.man = tenant.sl.man
  BY DEF FInv, CInv, EpochInv
<1>5. next \in Gens
  BY DEF FInv, CInv, ControlTypeOK, StoreTypeOK, next, Gens
<1> HIDE DEF history
<1>6. history # None => hs # Skip
  BY <1>3, <1>5, HistoricalSealType, Distinct
<1>7. /\ hs.historical /\ hs.man = history.man
      /\ history # None => WellFormed(hs)
  BY <1>3 DEF HistoricalSeal, WellFormed
<1> HIDE DEF hs
<1>8. DiskFleet' /\ StageFleet'
  BY <1>1, <1>2, DiskFleetKept, StageFleetKept DEF FInv, FleetInv
<1>9. CallFleet'
  BY <1>2, <1>7, CallFleetFree
<1>10. SignFleet'
  BY <1>1, <1>2, <1>4, <1>6, <1>7 DEF SignFleet
<1> QED
  BY <1>8, <1>9, <1>10 DEF FleetInv

\* Steps that move neither the records FleetInv is about nor the tenant operation.
LEMMA FleetUntouched ==
    ASSUME FInv, UNCHANGED <<storeVars, tenant, deployed>>
    PROVE  FleetInv'
<1>1. /\ UNCHANGED <<generation, seal, staged, current, call, tenant, deployed>>
      /\ DiskFleet /\ CallFleet /\ StageFleet /\ SignFleet
  BY DEF storeVars, disk, FInv, FleetInv
<1>2. FinalStaged' = FinalStaged /\ next' = next
  BY <1>1 DEF FinalStaged, next
<1>3. CallFleet'
  BY <1>1, <1>2 DEF CallFleet, CandidateOf, WellFormed
<1>4. DiskFleet' /\ StageFleet' /\ SignFleet'
  BY <1>1, DiskFleetKept, StageFleetKept, Zenon DEF SignFleet
<1> QED
  BY <1>3, <1>4 DEF FleetInv

-----------------------------------------------------------------------------
(***************************************************************************)
(* All steps.                                                               *)
(***************************************************************************)

\* Every step keeps the promotable candidate that of the last stage.
LEMMA FleetNext ==
    ASSUME ~WakeMayFailAlone, FInv, [ControlNext]_controlVars
    PROVE  FleetInv'
<1>1. CASE \E fleet \in Fleet : \E forced \in SUBSET DOMAIN fleet : CompileAndStage(fleet, forced)
  BY <1>1, CompileFleet
<1>2. CASE PublishStage
  BY <1>2, PublishFleet
<1>3. CASE FetchTrustList
  BY <1>3, FleetUntouched DEF FetchTrustList
<1>4. CASE \E man \in shown : InstallTrustListSignature(man)
  BY <1>4, InstallFleet
<1>5. CASE StoreSignature
  BY <1>5, SignatureFleet
<1>6. CASE GatePromote
  <2>1. call' = Idle /\ UNCHANGED <<disk, deployed>> /\ tenant'.op = "promote"
    BY <1>6 DEF GatePromote, Free, storeVars, NoOp
  <2> QED
    BY <2>1, ReleasedFleet
<1>7. CASE StorePromote
  BY <1>7, PromoteFleet
<1>8. CASE StoreRefuses
  <2>1. call' = Idle /\ UNCHANGED <<disk, deployed>> /\ tenant'.op = "none"
    BY <1>8 DEF StoreRefuses, storeVars, NoOp
  <2> QED
    BY <2>1, ReleasedFleet
<1>9. CASE RekeyAllWake
  BY <1>9, WakeFleet
<1>10. CASE \E c \in Cred : SetKeystoneCredential(c)
  BY <1>10, FleetUntouched DEF SetKeystoneCredential
<1>11. CASE StoreWrite
  BY <1>11, WriterTenant, StageWriteFleet, PromoteWriteFleet DEF FInv
<1>12. CASE Fault
  <2>1. call' = Idle /\ UNCHANGED <<disk, deployed>> /\ tenant'.op = "none"
    BY <1>12 DEF Fault, Interrupt, NoOp
  <2> QED
    BY <2>1, ReleasedFleet
<1>13. CASE UNCHANGED controlVars
  BY <1>13, FleetUntouched DEF controlVars
<1> QED
  BY <1>1, <1>2, <1>3, <1>4, <1>5, <1>6, <1>7, <1>8, <1>9, <1>10, <1>11, <1>12, <1>13
     DEF ControlNext

\* What a commit leaves on the nodes of the last stage.
LEMMA CommitDeploys ==
    ASSUME FInv, Commit
    PROVE  /\ \A n \in DOMAIN deployed : current[n] # None /\ current[n].content = deployed[n].dig
           /\ \A n \in Node : Ahead(n) => n \in DOMAIN deployed
           /\ cred # None => servedTL # None /\ servedTL.man.members = deployed
           /\ cred = None => servedTL = None
<1>1. CInv /\ IInv /\ StoreTypeOK
  BY DEF FInv, CInv, ControlTypeOK
<1>2. /\ Promotable
      /\ \A n \in seal.nodes : current[n] = staged[n]
      /\ {n \in Node : current[n] # None /\ current[n].gen = next} = seal.nodes
  BY <1>1, CommitCompletes
<1>3. CandidateOf(deployed, seal.nodes, staged, seal.man)
  BY <1>2 DEF FInv, FleetInv, DiskFleet, Promotable, sealLoads
<1>4. \A n \in Node : Ahead(n) => n \in seal.nodes
  BY <1>1, <1>2, AheadIsNext DEF IInv
<1>5. /\ cred # None => servedTL # None /\ servedTL.man = seal.man /\ seal.man # None
      /\ cred = None => servedTL = None
  BY <1>1, CommitServes DEF ServedOf
<1> QED
  BY <1>2, <1>3, <1>4, <1>5 DEF CandidateOf

\* No step tears the served manifest from the bundles it lists.
LEMMA TornNext ==
    ASSUME FInv, [ControlNext]_controlVars
    PROVE  TornInv'
<1>1. CInv /\ IInv /\ StoreTypeOK /\ ControlTypeOK /\ generation \in Nat /\ TornInv
  BY DEF FInv, CInv, ControlTypeOK, StoreTypeOK
<1>2. CASE UNCHANGED <<generation, current, servedTL>>
  BY <1>1, <1>2 DEF TornInv, Ahead, ServedAhead
<1>3. ASSUME generation' # generation \/ current' # current \/ servedTL' # servedTL
      PROVE  TornInv'
  <2>0. servedTL # None => DOMAIN servedTL.man.members \subseteq Node
    <3>1. servedTL # None => servedTL.man.members \in Fleet
      BY <1>1, ManifestType DEF StoreTypeOK, ServedTrustList
    <3> QED
      BY <3>1, FleetType
  <2>1. StoreStep
    BY <1>1, <1>3, OnlyWritesChangeDisk DEF disk
  <2>2. Wake \/ (\E n \in Node : GoLive(n)) \/ WriteServedTL \/ Commit
    BY <1>3, <2>1 DEF StoreStep, StageWrite, PromoteWrite, CleanWrite, DeleteSeal, WriteStaged,
       DeleteStaged, WriteHist, WriteStagedTL, WriteSeal, WriteDesired, CleanStaged, CleanHist,
       CleanSeal, CleanStagedTL
  <2>3. CASE Wake
    <3>1. UNCHANGED <<current, servedTL>>
      BY <2>3 DEF Wake
    <3>2. ~Uncommitted
      BY <1>1, <2>3, StagingOnly DEF StageWrite
    <3> QED
      BY <1>1, <2>0, <3>1, <3>2 DEF TornInv, Uncommitted
  <2>4. ASSUME NEW n \in Node, GoLive(n) PROVE TornInv'
    <3>1. /\ n \in call.live /\ current' = [current EXCEPT ![n] = staged[n]]
          /\ UNCHANGED <<generation, servedTL>>
      BY <2>4 DEF GoLive
    <3>2. n \in seal.nodes /\ Promotable
      BY <1>1, <3>1, Zenon DEF IInv, OneKind, PromoteInv
    <3>3. staged[n] # None /\ staged[n].gen = next
      BY <1>1, <3>2, CandidateIsNext, Zenon
    <3>4. current'[n] = staged[n] /\ \A m \in Node \ {n} : current'[m] = current[m]
      BY <1>1, <3>1 DEF StoreTypeOK
    <3>5. generation' = generation /\ current'[n] # None /\ current'[n].gen = generation + 1
      BY <3>1, <3>3, <3>4 DEF next
    <3>6. Ahead(n)'
      BY <1>1, <3>5 DEF Ahead
    <3> QED
      BY <1>1, <2>0, <3>1, <3>4, <3>6 DEF TornInv, Ahead, ServedAhead
  <2>5. CASE WriteServedTL
    <3>1. call.served # Skip /\ servedTL' = call.served /\ UNCHANGED generation
      BY <2>5 DEF WriteServedTL
    <3>2. servedTL' = ServedOf(stagedTL)
      BY <1>1, <3>1 DEF IInv, OneKind, PromoteInv
    <3>3. servedTL' # None => ServedAhead'
      BY <1>1, <3>1, <3>2 DEF ServedAhead, ServedOf, next
    <3> QED
      BY <3>3 DEF TornInv
  <2>6. CASE Commit
    <3>1. UNCHANGED <<current, servedTL>>
      BY <2>6 DEF Commit
    <3> QED
      BY <2>6, <3>1, CommitDeploys DEF TornInv
  <2> QED
    BY <2>2, <2>3, <2>4, <2>5, <2>6
<1> QED
  BY <1>2, <1>3

\* With wakes that do not fail alone, the whole invariant holds throughout.
THEOREM FleetInvariance ==
    ASSUME ~WakeMayFailAlone
    PROVE  ControlSpec => []FInv
<1>1. ControlInit => FInv
  <2> SUFFICES ASSUME ControlInit PROVE FInv
    OBVIOUS
  <2>1. CInv
    BY ControlInitInv
  <2>2. /\ seal = None /\ servedTL = None /\ call = Idle /\ tenant.op = "none"
        /\ \A m \in Node : staged[m] = None /\ Idle.put[m] = None
    BY IdlePlan DEF ControlInit, NoOp, NoPuts
  <2>3. DiskFleet /\ TornInv
    BY <2>2 DEF DiskFleet, TornInv
  <2>4. CallFleet /\ StageFleet /\ SignFleet
    BY <2>2, IdlePlan, Zenon DEF CallFleet, StageFleet, SignFleet
  <2> QED
    BY <2>1, <2>3, <2>4 DEF FInv, FleetInv
<1>2. FInv /\ [ControlNext]_controlVars => FInv'
  <2> SUFFICES ASSUME FInv, [ControlNext]_controlVars PROVE FInv'
    OBVIOUS
  <2>1. CInv'
    BY ControlNextInv DEF FInv
  <2> QED
    BY <2>1, FleetNext, TornNext DEF FInv
<1> QED
  BY <1>1, <1>2, PTL DEF ControlSpec

\* GetServedConfig never hands out a bundle with a manifest that lists another digest
\* for the node, for any fleets, crashes, delta-skips and rotations.
THEOREM NeverTornPair ==
    ASSUME ~WakeMayFailAlone
    PROVE  ControlSpec => []NoTornPair
<1>1. FInv => NoTornPair
  BY DEF FInv, TornInv, NoTornPair, GetServedConfig
<1> QED
  BY FleetInvariance, <1>1, PTL

\* What a promote commits is the last stage, whole: its bundles on the nodes it changed,
\* the same on those it skipped, no other node, and under the keystone a manifest that
\* binds exactly that fleet.
THEOREM LastStageGoesLive ==
    ASSUME ~WakeMayFailAlone
    PROVE  ControlSpec => OnlyLastStageGoesLive
<1> DEFINE A == (\E n \in Node : Ahead(n)) /\ generation' # generation
                  => /\ \A n \in DOMAIN deployed :
                           current[n] # None /\ current[n].content = deployed[n].dig
                     /\ \A n \in Node : Ahead(n) => n \in DOMAIN deployed
                     /\ keystoneOn => servedTL.man.members = deployed
<1>1. FInv /\ [ControlNext]_controlVars => [A]_controlVars
  <2> SUFFICES ASSUME FInv, [ControlNext]_controlVars, \E n \in Node : Ahead(n),
                      generation' # generation
               PROVE  /\ \A n \in DOMAIN deployed :
                           current[n] # None /\ current[n].content = deployed[n].dig
                      /\ \A n \in Node : Ahead(n) => n \in DOMAIN deployed
                      /\ keystoneOn => servedTL.man.members = deployed
    OBVIOUS
  <2>1. Commit
    BY CounterWriter DEF FInv
  <2> QED
    BY <2>1, CommitDeploys DEF keystoneOn
<1> QED
  BY FleetInvariance, <1>1, PTL DEF ControlSpec, OnlyLastStageGoesLive

=============================================================================
