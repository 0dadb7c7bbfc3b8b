---------------------------- MODULE StagedStore ----------------------------
(***************************************************************************)
(* The staged-set / promote protocol of the controller store                *)
(* (internal/controller/storecore_stage.go, the generation and trust-list   *)
(* parts of storecore.go).                                                  *)
(*                                                                         *)
(* Every store operation runs under the one store lock, but it is several   *)
(* record writes, each atomic and durable on its own.  A process crash or   *)
(* an I/O error can stop it between any two.  So an operation is modelled   *)
(* as a PLAN: the writes it still has to do, fixed when it takes the lock   *)
(* (nobody else can write before it ends).  An operation's action checks    *)
(* its guards and installs its plan in "call"; the write actions consume    *)
(* the plan in the code's order; Interrupt drops what is left of it.        *)
(*                                                                         *)
(* Bundles of one operation are written in any order (the code: by node     *)
(* id), which only adds behaviours.                                         *)
(***************************************************************************)
EXTENDS Naturals, FiniteSets

CONSTANTS
    Node,        \* node ids
    Registered,  \* those with a registry record (manual nodes have none)
    Content,     \* bundle contents (digests)
    Manifest,    \* canonical trust-list bytes, epoch included
    Sig,         \* off-host signatures
    None,        \* an absent record
    Skip,        \* "this operation does not write that record"
    MaxGen       \* bound on the generation counter

Gens == Nat \ {0}

Bundle == [gen : Gens, content : Content]

\* StoredTrustList in the staged and history slots.
TrustList == [man : Manifest, sig : Sig \cup {None}]

\* StoredTrustList in the served slot: PromotedGeneration tags its commit.
ServedTrustList == [man : Manifest, sig : Sig \cup {None}, promoted : Nat]

stagedSetSeal == [gen : Gens, nodes : SUBSET Node, historical : BOOLEAN,
                  man : Manifest \cup {None}]

Record == Bundle \cup TrustList \cup ServedTrustList \cup stagedSetSeal

ASSUME StoreAssumption ==
    /\ Registered \subseteq Node
    /\ MaxGen \in Nat
    /\ None \notin Record \cup Manifest \cup Sig
    /\ Skip \notin Record \cup {None}
    /\ \A S \in SUBSET Node : None \notin [bundles : [S -> Bundle], trust : TrustList \cup {None}]

VARIABLES
    generation,    \* generation.json, the commit point of a promote
    seal,          \* staged-set.json
    staged,        \* staged bundles, by node
    current,       \* current bundles, by node
    desired,       \* DesiredGeneration of the registry records
    stagedTL,      \* signed_trustlist.json
    stagedTLHist,  \* the epoch/status history slot
    servedTL,      \* the served trust-list
    call           \* the plan of the operation that holds the store lock

disk == <<generation, seal, staged, current, desired, stagedTL, stagedTLHist,
          servedTL>>

storeVars == <<disk, call>>

next == generation + 1

-----------------------------------------------------------------------------
(***************************************************************************)
(* Plans.  The fields are in the order in which the writes happen.          *)
(***************************************************************************)
Plan == [unseal : BOOLEAN,                          \* delete the seal
         put    : [Node -> Bundle \cup {None}],     \* write staged bundles
         prune  : SUBSET Node,                      \* delete staged bundles
         hist   : TrustList \cup {Skip},            \* trust-list slots ...
         tl     : TrustList \cup {None, Skip},
         hist2  : TrustList \cup {Skip},
         tl2    : TrustList \cup {Skip},
         seal   : stagedSetSeal \cup {Skip},        \* publish the seal
         wake   : BOOLEAN,                          \* BumpGeneration's counter write
         live   : SUBSET Node,                      \* promote: current bundles,
         desire : SUBSET Node,                      \*   the node's registry record,
         served : ServedTrustList \cup {Skip},      \*   the served trust-list,
         commit : BOOLEAN,                          \*   generation.json
         clean  : SUBSET Node,                      \* best-effort cleanup
         cleanHist : TrustList \cup {Skip},
         cleanSeal : stagedSetSeal \cup {None, Skip},
         cleanTL   : {None, Skip}]

NoPuts == [n \in Node |-> None]

Idle == [unseal |-> FALSE, put |-> NoPuts, prune |-> {}, hist |-> Skip, tl |-> Skip,
         hist2 |-> Skip, tl2 |-> Skip, seal |-> Skip, wake |-> FALSE,
         live |-> {}, desire |-> {}, served |-> Skip, commit |-> FALSE,
         clean |-> {}, cleanHist |-> Skip, cleanSeal |-> Skip, cleanTL |-> Skip]

\* How far the operation in flight has got.  UnsealIgnored, SealEarly, DesireForgotten,
\* LiveForgotten and CleanEarly are mutants: orders the code could have got wrong.
UnsealIgnored == TRUE
Unsealed == ~call.unseal
PutsDone == Unsealed /\ call.put = NoPuts
BundlesDone == PutsDone /\ call.prune = {}
HistDone == BundlesDone /\ call.hist = Skip
TLDone == HistDone /\ call.tl = Skip
Hist2Done == TLDone /\ call.hist2 = Skip
SealEarly == Unsealed
TL2Done == Hist2Done /\ call.tl2 = Skip
StageDone == TL2Done /\ call.seal = Skip
DesireForgotten == call.live = {}
LiveForgotten == call.desire = {}
LiveDone == call.live = {} /\ call.desire = {}
CleanEarly == StageDone /\ ~call.wake /\ LiveDone /\ call.served = Skip
Committed == StageDone /\ ~call.wake /\ LiveDone /\ call.served = Skip /\ ~call.commit

-----------------------------------------------------------------------------
(***************************************************************************)
(* What the operations read.                                                *)
(***************************************************************************)
Ahead(n) == current[n] # None /\ current[n].gen > generation

ServedAhead == servedTL # None /\ servedTL.promoted > generation

\* Mutant: only the served trust-list is looked at.
BundlesUnchecked == ~ServedAhead

requireCompletedPromotion == ~ServedAhead /\ \A n \in Node : ~Ahead(n)

\* stagedBundlesForGenerationLocked, over a given staged collection.
StagedFor(bundles, g) == {n \in Node : bundles[n] # None /\ bundles[n].gen = g}

\* loadSealLocked: present and well formed.
sealLoads == seal # None /\ (seal.historical => seal.nodes = {} /\ seal.man # None)

\* loadSealedTrustListLocked: the sealed manifest is the one in the staged slot.
sealedTrustListMatches ==
    seal.man # None => stagedTL # None /\ stagedTL.man = seal.man

\* pendingSealedTrustListLocked.
pendingSealedTrustList ==
    IF sealLoads /\ ~seal.historical /\ seal.gen = next /\ seal.man # None
       /\ sealedTrustListMatches
    THEN stagedTL ELSE None

\* saveSealForGenerationLocked: the seal it publishes, if any, over the staged
\* collection as it will be when it is called.
SealFor(bundles, sl, allowEmpty) ==
    LET ids == StagedFor(bundles, next) IN
    IF ids = {} /\ (sl = None \/ ~allowEmpty) THEN Skip
    ELSE [gen |-> next, nodes |-> ids, historical |-> FALSE,
          man |-> IF sl = None THEN None ELSE sl.man]

HistoricalSeal(g, sl) == [gen |-> g, nodes |-> {}, historical |-> TRUE, man |-> sl.man]

\* The generation of the seal an empty replacement keeps: a seal's is positive.
HistoricalGen == IF generation = 0 THEN 1 ELSE generation

\* GetCurrentSignedTrustList (None: not found, or refused as incomplete).
GetCurrentSignedTrustList ==
    IF sealLoads /\ seal.man # None /\ sealedTrustListMatches THEN stagedTL ELSE None

-----------------------------------------------------------------------------
(***************************************************************************)
(* The operations.                                                          *)
(***************************************************************************)
StageBundle(n, b) ==
    /\ call = Idle
    /\ requireCompletedPromotion
    /\ call' = [Idle EXCEPT
         !.unseal = TRUE,
         !.put    = [NoPuts EXCEPT ![n] = b],
         !.seal   = SealFor([staged EXCEPT ![n] = b], pendingSealedTrustList, FALSE)]
    /\ UNCHANGED disk

\* A non-empty replacement candidate: bundles maps every node to its bundle or None.
ReplaceStagedSet(bundles, sl) ==
    /\ call = Idle
    /\ requireCompletedPromotion
    /\ bundles # NoPuts
    /\ \A n \in Node : bundles[n] # None => bundles[n].gen = next
    /\ call' = [Idle EXCEPT
         !.unseal = TRUE,
         !.put    = bundles,
         !.prune  = {n \in Node : staged[n] # None /\ bundles[n] = None},
         !.tl     = sl,
         !.hist2  = IF sl = None THEN Skip ELSE sl,
         !.seal   = SealFor(bundles, sl, FALSE)]
    /\ UNCHANGED disk

\* The empty replacement keeps the last manifest behind a historical seal.
ReplaceStagedSetEmpty ==
    LET history == IF stagedTL # None THEN stagedTL ELSE stagedTLHist IN
    /\ call = Idle
    /\ requireCompletedPromotion
    /\ call' = [Idle EXCEPT
         !.unseal = TRUE,
         !.prune  = {n \in Node : staged[n] # None},
         !.hist   = IF stagedTL # None THEN stagedTL ELSE Skip,
         !.tl     = None,
         !.tl2    = IF history = None THEN Skip ELSE history,
         !.seal   = IF history = None THEN Skip
                    ELSE HistoricalSeal(HistoricalGen, history)]
    /\ UNCHANGED disk

PruneStagedBundles(keep) ==
    LET pruned == {n \in Node : staged[n] # None /\ n \notin keep} IN
    /\ call = Idle
    /\ requireCompletedPromotion
    /\ call' = [Idle EXCEPT
         !.unseal = TRUE,
         !.prune  = pruned,
         !.seal   = SealFor([n \in Node |-> IF n \in pruned THEN None ELSE staged[n]],
                            pendingSealedTrustList, FALSE)]
    /\ UNCHANGED disk

\* What PromoteStaged demands before it flips anything.
Promotable ==
    /\ sealLoads
    /\ seal.gen = next
    /\ ~seal.historical
    /\ seal.nodes # {}
    /\ StagedFor(staged, next) = seal.nodes
    /\ sealedTrustListMatches

PromoteStaged ==
    LET sl == IF seal.man = None THEN None ELSE stagedTL IN
    /\ call = Idle
    /\ generation < MaxGen
    /\ Promotable
    /\ call' = [Idle EXCEPT
         !.live      = seal.nodes,
         !.served    = IF sl # None /\ sl.sig # None
                       THEN [man |-> sl.man, sig |-> sl.sig, promoted |-> next]
                       ELSE Skip,
         !.commit    = TRUE,
         !.clean     = seal.nodes,
         !.cleanHist = IF sl = None THEN Skip ELSE sl,
         !.cleanSeal = IF sl = None THEN None ELSE HistoricalSeal(next, sl),
         !.cleanTL   = IF sl = None THEN None ELSE Skip]
    /\ UNCHANGED disk

BumpGeneration ==
    LET history == IF stagedTLHist # None THEN stagedTLHist ELSE stagedTL IN
    /\ call = Idle
    /\ generation < MaxGen
    /\ requireCompletedPromotion
    /\ call' = [Idle EXCEPT
         !.unseal = TRUE,
         !.hist   = IF history = None THEN Skip ELSE history,
         !.tl     = history,
         !.seal   = IF history = None THEN Skip ELSE HistoricalSeal(next, history),
         !.wake   = TRUE]
    /\ UNCHANGED disk

PutSignedTrustList(sl) ==
    LET sameBytes == /\ sealLoads
                     /\ seal.historical \/ seal.gen = next
                     /\ seal.man = sl.man IN
    /\ call = Idle
    /\ requireCompletedPromotion
    /\ call' = IF sameBytes
               THEN [Idle EXCEPT !.hist = sl, !.tl = sl]
               ELSE [Idle EXCEPT !.unseal = TRUE, !.tl = sl, !.hist2 = sl,
                                 !.seal = SealFor(staged, sl, TRUE)]
    /\ UNCHANGED disk

-----------------------------------------------------------------------------
(***************************************************************************)
(* The record writes.                                                       *)
(***************************************************************************)
DeleteSeal ==
    /\ call.unseal
    /\ seal' = None
    /\ call' = [call EXCEPT !.unseal = FALSE]
    /\ UNCHANGED <<generation, staged, current, desired, stagedTL, stagedTLHist, servedTL>>

WriteStaged(n) ==
    /\ Unsealed
    /\ call.put[n] # None
    /\ staged' = [staged EXCEPT ![n] = call.put[n]]
    /\ call' = [call EXCEPT !.put[n] = None]
    /\ UNCHANGED <<generation, seal, current, desired, stagedTL, stagedTLHist, servedTL>>

DeleteStaged(n) ==
    /\ PutsDone
    /\ n \in call.prune
    /\ staged' = [staged EXCEPT ![n] = None]
    /\ call' = [call EXCEPT !.prune = @ \ {n}]
    /\ UNCHANGED <<generation, seal, current, desired, stagedTL, stagedTLHist, servedTL>>

WriteHist ==
    /\ \/ /\ BundlesDone /\ call.hist # Skip
          /\ stagedTLHist' = call.hist
          /\ call' = [call EXCEPT !.hist = Skip]
       \/ /\ TLDone /\ call.hist2 # Skip
          /\ stagedTLHist' = call.hist2
          /\ call' = [call EXCEPT !.hist2 = Skip]
    /\ UNCHANGED <<generation, seal, staged, current, desired, stagedTL, servedTL>>

WriteStagedTL ==
    /\ \/ /\ HistDone /\ call.tl # Skip
          /\ stagedTL' = call.tl
          /\ call' = [call EXCEPT !.tl = Skip]
       \/ /\ Hist2Done /\ call.tl2 # Skip
          /\ stagedTL' = call.tl2
          /\ call' = [call EXCEPT !.tl2 = Skip]
    /\ UNCHANGED <<generation, seal, staged, current, desired, stagedTLHist, servedTL>>

WriteSeal ==
    /\ TL2Done
    /\ call.seal # Skip
    /\ seal' = call.seal
    /\ call' = [call EXCEPT !.seal = Skip]
    /\ UNCHANGED <<generation, staged, current, desired, stagedTL, stagedTLHist, servedTL>>

\* BumpGeneration's last write.
Wake ==
    /\ StageDone
    /\ call.wake
    /\ generation' = next
    /\ call' = [call EXCEPT !.wake = FALSE]
    /\ UNCHANGED <<seal, staged, current, desired, stagedTL, stagedTLHist, servedTL>>

GoLive(n) ==
    /\ n \in call.live
    /\ call.desire = {}
    /\ current' = [current EXCEPT ![n] = staged[n]]
    /\ call' = [call EXCEPT !.live = @ \ {n}, !.desire = {n} \cap Registered]
    /\ UNCHANGED <<generation, seal, staged, desired, stagedTL, stagedTLHist, servedTL>>

WriteDesired(n) ==
    /\ n \in call.desire
    /\ desired' = [desired EXCEPT ![n] = next]
    /\ call' = [call EXCEPT !.desire = {}]
    /\ UNCHANGED <<generation, seal, staged, current, stagedTL, stagedTLHist, servedTL>>

WriteServedTL ==
    /\ LiveDone
    /\ call.served # Skip
    /\ servedTL' = call.served
    /\ call' = [call EXCEPT !.served = Skip]
    /\ UNCHANGED <<generation, seal, staged, current, desired, stagedTL, stagedTLHist>>

Commit ==
    /\ LiveDone
    /\ call.served = Skip
    /\ call.commit
    /\ generation' = next
    /\ call' = [call EXCEPT !.commit = FALSE]
    /\ UNCHANGED <<seal, staged, current, desired, stagedTL, stagedTLHist, servedTL>>

\* Best-effort cleanup after the commit: each write may also fail silently.
CleanStaged(n) ==
    /\ Committed
    /\ n \in call.clean
    /\ staged' \in {staged, [staged EXCEPT ![n] = None]}
    /\ call' = [call EXCEPT !.clean = @ \ {n}]
    /\ UNCHANGED <<generation, seal, current, desired, stagedTL, stagedTLHist, servedTL>>

CleanHist ==
    /\ Committed
    /\ call.clean = {}
    /\ call.cleanHist # Skip
    /\ stagedTLHist' \in {stagedTLHist, call.cleanHist}
    /\ call' = [call EXCEPT !.cleanHist = Skip]
    /\ UNCHANGED <<generation, seal, staged, current, desired, stagedTL, servedTL>>

CleanSeal ==
    /\ Committed
    /\ call.clean = {}
    /\ call.cleanHist = Skip
    /\ call.cleanSeal # Skip
    /\ seal' \in {seal, call.cleanSeal}
    /\ call' = [call EXCEPT !.cleanSeal = Skip]
    /\ UNCHANGED <<generation, staged, current, desired, stagedTL, stagedTLHist, servedTL>>

CleanStagedTL ==
    /\ Committed
    /\ call.clean = {}
    /\ call.cleanSeal = Skip
    /\ call.cleanTL # Skip
    /\ stagedTL' \in {stagedTL, call.cleanTL}
    /\ call' = [call EXCEPT !.cleanTL = Skip]
    /\ UNCHANGED <<generation, seal, staged, current, desired, stagedTLHist, servedTL>>

\* A crash, or an I/O error that makes the operation return: the writes already
\* done stay, the others never happen.
Interrupt ==
    /\ call # Idle
    /\ call' = Idle
    /\ UNCHANGED disk

StageWrite ==
    \/ DeleteSeal
    \/ \E n \in Node : WriteStaged(n) \/ DeleteStaged(n)
    \/ WriteHist
    \/ WriteStagedTL
    \/ WriteSeal
    \/ Wake

PromoteWrite ==
    \/ \E n \in Node : GoLive(n) \/ WriteDesired(n)
    \/ WriteServedTL
    \/ Commit

CleanWrite ==
    \/ \E n \in Node : CleanStaged(n)
    \/ CleanHist
    \/ CleanSeal
    \/ CleanStagedTL

StoreStep == StageWrite \/ PromoteWrite \/ CleanWrite

-----------------------------------------------------------------------------
(***************************************************************************)
(* The store on its own: any caller, any arguments.  It starts empty, or as *)
(* a version without seals left it (one promoted generation, a manifest     *)
(* only in the staged slot, no generation tag on the served one).           *)
(***************************************************************************)
BundleOrNone == Bundle \cup {None}
TrustListOrNone == TrustList \cup {None}

StoreInit ==
    /\ seal = None
    /\ stagedTLHist = None
    /\ staged = NoPuts
    /\ call = Idle
    /\ \/ /\ generation = 0
          /\ current = NoPuts
          /\ desired = [n \in Node |-> 0]
          /\ stagedTL = None
          /\ servedTL = None
       \/ /\ generation = 1
          /\ \E c \in Content : current = [n \in Node |-> [gen |-> 1, content |-> c]]
          /\ desired = [n \in Node |-> IF n \in Registered THEN 1 ELSE 0]
          /\ stagedTL \in TrustListOrNone
          /\ servedTL = IF stagedTL = None \/ stagedTL.sig = None THEN None
                        ELSE [man |-> stagedTL.man, sig |-> stagedTL.sig, promoted |-> 0]

\* The candidates of generation next: every node with a content, or absent.
Candidates ==
    {[n \in Node |-> IF c[n] = None THEN None ELSE [gen |-> next, content |-> c[n]]] :
        c \in [Node -> Content \cup {None}]}

StoreCall ==
    \/ \E n \in Node, c \in Content, g \in {generation, next} \ {0} :
          StageBundle(n, [gen |-> g, content |-> c])
    \/ \E bundles \in Candidates, sl \in TrustListOrNone : ReplaceStagedSet(bundles, sl)
    \/ ReplaceStagedSetEmpty
    \/ \E keep \in SUBSET Node : PruneStagedBundles(keep)
    \/ PromoteStaged
    \/ BumpGeneration
    \/ \E sl \in TrustList : PutSignedTrustList(sl)

StoreNext == StoreCall \/ StoreStep \/ Interrupt

StoreSpec == StoreInit /\ [][StoreNext]_storeVars

-----------------------------------------------------------------------------
(***************************************************************************)
(* Properties.                                                              *)
(***************************************************************************)

\* Every record and the plan in flight have the shape the code gives them.
StoreTypeOK ==
    /\ generation \in Nat
    /\ seal \in stagedSetSeal \cup {None}
    /\ staged \in [Node -> BundleOrNone]
    /\ current \in [Node -> BundleOrNone]
    /\ desired \in [Node -> Nat]
    /\ stagedTL \in TrustListOrNone
    /\ stagedTLHist \in TrustListOrNone
    /\ servedTL \in ServedTrustList \cup {None}
    /\ call \in Plan

\* "Loose files are never deployment authority": at every instant, in the middle
\* of an operation too, a seal on disk names the manifest in the staged slot, and
\* one for the next generation names exactly the staged bundles of that
\* generation.  So no crash leaves PromoteStaged a seal that lies.
SealTruthful ==
    seal # None =>
        /\ sealedTrustListMatches
        /\ ~seal.historical /\ seal.gen = next => StagedFor(staged, next) = seal.nodes

Uncommitted == ServedAhead \/ \E n \in Node : Ahead(n)

ServedOf(sl) == [man |-> sl.man, sig |-> sl.sig, promoted |-> next]

\* "A crash before that final promote commit remains retryable": when live records
\* are ahead of generation.json and no operation runs, PromoteStaged's own checks
\* pass, and what is ahead is what the retry will write again.
InterruptedPromotionRetryable ==
    call = Idle /\ Uncommitted =>
        /\ Promotable
        /\ \A n \in Node : Ahead(n) => n \in seal.nodes /\ current[n] = staged[n]
        /\ ServedAhead => seal.man # None /\ servedTL = ServedOf(stagedTL)

\* No record "hitchhikes on an unrelated commit": the counter moves by one, and the
\* live records of the new generation are then either none (a wake) or all of the
\* sealed candidate's, registry records and signed manifest included.
CommitExact ==
    LET fresh == {n \in Node : current[n] # None /\ current[n].gen = next} IN
    generation' # generation =>
        /\ generation' = next
        /\ \/ fresh = {} /\ ~ServedAhead
           \/ /\ seal # None
              /\ fresh = seal.nodes
              /\ \A n \in fresh : current[n] = staged[n]
              /\ \A n \in fresh \cap Registered : desired[n] = next
              /\ seal.man # None /\ stagedTL.sig # None => servedTL = ServedOf(stagedTL)
              /\ seal.man = None \/ stagedTL.sig = None => ~ServedAhead

CommitIsExact == [][CommitExact]_storeVars
=============================================================================
