--------------------------- MODULE AtomicDeploy ---------------------------
(***************************************************************************)
(* What the controller store promises the agents: the configuration a node  *)
(* can fetch changes only when a generation commits, then for all nodes of  *)
(* the promoted set and the trust-list at once.  Before the commit a node   *)
(* of the set may be refused, never shown the new bundle; once one node is  *)
(* refused, the only way on is to commit the very set that was begun.       *)
(***************************************************************************)
EXTENDS Naturals

CONSTANTS Node, Content, Manifest, Sig, None, Withheld

VARIABLES
    gen,     \* the committed generation
    config,  \* what each node is served: its bundle, None, or Withheld
    trust,   \* the manifest served with it, None, or Withheld
    target   \* the set a promotion has begun to publish, or None

vars == <<gen, config, trust, target>>

Bundle == [gen : Nat \ {0}, content : Content]
TrustList == [man : Manifest, sig : Sig \cup {None}]
Target(S) == [bundles : [S -> Bundle], trust : TrustList \cup {None}]

Init ==
    /\ gen \in Nat
    /\ config \in [Node -> Bundle \cup {None}]
    /\ \A n \in Node : config[n] # None => config[n].gen <= gen
    /\ trust \in TrustList \cup {None}
    /\ target = None

\* A promotion of t begins or goes on: node n is refused until it commits.
Withhold(n) ==
    /\ \E S \in SUBSET Node : target' \in Target(S)
    /\ target # None => target' = target
    /\ n \in DOMAIN target'.bundles
    /\ \A m \in DOMAIN target'.bundles : target'.bundles[m].gen = gen + 1
    /\ config' = [config EXCEPT ![n] = Withheld]
    /\ UNCHANGED <<gen, trust>>

WithholdTrust ==
    /\ target # None
    /\ target.trust # None
    /\ trust' = Withheld
    /\ UNCHANGED <<gen, config, target>>

Commit ==
    /\ target # None
    /\ \A n \in Node : config[n] = Withheld <=> n \in DOMAIN target.bundles
    /\ target.trust # None => trust = Withheld
    /\ gen' = gen + 1
    /\ config' = [n \in Node |-> IF n \in DOMAIN target.bundles
                                 THEN target.bundles[n] ELSE config[n]]
    /\ trust' = IF target.trust = None THEN trust ELSE target.trust
    /\ target' = None

\* A generation that deploys nothing (rekey-all).
Wake ==
    /\ target = None
    /\ gen' = gen + 1
    /\ UNCHANGED <<config, trust, target>>

Next == (\E n \in Node : Withhold(n)) \/ WithholdTrust \/ Commit \/ Wake

Spec == Init /\ [][Next]_vars
=============================================================================
