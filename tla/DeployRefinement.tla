------------------------- MODULE DeployRefinement --------------------------
(***************************************************************************)
(* StagedStore as an implementation of AtomicDeploy: what GetServedConfig   *)
(* can answer (a bundle, or a refusal while it is ahead of the counter).    *)
(***************************************************************************)
EXTENDS StagedStore

Deploy == INSTANCE AtomicDeploy WITH
    Withheld <- Skip,
    gen <- generation,
    config <- [n \in Node |-> IF Ahead(n) THEN Skip ELSE current[n]],
    trust <- IF servedTL = None THEN None
             ELSE IF ServedAhead THEN Skip
             ELSE [man |-> servedTL.man, sig |-> servedTL.sig],
    target <- IF Uncommitted
              THEN [bundles |-> [n \in seal.nodes |-> staged[n]],
                    trust |-> IF seal.man # None /\ stagedTL.sig # None
                              THEN stagedTL ELSE None]
              ELSE None

\* Interrupted or not, the writes of the store only ever show agents a whole promotion.
ImplementsAtomicDeploy == Deploy!Spec
=============================================================================
