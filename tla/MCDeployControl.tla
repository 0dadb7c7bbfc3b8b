-------------------------- MODULE MCDeployControl --------------------------
(***************************************************************************)
(* DeployControl for TLC.                                                   *)
(***************************************************************************)
EXTENDS DeployControl, TLC

CONSTANTS a, b

MCNode == {a, b}

MCMember == {[key |-> "k", dig |-> d] : d \in Content}

MCManifest == [epoch : 0..MaxEpoch, members : Fleet]

\* Four designs an operator moves between: node a appears, changes its bundle and
\* leaves, beside a node b that stays as it is.
DesignFleets ==
    LET m(d) == [key |-> "k", dig |-> d]
        x == CHOOSE d \in Content : TRUE
        y == CHOOSE d \in Content : Content = {x, d}
    IN {EmptyFleet, b :> m(x), (a :> m(x)) @@ (b :> m(x)), (a :> m(y)) @@ (b :> m(x))}

AllFleets == UNION {[S -> Member] : S \in SUBSET Node}

\* Credentials are only compared with one another.
CredSymmetry == Permutations(Sig)
=============================================================================
