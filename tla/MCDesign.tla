------------------------------ MODULE MCDesign ------------------------------
(***************************************************************************)
(* From a design to what nodes run, for TLC: the stored topology, the      *)
(* allocation and its pins, the derivation of peers, and telemetry policy. *)
(* The scenario chosen in the initial state is the one that moves, the     *)
(* others keep an initial state.                                           *)
(***************************************************************************)
EXTENDS TopologyStore, TLC

CONSTANTS n1, n2

VARIABLES
    scenario,
    design, enrolled,
    node, edges,
    draft, ready, keystone, level, cred, advert, served, pending, applied, active,
    omitted, outcome, regressed, budget

-----------------------------------------------------------------------------
(* Allocation: three nodes, two ports a node, three pairs a pool.            *)

Wire(a, b, backup) == [from |-> a, to |-> b, backup |-> backup]
Nowhere == [from |-> <<0, 0, 0>>, to |-> <<0, 0, 0>>]
Pins(port, transit, ll) == [port |-> port, transit |-> transit, ll |-> ll]
Span(pool, i, j) == [from |-> <<pool, i, 0>>, to |-> <<pool, j, 0>>]

\* A pair drawn in both directions and another link of node 1.
BothWays == INSTANCE Allocation WITH
    ready <- enrolled, N <- 3,
    Wires <- <<Wire(2, 1, FALSE), Wire(1, 2, FALSE), Wire(1, 3, FALSE)>>,
    InitRole <- [n \in 1 .. 3 |-> "router"], Flippable <- {}, Domain <- [n \in 1 .. 3 |-> 1],
    Hosts <- 3, Pairs <- 3, PortBase <- 2, PortMax <- 3, Churn <- {3},
    Statuses <- {"off", "on"},
    Imports <- {}

\* Two links, and saved designs with a misaligned transit pair.
Misaligned == INSTANCE Allocation WITH
    ready <- enrolled, N <- 3,
    Wires <- <<Wire(1, 2, FALSE), Wire(1, 3, FALSE)>>,
    InitRole <- [n \in 1 .. 3 |-> "router"], Flippable <- {}, Domain <- [n \in 1 .. 3 |-> 1],
    Hosts <- 3, Pairs <- 3, PortBase <- 2, PortMax <- 3, Churn <- {3},
    Statuses <- {"off", "on"},
    Imports <- {Pins([from |-> 0, to |-> 0], Span(1, 2, 3), Nowhere)}

\* A pair with a backup link and a node that becomes a client; pasted pins that
\* an allocated link may hold too, or that the validator refuses.
Roles == INSTANCE Allocation WITH
    ready <- enrolled, N <- 3,
    Wires <- <<Wire(1, 2, FALSE), Wire(1, 2, TRUE), Wire(3, 1, FALSE)>>,
    InitRole <- [n \in 1 .. 3 |-> "router"], Flippable <- {3}, Domain <- [n \in 1 .. 3 |-> 1],
    Hosts <- 3, Pairs <- 3, PortBase <- 2, PortMax <- 3, Churn <- {2},
    Statuses <- {"absent", "on"},
    Imports <- {Pins([from |-> 2, to |-> 2], Span(1, 1, 2), Span(0, 1, 2)),
                Pins([from |-> 1, to |-> 0], Nowhere, Nowhere)}

-----------------------------------------------------------------------------
(* PeerDerivation: two nodes with every kind of edge between them; and four  *)
(* nodes, one of them a client, whose names may collide.                     *)

Kind(role, pub, eps) == [role |-> role, pub |-> pub, eps |-> eps, acc |-> FALSE]
Natted == Kind("peer", FALSE, FALSE)
Public == Kind("router", TRUE, TRUE)
Phone == Kind("client", FALSE, FALSE)

Edge(from, to, role, host, port, dir, transport) ==
    [from |-> from, to |-> to, role |-> role, host |-> host, port |-> port, dir |-> dir,
     transport |-> transport, on |-> TRUE]

PairEdges ==
    {Edge(d[1], d[2], rh[1], rh[2], rh[3], "both", "udp") :
       d \in {<<"a", "b">>, <<"b", "a">>},
       rh \in {<<"", FALSE, FALSE>>, <<"", TRUE, FALSE>>, <<"", TRUE, TRUE>>}}
    \cup {Edge("a", "b", "backup", TRUE, port, "both", "udp") : port \in BOOLEAN}
    \cup {Edge(d[1], d[2], "", TRUE, FALSE, "forward", "udp") : d \in {<<"a", "b">>, <<"b", "a">>}}
    \cup {Edge("a", "b", "primary", TRUE, FALSE, "both", "tcp"),
          [Edge("b", "a", "primary", TRUE, FALSE, "both", "tcp") EXCEPT !.on = FALSE],
          Edge("b", "a", "primary", TRUE, FALSE, "both", "udp")}

NetEdges ==
    {Edge("k", d, role, host, FALSE, "both", "udp") :
       d \in {"a", "c"}, role \in {"", "backup"}, host \in BOOLEAN}
    \cup {Edge("k", "a", "", TRUE, FALSE, "both", "tcp"),
          Edge("c", "a", "", TRUE, FALSE, "both", "udp")}
    \cup {Edge(d[1], d[2], role, TRUE, FALSE, "both", "udp") :
       d \in {<<"a", "b">>, <<"b", "a">>, <<"b", "k">>}, role \in {"", "backup"}}

Two == INSTANCE PeerDerivation WITH
    NodeMenu <- [{"a", "b"} -> {Natted, Public}], EdgeMenu <- PairEdges,
    Short <- [n \in {"a", "b"} |-> <<n, 0>>],
    Hashed <- [n \in {"a", "b"} |-> [i \in 1 .. 4 |-> <<n, i>>]],
    MaxEdges <- 3, MaxInterfaces <- 3

\* The hash of edge 3 collides with that of edge 1, and the name of c with a
\* backup name of b.
Net == INSTANCE PeerDerivation WITH
    NodeMenu <- {("a" :> Public @@ "b" :> k @@ "c" :> Natted @@ "k" :> Phone) :
                   k \in {Natted, Public}},
    EdgeMenu <- NetEdges,
    Short <- [n \in {"a", "b", "c", "k"} |-> IF n = "c" THEN <<"b", 2>> ELSE <<n, 0>>],
    Hashed <- [n \in {"a", "b", "c", "k"} |->
                 [i \in 1 .. 4 |-> <<n, IF i = 3 THEN 1 ELSE i>>]],
    MaxEdges <- 4, MaxInterfaces <- 3

-----------------------------------------------------------------------------
(* TelemetryPolicy: a TCP probe, a URL probe with the default or an explicit *)
(* status, device telemetry, and drafts that do not validate; every binary   *)
(* on one node, or two nodes that upgrade independently.                     *)

tcp == [id |-> 1, type |-> "tcp", status |-> 0, interval |-> 0, name |-> "gateway"]
url == [id |-> 2, type |-> "url", status |-> 0, interval |-> 30, name |-> ""]
teapot == [id |-> 2, type |-> "url", status |-> 418, interval |-> 0, name |-> "pot"]
hasty == [id |-> 3, type |-> "tcp", status |-> 0, interval |-> 10, name |-> ""]
Policy(probes, devices) == [probes |-> probes, devices |-> devices]

AllDrafts ==
    {Policy({}, "none"), Policy({tcp, url}, "none"), Policy({tcp}, "all-eligible"),
     Policy({teapot}, "all-eligible"), Policy({hasty}, "none"), Policy({url, teapot}, "none"),
     Policy({}, "some")}

OneNode == INSTANCE TelemetryPolicy WITH
    Nodes <- {n1}, Drafts <- AllDrafts, Levels <- {0, 1, 3}, NewLevel <- 3,
    MaxEdits <- 2, MaxFaults <- 2
Fleet == INSTANCE TelemetryPolicy WITH
    Nodes <- {n1, n2}, Drafts <- {Policy({tcp, url}, "none")}, Levels <- {1, 3}, NewLevel <- 3,
    MaxEdits <- 1, MaxFaults <- 0

-----------------------------------------------------------------------------
allocationVars == <<design, enrolled>>
peerVars == <<node, edges>>
policyVars == <<draft, ready, keystone, level, cred, advert, served, pending, applied, active,
                omitted, outcome, regressed, budget>>
mcVars == <<scenario, vars, allocationVars, peerVars, policyVars>>

MCInit ==
    /\ scenario \in {"stored", "bothways", "misaligned", "roles", "two", "net", "onenode",
                    "fleet"}
    /\ Init /\ (scenario # "stored" => topology = NoRecord)
    /\ CASE scenario = "roles" -> Roles!Init
         [] scenario = "misaligned" -> Misaligned!Init
         [] OTHER -> BothWays!Init
    /\ CASE scenario = "two" -> Two!Init
         [] scenario = "net" -> Net!Init
         [] OTHER -> node = [n \in {"a", "b"} |-> Natted] /\ edges = <<>>
    /\ CASE scenario = "onenode" -> OneNode!Init
         [] scenario = "fleet" -> Fleet!Init
         [] OTHER -> OneNode!Init /\ level = [n \in {n1} |-> 3]

Move ==
    /\ UNCHANGED scenario
    /\ IF scenario = "stored" THEN Next ELSE UNCHANGED vars
    /\ CASE scenario = "bothways" -> BothWays!Next
         [] scenario = "misaligned" -> Misaligned!Next
         [] scenario = "roles" -> Roles!Next
         [] OTHER -> UNCHANGED allocationVars
    /\ CASE scenario = "two" -> Two!Next
         [] scenario = "net" -> Net!Next
         [] OTHER -> UNCHANGED peerVars
    /\ CASE scenario = "onenode" -> OneNode!Next
         [] scenario = "fleet" -> Fleet!Next
         [] OTHER -> UNCHANGED policyVars

MCSpec == MCInit /\ [][Move]_mcVars

-----------------------------------------------------------------------------
(* The properties of the instances, each on the scenarios it is about; the   *)
(* ones of the stored topology are TopologyStore's own.                      *)

\* Allocation: enabled links never share a port, transit or link-local address.
LinksDisjoint ==
    /\ scenario = "bothways" => BothWays!LinksDisjoint
    /\ scenario = "misaligned" => Misaligned!LinksDisjoint
    /\ scenario = "roles" => Roles!LinksDisjoint

\* Allocation: after a stage the edges of one link agree on both ends, links whose driving
\* edge is pinned are not renumbered, and staging again changes nothing.
StageSettles ==
    [][/\ scenario = "bothways" => BothWays!StageSettles
       /\ scenario = "misaligned" => Misaligned!StageSettles
       /\ scenario = "roles" => Roles!StagedLinksAgree]_mcVars

\* PeerDerivation: the two ends of a link mirror each other, an endpoint dials a port the far
\* end binds, names and ports fit, and an accepted client reaches its router.
EndsMeet ==
    /\ scenario = "two" => Two!EndsMeet
    /\ scenario = "net" => Net!InterfacesFit /\ Net!ClientsReachTheirRouter

\* TelemetryPolicy: a node executes exactly what its bundle was compiled from, a normal
\* deployment offers only what the agent can apply, and nothing is left out silently.
PolicyHeld ==
    /\ scenario = "onenode" => OneNode!PolicyHeld
    /\ scenario = "fleet" => Fleet!NormalIsApplicable
=============================================================================
