-------------------------- MODULE PeerDerivation ---------------------------
(***************************************************************************)
(* From drawn edges to WireGuard peers: what the semantic validator        *)
(* refuses (internal/validator) and what the compiler then derives         *)
(* (internal/compiler, second pass).  An operator adds edges one by one;   *)
(* every state holds a topology and the invariants speak of its            *)
(* derivation.  Several enabled edges of a node pair fold into one primary *)
(* link, driven by the first; every backup edge is a link of its own.      *)
(*                                                                         *)
(* Allocated values are symbolic: the listen port of a link at a node is   *)
(* the pair of both, and so are its addresses, because module Allocation   *)
(* shows that allocated values never collide.                              *)
(***************************************************************************)
EXTENDS Integers, Sequences, FiniteSets

CONSTANTS
  NodeMenu,      \* assignments of [role, pub, eps, acc] to nodes: has_public_ip,
                 \* public_endpoints present, can_accept_inbound
  EdgeMenu,      \* edges an operator may draw
  MaxEdges,
  MaxInterfaces, \* listen ports from the base to 65535
  Short,         \* the primary interface name of a remote node
  Hashed         \* the backup interface name of a remote node and an edge

VARIABLES node, edges

vars == <<node, edges>>

Nodes == DOMAIN node
Ids == 1..Len(edges)
LeastId(S) == CHOOSE i \in S : \A j \in S : i <= j
GreatestId(S) == CHOOSE i \in S : \A j \in S : i >= j

---------------------------------------------------------------------------
(* linkid *)

IsBackup(e) == e.role = "backup"
PinKey(e) == {e.from, e.to}
LinkKey(i) == [pair |-> PinKey(edges[i]), id |-> IF IsBackup(edges[i]) THEN i ELSE 0]

Enabled == {i \in Ids : edges[i].on}
Links == {LinkKey(i) : i \in Enabled}
primaryEdge(l) == LeastId({i \in Enabled : LinkKey(i) = l})

\* The last enabled primary-class edge of a direction; 0 if there is none.
NoEdge == 0
edgeMap(a, b) ==
  LET S == {i \in Enabled : ~IsBackup(edges[i]) /\ edges[i].from = a /\ edges[i].to = b}
  IN IF S = {} THEN NoEdge ELSE GreatestId(S)

Client(n) == node[n].role = "client"

---------------------------------------------------------------------------
(* The validator.  It runs before capabilities are inferred. *)

validateClientEdges ==
  /\ \A i \in Enabled : ~Client(edges[i].to)
  /\ \A i \in Enabled : Client(edges[i].from) => node[edges[i].to].role # "peer" /\ edges[i].host
  /\ \A n \in Nodes : Client(n) => Cardinality({i \in Enabled : edges[i].from = n}) = 1

validateBackupClientEdges ==
  \A i \in Enabled : IsBackup(edges[i]) => ~Client(edges[i].from) /\ ~Client(edges[i].to)

validateSinglePrimaryPerPair ==
  \A i, j \in Enabled :
    edges[i].role = "primary" /\ edges[j].role = "primary" /\ PinKey(edges[i]) = PinKey(edges[j]) => i = j

validateLinkDirection ==
  \A i \in Enabled :
    edges[i].dir = "forward" =>
      /\ ~Client(edges[i].from) /\ ~Client(edges[i].to)
      /\ ~IsBackup(edges[i]) => \A j \in Enabled : LinkKey(j) = LinkKey(i) => j = i
      /\ edges[i].host

canBeDialed(n) == node[n].pub \/ node[n].acc \/ node[n].role = "relay"

hasEnabledEndpointEdge(a, b) ==
  \E i \in Enabled : edges[i].from = a /\ edges[i].to = b /\ edges[i].host

\* The edges refused as provably dead; every other finding about NAT is a
\* warning.  All edges of the model have type direct.
DeadEdge(i) ==
  LET a == edges[i].from
      b == edges[i].to
  IN /\ ~node[a].pub /\ ~node[b].pub /\ ~edges[i].host
     /\ ~hasEnabledEndpointEdge(b, a)
     /\ ~canBeDialed(a) /\ ~canBeDialed(b)

validateNATReachability == \A i \in Enabled : ~DeadEdge(i)

\* The validator computes the name of each end of each link as the compiler will.
WgInterfaceName(remote, i, backup) == IF backup THEN Hashed[remote][i] ELSE Short[remote]

Ends(l) == {edges[primaryEdge(l)].from, edges[primaryEdge(l)].to}
Other(l, n) == CHOOSE m \in Ends(l) : m # n

validateInterfaceNameUniqueness ==
  \A n \in {m \in Nodes : ~Client(m)} : \A k, l \in {l \in Links : n \in Ends(l)} :
    k # l => WgInterfaceName(Other(k, n), k.id, k.id # 0) # WgInterfaceName(Other(l, n), l.id, l.id # 0)

validateEffectivePortRanges ==
  \A n \in Nodes : ~Client(n) => Cardinality({l \in Links : n \in Ends(l)}) <= MaxInterfaces

ValidateSemantic ==
  /\ validateClientEdges /\ validateBackupClientEdges
  /\ validateSinglePrimaryPerPair /\ validateLinkDirection
  /\ validateNATReachability
  /\ validateInterfaceNameUniqueness /\ validateEffectivePortRanges

---------------------------------------------------------------------------
(* The compiler *)

\* InferCapabilitiesFromRole
HasPublicIP(n) == node[n].pub \/ node[n].eps
CanAcceptInbound(n) ==
  CASE node[n].role = "relay" -> TRUE
    [] node[n].role = "client" -> FALSE
    [] node[n].role = "router" -> node[n].acc \/ HasPublicIP(n)
    [] OTHER -> node[n].acc

NoEndpoint == [host |-> <<"none", 0>>, port |-> <<"none", 0>>]
Allocated(l, n) == <<"allocated", [link |-> l, node |-> n]>>
OverridePort(i) == <<"override", i>>

\* An edge's host with its override port, or with the port the far end of the
\* link allocated.
EdgeEndpoint(i, l, far) ==
  IF ~edges[i].host THEN NoEndpoint
  ELSE [host |-> <<"edge", i>>, port |-> IF edges[i].port THEN OverridePort(i) ELSE Allocated(l, far)]

effectiveLinkDirection(i) == IF edges[i].dir = "forward" THEN "forward" ELSE "both"

HintedPort(l) ==
  LET i == primaryEdge(l)
      a == edges[i].from
      r == edgeMap(edges[i].to, a)
  IN IF effectiveLinkDirection(i) = "forward" THEN NoEndpoint
     ELSE IF r # NoEdge /\ edges[r].host THEN EdgeEndpoint(r, l, a)
     ELSE IF HasPublicIP(a) /\ node[a].eps
       THEN [host |-> <<"public", a>>, port |-> Allocated([l EXCEPT !.id = 0], a)]
     ELSE NoEndpoint

\* How the to-side dials back.
reverseEndpoint(l) ==
  LET i == primaryEdge(l)
      a == edges[i].from
      r == edgeMap(edges[i].to, a)
  IN IF effectiveLinkDirection(i) = "forward" THEN NoEndpoint
     ELSE IF r # NoEdge /\ edges[r].host THEN EdgeEndpoint(r, l, a)
     ELSE IF HasPublicIP(a) /\ node[a].eps THEN [host |-> <<"public", a>>, port |-> Allocated(l, a)]
     ELSE NoEndpoint

keepalive(l) ==
  LET i == primaryEdge(l)
  IN IF ~CanAcceptInbound(edges[i].from) \/ edgeMap(edges[i].to, edges[i].from) = NoEdge THEN 25 ELSE 0

reverseKeepalive(l) == IF CanAcceptInbound(edges[primaryEdge(l)].to) THEN 0 ELSE 25

isMimicEdge(i) == edges[i].transport = "tcp"

\* One stanza: on the interface of n for link l.
Stanza(l, n, endpoint, alive, client) ==
  LET i == primaryEdge(l)
      m == Other(l, n)
  IN [node |-> n, remote |-> m, link |-> l, endpoint |-> endpoint, keepalive |-> alive, isClientPeer |-> client,
      name |-> WgInterfaceName(m, i, IsBackup(edges[i])), listenPort |-> Allocated(l, n),
      localTransit |-> <<l, n>>, remoteTransit |-> <<l, m>>, mimic |-> isMimicEdge(i)]

routerPeer(l) == Stanza(l, edges[primaryEdge(l)].to, NoEndpoint, 0, TRUE)
peer(l) ==
  LET i == primaryEdge(l)
  IN Stanza(l, edges[i].from, EdgeEndpoint(i, l, edges[i].to), keepalive(l), Client(edges[i].to))
reversePeer(l) == Stanza(l, edges[primaryEdge(l)].to, reverseEndpoint(l), reverseKeepalive(l), FALSE)

LinkPeers(l) ==
  LET i == primaryEdge(l)
  IN IF Client(edges[i].from) THEN {routerPeer(l)}
     ELSE IF Client(edges[i].to) THEN {peer(l)}
     ELSE {peer(l), reversePeer(l)}

buildPeerInfo == UNION {LinkPeers(l) : l \in Links}

\* wg0 of a client, from its first enabled edge.
FirstOut(n) == {i \in Enabled : edges[i].from = n}

DeriveClientConfig(n) ==
  LET i == LeastId(FirstOut(n))
  IN [node |-> n, router |-> edges[i].to, endpoint |-> EdgeEndpoint(i, LinkKey(i), edges[i].to),
      mimic |-> isMimicEdge(i)]

DeriveClientConfigs == {DeriveClientConfig(n) : n \in {m \in Nodes : Client(m) /\ FirstOut(m) # {}}}

---------------------------------------------------------------------------
Init == node \in NodeMenu /\ edges = <<>>

AddEdge ==
  /\ Len(edges) < MaxEdges
  /\ \E e \in EdgeMenu : edges' = Append(edges, e)
  /\ UNCHANGED node

Next == AddEdge

Spec == Init /\ [][Next]_vars

---------------------------------------------------------------------------
(* Properties *)

\* Each link of an accepted topology has one stanza at each end that is not a
\* client, and the two ends agree on each other's addresses and on the transport.
Mirrored ==
  ValidateSemantic =>
    LET P == buildPeerInfo IN
    \A l \in Links : LET Q == {p \in P : p.link = l} IN
      /\ {p.node : p \in Q} = {n \in Ends(l) : ~Client(n)}
      /\ \A p, q \in Q : p # q =>
           /\ p.node = q.remote /\ p.remote = q.node
           /\ p.localTransit = q.remoteTransit /\ p.remoteTransit = q.localTransit
           /\ p.mimic = q.mimic

\* An endpoint whose port the operator did not override dials exactly the port
\* that the far end binds for this very link.
DialsABoundPort ==
  ValidateSemantic =>
    LET P == buildPeerInfo IN
    \A p \in P : p.endpoint.port[1] = "allocated" =>
      \E q \in P : q.link = p.link /\ q.node = p.remote /\ q.listenPort = p.endpoint.port

\* A single-linked edge has one initiator: its from-side dials, through the
\* edge's own host, and its to-side never does.
ForwardOnly ==
  ValidateSemantic =>
    LET P == buildPeerInfo IN
    \A i \in Enabled : edges[i].dir = "forward" =>
      \A p \in P : p.link = LinkKey(i) =>
        IF p.node = edges[i].from THEN p.endpoint.host = <<"edge", i>> ELSE p.endpoint = NoEndpoint

\* A node's interfaces have distinct names and their number fits the ports there
\* are: the validator's own count and names agree with what is compiled.
InterfacesFit ==
  ValidateSemantic =>
    LET P == buildPeerInfo IN
    \A n \in Nodes :
      /\ \A p, q \in P : p.node = n /\ q.node = n /\ p.name = q.name => p = q
      /\ Cardinality({p.listenPort : p \in {q \in P : q.node = n}}) <= MaxInterfaces

\* An accepted client has one tunnel, which reaches a port its router binds for
\* it with the transport the router expects, and no per-peer interface.
ClientsReachTheirRouter ==
  ValidateSemantic =>
    LET P == buildPeerInfo IN
    \A n \in Nodes : Client(n) =>
      /\ \A p \in P : p.node # n
      /\ \E c \in DeriveClientConfigs : c.node = n /\
           \E p \in P :
             /\ p.node = c.router /\ p.remote = n /\ p.isClientPeer /\ p.mimic = c.mimic
             /\ c.endpoint # NoEndpoint
             /\ c.endpoint.port[1] = "allocated" => c.endpoint.port = p.listenPort

\* The two ends of every link meet.
EndsMeet == Mirrored /\ DialsABoundPort /\ ForwardOnly
=============================================================================
