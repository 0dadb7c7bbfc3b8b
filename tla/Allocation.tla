------------------------------ MODULE Allocation ------------------------------
(***************************************************************************)
(* How a stored design keeps its allocations while the fleet grows.        *)
(*                                                                         *)
(* A design is a list of edges, the roles of the nodes and their overlay   *)
(* addresses. Every edge carries the "pins" an earlier compile wrote back: *)
(* a listen port, a transit address and a link-local address per side. An  *)
(* operator's save heals colliding pins (HealCollidingPins). A stage heals *)
(* again, projects the design on the nodes that are ready                  *)
(* (enrolledSubgraph), validates that subgraph, reserves every pin in      *)
(* sight and fills the gaps from the lowest free slot of each pool         *)
(* (preallocateLinkResources), and writes the result back into the whole   *)
(* design (persistAllocations).                                            *)
(*                                                                         *)
(* A stage and a save hold the tenant lock, so each is one step here; the  *)
(* node registry moves independently (Enroll, Revoke).                     *)
(***************************************************************************)
EXTENDS Integers, Sequences, FiniteSets, SequencesExt

CONSTANTS
  N,         \* the nodes are 1..N, in the order of their IDs and of topo.Nodes
  Wires,     \* topo.Edges: [from, to, backup]; an edge's ID is its index
  InitRole,  \* the roles the first design gives the nodes
  Flippable, \* the nodes whose role the operator changes
  Domain,    \* Domain[n]: n's domain, hence its overlay CIDR and transit pool
  Hosts,     \* assignable overlay addresses of a domain
  Pairs,     \* address pairs of a transit pool
  PortBase,  \* WGListenPortBase
  PortMax,   \* the last port (65535)
  Churn,     \* the nodes that enroll and are revoked; the others are ready
  Statuses,  \* what saves make of an edge, of "absent", "off" and "on"
  Imports    \* sets of pins that saved designs may carry

Node == 1..N
Slot == DOMAIN Wires
Side == {"from", "to"}
None == <<0, 0, 0>>

(* An address is <<pool, number, spelling>>. The compiler writes spelling  *)
(* 0; an operator's file may spell the same address differently.           *)
canonicalIP(a) == <<a[1], a[2]>>

Unpinned == [port    |-> [from |-> 0, to |-> 0],
             transit |-> [from |-> None, to |-> None],
             ll      |-> [from |-> None, to |-> None]]

(* design: [role, edge, ip]; an edge is absent, disabled ("off") or "on".  *)
VARIABLES design, ready

vars == <<design, ready>>

-----------------------------------------------------------------------------
(* Link identity: the primary-class edges of a pair are one link, every    *)
(* backup edge is a link of its own.                                       *)
LinkKey(s) ==
  LET w == Wires[s]
  IN  <<IF w.from < w.to THEN w.from ELSE w.to,
        IF w.from < w.to THEN w.to ELSE w.from,
        IF w.backup THEN s ELSE 0>>

KeyLess(j, k) ==
  \/ j[1] < k[1]
  \/ j[1] = k[1] /\ j[2] < k[2]
  \/ j[1] = k[1] /\ j[2] = k[2] /\ j[3] < k[3]

(* All edges in the order of their links, ties in slice order.             *)
LinkOrder ==
  SortSeq([s \in Slot |-> s],
          LAMBDA s, t : KeyLess(LinkKey(s), LinkKey(t))
                        \/ (LinkKey(s) = LinkKey(t) /\ s < t))

On(d) == {s \in Slot : d.edge[s].st = "on"}

(* The sides of an edge that own a per-link interface: a client has wg0.   *)
Sides(d, s) == {x \in Side : d.role[Wires[s][x]] # "client"}

PortsPinned(d, s) ==
  /\ Sides(d, s) # {}
  /\ \A x \in Sides(d, s) : d.edge[s].pin.port[x] > 0

PairPinned(pair) == pair["from"] # None /\ pair["to"] # None

PortsOf(d, s) ==
  IF PortsPinned(d, s)
  THEN {<<Wires[s][x], d.edge[s].pin.port[x]>> : x \in Sides(d, s)} ELSE {}

Addresses(pair) == IF PairPinned(pair) THEN {pair[x] : x \in Side} ELSE {}

(* What an edge occupies, by value: the claims of the heal, which are also *)
(* the duplicates the validator refuses across links.                      *)
Claims(d, s) ==
  LET p == d.edge[s].pin
  IN  {<<"port", r>> : r \in PortsOf(d, s)}
      \cup {<<"transit", canonicalIP(a)>> : a \in Addresses(p.transit)}
      \cup {<<"ll", canonicalIP(a)>> : a \in Addresses(p.ll)}

-----------------------------------------------------------------------------
(* The client endpoint of an edge owns no port, enabled or not.            *)
ClearClientPorts(d) ==
  [d EXCEPT !.edge = [s \in Slot |->
     [d.edge[s] EXCEPT !.pin.port =
        [x \in Side |-> IF x \in Sides(d, s) THEN @[x] ELSE 0]]]]

stripPins(d, s) == [d EXCEPT !.edge[s].pin = Unpinned]

HealCollidingPins(d) ==
  LET Heal(acc, s) ==
        IF \E c \in Claims(acc.d, s) : \E o \in acc.owner :
              o[1] = c /\ o[2] # LinkKey(s)
        THEN [acc EXCEPT !.d = stripPins(@, s)]
        ELSE [acc EXCEPT !.owner =
                @ \cup {<<c, LinkKey(s)>> : c \in Claims(acc.d, s)}]
      cleared == ClearClientPorts(d)
  IN  FoldLeft(Heal, [d |-> cleared, owner |-> {}],
               SelectSeq(LinkOrder, LAMBDA s : s \in On(cleared))).d

-----------------------------------------------------------------------------
(* The ready subgraph: the enrolled nodes, less the clients none of whose  *)
(* enabled outbound edges leads to a ready node, examined in node order.   *)
clientTargetEnrolled(d, n, rdy) ==
  \E s \in On(d) : Wires[s].from = n /\ Wires[s].to \in rdy

enrolledSubgraph(d, rdy) ==
  LET Drop(acc, n) ==
        IF n \in acc /\ d.role[n] = "client" /\ ~clientTargetEnrolled(d, n, acc)
        THEN acc \ {n} ELSE acc
      nodes == FoldLeft(Drop, rdy, [n \in Node |-> n])
  IN  [nodes |-> nodes,
       edges |-> {s \in On(d) : Wires[s].from \in nodes /\ Wires[s].to \in nodes}]

(* Exactly one enabled edge leaves a client, to a node that is not one,    *)
(* and none enters it or backs it up.                                      *)
validateClientEdges(d, sub) ==
  /\ \A s \in sub.edges : d.role[Wires[s].to] # "client"
  /\ \A s \in sub.edges : d.role[Wires[s].from] = "client" => ~Wires[s].backup
  /\ \A n \in sub.nodes : d.role[n] = "client" =>
       Cardinality({s \in sub.edges : Wires[s].from = n}) = 1

edgeTransitCIDR(s) == Domain[Wires[s].from]

validateAllocationPins(d, sub) ==
  /\ \A s \in sub.edges :
       LET p == d.edge[s].pin
           both == Sides(d, s) = Side
       IN  /\ \A x \in Side \ Sides(d, s) : p.port[x] = 0
           /\ both => (p.port["from"] = 0) = (p.port["to"] = 0)
           /\ (p.transit["from"] = None) = (p.transit["to"] = None)
           /\ (p.ll["from"] = None) = (p.ll["to"] = None)
           /\ \A x \in Side : p.port[x] <= PortMax
           /\ \A a \in Addresses(p.transit) : a[1] = edgeTransitCIDR(s)
  /\ \A s, t \in sub.edges :
       s < t /\ LinkKey(s) # LinkKey(t) => Claims(d, s) \cap Claims(d, t) = {}

validateIPSemantics(d, sub) ==
  \A m, n \in sub.nodes : m # n /\ d.ip[m] # None => d.ip[m] # d.ip[n]

Valid(d, sub) ==
  /\ validateClientEdges(d, sub)
  /\ validateAllocationPins(d, sub)
  /\ validateIPSemantics(d, sub)

-----------------------------------------------------------------------------
(* Overlay addresses: the lowest free host for every node of the subgraph  *)
(* that has none. NoIPs marks an exhausted CIDR.                           *)
allocateFromCIDR(dom, used) ==
  LET free == {h \in 1..Hosts : <<dom, h, 0>> \notin used}
  IN  IF free = {} THEN None
      ELSE <<dom, CHOOSE h \in free : \A g \in free : h <= g, 0>>

AllocateIPs(d, sub) ==
  LET Give(acc, n) ==
        IF n \notin sub.nodes \/ acc[n] # None THEN acc
        ELSE [acc EXCEPT ![n] =
               allocateFromCIDR(Domain[n], {acc[m] : m \in sub.nodes})]
  IN  FoldLeft(Give, d.ip, [n \in Node |-> n])

-----------------------------------------------------------------------------
(* Reservations are the strings themselves, transit ones per CIDR.         *)
PinUse(d, s, cidrs) ==
  LET p == d.edge[s].pin
  IN  [port    |-> PortsOf(d, s),
       transit |-> cidrs \X Addresses(p.transit),
       ll      |-> Addresses(p.ll)]

Join(U) == [port    |-> UNION {u.port : u \in U},
            transit |-> UNION {u.transit : u \in U},
            ll      |-> UNION {u.ll : u \in U}]

(* MUTANT: edges outside the subgraph reserve nothing.                     *)
ReserveNothing(d, sub) == [port |-> {}, transit |-> {}, ll |-> {}]

(* The pins of the enabled edges that the subgraph leaves out, in the      *)
(* pools of both endpoints.                                                *)
BuildReservedFromExcludedEdges(d, sub) ==
  Join({PinUse(d, s, {Domain[Wires[s].from], Domain[Wires[s].to]}) :
          s \in On(d) \ sub.edges})

lowestFreePort(n, used) ==
  LET free == {p \in PortBase..PortMax : <<n, p>> \notin used}
  IN  IF free = {} THEN 0 ELSE CHOOSE p \in free : \A q \in free : p <= q

(* The first pair of a pool (pool 0 is fe80::/10, which never runs out)    *)
(* with both ends free, or a pair of None.                                 *)
GapFillPair(pool, pairs, used) ==
  LET a(i) == <<pool, 2 * i + 1, 0>>
      b(i) == <<pool, 2 * i + 2, 0>>
      free == {i \in 0..(pairs - 1) : a(i) \notin used /\ b(i) \notin used}
      i == CHOOSE i \in free : \A j \in free : i <= j
  IN  IF free = {} THEN [from |-> None, to |-> None]
      ELSE [from |-> a(i), to |-> b(i)]

gapFillTransitPair(cidr, used) ==
  GapFillPair(cidr, Pairs, {u[2] : u \in {v \in used : v[1] = cidr}})

gapFillLinkLocalPair(used) == GapFillPair(0, 2 * Len(Wires) + 1, used)

(* groupLinks: a link is driven by the first edge of the slice that has    *)
(* its key.                                                                *)
Driver(sub, s) ==
  CHOOSE t \in sub.edges :
    /\ LinkKey(t) = LinkKey(s)
    /\ \A u \in sub.edges : LinkKey(u) = LinkKey(s) => t <= u

Drivers(sub) == {s \in sub.edges : Driver(sub, s) = s}

(* What a link starts from: every resource its driving edge has pinned.    *)
pinnedAllocation(d, s) ==
  LET p == d.edge[s].pin
      Keep(pair) == IF PairPinned(pair) THEN pair ELSE Unpinned.ll
  IN  [port    |-> IF PortsPinned(d, s) THEN p.port ELSE Unpinned.port,
       transit |-> Keep(p.transit),
       ll      |-> Keep(p.ll)]

ReserveAllPins(d, sub, reserved) ==
  Join({reserved} \cup {PinUse(d, s, {Domain[Wires[s].from]}) : s \in Drivers(sub)})

preallocateLinkResources(d, sub, reserved) ==
  LET Fill(acc, s) ==
        LET p == pinnedAllocation(d, s)
            cidr == Domain[Wires[s].from]
            pin == [port    |-> IF p.port # Unpinned.port THEN p.port
                                ELSE [x \in Side |->
                                  IF x \in Sides(d, s)
                                  THEN lowestFreePort(Wires[s][x], acc.used.port)
                                  ELSE 0],
                    transit |-> IF PairPinned(p.transit) THEN p.transit
                                ELSE gapFillTransitPair(cidr, acc.used.transit),
                    ll      |-> IF PairPinned(p.ll) THEN p.ll
                                ELSE gapFillLinkLocalPair(acc.used.ll)]
        IN  [used |-> Join({acc.used,
                            PinUse([d EXCEPT !.edge[s].pin = pin], s, {cidr})}),
             pin  |-> [acc.pin EXCEPT ![s] = pin]]
  IN  FoldLeft(Fill, [used |-> ReserveAllPins(d, sub, reserved),
                      pin  |-> [s \in Slot |-> d.edge[s].pin]],
               SelectSeq(LinkOrder, LAMBDA s : s \in Drivers(sub))).pin

(* A resource that could not be filled: the compile fails.                 *)
Exhausted(d, s, pin) ==
  \/ \E x \in Sides(d, s) : pin.port[x] = 0
  \/ ~PairPinned(pin.transit)

Other(x) == IF x = "from" THEN "to" ELSE "from"

(* MUTANT: the write-back ignores the direction of the edge.               *)
StraightThrough(pin, isForward) == pin

oriented(pin, isForward) ==
  IF isForward THEN pin
  ELSE [r \in DOMAIN pin |-> [x \in Side |-> pin[r][Other(x)]]]

(* CompileSubgraphWithSigner on a healed design: a failure, or the pins    *)
(* of the subgraph's edges, each oriented by its own direction, and the    *)
(* overlay addresses of its nodes.                                         *)
Compile(d, sub) ==
  LET reserved == BuildReservedFromExcludedEdges(d, sub)
      pin == preallocateLinkResources(d, sub, reserved)
      ip == AllocateIPs(d, sub)
      Back(s) == LET t == Driver(sub, s)
                 IN  oriented(pin[t], Wires[t].from = Wires[s].from)
  IN  [ok  |-> /\ Valid(d, sub)
               /\ \A s \in Drivers(sub) : ~Exhausted(d, s, pin[s])
               /\ \A n \in sub.nodes : ip[n] # None,
       pin |-> [s \in sub.edges |-> Back(s)],
       ip  |-> ip]

(* The compiled values of the subgraph, in the healed whole design.        *)
persistAllocations(d, sub, c) ==
  [d EXCEPT !.ip = [n \in Node |-> IF n \in sub.nodes THEN c.ip[n] ELSE d.ip[n]],
            !.edge = [s \in Slot |->
               IF s \in sub.edges THEN [d.edge[s] EXCEPT !.pin = c.pin[s]]
               ELSE d.edge[s]]]

-----------------------------------------------------------------------------
Init ==
  /\ design = [role |-> InitRole,
               edge |-> [s \in Slot |-> [st |-> "absent", pin |-> Unpinned]],
               ip   |-> [n \in Node |-> None]]
  /\ ready = Node \ Churn

HandleUpdateTopology(d) ==
  /\ design' = HealCollidingPins(d)
  /\ UNCHANGED ready

(* The operator adds, enables, disables or deletes an edge, pastes pins    *)
(* on one, or changes the role of a node, and saves.                       *)
DrawEdge(s, st) ==
  /\ st # design.edge[s].st
  /\ HandleUpdateTopology(
       [design EXCEPT !.edge[s] =
          [st |-> st, pin |-> IF st = "absent" THEN Unpinned ELSE @.pin]])

PastePins(s, pin) ==
  /\ design.edge[s].st # "absent"
  /\ HandleUpdateTopology([design EXCEPT !.edge[s].pin = pin])

ChangeRole(n) ==
  HandleUpdateTopology(
    [design EXCEPT !.role[n] = IF @ = "client" THEN "router" ELSE "client"])

Enroll(n) == n \notin ready /\ ready' = ready \cup {n} /\ UNCHANGED design

Revoke(n) == n \in ready /\ ready' = ready \ {n} /\ UNCHANGED design

(* CompileAndStage up to the write-back. An empty subgraph, a design the   *)
(* validator refuses and an exhausted pool leave the stored design alone.  *)
CompileAndStage ==
  LET d == HealCollidingPins(design)
      sub == enrolledSubgraph(d, ready)
      c == Compile(d, sub)
  IN  /\ sub.nodes # {}
      /\ c.ok
      /\ design' = persistAllocations(d, sub, c)
      /\ UNCHANGED ready

Next ==
  \/ \E s \in Slot : \E st \in Statuses : DrawEdge(s, st)
  \/ \E s \in Slot : \E pin \in Imports : PastePins(s, pin)
  \/ \E n \in Flippable : ChangeRole(n)
  \/ \E n \in Churn : Enroll(n) \/ Revoke(n)
  \/ CompileAndStage

Spec == Init /\ [][Next]_vars

-----------------------------------------------------------------------------
(* A stage draws no edge and changes no role.                              *)
Staged ==
  /\ ready' = ready /\ design'.role = design.role
  /\ \A s \in Slot : design'.edge[s].st = design.edge[s].st
  /\ CompileAndStage

(* Whatever is enrolled, revoked, enabled, disabled, pasted or flipped     *)
(* between the stages, two enabled links of the stored design never hold   *)
(* the same port of a node, transit address or link-local address: stages  *)
(* compile different subgraphs, so a new link must avoid the pins of edges *)
(* that the compiler does not see (BuildReservedFromExcludedEdges), and a  *)
(* save must heal what a re-enabled edge brings back (HealCollidingPins).  *)
LinksDisjoint ==
  \A s, t \in On(design) :
    LinkKey(s) # LinkKey(t) => Claims(design, s) \cap Claims(design, t) = {}

(* A stage leaves every edge of its subgraph fully pinned, and the edges   *)
(* of one link hold the same pair of ends seen from both directions.       *)
StagedLinksAgree ==
  Staged =>
    LET sub == enrolledSubgraph(HealCollidingPins(design), ready)
    IN  \A s, t \in sub.edges :
          LinkKey(s) = LinkKey(t) =>
            /\ PairPinned(design'.edge[s].pin.transit)
            /\ PortsPinned(design', s)
            /\ \A x, y \in Side : Wires[s][x] = Wires[t][y] =>
                 \A r \in {"port", "transit", "ll"} :
                   design'.edge[s].pin[r][x] = design'.edge[t].pin[r][y]

(* Staging again right after a stage is accepted and changes nothing: the  *)
(* compiler accepts its own output, and the byte-identical write-back      *)
(* consumes no version of the bounded topology history.                    *)
StageIsIdempotent ==
  Staged =>
    LET sub == enrolledSubgraph(design', ready)
        c == Compile(design', sub)
    IN  HealCollidingPins(design') = design' /\ c.ok
        /\ persistAllocations(design', sub, c) = design'

(* A stage never renumbers a link whose driving edge is pinned, whatever   *)
(* was added or enabled since: the sticky pins of a healed design survive. *)
DrivingPinsStick ==
  Staged =>
    LET d == HealCollidingPins(design)
        sub == enrolledSubgraph(d, ready)
    IN  \A s \in Drivers(sub) :
          /\ PortsPinned(d, s) => design'.edge[s].pin.port = d.edge[s].pin.port
          /\ PairPinned(d.edge[s].pin.transit) =>
               design'.edge[s].pin.transit = d.edge[s].pin.transit
          /\ PairPinned(d.edge[s].pin.ll) =>
               design'.edge[s].pin.ll = d.edge[s].pin.ll

(* What a stage writes back: links that agree, stay put, and need no        *)
(* second stage.  A condition on a step.                                   *)
StageSettles == StagedLinksAgree /\ StageIsIdempotent /\ DrivingPinsStick
===============================================================================
