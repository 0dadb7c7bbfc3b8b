--------------------------- MODULE DeviceIdentity ---------------------------
(***************************************************************************)
(* The opaque identities of block devices and GPUs, as the Linux collector *)
(* derives them (internal/agent/device_collector_linux.go).  A device's    *)
(* history hangs on its identity: two devices must never share one, and    *)
(* trouble with one device must not rename another.                        *)
(*                                                                         *)
(* The hash of SeriesID is kept symbolic: an identity is the tuple that is *)
(* hashed, so that two are equal exactly when their framed inputs are.     *)
(* Devices come and go one at a time; every state is one enumeration.      *)
(***************************************************************************)
EXTENDS Integers, Sequences, FiniteSets

CONSTANTS
  Paths,       \* sysfs paths of block devices
  Dir,         \* the parent directory of each path, or None
  Strong,      \* values of wwid, serial and dm uuid attributes
  Partitions,  \* partition numbers; 0 is a whole device
  CardOrder,   \* sysfs paths of GPUs in sorted order
  PCI,         \* the PCI address of each of them
  UUIDs,       \* GPU uuids
  MaxRows,     \* rows of the vendor tool's answer explored
  None

VARIABLES blocks, cards, rows

vars == <<blocks, cards, rows>>

Cards == {CardOrder[i] : i \in 1..Len(CardOrder)}
ToolRows == [uuid : UUIDs \cup {None}, pci : {PCI[c] : c \in Cards} \cup {None}, val : {1, 2}]

Init == blocks = <<>> /\ cards = <<>> /\ rows = {}

Without(f, x) == [y \in DOMAIN f \ {x} |-> f[y]]
With(f, x, v) == [y \in DOMAIN f \cup {x} |-> IF y = x THEN v ELSE f[y]]

PlugBlock ==
  /\ \E b \in Paths, strong \in Strong \cup {None}, part \in Partitions :
       blocks' = With(blocks, b, [strong |-> strong, part |-> part])
  /\ UNCHANGED <<cards, rows>>

UnplugBlock ==
  /\ \E b \in DOMAIN blocks : blocks' = Without(blocks, b)
  /\ UNCHANGED <<cards, rows>>

PlugCard ==
  /\ \E c \in Cards, uuid \in UUIDs \cup {None}, nvidia \in BOOLEAN :
       cards' = With(cards, c, [uuid |-> uuid, nvidia |-> nvidia])
  /\ UNCHANGED <<blocks, rows>>

\* Rows without any identity are malformed and skipped by parseNvidiaCSV.
ToolAnswers ==
  /\ Cardinality(rows) < MaxRows
  /\ \E r \in ToolRows : (r.uuid # None \/ r.pci # None) /\ rows' = rows \cup {r}
  /\ UNCHANGED <<blocks, cards>>

ToolFails ==
  /\ rows' = {}
  /\ UNCHANGED <<blocks, cards>>

Next == PlugBlock \/ UnplugBlock \/ PlugCard \/ ToolAnswers \/ ToolFails

Spec == Init /\ [][Next]_vars

---------------------------------------------------------------------------
(* Block devices: resolveLinuxBlockIdentities. *)

fallbackBlockSeriesID(b) == <<"sysfs-fallback", b>>
partitionID(parentID, n) == <<"partition", parentID, n>>

HasParent(b) == blocks[b].part > 0 /\ Dir[b] \in DOMAIN blocks

\* The preferred source of a block's identity: a strong attribute, its place in
\* its parent, or its path.
identityKind(b) ==
  CASE blocks[b].strong # None -> "strong"
    [] blocks[b].strong = None /\ HasParent(b) -> "partition"
    [] OTHER -> "fallback"

\* Parent directories are proper prefixes, so the recursion ends.
resolve[b \in Paths] ==
  CASE identityKind(b) = "strong" -> <<"strong", blocks[b].strong>>
    [] identityKind(b) = "partition" -> partitionID(resolve[Dir[b]], blocks[b].part)
    [] OTHER -> fallbackBlockSeriesID(b)

\* A resolution is a set of [b, kind, id], one for each block.
Of(m, b) == CHOOSE e \in m : e.b = b
Fallback(b) == [b |-> b, kind |-> "fallback", id |-> fallbackBlockSeriesID(b)]

countBlockSeries(m, id) == Cardinality({e \in m : e.id = id})

\* Colliding candidates fall back to their paths.
Separate(m, candidates) ==
  {IF e.b \in candidates /\ countBlockSeries(m, e.id) > 1 THEN Fallback(e.b) ELSE e : e \in m}

\* Every identity still derived from a parent follows the parent's final one.
recomputePartitionIdentities(m) ==
  LET id[b \in Paths] ==
        IF Of(m, b).kind = "partition"
          THEN partitionID(id[Dir[b]], blocks[b].part) ELSE Of(m, b).id
  IN {[e EXCEPT !.id = id[e.b]] : e \in m}

OnePass ==
  LET first == {[b |-> b, kind |-> identityKind(b), id |-> resolve[b]] : b \in DOMAIN blocks}
  IN recomputePartitionIdentities(Separate(first, {b \in DOMAIN blocks : blocks[b].part = 0}))

resolveLinuxBlockIdentities ==
  LET first == {[b |-> b, kind |-> identityKind(b), id |-> resolve[b]] : b \in DOMAIN blocks}
      whole == {b \in DOMAIN blocks : blocks[b].part = 0}
      disks == recomputePartitionIdentities(Separate(first, whole))
      parts == recomputePartitionIdentities(Separate(disks, DOMAIN blocks))
  IN Separate(parts, DOMAIN blocks)

---------------------------------------------------------------------------
(* GPUs: the vendor tool's rows, their match with the sysfs cards, and the *)
(* identities of both.                                                     *)

sameNvidiaIdentity(l, r) ==
  \/ l.uuid # None /\ l.uuid = r.uuid
  \/ l.pci # None /\ l.pci = r.pci

\* The rows reachable from r over shared identities.
Component(r) ==
  LET reach[n \in 0..Cardinality(rows)] ==
        IF n = 0 THEN {r}
        ELSE {q \in rows : \E p \in reach[n - 1] : p = q \/ sameNvidiaIdentity(p, q)}
  IN reach[Cardinality(rows)]

\* nvidiaToolRowLess as a rank: rows with a uuid first, by uuid, then with a PCI
\* address, by address, then by value.
Rank(x, s) == IF x = None THEN Cardinality(s) + 1 ELSE x
nvidiaToolRowLess(l, r) ==
  LET u(x) == Rank(x.uuid, UUIDs)
      a(x) == Rank(x.pci, Cards)
  IN \/ u(l) < u(r)
     \/ u(l) = u(r) /\ a(l) < a(r)
     \/ u(l) = u(r) /\ a(l) = a(r) /\ l.val < r.val

\* One row per component, its first; rows that disagree show no numbers.
normalizeNvidiaRows ==
  {[row EXCEPT !.val = IF Component(row) = {row} THEN row.val ELSE 0] :
     row \in {r \in rows : \A q \in Component(r) \ {r} : nvidiaToolRowLess(r, q)}}

NoRow == [uuid |-> None, pci |-> None, val |-> 0]

\* A card takes the unused row with its uuid, else the one at its address.
matchNvidiaToolRow(c, all, used) ==
  LET byUUID == {r \in all \ used : cards[c].uuid # None /\ r.uuid = cards[c].uuid}
      byPCI == {r \in all \ used : r.pci = PCI[c]}
  IN CHOOSE r \in (IF byUUID # {} THEN byUUID ELSE IF byPCI # {} THEN byPCI ELSE {NoRow}) : TRUE

\* The loop over the sysfs cards, in path order: pairs of a card and its row.
Matched(all) ==
  LET m[i \in 0..Len(CardOrder)] ==
        IF i = 0 THEN {}
        ELSE LET c == CardOrder[i]
                 before == m[i - 1]
             IN IF c \in DOMAIN cards /\ cards[c].nvidia
                  THEN before \cup {<<c, matchNvidiaToolRow(c, all, {x[2] : x \in before})>>}
                  ELSE before
  IN m[Len(CardOrder)]

\* The cards of sysfs, and a card of its own for every row no card took.
collectLinuxGPUs ==
  LET all == normalizeNvidiaRows
      matched == Matched(all)
      row(c) == IF cards[c].nvidia THEN (CHOOSE x \in matched : x[1] = c)[2] ELSE NoRow
  IN {[path |-> c, uuid |-> cards[c].uuid, pci |-> PCI[c], nvidia |-> cards[c].nvidia,
       row |-> row(c)] : c \in DOMAIN cards}
     \cup
     {[path |-> None, uuid |-> r.uuid, pci |-> r.pci, nvidia |-> TRUE, row |-> r] :
        r \in all \ {x[2] : x \in matched}}

preferredGPUSeriesID(g) ==
  CASE g.uuid # None /\ g.nvidia -> <<"nvidia-uuid", g.uuid>>
    [] g.uuid # None /\ ~g.nvidia -> <<"local-unique", g.uuid>>
    [] g.uuid = None /\ g.pci # None -> <<"pci", g.pci>>
    [] OTHER -> <<"gpu-sysfs-fallback", g.path>>

\* A collision sends the sysfs cards involved to their paths.
assignGPUIdentities(gpus, g) ==
  LET peers == {h \in gpus : preferredGPUSeriesID(h) = preferredGPUSeriesID(g)}
  IN IF Cardinality(peers) < 2 \/ g.path = None
       THEN preferredGPUSeriesID(g) ELSE <<"gpu-sysfs-fallback", g.path>>

---------------------------------------------------------------------------
(* Properties *)

\* "Ambiguous supposedly-strong identifiers must never merge distinct devices":
\* however attributes, partition numbers and stacked parents collide, the
\* identities of one enumeration are pairwise different.
UniqueBlockIds ==
  LET m == resolveLinuxBlockIdentities IN
  \A e, f \in m : e.id = f.id => e.b = f.b

\* An identity derived from a parent names the identity the parent really got,
\* after every fallback, so a partition's series changes with its disk's and
\* never points at a name the disk gave up.
FollowsParent ==
  LET m == resolveLinuxBlockIdentities IN
  \A e \in m :
    e.kind = "partition" => e.id = partitionID(Of(m, Dir[e.b]).id, blocks[e.b].part)

\* The block and all it derives its identity from are free of collisions.
Unambiguous[b \in Paths] ==
  /\ \A d \in DOMAIN blocks \ {b} : resolve[d] # resolve[b]
  /\ identityKind(b) = "partition" => Unambiguous[Dir[b]]

\* A collision elsewhere falls back "without changing an unrelated sibling": a
\* block whose own identity and whose parents' are not contested keeps it.
KeepsIdentity ==
  LET m == resolveLinuxBlockIdentities IN
  \A e \in m : Unambiguous[e.b] => e.id = resolve[e.b]

\* Cards seen by sysfs and cards only the vendor tool reports never share an
\* identity, whatever uuids and addresses the two sources disagree on.
UniqueGPUIds ==
  LET gpus == collectLinuxGPUs IN
  \A g, h \in gpus : assignGPUIdentities(gpus, g) = assignGPUIdentities(gpus, h) => g = h

\* An identity of the block layer names one device, and keeps naming it.
BlockIdentityHeld == UniqueBlockIds /\ FollowsParent /\ KeepsIdentity
=============================================================================
