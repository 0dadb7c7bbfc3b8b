---------------------------- MODULE DeviceMetric ----------------------------
(***************************************************************************)
(* The bounded pair of device metrics (internal/devicemetric/metric.go):   *)
(* what BoundMetrics keeps of the rows a collection found, and whether the *)
(* pair it returns, and the degraded form the collector later makes of it, *)
(* pass the validation every consumer applies.                             *)
(*                                                                         *)
(* A row's display fields are abstracted to its encoded size; the sizes of *)
(* the statuses matter because a status is rewritten in place.  Rows are   *)
(* added one at a time and the answer is computed for each set of rows.    *)
(***************************************************************************)
EXTENDS Integers, FiniteSets, FiniteSetsExt

CONSTANTS
  IDs,           \* series ids, ordered
  Sizes,         \* encoded sizes of a row without its status
  SampleSizes,   \* encoded sizes of a row's sample; 0 is no sample
  Statuses,      \* statuses a provider reports
  MaxRows,       \* rows explored
  MaxDiskEntries, MaxGPUEntries,
  MaxEncodedDevicePairBytes,
  Reserved       \* the room kept for the sampled_at stamp

VARIABLES rows, out

vars == <<rows, out>>

\* Kinds in their lexical order.
Kinds == {1, 2, 3}
BlockDevice == 1
Filesystem == 2
KindGPU == 3

Error == [err |-> TRUE]
Nothing == [inv |-> {}, smp |-> {}, itrunc |-> 0, strunc |-> 0]

StatusSize(st) == CASE st = "ok" -> 0 [] st = "collection_error" -> 1 [] OTHER -> 2

\* A row with its sample; the sample metric holds the ids that have one.
Rows == [id : IDs, kind : Kinds, parent : IDs \cup {0}, size : Sizes, smp : SampleSizes,
         status : Statuses]

encodedLen(e) == e.size + StatusSize(e.status)

SampleLen(e) == e.smp
encodedPairLen(p) == MapThenSumSet(encodedLen, p.inv) + MapThenSumSet(SampleLen, p.smp)

Less(e, f) == e.kind < f.kind \/ (e.kind = f.kind /\ e.id < f.id)

---------------------------------------------------------------------------
(* Validation *)

HasCycle(es) ==
  \E s \in SUBSET {e \in es : e.kind = BlockDevice} :
    s # {} /\ \A e \in s : \E f \in s : f.id = e.parent

\* validateInventoryRelationships.
validRelationships(es, allowMissingParents) ==
  /\ \A e \in es : e.parent # 0 =>
       LET found == {f \in es : f.id = e.parent}
       IN (found = {} => allowMissingParents) /\ \A f \in found : f.kind = BlockDevice
  /\ ~HasCycle(es)

validRow(e) ==
  /\ e.parent # e.id
  /\ e.kind = Filesystem => e.parent # 0
  /\ e.kind = KindGPU => e.parent = 0

Distinct(es) == \A e, f \in es : e.id = f.id => e = f
Disks(es) == {e \in es : e.kind # KindGPU}
GPUs(es) == {e \in es : e.kind = KindGPU}

ValidateInventory(p) ==
  /\ Distinct(p.inv) /\ \A e \in p.inv : validRow(e)
  /\ Cardinality(Disks(p.inv)) <= MaxDiskEntries
  /\ Cardinality(GPUs(p.inv)) <= MaxGPUEntries
  /\ validRelationships(p.inv, p.itrunc > 0)

ValidatePair(p, stamp) ==
  /\ ValidateInventory(p)
  /\ p.smp \subseteq p.inv
  /\ encodedPairLen(p) + stamp <= MaxEncodedDevicePairBytes

---------------------------------------------------------------------------
(* BoundMetrics *)

ValidInput(es) == Distinct(es) /\ (\A e \in es : validRow(e)) /\ validRelationships(es, FALSE)

\* The first entries of each group in the sorted order.
FirstOf(es, n) == {e \in es : Cardinality({f \in es : Less(f, e)}) < n}
capInventory(es) == FirstOf(Disks(es), MaxDiskEntries) \cup FirstOf(GPUs(es), MaxGPUEntries)

KindCount(es, k) == Cardinality({e \in es : e.kind = k})
KindsOf(es) == {e.kind : e \in es}
Contribution(p, e) == encodedLen(e) + IF e \in p.smp THEN e.smp ELSE 0

\* The row to give up: the largest of a kind with several rows, of equals the last
\* in the order; with one row of each kind, the last row.
largestRemovable(p) ==
  LET removable == {e \in p.inv : KindCount(p.inv, e.kind) > 1 \/ Cardinality(KindsOf(p.inv)) = 1}
  IN IF removable # {}
       THEN CHOOSE e \in removable : \A f \in removable \ {e} :
              \/ Contribution(p, f) < Contribution(p, e)
              \/ Contribution(p, f) = Contribution(p, e) /\ Less(f, e)
       ELSE CHOOSE e \in p.inv : \A f \in p.inv \ {e} : Less(f, e)

LeaveSample(p, e) == [p EXCEPT !.inv = @ \ {e}, !.itrunc = @ + 1]

\* The row goes with its sample, and both are counted.
Remove(p, e) ==
  [inv |-> p.inv \ {e}, itrunc |-> p.itrunc + 1,
   smp |-> p.smp \ {e}, strunc |-> p.strunc + IF e \in p.smp THEN 1 ELSE 0]

RECURSIVE Shrink(_)
Shrink(p) ==
  IF encodedPairLen(p) + Reserved > MaxEncodedDevicePairBytes /\ p.inv # {}
    THEN Shrink(Remove(p, largestRemovable(p))) ELSE p

\* Both metrics after the entry caps; a sample of a capped row is counted as
\* truncated, and what remains is within the sample caps.
Capped(es) ==
  LET kept == capInventory(es)
      has == {e \in es : e.smp # 0}
  IN [inv |-> kept, itrunc |-> Cardinality(es) - Cardinality(kept),
      smp |-> has \cap kept, strunc |-> Cardinality(has \ kept)]

BoundMetrics(es) ==
  IF ~ValidInput(es) THEN Error
  ELSE LET p == Shrink(Capped(es)) IN IF ValidatePair(p, 0) THEN p ELSE Error

---------------------------------------------------------------------------
(* Providers build rows that pass the checks on a single row; ids, parents *)
(* and cycles are what can go wrong between rows.                          *)

Init == rows = {} /\ out = Nothing

AddRow ==
  /\ Cardinality(rows) < MaxRows /\ ValidInput(rows)
  /\ \E e \in {r \in Rows : validRow(r)} :
       /\ rows' = rows \cup {e}
       /\ out' = BoundMetrics(rows')

StartOver == rows' = {} /\ out' = Nothing

Next == AddRow \/ StartOver

Spec == Init /\ [][Next]_vars

---------------------------------------------------------------------------
(* Properties *)

\* Input that passes its checks is never refused afterwards: the removal loop ends
\* in a pair that its own final validation accepts, and the pair still fits once
\* the sampler has stamped it.
NeverLost == ValidInput(rows) => out # Error /\ ValidatePair(out, Reserved)

\* "Every removed inventory and sample row" is accounted for, whether the entry
\* caps or the byte budget removed it.
Accounted ==
  out # Error =>
    /\ Cardinality(out.inv) + out.itrunc = Cardinality(rows)
    /\ Cardinality(out.smp) + out.strunc = Cardinality({e \in rows : e.smp # 0})

\* No row is lost: valid input yields a valid pair, and what it leaves out is counted.
RowsAccounted == NeverLost /\ Accounted
=============================================================================
