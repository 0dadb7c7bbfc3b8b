------------------------------ MODULE MCDevices -----------------------------
(***************************************************************************)
(* What an agent measures, for TLC: the device sampler and its collector,  *)
(* device identities, the bounded device metric and the probe runner.  The *)
(* scenario chosen in the initial state is the one that moves, the others  *)
(* keep an initial state.                                                  *)
(***************************************************************************)
EXTENDS Naturals

CONSTANTS b1, b2, f1, g1, p1, p2, None

VARIABLES
    scenario,
    policy, hw, pc, sampler, wk, collector, pr, served, epoch, budget,
    blocks, cards, toolRows,
    rows, out,
    disk, changes, hb, probes, running, cancelled, gor, slots, samples, since, pending,
    serial, last

\* A policy granted, withdrawn and granted again; a device unplugged.
Granted == INSTANCE DeviceSampler WITH
    Block <- {b1}, FS <- {f1}, GPU <- {g1}, Parent <- [f \in {f1} |-> b1], Slots <- {p1, p2},
    MaxFlips <- 3, MaxPanics <- 0, MaxPlugs <- 0, s <- sampler, c <- collector
Plugged == INSTANCE DeviceSampler WITH
    Block <- {b1, b2}, FS <- {f1}, GPU <- {g1}, Parent <- [f \in {f1} |-> b1],
    Slots <- {p1, p2}, MaxFlips <- 1, MaxPanics <- 0, MaxPlugs <- 1,
    s <- sampler, c <- collector

\* Two disks, partitions on both and one stacked on a partition; two GPUs.
Disks == INSTANCE DeviceIdentity WITH
    Paths <- {"sda", "sda1", "sda1p1", "sda2", "sdb", "sdb1"},
    Dir <- [p \in {"sda", "sda1", "sda1p1", "sda2", "sdb", "sdb1"} |->
              CASE p \in {"sda1", "sda2"} -> "sda" [] p = "sda1p1" -> "sda1"
                [] p = "sdb1" -> "sdb" [] OTHER -> None],
    Strong <- {"x"}, Partitions <- {0, 1}, CardOrder <- <<>>, PCI <- <<>>, UUIDs <- {},
    MaxRows <- 0, rows <- toolRows
GPUs == INSTANCE DeviceIdentity WITH
    Paths <- {}, Dir <- [p \in {} |-> None], Strong <- {}, Partitions <- {0},
    CardOrder <- <<1, 2>>, PCI <- <<1, 2>>, UUIDs <- {1, 2}, MaxRows <- 3, rows <- toolRows

\* Rows that meet the entry caps and the byte budget.
Metric == INSTANCE DeviceMetric WITH
    IDs <- 1 .. 3, Sizes <- {1, 2}, SampleSizes <- {0, 1}, Statuses <- {"ok"}, MaxRows <- 4,
    MaxDiskEntries <- 2, MaxGPUEntries <- 1, MaxEncodedDevicePairBytes <- 5, Reserved <- 1

P(d, e) == [dest |-> d, every |-> e]

\* Two probes; the second policy changes one cadence and one destination.
Runner == INSTANCE ProbeRunner WITH
    Policies <- {[i \in {"p", "q"} |-> IF i = "p" THEN P("d1", 1) ELSE P("d2", 1)],
                 [i \in {"p", "q"} |-> IF i = "p" THEN P("d1", 2) ELSE P("d3", 1)],
                 [i \in {"q"} |-> P("d3", 1)]},
    MaxSlots <- 1, Window <- 3, MaxChanges <- 2

ASSUME Granted!DeviceAssumption /\ Plugged!DeviceAssumption

samplerVars == <<policy, hw, pc, sampler, wk, collector, pr, served, epoch, budget>>
identityVars == <<blocks, cards, toolRows>>
metricVars == <<rows, out>>
probeVars == <<disk, changes, hb, probes, running, cancelled, gor, slots, samples, since,
               pending, serial, last>>
mcVars == <<scenario, samplerVars, identityVars, metricVars, probeVars>>

MCInit ==
    /\ scenario \in {"granted", "plugged", "disks", "gpus", "metric", "runner"}
    /\ IF scenario = "plugged" THEN Plugged!Init ELSE Granted!Init
    /\ Disks!Init /\ Metric!Init /\ Runner!Init

Move ==
    /\ UNCHANGED scenario
    /\ CASE scenario = "granted" -> Granted!Next
         [] scenario = "plugged" -> Plugged!Next
         [] OTHER -> UNCHANGED samplerVars
    /\ CASE scenario = "disks" -> Disks!Next
         [] scenario = "gpus" -> GPUs!Next
         [] OTHER -> UNCHANGED identityVars
    /\ IF scenario = "metric" THEN Metric!Next ELSE UNCHANGED metricVars
    /\ IF scenario = "runner" THEN Runner!Next ELSE UNCHANGED probeVars

MCSpec == MCInit /\ [][Move]_mcVars

-----------------------------------------------------------------------------
(* The properties of the instances, each on the scenarios it is about.       *)

\* DeviceSampler: two providers never run together, no snapshot outlives the authority it was
\* taken under, and a published rate spans counters of one authority period.
SamplerAuthorized == Granted!SamplerAuthorized

\* DeviceIdentity: the identities of one enumeration are pairwise different, a partition's
\* names the one its disk really got, and a block that collides with nothing keeps its own.
IdentityHeld ==
    /\ scenario = "disks" => Disks!BlockIdentityHeld
    /\ scenario = "gpus" => GPUs!UniqueGPUIds

\* DeviceMetric: valid input yields a pair that is valid, also once stamped, and every removed
\* row and sample is counted.
RowsAccounted == scenario = "metric" => Metric!RowsAccounted

\* ProbeRunner: every sample shown belongs to an authorized destination, and a runtime has a
\* goroutine exactly while it is marked running.
ProbesAuthorized == Runner!ProbesAuthorized
=============================================================================
