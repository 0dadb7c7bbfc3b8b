---------------------------- MODULE MCTelemetry -----------------------------
(***************************************************************************)
(* The telemetry path of the controller for TLC: retained history, live    *)
(* overlay, delivery of heartbeats, charts.  The scenario chosen in the    *)
(* initial state is the one that moves, the others keep an initial state.  *)
(***************************************************************************)
EXTENDS Naturals

VARIABLES
    scenario,
    settings, cached, put, stored, file, fl, pending, q, next, used,
    clock, ent, calls, hist, ghost,
    proc, queue, changed, up, net, replies, fate,
    resources, probes, devices, response

\* One query beside a cap change; a failed write and a crash; a byte ceiling of three
\* records with two failing writes.
Query == INSTANCE TelemetryHistory WITH
    Caps <- {1, 2}, DefaultCap <- 2, FileLimit <- 8, CompactTarget <- 8, VolatileLimit <- 8,
    RecentLimit <- 2, MaxRecords <- 3, MaxPuts <- 1, MaxFaults <- 0, MaxCrashes <- 0,
    MaxQueries <- 1, hist <- stored
Flush == INSTANCE TelemetryHistory WITH
    Caps <- {0, 2}, DefaultCap <- 2, FileLimit <- 8, CompactTarget <- 8, VolatileLimit <- 8,
    RecentLimit <- 2, MaxRecords <- 3, MaxPuts <- 1, MaxFaults <- 1, MaxCrashes <- 1,
    MaxQueries <- 0, hist <- stored
Bytes == INSTANCE TelemetryHistory WITH
    Caps <- {0, 4}, DefaultCap <- 4, FileLimit <- 3, CompactTarget <- 2, VolatileLimit <- 2,
    RecentLimit <- 2, MaxRecords <- 5, MaxPuts <- 0, MaxFaults <- 1, MaxCrashes <- 1,
    MaxQueries <- 0, hist <- stored

\* Two processes of the agent, one request at a time; three processes and two cursors;
\* two requests of any kind at one time.
Takeover == INSTANCE TelemetryOverlay WITH
    Boots <- {1, 2}, Caps <- {"v1"}, MaxSeq <- 2, MaxTime <- 2, MaxCalls <- 4, MaxOpen <- 1,
    Kinds <- {"sequenced", "plain"}, maxTelemetrySequenceCursors <- 2,
    maxTelemetryRetiredBoots <- 2, maxTelemetryReplayAge <- 3, maxTelemetryFutureSkew <- 1,
    telemetryBootStaleSlack <- 1
Evict == INSTANCE TelemetryOverlay WITH
    Boots <- {1, 2, 3}, Caps <- {}, MaxSeq <- 1, MaxTime <- 3, MaxCalls <- 5, MaxOpen <- 1,
    Kinds <- {"sequenced"}, maxTelemetrySequenceCursors <- 2,
    maxTelemetryRetiredBoots <- 1, maxTelemetryReplayAge <- 3, maxTelemetryFutureSkew <- 1,
    telemetryBootStaleSlack <- 1
Races == INSTANCE TelemetryOverlay WITH
    Boots <- {1, 2}, Caps <- {"v1"}, MaxSeq <- 1, MaxTime <- 2, MaxCalls <- 4, MaxOpen <- 2,
    Kinds <- {"sequenced", "plain", "report", "poll"}, maxTelemetrySequenceCursors <- 2,
    maxTelemetryRetiredBoots <- 2, maxTelemetryReplayAge <- 3, maxTelemetryFutureSkew <- 1,
    telemetryBootStaleSlack <- 1

\* A queue of one, two samples per process, a fault and a stripped exchange.
Delivery == INSTANCE Heartbeat WITH
    Boots <- {1, 2}, Caps <- {"v1"}, MaxSeq <- 2, MaxTime <- 1, MaxCalls <- 0, MaxOpen <- 0,
    Kinds <- {}, maxTelemetrySequenceCursors <- 4, maxTelemetryRetiredBoots <- 8,
    maxTelemetryReplayAge <- 3, maxTelemetryFutureSkew <- 1, telemetryBootStaleSlack <- 1,
    telemetryReplayCapacity <- 1, MaxFaults <- 1, MaxStrips <- 1

\* Two samples of any kind in a window of four; a grid of windows and steps.
Chart == INSTANCE HistoryChart WITH
    Horizon <- 3, Origins <- {0, 1}, Windows <- {4}, Steps <- {0, 2}, ProbeIDs <- {11},
    Hosts <- {21, 22}, Devices <- {31}, Cadences <- {0, 3}, Budget <- 8, MaxSeries <- 2,
    AutoFloor <- 2, MinStep <- 1, MaxSkew <- 1, MaxSamples <- 2
Grid == INSTANCE HistoryChart WITH
    Horizon <- 3, Origins <- {0, 1, 5, 8}, Windows <- {1, 6, 7, 8, 15, 16, 17, 18, 34, 35},
    Steps <- {0, 1, 2, 7}, ProbeIDs <- {}, Hosts <- {}, Devices <- {}, Cadences <- {0, 5},
    Budget <- 18, MaxSeries <- 4, AutoFloor <- 2, MinStep <- 1, MaxSkew <- 1, MaxSamples <- 2

ASSUME Query!HistoryAssumption /\ Flush!HistoryAssumption /\ Bytes!HistoryAssumption
ASSUME Takeover!BootsArePositive /\ Evict!BootsArePositive /\ Races!BootsArePositive
ASSUME Takeover!TwoCursorsFit /\ Evict!TwoCursorsFit /\ Races!TwoCursorsFit
ASSUME Delivery!BootsArePositive /\ Delivery!TwoCursorsFit /\ Delivery!QueueHasRoom
ASSUME Chart!ChartAssumption /\ Grid!ChartAssumption

historyVars == <<settings, cached, put, stored, file, fl, pending, q, next, used>>
overlayVars == <<clock, ent, calls, hist, ghost>>
queueVars == <<proc, queue, changed, up, net, replies, fate>>
chartVars == <<resources, probes, devices, response>>
mcVars == <<scenario, historyVars, overlayVars, queueVars, chartVars>>

MCInit ==
    /\ scenario \in {"query", "flush", "bytes", "takeover", "evict", "races", "delivery",
                     "chart", "grid"}
    /\ CASE scenario = "flush" -> Flush!Init
         [] scenario = "bytes" -> Bytes!Init
         [] OTHER -> Query!Init
    /\ scenario \notin {"query", "flush", "bytes"} => settings = 2
    /\ CASE scenario = "takeover" -> Takeover!Init
         [] scenario = "evict" -> Evict!Init
         [] scenario = "races" -> Races!Init
         [] OTHER -> Delivery!Init
    /\ Delivery!QueueInit
    /\ Chart!Init

Move ==
    /\ UNCHANGED scenario
    /\ CASE scenario = "query" -> Query!Next
         [] scenario = "flush" -> Flush!Next
         [] scenario = "bytes" -> Bytes!Next
         [] OTHER -> UNCHANGED historyVars
    /\ CASE scenario = "takeover" -> Takeover!Next /\ UNCHANGED queueVars
         [] scenario = "evict" -> Evict!Next /\ UNCHANGED queueVars
         [] scenario = "races" -> Races!Next /\ UNCHANGED queueVars
         [] scenario = "delivery" -> Delivery!HNext
         [] OTHER -> UNCHANGED <<overlayVars, queueVars>>
    /\ CASE scenario = "chart" -> Chart!Next
         [] scenario = "grid" -> Grid!Next
         [] OTHER -> UNCHANGED chartVars

MCSpec == MCInit /\ [][Move]_mcVars

-----------------------------------------------------------------------------
(* The properties of the instances, each on the scenarios it is about.       *)

\* TelemetryHistory: a chart query answers a gap-free run of the newest observations, each
\* held in memory once, under the cap saved last; file and memory keep to their limits.
HistoryCoherent ==
    CASE scenario = "flush" -> Flush!HistoryCoherent
      [] scenario = "bytes" -> Bytes!HistoryCoherent
      [] OTHER -> Query!HistoryCoherent

\* TelemetryHistory: nothing but a crash loses an observation the caps admit.
NewestKept == [][scenario = "flush" => Flush!NewestKept]_mcVars

\* TelemetryOverlay: a boot that lost the live view to a successor never owns it again, its
\* owner is never evicted, the newest receipt decides the conditions shown, and a retried
\* sample is appended to the history once.
ViewHeld ==
    CASE scenario = "takeover" -> Takeover!ViewHeld
      [] scenario = "evict" -> Evict!ViewHeld
      [] scenario = "races" -> Races!ViewHeld /\ Races!NewestWins
      [] OTHER -> TRUE

\* Heartbeat: every sample is queued or accounted for, and one acknowledged to the agent is
\* in the controller's history.
DeliveryAccounted == scenario = "delivery" => Delivery!DeliveryAccounted

\* HistoryChart: charts conserve attempts, keep destinations apart and do not re-phase; the
\* streams of a response share the budget of buckets.
ChartFaithful ==
    /\ scenario = "chart" => Chart!ChartFaithful
    /\ scenario = "grid" => Grid!BudgetHeld
=============================================================================
