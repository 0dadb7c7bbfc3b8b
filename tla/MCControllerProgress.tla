------------------------ MODULE MCControllerProgress ------------------------
(***************************************************************************)
(* What the controller must eventually do, for TLC: keystone changes that  *)
(* are interrupted, history retention, heartbeat delivery, the long poll   *)
(* and the file backend.  The scenario chosen in the initial state is the  *)
(* one that moves, the others keep an initial state; fairness is that of   *)
(* the scenario.                                                           *)
(***************************************************************************)
EXTENDS KeystoneTransition

VARIABLES
    scenario, faults,
    settings, cached, put, stored, file, fl, pending, q, next, numbered,
    clock, ent, calls, hist, ghost, proc, queue, changed, up, net, replies, fate,
    gen, mu, handler, done, watcher, stray, reply, after, cuts, ready,
    path, dirKept, names, disk, data, dur, temps, op, fileFaults, kills, crashes,
    sworn, last, shown

MaxFaults == 2  \* bound: crashes and I/O errors of keystone operations that must end

\* A cap change, possibly to zero, and a crash.
Retention == INSTANCE TelemetryHistory WITH
    Caps <- {0, 1}, DefaultCap <- 2, FileLimit <- 8, CompactTarget <- 8, VolatileLimit <- 8,
    RecentLimit <- 2, MaxRecords <- 2, MaxPuts <- 1, MaxFaults <- 0, MaxCrashes <- 1,
    MaxQueries <- 0, hist <- stored, used <- numbered

\* One process with three samples, two failed exchanges or restarts.
Delivery == INSTANCE Heartbeat WITH
    Boots <- {1}, Caps <- {"v1"}, MaxSeq <- 3, MaxTime <- 1, MaxCalls <- 0, MaxOpen <- 0,
    Kinds <- {}, maxTelemetrySequenceCursors <- 4, maxTelemetryRetiredBoots <- 8,
    maxTelemetryReplayAge <- 3, maxTelemetryFutureSkew <- 1, telemetryBootStaleSlack <- 1,
    telemetryReplayCapacity <- 2, MaxFaults <- 2, MaxStrips <- 0

\* Two tenants that share the mutex and the condition variable; the file backend's ticker.
MemPoll == INSTANCE LongPoll WITH
    Tenants <- {"t1", "t2"}, Backend <- "mem", MaxGen <- 1, MaxCuts <- 0
FilePoll == INSTANCE LongPoll WITH
    Tenants <- {"t1", "t2"}, Backend <- "file", MaxGen <- 1, MaxCuts <- 1

\* Directories and files restored while a call runs.
Restored == INSTANCE FileBackend WITH
    Vals <- {"a"}, Calls <- {"get", "del"}, Dirs <- 1 .. 3, Unsafe <- {2},
    Inodes <- 1 .. 2, Foreign <- 1 .. 2, Odd <- {}, Fresh <- FALSE,
    MaxFaults <- 0, MaxKills <- 0, MaxCrashes <- 0, faults <- fileFaults

ASSUME Retention!HistoryAssumption
ASSUME Delivery!BootsArePositive /\ Delivery!TwoCursorsFit /\ Delivery!QueueHasRoom
ASSUME MemPoll!LongPollAssumption /\ FilePoll!LongPollAssumption

historyVars == <<settings, cached, put, stored, file, fl, pending, q, next, numbered>>
queueVars == <<clock, ent, calls, hist, ghost, proc, queue, changed, up, net, replies, fate>>
pollVars == <<gen, mu, handler, done, watcher, stray, reply, after, cuts, ready>>
fileVars == <<path, dirKept, names, disk, data, dur, temps, op, fileFaults, kills, crashes,
              sworn, last, shown>>
mcVars == <<scenario, faults, vars, historyVars, queueVars, pollVars, fileVars>>

MCInit ==
    /\ scenario \in {"keystone", "faulty", "retention", "delivery", "mem", "file",
                    "restored"}
    /\ faults = 0
    /\ Init
    /\ Retention!Init /\ (scenario # "retention" => settings = 1)
    /\ Delivery!HInit /\ MemPoll!Init /\ Restored!Init

-----------------------------------------------------------------------------
(* Operations are interrupted at most MaxFaults times; in the scenario       *)
(* "faulty", which promises no progress, without a bound.                    *)

KeystoneBegin ==
    /\ scenario = "keystone"
    /\ \/ \E expected \in Snapshot, new \in Cred : BeginSet(expected, new)
       \/ BeginTrust
KeystoneStep == scenario = "keystone" /\ Step
KeystoneMove ==
    \/ KeystoneBegin /\ UNCHANGED faults
    \/ KeystoneStep /\ UNCHANGED faults
    \/ scenario = "keystone" /\ Fault /\ faults < MaxFaults /\ faults' = faults + 1
    \/ scenario = "faulty" /\ Next /\ UNCHANGED faults

Move ==
    /\ UNCHANGED scenario
    /\ IF scenario \in {"keystone", "faulty"} THEN KeystoneMove ELSE UNCHANGED <<vars, faults>>
    /\ IF scenario = "retention" THEN Retention!Next ELSE UNCHANGED historyVars
    /\ IF scenario = "delivery" THEN Delivery!HNext ELSE UNCHANGED queueVars
    /\ CASE scenario = "mem" -> MemPoll!Next
         [] scenario = "file" -> FilePoll!Next
         [] OTHER -> UNCHANGED pollVars
    /\ IF scenario = "restored" THEN Restored!Next ELSE UNCHANGED fileVars

(* An operation that is not interrupted ends and the operator keeps using    *)
(* the keystone; goroutines run, timers fire, sync.Mutex starves no waiter.  *)
Fairness ==
    /\ WF_vars(KeystoneStep) /\ WF_vars(KeystoneBegin)
    /\ WF_historyVars(scenario = "retention" /\ Retention!Goroutine)
    /\ WF_historyVars(scenario = "retention" /\ Retention!SetCapApply)
    /\ WF_queueVars(scenario = "delivery" /\ Delivery!Uploader)
    /\ WF_queueVars(scenario = "delivery" /\ Delivery!Controller)
    /\ \A t \in {"t1", "t2"} :
          /\ SF_pollVars(scenario = "mem" /\ MemPoll!Step(t))
          /\ SF_pollVars(scenario = "mem" /\ MemPoll!Watch(t))
          /\ SF_pollVars(scenario = "file" /\ FilePoll!Step(t))
          /\ WF_pollVars(scenario \in {"mem", "file"} /\ MemPoll!Deadline(t))
          /\ WF_pollVars(scenario \in {"mem", "file"} /\ MemPoll!Poll(t))
          /\ WF_pollVars(scenario \in {"mem", "file"} /\ MemPoll!Receive(t))
    /\ WF_fileVars(scenario = "restored" /\ Restored!Call
                   /\ UNCHANGED <<fileFaults, kills, crashes>> /\ Restored!Observe)

MCSpec == MCInit /\ [][Move]_mcVars /\ Fairness

-----------------------------------------------------------------------------
(* The properties of the instances, each on the scenarios it is about;       *)
(* KeystoneAudited is KeystoneTransition's own.                              *)

\* LongPoll, Heartbeat: a parked waiter has nothing it could be told, every poll is answered
\* in both backends, an agent that keeps polling learns the last generation, and every
\* queued sample is delivered or refused in the end.
AgentsServed ==
    /\ [](scenario = "mem" => MemPoll!ParkedForAReason)
    /\ scenario \in {"mem", "file"} => MemPoll!Answered
    /\ scenario \in {"mem", "file"} => MemPoll!Learns
    /\ scenario = "delivery" => Delivery!QueueDrains

\* KeystoneTransition, TelemetryHistory, FileBackend: a keystone change that took effect is
\* eventually audited, the history file follows a cap that is left alone, down to nothing,
\* and a call of the backend returns although files are restored while it runs.
StoresSettle ==
    /\ scenario = "keystone" => \A e \in Event : e \in committed ~> logged[e] = 1
    /\ scenario = "retention" => Retention!CapConverges
    /\ scenario = "restored" => Restored!Returns
=============================================================================
