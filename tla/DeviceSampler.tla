--------------------------- MODULE DeviceSampler ---------------------------
(***************************************************************************)
(* The agent's automatic device telemetry: the sampler that the heartbeat  *)
(* calls (internal/agent/telemetry_device.go), the one background worker   *)
(* it keeps while the signed policy grants device telemetry, and the       *)
(* collector with its single provider worker (device_collector.go and the  *)
(* control of device_collector_linux.go).                                  *)
(*                                                                         *)
(* Three kinds of goroutine run here.  The heartbeat goroutine calls       *)
(* Sample.  A worker, one per generation, loops over wait, Collect and     *)
(* publish.  A provider goroutine, started by Collect, reads the kernel's  *)
(* files; it may outlive the Collect call that started it, because a       *)
(* driver call cannot be interrupted.                                      *)
(*                                                                         *)
(* Values are abstracted to what can go wrong with them: an inventory is a *)
(* set of devices, and a disk rate is the authority epoch in which its     *)
(* baseline counters were read (0: there was no baseline, so no rate).     *)
(* The epoch is a history variable: it counts the times the sampler gave   *)
(* up an authority it had.                                                 *)
(***************************************************************************)
EXTENDS Integers, FiniteSets

CONSTANTS
  Block, FS, GPU,     \* the devices a node may have
  Parent,             \* the block device of each filesystem
  Slots,              \* identities for provider goroutines
  MaxFlips,           \* policy changes explored
  MaxPanics,          \* panics of a worker or a provider explored
  MaxPlugs            \* hardware changes explored

DeviceAssumption == Parent \in [FS -> Block]

VARIABLES
  policy,    \* what the durable state's ActiveTelemetryPolicy grants
  hw,        \* the devices the kernel shows
  pc,        \* the heartbeat goroutine: "idle", or inside deactivate
  s,         \* the sampler's fields
  wk,        \* the workers, by generation
  c,         \* the collector's fields
  pr,        \* the provider goroutines, by slot
  served,    \* what the last Sample returned
  epoch, budget

vars == <<policy, hw, pc, s, wk, c, pr, served, epoch, budget>>

Nil == [none |-> TRUE]
NoSlot == "no slot"
NoCounters == -1
Generations == 1..(2 * MaxFlips + MaxPanics + 1)
Devices == Block \cup FS \cup GPU

Idle == [pc |-> "idle"]
Snapshot(inv, rate) == [inv |-> inv, rate |-> rate]

Init ==
  /\ policy = "none"
  /\ hw = Devices
  /\ pc = "idle"
  /\ s = [authorized |-> FALSE, active |-> FALSE, generation |-> 0, snap |-> Nil]
  /\ wk = [g \in Generations |-> [pc |-> "none", slot |-> NoSlot, res |-> Nil]]
  /\ c = [inFlight |-> FALSE, bgen |-> 0, previous |-> 0, last |-> {}]
  /\ pr = [p \in Slots |-> Idle]
  /\ served = Nil
  /\ epoch = 1
  /\ budget = [flips |-> MaxFlips, panics |-> MaxPanics, plugs |-> MaxPlugs]

---------------------------------------------------------------------------
(* The world: the apply cycle replaces the policy, hardware comes and goes. *)

ReplacePolicy ==
  /\ budget.flips > 0
  /\ \E p \in {"none", "probes only", "devices"} \ {policy} : policy' = p
  /\ budget' = [budget EXCEPT !.flips = @ - 1]
  /\ UNCHANGED <<hw, pc, s, wk, c, pr, served, epoch>>

Plug ==
  /\ budget.plugs > 0
  /\ \E d \in Devices : hw' = IF d \in hw THEN hw \ {d} ELSE hw \cup {d}
  /\ budget' = [budget EXCEPT !.plugs = @ - 1]
  /\ UNCHANGED <<policy, pc, s, wk, c, pr, served, epoch>>

---------------------------------------------------------------------------
(* Sample, on the heartbeat goroutine. *)

snapshot == IF s.active THEN s.snap ELSE Nil

\* A state that cannot be read neither grants nor revokes anything.
SampleUnreadable ==
  /\ pc = "idle"
  /\ served' = snapshot
  /\ UNCHANGED <<policy, hw, pc, s, wk, c, pr, epoch, budget>>

activate ==
  IF s.active
    THEN [s EXCEPT !.authorized = TRUE]
    ELSE [s EXCEPT !.authorized = TRUE, !.active = TRUE, !.generation = @ + 1]

SampleGranted ==
  /\ pc = "idle"
  /\ policy = "devices"
  /\ s' = activate
  /\ wk' = IF s.active THEN wk ELSE [wk EXCEPT ![s.generation + 1].pc = "wait"]
  /\ served' = snapshot
  /\ UNCHANGED <<policy, hw, pc, c, pr, epoch, budget>>

\* The provider goroutines whose Collect call belongs to generation g lose
\* their context with it.
CancelContext(g) == [p \in Slots |-> IF pr[p].pc # "idle" /\ pr[p].gen = g
                                       THEN [pr[p] EXCEPT !.live = FALSE]
                                       ELSE pr[p]]

\* The locked part of deactivate; the reset of the rate baselines follows
\* after the unlock.
SampleRevoked ==
  /\ pc = "idle"
  /\ policy # "devices"
  /\ served' = Nil
  /\ IF ~s.authorized /\ ~s.active /\ s.snap = Nil
       THEN UNCHANGED <<s, wk, pr, pc, epoch>>
       ELSE /\ s' = [authorized |-> FALSE, active |-> FALSE,
                     generation |-> s.generation + 1, snap |-> Nil]
            /\ wk' = IF s.active
                       THEN [wk EXCEPT ![s.generation].pc = IF @ = "wait" THEN "exit" ELSE @]
                       ELSE wk
            /\ pr' = CancelContext(s.generation)
            /\ IF s.authorized
                 THEN pc' = "reset" /\ epoch' = epoch + 1
                 ELSE UNCHANGED <<pc, epoch>>
  /\ UNCHANGED <<policy, hw, c, budget>>

ResetRateBaselines ==
  /\ pc = "reset"
  /\ pc' = "idle"
  /\ c' = [c EXCEPT !.bgen = @ + 1, !.previous = 0]
  /\ UNCHANGED <<policy, hw, s, wk, pr, served, epoch, budget>>

---------------------------------------------------------------------------
(* The worker of generation g. *)

\* Its context is cancelled exactly when a later deactivate has moved the
\* generation on.
Cancelled(g) == s.generation # g

degradedSnapshotLocked == Snapshot(c.last, 0)

LatchIgnored(g) ==
  /\ wk[g].pc = "wait"
  /\ ~Cancelled(g)
  /\ \E p \in Slots :
       /\ pr[p].pc = "idle"
       /\ pr' = [pr EXCEPT ![p] = [pc |-> "blocks", gen |-> g, live |-> TRUE, bgen |-> c.bgen,
                                   rate |-> c.previous, next |-> NoCounters, inv |-> {}, complete |-> FALSE]]
       /\ wk' = [wk EXCEPT ![g].pc = "collect", ![g].slot = p]
       /\ c' = [c EXCEPT !.inFlight = TRUE]
  /\ UNCHANGED <<policy, hw, pc, s, served, epoch, budget>>

\* The timer fires and Collect takes the collector's lock: a provider that is
\* still out means a degraded answer, otherwise this call starts one.
Collect(g) ==
  /\ wk[g].pc = "wait"
  /\ ~Cancelled(g)
  /\ IF c.inFlight
       THEN /\ wk' = [wk EXCEPT ![g].pc = "publish", ![g].res = degradedSnapshotLocked]
            /\ UNCHANGED <<c, pr>>
       ELSE \E p \in Slots :
              /\ pr[p].pc = "idle"
              /\ pr' = [pr EXCEPT ![p] = [pc |-> "blocks", gen |-> g, live |-> TRUE,
                                          bgen |-> c.bgen, rate |-> c.previous, next |-> NoCounters,
                                          inv |-> {}, complete |-> FALSE]]
              /\ wk' = [wk EXCEPT ![g].pc = "collect", ![g].slot = p]
              /\ c' = [c EXCEPT !.inFlight = TRUE]
  /\ UNCHANGED <<policy, hw, pc, s, served, epoch, budget>>

WaitForProvider(g) ==
  /\ wk[g].pc = "collect"
  /\ pr[wk[g].slot].pc = "done"
  /\ wk' = [wk EXCEPT ![g].pc = "publish", ![g].slot = NoSlot, ![g].res = degradedSnapshotLocked]
  /\ pr' = [pr EXCEPT ![wk[g].slot] = Idle]
  /\ UNCHANGED <<policy, hw, pc, s, c, served, epoch, budget>>

\* The collection timeout, or the worker's own context, ends the wait; the
\* deferred cancel ends the provider's context.
CollectTimeout(g) ==
  /\ wk[g].pc = "collect"
  /\ wk' = [wk EXCEPT ![g].pc = "publish", ![g].slot = NoSlot, ![g].res = degradedSnapshotLocked]
  /\ pr' = [pr EXCEPT ![wk[g].slot] = IF @.pc = "done" THEN Idle ELSE [@ EXCEPT !.live = FALSE]]
  /\ UNCHANGED <<policy, hw, pc, s, c, served, epoch, budget>>

\* acceptCollectionResult.
CollectResult(g) ==
  /\ wk[g].pc = "collect"
  /\ LET r == pr[wk[g].slot] IN
       /\ r.pc = "done"
       /\ wk' = [wk EXCEPT ![g].pc = "publish", ![g].slot = NoSlot,
                           ![g].res = IF r.live /\ r.complete THEN Snapshot(r.inv, r.rate)
                                                              ELSE degradedSnapshotLocked]
       /\ pr' = [pr EXCEPT ![wk[g].slot] = Idle]
  /\ UNCHANGED <<policy, hw, pc, s, c, served, epoch, budget>>

WorkerGone == [pc |-> "none", slot |-> NoSlot, res |-> Nil]

\* The generation fence: a cancelled worker stores nothing and returns.
Publish(g) ==
  /\ wk[g].pc = "publish"
  /\ IF Cancelled(g)
       THEN wk' = [wk EXCEPT ![g] = WorkerGone] /\ UNCHANGED s
       ELSE /\ s' = [s EXCEPT !.snap = wk[g].res]
            /\ wk' = [wk EXCEPT ![g] = [pc |-> "wait", slot |-> NoSlot, res |-> Nil]]
  /\ UNCHANGED <<policy, hw, pc, c, pr, served, epoch, budget>>

\* A cancelled wait: the deferred cleanup finds a later generation and leaves
\* the sampler alone.
Exit(g) ==
  /\ wk[g].pc = "exit"
  /\ wk' = [wk EXCEPT ![g] = WorkerGone]
  /\ UNCHANGED <<policy, hw, pc, s, c, pr, served, epoch, budget>>

\* A panic is recovered; the worker clears what it published if it is still
\* the current one, and the next Sample starts another.
WorkerPanic(g) ==
  /\ budget.panics > 0
  /\ wk[g].pc = "publish"
  /\ budget' = [budget EXCEPT !.panics = @ - 1]
  /\ wk' = [wk EXCEPT ![g] = WorkerGone]
  /\ s' = IF Cancelled(g) THEN s ELSE [s EXCEPT !.active = FALSE, !.snap = Nil]
  /\ UNCHANGED <<policy, hw, pc, c, pr, served, epoch>>

---------------------------------------------------------------------------
(* The provider goroutine of slot p: collectPlatform and the bookkeeping   *)
(* under the collector's lock.                                             *)

\* publishPartialInventory: what this pass has found, and the rows of the kinds
\* it has not reached, as far as the pair still validates (a filesystem needs
\* its block device).
publishPartial(inv, kinds) ==
  inv \cup {d \in c.last \cap kinds : d \in FS => Parent[d] \in inv}

publishDiskPartial(inv) == publishPartial(inv, GPU)
publishBlockPartial(inv) == publishPartial(inv, FS \cup GPU)

Fail(p, next, inv) ==
  pr' = [pr EXCEPT ![p].pc = "finish", ![p].next = next, ![p].inv = inv]

\* The inventories the loop over the block devices can leave: an expired context
\* cuts it short.
collectedBlocks(p) == IF pr[p].live THEN {hw \cap Block} ELSE SUBSET (hw \cap Block)

\* collectLinuxDisks up to the first partial publication; the enumeration may
\* fail, and then the next rates have no baseline.
ReadBlocks(p) ==
  /\ pr[p].pc = "blocks"
  /\ \/ /\ Fail(p, 0, {})
        /\ UNCHANGED c
     \/ \E found \in collectedBlocks(p) :
          /\ pr' = [pr EXCEPT ![p].pc = "mounts", ![p].inv = found,
                              ![p].next = IF found = {} THEN 0 ELSE epoch,
                              ![p].rate = IF found = {} THEN 0 ELSE @]
          /\ c' = IF found = {} THEN c ELSE [c EXCEPT !.last = publishBlockPartial(found)]
  /\ UNCHANGED <<policy, hw, pc, s, wk, served, epoch, budget>>

\* The mounted filesystems of the block devices that were found.
readLinuxMounts(blocks) == {f \in hw \cap FS : Parent[f] \in blocks}

\* readLinuxMounts and the loop over the mounts.
ReadMounts(p) ==
  /\ pr[p].pc = "mounts"
  /\ LET blocks == pr[p].inv
         mounts == readLinuxMounts(blocks)
         failed(inv) == /\ Fail(p, pr[p].next, inv)
                        /\ c' = IF inv = {} THEN c ELSE [c EXCEPT !.last = publishBlockPartial(inv)]
     IN \/ failed(blocks)
        \/ /\ ~pr[p].live
           /\ \E some \in SUBSET mounts : failed(blocks \cup some)
        \/ /\ pr[p].live
           /\ pr' = [pr EXCEPT ![p].pc = "gpus", ![p].inv = blocks \cup mounts]
           /\ c' = [c EXCEPT !.last = publishDiskPartial(blocks \cup mounts)]
  /\ UNCHANGED <<policy, hw, pc, s, wk, served, epoch, budget>>

\* The two directory walks of enumerateLinuxGPUs.  A failure with the context
\* alive carries the known GPUs over as collection errors.
WalkGPUs(p) ==
  /\ pr[p].pc = "gpus"
  /\ \/ /\ pr[p].live
        /\ pr' = [pr EXCEPT ![p].pc = "cards"]
     \/ /\ ~pr[p].live
        /\ pr' = [pr EXCEPT ![p].pc = "finish"]
     \/ /\ pr[p].live
        /\ pr' = [pr EXCEPT ![p].pc = "finish", ![p].complete = TRUE,
                            ![p].inv = @ \cup (c.last \cap GPU)]
  /\ UNCHANGED <<policy, hw, pc, s, wk, c, served, epoch, budget>>

\* The attribute reads and the vendor tool.  An expired context breaks out of
\* the loop over the paths; collectLinuxGPUs notices that only when at least one
\* card was read before.
ReadCards(p) ==
  /\ pr[p].pc = "cards"
  /\ LET cards == hw \cap GPU
         done(found) == pr' = [pr EXCEPT ![p].pc = "finish", ![p].complete = TRUE,
                                         ![p].inv = @ \cup found]
     IN IF pr[p].live \/ cards = {}
          THEN done(cards)
          ELSE \/ done({})
               \/ pr' = [pr EXCEPT ![p].pc = "finish"]
  /\ UNCHANGED <<policy, hw, pc, s, wk, c, served, epoch, budget>>

\* The deadline of the collection passes while the provider is busy; Collect
\* has not looked at it yet.
Deadline(p) ==
  /\ pr[p].pc \notin {"idle", "done"}
  /\ pr[p].live
  /\ pr' = [pr EXCEPT ![p].live = FALSE]
  /\ UNCHANGED <<policy, hw, pc, s, wk, c, served, epoch, budget>>

\* A provider panic is recovered: no counters, not complete.
ProviderPanic(p) ==
  /\ budget.panics > 0
  /\ pr[p].pc \in {"blocks", "mounts", "gpus", "cards"}
  /\ budget' = [budget EXCEPT !.panics = @ - 1]
  /\ pr' = [pr EXCEPT ![p].pc = "finish", ![p].next = NoCounters, ![p].inv = {}]
  /\ UNCHANGED <<policy, hw, pc, s, wk, c, served, epoch>>

\* The result goes into the buffered channel if its Collect call still waits.
Deliver(p) ==
  IF \E g \in Generations : wk[g].slot = p THEN [pr[p] EXCEPT !.pc = "done"] ELSE Idle

\* The baselines are kept only if no reset came in between.
Finish(p) ==
  /\ pr[p].pc = "finish"
  /\ c' = [c EXCEPT !.inFlight = FALSE,
                    !.previous = IF pr[p].next # NoCounters /\ pr[p].bgen = c.bgen THEN pr[p].next ELSE @,
                    !.last = IF pr[p].complete THEN pr[p].inv ELSE @]
  /\ pr' = [pr EXCEPT ![p] = Deliver(p)]
  /\ UNCHANGED <<policy, hw, pc, s, wk, served, epoch, budget>>

---------------------------------------------------------------------------
Sample == SampleUnreadable \/ SampleGranted \/ SampleRevoked \/ ResetRateBaselines
Worker(g) == Collect(g) \/ CollectTimeout(g) \/ CollectResult(g) \/ Publish(g) \/ Exit(g)
Provider(p) == ReadBlocks(p) \/ ReadMounts(p) \/ WalkGPUs(p) \/ ReadCards(p) \/ Finish(p)

Next ==
  \/ ReplacePolicy \/ Plug
  \/ Sample
  \/ \E g \in Generations : Worker(g) \/ WorkerPanic(g)
  \/ \E p \in Slots : Provider(p) \/ Deadline(p) \/ ProviderPanic(p)

Spec == Init /\ [][Next]_vars

(***************************************************************************)
(* Fairness: the heartbeat keeps calling Sample and the state file is read *)
(* in the end; timers fire and goroutines are scheduled.  StuckSpec asks   *)
(* nothing of the provider, which may sit in a driver call for ever.       *)
(***************************************************************************)
StuckSpec ==
  Spec /\ WF_vars(SampleGranted) /\ WF_vars(SampleRevoked) /\ WF_vars(ResetRateBaselines)
       /\ \A g \in Generations : WF_vars(Worker(g))

FairSpec == StuckSpec /\ \A p \in Slots : WF_vars(Provider(p))

---------------------------------------------------------------------------
(* Properties *)

Running == {p \in Slots : pr[p].pc \notin {"idle", "done"}}

\* Collect "permits at most one provider worker": however long a driver call
\* hangs and however often the policy is withdrawn and granted again, two
\* providers never run together.
OneProvider == Cardinality(Running) <= 1

\* The snapshot never outlives the authority it was taken under: once a Sample
\* has seen the grant gone, nothing is served and nothing a cancelled worker or
\* a late provider brings back is stored (the generation fence of run).
NothingWithoutAuthority ==
  /\ ~s.authorized => s.snap = Nil
  /\ pc = "idle" /\ served # Nil => s.authorized

\* ResetRateBaselines "makes the next authorized block observation a gap": a
\* rate that is published spans counters read within one authority period, even
\* if the provider that read the old ones finishes after the reset.
RateWithinAuthority == s.snap # Nil => s.snap.rate \in {0, epoch}

\* Granted device telemetry is eventually served, or withdrawn, even if a
\* provider never returns: every Collect is bounded by its timeout.
Served == (policy = "devices" /\ s.authorized) ~> (served # Nil \/ policy # "devices")

\* With a provider that returns, the one-worker latch is always released, so a
\* hung or panicking provider never ends device telemetry for good.
LatchReleased == c.inFlight ~> ~c.inFlight

\* The policy is in command of the devices: one provider, nothing served without it.
SamplerAuthorized == OneProvider /\ NothingWithoutAuthority /\ RateWithinAuthority
=============================================================================
