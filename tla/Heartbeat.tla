----------------------------- MODULE Heartbeat -----------------------------
(***************************************************************************)
(* Reliable delivery of telemetry: the agent's bounded replay queue and    *)
(* its uploader (internal/agent/heartbeat_reliable.go, PostTelemetry), the *)
(* HTTP exchange, and the controller's overlay (TelemetryOverlay).         *)
(*                                                                         *)
(* The collector and the uploader are two goroutines that share the queue  *)
(* under its mutex and wake each other through a channel with one slot.    *)
(* A request may fail for the agent and still be handled later: the        *)
(* timeout of the client does not recall it.  The agent process may be     *)
(* restarted (a new boot, an empty queue); the controller may be restarted *)
(* (the overlay is volatile).                                              *)
(*                                                                         *)
(* Abstractions: a sample is its boot, sequence number and sampling time;  *)
(* the retry delay is a step of its own; the negotiation of the additive   *)
(* probe_samples key changes no delivery decision and is left out.         *)
(***************************************************************************)
EXTENDS TelemetryOverlay, Sequences, SequencesExt

CONSTANTS
    telemetryReplayCapacity,
    MaxFaults,      \* bound: failed exchanges and restarts of the controller
    MaxStrips       \* bound: exchanges whose metadata headers a proxy strips

QueueHasRoom == telemetryReplayCapacity \in Nat \ {0}

VARIABLES
    proc,       \* the agent process: its boot and telemetrySequencer.nextSequence
    queue,      \* telemetryReplayQueue.pending
    changed,    \* telemetryReplayQueue.changed holds a token
    up,         \* the uploader: where it is, its sample, the number of the exchange
    net,        \* requests on their way to the controller
    replies,    \* the response on its way to the waiting uploader, if any
    fate        \* ghost: what became of the samples, budgets

hvars == <<vars, proc, queue, changed, up, net, replies, fate>>
avars == <<proc, queue, changed, up>>

NoSample == [boot |-> NoBoot, seq |-> 0, sampled |-> Zero]
Capability == CHOOSE c \in Caps \cup {Absent} : Caps # {} => c \in Caps
IsFront(q, s) == q # <<>> /\ Head(q) = s
Id(s) == <<s.boot, s.seq>>

-----------------------------------------------------------------------------
(* The queue.                                                              *)

Overflow(q) == Len(q) = telemetryReplayCapacity

\* enqueue evicts the oldest sample when full and leaves a token in the channel.
enqueue(s) ==
    /\ queue' = Append(IF Overflow(queue) THEN Tail(queue) ELSE queue, s)
    /\ changed' = TRUE

\* removeFront takes the sample out only while it still is the front.
removeFront(s) ==
    IF IsFront(queue, s)
      THEN queue' = Tail(queue) /\ changed' = TRUE
      ELSE UNCHANGED <<queue, changed>>

front(q) == Head(q)

-----------------------------------------------------------------------------
QueueInit ==
    /\ proc = [boot |-> 1, seq |-> 0]
    /\ queue = <<>> /\ changed = FALSE
    /\ up = [pc |-> "look", sample |-> NoSample, try |-> 0]
    /\ net = {} /\ replies = {}
    /\ fate = [acked |-> {}, dropped |-> {}, settled |-> {}, faults |-> 0, strips |-> 0]

HInit == Init /\ QueueInit

\* collect of runReliableHeartbeat: the ticker or a kick fired.
collect ==
    LET s == [boot |-> proc.boot, seq |-> proc.seq + 1, sampled |-> clock]
    IN  /\ proc.seq < MaxSeq
        /\ proc' = [proc EXCEPT !.seq = @ + 1]
        /\ enqueue(s)
        /\ fate' = [fate EXCEPT !.dropped = IF Overflow(queue) THEN @ \cup {Id(Head(queue))} ELSE @]
        /\ UNCHANGED <<vars, up, net, replies>>

\* runTelemetryUploaderWithCapabilities, the head of its outer loop.
Look ==
    /\ up.pc = "look"
    /\ up' = IF queue = <<>> THEN [up EXCEPT !.pc = "sleep"]
                             ELSE [up EXCEPT !.pc = "post", !.sample = front(queue)]
    /\ UNCHANGED <<vars, proc, queue, changed, net, replies, fate>>

Wake ==
    /\ up.pc = "sleep" /\ changed
    /\ changed' = FALSE
    /\ up' = [up EXCEPT !.pc = "look"]
    /\ UNCHANGED <<vars, proc, queue, net, replies, fate>>

\* PostTelemetry sends the request; a proxy may strip its metadata headers.
Post ==
    /\ up.pc = "post"
    /\ up' = [up EXCEPT !.pc = "sent", !.try = @ + 1]
    /\ \E kind \in {"sequenced", "plain"} :
         LET r == [kind |-> kind, boot |-> IF kind = "plain" THEN NoBoot ELSE up.sample.boot,
                   seq |-> up.sample.seq, sampled |-> up.sample.sampled, caps |-> Capability,
                   try |-> <<up.sample.boot, up.try + 1>>]
         IN  /\ kind = "plain" => fate.strips < MaxStrips
             /\ net' = net \cup {r}
             /\ fate' = [fate EXCEPT !.strips = IF kind = "plain" THEN @ + 1 ELSE @]
    /\ UNCHANGED <<vars, proc, queue, changed, replies>>

\* A response reaches the uploader only while it waits for this exchange.
Reply(t, reliable, code) ==
    IF up.pc = "sent" /\ t = <<up.sample.boot, up.try>>
      THEN {[reliable |-> reliable, code |-> code]} ELSE replies

\* HandleTelemetry reads the clock.
Arrive(r) ==
    /\ net' = net \ {r}
    /\ calls' = calls \cup {r @@ [at |-> clock]}
    /\ UNCHANGED <<clock, ent, hist, ghost, avars, replies, fate>>

\* The store call under telemetryMu, and the receipt.
Answer(r) ==
    /\ Record(r)
    /\ replies' = Reply(r.try, r.kind = "sequenced", "ok")
    /\ UNCHANGED <<avars, net, fate>>

\* validateMetrics, authentication or a missing node: a 4xx that records nothing.
Refuse(r) ==
    /\ fate.faults < MaxFaults
    /\ net' = net \ {r}
    /\ replies' = Reply(r.try, FALSE, "refused")
    /\ fate' = [fate EXCEPT !.faults = @ + 1]
    /\ UNCHANGED <<vars, avars>>

\* A receipt that acknowledges the sample, or a legacy success.
Acked(p) ==
    /\ p.code = "ok"
    /\ replies' = {}
    /\ removeFront(up.sample)
    /\ up' = [up EXCEPT !.pc = "look"]
    /\ fate' = IF p.reliable THEN [fate EXCEPT !.acked = @ \cup {Id(up.sample)}]
                             ELSE [fate EXCEPT !.settled = @ \cup {Id(up.sample)}]
    /\ UNCHANGED <<vars, proc, net>>

\* permanentTelemetryError: the sample is dropped.
Refused(p) ==
    /\ p.code = "refused"
    /\ replies' = {}
    /\ removeFront(up.sample)
    /\ up' = [up EXCEPT !.pc = "look"]
    /\ fate' = [fate EXCEPT !.settled = @ \cup {Id(up.sample)}]
    /\ UNCHANGED <<vars, proc, net>>

\* A transport error, a timeout or a 5xx: the request, if not lost, is still under way.
Timeout ==
    /\ up.pc = "sent" /\ fate.faults < MaxFaults
    /\ net' \in {net, {r \in net : r.try # <<up.sample.boot, up.try>>}}
    /\ replies' = {}
    /\ up' = [up EXCEPT !.pc = IF IsFront(queue, up.sample) THEN "wait" ELSE "look"]
    /\ fate' = [fate EXCEPT !.faults = @ + 1]
    /\ UNCHANGED <<vars, proc, queue, changed>>

\* The retry timer fires, or the queue changed while the uploader waited.
Retrying ==
    /\ up.pc = "wait"
    /\ \/ up' = [up EXCEPT !.pc = "post"] /\ UNCHANGED changed
       \/ /\ changed /\ changed' = FALSE
          /\ up' = IF IsFront(queue, up.sample) THEN up ELSE [up EXCEPT !.pc = "look"]
    /\ UNCHANGED <<vars, proc, queue, net, replies, fate>>

\* The agent process is replaced: newTelemetrySequencer, a new queue, a new uploader.
RestartAgent ==
    /\ proc.boot + 1 \in Boots
    /\ proc' = [boot |-> proc.boot + 1, seq |-> 0]
    /\ queue' = <<>> /\ changed' = FALSE
    /\ up' = [pc |-> "look", sample |-> NoSample, try |-> 0]
    /\ replies' = {}
    /\ UNCHANGED <<vars, net, fate>>

\* The controller process is replaced: the overlay and the running handlers are gone.
RestartController ==
    /\ fate.faults < MaxFaults
    /\ ent' = NoEntry /\ calls' = {}
    /\ ghost' = [ghost EXCEPT !.forgotten = @ \cup DOMAIN ent.cursors]
    /\ fate' = [fate EXCEPT !.faults = @ + 1]
    /\ replies' = UNION {Reply(r.try, FALSE, "broken") : r \in calls} \cup replies
    /\ UNCHANGED <<clock, hist, avars, net>>

\* The connection of an exchange broke without an answer.
Broken(p) ==
    /\ p.code = "broken"
    /\ replies' = {}
    /\ up' = [up EXCEPT !.pc = IF IsFront(queue, up.sample) THEN "wait" ELSE "look"]
    /\ UNCHANGED <<vars, proc, queue, changed, net, fate>>

HTick == Tick /\ UNCHANGED <<avars, net, replies, fate>>

Uploader == Look \/ Wake \/ Post \/ Retrying \/ (\E p \in replies : Acked(p) \/ Refused(p) \/ Broken(p))
Controller == (\E r \in net : Arrive(r)) \/ (\E r \in calls : Answer(r))

HNext ==
    \/ HTick \/ collect \/ Uploader \/ Controller \/ Timeout
    \/ \E r \in net : Refuse(r)
    \/ RestartAgent \/ RestartController

HSpec == HInit /\ [][HNext]_hvars

(* The goroutines run, the retry timer fires, requests are handled.        *)
FairSpec ==
    /\ HSpec
    /\ WF_hvars(Uploader)
    /\ WF_hvars(Controller)

-----------------------------------------------------------------------------
(* Every sample the process collected is accounted for: it is still        *)
(* queued, or it was acknowledged, refused for good, or the oldest of a    *)
(* full queue.  A late answer never removes a sample it does not answer.   *)
NothingLost ==
    \A n \in 1..proc.seq :
        \/ \E i \in DOMAIN queue : queue[i].seq = n
        \/ <<proc.boot, n>> \in fate.acked \cup fate.settled \cup fate.dropped

(* A sample the agent let go because of a reliable acknowledgement is in   *)
(* the controller's history: the duplicate rule (sequence not above the    *)
(* cursor) never acknowledges a sample that was skipped.                   *)
AckedIsRecorded == \A s \in fate.acked : hist[s] >= 1

(* Once faults stop, the queue drains: neither a lost wake-up between the  *)
(* collector and the uploader nor a rejected sample blocks its head.       *)
QueueDrains == <>[](queue = <<>>)

(* Delivery accounts for every sample, on both sides.                      *)
DeliveryAccounted == NothingLost /\ AckedIsRecorded
=============================================================================
