-------------------------- MODULE TelemetryOverlay --------------------------
(***************************************************************************)
(* The controller's volatile telemetry overlay of one node                 *)
(* (internal/controller/storecore_telemetry.go).  Heartbeats, reports and  *)
(* polls of the node are handled concurrently: a handler reads the         *)
(* controller clock first and takes telemetryMu afterwards, so calls reach *)
(* the overlay in any order of their time stamps.  A reliable heartbeat    *)
(* carries the boot of the agent process and a sequence number; a heartbeat*)
(* whose metadata headers were stripped on the way carries neither.  The   *)
(* overlay decides which boot owns the live view, which samples are        *)
(* retries, and which claim of executable capabilities is believed.        *)
(*                                                                         *)
(* Abstractions: a metrics map is its agent_capabilities advertisement     *)
(* (the only key the overlay's control flow reads); conditions are the     *)
(* receipt time they were stamped with; time is a small counter and the    *)
(* zero time.Time is 0; boots are numbers because equal ages are decided   *)
(* by the order of the boot ids.                                           *)
(***************************************************************************)
EXTENDS Integers, FiniteSets, Functions, TLC

CONSTANTS
    Boots,                          \* boot ids of the agent's processes
    Caps,                           \* capability advertisements a body may carry
    MaxSeq,                         \* bound: sequence numbers of one boot
    MaxTime,                        \* bound: controller and agent clocks
    MaxCalls,                       \* bound: requests over the behaviour
    MaxOpen,                        \* bound: requests handled at one time
    Kinds,                          \* the kinds of request of this instance
    maxTelemetrySequenceCursors,
    maxTelemetryRetiredBoots,
    maxTelemetryReplayAge,
    maxTelemetryFutureSkew,
    telemetryBootStaleSlack

BootsArePositive == Boots \subseteq Nat \ {0}
TwoCursorsFit == maxTelemetrySequenceCursors \in Nat \ {0, 1}

VARIABLES
    clock,       \* the controller's clock
    ent,         \* volatileTelemetry of the node
    calls,       \* requests past time.Now(), before telemetryMu
    hist,        \* how often each sample was appended to the history
    ghost        \* what the properties remember

vars == <<clock, ent, calls, hist, ghost>>

NoBoot == 0
Zero == 0                   \* the zero time.Time
Absent == "absent"          \* a metrics map without agent_capabilities
Times == 1..MaxTime
NoCursor == [seq |-> 0, sampled |-> Zero, received |-> Zero]
Later(a, b) == IF a > b THEN a ELSE b
Without(f, b) == Restrict(f, DOMAIN f \ {b})

NoEntry ==
    [set |-> FALSE, writtenAt |-> Zero, conds |-> Zero, caps |-> Absent,
     lastSeen |-> Zero, cursors |-> [b \in {} |-> NoCursor],
     retired |-> [b \in {} |-> Zero], active |-> NoBoot, activeSampled |-> Zero]

-----------------------------------------------------------------------------
(* Helpers of the overlay.                                                 *)

\* normalizeTelemetrySampleTime's second result.
Trusted(sampled, received) ==
    /\ sampled >= received - maxTelemetryReplayAge
    /\ sampled <= received + maxTelemetryFutureSkew

Oldest(age, among) ==
    CHOOSE b \in among : \A c \in among : age[b] < age[c] \/ (age[b] = age[c] /\ b <= c)

rememberRetiredTelemetryBoot(retired, b, at) ==
    LET full == b \notin DOMAIN retired /\ Cardinality(DOMAIN retired) >= maxTelemetryRetiredBoots
        kept == IF full THEN Without(retired, Oldest(retired, DOMAIN retired)) ELSE retired
    IN  (b :> at) @@ kept

\* evictOldestTelemetryCursor never takes the owner's cursor while another is there.
evictOldestTelemetryCursor(cursors, protected) ==
    LET among == IF Cardinality(DOMAIN cursors) > 1 THEN DOMAIN cursors \ {protected} ELSE DOMAIN cursors
    IN  Oldest([b \in DOMAIN cursors |-> cursors[b].received], among)

\* The age under which the owner is remembered when it is retired.
RetiredAt(e, cursors) ==
    IF e.active \in DOMAIN cursors THEN cursors[e.active].received ELSE e.activeSampled

Seen(e, at) == [e EXCEPT !.lastSeen = Later(@, at)]

\* recordTelemetryLocked without its append: a stale write is dropped.
Write(e, caps, at) ==
    LET s == Seen(e, at)
    IN  IF s.set /\ at < s.writtenAt
          THEN s
          ELSE [s EXCEPT !.conds = at, !.caps = caps, !.set = TRUE, !.writtenAt = at]

refreshTelemetryOverlayFromReport(e, at) ==
    LET s == Seen(e, at)
    IN  IF s.set /\ at < s.writtenAt
          THEN s
          ELSE [s EXCEPT !.conds = at, !.set = TRUE, !.writtenAt = at]

-----------------------------------------------------------------------------
(* RecordTelemetry: a heartbeat without delivery metadata.                 *)

CapabilityReplacement(e, caps) == caps = Absent \/ (e.caps # Absent /\ e.caps # caps)

RecordTelemetry(e, r) ==
    LET replaces == e.set /\ r.at >= e.writtenAt /\ e.active # NoBoot /\ CapabilityReplacement(e, r.caps)
        disowned == [e EXCEPT !.retired = rememberRetiredTelemetryBoot(@, e.active, RetiredAt(e, e.cursors)),
                              !.active = NoBoot, !.activeSampled = Zero]
    IN  Write(IF replaces THEN disowned ELSE e, r.caps, r.at)

-----------------------------------------------------------------------------
(* RecordTelemetrySequenced: a reliable heartbeat.                         *)

Cursor(e, b) == IF b \in DOMAIN e.cursors THEN e.cursors[b] ELSE NoCursor
IsDuplicateOfAnyBoot(e, r) == \E b \in DOMAIN e.cursors : r.seq <= e.cursors[b].seq
IsDuplicate(e, r) == r.boot \in DOMAIN e.cursors /\ r.seq <= Cursor(e, r.boot).seq
CrossBoot(e, r) == e.active # NoBoot /\ e.active # r.boot
NewerSample(e, r) == e.activeSampled = Zero \/ r.sampled > e.activeSampled
Ambiguous(e, r) == CrossBoot(e, r) /\ ~(Trusted(r.sampled, r.at) /\ NewerSample(e, r))

\* A live decision that trusts a newer clock reading over the retirement of the boot.
LiveByClock(e, r) ==
    LET trusted == Trusted(r.sampled, r.at)
    IN  CrossBoot(e, r) =>
          IF r.boot \in DOMAIN e.cursors
            THEN trusted /\ NewerSample(e, r)
            ELSE ~(trusted /\ e.activeSampled # Zero /\ r.sampled < e.activeSampled - telemetryBootStaleSlack)

\* May this sample own the live view?
Live(e, r) ==
    /\ r.boot \notin DOMAIN e.retired
    /\ CrossBoot(e, r) =>
         LET trusted == Trusted(r.sampled, r.at)
         IN  IF r.boot \in DOMAIN e.cursors
               THEN trusted /\ NewerSample(e, r)
               ELSE ~(trusted /\ e.activeSampled # Zero /\ r.sampled < e.activeSampled - telemetryBootStaleSlack)

\* The observation time: the agent's clock where it is usable, else the receipt time.
HistoryAt(e, r) ==
    LET backwards == r.sampled < Cursor(e, r.boot).sampled
        h == IF Trusted(r.sampled, r.at) /\ ~backwards THEN r.sampled ELSE r.at
    IN  IF Live(e, r) /\ h < e.activeSampled THEN r.at ELSE h

\* The cursor update: room is made for an unseen boot, the evicted one is retired.
Advance(e, r) ==
    LET crowded == r.boot \notin DOMAIN e.cursors /\ Cardinality(DOMAIN e.cursors) >= maxTelemetrySequenceCursors
        out == evictOldestTelemetryCursor(e.cursors, e.active)
        c == Cursor(e, r.boot)
        roomy == IF crowded
                   THEN [e EXCEPT !.cursors = Without(@, out),
                                  !.retired = rememberRetiredTelemetryBoot(@, out, e.cursors[out].received)]
                   ELSE e
    IN  [roomy EXCEPT !.cursors = (r.boot :> [seq |-> r.seq, sampled |-> Later(c.sampled, r.sampled),
                                              received |-> Later(c.received, r.at)]) @@ @]

Retry(e, r) ==
    Seen([e EXCEPT !.cursors = [b \in DOMAIN @ |-> IF b = r.boot THEN [@[b] EXCEPT !.received = Later(@, r.at)]
                                                                 ELSE @[b]]], r.at)

\* The capability claim of the owner is dropped at an ambiguous change of boot.
FailClosed(e, r) == IF Ambiguous(e, r) THEN [e EXCEPT !.caps = Absent] ELSE e

\* The overlay with the cursor of the sample advanced, and with its boot as the owner.
Noted(e, r) == Seen(Advance(FailClosed(e, r), r), r.at)
Owned(e, r) ==
    LET a == Noted(e, r)
    IN  [a EXCEPT !.retired = IF CrossBoot(e, r)
                                THEN rememberRetiredTelemetryBoot(@, e.active, RetiredAt(e, a.cursors))
                                ELSE @,
                  !.active = r.boot,
                  !.activeSampled = Later(@, HistoryAt(e, r))]

Accept(e, r) ==
    IF Live(e, r) THEN Write(Owned(e, r), IF Ambiguous(e, r) THEN Absent ELSE r.caps, r.at)
                  ELSE Noted(e, r)

RecordTelemetrySequenced(e, r) == IF IsDuplicate(e, r) THEN Retry(e, r) ELSE Accept(e, r)

-----------------------------------------------------------------------------
Sequenced == [kind : {"sequenced"}, boot : Boots, seq : 1..MaxSeq, sampled : Times, caps : Caps \cup {Absent}]
Plain == [kind : {"plain", "report", "poll"}, boot : {NoBoot}, seq : {0}, sampled : {Zero}, caps : Caps \cup {Absent}]
Requests == {r \in Sequenced \cup Plain :
                r.kind \in Kinds /\ (r.kind \in {"report", "poll"} => r.caps = Absent)}
Stamped(r, t) == [kind |-> r.kind, boot |-> r.boot, seq |-> r.seq, sampled |-> r.sampled, caps |-> r.caps, at |-> t]

Init ==
    /\ clock = 1
    /\ ent = NoEntry
    /\ calls = {}
    /\ hist = [s \in Boots \X (1..MaxSeq) |-> 0]
    /\ ghost = [superseded |-> {}, forgotten |-> {}, revived |-> FALSE,
              newest |-> Zero, made |-> 0]

Tick == clock < MaxTime /\ clock' = clock + 1 /\ UNCHANGED <<ent, calls, hist, ghost>>

\* HandleTelemetry, HandleReport, HandlePoll up to the overlay's mutex.
Handle ==
    /\ Cardinality(calls) < MaxOpen /\ ghost.made < MaxCalls
    /\ \E r \in Requests : calls' = calls \cup {Stamped(r, clock)}
    /\ ghost' = [ghost EXCEPT !.made = @ + 1]
    /\ UNCHANGED <<clock, ent, hist>>

\* The overlay after request r.
Apply(e, r) ==
    CASE r.kind = "sequenced" -> RecordTelemetrySequenced(e, r)
      [] r.kind = "plain" -> RecordTelemetry(e, r)
      [] r.kind = "report" -> refreshTelemetryOverlayFromReport(e, r.at)
      [] r.kind = "poll" -> Seen(e, r.at)

Appended(e, r) == r.kind = "sequenced" /\ ~IsDuplicate(e, r)
Writes(e, r) ==
    \/ r.kind \in {"plain", "report"}
    \/ r.kind = "sequenced" /\ ~IsDuplicate(e, r) /\ Live(e, r)

\* One critical section of telemetryMu.
Record(r) ==
    LET e == Apply(ent, r)
    IN  /\ ent' = e
        /\ calls' = calls \ {r}
        /\ hist' = IF Appended(ent, r) THEN [hist EXCEPT ![<<r.boot, r.seq>>] = @ + 1] ELSE hist
        /\ ghost' = [ghost EXCEPT
                       !.superseded = @ \cup ({ent.active} \ {NoBoot, e.active}),
                       !.forgotten = @ \cup (DOMAIN ent.cursors \ DOMAIN e.cursors),
                       !.revived = @ \/ (e.caps \notin {ent.caps, Absent} /\ r.boot \in ghost.superseded),
                       !.newest = IF Writes(ent, r) THEN Later(@, r.at) ELSE @]
        /\ UNCHANGED clock

Next == Tick \/ Handle \/ \E r \in calls : Record(r)

Spec == Init /\ [][Next]_vars

-----------------------------------------------------------------------------
(* A sample is appended to the history once, however often and however     *)
(* late it is retried, while its boot's cursor is remembered               *)
(* (recordTelemetryLocked, "exactly once").                                *)
HistoryOnce ==
    \A s \in DOMAIN hist : hist[s] > 1 => s[1] \in ghost.forgotten

(* A boot that lost the live view to a successor never owns it again while *)
(* the memory of retired boots is large enough to hold it, whatever its    *)
(* clock says ("must never reauthorize itself").                           *)
SupersededStaysOut ==
    Cardinality(Boots) <= maxTelemetryRetiredBoots => ent.active \notin ghost.superseded

(* The owner of the live view always has a cursor, so its retries are      *)
(* recognised: making room for an unseen boot, which keeps both memories   *)
(* of boots within their limits, never evicts it.                          *)
OwnerHasCursor ==
    /\ ent.active # NoBoot => ent.active \in DOMAIN ent.cursors
    /\ Cardinality(DOMAIN ent.cursors) <= maxTelemetrySequenceCursors
    /\ Cardinality(DOMAIN ent.retired) <= maxTelemetryRetiredBoots

(* The conditions shown are those of the newest receipt that wrote the     *)
(* live view, in whatever order concurrent heartbeats and reports reached  *)
(* the mutex (the writtenAt gate).                                         *)
NewestWins == ent.set => ent.conds = ghost.newest

(* A delayed sample of a boot that was superseded never puts a capability  *)
(* claim back into the live view (RecordTelemetry, "cannot restore         *)
(* executable-policy readiness").                                          *)
ReadinessNotRevived ==
    Cardinality(Boots) <= maxTelemetryRetiredBoots => ~ghost.revived

(* The live view of a node belongs to its newest boot, and the history     *)
(* holds a sample once.                                                    *)
ViewHeld == SupersededStaysOut /\ ReadinessNotRevived /\ OwnerHasCursor /\ HistoryOnce
=============================================================================
