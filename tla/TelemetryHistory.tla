-------------------------- MODULE TelemetryHistory --------------------------
(***************************************************************************)
(* The retained telemetry history of one node                              *)
(* (internal/controller/telemetry_history.go): heartbeats append records   *)
(* to a memory buffer, one background goroutine drains the buffer into a   *)
(* JSONL file and compacts that file, the operator changes the retention   *)
(* cap, and chart queries merge the file with the memory while all of this *)
(* goes on.                                                                *)
(*                                                                         *)
(* Every step below is one critical section (history.mu, capMu, the store  *)
(* lock) or one file-system call of the code.  A record is a number, given *)
(* in append order; every record has the same size, so the byte limits are *)
(* counted in records.  A line of the file is a record or Garbage, and     *)
(* file.open says that the last line has no newline yet.                   *)
(***************************************************************************)
EXTENDS Naturals, Sequences, FiniteSets, SequencesExt, FiniteSetsExt

CONSTANTS
  Caps,             \* retention caps the operator may save; 0 disables history
  DefaultCap,       \* DefaultTelemetryHistoryCap, until the cache is seeded
  FileLimit,        \* maxFileBytes
  CompactTarget,    \* compactTargetBytes
  VolatileLimit,    \* maxFileTelemetryHistoryVolatileBytes
  RecentLimit,      \* bound on the remembered probe and device identities
  MaxRecords, MaxPuts, MaxFaults, MaxCrashes, MaxQueries   \* bounds

HistoryAssumption ==
  /\ Caps \subseteq Nat /\ DefaultCap \in Nat \ {0}
  /\ CompactTarget \in 1 .. FileLimit /\ VolatileLimit \in Nat /\ RecentLimit \in Nat

Unseeded == MaxRecords + 1000   \* the tenant is absent from capByTenant
Unknown  == MaxRecords + 1000   \* fileLines = -1
Garbage  == 0                   \* a line that does not parse

VARIABLES
  settings,   \* the persisted TelemetryHistoryCap
  cached,     \* capByTenant, or Unseeded
  put,        \* a settings call between setCap's publication and applyCapChange
  hist,       \* nodeHist: buf, inflight, onDisk, epoch, fileLines, recent
  file,       \* the JSONL file: lines, open
  fl,         \* the history goroutine: pc, cap, loaded, batch, written
  pending,    \* maintenancePending holds the tenant
  q,          \* one chart query
  next,       \* the next new record
  used        \* spent budgets

vars == <<settings, cached, put, hist, file, fl, pending, q, next, used>>

Ids(s)      == {s[i] : i \in DOMAIN s} \ {Garbage}
Newest(s, n) == IF Len(s) <= n THEN s ELSE SubSeq(s, Len(s) - n + 1, Len(s))
Least(a, b) == IF a < b THEN a ELSE b
Top(S, n)   == {r \in S : Cardinality({x \in S : x > r}) < n}

CapFor == IF cached = Unseeded THEN DefaultCap ELSE cached

Works == UNCHANGED used
Fails == /\ used.faults < MaxFaults
         /\ used' = [used EXCEPT !.faults = @ + 1]

NoQuery == [pc |-> "idle", cap |-> 0, epoch |-> 0, vol |-> <<>>, answer |-> {},
            ids |-> {}, extra |-> 0]
Idle    == [pc |-> "idle", cap |-> 0, loaded |-> 0, job |-> "none", batch |-> <<>>, written |-> 0]
Fresh   == [buf |-> <<>>, inflight |-> <<>>, onDisk |-> FALSE, epoch |-> 0,
            fileLines |-> Unknown, recent |-> <<>>]

Init ==
  /\ settings \in Caps /\ cached = Unseeded
  /\ put = [pc |-> "idle", cap |-> 0]
  /\ hist = Fresh /\ file = [lines |-> <<>>, open |-> FALSE]
  /\ fl = Idle /\ pending = TRUE      \* run() starts with maintainExistingHistory
  /\ q = NoQuery /\ next = 1
  /\ used = [puts |-> 0, faults |-> 0, crashes |-> 0, queries |-> 0]

-----------------------------------------------------------------------------
(* The heartbeat path.                                                     *)

\* trimTelemetryHistoryBuffer: drop from the front to the cap and byte limit.
Trim(h, cap, limit) == [h EXCEPT !.buf = Newest(@, Least(cap, limit))]

\* The bytes the buffer may hold beside the batch being written.
Room(h) == IF Len(h.inflight) > VolatileLimit THEN 0 ELSE VolatileLimit - Len(h.inflight)

\* filterNewProbeAttempts and filterNewDeviceSamples: identities among the
\* remembered ones are not new, and remembering one may forget the oldest.
IsNew(h, r)    == r \notin Ids(h.recent)
Remember(h, r) == [h EXCEPT !.recent = Newest(Append(@, r), RecentLimit)]

\* appendRecord of a new observation, or of one a heartbeat repeats: nothing
\* is kept while history is disabled, and a recently seen identity is dropped.
AppendRecord(r) ==
  /\ r \in {next, next - 1} \ {0} /\ r <= MaxRecords
  /\ next' = IF r = next THEN next + 1 ELSE next
  /\ hist' = IF CapFor = 0 \/ ~IsNew(hist, r) THEN hist
             ELSE Trim([Remember(hist, r) EXCEPT !.buf = Append(@, r)], CapFor, Room(hist))
  /\ UNCHANGED <<settings, cached, put, file, fl, pending, q, used>>

-----------------------------------------------------------------------------
(* The cap: settings calls, and the seeding by the history goroutine.      *)

\* applyCapChange: a new coherence epoch and a trimmed buffer for a node that
\* has an entry; maintenance is due.
HasEntry(h) == h.recent # <<>> \/ h.fileLines # Unknown
ApplyCapChange(h, cap) ==
  IF HasEntry(h) THEN Trim([h EXCEPT !.epoch = @ + 1], cap, Room(h)) ELSE h

\* PutSettings and GetSettings, under the store lock: (save and) publish the
\* cap, then apply it when it is new to the cache.
Publish(c) ==
  /\ put.pc = "idle"
  /\ settings' = c /\ cached' = c
  /\ put' = IF cached = c THEN put ELSE [pc |-> "apply", cap |-> c]

PutSettings(c) ==
  /\ used.puts < MaxPuts /\ used' = [used EXCEPT !.puts = @ + 1]
  /\ Publish(c)
  /\ UNCHANGED <<hist, file, fl, pending, q, next>>

GetSettings ==
  /\ Publish(settings) /\ cached # settings
  /\ UNCHANGED <<hist, file, fl, pending, q, next, used>>

SetCapApply ==
  /\ put.pc = "apply" /\ put' = [put EXCEPT !.pc = "idle"]
  /\ hist' = ApplyCapChange(hist, put.cap) /\ pending' = TRUE
  /\ UNCHANGED <<settings, cached, file, fl, q, next, used>>

\* ensureSeeded: nothing to do for a seeded tenant, else a settings read that
\* takes the store lock.
SeedLoad ==
  /\ fl.pc = "seed"
  /\ \/ cached # Unseeded /\ fl' = [fl EXCEPT !.pc = "cap"]
     \/ cached = Unseeded /\ put.pc = "idle"
        /\ fl' = [fl EXCEPT !.pc = "install", !.loaded = settings]
  /\ UNCHANGED <<settings, cached, put, hist, file, pending, q, next, used>>

\* A settings call that got in between wins over the value just read.
SeedInstall ==
  /\ fl.pc = "install"
  /\ IF cached = Unseeded
       THEN cached' = fl.loaded /\ fl' = [fl EXCEPT !.pc = "seedapply"]
       ELSE cached' = cached /\ fl' = [fl EXCEPT !.pc = "cap"]
  /\ UNCHANGED <<settings, put, hist, file, pending, q, next, used>>

SeedApply ==
  /\ fl.pc = "seedapply" /\ fl' = [fl EXCEPT !.pc = "cap"]
  /\ hist' = ApplyCapChange(hist, fl.loaded) /\ pending' = TRUE
  /\ UNCHANGED <<settings, cached, put, file, q, next, used>>

-----------------------------------------------------------------------------
(* The history goroutine: the flush tick.                                  *)

\* flushOnce drains the buffer under the lock.
Drain ==
  /\ fl.pc = "idle" /\ hist.buf # <<>>
  /\ hist' = [hist EXCEPT !.inflight = hist.buf, !.buf = <<>>,
                          !.onDisk = FALSE, !.epoch = @ + 1]
  /\ fl' = [fl EXCEPT !.pc = "seed", !.job = "flush"]
  /\ UNCHANGED <<settings, cached, put, file, pending, q, next, used>>

DropFailed(h, cap) == [h EXCEPT !.inflight = <<>>, !.onDisk = FALSE, !.epoch = @ + 1]

\* clearInflight, and requeueInflight: the failed batch goes back in front.
ClearInflight(h) == [h EXCEPT !.inflight = <<>>, !.onDisk = FALSE, !.epoch = @ + 1]
RequeueInflight(h, cap) ==
  Trim([ClearInflight(h) EXCEPT !.buf = h.inflight \o h.buf], cap, VolatileLimit)

Requeue == hist' = RequeueInflight(hist, fl.cap) /\ fl' = Idle

\* prepareTelemetryHistoryBatch, and historyTailBounds: the newest lines that
\* fit a line limit and a byte limit.
PrepareBatch(s, cap)      == Newest(s, Least(cap, FileLimit))
HistoryTail(lines, n, bytes) == Newest(lines, Least(n, bytes))

\* capFor, and the batch writeHistoryJSONL selects; a disabled history drops
\* the batch and writes nothing.
ReadCap ==
  /\ fl.pc = "cap"
  /\ IF fl.job = "flush" /\ CapFor = 0
       THEN hist' = ClearInflight(hist) /\ fl' = Idle
       ELSE /\ hist' = hist
            /\ fl' = [fl EXCEPT !.cap = CapFor, !.written = 0,
                                !.pc = IF fl.job = "flush" THEN "repair" ELSE "compact",
                                !.batch = PrepareBatch(hist.inflight, CapFor)]
  /\ UNCHANGED <<settings, cached, put, file, pending, q, next, used>>

\* historyCompleteEnd: the lines up to the last newline.
CompleteLines(f) == IF f.open THEN Front(f.lines) ELSE f.lines

\* An interrupted append is truncated away, and synced, before a new one.
RepairTail ==
  /\ fl.pc = "repair"
  /\ \/ Fails /\ Requeue /\ UNCHANGED file
     \/ Works /\ fl' = [fl EXCEPT !.pc = "write"] /\ hist' = hist
        /\ file' = [lines |-> CompleteLines(file), open |-> FALSE]
  /\ UNCHANGED <<settings, cached, put, pending, q, next>>

\* A batch that does not fit: one atomic replacement of the file by the kept
\* suffix of the old lines and the batch.
Overflows == Len(fl.batch) + Len(file.lines) > FileLimit
OldKept   == HistoryTail(file.lines, fl.cap - Len(fl.batch),
                         IF CompactTarget < Len(fl.batch) THEN 0
                         ELSE CompactTarget - Len(fl.batch))
RewriteWithBatch ==
  /\ fl.pc = "write" /\ Overflows
  /\ \/ Fails /\ Requeue /\ UNCHANGED file
     \/ /\ Works /\ hist' = hist /\ fl' = [fl EXCEPT !.pc = "mark", !.written = Len(fl.batch)]
        /\ file' = [lines |-> OldKept \o fl.batch, open |-> FALSE]
  /\ UNCHANGED <<settings, cached, put, pending, q, next>>

\* A failed write or sync, with rollbackTelemetryHistoryAppend; a truncation
\* that fails as well is only logged, and leaves what was written.
RolledBack == [lines |-> SubSeq(file.lines, 1, Len(file.lines) - fl.written), open |-> FALSE]
FailedAppend ==
  /\ Requeue
  /\ \/ Fails /\ file' = RolledBack
     \/ /\ used.faults + 2 <= MaxFaults /\ used' = [used EXCEPT !.faults = @ + 2]
        /\ \/ file' = file
           \/ /\ fl.written < Len(fl.batch)
              /\ file' = [lines |-> Append(file.lines, Garbage), open |-> TRUE]

\* One writeTelemetryHistoryRecord of the append, or its failure.
AppendLine ==
  /\ fl.pc \in {"write", "append"} /\ (fl.pc = "write" => ~Overflows)
  /\ fl.written < Len(fl.batch)
  /\ \/ FailedAppend
     \/ /\ Works /\ hist' = hist
        /\ fl' = [fl EXCEPT !.pc = "append", !.written = @ + 1]
        /\ file' = [file EXCEPT !.lines = Append(@, fl.batch[fl.written + 1])]
  /\ UNCHANGED <<settings, cached, put, pending, q, next>>

\* Sync is the commit point.
SyncAppend ==
  /\ fl.pc = "append" /\ fl.written = Len(fl.batch)
  /\ \/ FailedAppend
     \/ Works /\ hist' = hist /\ fl' = [fl EXCEPT !.pc = "marklines"] /\ UNCHANGED file
  /\ UNCHANGED <<settings, cached, put, pending, q, next>>

\* countHistoryLinesBounded: the lines, up to one more than the threshold.
CountLines(limit) == Least(Len(file.lines), limit)

\* markInflightOnDisk, and the new line count: known after a rewrite, else
\* added to, else counted.
Marked(h) == [h EXCEPT !.onDisk = TRUE, !.epoch = @ + 1]
MarkInflightOnDisk ==
  /\ fl.pc \in {"mark", "marklines"}
  /\ LET lines == IF fl.pc = "mark" THEN Len(file.lines)
                  ELSE IF hist.fileLines # Unknown THEN hist.fileLines + Len(fl.batch)
                  ELSE CountLines(2 * fl.cap + 1)
     IN  /\ hist' = [Marked(hist) EXCEPT !.fileLines = lines]
         /\ fl' = [fl EXCEPT !.pc = IF fl.pc = "marklines"
                                       /\ (lines > 2 * fl.cap \/ Len(file.lines) > FileLimit)
                                    THEN "compact" ELSE "clear"]
  /\ UNCHANGED <<settings, cached, put, file, pending, q, next, used>>

\* compactJSONLContext after an append, or maintainHistoryFile of the tenant's
\* existing file: atomically keep the newest lines.  A failure is only logged.
Compact ==
  /\ fl.pc = "compact"
  /\ LET needed == \/ fl.job = "flush" \/ fl.cap = 0
                   \/ Len(file.lines) > FileLimit \/ Len(file.lines) > fl.cap
         kept   == HistoryTail(file.lines, fl.cap, CompactTarget)
     IN  \/ Fails /\ UNCHANGED <<file, hist>>
         \/ /\ Works
            /\ file' = IF needed THEN [lines |-> kept, open |-> file.open /\ kept # <<>>] ELSE file
            /\ hist' = IF needed THEN [hist EXCEPT !.fileLines = Len(kept)] ELSE hist
  /\ fl' = IF fl.job = "flush" THEN [fl EXCEPT !.pc = "clear"] ELSE Idle
  /\ UNCHANGED <<settings, cached, put, pending, q, next>>

FlushDone ==
  /\ fl.pc = "clear" /\ hist' = ClearInflight(hist) /\ fl' = Idle
  /\ UNCHANGED <<settings, cached, put, file, pending, q, next, used>>

\* The maintenance wake (and the startup pass): takePendingMaintenance, then
\* maintainHistoryTenant, which does nothing for a tenant with no file.
Maintain ==
  /\ fl.pc = "idle" /\ pending /\ pending' = FALSE
  /\ fl' = IF file.lines = <<>> THEN fl ELSE [fl EXCEPT !.pc = "seed", !.job = "maintain"]
  /\ UNCHANGED <<settings, cached, put, hist, file, q, next, used>>

Goroutine == \/ SeedLoad \/ SeedInstall \/ SeedApply \/ Drain \/ ReadCap \/ RepairTail
             \/ RewriteWithBatch \/ AppendLine \/ SyncAppend \/ MarkInflightOnDisk
             \/ Compact \/ FlushDone \/ Maintain

-----------------------------------------------------------------------------
(* A chart query: HandleNodeHistory and queryRecordsSnapshot.              *)

\* The handler reads the settings, which keeps the cache current, and answers
\* "disabled" for cap 0.
QueryStart ==
  /\ q.pc \in {"idle", "done"} /\ used.queries < MaxQueries /\ cached = settings /\ put.pc = "idle"
  /\ used' = [used EXCEPT !.queries = @ + 1]
  /\ q' = [NoQuery EXCEPT !.pc = IF settings = 0 THEN "idle" ELSE "cap"]
  /\ UNCHANGED <<settings, cached, put, hist, file, fl, pending, next>>

QueryCap ==
  /\ q.pc = "cap"
  /\ q' = IF CapFor = 0 THEN NoQuery ELSE [q EXCEPT !.pc = "snap", !.cap = CapFor]
  /\ UNCHANGED <<settings, cached, put, hist, file, fl, pending, next, used>>

\* The newest volatile suffix, and the epoch it belongs to.
Volatile == (IF hist.onDisk THEN <<>> ELSE hist.inflight) \o hist.buf
QuerySnapshot ==
  /\ q.pc = "snap"
  /\ q' = [q EXCEPT !.pc = "read", !.epoch = hist.epoch, !.vol = Newest(Volatile, q.cap)]
  /\ UNCHANGED <<settings, cached, put, hist, file, fl, pending, next, used>>

\* Lines that hold a second copy of an observation, or none at all.
Redundant == Len(file.lines) - Cardinality(Ids(file.lines))
             + Cardinality(Ids(file.lines) \cap Ids(Volatile))

\* readHistoryJSONLTail, with lines that do not parse skipped, and the exact
\* deduplication of the merged samples.
ReadTail(n) == HistoryTail(file.lines, n, FileLimit)
Dedupe(s)   == Ids(s)

\* The durable suffix in the slots the volatile one leaves; the merged answer
\* has every observation once.
QueryRead ==
  /\ q.pc = "read"
  /\ q' = [q EXCEPT !.pc = "check", !.extra = Redundant,
             !.ids = Ids(file.lines) \cup Ids(q.vol),
             !.answer = Dedupe(ReadTail(q.cap - Len(q.vol)) \o q.vol)]
  /\ UNCHANGED <<settings, cached, put, hist, file, fl, pending, next, used>>

\* Mutant: the epoch is not compared.
StableCap == CapFor = q.cap

\* The answer stands only if neither the epoch nor the cap has moved.
Stable == q.epoch = hist.epoch /\ CapFor = q.cap
QueryCheck ==
  /\ q.pc = "check"
  /\ q' = IF Stable THEN [q EXCEPT !.pc = "done"] ELSE [NoQuery EXCEPT !.pc = "cap"]
  /\ UNCHANGED <<settings, cached, put, hist, file, fl, pending, next, used>>

Query == QueryStart \/ QueryCap \/ QuerySnapshot \/ QueryRead \/ QueryCheck

-----------------------------------------------------------------------------
\* The process dies and is started again: memory is gone; a record half
\* written stays behind as a line without newline, whole or in part.
Crash ==
  /\ used.crashes < MaxCrashes /\ used' = [used EXCEPT !.crashes = @ + 1]
  /\ \/ file' = file
     \/ /\ fl.pc = "append" /\ fl.written < Len(fl.batch)
        /\ \E line \in {Garbage, fl.batch[fl.written + 1]} :
             file' = [lines |-> Append(file.lines, line), open |-> TRUE]
  /\ cached' = Unseeded /\ put' = [put EXCEPT !.pc = "idle"]
  /\ hist' = Fresh /\ fl' = Idle /\ pending' = TRUE /\ q' = NoQuery
  /\ UNCHANGED <<settings, next>>

Next == \/ \E r \in 1 .. MaxRecords : AppendRecord(r)
        \/ \E c \in Caps : PutSettings(c)
        \/ GetSettings \/ SetCapApply
        \/ Goroutine \/ Query \/ Crash

Spec == Init /\ [][Next]_vars

\* The history goroutine is a loop on a ticker and a wake channel, a settings
\* call runs to its end.
FairSpec == Spec /\ WF_vars(Goroutine) /\ WF_vars(SetCapApply)

-----------------------------------------------------------------------------
(* Properties.                                                             *)

\* A seeded cap cache is the persisted setting: a settings read or write and
\* the startup seeding, in whatever order they meet, never leave the history
\* following a cap the operator has replaced (setCap, ensureSeeded).
CacheTracksSettings == cached \in {Unseeded, settings}

\* What a chart query answers (queryRecordsSnapshotWithFilterContext) is a
\* gap-free run of the newest observations, at most cap of them, and every
\* one the cap admits, except that a copy of an observation which is on the
\* disk ahead of its commit (an append under way, or one that could be neither
\* finished nor rolled back) may take the place of the oldest.
QueryCoherent ==
  q.pc = "done" =>
    \E k \in 0 .. q.cap : /\ q.answer = Top(q.ids, k)
                          /\ k + q.extra >= Least(q.cap, Cardinality(q.ids))

\* The file never outgrows its byte ceiling, at no point of an append or a
\* rewrite, and the buffer with the batch in flight stay within the volatile
\* one, also after failed writes are queued again.
BytesBounded ==
  /\ Len(file.lines) <= FileLimit
  /\ Len(hist.buf) + Len(hist.inflight) <= VolatileLimit

\* The observations held, on disk (complete lines) or in memory.
Held == Ids(CompleteLines(file)) \cup Ids(hist.inflight) \cup Ids(hist.buf)

\* The smallest cap in force for an operation under way.
CapInForce ==
  LET caps == {CapFor} \cup (IF put.pc = "apply" THEN {put.cap} ELSE {})
              \cup (IF fl.pc \in {"install", "seedapply"} THEN {fl.loaded} ELSE {})
              \cup (IF fl.pc \in {"idle", "seed", "install", "seedapply", "cap"} THEN {}
                    ELSE {fl.cap})
  IN  CHOOSE c \in caps : \A d \in caps : c <= d

\* Lines that take a slot and hold no observation of their own, a torn tail
\* included.
SpentSlots == Redundant + Cardinality({l \in {file.open} : l /\ Last(file.lines) # Garbage})

\* No failed write, requeue, repair, rewrite, compaction or cap change ever
\* loses one of the newest observations the caps in force admit, less the
\* slots spent on torn or repeated lines; only a crash does (flushOnce,
\* writeHistoryJSONL, maintainHistoryTenant).  A condition on a step.
NewestKept ==
  used'.crashes = used.crashes =>
    LET cap == Least(CapInForce, CapInForce')
    IN  Top(Held \cup Held', cap - Least(cap, SpentSlots)) \subseteq Held'

\* In memory an observation is held once: a repeated heartbeat adds no second
\* copy, and a failed batch is queued again without one (appendRecord,
\* requeueInflight).
HeldOnce ==
  LET vol == hist.inflight \o hist.buf IN Cardinality(Ids(vol)) = Len(vol)

\* Once the operator settles on a cap, the file of the node keeps returning
\* within twice that cap, and a disabled history is emptied for good, across
\* crashes at any point (scheduleMaintenance, maintainExistingHistory).
CapConverges ==
  /\ \A c \in Caps : <>[](settings = c) => []<>(Len(file.lines) <= 2 * c)
  /\ <>[](settings = 0) => <>[](file.lines = <<>>)

\* What the history holds and answers: coherent queries, each observation once in
\* memory, the saved cap, and both byte limits.
HistoryCoherent == QueryCoherent /\ HeldOnce /\ CacheTracksSettings /\ BytesBounded
=============================================================================
