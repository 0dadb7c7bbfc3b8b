---------------------------- MODULE HistoryChart ----------------------------
(***************************************************************************)
(* What the node-history endpoint makes of the retained samples            *)
(* (internal/api/telemetry_history.go, internal/probemetric): which probe  *)
(* attempts are admitted to the history, which streams a request selects,  *)
(* how wide the buckets become under the response budget, and how samples  *)
(* fall into buckets.                                                      *)
(*                                                                         *)
(* Samples arrive one at a time, then one request is answered.  Time is a  *)
(* natural number of seconds; the value of a resource or device sample is  *)
(* a function of its time.                                                 *)
(***************************************************************************)
EXTENDS Naturals, Sequences, FiniteSets, FiniteSetsExt, SequencesExt

CONSTANTS
  Horizon,        \* the last instant a sample may have
  Origins,        \* window starts a request may ask for
  Windows,        \* window lengths a request may ask for
  Steps,          \* explicit steps a request may ask for; 0 is Auto
  ProbeIDs, Hosts,\* a probe stream is a probe id with its destination
  Devices,        \* device ids, all of one kind
  Cadences,       \* intervals a resource sample may advertise; 0 is none
  Budget,         \* maxHistoryBuckets
  MaxSeries,      \* maxProbeHistorySeries
  AutoFloor,      \* autoHistoryStepFloor
  MinStep,        \* minHistoryStep
  MaxSkew,        \* age and future skew an attempt may have
  MaxSamples      \* bound on the samples taken

ChartAssumption ==
  /\ MaxSeries \in Nat \ {0} /\ Budget \in Nat /\ Budget >= 2 * (MaxSeries + 2)
  /\ AutoFloor \in Nat \ {0} /\ MinStep \in Nat \ {0}
  /\ Windows \subseteq Nat \ {0} /\ Steps \subseteq Nat

VARIABLES
  resources, probes, devices,   \* the samples in the history, by family
  response                      \* the answer, with what it was asked and saw

vars == <<resources, probes, devices, response>>

-----------------------------------------------------------------------------
(* Admission of a probe attempt (probemetric).                             *)

Statuses == {"pending", "success", "failure"}
Reasons  == {"none", "timeout", "unexpected_status"}

\* A result row: the destination is a URL or not; lat is the latency or None.
None == Horizon + 100
Results == [id : ProbeIDs, host : Hosts, url : BOOLEAN, status : Statuses,
            actual : {"absent", "expected", "other"}, lat : {0, None},
            reason : Reasons, at : (0 .. Horizon) \cup {None}]

\* Valid: the closed shape of a result row.
Valid(r, allowPending) ==
  /\ ~r.url => r.actual = "absent"
  /\ \/ /\ r.status = "pending" /\ allowPending
        /\ r.at = None /\ r.lat = None /\ r.actual = "absent" /\ r.reason = "none"
     \/ /\ r.status = "success" /\ r.at # None /\ r.lat # None /\ r.reason = "none"
        /\ r.url => r.actual = "expected"
     \/ /\ r.status = "failure" /\ r.at # None
        /\ IF r.url /\ r.reason = "unexpected_status"
             THEN r.lat # None /\ r.actual = "other"
             ELSE r.lat = None /\ r.actual = "absent" /\ r.reason = "timeout"

Completed(r) == r.status \in {"success", "failure"}

\* The history keeps no actual status: the row a stored sample is checked as.
Witness(r) ==
  [r EXCEPT !.actual = IF ~r.url THEN "absent"
                       ELSE IF r.status = "success" THEN "expected"
                       ELSE IF r.status = "failure" /\ r.reason = "unexpected_status" THEN "other"
                       ELSE "absent"]
ValidHistoryProjection(r) == Completed(r) /\ r.actual = "absent" /\ Valid(Witness(r), FALSE)

\* probeHistorySamplesFromRaw: completed rows whose own clock is near the
\* heartbeat's.
Admitted(r, at) == /\ Valid(r, TRUE) /\ Completed(r)
                   /\ r.at + MaxSkew >= at /\ r.at <= at + MaxSkew
Stored(r) == [r EXCEPT !.actual = "absent"]

\* SeriesID: one identity for one exact destination.
SeriesID(r) == <<r.id, r.url, r.host>>

-----------------------------------------------------------------------------
(* Selection.                                                              *)

\* A probe selector as the query string gives it: which fields are present.
Selectors == [id : ProbeIDs \cup {None}, type : {"icmp", "url", "absent"}, host : Hosts \cup {None},
              target : Hosts \cup {None}, include : BOOLEAN]

\* parseTelemetryHistoryEncodingOptions: no selector at all, or one complete
\* for its type with no field of another type.
HasSelector(s) == s.type # "absent" \/ \E f \in {s.id, s.host, s.target} : f # None
ParseOK(s) ==
  HasSelector(s) =>
    /\ s.include /\ s.id # None
    /\ \/ s.type = "icmp" /\ s.host # None /\ s.target = None
       \/ s.type = "url" /\ s.target # None /\ s.host = None

\* parseDeviceHistoryEncodingOptions: devices are included with an exact
\* selector or not at all.
DeviceOptions == {[include |-> FALSE, id |-> None]} \cup [include : BOOLEAN, id : Devices \cup {None}]
DeviceParseOK(d) == d.include = (d.id # None)

\* probeHistorySelector.matches
Matches(s, p) == /\ p.id = s.id /\ p.url = (s.type = "url")
                 /\ p.host = IF p.url THEN s.target ELSE s.host

FilterProbes(ps, s) ==
  {p \in ps : s.include /\ (HasSelector(s) => Matches(s, p))}
FilterDevices(ds, d) == {x \in ds : d.include /\ x.id = d.id}

-----------------------------------------------------------------------------
(* The step.                                                               *)

CeilDiv(d, n) == (d + n - 1) \div n
Biggest(S)    == CHOOSE x \in S : \A y \in S : y <= x
TS(S)         == {x.at : x \in S}

\* autoHistoryStep: the newest advertised cadence, else the lower median of
\* the gaps between samples.
Deltas(S) == LET ts == SetToSortSeq(TS(S), <)
             IN  SortSeq([i \in 1 .. Len(ts) - 1 |-> ts[i + 1] - ts[i]], <)
AutoStep(S) ==
  LET advertised == {x \in S : x.interval > 0}
      newest     == {x \in advertised : x.at = Biggest(TS(advertised))}
  IN  IF advertised # {} THEN (CHOOSE x \in newest : TRUE).interval
      ELSE IF Cardinality(TS(S)) < 3 THEN AutoFloor
      ELSE Deltas(S)[(Len(Deltas(S)) - 1) \div 2 + 1]

EffectiveStep(window, requested, S) ==
  Biggest({CeilDiv(window, Budget - 1)} \cup
          IF requested = 0 THEN {AutoStep(S), AutoFloor} ELSE {requested, MinStep})

\* telemetryHistoryStreamCount
StreamCount(rs, ps, ds) ==
  LET series == Cardinality({SeriesID(p) : p \in ps})
      n == (IF rs = {} THEN 0 ELSE 1) + (IF ds = {} THEN 0 ELSE 1)
           + (IF series > MaxSeries THEN MaxSeries ELSE series)
  IN  IF n = 0 THEN 1 ELSE n

\* effectiveHistoryStepForStreams: each stream has its share of the budget and
\* gives one bucket of it to the window's partial edge.
PerStream(streams) == Biggest({Budget \div streams, 2})
StepForStreams(window, requested, S, streams) ==
  Biggest({EffectiveStep(window, requested, S), CeilDiv(window, PerStream(streams) - 1)})

-----------------------------------------------------------------------------
(* Buckets.                                                                *)

\* Mutant: buckets are anchored at the start of the window.
BucketFromWindow(t, step, from) == t - ((t - from) % step)

\* historyBucketStart: on the epoch grid, whatever the window.
BucketStart(t, step, from) == t - (t % step)

\* aggAcc of the values of f: the extremes, and the count and sum that make the average.
Agg(f) ==
  LET values == {f[x] : x \in DOMAIN f}
  IN  IF values = {} THEN [min |-> 0, max |-> 0, n |-> 0, sum |-> 0]
      ELSE [min |-> CHOOSE v \in values : \A w \in values : v <= w,
            max |-> Biggest(values),
            n |-> Cardinality(DOMAIN f), sum |-> MapThenSumSet(LAMBDA x : f[x], DOMAIN f)]

InBucket(S, step, a, b) == {x \in S : BucketStart(x.at, step, a) = b}
Starts(S, step, a)      == {BucketStart(t, step, a) : t \in TS(S)}
Load(x) == x.at % 3

\* aggregateHistory: buckets without a sample are omitted.
AggregateHistory(S, step, a) ==
  [b \in Starts(S, step, a) |-> Agg([x \in InBucket(S, step, a, b) |-> Load(x)])]

\* aggregateProbeHistory: the series attempted last (ties broken by identity),
\* each with its buckets.
Latest(ps, id) == Biggest(TS({p \in ps : SeriesID(p) = id}))
KeptSeries(ps) ==
  LET ids == {SeriesID(p) : p \in ps}
      n   == IF Cardinality(ids) > MaxSeries THEN MaxSeries ELSE Cardinality(ids)
  IN  CHOOSE kept \in SUBSET ids :
        /\ Cardinality(kept) = n
        /\ \A k \in kept, d \in ids \ kept : Latest(ps, k) >= Latest(ps, d)
ProbeBucket(S) ==
  [attempts |-> Cardinality(S),
   successes |-> Cardinality({p \in S : p.status = "success"}),
   failures |-> Cardinality({p \in S : p.status = "failure"}),
   latency |-> Agg([p \in {q \in S : q.lat # None} |-> p.lat])]
AggregateProbes(ps, step, a) ==
  [id \in KeptSeries(ps) |->
     LET S == {p \in ps : SeriesID(p) = id}
     IN  [b \in Starts(S, step, a) |-> ProbeBucket(InBucket(S, step, a, b))]]

\* aggregateDeviceHistory, of the one selected device.
AggregateDevices(S, step, a) ==
  [b \in Starts(S, step, a) |-> Agg([x \in InBucket(S, step, a, b) |-> Load(x)])]

-----------------------------------------------------------------------------
InWindow(S, a, w) == {x \in S : x.at \in a .. a + w}

NoResponse == [step |-> 0]

Init == /\ resources = {} /\ probes = {} /\ devices = {} /\ response = NoResponse

Open == response = NoResponse
More == Open /\ Cardinality(resources \cup probes \cup devices) < MaxSamples

\* A heartbeat of instant `at` brings samples; a probe row keeps its own time.
AddResource(at, interval) ==
  /\ More /\ resources' = resources \cup {[at |-> at, interval |-> interval]}
  /\ UNCHANGED <<probes, devices, response>>
AddProbe(r, at) ==
  /\ More /\ Admitted(r, at) /\ probes' = probes \cup {Stored(r)}
  /\ UNCHANGED <<resources, devices, response>>
AddDevice(at, id) ==
  /\ More /\ devices' = devices \cup {[at |-> at, id |-> id]}
  /\ UNCHANGED <<resources, probes, response>>

\* HandleNodeHistory: the answer to one request.
HandleNodeHistory(from, w, requested, sel, dev) ==
  /\ Open /\ ParseOK(sel) /\ DeviceParseOK(dev)
  /\ LET rs   == InWindow(resources, from, w)
         ps   == FilterProbes(InWindow(probes, from, w), sel)
         ds   == FilterDevices(InWindow(devices, from, w), dev)
         step == StepForStreams(w, requested, rs, StreamCount(rs, ps, ds))
     IN  response' = [step |-> step, from |-> from, window |-> w, requested |-> requested,
                      sel |-> sel,
                      buckets |-> AggregateHistory(rs, step, from),
                      probes  |-> AggregateProbes(ps, step, from),
                      devices |-> AggregateDevices(ds, step, from)]
  /\ UNCHANGED <<resources, probes, devices>>

Collect == \/ \E at \in 0 .. Horizon, i \in Cadences : AddResource(at, i)
           \/ \E r \in Results, at \in 0 .. Horizon : AddProbe(r, at)
           \/ \E at \in 0 .. Horizon, id \in Devices : AddDevice(at, id)
Answer  == \E a \in Origins, w \in Windows, s \in Steps, sel \in Selectors, d \in DeviceOptions :
             HandleNodeHistory(a, w, s, sel, d)

Next == (More /\ Collect) \/ (Open /\ Answer)

Spec == Init /\ [][Next]_vars

-----------------------------------------------------------------------------
(* Properties.                                                             *)

Answered == response # NoResponse
Seen(S)  == InWindow(S, response.from, response.window)

\* Whatever the request selects, and wherever its window lies on the bucket
\* grid, the streams of a response share at most maxHistoryBuckets buckets
\* between them (effectiveHistoryStepForStreams, historyBucketStart).
BudgetHeld ==
  Answered =>
    \A n \in 1 .. MaxSeries + 2 :
      LET a    == response.from
          step == StepForStreams(response.window, response.requested, Seen(resources), n)
      IN  n * Cardinality({BucketStart(t, step, a) : t \in a .. a + response.window}) <= Budget

\* A request for a window one second later shows every bucket that lies within
\* both windows with the same contents: a chart that slides never re-phases
\* (aggregateHistory).
SlidingStable ==
  Answered =>
    LET later == AggregateHistory(InWindow(resources, response.from + 1, response.window),
                                  response.step, response.from + 1)
        shared == response.from + 1 .. response.from + response.window - response.step
    IN  \A b \in shared :
          /\ (b \in DOMAIN response.buckets) = (b \in DOMAIN later)
          /\ b \in DOMAIN later => response.buckets[b] = later[b]

\* A probe selector shows one destination: a probe id that was pointed at
\* another host, or at a URL, keeps its earlier history apart (Matches,
\* SeriesID).
ExactSelection ==
  Answered => Cardinality(DOMAIN response.probes) <=
                IF HasSelector(response.sel) THEN 1 ELSE MaxSeries

\* Of every series shown, each attempt inside the window is counted in exactly
\* one bucket, as a success or as a failure, and a bucket without a latency is
\* a gap, not a zero (aggregateProbeHistory).
AttemptsConserved ==
  Answered =>
    \A id \in DOMAIN response.probes :
      LET buckets == response.probes[id]
          shown   == {p \in Seen(probes) : SeriesID(p) = id}
          Attempts(b) == buckets[b].attempts
      IN  /\ MapThenSumSet(Attempts, DOMAIN buckets) = Cardinality(shown)
          /\ \A b \in DOMAIN buckets :
               /\ buckets[b].attempts = buckets[b].successes + buckets[b].failures
               /\ (buckets[b].latency.n = 0) =
                    (\A p \in InBucket(shown, response.step, response.from, b) : p.lat = None)

\* What the history admits from the wire it also accepts back from its own
\* file, although the stored row has lost the HTTP status it was admitted with
\* (Valid, ValidHistoryProjection).
StoredStaysValid == \A p \in probes : ValidHistoryProjection(p)

\* A chart shows the history as it is: attempts conserved, one destination per
\* selector, buckets that do not change when the window slides, no row lost.
ChartFaithful == AttemptsConserved /\ ExactSelection /\ SlidingStable /\ StoredStaysValid
=============================================================================
