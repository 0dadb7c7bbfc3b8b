----------------------------- MODULE ProbeRunner -----------------------------
(***************************************************************************)
(* The agent's active-probe scheduler, internal/agent/probe_runner.go.     *)
(* Every heartbeat calls Sample: it reads the verified policy from the     *)
(* state file, reconciles the probe runtimes with it, starts a goroutine   *)
(* for each runtime that has none and returns a snapshot.  A goroutine     *)
(* loops: wait, take one of the slots, check under the lock that its       *)
(* runtime is still the current one, attempt, check again, publish.        *)
(*                                                                         *)
(* A runtime is a pointer in the code: here a record with a serial number, *)
(* so that one made again for the same probe is a different one.           *)
(***************************************************************************)
EXTENDS Naturals, Sequences, FiniteSets, SequencesExt

CONSTANTS
    Policies,       \* set of policies: functions from probe ids to
                    \* [dest, every] (destination, cadence)
    MaxSlots,       \* maxConcurrentProbes
    Window,         \* probemetric.MaxRecentSamples
    MaxChanges      \* bound on changes of the state file

VARIABLES
    disk,           \* the state file: a policy; NoPolicy: none or corrupt
    changes,
    hb,             \* the heartbeat inside Sample: [pc, policy]
    probes,         \* the current runtimes, by probe id
    running,        \* runtimes whose running flag is set
    cancelled,      \* runtimes whose context is cancelled
    gor,            \* goroutines: [rt, pc]
    slots,          \* slots taken
    samples,        \* completed attempts: [id, dest, seen]
    since,          \* completedSinceSnapshot, up to the high-water mark
    pending,        \* completionKickPending
    serial,
    last            \* the probe that published last (for the properties)
vars == <<disk, changes, hb, probes, running, cancelled, gor, slots, samples,
          since, pending, serial, last>>

NoPolicy == <<>>
Runtimes == {probes[i] : i \in DOMAIN probes}
Current(rt) == rt.id \in DOMAIN probes /\ probes[rt.id] = rt

Init ==
    /\ disk = NoPolicy /\ changes = 0
    /\ hb = [pc |-> "idle", policy |-> NoPolicy]
    /\ probes = NoPolicy
    /\ running = {} /\ cancelled = {} /\ gor = {} /\ slots = 0
    /\ samples = <<>> /\ since = 0 /\ pending = FALSE
    /\ serial = 0 /\ last = ""

\* A verified apply commits another policy, or none.
Commit(p) ==
    /\ changes < MaxChanges /\ p # disk
    /\ disk' = p /\ changes' = changes + 1
    /\ UNCHANGED <<hb, probes, running, cancelled, gor, slots, samples, since,
                   pending, serial, last>>

------------------------------------------------------------------------------
(* Sample.                                                                 *)

\* The snapshot shows every retained attempt and re-arms the kick.
snapshotLocked ==
    /\ samples' = [k \in DOMAIN samples |-> [samples[k] EXCEPT !.seen = TRUE]]
    /\ since' = 0 /\ pending' = FALSE

\* An unreadable state file freezes the scheduler.
SampleUnreadable ==
    /\ hb.pc = "idle" /\ probes # NoPolicy
    /\ snapshotLocked
    /\ UNCHANGED <<disk, changes, hb, probes, running, cancelled, gor, slots,
                   serial, last>>

LoadState ==
    /\ hb.pc = "idle"
    /\ hb' = [pc |-> "loaded", policy |-> disk]
    /\ UNCHANGED <<disk, changes, probes, running, cancelled, gor, slots,
                   samples, since, pending, serial, last>>

\* No policy, or one that does not parse.
clear ==
    /\ hb.pc = "loaded" /\ hb.policy = NoPolicy
    /\ hb' = [hb EXCEPT !.pc = "idle"]
    /\ cancelled' = cancelled \cup (Runtimes \cap running)
    /\ probes' = NoPolicy
    /\ samples' = <<>> /\ since' = 0 /\ pending' = FALSE
    /\ UNCHANGED <<disk, changes, running, gor, slots, serial, last>>

\* A probe that did not change keeps its runtime.
Kept(p) == {i \in DOMAIN p \cap DOMAIN probes : probes[i].spec = p[i]}
Reconciled(p) ==
    [i \in DOMAIN p |->
        IF i \in Kept(p) THEN probes[i]
        ELSE [id |-> i, spec |-> p[i], n |-> serial]]

\* An id that now names another destination starts clean.
probeResultMatchesProbe(s, p) == s.id \in DOMAIN p /\ p[s.id].dest = s.dest

\* An unchanged digest leaves everything alone; so does this, for the same
\* policy keeps every runtime and sample.
reconcile ==
    /\ hb.pc = "loaded" /\ hb.policy # NoPolicy
    /\ hb' = [hb EXCEPT !.pc = "reconciled"]
    /\ probes' = Reconciled(hb.policy)
    /\ serial' = serial + IF Kept(hb.policy) = DOMAIN hb.policy THEN 0 ELSE 1
    /\ cancelled' = cancelled \cup {rt \in Runtimes \cap running :
                                      rt.id \notin Kept(hb.policy)}
    /\ samples' = SelectSeq(samples,
                            LAMBDA s : probeResultMatchesProbe(s, hb.policy))
    /\ UNCHANGED <<disk, changes, running, gor, slots, since, pending, last>>

\* A new runtime is due at once; one that ran is never without its goroutine.
StartDue ==
    /\ hb.pc = "reconciled"
    /\ hb' = [hb EXCEPT !.pc = "idle"]
    /\ LET due == Runtimes \ running
       IN  /\ running' = running \cup due
           /\ gor' = gor \cup {[rt |-> rt, pc |-> "wait"] : rt \in due}
    /\ snapshotLocked
    /\ UNCHANGED <<disk, changes, probes, cancelled, slots, serial, last>>

------------------------------------------------------------------------------
(* execute.                                                                *)

Go(g, pc) == gor' = (gor \ {g}) \cup {[g EXCEPT !.pc = pc]}
Quiet == UNCHANGED <<disk, changes, hb, probes, running, cancelled, samples,
                     since, pending, serial, last>>

\* The timer fires, or the context is done; with both, select takes either.
Wait(g) ==
    /\ g.pc = "wait"
    /\ \/ Go(g, "acquire")
       \/ g.rt \in cancelled /\ Go(g, "exit")
    /\ UNCHANGED slots /\ Quiet

Acquire(g) ==
    /\ g.pc = "acquire"
    /\ \/ slots < MaxSlots /\ slots' = slots + 1 /\ Go(g, "check")
       \/ g.rt \in cancelled /\ UNCHANGED slots /\ Go(g, "exit")
    /\ Quiet

Stale(g) == ~Current(g.rt) \/ g.rt \notin running \/ g.rt \in cancelled

Check(g) ==
    /\ g.pc = "check"
    /\ IF Stale(g) THEN slots' = slots - 1 /\ Go(g, "exit")
       ELSE UNCHANGED slots /\ Go(g, "attempt")
    /\ Quiet

\* The attempt ends by itself, by its timeout or by a panic that is caught.
Attempt(g) ==
    /\ g.pc = "attempt"
    /\ slots' = slots - 1
    /\ Go(g, IF g.rt \in cancelled THEN "exit" ELSE "publish")
    /\ Quiet

HighWater == Window \div 2

\* The rolling window drops its oldest entry when it is full.
Append64(s) ==
    IF Len(samples) < Window THEN Append(samples, s)
    ELSE Append(Tail(samples), s)

Publish(g) ==
    /\ samples' = Append64([id |-> g.rt.id, dest |-> g.rt.spec.dest,
                            seen |-> FALSE])
    /\ since' = IF since < HighWater THEN since + 1 ELSE since
    /\ pending' = (pending \/ since' >= HighWater)
    /\ last' = g.rt.id
    /\ Go(g, "wait")
    /\ UNCHANGED <<disk, changes, hb, probes, running, cancelled, slots,
                   serial>>

FinishUnchecked(g) == g.pc = "publish" /\ Publish(g)

Finish(g) ==
    /\ g.pc = "publish"
    /\ IF Stale(g) THEN Go(g, "exit") /\ UNCHANGED slots /\ Quiet
       ELSE Publish(g)

\* The deferred call touches the flag of a current runtime only; a replaced
\* runtime is garbage once its goroutine is gone.
markProbeRuntimeStopped(g) ==
    /\ g.pc = "exit"
    /\ gor' = gor \ {g}
    /\ running' = running \ {g.rt}
    /\ cancelled' = cancelled \ {g.rt}
    /\ UNCHANGED <<disk, changes, hb, probes, slots, samples, since, pending,
                   serial, last>>

Execute(g) ==
    \/ Wait(g) \/ Acquire(g) \/ Check(g) \/ Attempt(g) \/ Finish(g)
    \/ markProbeRuntimeStopped(g)

------------------------------------------------------------------------------
Sample == LoadState \/ clear \/ reconcile \/ StartDue

Next ==
    \/ \E p \in Policies \cup {NoPolicy} : Commit(p)
    \/ Sample \/ SampleUnreadable
    \/ \E g \in gor : Execute(g)

Spec == Init /\ [][Next]_vars

ids == UNION {DOMAIN p : p \in Policies}
Step(i, c) == \E g \in gor : g.rt.id = i /\ g.rt.n = c /\ Execute(g)
Take(i, c) == \E g \in gor : g.rt.id = i /\ g.rt.n = c /\ Acquire(g)

\* Heartbeats go on, timers fire and attempts time out; a channel serves its
\* waiting senders first come first served.
FairSpec ==
    /\ Spec
    /\ WF_vars(Sample)
    /\ \A i \in ids, c \in 0..MaxChanges :
          WF_vars(Step(i, c)) /\ SF_vars(Take(i, c))

------------------------------------------------------------------------------
(* Properties.                                                             *)

\* Everything a snapshot can show belongs to a destination the current policy
\* authorizes, whatever attempts were in flight when the policy changed.
AuthorizedOnly ==
    \A k \in DOMAIN samples :
        /\ samples[k].id \in DOMAIN probes
        /\ probes[samples[k].id].spec.dest = samples[k].dest

\* A current runtime has its running flag set exactly while it has a
\* goroutine, and never two: no probe overlaps itself, none is abandoned.
OneLoop ==
    /\ \A rt \in Runtimes :
          Cardinality({g \in gor : g.rt = rt})
             = IF rt \in running THEN 1 ELSE 0
    /\ Cardinality({g \in gor : g.pc \in {"check", "attempt"}}) = slots

\* Once the policy stays as it is, each of its probes is attempted and
\* published again and again, however many policies came before it.
Probed ==
    \A p \in Policies :
        <>[](disk = p) => \A i \in DOMAIN p : []<>(last = i)

\* A policy is in command of the probes: their destinations and their goroutines.
ProbesAuthorized == AuthorizedOnly /\ OneLoop
==============================================================================
