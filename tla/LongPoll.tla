------------------------------- MODULE LongPoll -------------------------------
(***************************************************************************)
(* The long poll for a generation, from the agent's Poll                   *)
(* (internal/agent/controller_client.go, controller_loop.go) through       *)
(* HandlePoll (internal/api/handler_agent.go) and WaitForGeneration        *)
(* (storecore.go) to the wake of the two backends: the condition variable  *)
(* and context watcher of memkv (memstore.go), the 200 ms poller of filekv *)
(* (filestore.go).  One agent per tenant; the condition variable and the   *)
(* mutex are shared by all tenants.                                        *)
(*                                                                         *)
(* The mutex of the store is held by a waiter from awaitGenerationChange's *)
(* entry until it parks in cond.Wait, which is what keeps a wake from      *)
(* falling into the gap; lock steps are therefore modelled one by one.     *)
(***************************************************************************)
EXTENDS Integers

CONSTANTS Tenants,
          Backend,   \* "mem" or "file"
          MaxGen,    \* bound on generations
          MaxCuts    \* connections that break (name of the bound)

LongPollAssumption == Backend \in {"mem", "file"} /\ MaxGen \in Nat

VARIABLES gen,      \* per tenant: the generation counter
          mu,       \* holder of the store's mutex: a tenant's handler or watcher
          handler,  \* per tenant: where its poll handler is
          done,     \* per tenant: its poll context is done (deadline or hang-up)
          watcher,  \* per tenant: the goroutine that turns ctx.Done into a broadcast
          stray,    \* per tenant: watchers of earlier polls, still to broadcast
          reply,    \* per tenant: the answer on its way to the agent: a
                    \* generation, 0 for 204 No Content, -1 for none
          after,    \* per tenant: the agent's watermark, the ?after= of its poll
          cuts,
          ready     \* history: the generation had passed `after' before done

vars == <<gen, mu, handler, done, watcher, stray, reply, after, cuts, ready>>

H(t) == <<"handler", t>>
Free == <<"free", "free">>

Init ==
    /\ gen = [t \in Tenants |-> 0] /\ mu = Free
    /\ handler = [t \in Tenants |-> "none"] /\ done = [t \in Tenants |-> FALSE]
    /\ watcher = [t \in Tenants |-> "none"]
    /\ stray = [t \in Tenants |-> FALSE] /\ reply = [t \in Tenants |-> -1]
    /\ after = [t \in Tenants |-> 0] /\ cuts = 0
    /\ ready = [t \in Tenants |-> FALSE]

-----------------------------------------------------------------------------
(* cond.Broadcast wakes every parked waiter, of every tenant.              *)

Woken == [t \in Tenants |-> IF handler[t] = "parked" THEN "woken" ELSE handler[t]]

\* setGeneration at the end of a promote or a bump, under withLock.
setGeneration(t) ==
    /\ gen[t] < MaxGen /\ mu = Free
    /\ gen' = [gen EXCEPT ![t] = @ + 1]
    /\ handler' = IF Backend = "mem" THEN Woken ELSE handler
    /\ ready' = [ready EXCEPT ![t] = @ \/ (handler[t] # "none" /\ ~done[t])]
    /\ UNCHANGED <<mu, done, watcher, stray, reply, after, cuts>>

-----------------------------------------------------------------------------
(* The agent's loop: one poll at a time, again after a 204 or an error.    *)

Poll(t) ==
    /\ handler[t] = "none" /\ reply[t] = -1
    /\ handler' = [handler EXCEPT ![t] = "fast"]
    /\ done' = [done EXCEPT ![t] = FALSE]
    /\ ready' = [ready EXCEPT ![t] = gen[t] > after[t]]
    /\ UNCHANGED <<gen, mu, watcher, stray, reply, after, cuts>>

ReceiveForgetful(t) ==
    /\ reply[t] # -1
    /\ reply' = [reply EXCEPT ![t] = -1]
    /\ UNCHANGED <<gen, mu, handler, done, watcher, stray, after, cuts, ready>>

\* 200 moves the watermark, 204 and a lost connection leave it.
Receive(t) ==
    /\ reply[t] # -1
    /\ after' = [after EXCEPT ![t] = IF reply[t] > 0 THEN reply[t] ELSE @]
    /\ reply' = [reply EXCEPT ![t] = -1]
    /\ UNCHANGED <<gen, mu, handler, done, watcher, stray, cuts, ready>>

\* The answer, or the request, is lost; the handler's context is cancelled.
Cut(t) ==
    /\ cuts < MaxCuts /\ cuts' = cuts + 1
    /\ \/ reply[t] # -1 /\ reply' = [reply EXCEPT ![t] = 0] /\ UNCHANGED done
       \/ handler[t] # "none" /\ done' = [done EXCEPT ![t] = TRUE] /\ UNCHANGED reply
    /\ UNCHANGED <<gen, mu, handler, watcher, stray, after, ready>>

\* context.WithTimeout(ctx, deadline) of HandlePoll.
Deadline(t) ==
    /\ handler[t] # "none" /\ ~done[t]
    /\ done' = [done EXCEPT ![t] = TRUE]
    /\ UNCHANGED <<gen, mu, handler, watcher, stray, reply, after, cuts, ready>>

\* HandlePoll's answer; `defer close(watchDone)' and `defer cancel()' have run.
Answer(t, r) ==
    /\ handler' = [handler EXCEPT ![t] = "none"]
    /\ reply' = [reply EXCEPT ![t] = r]
    /\ stray' = [stray EXCEPT ![t] = @ \/ watcher[t] = "fired"]
    /\ watcher' = [watcher EXCEPT ![t] = "none"]
    /\ mu' = IF mu = H(t) THEN Free ELSE mu

Checked(t, more) ==
    \/ gen[t] > after[t] /\ Answer(t, gen[t])
    \/ gen[t] <= after[t] /\ done[t] /\ Answer(t, 0)
    \/ gen[t] <= after[t] /\ ~done[t] /\ more

\* WaitForGeneration: the counter is read under the lock; data first.
WaitForGeneration(t) ==
    /\ handler[t] = "fast" /\ mu = Free
    /\ Checked(t, handler' = [handler EXCEPT ![t] = "await"]
                  /\ UNCHANGED <<mu, watcher, stray, reply>>)
    /\ UNCHANGED <<gen, done, after, cuts, ready>>

-----------------------------------------------------------------------------
(* memkv.awaitGenerationChange. *)

\* It locks, checks once more and starts the watcher.
MemAwait(t) ==
    /\ Backend = "mem" /\ handler[t] = "await" /\ mu = Free
    /\ Checked(t, /\ mu' = H(t) /\ handler' = [handler EXCEPT ![t] = "check"]
                  /\ watcher' = [watcher EXCEPT ![t] = "watching"]
                  /\ UNCHANGED <<stray, reply>>)
    /\ UNCHANGED <<gen, done, after, cuts, ready>>

\* One turn of the loop, still under the lock.
MemCheck(t) ==
    /\ handler[t] = "check" /\ mu = H(t)
    /\ Checked(t, handler' = [handler EXCEPT ![t] = "park"]
                  /\ UNCHANGED <<mu, watcher, stray, reply>>)
    /\ UNCHANGED <<gen, done, after, cuts, ready>>

\* cond.Wait releases the lock and parks in one step.
MemPark(t) ==
    /\ handler[t] = "park" /\ mu = H(t) /\ mu' = Free
    /\ handler' = [handler EXCEPT ![t] = "parked"]
    /\ UNCHANGED <<gen, done, watcher, stray, reply, after, cuts, ready>>

\* A woken waiter takes the lock before cond.Wait returns.
MemRelock(t) ==
    /\ handler[t] = "woken" /\ mu = Free /\ mu' = H(t)
    /\ handler' = [handler EXCEPT ![t] = "check"]
    /\ UNCHANGED <<gen, done, watcher, stray, reply, after, cuts, ready>>

\* The watcher sees ctx.Done ...
WatchDone(t) ==
    /\ watcher[t] = "watching" /\ done[t]
    /\ watcher' = [watcher EXCEPT ![t] = "fired"]
    /\ UNCHANGED <<gen, mu, handler, done, stray, reply, after, cuts, ready>>

Broadcasts(t) ==
    /\ \/ watcher[t] = "fired" /\ watcher' = [watcher EXCEPT ![t] = "none"]
          /\ UNCHANGED stray
       \/ stray[t] /\ stray' = [stray EXCEPT ![t] = FALSE] /\ UNCHANGED watcher
    /\ handler' = Woken

\* ... and broadcasts under the lock.
WatchBroadcast(t) ==
    /\ mu = Free /\ Broadcasts(t)
    /\ UNCHANGED <<gen, mu, done, reply, after, cuts, ready>>

-----------------------------------------------------------------------------
(* filekv.awaitGenerationChange: one more look, then a ticker; lockedGeneration *)
(* takes the lock for each look.  select picks any case that is ready.     *)

FileAwait(t) ==
    /\ Backend = "file" /\ handler[t] = "await" /\ mu = Free
    /\ \/ gen[t] > after[t] /\ Answer(t, gen[t])
       \/ gen[t] <= after[t] /\ handler' = [handler EXCEPT ![t] = "tick"]
          /\ UNCHANGED <<mu, watcher, stray, reply>>
    /\ UNCHANGED <<gen, done, after, cuts, ready>>

FileTick(t) ==
    /\ handler[t] = "tick"
    /\ \/ done[t] /\ Answer(t, 0)
       \/ mu = Free /\ gen[t] > after[t] /\ Answer(t, gen[t])
    /\ UNCHANGED <<gen, done, after, cuts, ready>>

-----------------------------------------------------------------------------
Step(t) ==
    \/ WaitForGeneration(t)
    \/ MemAwait(t) \/ MemCheck(t) \/ MemPark(t) \/ MemRelock(t)
    \/ FileAwait(t) \/ FileTick(t)

Watch(t) == WatchDone(t) \/ WatchBroadcast(t)

Next ==
    \E t \in Tenants :
        \/ setGeneration(t) \/ Poll(t) \/ Receive(t) \/ Cut(t) \/ Deadline(t)
        \/ Step(t) \/ Watch(t)

Spec == Init /\ [][Next]_vars

\* Runnable goroutines run, and sync.Mutex does not starve a waiter; the timer
\* fires; the agent loops for ever and receives what is not cut.
FairSpec ==
    /\ Spec
    /\ \A t \in Tenants :
          /\ SF_vars(Step(t)) /\ SF_vars(Watch(t))
          /\ WF_vars(Deadline(t)) /\ WF_vars(Poll(t)) /\ WF_vars(Receive(t))

-----------------------------------------------------------------------------
\* Every poll is answered once its deadline has passed, in either backend: no
\* wake of the generation or of the context is lost between the waiter's
\* check and its cond.Wait.
Answered == \A t \in Tenants : handler[t] # "none" ~> handler[t] = "none"

\* A waiter that is parked has nothing it could be told: the generation has
\* not moved, and a context that is done has a broadcast still coming.
ParkedForAReason ==
    \A t \in Tenants :
        handler[t] = "parked" =>
            /\ gen[t] <= after[t]
            /\ done[t] => watcher[t] \in {"watching", "fired"}

\* Every agent that keeps polling learns the last generation, although
\* connections break and polls time out.
Learns == \A t \in Tenants : <>[](after[t] = gen[t])
=============================================================================
