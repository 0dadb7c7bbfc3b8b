----------------------------- MODULE SelfUpdate -----------------------------
(***************************************************************************)
(* The agent replaces its own binary (selfupdate.go, selfupdate_retry.go,  *)
(* controller_loop.go, and the parts of run() that decide on an update).   *)
(*                                                                         *)
(* exe is the binary at the systemd ExecStart path and bak its rollback    *)
(* copy; run is the version of the image that is executing, which differs  *)
(* from exe between a swap and the re-exec.  The breadcrumb PendingUpdate  *)
(* lives in state.json, which the applies of the same process rebuild.     *)
(* All of it happens under the state lease, so one process is modelled; a  *)
(* lease held by a manual kit is a start that exits at once.               *)
(***************************************************************************)
EXTENDS Naturals

CONSTANTS
    MaxVersion,   \* bound: agent versions 1..MaxVersion, the first is installed
    Bad,          \* versions that pass the self-test and cannot complete a cycle
    RollbackFaults, \* which steps of a rollback may fail: "rename", "exec"
    MaxTargets,   \* bound: rollout changes
    MaxFaults     \* bound: crashes, I/O errors and lost calls of good binaries

Version == 1..MaxVersion
NoVersion == 0

SelfUpdateAssumption ==
    /\ MaxVersion \in Nat \ {0} /\ Bad \subseteq Version \ {1}
    /\ RollbackFaults \subseteq {"rename", "exec"} /\ MaxTargets \in Nat /\ MaxFaults \in Nat

maxSelfUpdateAttempts == 3

VARIABLES
    cat,        \* artifacts.json of the served bundle: version and min_version
    exe, bak,   \* the installed binary and its .bak, NoVersion if there is none
    run,        \* the version of the running image
    pc,         \* the process: where the daemon stands
    upd,        \* locals: the target, whether the update is forced, prev, the rollback
    st,         \* the self-update fields of state.json
    looped,     \* the loop's finalized flag
    fresh,      \* the served bundle is past the loop's cursor, which starts cold
    proven,     \* ghost: versions that were installed or finalized
    boots,      \* ghost: starts of the pending target that got past the early phase
    targets, faults

vars == <<cat, exe, bak, run, pc, upd, st, looped, fresh, proven, boots, targets, faults>>

\* To = NoVersion when no swap is in flight.
PendingUpdate == [from : Version \cup {NoVersion}, to : Version \cup {NoVersion},
                  attempts : 0..maxSelfUpdateAttempts + 1 + MaxFaults, confirmed : BOOLEAN]
NoUpdate == [from |-> NoVersion, to |-> NoVersion, attempts |-> 0, confirmed |-> FALSE]

State == [floor : Version \cup {NoVersion}, pend : PendingUpdate,
          abandoned : Version \cup {NoVersion}, blocked : BOOLEAN]

Init ==
    /\ cat = [ver |-> NoVersion, min |-> NoVersion]
    /\ exe = 1 /\ bak = NoVersion /\ run = NoVersion
    /\ pc = "off"
    /\ upd = [to |-> NoVersion, forced |-> FALSE, rolled |-> FALSE]
    /\ st = [floor |-> NoVersion, pend |-> NoUpdate, abandoned |-> NoVersion, blocked |-> FALSE]
    /\ looped = FALSE /\ fresh = TRUE
    /\ proven = {1} /\ boots = 0
    /\ targets = 0 /\ faults = 0

Fails == faults < MaxFaults /\ faults' = faults + 1
Works == faults' = faults

\* SaveState, whose error may follow the rename.
SaveState(s, ok) ==
    \/ ok /\ Works /\ st' = s
    \/ ~ok /\ Fails /\ st' \in {st, s}

\* The operator moves the rollout: a new target and required minimum reach the node.
Retarget(v, m) ==
    /\ targets < MaxTargets /\ targets' = targets + 1
    /\ cat' = [ver |-> v, min |-> m]
    /\ fresh' = TRUE
    /\ UNCHANGED <<exe, bak, run, pc, upd, st, looped, proven, boots, faults>>

-----------------------------------------------------------------------------
(* The decision.                                                           *)

isForced == run < cat.min

decideSelfUpdate ==
    IF cat.ver = NoVersion \/ (cat.ver = run /\ ~isForced) THEN "skip"
    ELSE IF cat.ver = st.abandoned THEN "refuse"
    ELSE IF cat.ver < run \/ cat.ver < st.floor THEN "refuse"
    ELSE IF isForced THEN IF cat.ver < cat.min THEN "refuse" ELSE "forced"
    ELSE "afterApply"

-----------------------------------------------------------------------------
(* Start: early reconcile, health gate.                                    *)

Boot ==
    /\ pc = "off"
    /\ run' = exe /\ pc' = "early" /\ looped' = FALSE /\ fresh' = TRUE
    /\ UNCHANGED <<cat, exe, bak, upd, st, proven, boots, targets, faults>>

Exit == /\ pc' = "off" /\ run' = NoVersion
        /\ UNCHANGED <<cat, exe, bak, upd, looped, fresh, proven, boots, targets>>

Bumped == [st EXCEPT !.pend.attempts = @ + 1]

\* Every start counts, durably and before anything that may crash.  A busy lease, like a
\* failed save, ends the process.
ReconcileSelfUpdateEarly ==
    /\ pc = "early"
    /\ \/ /\ st.pend.to = NoVersion /\ Works
          /\ pc' = "promote"
          /\ UNCHANGED <<cat, exe, bak, run, upd, st, looped, fresh, proven, boots, targets>>
       \/ /\ st.pend.to # NoVersion
          /\ SaveState(Bumped, TRUE)
          /\ pc' = IF Bumped.pend.attempts > maxSelfUpdateAttempts THEN "rollback" ELSE "promote"
          /\ upd' = [upd EXCEPT !.to = st.pend.to]
          /\ boots' = IF pc' = "promote" /\ run = st.pend.to THEN boots + 1 ELSE boots
          /\ UNCHANGED <<cat, exe, bak, run, looped, fresh, proven, targets>>
       \/ /\ st.pend.to # NoVersion
          /\ SaveState(Bumped, FALSE) /\ Exit

\* rollbackAndAbandon restores the binary first.  A rename that fails is taken for a binary
\* that needs no restoring ...
RollbackBinary ==
    /\ pc = "rollback"
    /\ \/ /\ run = upd.to /\ bak # NoVersion /\ Works
          /\ exe' = bak /\ bak' = NoVersion /\ upd' = [upd EXCEPT !.rolled = TRUE]
       \/ /\ IF run = upd.to /\ bak # NoVersion THEN "rename" \in RollbackFaults /\ Fails ELSE Works
          /\ UNCHANGED <<exe, bak>> /\ upd' = [upd EXCEPT !.rolled = FALSE]
    /\ pc' = "abandon"
    /\ UNCHANGED <<cat, run, st, looped, fresh, proven, boots, targets>>

\* ... then it clears the breadcrumb and remembers the target.  Without a restored binary it
\* drops the backup and stays on this one.
Abandon ==
    /\ pc = "abandon"
    /\ LET s == [st EXCEPT !.pend = NoUpdate, !.abandoned = upd.to]
       IN  \/ SaveState(s, TRUE) /\ bak' = IF upd.rolled THEN bak ELSE NoVersion
           \/ SaveState(s, FALSE) /\ bak' = bak
    /\ pc' = IF upd.rolled THEN "restart" ELSE "promote"
    /\ boots' = 0
    /\ UNCHANGED <<cat, exe, run, upd, looped, fresh, proven, targets>>

\* The restored binary is executed; if that fails the start goes on with this image.
ReExecRestored ==
    /\ pc = "restart"
    /\ \/ Works /\ run' = exe /\ pc' = "early"
       \/ "exec" \in RollbackFaults /\ Fails /\ run' = run /\ pc' = "promote"
    /\ UNCHANGED <<cat, exe, bak, upd, st, looped, fresh, proven, boots, targets>>

\* The health gate: a fetch and a bundle verification.  A failure exits and is retried.
ReconcileSelfUpdatePromote ==
    /\ pc = "promote"
    /\ \/ /\ run # st.pend.to \/ st.pend.confirmed
          /\ Works
          /\ pc' = "loop"
          /\ UNCHANGED <<cat, exe, bak, run, upd, st, looped, fresh, proven, boots, targets>>
       \/ /\ run = st.pend.to /\ ~st.pend.confirmed
          /\ \/ /\ SaveState([st EXCEPT !.pend.confirmed = TRUE], TRUE)
                /\ pc' = "loop"
                /\ UNCHANGED <<cat, exe, bak, run, upd, looped, fresh, proven, boots, targets>>
             \/ SaveState([st EXCEPT !.pend.confirmed = TRUE], FALSE) /\ Exit
             \/ run \in Bad /\ Works /\ st' = st /\ Exit
             \/ run \notin Bad /\ Fails /\ st' = st /\ Exit

-----------------------------------------------------------------------------
(* The loop: a cycle, finalization once, the deferred retry.               *)

To(p) == pc' = p /\ UNCHANGED <<cat, exe, bak, run, looped, proven, boots, targets>>

\* A poll or fetch error, or a run() that fails before the decision and records it.
CycleError ==
    /\ pc = "loop" /\ Fails /\ To("after")
    /\ st' \in {st, [st EXCEPT !.blocked = @ /\ ~fresh]}
    /\ UNCHANGED <<upd, fresh>>

\* A timed-out poll or a wake whose bundle is applied already.
CycleIdle ==
    /\ pc = "loop" /\ ~fresh /\ Works /\ To("idle")
    /\ UNCHANGED <<st, upd, fresh>>

\* A bundle is applied.  recordSuccess keeps every custody field and drops the latch.
CycleApply ==
    /\ pc = "loop" /\ fresh /\ ~isForced
    /\ Works
    /\ st' = [st EXCEPT !.blocked = FALSE]
    /\ fresh' = FALSE
    /\ upd' = [upd EXCEPT !.to = cat.ver, !.forced = FALSE]
    /\ IF decideSelfUpdate = "afterApply" THEN To("update") ELSE To("after")

\* The bundle requires a newer agent: update before applying, or refuse to apply.
CycleForced ==
    /\ pc = "loop" /\ fresh /\ isForced
    /\ Works
    /\ IF decideSelfUpdate = "forced"
       THEN To("update") /\ st' = st /\ upd' = [upd EXCEPT !.to = cat.ver, !.forced = TRUE]
       ELSE To("after") /\ st' = [st EXCEPT !.blocked = FALSE] /\ upd' = upd
    /\ UNCHANGED fresh

\* An update failed; the state file holds s.  The forced path records a failure from the state
\* run() started with, unless the binary was swapped; the deferred path latches a reason, which
\* classifySelfUpdateBlock withholds when another swap was in flight.
UpdateFails(s, latch, swapped) ==
    /\ To("after")
    /\ IF upd.forced
       THEN st' = IF swapped THEN s ELSE [s EXCEPT !.pend = IF latch THEN NoUpdate ELSE @, !.blocked = FALSE]
       ELSE st' = [s EXCEPT !.blocked = @ \/ latch]
    /\ UNCHANGED <<upd, fresh>>

Armed == [st EXCEPT !.pend = [from |-> run, to |-> upd.to, attempts |-> 0, confirmed |-> FALSE]]

\* Download, pin check, self-test; then the breadcrumb.
performSelfUpdate ==
    /\ pc = "update"
    /\ \/ st.pend.to # NoVersion /\ Works /\ UpdateFails(st, FALSE, FALSE)
       \/ st.pend.to = NoVersion /\ Fails /\ \E s \in {st, Armed} : UpdateFails(s, TRUE, FALSE)
       \/ /\ st.pend.to = NoVersion /\ Works
          /\ st' = Armed
          /\ pc' = "backup" /\ boots' = 0
          /\ UNCHANGED <<cat, exe, bak, run, upd, looped, fresh, proven, targets>>

CopyToBak ==
    /\ pc = "backup"
    /\ \/ /\ Works /\ bak' = exe /\ pc' = "rename"
          /\ UNCHANGED <<cat, exe, run, upd, st, looped, fresh, proven, boots, targets>>
       \/ Fails /\ UpdateFails(st, TRUE, FALSE)

\* Mutant: the backup is taken after the new binary is in place.
FlipThenBackup ==
    /\ pc = "rename" /\ Works
    /\ exe' = upd.to /\ bak' = upd.to /\ pc' = "exec"
    /\ UNCHANGED <<cat, run, upd, st, looped, fresh, proven, boots, targets>>

\* The rename replaces the binary atomically; if it fails the backup is dropped.
InstallNew ==
    /\ pc = "rename"
    /\ \/ /\ Works /\ exe' = upd.to /\ pc' = "exec"
          /\ UNCHANGED <<cat, bak, run, upd, st, looped, fresh, proven, boots, targets>>
       \/ /\ Fails /\ bak' = NoVersion /\ pc' = "after"
          /\ st' = IF upd.forced THEN [st EXCEPT !.pend = NoUpdate, !.blocked = FALSE]
                                  ELSE [st EXCEPT !.blocked = TRUE]
          /\ UNCHANGED <<cat, exe, run, upd, looped, fresh, proven, boots, targets>>

ReExec ==
    /\ pc = "exec"
    /\ \/ /\ Works /\ run' = exe /\ pc' = "early" /\ looped' = FALSE /\ fresh' = TRUE
          /\ UNCHANGED <<cat, exe, bak, upd, st, proven, boots, targets>>
       \/ Fails /\ UpdateFails(st, TRUE, TRUE)

\* FinalizeSelfUpdate, once per process, after the first cycle that returned.  The backup is
\* removed after the save.
Finalize(next) ==
    /\ looped' = TRUE
    /\ IF ~looped /\ st.pend.confirmed /\ run = st.pend.to
       THEN LET s == [st EXCEPT !.pend = NoUpdate, !.floor = run, !.abandoned = NoVersion, !.blocked = FALSE]
            IN  \/ SaveState(s, TRUE) /\ pc' = "dropbak" /\ proven' = proven \cup {run}
                \/ SaveState(s, FALSE) /\ pc' = next /\ proven' = proven \cup (IF st' = s THEN {run} ELSE {})
       ELSE Works /\ st' = st /\ pc' = next /\ proven' = proven

AfterCycle ==
    /\ pc = "after" /\ Finalize("loop")
    /\ UNCHANGED <<cat, exe, bak, run, upd, fresh, boots, targets>>

IdleCycle ==
    /\ pc = "idle" /\ Finalize("retry")
    /\ UNCHANGED <<cat, exe, bak, run, upd, fresh, boots, targets>>

DropBak ==
    /\ pc = "dropbak" /\ bak' = NoVersion /\ pc' = "loop"
    /\ UNCHANGED <<cat, exe, run, upd, st, looped, fresh, proven, boots, targets, faults>>

\* Paced; needs the latch, no swap in flight, and a fetch that passes both verifications.
RetryDeferredSelfUpdate ==
    /\ pc = "retry"
    /\ \/ /\ ~st.blocked \/ st.pend.to # NoVersion
          /\ Works /\ To("loop") /\ UNCHANGED <<upd, fresh, st>>
       \/ /\ st.blocked /\ st.pend.to = NoVersion
          /\ \/ Fails /\ To("loop") /\ UNCHANGED <<upd, fresh, st>>
             \/ /\ decideSelfUpdate \in {"afterApply", "forced"}
                /\ Works /\ To("update") /\ st' = st /\ UNCHANGED fresh
                /\ upd' = [upd EXCEPT !.to = cat.ver, !.forced = FALSE]
             \/ /\ decideSelfUpdate \in {"skip", "refuse"}
                /\ Works /\ To("loop") /\ st' = [st EXCEPT !.blocked = FALSE]
                /\ UNCHANGED <<upd, fresh>>

\* Any process may crash now and then; a bad binary does, once past the early reconcile.
Crash ==
    /\ pc # "off"
    /\ IF run \in Bad /\ pc \in {"promote", "loop"} THEN Works ELSE Fails
    /\ st' = st /\ Exit

-----------------------------------------------------------------------------

\* A bad binary never gets through a cycle.
Cycle == run \notin Bad /\ (CycleError \/ CycleIdle \/ CycleApply \/ CycleForced)

Process == \/ ReconcileSelfUpdateEarly \/ RollbackBinary \/ Abandon \/ ReExecRestored \/ ReconcileSelfUpdatePromote
           \/ Cycle \/ performSelfUpdate \/ CopyToBak \/ InstallNew \/ ReExec
           \/ AfterCycle \/ IdleCycle \/ DropBak \/ RetryDeferredSelfUpdate

Next == \/ \E v \in Version, m \in Version \cup {NoVersion} : Retarget(v, m)
        \/ Boot
        \/ Process
        \/ Crash

Spec == Init /\ [][Next]_vars

\* systemd restarts the agent, the loop goes on, and a bad binary does crash.
FairSpec == Spec /\ WF_vars(Boot) /\ WF_vars(Process) /\ WF_vars(run \in Bad /\ Crash)

-----------------------------------------------------------------------------
(* Properties                                                              *)

\* selfupdate.go R1-1: a binary that has not proved itself is never on disk without the
\* breadcrumb that the next start reconciles, whatever applies rewrite state.json.
UnprovenHasBreadcrumb == exe \notin proven => st.pend.to = exe

\* Install-then-flip: while an unproven binary is installed, the previous one can be restored.
RollbackPossible == exe \notin proven => bak \in proven

\* The crash-loop ceiling: a target is started past the early phase at most
\* maxSelfUpdateAttempts times before it is rolled back.
BoundedBoots == boots <= maxSelfUpdateAttempts

\* Custody: no path, a rollback from a backup that a crash left behind included, installs a
\* version below the confirmed floor.  A condition on a step.
NeverBelowFloor == exe' # exe => exe' >= st.floor

\* Whatever fails on the way, a permitted target is installed in the end unless its swap is
\* still in flight: the latch, or the cold cursor of a restart, brings the update back.
RolloutLands ==
    <>[](~isForced /\ run # NoVersion => decideSelfUpdate # "afterApply" \/ st.pend.to # NoVersion)

\* The crash-loop ceiling ends every crash loop: a binary that cannot run is rolled back for
\* good, through crashes and failed saves of the rollback itself.
BadIsRolledBack == <>[](run \notin Bad)

\* A binary that has not proved itself can be taken back: the breadcrumb is there, the backup
\* is there, and the ceiling bounds its starts.
UnprovenRevertible == UnprovenHasBreadcrumb /\ RollbackPossible /\ BoundedBoots
=============================================================================
