-------------------------- MODULE SelfUpdateProofs --------------------------
(***************************************************************************)
(* The agent's binary swap, for any number of versions, bad versions,      *)
(* rollout changes and faults: the crash-loop ceiling bounds the starts of *)
(* a target; an unproven binary can be taken back; and nothing below the   *)
(* confirmed floor is installed.                                           *)
(*                                                                         *)
(* Two hypotheses name what these rest on.  The second theorem needs a     *)
(* rollback whose rename works: rollbackAndAbandon takes a failing one for *)
(* a binary that needs no restoring.  The third needs a rollback whose     *)
(* re-exec works: an image that runs on after it was rolled back can be    *)
(* confirmed, which raises the floor above the binary on disk.             *)
(***************************************************************************)
EXTENDS SelfUpdate, TLAPS

VersionOrNone == Version \cup {NoVersion}

Breadcrumb == [from : VersionOrNone, to : VersionOrNone, attempts : Nat, confirmed : BOOLEAN]

StateFile == [floor : VersionOrNone, pend : Breadcrumb, abandoned : VersionOrNone,
              blocked : BOOLEAN]

SelfUpdateTypeOK ==
    /\ cat \in [ver : VersionOrNone, min : VersionOrNone]
    /\ exe \in Version /\ bak \in VersionOrNone /\ run \in VersionOrNone
    /\ pc \in {"off", "early", "rollback", "abandon", "restart", "promote", "loop", "update",
               "backup", "rename", "exec", "after", "idle", "dropbak", "retry"}
    /\ upd \in [to : VersionOrNone, forced : BOOLEAN, rolled : BOOLEAN]
    /\ st \in StateFile
    /\ proven \subseteq Version /\ boots \in Nat

\* Where the process stands, and how the versions on disk, in the process and in the
\* breadcrumb are ordered: an image is older than the installed binary only while the
\* breadcrumb names that binary, and a binary the breadcrumb names is newer than its backup
\* and was started at most as often as the breadcrumb counts.
SwapInv ==
    /\ pc # "off" => run # NoVersion
    /\ pc # "off" => exe <= run \/ st.pend.to = exe
    /\ pc \in {"early", "rollback"} => run = exe
    /\ pc \in {"abandon", "restart", "backup", "rename"} => exe <= run
    /\ pc = "rollback" => st.pend.to = upd.to
    /\ pc \in {"update", "backup", "rename"} => run < upd.to
    /\ pc \in {"backup", "rename"} => st.pend.to = upd.to /\ boots = 0
    /\ pc = "rename" => bak = exe
    /\ st.pend.to = exe => bak < exe /\ boots <= st.pend.attempts
    /\ boots <= maxSelfUpdateAttempts

\* The backup is a binary that proved itself, and so is the installed one unless the
\* breadcrumb names it and the backup is there.
ProvenInv ==
    /\ bak = NoVersion \/ bak \in proven
    /\ exe \notin proven => st.pend.to = exe /\ bak # NoVersion
    /\ pc \in {"abandon", "backup", "rename", "dropbak"} => exe \in proven

\* The floor is below the installed binary, the binary a rollback would restore and the
\* binary an update is about to install.
FloorInv ==
    /\ st.floor <= exe
    /\ pc \notin {"off", "abandon", "restart"} => run = exe \/ st.pend.to = exe
    /\ pc = "abandon" /\ ~upd.rolled => run = exe
    /\ pc \in {"backup", "rename"} => run = exe
    /\ pc \in {"update", "backup", "rename"} => st.floor <= upd.to
    /\ st.pend.to = exe => bak = NoVersion \/ st.floor <= bak

SelfUpdateInv ==
    /\ SelfUpdateTypeOK /\ SwapInv
    /\ "rename" \notin RollbackFaults => ProvenInv
    /\ "exec" \notin RollbackFaults => FloorInv

-----------------------------------------------------------------------------
(***************************************************************************)
(* What the parts of the steps do.                                         *)
(***************************************************************************)

\* Versions are numbers above NoVersion.
LEMMA Versions ==
    ASSUME SelfUpdateAssumption
    PROVE  /\ Version \subseteq Nat \ {0} /\ VersionOrNone \subseteq Nat
           /\ NoVersion = 0 /\ 1 \in Version /\ NoVersion \in VersionOrNone
           /\ NoUpdate \in Breadcrumb /\ NoUpdate.to = NoVersion
  BY DEF SelfUpdateAssumption, Version, VersionOrNone, NoVersion, NoUpdate, Breadcrumb

\* state.json with a rewritten latch, breadcrumb or floor; the rest is kept.
LEMMA LatchField ==
    ASSUME NEW s \in StateFile, NEW b \in BOOLEAN, NEW t, t = [s EXCEPT !.blocked = b]
    PROVE  t \in StateFile /\ t.floor = s.floor /\ t.pend = s.pend
  BY DEF StateFile

\* A confirmed one.
LEMMA FloorField ==
    ASSUME NEW s \in StateFile, NEW p \in Breadcrumb, NEW t, NEW v \in VersionOrNone,
           t = [s EXCEPT !.pend = p, !.floor = v, !.abandoned = NoVersion, !.blocked = FALSE]
    PROVE  t \in StateFile /\ t.floor = v /\ t.pend = p
  BY Zenon DEF VersionOrNone, StateFile

\* A counted start.
LEMMA CountField ==
    ASSUME NEW s \in StateFile, NEW t, t = [s EXCEPT !.pend.attempts = @ + 1]
    PROVE  /\ t \in StateFile /\ t.floor = s.floor /\ t.pend.to = s.pend.to
           /\ t.pend.attempts = s.pend.attempts + 1
<1>1. s.pend \in Breadcrumb /\ s.pend.attempts \in Nat
  BY DEF StateFile, Breadcrumb
<1>2. t.pend = [s.pend EXCEPT !.attempts = s.pend.attempts + 1]
      /\ t = [s EXCEPT !.pend = [s.pend EXCEPT !.attempts = s.pend.attempts + 1]]
  BY DEF StateFile
<1>3. t.pend \in Breadcrumb /\ t.pend.to = s.pend.to /\ t.pend.attempts = s.pend.attempts + 1
  BY <1>1, <1>2 DEF Breadcrumb
<1> QED
  BY <1>2, <1>3 DEF StateFile

\* A passed health gate.
LEMMA ConfirmField ==
    ASSUME NEW s \in StateFile, NEW t, t = [s EXCEPT !.pend.confirmed = TRUE]
    PROVE  /\ t \in StateFile /\ t.floor = s.floor /\ t.pend.to = s.pend.to
           /\ t.pend.attempts = s.pend.attempts
<1>1. s.pend \in Breadcrumb
  BY DEF StateFile
<1>2. t.pend = [s.pend EXCEPT !.confirmed = TRUE]
      /\ t = [s EXCEPT !.pend = [s.pend EXCEPT !.confirmed = TRUE]]
  BY DEF StateFile
<1>3. t.pend \in Breadcrumb /\ t.pend.to = s.pend.to /\ t.pend.attempts = s.pend.attempts
  BY <1>1, <1>2, Zenon DEF Breadcrumb
<1> QED
  BY <1>2, <1>3, Zenon DEF StateFile

\* A failed update clears at most a breadcrumb that was not used for a swap.
LEMMA FailedUpdate ==
    ASSUME SelfUpdateAssumption, SelfUpdateTypeOK, NEW s \in StateFile,
           NEW latch \in BOOLEAN, NEW swapped \in BOOLEAN, UpdateFails(s, latch, swapped)
    PROVE  /\ st' \in StateFile /\ st'.floor = s.floor
           /\ st'.pend = s.pend \/ (latch /\ ~swapped /\ st'.pend = NoUpdate)
           /\ pc' = "after"
           /\ UNCHANGED <<cat, exe, bak, run, upd, looped, fresh, proven, boots, targets>>
<1>1. pc' = "after" /\ UNCHANGED <<cat, exe, bak, run, upd, looped, fresh, proven, boots, targets>>
  BY DEF UpdateFails, To
<1>2. upd.forced \in BOOLEAN /\ s.blocked \in BOOLEAN /\ s.pend \in Breadcrumb
  BY DEF SelfUpdateTypeOK, StateFile
<1>3. CASE upd.forced /\ swapped
  BY <1>1, <1>3 DEF UpdateFails
<1>4. CASE upd.forced /\ ~swapped
  <2>1. st' = [s EXCEPT !.pend = IF latch THEN NoUpdate ELSE s.pend, !.blocked = FALSE]
    BY <1>4 DEF UpdateFails, StateFile
  <2>2. CASE latch
    <3>1. st' = [s EXCEPT !.pend = NoUpdate, !.blocked = FALSE]
      BY <2>1, <2>2
    <3>2. st' \in StateFile /\ st'.floor = s.floor /\ st'.pend = NoUpdate
      BY <3>1, Versions, Zenon DEF StateFile
    <3> QED
      BY <1>1, <1>4, <2>2, <3>2
  <2>3. CASE ~latch
    <3>1. st' = [s EXCEPT !.pend = s.pend, !.blocked = FALSE]
      BY <2>1, <2>3
    <3>2. st' \in StateFile /\ st'.floor = s.floor /\ st'.pend = s.pend
      BY <1>2, <3>1, Zenon DEF StateFile
    <3> QED
      BY <1>1, <3>2
  <2> QED
    BY <2>2, <2>3
<1>5. CASE ~upd.forced
  <2>1. st' = [s EXCEPT !.blocked = s.blocked \/ latch]
    BY <1>5 DEF UpdateFails, StateFile
  <2> QED
    BY <1>1, <1>2, <1>5, <2>1, LatchField
<1> QED
  BY <1>2, <1>3, <1>4, <1>5

\* An update is decided only towards a version above the running one, and not below the floor.
LEMMA DecidedForward ==
    ASSUME SelfUpdateAssumption, SelfUpdateTypeOK, decideSelfUpdate \in {"afterApply", "forced"}
    PROVE  cat.ver \in Version /\ run < cat.ver /\ st.floor <= cat.ver
  BY Versions DEF decideSelfUpdate, isForced, SelfUpdateTypeOK, StateFile, VersionOrNone

\* FinalizeSelfUpdate leaves everything, or moves the floor to the running version, which
\* the breadcrumb names, and clears the breadcrumb.
LEMMA Finalized ==
    ASSUME SelfUpdateAssumption, SelfUpdateTypeOK, NEW next, next # "dropbak", Finalize(next)
    PROVE  /\ st' \in StateFile
           /\ \/ st' = st /\ pc' = next /\ proven' = proven
              \/ /\ run = st.pend.to /\ st'.pend = NoUpdate /\ st'.floor = run
                 /\ pc' \in {next, "dropbak"} /\ proven' = proven \cup {run}
<1> DEFINE s == [st EXCEPT !.pend = NoUpdate, !.floor = run, !.abandoned = NoVersion,
                           !.blocked = FALSE]
<1>1. s \in StateFile /\ s.floor = run /\ s.pend = NoUpdate /\ st \in StateFile
  <2>1. st \in StateFile /\ run \in VersionOrNone /\ NoUpdate \in Breadcrumb
    BY Versions DEF SelfUpdateTypeOK
  <2>2. \A t : t = s => t \in StateFile /\ t.floor = run /\ t.pend = NoUpdate
    BY <2>1, FloorField, Zenon
  <2> QED
    BY <2>1, <2>2, Zenon
<1>2. CASE ~looped /\ st.pend.confirmed /\ run = st.pend.to
  <2>1. \/ st' = s /\ pc' = "dropbak" /\ proven' = proven \cup {run}
        \/ st' = s /\ pc' = next /\ proven' = proven \cup {run}
        \/ st' = st /\ pc' = next /\ proven' = proven
    <3> HIDE DEF s
    <3>1. \/ SaveState(s, TRUE) /\ pc' = "dropbak" /\ proven' = proven \cup {run}
          \/ SaveState(s, FALSE) /\ pc' = next
             /\ proven' = proven \cup (IF st' = s THEN {run} ELSE {})
      BY <1>2, Zenon DEF Finalize, s
    <3> QED
      BY <3>1 DEF SaveState
  <2> QED
    BY <1>1, <1>2, <2>1, Zenon
<1>3. CASE ~(~looped /\ st.pend.confirmed /\ run = st.pend.to)
  BY <1>1, <1>3, Zenon DEF Finalize
<1> QED
  BY <1>2, <1>3

-----------------------------------------------------------------------------
(***************************************************************************)
(* One lemma per step.                                                     *)
(***************************************************************************)

\* What the types say about the numbers the steps compare.
LEMMA Numbers ==
    ASSUME SelfUpdateAssumption, SelfUpdateTypeOK
    PROVE  /\ exe \in Nat \ {0} /\ bak \in Nat /\ run \in Nat /\ boots \in Nat
           /\ upd.to \in Nat /\ upd.rolled \in BOOLEAN /\ upd.forced \in BOOLEAN
           /\ cat.ver \in Nat /\ NoVersion = 0
           /\ st \in StateFile /\ st.floor \in Nat /\ st.pend.to \in Nat
           /\ st.pend.attempts \in Nat
  BY Versions DEF SelfUpdateTypeOK, StateFile, Breadcrumb

\* The operator moves the rollout: nothing on the node changes.
LEMMA RetargetKept ==
    ASSUME SelfUpdateAssumption, SelfUpdateInv, NEW v \in Version, NEW m \in VersionOrNone,
           Retarget(v, m)
    PROVE  SelfUpdateInv'
<1>1. cat' = [ver |-> v, min |-> m]
      /\ UNCHANGED <<exe, bak, run, pc, upd, st, proven, boots>>
  BY DEF Retarget
<1>2. SelfUpdateTypeOK'
  BY <1>1, Versions DEF SelfUpdateInv, SelfUpdateTypeOK, VersionOrNone
<1>3. SwapInv'
  BY <1>1, Numbers DEF SelfUpdateInv, SwapInv, maxSelfUpdateAttempts
<1>4. ASSUME "rename" \notin RollbackFaults PROVE ProvenInv'
  BY <1>1, <1>4, Numbers DEF SelfUpdateInv, SwapInv, ProvenInv
<1>5. ASSUME "exec" \notin RollbackFaults PROVE FloorInv'
  BY <1>1, <1>5, Numbers DEF SelfUpdateInv, SwapInv, FloorInv
<1> QED
  BY <1>2, <1>3, <1>4, <1>5 DEF SelfUpdateInv

\* systemd starts the installed binary.
LEMMA BootKept ==
    ASSUME SelfUpdateAssumption, SelfUpdateInv, Boot
    PROVE  SelfUpdateInv'
<1>1. /\ pc' = "early" /\ run' = exe /\ pc = "off"
      /\ UNCHANGED <<cat, exe, bak, upd, st, proven, boots>>
  BY DEF Boot
<1>2. SelfUpdateTypeOK'
  BY <1>1, Versions DEF SelfUpdateInv, SelfUpdateTypeOK, VersionOrNone
<1>3. SwapInv'
  BY <1>1, Numbers DEF SelfUpdateInv, SwapInv, maxSelfUpdateAttempts
<1>4. ASSUME "rename" \notin RollbackFaults PROVE ProvenInv'
  BY <1>1, <1>4, Numbers DEF SelfUpdateInv, SwapInv, ProvenInv
<1>5. ASSUME "exec" \notin RollbackFaults PROVE FloorInv'
  BY <1>1, <1>5, Numbers DEF SelfUpdateInv, SwapInv, FloorInv
<1> QED
  BY <1>2, <1>3, <1>4, <1>5 DEF SelfUpdateInv

\* A start is counted, and the target started at most as often as counted.
LEMMA EarlyKept ==
    ASSUME SelfUpdateAssumption, SelfUpdateInv, ReconcileSelfUpdateEarly
    PROVE  SelfUpdateInv'
<1>1. /\ pc = "early" /\ UNCHANGED <<cat, exe, bak, proven>>
      /\ st' \in StateFile /\ st'.floor = st.floor /\ st'.pend.to = st.pend.to
      /\ upd'.to \in VersionOrNone
      /\ upd' \in [to : VersionOrNone, forced : BOOLEAN, rolled : BOOLEAN]
      /\ \/ pc' = "promote" /\ run' = run /\ UNCHANGED <<st, boots>>
         \/ /\ run' = run /\ upd'.to = st.pend.to /\ st'.pend.attempts = st.pend.attempts + 1
            /\ \/ /\ pc' = "rollback" /\ boots' = boots
               \/ /\ pc' = "promote" /\ st.pend.attempts + 1 <= maxSelfUpdateAttempts
                  /\ boots' = IF run = st.pend.to THEN boots + 1 ELSE boots
         \/ pc' = "off" /\ run' = NoVersion /\ boots' = boots
            /\ st'.pend.attempts \in {st.pend.attempts, st.pend.attempts + 1}
  <2>1. /\ st \in StateFile /\ upd \in [to : VersionOrNone, forced : BOOLEAN, rolled : BOOLEAN]
        /\ st.pend.to \in VersionOrNone /\ st.pend.attempts \in Nat
    BY DEF SelfUpdateInv, SelfUpdateTypeOK, StateFile, Breadcrumb
  <2>2. /\ Bumped \in StateFile /\ Bumped.floor = st.floor /\ Bumped.pend.to = st.pend.to
        /\ Bumped.pend.attempts = st.pend.attempts + 1
    BY <2>1, CountField DEF Bumped
  <2>3. CASE st.pend.to = NoVersion
    BY <2>1, <2>3 DEF ReconcileSelfUpdateEarly
  <2>4. CASE st.pend.to # NoVersion /\ SaveState(Bumped, TRUE) /\ pc' # "off"
    BY <2>1, <2>2, <2>4, Numbers
       DEF ReconcileSelfUpdateEarly, SaveState, SelfUpdateInv, maxSelfUpdateAttempts, Exit
  <2>5. CASE SaveState(Bumped, FALSE) /\ Exit /\ pc = "early"
    BY <2>1, <2>2, <2>5 DEF SaveState, Exit
  <2> QED
    BY <2>3, <2>4, <2>5, Zenon DEF ReconcileSelfUpdateEarly, Exit
<1>2. SelfUpdateTypeOK'
  BY <1>1, Versions DEF SelfUpdateInv, SelfUpdateTypeOK, VersionOrNone
<1>3. SwapInv'
  BY <1>1, Numbers DEF SelfUpdateInv, SwapInv, maxSelfUpdateAttempts
<1>4. ASSUME "rename" \notin RollbackFaults PROVE ProvenInv'
  BY <1>1, <1>4, Numbers DEF SelfUpdateInv, SwapInv, ProvenInv
<1>5. ASSUME "exec" \notin RollbackFaults PROVE FloorInv'
  BY <1>1, <1>5, Numbers DEF SelfUpdateInv, SwapInv, FloorInv
<1> QED
  BY <1>2, <1>3, <1>4, <1>5 DEF SelfUpdateInv

\* The backup takes the place of the binary that the breadcrumb names.
LEMMA RollbackKept ==
    ASSUME SelfUpdateAssumption, SelfUpdateInv, RollbackBinary
    PROVE  SelfUpdateInv'
<1>1. /\ pc = "rollback" /\ pc' = "abandon" /\ UNCHANGED <<cat, run, st, proven, boots>>
      /\ upd' \in [to : VersionOrNone, forced : BOOLEAN, rolled : BOOLEAN] /\ upd'.to = upd.to
      /\ \/ run = upd.to /\ bak # NoVersion /\ exe' = bak /\ bak' = NoVersion /\ upd'.rolled
         \/ /\ UNCHANGED <<exe, bak>> /\ ~upd'.rolled
            /\ run = upd.to /\ bak # NoVersion => "rename" \in RollbackFaults
  BY Zenon DEF RollbackBinary, SelfUpdateInv, SelfUpdateTypeOK
<1>2. SelfUpdateTypeOK'
  BY <1>1, Versions DEF SelfUpdateInv, SelfUpdateTypeOK, VersionOrNone
<1>3. SwapInv'
  BY <1>1, Numbers DEF SelfUpdateInv, SwapInv, maxSelfUpdateAttempts
<1>4. ASSUME "rename" \notin RollbackFaults PROVE ProvenInv'
  BY <1>1, <1>4, Numbers DEF SelfUpdateInv, SwapInv, ProvenInv
<1>5. ASSUME "exec" \notin RollbackFaults PROVE FloorInv'
  BY <1>1, <1>5, Numbers DEF SelfUpdateInv, SwapInv, FloorInv
<1> QED
  BY <1>2, <1>3, <1>4, <1>5 DEF SelfUpdateInv

\* The breadcrumb goes after the binary is restored.
LEMMA AbandonKept ==
    ASSUME SelfUpdateAssumption, SelfUpdateInv, Abandon
    PROVE  SelfUpdateInv'
<1>1. /\ pc = "abandon" /\ UNCHANGED <<cat, exe, run, upd, proven>> /\ boots' = 0
      /\ st' \in StateFile /\ st'.floor = st.floor
      /\ st'.pend = st.pend \/ st'.pend = NoUpdate
      /\ bak' = bak \/ bak' = NoVersion
      /\ pc' = IF upd.rolled THEN "restart" ELSE "promote"
      /\ NoUpdate.to = NoVersion /\ NoVersion \in VersionOrNone
  <2> DEFINE s == [st EXCEPT !.pend = NoUpdate, !.abandoned = upd.to]
  <2>1. st \in StateFile /\ upd.to \in VersionOrNone /\ NoUpdate \in Breadcrumb
    BY Versions DEF SelfUpdateInv, SelfUpdateTypeOK
  <2>2. s \in StateFile /\ s.floor = st.floor /\ s.pend = NoUpdate
    BY <2>1, Zenon DEF StateFile
  <2>3. st' = s \/ st' = st
    BY Zenon DEF Abandon, SaveState
  <2>4. /\ pc = "abandon" /\ UNCHANGED <<cat, exe, run, upd, proven>> /\ boots' = 0
        /\ bak' = bak \/ bak' = NoVersion
        /\ pc' = IF upd.rolled THEN "restart" ELSE "promote"
    BY Zenon DEF Abandon
  <2> QED
    BY <2>1, <2>2, <2>3, <2>4, Versions, Zenon
<1>2. SelfUpdateTypeOK'
  BY <1>1, Versions DEF SelfUpdateInv, SelfUpdateTypeOK, VersionOrNone
<1>3. SwapInv'
  BY <1>1, Numbers DEF SelfUpdateInv, SwapInv, maxSelfUpdateAttempts
<1>4. ASSUME "rename" \notin RollbackFaults PROVE ProvenInv'
  BY <1>1, <1>4, Numbers DEF SelfUpdateInv, SwapInv, ProvenInv
<1>5. ASSUME "exec" \notin RollbackFaults PROVE FloorInv'
  BY <1>1, <1>5, Numbers DEF SelfUpdateInv, SwapInv, FloorInv
<1> QED
  BY <1>2, <1>3, <1>4, <1>5 DEF SelfUpdateInv

\* The restored binary is executed, or this image runs on.
LEMMA RestoredKept ==
    ASSUME SelfUpdateAssumption, SelfUpdateInv, ReExecRestored
    PROVE  SelfUpdateInv'
<1>1. /\ pc = "restart" /\ UNCHANGED <<cat, exe, bak, upd, st, proven, boots>>
      /\ \/ run' = exe /\ pc' = "early"
         \/ run' = run /\ pc' = "promote" /\ "exec" \in RollbackFaults
  BY DEF ReExecRestored
<1>2. SelfUpdateTypeOK'
  BY <1>1, Versions DEF SelfUpdateInv, SelfUpdateTypeOK, VersionOrNone
<1>3. SwapInv'
  BY <1>1, Numbers DEF SelfUpdateInv, SwapInv, maxSelfUpdateAttempts
<1>4. ASSUME "rename" \notin RollbackFaults PROVE ProvenInv'
  BY <1>1, <1>4, Numbers DEF SelfUpdateInv, SwapInv, ProvenInv
<1>5. ASSUME "exec" \notin RollbackFaults PROVE FloorInv'
  BY <1>1, <1>5, Numbers DEF SelfUpdateInv, SwapInv, FloorInv
<1> QED
  BY <1>2, <1>3, <1>4, <1>5 DEF SelfUpdateInv

\* The health gate confirms the target, or the process ends.
LEMMA PromoteKept ==
    ASSUME SelfUpdateAssumption, SelfUpdateInv, ReconcileSelfUpdatePromote
    PROVE  SelfUpdateInv'
<1>1. /\ pc = "promote" /\ UNCHANGED <<cat, exe, bak, upd, proven, boots>>
      /\ st' \in StateFile /\ st'.floor = st.floor /\ st'.pend.to = st.pend.to
      /\ st'.pend.attempts = st.pend.attempts
      /\ (pc' = "loop" /\ run' = run) \/ (pc' = "off" /\ run' = NoVersion)
  <2> DEFINE s == [st EXCEPT !.pend.confirmed = TRUE]
  <2>1. st \in StateFile
    BY DEF SelfUpdateInv, SelfUpdateTypeOK
  <2>2. /\ s \in StateFile /\ s.floor = st.floor /\ s.pend.to = st.pend.to
        /\ s.pend.attempts = st.pend.attempts
    BY <2>1, ConfirmField, Zenon
  <2>3. st' = s \/ st' = st
    BY Zenon DEF ReconcileSelfUpdatePromote, SaveState
  <2>4. /\ pc = "promote" /\ UNCHANGED <<cat, exe, bak, upd, proven, boots>>
        /\ (pc' = "loop" /\ run' = run) \/ (pc' = "off" /\ run' = NoVersion)
    BY Zenon DEF ReconcileSelfUpdatePromote, Exit
  <2> QED
    BY <2>1, <2>2, <2>3, <2>4, Zenon
<1>2. SelfUpdateTypeOK'
  BY <1>1, Versions DEF SelfUpdateInv, SelfUpdateTypeOK, VersionOrNone
<1>3. SwapInv'
  BY <1>1, Numbers DEF SelfUpdateInv, SwapInv, maxSelfUpdateAttempts
<1>4. ASSUME "rename" \notin RollbackFaults PROVE ProvenInv'
  BY <1>1, <1>4, Numbers DEF SelfUpdateInv, SwapInv, ProvenInv
<1>5. ASSUME "exec" \notin RollbackFaults PROVE FloorInv'
  BY <1>1, <1>5, Numbers DEF SelfUpdateInv, SwapInv, FloorInv
<1> QED
  BY <1>2, <1>3, <1>4, <1>5 DEF SelfUpdateInv

\* A cycle or a retry only rewrites the latch, and may go on to an update it decided.
LEMMA DecisionKept ==
    ASSUME SelfUpdateAssumption, SelfUpdateInv, 
           pc \in {"loop", "retry"}, UNCHANGED <<cat, exe, bak, run, proven, boots>>,
           upd' \in [to : VersionOrNone, forced : BOOLEAN, rolled : BOOLEAN],
           st' = st \/ \E b \in BOOLEAN : st' = [st EXCEPT !.blocked = b],
           \/ pc' \in {"after", "idle", "loop"}
           \/ /\ pc' = "update" /\ decideSelfUpdate \in {"afterApply", "forced"}
              /\ upd'.to = cat.ver
    PROVE  SelfUpdateInv'
<1>1. /\ st' \in StateFile /\ st'.floor = st.floor /\ st'.pend = st.pend
      /\ pc' \in {"after", "idle", "loop"} \/
           (pc' = "update" /\ run < upd'.to /\ st.floor <= upd'.to)
  <2>1. st \in StateFile /\ SelfUpdateTypeOK
    BY DEF SelfUpdateInv, SelfUpdateTypeOK
  <2>2. st' \in StateFile /\ st'.floor = st.floor /\ st'.pend = st.pend
    BY <2>1, LatchField
  <2> QED
    BY <2>1, <2>2, DecidedForward
<1>2. SelfUpdateTypeOK'
  BY <1>1, Versions DEF SelfUpdateInv, SelfUpdateTypeOK, VersionOrNone
<1>3. SwapInv'
  BY <1>1, Numbers DEF SelfUpdateInv, SwapInv, maxSelfUpdateAttempts
<1>4. ASSUME "rename" \notin RollbackFaults PROVE ProvenInv'
  BY <1>1, <1>4, Numbers DEF SelfUpdateInv, SwapInv, ProvenInv
<1>5. ASSUME "exec" \notin RollbackFaults PROVE FloorInv'
  BY <1>1, <1>5, Numbers DEF SelfUpdateInv, SwapInv, FloorInv
<1> QED
  BY <1>2, <1>3, <1>4, <1>5 DEF SelfUpdateInv

\* The cycles: one that failed before the decision, one with nothing to apply, an applied
\* bundle and one that requires a newer agent; and the deferred retry.
LEMMA CyclesKept ==
    ASSUME SelfUpdateAssumption, SelfUpdateInv,
           CycleError \/ CycleIdle \/ CycleApply \/ CycleForced \/ RetryDeferredSelfUpdate
    PROVE  SelfUpdateInv'
<1>1. /\ st.blocked \in BOOLEAN /\ cat.ver \in VersionOrNone
      /\ upd \in [to : VersionOrNone, forced : BOOLEAN, rolled : BOOLEAN]
  BY DEF SelfUpdateInv, SelfUpdateTypeOK, StateFile
<1> DEFINE Decided == pc' = "update" /\ decideSelfUpdate \in {"afterApply", "forced"}
                        /\ upd'.to = cat.ver
<1>2. CASE CycleError
  <2>1. /\ pc \in {"loop", "retry"} /\ UNCHANGED <<cat, exe, bak, run, proven, boots>>
        /\ upd' \in [to : VersionOrNone, forced : BOOLEAN, rolled : BOOLEAN]
    BY <1>1, <1>2 DEF CycleError, To
  <2>2. st' = st \/ \E b \in BOOLEAN : st' = [st EXCEPT !.blocked = b]
    BY <1>1, <1>2, Zenon DEF CycleError
  <2>3. pc' \in {"after", "idle", "loop"} \/ Decided
    BY <1>1, <1>2 DEF CycleError, To
  <2> QED
    BY <2>1, <2>2, <2>3, DecisionKept
<1>3. CASE CycleIdle
  <2>1. /\ pc \in {"loop", "retry"} /\ UNCHANGED <<cat, exe, bak, run, proven, boots>>
        /\ upd' \in [to : VersionOrNone, forced : BOOLEAN, rolled : BOOLEAN]
    BY <1>1, <1>3 DEF CycleIdle, To
  <2>2. st' = st \/ \E b \in BOOLEAN : st' = [st EXCEPT !.blocked = b]
    BY <1>1, <1>3, Zenon DEF CycleIdle
  <2>3. pc' \in {"after", "idle", "loop"} \/ Decided
    BY <1>1, <1>3 DEF CycleIdle, To
  <2> QED
    BY <2>1, <2>2, <2>3, DecisionKept
<1>4. CASE CycleApply
  <2>1. /\ pc \in {"loop", "retry"} /\ UNCHANGED <<cat, exe, bak, run, proven, boots>>
        /\ upd' \in [to : VersionOrNone, forced : BOOLEAN, rolled : BOOLEAN]
    BY <1>1, <1>4, Zenon DEF CycleApply, To
  <2>2. st' = st \/ \E b \in BOOLEAN : st' = [st EXCEPT !.blocked = b]
    BY <1>1, <1>4, Zenon DEF CycleApply
  <2>3. pc' \in {"after", "idle", "loop"} \/ Decided
    BY <1>1, <1>4 DEF CycleApply, To
  <2> QED
    BY <2>1, <2>2, <2>3, DecisionKept
<1>5. CASE CycleForced
  <2>1. /\ pc \in {"loop", "retry"} /\ UNCHANGED <<cat, exe, bak, run, proven, boots>>
        /\ upd' \in [to : VersionOrNone, forced : BOOLEAN, rolled : BOOLEAN]
    BY <1>1, <1>5, Zenon DEF CycleForced, To
  <2>2. st' = st \/ \E b \in BOOLEAN : st' = [st EXCEPT !.blocked = b]
    BY <1>1, <1>5, Zenon DEF CycleForced
  <2>3. pc' \in {"after", "idle", "loop"} \/ Decided
    BY <1>1, <1>5, Zenon DEF CycleForced, To
  <2> QED
    BY <2>1, <2>2, <2>3, DecisionKept
<1>6. CASE RetryDeferredSelfUpdate
  <2>1. /\ pc \in {"loop", "retry"} /\ UNCHANGED <<cat, exe, bak, run, proven, boots>>
        /\ upd' \in [to : VersionOrNone, forced : BOOLEAN, rolled : BOOLEAN]
    BY <1>1, <1>6, Zenon DEF RetryDeferredSelfUpdate, To
  <2>2. st' = st \/ \E b \in BOOLEAN : st' = [st EXCEPT !.blocked = b]
    BY <1>1, <1>6, Zenon DEF RetryDeferredSelfUpdate
  <2>3. pc' \in {"after", "idle", "loop"} \/ Decided
    BY <1>1, <1>6, Zenon DEF RetryDeferredSelfUpdate, To
  <2> QED
    BY <2>1, <2>2, <2>3, DecisionKept
<1> QED
  BY <1>2, <1>3, <1>4, <1>5, <1>6

\* The breadcrumb is written before anything is swapped.
LEMMA PerformKept ==
    ASSUME SelfUpdateAssumption, SelfUpdateInv, performSelfUpdate
    PROVE  SelfUpdateInv'
<1>1. /\ pc = "update" /\ UNCHANGED <<cat, exe, bak, run, upd, proven>>
      /\ st' \in StateFile /\ st'.floor = st.floor
      /\ \/ pc' = "after" /\ st'.pend = st.pend /\ boots' = boots
         \/ /\ pc' = "after" /\ st.pend.to = NoVersion /\ boots' = boots
            /\ st'.pend.to \in {NoVersion, upd.to}
         \/ /\ pc' = "backup" /\ st.pend.to = NoVersion /\ boots' = 0
            /\ st'.pend.to = upd.to /\ st'.pend.attempts = 0
  <2>1. st \in StateFile /\ upd.to \in VersionOrNone /\ run \in VersionOrNone /\ SelfUpdateTypeOK
    BY DEF SelfUpdateInv, SelfUpdateTypeOK
  <2>2. /\ Armed \in StateFile /\ Armed.floor = st.floor /\ Armed.pend.to = upd.to
        /\ Armed.pend.attempts = 0
    <3> DEFINE p == [from |-> run, to |-> upd.to, attempts |-> 0, confirmed |-> FALSE]
    <3>1. p \in Breadcrumb /\ p.to = upd.to /\ p.attempts = 0
      BY <2>1 DEF Breadcrumb
    <3>2. Armed = [st EXCEPT !.pend = p]
      BY DEF Armed
    <3> HIDE DEF p
    <3> QED
      BY <2>1, <3>1, <3>2, Zenon DEF StateFile
  <2>3. CASE st.pend.to # NoVersion /\ UpdateFails(st, FALSE, FALSE)
    BY <2>1, <2>3, FailedUpdate, Zenon DEF performSelfUpdate
  <2>4. CASE \E s \in {st, Armed} : UpdateFails(s, TRUE, FALSE) /\ st.pend.to = NoVersion
    <3>1. PICK s \in {st, Armed} : UpdateFails(s, TRUE, FALSE) /\ st.pend.to = NoVersion
      BY <2>4, Zenon
    <3>2. /\ st' \in StateFile /\ st'.floor = s.floor /\ pc' = "after"
          /\ st'.pend = s.pend \/ st'.pend = NoUpdate
          /\ UNCHANGED <<cat, exe, bak, run, upd, looped, fresh, proven, boots, targets>>
      BY <2>1, <2>2, <3>1, FailedUpdate, Zenon
    <3> QED
      BY <2>2, <3>1, <3>2, Versions DEF performSelfUpdate
  <2>5. CASE st' = Armed /\ pc' = "backup" /\ st.pend.to = NoVersion
    BY <2>2, <2>5, Numbers DEF performSelfUpdate, UpdateFails, To
  <2> QED
    BY <2>3, <2>4, <2>5, Zenon DEF performSelfUpdate
<1>2. SelfUpdateTypeOK'
  BY <1>1, Versions DEF SelfUpdateInv, SelfUpdateTypeOK, VersionOrNone
<1>3. SwapInv'
  BY <1>1, Numbers DEF SelfUpdateInv, SwapInv, maxSelfUpdateAttempts
<1>4. ASSUME "rename" \notin RollbackFaults PROVE ProvenInv'
  BY <1>1, <1>4, Numbers DEF SelfUpdateInv, SwapInv, ProvenInv
<1>5. ASSUME "exec" \notin RollbackFaults PROVE FloorInv'
  BY <1>1, <1>5, Numbers DEF SelfUpdateInv, SwapInv, FloorInv
<1> QED
  BY <1>2, <1>3, <1>4, <1>5 DEF SelfUpdateInv

\* The installed binary is copied beside itself.
LEMMA CopyKept ==
    ASSUME SelfUpdateAssumption, SelfUpdateInv, CopyToBak
    PROVE  SelfUpdateInv'
<1>1. /\ pc = "backup" /\ UNCHANGED <<cat, exe, run, upd, proven, boots>>
      /\ st' \in StateFile /\ st'.floor = st.floor
      /\ \/ pc' = "rename" /\ bak' = exe /\ st' = st
         \/ /\ pc' = "after" /\ bak' = bak
            /\ st'.pend = st.pend \/ (st'.pend = NoUpdate /\ NoUpdate.to = NoVersion)
  <2>1. st \in StateFile /\ SelfUpdateTypeOK
    BY DEF SelfUpdateInv, SelfUpdateTypeOK
  <2>2. CASE UpdateFails(st, TRUE, FALSE)
    <3>1. /\ st' \in StateFile /\ st'.floor = st.floor /\ pc' = "after"
          /\ st'.pend = st.pend \/ st'.pend = NoUpdate
          /\ UNCHANGED <<cat, exe, bak, run, upd, proven, boots>>
      BY <2>1, <2>2, FailedUpdate, Zenon
    <3> QED
      BY <3>1, Versions DEF CopyToBak
  <2>3. CASE bak' = exe /\ pc' = "rename" /\ UNCHANGED <<cat, exe, run, upd, st, proven, boots>>
    BY <2>1, <2>3 DEF CopyToBak
  <2> QED
    BY <2>2, <2>3, Zenon DEF CopyToBak
<1>2. SelfUpdateTypeOK'
  BY <1>1, Versions DEF SelfUpdateInv, SelfUpdateTypeOK, VersionOrNone
<1>3. SwapInv'
  BY <1>1, Numbers DEF SelfUpdateInv, SwapInv, maxSelfUpdateAttempts
<1>4. ASSUME "rename" \notin RollbackFaults PROVE ProvenInv'
  BY <1>1, <1>4, Numbers DEF SelfUpdateInv, SwapInv, ProvenInv
<1>5. ASSUME "exec" \notin RollbackFaults PROVE FloorInv'
  BY <1>1, <1>5, Numbers DEF SelfUpdateInv, SwapInv, FloorInv
<1> QED
  BY <1>2, <1>3, <1>4, <1>5 DEF SelfUpdateInv

\* The rename installs what the breadcrumb names, over what was backed up.
LEMMA InstallKept ==
    ASSUME SelfUpdateAssumption, SelfUpdateInv, InstallNew
    PROVE  SelfUpdateInv'
<1>1. /\ pc = "rename" /\ UNCHANGED <<cat, run, upd, proven, boots>>
      /\ st' \in StateFile /\ st'.floor = st.floor
      /\ \/ pc' = "exec" /\ exe' = upd.to /\ bak' = bak /\ st' = st
         \/ /\ pc' = "after" /\ exe' = exe /\ bak' = NoVersion
            /\ st'.pend = st.pend \/ (st'.pend = NoUpdate /\ NoUpdate.to = NoVersion)
  <2>1. st \in StateFile /\ upd.forced \in BOOLEAN /\ NoUpdate \in Breadcrumb
    BY Versions DEF SelfUpdateInv, SelfUpdateTypeOK
  <2>2. CASE exe' = upd.to /\ pc' = "exec" /\ UNCHANGED <<cat, bak, run, upd, st, proven, boots>>
    BY <2>1, <2>2 DEF InstallNew
  <2>3. CASE /\ bak' = NoVersion /\ pc' = "after" /\ UNCHANGED <<cat, exe, run, upd, proven, boots>>
             /\ \/ st' = [st EXCEPT !.pend = NoUpdate, !.blocked = FALSE]
                \/ st' = [st EXCEPT !.blocked = TRUE]
    <3>1. /\ st' \in StateFile /\ st'.floor = st.floor
          /\ st'.pend = st.pend \/ st'.pend = NoUpdate
      BY <2>1, <2>3, Zenon DEF StateFile
    <3> QED
      BY <2>3, <3>1, Versions DEF InstallNew
  <2> QED
    BY <2>1, <2>2, <2>3 DEF InstallNew
<1>2. SelfUpdateTypeOK'
  <2>1. upd.to \in VersionOrNone /\ (pc = "rename" => upd.to # NoVersion)
    BY Numbers DEF SelfUpdateInv, SelfUpdateTypeOK, SwapInv
  <2> QED
    BY <1>1, <2>1, Versions DEF SelfUpdateInv, SelfUpdateTypeOK, VersionOrNone
<1>3. SwapInv'
  BY <1>1, Numbers DEF SelfUpdateInv, SwapInv, maxSelfUpdateAttempts
<1>4. ASSUME "rename" \notin RollbackFaults PROVE ProvenInv'
  BY <1>1, <1>4, Numbers DEF SelfUpdateInv, SwapInv, ProvenInv
<1>5. ASSUME "exec" \notin RollbackFaults PROVE FloorInv'
  BY <1>1, <1>5, Numbers DEF SelfUpdateInv, SwapInv, FloorInv
<1> QED
  BY <1>2, <1>3, <1>4, <1>5 DEF SelfUpdateInv

\* The new binary is executed, or the old image runs on beside its breadcrumb.
LEMMA ReExecKept ==
    ASSUME SelfUpdateAssumption, SelfUpdateInv, ReExec
    PROVE  SelfUpdateInv'
<1>1. /\ pc = "exec" /\ UNCHANGED <<cat, exe, bak, upd, proven, boots>>
      /\ st' \in StateFile /\ st'.floor = st.floor /\ st'.pend = st.pend
      /\ (pc' = "early" /\ run' = exe) \/ (pc' = "after" /\ run' = run)
  <2>1. st \in StateFile /\ SelfUpdateTypeOK
    BY DEF SelfUpdateInv, SelfUpdateTypeOK
  <2>2. CASE UpdateFails(st, TRUE, TRUE)
    <3>1. /\ st' \in StateFile /\ st'.floor = st.floor /\ pc' = "after" /\ st'.pend = st.pend
          /\ UNCHANGED <<cat, exe, bak, run, upd, proven, boots>>
      BY <2>1, <2>2, FailedUpdate, Zenon
    <3> QED
      BY <3>1 DEF ReExec
  <2>3. CASE pc' = "early" /\ run' = exe /\ UNCHANGED <<cat, exe, bak, upd, st, proven, boots>>
    BY <2>1, <2>3 DEF ReExec
  <2> QED
    BY <2>2, <2>3, Zenon DEF ReExec
<1>2. SelfUpdateTypeOK'
  BY <1>1, Versions DEF SelfUpdateInv, SelfUpdateTypeOK, VersionOrNone
<1>3. SwapInv'
  BY <1>1, Numbers DEF SelfUpdateInv, SwapInv, maxSelfUpdateAttempts
<1>4. ASSUME "rename" \notin RollbackFaults PROVE ProvenInv'
  BY <1>1, <1>4, Numbers DEF SelfUpdateInv, SwapInv, ProvenInv
<1>5. ASSUME "exec" \notin RollbackFaults PROVE FloorInv'
  BY <1>1, <1>5, Numbers DEF SelfUpdateInv, SwapInv, FloorInv
<1> QED
  BY <1>2, <1>3, <1>4, <1>5 DEF SelfUpdateInv

\* Finalization after a cycle that worked.
LEMMA AfterKept ==
    ASSUME SelfUpdateAssumption, SelfUpdateInv, AfterCycle
    PROVE  SelfUpdateInv'
<1>1. /\ pc = "after" /\ UNCHANGED <<cat, exe, bak, run, upd, boots>> /\ st' \in StateFile
      /\ \/ st' = st /\ pc' = "loop" /\ proven' = proven
         \/ /\ run = st.pend.to /\ st'.pend.to = NoVersion /\ st'.floor = run
            /\ pc' \in {"loop", "dropbak"} /\ proven' = proven \cup {run}
  <2>1. /\ pc = "after" /\ UNCHANGED <<cat, exe, bak, run, upd, boots>> /\ Finalize("loop")
        /\ SelfUpdateTypeOK
    BY DEF AfterCycle, SelfUpdateInv
  <2>2. /\ st' \in StateFile
        /\ \/ st' = st /\ pc' = "loop" /\ proven' = proven
           \/ /\ run = st.pend.to /\ st'.pend = NoUpdate /\ st'.floor = run
              /\ pc' \in {"loop", "dropbak"} /\ proven' = proven \cup {run}
    BY <2>1, Finalized
  <2> QED
    BY <2>1, <2>2, Versions
<1>2. SelfUpdateTypeOK'
  <2>1. run \in Version
    BY <1>1, Versions DEF SelfUpdateInv, SelfUpdateTypeOK, SwapInv, VersionOrNone
  <2> QED
    BY <1>1, <2>1 DEF SelfUpdateInv, SelfUpdateTypeOK
<1>3. SwapInv'
  BY <1>1, Numbers DEF SelfUpdateInv, SwapInv, maxSelfUpdateAttempts
<1>4. ASSUME "rename" \notin RollbackFaults PROVE ProvenInv'
  BY <1>1, <1>4, Numbers DEF SelfUpdateInv, SwapInv, ProvenInv
<1>5. ASSUME "exec" \notin RollbackFaults PROVE FloorInv'
  BY <1>1, <1>5, Numbers DEF SelfUpdateInv, SwapInv, FloorInv
<1> QED
  BY <1>2, <1>3, <1>4, <1>5 DEF SelfUpdateInv

\* Finalization after an idle cycle.
LEMMA IdleCycleKept ==
    ASSUME SelfUpdateAssumption, SelfUpdateInv, IdleCycle
    PROVE  SelfUpdateInv'
<1>1. /\ pc = "idle" /\ UNCHANGED <<cat, exe, bak, run, upd, boots>> /\ st' \in StateFile
      /\ \/ st' = st /\ pc' = "retry" /\ proven' = proven
         \/ /\ run = st.pend.to /\ st'.pend.to = NoVersion /\ st'.floor = run
            /\ pc' \in {"retry", "dropbak"} /\ proven' = proven \cup {run}
  <2>1. /\ pc = "idle" /\ UNCHANGED <<cat, exe, bak, run, upd, boots>> /\ Finalize("retry")
        /\ SelfUpdateTypeOK
    BY DEF IdleCycle, SelfUpdateInv
  <2>2. /\ st' \in StateFile
        /\ \/ st' = st /\ pc' = "retry" /\ proven' = proven
           \/ /\ run = st.pend.to /\ st'.pend = NoUpdate /\ st'.floor = run
              /\ pc' \in {"retry", "dropbak"} /\ proven' = proven \cup {run}
    BY <2>1, Finalized
  <2> QED
    BY <2>1, <2>2, Versions
<1>2. SelfUpdateTypeOK'
  <2>1. run \in Version
    BY <1>1, Versions DEF SelfUpdateInv, SelfUpdateTypeOK, SwapInv, VersionOrNone
  <2> QED
    BY <1>1, <2>1 DEF SelfUpdateInv, SelfUpdateTypeOK
<1>3. SwapInv'
  BY <1>1, Numbers DEF SelfUpdateInv, SwapInv, maxSelfUpdateAttempts
<1>4. ASSUME "rename" \notin RollbackFaults PROVE ProvenInv'
  BY <1>1, <1>4, Numbers DEF SelfUpdateInv, SwapInv, ProvenInv
<1>5. ASSUME "exec" \notin RollbackFaults PROVE FloorInv'
  BY <1>1, <1>5, Numbers DEF SelfUpdateInv, SwapInv, FloorInv
<1> QED
  BY <1>2, <1>3, <1>4, <1>5 DEF SelfUpdateInv

\* The backup goes after the target is confirmed.
LEMMA DropKept ==
    ASSUME SelfUpdateAssumption, SelfUpdateInv, DropBak
    PROVE  SelfUpdateInv'
<1>1. /\ pc = "dropbak" /\ pc' = "loop" /\ bak' = NoVersion
      /\ UNCHANGED <<cat, exe, run, upd, st, proven, boots>>
  BY DEF DropBak
<1>2. SelfUpdateTypeOK'
  BY <1>1, Versions DEF SelfUpdateInv, SelfUpdateTypeOK, VersionOrNone
<1>3. SwapInv'
  BY <1>1, Numbers DEF SelfUpdateInv, SwapInv, maxSelfUpdateAttempts
<1>4. ASSUME "rename" \notin RollbackFaults PROVE ProvenInv'
  BY <1>1, <1>4, Numbers DEF SelfUpdateInv, SwapInv, ProvenInv
<1>5. ASSUME "exec" \notin RollbackFaults PROVE FloorInv'
  BY <1>1, <1>5, Numbers DEF SelfUpdateInv, SwapInv, FloorInv
<1> QED
  BY <1>2, <1>3, <1>4, <1>5 DEF SelfUpdateInv

\* A crash leaves what is on disk.
LEMMA CrashKept ==
    ASSUME SelfUpdateAssumption, SelfUpdateInv, Crash
    PROVE  SelfUpdateInv'
<1>1. /\ pc' = "off" /\ run' = NoVersion
      /\ UNCHANGED <<cat, exe, bak, upd, st, proven, boots>>
  BY DEF Crash, Exit
<1>2. SelfUpdateTypeOK'
  BY <1>1, Versions DEF SelfUpdateInv, SelfUpdateTypeOK, VersionOrNone
<1>3. SwapInv'
  BY <1>1, Numbers DEF SelfUpdateInv, SwapInv, maxSelfUpdateAttempts
<1>4. ASSUME "rename" \notin RollbackFaults PROVE ProvenInv'
  BY <1>1, <1>4, Numbers DEF SelfUpdateInv, SwapInv, ProvenInv
<1>5. ASSUME "exec" \notin RollbackFaults PROVE FloorInv'
  BY <1>1, <1>5, Numbers DEF SelfUpdateInv, SwapInv, FloorInv
<1> QED
  BY <1>2, <1>3, <1>4, <1>5 DEF SelfUpdateInv

\* Every step keeps the invariant.
LEMMA SelfUpdateNext ==
    ASSUME SelfUpdateAssumption, SelfUpdateInv, [Next]_vars
    PROVE  SelfUpdateInv'
<1>1. CASE UNCHANGED vars
  BY <1>1 DEF vars, SelfUpdateInv, SelfUpdateTypeOK, SwapInv, ProvenInv, FloorInv
<1>2. CASE \E v \in Version, m \in Version \cup {NoVersion} : Retarget(v, m)
  BY <1>2, RetargetKept DEF VersionOrNone
<1>3. CASE Boot \/ Crash
  BY <1>3, BootKept, CrashKept
<1>4. CASE ReconcileSelfUpdateEarly \/ RollbackBinary \/ Abandon \/ ReExecRestored
           \/ ReconcileSelfUpdatePromote
  BY <1>4, EarlyKept, RollbackKept, AbandonKept, RestoredKept, PromoteKept
<1>5. CASE CycleError \/ CycleIdle \/ CycleApply \/ CycleForced \/ RetryDeferredSelfUpdate
  BY <1>5, CyclesKept
<1>6. CASE performSelfUpdate \/ CopyToBak \/ InstallNew \/ ReExec
  BY <1>6, PerformKept, CopyKept, InstallKept, ReExecKept
<1>7. CASE AfterCycle \/ IdleCycle \/ DropBak
  BY <1>7, AfterKept, IdleCycleKept, DropKept
<1> QED
  BY <1>1, <1>2, <1>3, <1>4, <1>5, <1>6, <1>7 DEF Next, Process, Cycle

\* The first start is of the installed version 1, without a breadcrumb.
LEMMA SelfUpdateInit ==
    ASSUME SelfUpdateAssumption, Init
    PROVE  SelfUpdateInv
<1>1. SelfUpdateTypeOK
  BY Versions DEF Init, SelfUpdateTypeOK, StateFile
<1>2. SwapInv /\ ProvenInv /\ FloorInv
  BY <1>1, Versions DEF Init, SwapInv, ProvenInv, FloorInv, maxSelfUpdateAttempts
<1> QED
  BY <1>1, <1>2 DEF SelfUpdateInv

-----------------------------------------------------------------------------
(***************************************************************************)
(* The theorems.                                                           *)
(***************************************************************************)

\* The versions on disk, in the process and in the breadcrumb keep their order.
THEOREM SwapsOrdered ==
    ASSUME SelfUpdateAssumption
    PROVE  Spec => []SelfUpdateInv
<1>1. Init => SelfUpdateInv
  BY SelfUpdateInit
<1>2. SelfUpdateInv /\ [Next]_vars => SelfUpdateInv'
  BY SelfUpdateNext
<1> QED
  BY <1>1, <1>2, PTL DEF Spec

\* ReconcileSelfUpdateEarly: a target gets past the early phase at most
\* maxSelfUpdateAttempts times, whatever fails in the swap, the saves or the rollback.
THEOREM BootsAlwaysBounded ==
    ASSUME SelfUpdateAssumption
    PROVE  Spec => []BoundedBoots
<1>1. SelfUpdateInv => BoundedBoots
  BY DEF SelfUpdateInv, SwapInv, BoundedBoots
<1> QED
  BY <1>1, SwapsOrdered, PTL

\* While the rename of a rollback works, an installed binary that did not prove itself has
\* its breadcrumb in state.json and a proven binary in its backup, through crashes at every
\* step, failed saves and failed updates.
THEOREM AlwaysRevertible ==
    ASSUME SelfUpdateAssumption, "rename" \notin RollbackFaults
    PROVE  Spec => []UnprovenRevertible
<1>1. SelfUpdateInv => UnprovenRevertible
  BY DEF SelfUpdateInv, SwapInv, ProvenInv, BoundedBoots, UnprovenRevertible,
     UnprovenHasBreadcrumb, RollbackPossible
<1> QED
  BY <1>1, SwapsOrdered, PTL

\* While the re-exec of a rollback works, neither an update nor a rollback installs a version
\* below the floor that FinalizeSelfUpdate confirmed.
THEOREM NothingBelowFloor ==
    ASSUME SelfUpdateAssumption, "exec" \notin RollbackFaults
    PROVE  Spec => [][NeverBelowFloor]_vars
<1>1. ASSUME SelfUpdateInv, [Next]_vars PROVE [NeverBelowFloor]_vars
  <2>1. exe' = exe \/ RollbackBinary \/ InstallNew
    BY <1>1, Zenon DEF Next, Process, Cycle, Retarget, Boot, ReconcileSelfUpdateEarly, Abandon,
       ReExecRestored, ReconcileSelfUpdatePromote, CycleError, CycleIdle, CycleApply,
       CycleForced, performSelfUpdate, CopyToBak, ReExec, AfterCycle, IdleCycle, DropBak,
       RetryDeferredSelfUpdate, Crash, Exit, To, UpdateFails, vars
  <2>2. CASE RollbackBinary
    BY <1>1, <2>2, Numbers DEF RollbackBinary, SelfUpdateInv, SwapInv, FloorInv, NeverBelowFloor
  <2>3. CASE InstallNew
    BY <1>1, <2>3, Numbers DEF InstallNew, SelfUpdateInv, FloorInv, NeverBelowFloor
  <2> QED
    BY <2>1, <2>2, <2>3 DEF NeverBelowFloor
<1> QED
  BY <1>1, SwapsOrdered, PTL DEF Spec
=============================================================================
