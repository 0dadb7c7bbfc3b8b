---------------------------- MODULE TopologyStore ----------------------------
(***************************************************************************)
(* The stored topology and its bounded history                             *)
(* (internal/controller/storecore.go: PutTopology, CompareAndSetTopology,  *)
(* GetTopologyVersion), the operator's save (SaveTopology, tenantlock.go)  *)
(* and a stage's read, allocation write-back and publication               *)
(* (CompileAndStage, persistAllocations).                                  *)
(*                                                                         *)
(* A topology is a design and whether it carries the compiled pins.  A     *)
(* write of the backend may fail before or after it took effect, and the   *)
(* process may die between two of them; the kv lock keeps everyone else    *)
(* out of a store call in progress.                                        *)
(***************************************************************************)
EXTENDS Integers, FiniteSets, Sequences

CONSTANTS Designs,              \* what the operator draws
          TopologyHistoryLimit, \* versions kept
          MaxVersion,           \* bound: versions
          MaxFaults             \* bound: failing writes and deaths of the process

ASSUME TopologyStoreAssumption ==
    TopologyHistoryLimit \in Nat \ {0} /\ MaxVersion \in Nat

VARIABLES topology,  \* collTopology: [ver, topo]; ver 0: none
          history,   \* collTopoHistory: a set of [ver, topo], one per ver
          op,        \* the store write in progress, under the kv lock
          stage,     \* the CompileAndStage in progress
          tenantMu,  \* holder of the tenant operation lock
          staged,    \* the staged set: the topology record it was compiled from
          faults,
          committed, \* history variable: every record that was ever current
          overtaken  \* history variable: a put without the tenant lock began during the stage

vars == <<topology, history, op, stage, tenantMu, staged, faults, committed, overtaken>>

Topologies == [design : Designs, pins : BOOLEAN]
NoTopo == [design |-> "none", pins |-> FALSE]
NoRecord == [ver |-> 0, topo |-> NoTopo]
IdleOp == [by |-> "none", rec |-> NoRecord, todo |-> <<>>]
IdleStage == [pc |-> "idle", rec |-> NoRecord]

\* An upgrade from before the history feature has a current record only.
Init ==
    /\ topology \in {NoRecord} \cup {[ver |-> 1, topo |-> t] : t \in Topologies}
    /\ history = {}
    /\ op = IdleOp /\ stage = IdleStage /\ tenantMu = "none"
    /\ staged = NoRecord /\ faults = 0
    /\ committed = {topology} \ {NoRecord} /\ overtaken = FALSE

-----------------------------------------------------------------------------
(* putTopologyAfterLocked, write by write.                                 *)

HasHistory(v) == \E h \in history : h.ver = v

NoBackfill == <<>>

Backfill == IF topology.ver > 0 /\ ~HasHistory(topology.ver) THEN <<"backfill">> ELSE <<>>

putTopologyAfterLocked == Backfill \o <<"history", "current", "prune">>

StartPut(by, topo) ==
    /\ op = IdleOp
    /\ op' = [by |-> by, todo |-> putTopologyAfterLocked,
              rec |-> [ver |-> topology.ver + 1, topo |-> topo]]

Save(rec) == {h \in history : h.ver # rec.ver} \cup {rec}

\* One write of the call takes effect.  Pruning is best effort: any of the
\* records it would remove may be left.
Writes ==
    CASE Head(op.todo) = "backfill" ->
           history' = Save(topology) /\ UNCHANGED <<topology, committed>>
      [] Head(op.todo) = "history" ->
           history' = Save(op.rec) /\ UNCHANGED <<topology, committed>>
      [] Head(op.todo) = "current" ->
           topology' = op.rec /\ committed' = committed \cup {op.rec} /\ UNCHANGED history
      [] OTHER ->
           /\ \E left \in SUBSET {h \in history : h.ver <= op.rec.ver - TopologyHistoryLimit} :
                /\ (left # {} => faults < MaxFaults)
                /\ history' = {h \in history : h.ver > op.rec.ver - TopologyHistoryLimit} \cup left
           /\ UNCHANGED <<topology, committed>>

\* What the caller does with the answer: a save ends; a stage goes on, or
\* gives up and releases the tenant lock.
Answer(ok) ==
    CASE op.by = "stage" ->
           IF ok THEN stage' = [pc |-> "publish", rec |-> op.rec] /\ UNCHANGED tenantMu
                 ELSE stage' = IdleStage /\ tenantMu' = "none"
      [] op.by = "save" -> tenantMu' = "none" /\ UNCHANGED stage
      [] OTHER -> UNCHANGED <<stage, tenantMu>>

PutStep ==
    /\ op # IdleOp /\ Writes
    /\ IF Len(op.todo) = 1
       THEN op' = IdleOp /\ Answer(TRUE)
       ELSE op' = [op EXCEPT !.todo = Tail(@)] /\ UNCHANGED <<stage, tenantMu>>
    /\ UNCHANGED <<staged, faults, overtaken>>

\* A write returns an error, with or without its effect: the call ends there.
PutFails ==
    /\ op # IdleOp /\ Head(op.todo) # "prune" /\ faults < MaxFaults
    /\ faults' = faults + 1 /\ op' = IdleOp /\ Answer(FALSE)
    /\ \/ Writes \/ UNCHANGED <<topology, history, committed>>
    /\ UNCHANGED <<staged, overtaken>>

Die ==
    /\ faults < MaxFaults /\ faults' = faults + 1
    /\ op # IdleOp \/ stage # IdleStage
    /\ op' = IdleOp /\ stage' = IdleStage /\ tenantMu' = "none"
    /\ UNCHANGED <<topology, history, staged, committed, overtaken>>

-----------------------------------------------------------------------------
(* Callers.  Saves stop one version before the bound, stages at it.        *)

MaySave == topology.ver + 1 < MaxVersion

\* SaveTopology: the operator's save takes the tenant operation lock.
SaveTopology(topo) ==
    /\ tenantMu = "none" /\ tenantMu' = "save"
    /\ MaySave /\ StartPut("save", topo)
    /\ UNCHANGED <<topology, history, stage, staged, faults, committed, overtaken>>

\* A caller of the Store itself takes no tenant lock.
PutTopology(topo) ==
    /\ MaySave /\ StartPut("direct", topo)
    /\ overtaken' = (stage # IdleStage)
    /\ UNCHANGED <<topology, history, stage, tenantMu, staged, faults, committed>>

\* CompileAndStage reads the current record; none is a benign no-op.
StageRead ==
    /\ stage = IdleStage /\ tenantMu = "none" /\ op = IdleOp /\ topology.ver > 0
    /\ tenantMu' = "stage" /\ stage' = [pc |-> "compiled", rec |-> topology]
    /\ overtaken' = FALSE
    /\ UNCHANGED <<topology, history, op, staged, faults, committed>>

Compiled == [stage.rec.topo EXCEPT !.pins = TRUE]

WriteBackAnyVersion ==
    /\ stage.pc = "compiled" /\ op = IdleOp
    /\ \/ topology.topo = Compiled
          /\ stage' = [pc |-> "publish", rec |-> topology] /\ UNCHANGED <<op, tenantMu>>
       \/ topology.topo # Compiled
          /\ StartPut("stage", Compiled) /\ stage' = [stage EXCEPT !.pc = "cas"]
          /\ UNCHANGED tenantMu
    /\ UNCHANGED <<topology, history, staged, faults, committed, overtaken>>

\* persistAllocations: CompareAndSetTopology refuses a version that moved,
\* and writes nothing when the bytes are the same.
CompareAndSetTopology ==
    /\ stage.pc = "compiled" /\ op = IdleOp
    /\ \/ topology.ver # stage.rec.ver
          /\ stage' = IdleStage /\ tenantMu' = "none" /\ UNCHANGED op
       \/ topology.ver = stage.rec.ver /\ topology.topo = Compiled
          /\ stage' = [pc |-> "publish", rec |-> topology] /\ UNCHANGED <<op, tenantMu>>
       \/ topology.ver = stage.rec.ver /\ topology.topo # Compiled
          /\ StartPut("stage", Compiled) /\ stage' = [stage EXCEPT !.pc = "cas"]
          /\ UNCHANGED tenantMu
    /\ UNCHANGED <<topology, history, staged, faults, committed, overtaken>>

\* ReplaceStagedSet of what was compiled.
Publish ==
    /\ stage.pc = "publish" /\ op = IdleOp
    /\ staged' = stage.rec /\ stage' = IdleStage /\ tenantMu' = "none"
    /\ UNCHANGED <<topology, history, op, faults, committed, overtaken>>

Next ==
    \/ PutStep \/ PutFails \/ Die
    \/ \E t \in Topologies : SaveTopology(t) \/ PutTopology(t)
    \/ StageRead \/ CompareAndSetTopology \/ Publish

Spec == Init /\ [][Next]_vars

-----------------------------------------------------------------------------
(* Reads. *)

\* The record served for a version: a singleton, or empty (ErrNotFound).  A
\* history record newer than the committed one never became current.
GetTopologyVersion(v) ==
    IF v > topology.ver THEN {}
    ELSE IF v = topology.ver THEN {topology}
    ELSE {h \in history : h.ver = v}

-----------------------------------------------------------------------------
\* Every version ever current is, as long as it is among the newest
\* TopologyHistoryLimit, served with the content it was committed with,
\* whatever writes failed and wherever the process died.
Retained ==
    \A c \in committed :
        c.ver > topology.ver - TopologyHistoryLimit => GetTopologyVersion(c.ver) = {c}

\* No version is served that was never current: the history record a failed
\* save left behind is invisible.
OnlyCommitted ==
    \A v \in 1 .. MaxVersion : GetTopologyVersion(v) \subseteq committed

\* A stage's write-back replaces exactly the record it compiled: a save that
\* landed in between is never overwritten by a topology that does not hold it.
\* A condition on a step.
NoLostSave ==
    op.by = "stage" /\ topology' # topology => topology = stage.rec

\* The staged set that a stage publishes was compiled from the topology current
\* at that moment, unless a caller of the Store itself wrote beside the stage: the
\* operator's saves cannot.  A condition on a step.
StageIsCurrent ==
    staged' # staged => staged' = topology \/ overtaken

\* Both, of every step: a stage replaces and publishes what it read.
StagesWhatItRead == [][NoLostSave /\ StageIsCurrent]_vars

\* The versions served are exactly versions that were current, the newest all of them.
ServesCommitted == Retained /\ OnlyCommitted
=============================================================================
