------------------------ MODULE TopologyStoreProofs -------------------------
(***************************************************************************)
(* The stored topology, for any designs, any retention limit, any number   *)
(* of versions and faults and any mix of callers: the versions served are  *)
(* the ones that were current, the newest without a gap, and a stage       *)
(* replaces and publishes what it read.                                    *)
(***************************************************************************)
EXTENDS TopologyStore, SequenceTheorems, TLAPS

Record == [ver : Nat, topo : [design : Designs \cup {"none"}, pins : BOOLEAN]]

\* What is left of putTopologyAfterLocked.
ToPrune    == <<"prune">>
ToCurrent  == <<"current", "prune">>
ToHistory  == <<"history", "current", "prune">>
ToBackfill == <<"backfill", "history", "current", "prune">>
Todos == {ToPrune, ToCurrent, ToHistory, ToBackfill}

Put == [by : {"none", "save", "direct", "stage"}, rec : Record, todo : Todos \cup {<<>>}]
Stage == [pc : {"idle", "compiled", "cas", "publish"}, rec : Record]

TopologyTypeOK ==
    /\ topology \in Record /\ history \subseteq Record /\ committed \subseteq Record
    /\ op \in Put
    /\ stage \in Stage
    /\ tenantMu \in {"none", "save", "stage"}

\* One record per version; what the history holds up to the current version was current, and
\* of the newest versions it lacks at most the current one.
HistoryInv ==
    /\ topology.ver > 0 => topology \in committed
    /\ \A c \in committed : 0 < c.ver /\ c.ver <= topology.ver
    /\ \A c, d \in committed : c.ver = d.ver => c = d
    /\ \A h, g \in history : h.ver = g.ver => h = g
    /\ \A h \in history : h.ver <= topology.ver => h \in committed
    /\ \A c \in committed :
          c.ver > topology.ver - TopologyHistoryLimit => c = topology \/ c \in history

\* What the write in progress has done so far.
PutInv ==
    /\ op # IdleOp => op.todo \in Todos
    /\ op # IdleOp /\ op.todo # ToPrune => op.rec.ver = topology.ver + 1
    /\ op # IdleOp /\ op.todo = ToPrune => op.rec = topology
    /\ op.todo = ToBackfill => topology.ver > 0
    /\ op.todo \in {ToHistory, ToCurrent} => topology.ver = 0 \/ topology \in history
    /\ op.todo = ToCurrent => op.rec \in history

\* A stage holds a record that was current, and its write-back replaces that record.
StageInv ==
    /\ stage.pc # "idle" => stage.rec \in committed
    /\ op.by = "stage" => stage.pc = "cas" /\ (op.todo # ToPrune => topology = stage.rec)

\* The tenant lock keeps saves out of a stage; a caller of the Store itself overtakes it.
MutexInv ==
    /\ op.by = "direct" /\ stage.pc # "idle" => overtaken
    /\ op.by = "save" => tenantMu = "save"
    /\ stage.pc # "idle" => tenantMu = "stage"
    /\ stage.pc = "publish" /\ ~overtaken => stage.rec = topology /\ op = IdleOp

TopologyInv ==
    /\ TopologyTypeOK /\ HistoryInv /\ PutInv /\ StageInv /\ MutexInv

-----------------------------------------------------------------------------
\* The writes are taken from the front.
LEMMA Fronts ==
    /\ Head(ToPrune) = "prune" /\ Len(ToPrune) = 1
    /\ Head(ToCurrent) = "current" /\ Len(ToCurrent) = 2 /\ Tail(ToCurrent) = ToPrune
    /\ Head(ToHistory) = "history" /\ Len(ToHistory) = 3 /\ Tail(ToHistory) = ToCurrent
    /\ Head(ToBackfill) = "backfill" /\ Len(ToBackfill) = 4 /\ Tail(ToBackfill) = ToHistory
  BY DEF ToPrune, ToCurrent, ToHistory, ToBackfill

\* No two of them are equal.
LEMMA TodosDiffer ==
    /\ ToPrune # ToCurrent /\ ToPrune # ToHistory /\ ToPrune # ToBackfill
    /\ ToCurrent # ToHistory /\ ToCurrent # ToBackfill /\ ToHistory # ToBackfill
    /\ \A t \in Todos : t # <<>>
  BY DEF Todos, ToPrune, ToCurrent, ToHistory, ToBackfill

\* putTopologyAfterLocked starts with the backfill of a version that has no history.
LEMMA PutPlan ==
    putTopologyAfterLocked =
        IF topology.ver > 0 /\ ~HasHistory(topology.ver) THEN ToBackfill ELSE ToHistory
<1>1. <<>> \o ToHistory = ToHistory
  BY DEF ToHistory
<1>2. <<"backfill">> \o ToHistory = ToBackfill
  <2> DEFINE W == {"backfill", "history", "current", "prune"}
             one == <<"backfill">>
             s == one \o ToHistory
  <2>1. one \in Seq(W) /\ Len(one) = 1 /\ one[1] = "backfill"
    OBVIOUS
  <2>2. ToHistory \in Seq(W) /\ Len(ToHistory) = 3
    BY DEF ToHistory
  <2>3. ToBackfill \in Seq(W) /\ Len(ToBackfill) = 4
    BY DEF ToBackfill
  <2> HIDE DEF W, one
  <2>4. /\ s \in Seq(W) /\ Len(s) = Len(one) + Len(ToHistory)
        /\ \A i \in 1 .. Len(one) + Len(ToHistory) :
              s[i] = IF i <= Len(one) THEN one[i] ELSE ToHistory[i - Len(one)]
    BY <2>1, <2>2, ConcatProperties, Zenon
  <2> HIDE DEF s
  <2>5. s[1] = "backfill" /\ s[2] = ToHistory[1] /\ s[3] = ToHistory[2] /\ s[4] = ToHistory[3]
    BY <2>1, <2>2, <2>4
  <2>6. \A i \in 1 .. 4 : s[i] = ToBackfill[i]
    BY <2>5 DEF ToHistory, ToBackfill
  <2>7. Len(s) = Len(ToBackfill) /\ \A i \in 1 .. Len(s) : s[i] = ToBackfill[i]
    BY <2>1, <2>2, <2>3, <2>4, <2>6
  <2>8. s = ToBackfill
    BY <2>3, <2>4, <2>7, SeqEqual, Zenon
  <2> QED
    BY <2>8 DEF s, one
<1> QED
  BY <1>1, <1>2, Zenon DEF putTopologyAfterLocked, Backfill, ToHistory

-----------------------------------------------------------------------------
(***************************************************************************)
(* The writes of one put.                                                  *)
(***************************************************************************)

\* What the types say about the versions that are compared.
LEMMA RecordTypes ==
    ASSUME TopologyTypeOK
    PROVE  /\ topology.ver \in Nat /\ op.rec \in Record /\ op.rec.ver \in Nat
           /\ \A h \in history : h.ver \in Nat
           /\ \A c \in committed : c.ver \in Nat
           /\ TopologyHistoryLimit \in Nat \ {0}
           /\ stage.rec \in Record
  BY TopologyStoreAssumption DEF TopologyTypeOK, Record, Put, Stage

\* The write in progress is one of the four.
LEMMA WriteEffect ==
    ASSUME TopologyInv, op # IdleOp, Writes
    PROVE  \/ /\ op.todo = ToBackfill /\ history' = Save(topology)
              /\ UNCHANGED <<topology, committed>>
           \/ /\ op.todo = ToHistory /\ history' = Save(op.rec)
              /\ UNCHANGED <<topology, committed>>
           \/ /\ op.todo = ToCurrent /\ topology' = op.rec /\ history' = history
              /\ committed' = committed \cup {op.rec}
           \/ /\ op.todo = ToPrune /\ UNCHANGED <<topology, committed>>
              /\ history' \subseteq history
              /\ \A h \in history : h.ver > op.rec.ver - TopologyHistoryLimit => h \in history'
<1>1. op.todo \in Todos
  BY DEF TopologyInv, PutInv
<1>2. CASE op.todo = ToBackfill
  BY <1>2, Fronts DEF Writes
<1>3. CASE op.todo = ToHistory
  BY <1>3, Fronts DEF Writes
<1>4. CASE op.todo = ToCurrent
  BY <1>4, Fronts DEF Writes
<1>5. CASE op.todo = ToPrune
  <2>1. /\ UNCHANGED <<topology, committed>>
        /\ \E left \in SUBSET {h \in history : h.ver <= op.rec.ver - TopologyHistoryLimit} :
              history' = {h \in history : h.ver > op.rec.ver - TopologyHistoryLimit} \cup left
    BY <1>5, Fronts, Zenon DEF Writes
  <2> QED
    BY <1>5, <2>1
<1> QED
  BY <1>1, <1>2, <1>3, <1>4, <1>5 DEF Todos

\* A record saved in the history replaces the one of its version, and no other.
LEMMA SavedRecord ==
    ASSUME NEW rec, history' = Save(rec)
    PROVE  /\ rec \in history'
           /\ \A h \in history' : h = rec \/ (h \in history /\ h.ver # rec.ver)
           /\ \A h \in history : h.ver # rec.ver => h \in history'
  BY DEF Save

\* Each write keeps the history sound, and does what the rest of the put relies on.
LEMMA WriteKept ==
    ASSUME TopologyInv, op # IdleOp, Writes
    PROVE  /\ topology' \in Record /\ history' \subseteq Record /\ committed' \subseteq Record
           /\ HistoryInv' /\ committed \subseteq committed'
           /\ op.todo \in {ToBackfill, ToHistory, ToPrune} => topology' = topology
           /\ op.todo = ToBackfill => topology \in history'
           /\ op.todo = ToHistory => op.rec \in history'
                                     /\ (topology.ver = 0 \/ topology \in history')
           /\ op.todo = ToCurrent => topology' = op.rec
<1>1. /\ TopologyTypeOK /\ HistoryInv /\ PutInv /\ topology \in Record /\ op.rec \in Record
      /\ history \subseteq Record /\ committed \subseteq Record
  BY DEF TopologyInv, TopologyTypeOK, Put, Stage
<1>2. CASE op.todo = ToBackfill
  <2>1. history' = Save(topology) /\ UNCHANGED <<topology, committed>> /\ topology.ver > 0
    BY <1>1, <1>2, WriteEffect, TodosDiffer DEF PutInv
  <2>2. topology \in committed
    BY <1>1, <2>1 DEF HistoryInv
  <2>3. HistoryInv'
    BY <1>1, <2>1, <2>2, SavedRecord, RecordTypes DEF HistoryInv
  <2> QED
    BY <1>1, <1>2, <2>1, <2>3, SavedRecord, TodosDiffer
<1>3. CASE op.todo = ToHistory
  <2>1. /\ history' = Save(op.rec) /\ UNCHANGED <<topology, committed>>
        /\ op.rec.ver = topology.ver + 1 /\ (topology.ver = 0 \/ topology \in history)
    BY <1>1, <1>3, WriteEffect, TodosDiffer DEF PutInv
  <2>2. HistoryInv'
    BY <1>1, <2>1, SavedRecord, RecordTypes DEF HistoryInv
  <2>3. topology.ver = 0 \/ topology \in history'
    BY <1>1, <2>1, SavedRecord, RecordTypes
  <2> QED
    BY <1>1, <1>3, <2>1, <2>2, <2>3, SavedRecord, TodosDiffer
<1>4. CASE op.todo = ToCurrent
  <2>1. /\ topology' = op.rec /\ history' = history /\ committed' = committed \cup {op.rec}
        /\ op.rec.ver = topology.ver + 1 /\ (topology.ver = 0 \/ topology \in history)
        /\ op.rec \in history
    BY <1>1, <1>4, WriteEffect, TodosDiffer DEF PutInv
  <2>2. HistoryInv'
    BY <1>1, <2>1, RecordTypes DEF HistoryInv
  <2> QED
    BY <1>1, <1>4, <2>1, <2>2, TodosDiffer
<1>5. CASE op.todo = ToPrune
  <2>1. /\ UNCHANGED <<topology, committed>> /\ history' \subseteq history /\ op.rec = topology
        /\ \A h \in history : h.ver > topology.ver - TopologyHistoryLimit => h \in history'
    BY <1>1, <1>5, WriteEffect, TodosDiffer DEF PutInv
  <2>2. HistoryInv'
    BY <1>1, <2>1, RecordTypes DEF HistoryInv
  <2> QED
    BY <1>1, <1>5, <2>1, <2>2, TodosDiffer
<1> QED
  BY <1>1, <1>2, <1>3, <1>4, <1>5 DEF PutInv, Todos

-----------------------------------------------------------------------------
(***************************************************************************)
(* The steps.                                                              *)
(***************************************************************************)

\* One write of the put, and the answer after the last.
LEMMA PutStepKept ==
    ASSUME TopologyInv, PutStep
    PROVE  TopologyInv'
<1>1. /\ op # IdleOp /\ Writes /\ TopologyTypeOK /\ PutInv /\ StageInv /\ op.todo \in Todos
      /\ op.rec \in Record /\ overtaken' = overtaken
  BY DEF TopologyInv, PutStep, PutInv, TopologyTypeOK, Put, Stage
<1>2. /\ topology' \in Record /\ history' \subseteq Record /\ committed' \subseteq Record
      /\ HistoryInv' /\ committed \subseteq committed'
  BY <1>1, WriteKept
<1>3. CASE op.todo = ToPrune
  <2>1. op' = IdleOp /\ Answer(TRUE) /\ topology' = topology /\ op.rec = topology
    BY <1>1, <1>3, WriteKept, Fronts, Zenon DEF PutStep, PutInv
  <2>2. /\ op'.by = "none" /\ op'.todo = <<>> /\ op'.todo \notin Todos
        /\ op' \in Put
    BY <2>1, TodosDiffer DEF IdleOp, NoRecord, NoTopo, Record, Put, Stage
  <2>3. \/ op.by = "stage" /\ stage' = [pc |-> "publish", rec |-> op.rec] /\ tenantMu' = tenantMu
        \/ op.by = "save" /\ tenantMu' = "none" /\ stage' = stage
        \/ op.by \in {"none", "direct"} /\ UNCHANGED <<stage, tenantMu>>
    BY <1>1, <2>1 DEF Answer, TopologyTypeOK, Put, Stage
  <2>4. TopologyTypeOK'
    BY <1>1, <1>2, <2>2, <2>3 DEF TopologyTypeOK, Put, Stage
  <2>5. PutInv'
    BY <2>1, <2>2 DEF PutInv, Todos
  <2>6. op.by = "stage" => topology \in committed
    BY <1>1, RecordTypes DEF StageInv, HistoryInv, TopologyInv
  <2>7. StageInv'
    BY <1>1, <1>2, <2>1, <2>2, <2>3, <2>6 DEF StageInv
  <2>8. MutexInv'
    BY <1>1, <2>1, <2>2, <2>3 DEF MutexInv, StageInv, TopologyInv
  <2> QED
    BY <1>2, <2>4, <2>5, <2>7, <2>8 DEF TopologyInv
<1>4. CASE op.todo # ToPrune
  <2>1. op' = [op EXCEPT !.todo = Tail(op.todo)] /\ UNCHANGED <<stage, tenantMu>>
    <3>1. Len(op.todo) = 2 \/ Len(op.todo) = 3 \/ Len(op.todo) = 4
      BY <1>1, <1>4, Fronts, Zenon DEF Todos
    <3>2. Len(op.todo) # 1
      BY <3>1
    <3> QED
      BY <3>2, Zenon DEF PutStep
  <2>2. /\ op'.by = op.by /\ op'.rec = op.rec /\ op'.todo = Tail(op.todo)
        /\ op'.todo \in Todos
        /\ op' \in Put
    BY <1>1, <1>4, <2>1, Fronts, Zenon DEF TopologyTypeOK, Todos, Put, Stage
  <2>3. TopologyTypeOK'
    BY <1>1, <1>2, <2>1, <2>2 DEF TopologyTypeOK
  <2>4. PutInv'
    BY <1>1, <1>4, <2>2, WriteKept, Fronts, TodosDiffer, Zenon DEF PutInv, Todos
  <2>5. StageInv'
    BY <1>1, <1>2, <1>4, <2>1, <2>2, WriteKept, Fronts, TodosDiffer DEF StageInv, Todos
  <2>6. MutexInv'
    BY <1>1, <2>1, <2>2 DEF MutexInv, TopologyInv
  <2> QED
    BY <1>2, <2>3, <2>4, <2>5, <2>6 DEF TopologyInv
<1> QED
  BY <1>3, <1>4

\* A write that returns an error ends the put, with or without its effect.
LEMMA PutFailsKept ==
    ASSUME TopologyInv, PutFails
    PROVE  TopologyInv'
<1>1. /\ op # IdleOp /\ op' = IdleOp /\ Answer(FALSE) /\ TopologyTypeOK /\ StageInv
      /\ overtaken' = overtaken
  BY Zenon DEF TopologyInv, PutFails
<1>2. /\ topology' \in Record /\ history' \subseteq Record /\ committed' \subseteq Record
      /\ HistoryInv' /\ committed \subseteq committed'
  <2>1. CASE Writes
    BY <1>1, <2>1, WriteKept
  <2>2. CASE UNCHANGED <<topology, history, committed>>
    BY <2>2 DEF TopologyInv, TopologyTypeOK, HistoryInv
  <2> QED
    BY <2>1, <2>2 DEF PutFails
<1>3. /\ op'.by = "none" /\ op'.todo = <<>> /\ op'.todo \notin Todos
      /\ op' \in Put
  BY <1>1, TodosDiffer DEF IdleOp, NoRecord, NoTopo, Record, Put, Stage
<1>4. \/ op.by = "stage" /\ stage' = IdleStage /\ tenantMu' = "none"
      \/ op.by = "save" /\ tenantMu' = "none" /\ stage' = stage
      \/ op.by \in {"none", "direct"} /\ UNCHANGED <<stage, tenantMu>>
  BY <1>1 DEF Answer, TopologyTypeOK, Put, Stage
<1>5. IdleStage \in Stage
  BY DEF IdleStage, NoRecord, NoTopo, Record, Put, Stage
<1>6. TopologyTypeOK'
  BY <1>1, <1>2, <1>3, <1>4, <1>5 DEF TopologyTypeOK
<1>7. PutInv'
  BY <1>1, <1>3 DEF PutInv, Todos
<1>8. StageInv'
  BY <1>1, <1>2, <1>3, <1>4 DEF StageInv, IdleStage
<1>9. MutexInv'
  BY <1>1, <1>3, <1>4 DEF MutexInv, TopologyInv, IdleStage
<1> QED
  BY <1>2, <1>6, <1>7, <1>8, <1>9 DEF TopologyInv

\* A death forgets the callers, not the records.
LEMMA DieKept ==
    ASSUME TopologyInv, Die
    PROVE  TopologyInv'
<1>1. /\ op' = IdleOp /\ stage' = IdleStage /\ tenantMu' = "none"
      /\ UNCHANGED <<topology, history, committed>> /\ TopologyTypeOK
  BY DEF TopologyInv, Die
<1>2. /\ op'.by = "none" /\ op'.todo = <<>> /\ op'.todo \notin Todos /\ stage'.pc = "idle"
      /\ op' \in Put
      /\ stage' \in Stage
  BY <1>1, TodosDiffer DEF IdleOp, NoRecord, NoTopo, Record, IdleStage, Put, Stage
<1>3. TopologyTypeOK' /\ HistoryInv'
  BY <1>1, <1>2 DEF TopologyInv, TopologyTypeOK, HistoryInv
<1>4. PutInv' /\ StageInv' /\ MutexInv'
  BY <1>1, <1>2 DEF PutInv, StageInv, MutexInv, Todos
<1> QED
  BY <1>3, <1>4 DEF TopologyInv

\* A new put carries the next version; the current one is in the history or goes there first.
LEMMA StartedPut ==
    ASSUME TopologyInv, NEW by \in {"save", "direct", "stage"},
           NEW topo \in [design : Designs \cup {"none"}, pins : BOOLEAN], StartPut(by, topo),
           UNCHANGED <<topology, history, committed>>
    PROVE  /\ HistoryInv' /\ PutInv'
           /\ op = IdleOp /\ op'.by = by /\ op' # IdleOp /\ op'.todo \in {ToBackfill, ToHistory}
           /\ op' \in Put
<1>1. /\ op = IdleOp /\ op' = [by |-> by, todo |-> putTopologyAfterLocked,
                               rec |-> [ver |-> topology.ver + 1, topo |-> topo]]
  BY DEF StartPut
<1>2. /\ op'.by = by /\ op'.rec = [ver |-> topology.ver + 1, topo |-> topo]
      /\ op'.todo = putTopologyAfterLocked
  BY <1>1
<1>3. op'.todo \in {ToBackfill, ToHistory} /\ op'.rec \in Record /\ op'.rec.ver = topology.ver + 1
  BY <1>2, PutPlan DEF TopologyInv, TopologyTypeOK, Record
<1>4. op' # IdleOp
  BY <1>2 DEF IdleOp
<1>5. op' \in Put
  BY <1>1, <1>2, <1>3 DEF Todos, Put, Stage
<1>6. op'.todo = ToBackfill => topology.ver > 0
  BY <1>2, PutPlan, TodosDiffer
<1>7. op'.todo = ToHistory => topology.ver = 0 \/ topology \in history
  <2>1. op'.todo = ToHistory => ~(topology.ver > 0 /\ ~HasHistory(topology.ver))
    BY <1>2, PutPlan, TodosDiffer
  <2>2. topology.ver \in Nat
    BY RecordTypes DEF TopologyInv
  <2>3. ASSUME topology.ver > 0, NEW h \in history, h.ver = topology.ver PROVE topology \in history
    <3>1. h \in committed /\ topology \in committed
      BY <2>2, <2>3 DEF TopologyInv, HistoryInv
    <3> QED
      BY <2>3, <3>1 DEF TopologyInv, HistoryInv
  <2> QED
    BY <2>1, <2>2, <2>3 DEF HasHistory
<1>8. HistoryInv'
  BY DEF TopologyInv, HistoryInv
<1>9. PutInv'
  BY <1>3, <1>6, <1>7, TodosDiffer DEF PutInv, Todos
<1> QED
  BY <1>1, <1>2, <1>3, <1>4, <1>5, <1>8, <1>9

\* The operator's save, and a caller of the Store itself.
LEMMA SaveKept ==
    ASSUME TopologyInv, NEW t \in Topologies,
           SaveTopology(t) \/ PutTopology(t)
    PROVE  TopologyInv'
<1>1. PICK by \in {"save", "direct"} :
         /\ StartPut(by, t) /\ UNCHANGED <<topology, history, stage, committed>>
         /\ by = "save" => tenantMu = "none" /\ tenantMu' = "save"
         /\ by = "save" => overtaken' = overtaken
         /\ by = "direct" => tenantMu' = tenantMu /\ overtaken' = (stage # IdleStage)
  BY DEF SaveTopology, PutTopology
<1>2. /\ HistoryInv' /\ PutInv' /\ op = IdleOp /\ op'.by = by /\ op' # IdleOp
      /\ op'.todo \in {ToBackfill, ToHistory}
      /\ op' \in Put
  BY <1>1, StartedPut DEF Topologies
<1>3. TopologyTypeOK'
  BY <1>1, <1>2 DEF TopologyInv, TopologyTypeOK
<1>4. StageInv'
  BY <1>1, <1>2 DEF TopologyInv, StageInv
<1>5. MutexInv'
  <2>1. stage.pc # "idle" => stage # IdleStage
    BY DEF IdleStage
  <2>2. CASE by = "save"
    BY <1>1, <1>2, <2>2 DEF TopologyInv, MutexInv
  <2>3. CASE by = "direct"
    BY <1>1, <1>2, <2>1, <2>3, Zenon DEF TopologyInv, MutexInv
  <2> QED
    BY <2>2, <2>3
<1> QED
  BY <1>2, <1>3, <1>4, <1>5 DEF TopologyInv

\* A stage reads the current record under the tenant lock.
LEMMA StageReadKept ==
    ASSUME TopologyInv, StageRead
    PROVE  TopologyInv'
<1>1. /\ op = IdleOp /\ topology.ver > 0 /\ tenantMu' = "stage"
      /\ stage'.pc = "compiled" /\ stage'.rec = topology
      /\ stage' = [pc |-> "compiled", rec |-> topology]
      /\ UNCHANGED <<topology, history, op, committed>>
  BY DEF StageRead
<1>2. op.by = "none"
  BY <1>1 DEF IdleOp
<1>3. TopologyTypeOK'
  BY <1>1 DEF TopologyInv, TopologyTypeOK, Put, Stage
<1>4. HistoryInv' /\ PutInv'
  BY <1>1 DEF TopologyInv, HistoryInv, PutInv
<1>5. StageInv' /\ MutexInv'
  BY <1>1, <1>2 DEF TopologyInv, HistoryInv, StageInv, MutexInv
<1> QED
  BY <1>3, <1>4, <1>5 DEF TopologyInv

\* The write-back is refused, has nothing to write, or replaces the record that was read.
LEMMA WriteBackKept ==
    ASSUME TopologyInv, CompareAndSetTopology
    PROVE  TopologyInv'
<1>1. /\ stage.pc = "compiled" /\ op = IdleOp /\ op.by = "none"
      /\ UNCHANGED <<topology, history, committed>>
  BY DEF CompareAndSetTopology, IdleOp
<1>2. stage.rec \in committed
  BY <1>1 DEF TopologyInv, StageInv
<1>3. CASE stage' = IdleStage /\ tenantMu' = "none" /\ UNCHANGED op
  <2>1. stage'.pc = "idle" /\ stage' \in Stage
    BY <1>3 DEF IdleStage, NoRecord, NoTopo, Record, Put, Stage
  <2>2. TopologyTypeOK' /\ HistoryInv' /\ PutInv'
    BY <1>1, <1>3, <2>1 DEF TopologyInv, TopologyTypeOK, HistoryInv, PutInv
  <2>3. StageInv' /\ MutexInv'
    BY <1>1, <1>3, <2>1 DEF StageInv, MutexInv
  <2> QED
    BY <2>2, <2>3 DEF TopologyInv
<1>4. CASE /\ topology.ver = stage.rec.ver
           /\ stage' = [pc |-> "publish", rec |-> topology] /\ UNCHANGED <<op, tenantMu>>
  <2>1. stage'.pc = "publish" /\ stage'.rec = topology
    BY <1>4
  <2>2. TopologyTypeOK' /\ HistoryInv' /\ PutInv'
    BY <1>1, <1>4 DEF TopologyInv, TopologyTypeOK, HistoryInv, PutInv, Put, Stage
  <2>3. topology \in committed
    BY <1>2, <1>4, RecordTypes DEF TopologyInv, HistoryInv
  <2>4. StageInv'
    BY <1>1, <1>4, <2>1, <2>3 DEF StageInv
  <2>5. MutexInv'
    BY <1>1, <1>4, <2>1 DEF TopologyInv, MutexInv
  <2> QED
    BY <2>2, <2>4, <2>5 DEF TopologyInv
<1>5. CASE /\ topology.ver = stage.rec.ver /\ StartPut("stage", Compiled)
           /\ stage' = [stage EXCEPT !.pc = "cas"] /\ tenantMu' = tenantMu
  <2>1. /\ stage'.pc = "cas" /\ stage'.rec = stage.rec
        /\ stage' \in Stage
        /\ stage.rec \in Record
    BY <1>5 DEF TopologyInv, TopologyTypeOK, Put, Stage
  <2>2. Compiled \in [design : Designs \cup {"none"}, pins : BOOLEAN]
    BY <2>1, Zenon DEF Compiled, Record
  <2>3. topology = stage.rec
    BY <1>2, <1>5, RecordTypes DEF TopologyInv, HistoryInv
  <2>4. /\ HistoryInv' /\ PutInv' /\ op'.by = "stage" /\ op' # IdleOp
        /\ op' \in Put
    BY <1>1, <1>5, <2>2, StartedPut
  <2>5. TopologyTypeOK'
    BY <1>1, <1>5, <2>1, <2>4 DEF TopologyInv, TopologyTypeOK
  <2>6. StageInv'
    BY <1>1, <1>2, <2>1, <2>3, <2>4 DEF StageInv
  <2>7. MutexInv'
    BY <1>1, <1>5, <2>1, <2>4 DEF TopologyInv, MutexInv
  <2> QED
    BY <2>4, <2>5, <2>6, <2>7 DEF TopologyInv
<1> QED
  BY <1>3, <1>4, <1>5 DEF CompareAndSetTopology

\* What was compiled is published.
LEMMA PublishKept ==
    ASSUME TopologyInv, Publish
    PROVE  TopologyInv'
<1>1. /\ op = IdleOp /\ op.by = "none" /\ stage' = IdleStage /\ tenantMu' = "none"
      /\ UNCHANGED <<topology, history, op, committed>>
  BY DEF Publish, IdleOp
<1>2. stage'.pc = "idle" /\ stage' \in Stage
  BY <1>1 DEF IdleStage, NoRecord, NoTopo, Record, Put, Stage
<1>3. TopologyTypeOK' /\ HistoryInv' /\ PutInv'
  BY <1>1, <1>2 DEF TopologyInv, TopologyTypeOK, HistoryInv, PutInv
<1>4. StageInv' /\ MutexInv'
  BY <1>1, <1>2 DEF StageInv, MutexInv
<1> QED
  BY <1>3, <1>4 DEF TopologyInv

\* An empty store, or one record from before the history feature.
LEMMA TopologyInit ==
    ASSUME Init
    PROVE  TopologyInv
<1>1. /\ op = IdleOp /\ op.by = "none" /\ op.todo = <<>> /\ stage = IdleStage
      /\ stage.pc = "idle" /\ history = {} /\ tenantMu = "none"
      /\ op.todo \notin Todos
  BY TodosDiffer DEF Init, IdleOp, IdleStage
<1>2. NoRecord \in Record /\ NoRecord.ver = 0
  BY DEF NoRecord, NoTopo, Record
<1>3. topology \in Record /\ (topology = NoRecord \/ topology.ver = 1)
  BY <1>2 DEF Init, Record, Topologies
<1>4. committed = {topology} \ {NoRecord}
  BY DEF Init
<1>5. TopologyTypeOK
  BY <1>1, <1>2, <1>3, <1>4 DEF TopologyTypeOK, IdleOp, IdleStage, Put, Stage
<1>6. HistoryInv
  BY <1>1, <1>2, <1>3, <1>4 DEF HistoryInv
<1>7. PutInv /\ StageInv /\ MutexInv
  BY <1>1 DEF PutInv, StageInv, MutexInv, Todos
<1> QED
  BY <1>5, <1>6, <1>7 DEF TopologyInv

\* Every step keeps the invariant.
LEMMA TopologyNext ==
    ASSUME TopologyInv, [Next]_vars
    PROVE  TopologyInv'
<1>1. CASE UNCHANGED vars
  <2>1. TopologyTypeOK'
    BY <1>1 DEF vars, TopologyInv, TopologyTypeOK
  <2>2. HistoryInv'
    BY <1>1 DEF vars, TopologyInv, HistoryInv
  <2>3. PutInv' /\ StageInv' /\ MutexInv'
    BY <1>1 DEF vars, TopologyInv, PutInv, StageInv, MutexInv
  <2> QED
    BY <2>1, <2>2, <2>3 DEF TopologyInv
<1>2. CASE PutStep \/ PutFails \/ Die
  BY <1>2, PutStepKept, PutFailsKept, DieKept
<1>3. CASE \E t \in Topologies : SaveTopology(t) \/ PutTopology(t)
  BY <1>3, SaveKept
<1>4. CASE StageRead \/ CompareAndSetTopology \/ Publish
  BY <1>4, StageReadKept, WriteBackKept, PublishKept
<1> QED
  BY <1>1, <1>2, <1>3, <1>4 DEF Next

-----------------------------------------------------------------------------
(***************************************************************************)
(* The theorems.                                                           *)
(***************************************************************************)

\* The history, the put in progress and the stage in progress agree with what was current.
THEOREM TopologyInvariance == Spec => []TopologyInv
<1>1. Init => TopologyInv
  BY TopologyInit
<1>2. TopologyInv /\ [Next]_vars => TopologyInv'
  BY TopologyNext
<1> QED
  BY <1>1, <1>2, PTL DEF Spec

\* GetTopologyVersion serves every version that was current, as long as it is among the
\* newest TopologyHistoryLimit, with the content it had, and no version that never was:
\* whichever writes failed and wherever the process died.
THEOREM AlwaysServesCommitted == Spec => []ServesCommitted
<1>1. ASSUME TopologyInv PROVE ServesCommitted
  <2>1. TopologyTypeOK /\ HistoryInv
    BY <1>1 DEF TopologyInv
  <2>2. ASSUME NEW c \in committed, c.ver > topology.ver - TopologyHistoryLimit
        PROVE  GetTopologyVersion(c.ver) = {c}
    <3>1. c.ver \in Nat /\ topology.ver \in Nat /\ 0 < c.ver /\ c.ver <= topology.ver
      BY <2>1, RecordTypes DEF HistoryInv
    <3>2. CASE c.ver = topology.ver
      <4>1. c = topology
        BY <2>1, <3>1, <3>2 DEF HistoryInv
      <4> QED
        BY <3>1, <4>1 DEF GetTopologyVersion
    <3>3. CASE c.ver # topology.ver
      <4>1. c \in history
        BY <2>1, <2>2, <3>3 DEF HistoryInv
      <4>2. {h \in history : h.ver = c.ver} = {c}
        BY <2>1, <4>1 DEF HistoryInv
      <4> QED
        BY <3>1, <3>3, <4>2 DEF GetTopologyVersion
    <3> QED
      BY <3>2, <3>3
  <2>3. ASSUME NEW v \in 1 .. MaxVersion PROVE GetTopologyVersion(v) \subseteq committed
    BY <2>1, RecordTypes, TopologyStoreAssumption DEF HistoryInv, GetTopologyVersion
  <2> QED
    BY <2>2, <2>3 DEF ServesCommitted, Retained, OnlyCommitted
<1> QED
  BY <1>1, TopologyInvariance, PTL

\* persistAllocations replaces exactly the record the stage compiled, also beside writers
\* that take no tenant lock; and unless one of those wrote meanwhile, what a stage publishes
\* is the current topology (CompileAndStage, SaveTopology, CompareAndSetTopology).
THEOREM AlwaysStagesWhatItRead == Spec => StagesWhatItRead
<1>1. ASSUME TopologyInv, [Next]_vars PROVE [NoLostSave /\ StageIsCurrent]_vars
  <2>1. NoLostSave
    <3>1. topology' = topology \/ (op # IdleOp /\ Writes)
      BY <1>1, Zenon DEF Next, PutStep, PutFails, Die, SaveTopology, PutTopology, StageRead,
         CompareAndSetTopology, Publish, vars
    <3>2. CASE op # IdleOp /\ Writes
      <4>1. op.todo = ToPrune => topology' = topology
        BY <1>1, <3>2, WriteKept
      <4> QED
        BY <1>1, <4>1 DEF NoLostSave, TopologyInv, StageInv
    <3> QED
      BY <3>1, <3>2 DEF NoLostSave
  <2>2. StageIsCurrent
    <3>1. staged' = staged \/ Publish
      BY <1>1, Zenon DEF Next, PutStep, PutFails, Die, SaveTopology, PutTopology, StageRead,
         CompareAndSetTopology, vars
    <3>2. CASE Publish
      BY <1>1, <3>2 DEF Publish, TopologyInv, MutexInv, StageIsCurrent
    <3> QED
      BY <3>1, <3>2 DEF StageIsCurrent
  <2> QED
    BY <2>1, <2>2
<1> QED
  BY <1>1, TopologyInvariance, PTL DEF Spec, StagesWhatItRead
=============================================================================
