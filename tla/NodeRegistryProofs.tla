------------------------- MODULE NodeRegistryProofs -------------------------
(***************************************************************************)
(* The node registry, for any fleet, keys and tokens and any number of     *)
(* faults: whatever HandleRevoke and HandleReport write between the store  *)
(* calls of the operations that hold the tenant lock, no two members of    *)
(* the fleet share a key, a record carries the last key accepted, a token  *)
(* registers one node, and only an operation that had read the record      *)
(* before its revocation undoes it.                                        *)
(***************************************************************************)
EXTENDS NodeRegistry, FiniteSetTheorems, TLAPS

Operation ==
    [kind : {"none", "enroll", "rekey", "flag", "clear"},
     pc : {"guard", "unique", "upsert", "issue", "reply", "read", "write"},
     node : Node \cup {None}, key : Key \cup {None}, by : EnrollTok \cup {None},
     rec : NodeRecord \cup {None}, tok : ApiTok \cup {None}, todo : SUBSET Node]

Revocation == [pc : {"idle", "upsert", "token", "purge"}, node : Node \cup {None},
               rec : NodeRecord \cup {None}]

RegistryTypeOK ==
    /\ nodes \in [Node -> NodeRecord \cup {None}]
    /\ tokens \in [EnrollTok -> TokenRecord \cup {None}]
    /\ apitokens \in [ApiTok -> Node \cup {None}]
    /\ manual \in [ManualNode -> Key \cup {None}]
    /\ op \in Operation
    /\ rev \in Revocation
    /\ rekeyReq \in [Node -> Key \cup {None}]
    /\ held \in [Node -> ApiTok \cup {None}]
    /\ created \subseteq EnrollTok
    /\ grants \in [EnrollTok -> Nat]
    /\ lastKey \in [Node -> Key \cup {None}]

\* An approved key is one node's, and the last one accepted for it.
KeyInv ==
    /\ \A m, n \in Approved : nodes[m].key = nodes[n].key => m = n
    /\ LastKeyWins

\* A token that registered a node, or is about to, was burned; a purge removes its record.
Spent(e) == e \in created /\ (tokens[e] = None \/ tokens[e].consumed)

Registering(e) ==
    op.kind = "enroll" /\ op.pc \in {"guard", "unique", "upsert"} /\ op.by = e

TokenInv ==
    /\ \A e \in EnrollTok : grants[e] <= 1
    /\ \A e \in EnrollTok : tokens[e] # None => e \in created
    /\ \A e \in EnrollTok : grants[e] > 0 => Spent(e)
    /\ \A e \in EnrollTok : Registering(e) => Spent(e) /\ grants[e] = 0

\* The record an operation writes back holds the key it will find: nobody else writes keys
\* while the tenant lock is held.
Fresh(rec, n) ==
    rec.status = "approved" =>
        rec.key = lastKey[n] /\ \A m \in Approved \ {n} : nodes[m].key # rec.key

\* What the holder of the tenant lock knows.
OpInv ==
    /\ op.kind # "none" /\ op.pc # "read" => op.node \in Node
    /\ op.kind = "enroll" =>
          /\ op.key \in Key /\ op.by \in EnrollTok
          /\ op.pc \in {"unique", "upsert"} => op.rec = None \/ op.rec.status = "approved"
          /\ op.pc \in {"issue", "reply"} => op.tok \in ApiTok /\ op.node \in Enrolled
    /\ op.kind = "rekey" => op.key \in Key /\ op.rec \in NodeRecord
    /\ op.kind \in {"enroll", "rekey"} /\ op.pc = "upsert" => CheckWGKeyUnique(op.key, op.node)
    /\ op.kind = "flag" => op.todo \subseteq Enrolled
    /\ op.kind = "clear" => op.pc = "write"
    /\ op.kind \in {"flag", "clear"} /\ op.pc = "write" =>
          op.rec \in NodeRecord /\ Fresh(op.rec, op.node)

\* A revocation, and a rekey that waits for the lock, is of an enrolled node.
RevInv ==
    /\ rev.pc # "idle" => rev.node \in Enrolled
    /\ rev.pc = "upsert" => rev.rec \in NodeRecord
    /\ \A n \in Node : rekeyReq[n] # None => n \in Enrolled

RegistryInv ==
    /\ RegistryTypeOK
    /\ KeyInv
    /\ TokenInv
    /\ OpInv
    /\ RevInv

-----------------------------------------------------------------------------
(***************************************************************************)
(* What a step leaves alone.                                               *)
(***************************************************************************)
\* No node becomes approved and no approved key changes: every step but the writes of the
\* operations that hold the tenant lock.
Keeps ==
    /\ Enrolled \subseteq Enrolled'
    /\ Approved' \subseteq Approved
    /\ \A n \in Approved' : nodes'[n].key = nodes[n].key

\* Records that are not written are kept.
LEMMA SameKeeps ==
    ASSUME UNCHANGED nodes PROVE Keeps
  BY DEF Keeps, Approved, Enrolled

\* A write of node n's record.
LEMMA WriteRecord ==
    ASSUME RegistryTypeOK, NEW n \in Node, NEW r \in NodeRecord,
           nodes' = [nodes EXCEPT ![n] = r]
    PROVE  /\ nodes' \in [Node -> NodeRecord \cup {None}]
           /\ nodes'[n] = r
           /\ \A m \in Node \ {n} : nodes'[m] = nodes[m]
           /\ Enrolled' = Enrolled \cup {n}
           /\ Approved' = IF r.status = "approved" THEN Approved \cup {n} ELSE Approved \ {n}
<1>1. r # None
  BY RegistryAssumption
<1>2. nodes' \in [Node -> NodeRecord \cup {None}] /\ nodes'[n] = r
      /\ \A m \in Node \ {n} : nodes'[m] = nodes[m]
  BY DEF RegistryTypeOK
<1>3. Enrolled' = Enrolled \cup {n}
  BY <1>1, <1>2 DEF Enrolled
<1>. QED
  BY <1>2, <1>3 DEF Approved, Enrolled

\* A write that revokes, or that keeps status and key, keeps the fleet.
LEMMA WriteKeeps ==
    ASSUME RegistryTypeOK, NEW n \in Enrolled, NEW r \in NodeRecord,
           nodes' = [nodes EXCEPT ![n] = r],
           r.status = "revoked" \/ (r.status = nodes[n].status /\ r.key = nodes[n].key)
    PROVE  Keeps /\ nodes' \in [Node -> NodeRecord \cup {None}]
<1>1. n \in Node
  BY DEF Enrolled
<1>2. /\ nodes' \in [Node -> NodeRecord \cup {None}]
      /\ nodes'[n] = r
      /\ \A m \in Node \ {n} : nodes'[m] = nodes[m]
      /\ Enrolled' = Enrolled \cup {n}
      /\ Approved' = IF r.status = "approved" THEN Approved \cup {n} ELSE Approved \ {n}
  BY <1>1, WriteRecord, Zenon
<1>3. Approved' \subseteq Approved
  BY <1>2 DEF Approved
<1>4. \A m \in Approved : m \in Node
  BY DEF Approved, Enrolled
<1>5. ASSUME NEW m \in Approved' PROVE nodes'[m].key = nodes[m].key
  <2>1. CASE m = n
    BY <2>1, <1>2, <1>5
  <2>2. CASE m # n
    BY <2>2, <1>2, <1>3, <1>4, <1>5
  <2>. QED
    BY <2>1, <2>2
<1>. QED
  BY <1>2, <1>3, <1>5 DEF Keeps

\* Then keys stay unique and last,
LEMMA KeyFrame ==
    ASSUME KeyInv, Keeps, UNCHANGED lastKey PROVE KeyInv'
  BY DEF KeyInv, LastKeyWins, Keeps

\* what an operation in progress knows stays true,
LEMMA OpFrame ==
    ASSUME OpInv, Keeps, UNCHANGED <<op, manual, lastKey>> PROVE OpInv'
<1>1. CheckWGKeyUnique(op.key, op.node) => CheckWGKeyUnique(op.key, op.node)'
  BY DEF CheckWGKeyUnique, manualKeyConflict, Keeps
<1>2. Fresh(op.rec, op.node) => Fresh(op.rec, op.node)'
  BY DEF Fresh, Keeps
<1>. QED
  BY <1>1, <1>2 DEF OpInv, Keeps

\* and so does what a revocation knows.
LEMMA RevFrame ==
    ASSUME RevInv, Keeps, UNCHANGED <<rev, rekeyReq>> PROVE RevInv'
  BY DEF RevInv, Keeps

\* No enrollment begins and no token changes.
LEMMA TokenFrame ==
    ASSUME TokenInv, UNCHANGED <<tokens, created, grants>>,
           \A e \in EnrollTok : Registering(e)' => Registering(e)
    PROVE  TokenInv'
  BY DEF TokenInv, Spent

\* An operation that ends knows nothing.
LEMMA IdleOpInv ==
    ASSUME op' = Idle
    PROVE  OpInv' /\ (\A e \in EnrollTok : Registering(e)' => Registering(e))
  BY DEF OpInv, Registering, Idle

LEMMA IdleType == Idle \in Operation /\ NoRevoke \in Revocation
  BY DEF Idle, Operation, NoRevoke, Revocation

-----------------------------------------------------------------------------
(***************************************************************************)
(* The holder of the tenant lock reads and decides.                        *)
(***************************************************************************)
\* A step of the lock holder that writes no record.
LEMMA HolderStep ==
    ASSUME RegistryInv, UNCHANGED <<records, rev, created, ghosts>>,
           op' \in Operation, OpInv',
           \A e \in EnrollTok : Registering(e)' => Registering(e),
           held' \in [Node -> ApiTok \cup {None}],
           rekeyReq' \in [Node -> Key \cup {None}],
           \A n \in Node : rekeyReq'[n] # None => rekeyReq[n] # None
    PROVE  RegistryInv'
<1>1. Keeps
  BY SameKeeps DEF records
<1>2. RegistryTypeOK'
  BY DEF RegistryInv, RegistryTypeOK, records, ghosts
<1>3. KeyInv'
  BY <1>1, KeyFrame DEF RegistryInv, ghosts
<1>4. TokenInv'
  BY TokenFrame DEF RegistryInv, records, ghosts
<1>5. RevInv'
  BY <1>1 DEF RegistryInv, RevInv, Keeps
<1>. QED
  BY <1>2, <1>3, <1>4, <1>5 DEF RegistryInv

\* Enroll reads the record and refuses a revoked one.
LEMMA EnrollGuardStep ==
    ASSUME RegistryInv, EnrollGuard PROVE RegistryInv'
<1>1. CASE op' = Idle
  BY <1>1, HolderStep, IdleOpInv, IdleType
     DEF EnrollGuard, RegistryInv, RegistryTypeOK
<1>2. CASE op' # Idle
  <2>1. /\ op.kind = "enroll" /\ op.pc = "guard"
        /\ op' = [op EXCEPT !.pc = "unique", !.rec = nodes[op.node]]
        /\ op.node \in Node
        /\ nodes[op.node] = None \/ nodes[op.node].status # "revoked"
    BY <1>2 DEF EnrollGuard, RegistryInv, OpInv
  <2>2. nodes[op.node] \in NodeRecord \cup {None} /\ op \in Operation
    BY <2>1 DEF RegistryInv, RegistryTypeOK
  <2>3. op' \in Operation
    BY <2>1, <2>2, Zenon DEF Operation
  <2>4. /\ op'.kind = "enroll" /\ op'.pc = "unique" /\ op'.node = op.node /\ op'.key = op.key
        /\ op'.by = op.by /\ op'.rec = nodes[op.node]
    BY <2>1, <2>2 DEF Operation
  <2>5. op'.rec = None \/ op'.rec.status = "approved"
    BY <2>1, <2>2, <2>4 DEF NodeRecord
  <2>6. OpInv'
    BY <2>1, <2>4, <2>5 DEF RegistryInv, OpInv
  <2>7. \A e \in EnrollTok : Registering(e)' => Registering(e)
    BY <2>1, <2>4 DEF Registering
  <2>. QED
    BY <2>3, <2>6, <2>7, HolderStep DEF EnrollGuard, RegistryInv, RegistryTypeOK
<1>. QED
  BY <1>1, <1>2

\* CheckWGKeyUnique of Enroll and of Rekey.
LEMMA UniqueStep ==
    ASSUME RegistryInv, EnrollUnique \/ RekeyUnique PROVE RegistryInv'
<1>0. UNCHANGED <<records, rev, rekeyReq, held, created, ghosts>>
  BY DEF EnrollUnique, RekeyUnique
<1>1. CASE op' = Idle
  BY <1>0, <1>1, HolderStep, IdleOpInv, IdleType DEF RegistryInv, RegistryTypeOK
<1>2. CASE op' # Idle
  <2>1. /\ op.kind \in {"enroll", "rekey"} /\ op.pc = "unique"
        /\ op' = [op EXCEPT !.pc = "upsert"]
        /\ CheckWGKeyUnique(op.key, op.node)
        /\ op \in Operation
    BY <1>2 DEF EnrollUnique, RekeyUnique, RegistryInv, RegistryTypeOK
  <2>2. op' \in Operation
    BY <2>1, Zenon DEF Operation
  <2>3. /\ op'.kind = op.kind /\ op'.pc = "upsert" /\ op'.node = op.node /\ op'.key = op.key
        /\ op'.by = op.by /\ op'.rec = op.rec
    BY <2>1 DEF Operation
  <2>4. CheckWGKeyUnique(op.key, op.node)'
    BY <1>0, <2>1, <2>3
       DEF records, CheckWGKeyUnique, manualKeyConflict, Approved, Enrolled
  <2>5. OpInv'
    BY <2>1, <2>3, <2>4 DEF RegistryInv, OpInv
  <2>6. \A e \in EnrollTok : Registering(e)' => Registering(e)
    BY <2>1, <2>3 DEF Registering
  <2>. QED
    BY <1>0, <2>2, <2>5, <2>6, HolderStep DEF RegistryInv, RegistryTypeOK
<1>. QED
  BY <1>1, <1>2

\* The answer to an enrollment, received or lost.
LEMMA ReplyStep ==
    ASSUME RegistryInv, NEW received \in BOOLEAN, EnrollReply(received) PROVE RegistryInv'
<1>1. op.tok \in ApiTok /\ op' = Idle
  BY DEF EnrollReply, RegistryInv, OpInv
<1>2. held' \in [Node -> ApiTok \cup {None}]
  BY <1>1, Zenon DEF EnrollReply, RegistryInv, RegistryTypeOK
<1>. QED
  BY <1>1, <1>2, HolderStep, IdleOpInv, IdleType
     DEF EnrollReply, RegistryInv, RegistryTypeOK

\* Rekey reads the record under the lock.
LEMMA RekeyReadStep ==
    ASSUME RegistryInv, NEW n \in Node, RekeyRead(n) PROVE RegistryInv'
<1>1. /\ rekeyReq[n] \in Key /\ rekeyReq' = [rekeyReq EXCEPT ![n] = None]
      /\ nodes[n] \in NodeRecord
      /\ op' = [Idle EXCEPT !.kind = "rekey", !.pc = "unique", !.node = n,
                            !.key = rekeyReq[n], !.rec = nodes[n]]
  BY DEF RekeyRead, RegistryInv, RegistryTypeOK, RevInv, Enrolled
<1>2. op' \in Operation
  BY <1>1, IdleType, Zenon DEF Operation
<1>3. /\ op'.kind = "rekey" /\ op'.pc = "unique" /\ op'.node = n
      /\ op'.key = rekeyReq[n] /\ op'.rec = nodes[n]
  BY <1>1, IdleType DEF Operation
<1>4. OpInv' /\ \A e \in EnrollTok : Registering(e)' => Registering(e)
  BY <1>1, <1>3 DEF OpInv, Registering
<1>5. /\ rekeyReq' \in [Node -> Key \cup {None}]
      /\ \A m \in Node : rekeyReq'[m] # None => rekeyReq[m] # None
  BY <1>1 DEF RegistryInv, RegistryTypeOK
<1>. QED
  BY <1>2, <1>4, <1>5, HolderStep DEF RekeyRead, RegistryInv, RegistryTypeOK

\* FlagFleetRekey lists the approved nodes.
LEMMA FlagFleetStep ==
    ASSUME RegistryInv, FlagFleetRekey PROVE RegistryInv'
<1>1. op' = [Idle EXCEPT !.kind = "flag", !.pc = "read", !.todo = Approved]
      /\ Approved \subseteq Enrolled /\ Enrolled \subseteq Node
      /\ Enrolled' = Enrolled
  BY DEF FlagFleetRekey, Approved, Enrolled, records
<1>2. op' \in Operation
  BY <1>1, IdleType, Zenon DEF Operation
<1>3. op'.kind = "flag" /\ op'.pc = "read" /\ op'.todo = Approved
  BY <1>1, IdleType DEF Operation
<1>4. OpInv' /\ \A e \in EnrollTok : Registering(e)' => Registering(e)
  BY <1>1, <1>3 DEF OpInv, Registering
<1>. QED
  BY <1>2, <1>4, HolderStep DEF FlagFleetRekey, RegistryInv, RegistryTypeOK

\* A record that is current is fresh.
LEMMA CurrentIsFresh ==
    ASSUME RegistryInv, NEW n \in Enrolled PROVE nodes[n] \in NodeRecord /\ Fresh(nodes[n], n)
<1>1. nodes[n] \in NodeRecord
  BY DEF Enrolled, RegistryInv, RegistryTypeOK
<1>. QED
  BY <1>1 DEF Fresh, RegistryInv, KeyInv, LastKeyWins, Approved

\* FlagRead and ClearNodeRekey read a record that they will write back.
LEMMA FlagReadStep ==
    ASSUME RegistryInv, NEW n \in Node, FlagRead(n) \/ ClearNodeRekey(n) PROVE RegistryInv'
<1>0. UNCHANGED <<records, rev, rekeyReq, held, created, ghosts>>
  BY DEF FlagRead, ClearNodeRekey
<1>1. n \in Enrolled
  BY DEF FlagRead, ClearNodeRekey, RegistryInv, OpInv
<1>2. nodes[n] \in NodeRecord /\ Fresh(nodes[n], n)
  BY <1>1, CurrentIsFresh
<1>3. Fresh(nodes[n], n)'
  BY <1>0, <1>2 DEF Fresh, Approved, Enrolled, records, ghosts
<1>4. /\ op' \in Operation /\ op'.kind \in {"flag", "clear"} /\ op'.pc = "write"
      /\ op'.node = n /\ op'.rec = nodes[n]
      /\ op'.kind = "flag" => op'.todo \subseteq Enrolled
  <2>1. CASE FlagRead(n)
    <3>1. /\ op.kind = "flag" /\ op' = [op EXCEPT !.pc = "write", !.node = n, !.rec = nodes[n]]
          /\ op \in Operation /\ op.todo \subseteq Enrolled
      BY <2>1 DEF FlagRead, RegistryInv, RegistryTypeOK, OpInv
    <3>2. op' \in Operation
      BY <3>1, <1>2, Zenon DEF Operation
    <3>. QED
      BY <3>1, <3>2 DEF Operation
  <2>2. CASE ClearNodeRekey(n)
    <3>1. op' = [Idle EXCEPT !.kind = "clear", !.pc = "write", !.node = n, !.rec = nodes[n]]
      BY <2>2 DEF ClearNodeRekey
    <3>2. op' \in Operation
      BY <3>1, <1>2, IdleType, Zenon DEF Operation
    <3>. QED
      BY <3>1, <3>2, IdleType DEF Operation
  <2>. QED
    BY <2>1, <2>2
<1>5. Enrolled' = Enrolled
  BY <1>0 DEF records, Enrolled
<1>6. OpInv' /\ \A e \in EnrollTok : Registering(e)' => Registering(e)
  BY <1>0, <1>2, <1>3, <1>4, <1>5 DEF OpInv, Registering, records
<1>. QED
  BY <1>0, <1>4, <1>6, HolderStep DEF RegistryInv, RegistryTypeOK

-----------------------------------------------------------------------------
(***************************************************************************)
(* Steps that take no lock: revocation, reports, faults.                   *)
(***************************************************************************)
\* Such a step approves nobody and changes no approved key; an operation goes on or ends.
LEMMA UnlockedStep ==
    ASSUME RegistryInv, Keeps,
           nodes' \in [Node -> NodeRecord \cup {None}],
           apitokens' \in [ApiTok -> Node \cup {None}],
           rev' \in Revocation,
           rev'.pc # "idle" => rev'.node \in Enrolled,
           rev'.pc = "upsert" => rev'.rec \in NodeRecord,
           op' = op \/ op' = Idle,
           UNCHANGED <<tokens, manual, rekeyReq, held, created, grants, lastKey>>
    PROVE  RegistryInv'
<1>1. RegistryTypeOK'
  BY IdleType DEF RegistryInv, RegistryTypeOK
<1>2. KeyInv'
  BY KeyFrame DEF RegistryInv
<1>3. OpInv' /\ \A e \in EnrollTok : Registering(e)' => Registering(e)
  <2>1. CASE op' = op
    BY <2>1, OpFrame DEF RegistryInv, Registering
  <2>. QED
    BY <2>1, IdleOpInv
<1>4. TokenInv'
  BY <1>3, TokenFrame DEF RegistryInv
<1>5. RevInv'
  BY DEF RegistryInv, RevInv, Keeps
<1>. QED
  BY <1>1, <1>2, <1>3, <1>4, <1>5 DEF RegistryInv

\* HandleRevoke reads the record.
LEMMA RevokeReadStep ==
    ASSUME RegistryInv, NEW n \in Node, RevokeRead(n) PROVE RegistryInv'
<1>1. nodes[n] \in NodeRecord /\ n \in Enrolled
      /\ rev' = [pc |-> "upsert", node |-> n, rec |-> nodes[n]]
  BY DEF RevokeRead, Enrolled, RegistryInv, RegistryTypeOK
<1>2. rev' \in Revocation
  BY <1>1 DEF Revocation
<1>. QED
  BY <1>1, <1>2, SameKeeps, UnlockedStep
     DEF RevokeRead, records, ghosts, RegistryInv, RegistryTypeOK

\* HandleRevoke writes the record back, revoked: whatever key it carries no longer counts.
LEMMA RevokeUpsertStep ==
    ASSUME RegistryInv, RevokeUpsert PROVE RegistryInv'
<1> DEFINE r == [rev.rec EXCEPT !.status = "revoked", !.rekey = FALSE]
<1>1. rev.rec \in NodeRecord /\ rev.node \in Enrolled /\ rev \in Revocation
  BY DEF RevokeUpsert, RegistryInv, RegistryTypeOK, RevInv
<1>2. r \in NodeRecord /\ r.status = "revoked"
  BY <1>1, Zenon DEF NodeRecord
<1>3. Keeps /\ nodes' \in [Node -> NodeRecord \cup {None}]
  <2>1. nodes' = [nodes EXCEPT ![rev.node] = r]
    BY DEF RevokeUpsert
  <2>. HIDE DEF r
  <2>. QED
    BY <1>1, <1>2, <2>1, WriteKeeps, Zenon DEF RegistryInv
<1>4. rev' = [rev EXCEPT !.pc = "token"] /\ rev' \in Revocation
  BY <1>1 DEF RevokeUpsert, Revocation
<1>5. rev'.pc = "token" /\ rev'.node = rev.node
  BY <1>1, <1>4 DEF Revocation
<1>. QED
  BY <1>1, <1>3, <1>4, <1>5, UnlockedStep
     DEF RevokeUpsert, ghosts, RegistryInv, RegistryTypeOK

\* A change of a record's token keeps status and key.
LEMMA TokenOfRecord ==
    ASSUME RegistryInv, NEW n \in Enrolled, NEW t \in ApiTok \cup {None},
           nodes' = [nodes EXCEPT ![n].tok = t]
    PROVE  Keeps /\ nodes' \in [Node -> NodeRecord \cup {None}]
<1> DEFINE r == [nodes[n] EXCEPT !.tok = t]
<1>1. nodes[n] \in NodeRecord /\ nodes' = [nodes EXCEPT ![n] = r]
  BY DEF Enrolled, RegistryInv, RegistryTypeOK
<1>2. r \in NodeRecord /\ r.status = nodes[n].status /\ r.key = nodes[n].key
  BY <1>1 DEF NodeRecord
<1>. HIDE DEF r
<1>. QED
  BY <1>1, <1>2, WriteKeeps, Zenon DEF RegistryInv

\* RevokeNodeAPIToken clears the token of the record and its index entry.
LEMMA RevokeTokenStep ==
    ASSUME RegistryInv, RevokeNodeAPIToken PROVE RegistryInv'
<1>1. rev.node \in Enrolled /\ rev \in Revocation
  BY DEF RevokeNodeAPIToken, RegistryInv, RegistryTypeOK, RevInv
<1>2. Keeps /\ nodes' \in [Node -> NodeRecord \cup {None}]
  BY <1>1, TokenOfRecord, Zenon DEF RevokeNodeAPIToken
<1>3. apitokens' \in [ApiTok -> Node \cup {None}]
  BY DEF RevokeNodeAPIToken, RegistryInv, RegistryTypeOK
<1>4. rev' = [rev EXCEPT !.pc = "purge"] /\ rev' \in Revocation
  BY <1>1 DEF RevokeNodeAPIToken, Revocation
<1>5. rev'.pc = "purge" /\ rev'.node = rev.node
  BY <1>1, <1>4 DEF Revocation
<1>. QED
  BY <1>1, <1>2, <1>3, <1>4, <1>5, UnlockedStep
     DEF RevokeNodeAPIToken, ghosts, RegistryInv, RegistryTypeOK

\* HandleReport changes the applied generation only.
LEMMA ReportStep ==
    ASSUME RegistryInv, NEW n \in Node, NEW g \in 1 .. MaxApplied, SetAppliedGeneration(n, g)
    PROVE  RegistryInv'
<1> DEFINE r == [nodes[n] EXCEPT !.applied = g]
<1>1. n \in Enrolled
  BY RegistryAssumption
     DEF SetAppliedGeneration, Authenticated, LookupNodeByAPIToken, Approved
<1>2. nodes[n] \in NodeRecord /\ nodes' = [nodes EXCEPT ![n] = r]
  BY <1>1 DEF SetAppliedGeneration, Enrolled, RegistryInv, RegistryTypeOK
<1>3. r \in NodeRecord /\ r.status = nodes[n].status /\ r.key = nodes[n].key
  BY <1>2, RegistryAssumption DEF NodeRecord
<1>4. Keeps /\ nodes' \in [Node -> NodeRecord \cup {None}]
  <2>. HIDE DEF r
  <2>. QED
    BY <1>1, <1>2, <1>3, WriteKeeps, Zenon DEF RegistryInv
<1>. QED
  BY <1>4, UnlockedStep DEF SetAppliedGeneration, RegistryInv, RegistryTypeOK, RevInv

\* A crash or an I/O error ends operations.
LEMMA FaultStep ==
    ASSUME RegistryInv, Fault PROVE RegistryInv'
<1>1. /\ rev' \in Revocation
      /\ rev'.pc # "idle" => rev'.node \in Enrolled
      /\ rev'.pc = "upsert" => rev'.rec \in NodeRecord
  BY IdleType DEF Fault, NoRevoke, RegistryInv, RegistryTypeOK, RevInv
<1>. QED
  BY <1>1, SameKeeps, UnlockedStep DEF Fault, records, ghosts, RegistryInv, RegistryTypeOK

\* A store call is cut after its first write.
LEMMA FaultInStoreStep ==
    ASSUME RegistryInv, FaultInStore PROVE RegistryInv'
<1>1. Keeps /\ nodes' \in [Node -> NodeRecord \cup {None}]
  <2>1. CASE nodes' = nodes
    BY <2>1, SameKeeps DEF RegistryInv, RegistryTypeOK
  <2>2. CASE /\ op.kind = "enroll" /\ op.pc = "issue"
             /\ nodes' = [nodes EXCEPT ![op.node].tok = op.tok]
    BY <2>2, TokenOfRecord, Zenon DEF RegistryInv, OpInv
  <2>3. CASE rev.pc = "token" /\ nodes' = [nodes EXCEPT ![rev.node].tok = None]
    BY <2>3, TokenOfRecord, Zenon DEF RegistryInv, RevInv
  <2>. QED
    BY <2>1, <2>2, <2>3 DEF FaultInStore
<1>2. apitokens' \in [ApiTok -> Node \cup {None}]
  BY DEF FaultInStore, RegistryInv, RegistryTypeOK
<1>3. op' = op \/ op' = Idle
  BY DEF FaultInStore
<1>4. /\ rev' \in Revocation
      /\ rev'.pc # "idle" => rev'.node \in Enrolled
      /\ rev'.pc = "upsert" => rev'.rec \in NodeRecord
  BY IdleType DEF FaultInStore, NoRevoke, RegistryInv, RegistryTypeOK, RevInv
<1>. QED
  BY <1>1, <1>2, <1>3, <1>4, UnlockedStep DEF FaultInStore, ghosts

\* requireNode admits a /rekey request of an approved node.
LEMMA RequestStep ==
    ASSUME RegistryInv, NEW n \in Node, NEW k \in Key, HandleRekey(n, k) PROVE RegistryInv'
<1>1. n \in Enrolled
  BY RegistryAssumption DEF HandleRekey, Authenticated, LookupNodeByAPIToken, Approved
<1>2. UNCHANGED <<records, op, rev, held, created, ghosts>>
      /\ rekeyReq' = [rekeyReq EXCEPT ![n] = k]
  BY DEF HandleRekey
<1>3. Keeps
  BY <1>2, SameKeeps DEF records
<1>4. RegistryTypeOK'
  BY <1>2 DEF RegistryInv, RegistryTypeOK, records, ghosts
<1>5. KeyInv' /\ OpInv'
  BY <1>2, <1>3, KeyFrame, OpFrame DEF RegistryInv, records, ghosts
<1>6. TokenInv'
  BY <1>2, TokenFrame DEF RegistryInv, Registering, records, ghosts
<1>7. RevInv'
  BY <1>1, <1>2, <1>3 DEF RegistryInv, RegistryTypeOK, RevInv, Keeps
<1>. QED
  BY <1>4, <1>5, <1>6, <1>7 DEF RegistryInv

\* Records of tokens change: a token that was spent stays spent.
LEMMA TokensStep ==
    ASSUME RegistryInv, TokenInv', tokens' \in [EnrollTok -> TokenRecord \cup {None}],
           created' \subseteq EnrollTok, op' \in Operation, OpInv',
           rev' = rev \/ rev' = NoRevoke,
           UNCHANGED <<nodes, apitokens, manual, rekeyReq, held, ghosts>>
    PROVE  RegistryInv'
<1>1. Keeps
  BY SameKeeps
<1>2. RegistryTypeOK'
  BY IdleType DEF RegistryInv, RegistryTypeOK, ghosts
<1>3. KeyInv'
  BY <1>1, KeyFrame DEF RegistryInv, ghosts
<1>4. RevInv'
  <2>1. RevInv
    BY DEF RegistryInv
  <2>2. CASE rev' = NoRevoke
    BY <1>1, <2>1, <2>2 DEF RevInv, Keeps, NoRevoke
  <2>3. CASE rev' = rev
    BY <1>1, <2>1, <2>3 DEF RevInv, Keeps
  <2> QED
    BY <2>2, <2>3
<1>. QED
  BY <1>2, <1>3, <1>4 DEF RegistryInv

\* HandleEnrollmentToken, the expiry of a token, and the purge of a revocation.
LEMMA TokenRecordStep ==
    ASSUME RegistryInv,
           \/ \E e \in EnrollTok, n \in Node : HandleEnrollmentToken(e, n)
           \/ \E e \in EnrollTok : Expire(e)
           \/ PurgeEnrollmentTokensForNode
    PROVE  RegistryInv'
<1>1. UNCHANGED <<nodes, apitokens, manual, op, rekeyReq, held, ghosts>>
      /\ (rev' = rev \/ rev' = NoRevoke)
  BY DEF HandleEnrollmentToken, Expire, PurgeEnrollmentTokensForNode
<1>2. OpInv' /\ op' \in Operation
  BY <1>1, SameKeeps, OpFrame DEF RegistryInv, RegistryTypeOK, ghosts
<1>3. CASE \E e \in EnrollTok, n \in Node : HandleEnrollmentToken(e, n)
  <2>1. PICK e \in EnrollTok, n \in Node : HandleEnrollmentToken(e, n)
    BY <1>3
  <2>2. /\ tokens' \in [EnrollTok -> TokenRecord \cup {None}] /\ created' \subseteq EnrollTok
        /\ \A x \in EnrollTok \ {e} : tokens'[x] = tokens[x]
        /\ created' = created \cup {e} /\ e \notin created
    BY <2>1 DEF HandleEnrollmentToken, RegistryInv, RegistryTypeOK, TokenRecord
  <2>3. TokenInv'
    BY <1>1, <2>2, Zenon DEF RegistryInv, TokenInv, Spent, Registering, ghosts
  <2>. QED
    BY <1>1, <1>2, <2>2, <2>3, TokensStep
<1>4. CASE \E e \in EnrollTok : Expire(e)
  <2>1. PICK e \in EnrollTok : Expire(e)
    BY <1>4
  <2>2. created' = created /\ tokens[e] \in TokenRecord /\ tokens[e] # None
        /\ tokens' = [tokens EXCEPT ![e].live = FALSE]
    BY <2>1 DEF Expire, RegistryInv, RegistryTypeOK
  <2>3. /\ tokens' \in [EnrollTok -> TokenRecord \cup {None}]
        /\ \A x \in EnrollTok \ {e} : tokens'[x] = tokens[x]
        /\ tokens'[e].consumed = tokens[e].consumed
    BY <2>2, Zenon DEF RegistryInv, RegistryTypeOK, TokenRecord
  <2>4. TokenInv'
    BY <1>1, <2>2, <2>3, Zenon DEF RegistryInv, TokenInv, Spent, Registering, ghosts
  <2>. QED
    BY <1>1, <1>2, <2>2, <2>3, <2>4, TokensStep DEF RegistryInv, RegistryTypeOK
<1>5. CASE PurgeEnrollmentTokensForNode
  <2>1. /\ tokens' \in [EnrollTok -> TokenRecord \cup {None}] /\ created' = created
        /\ \A x \in EnrollTok : tokens'[x] = tokens[x] \/ tokens'[x] = None
    BY <1>5 DEF PurgeEnrollmentTokensForNode, RegistryInv, RegistryTypeOK
  <2>2. TokenInv'
    BY <1>1, <2>1, Zenon DEF RegistryInv, TokenInv, Spent, Registering, ghosts
  <2>. QED
    BY <1>1, <1>2, <2>1, <2>2, TokensStep DEF RegistryInv, RegistryTypeOK
<1>. QED
  BY <1>3, <1>4, <1>5

-----------------------------------------------------------------------------
(***************************************************************************)
(* The holder of the tenant lock writes.                                   *)
(***************************************************************************)
\* SaveTopology runs while no operation relies on the manual keys.
LEMMA SaveStep ==
    ASSUME RegistryInv, NEW m \in ManualNode, NEW k \in Key, SaveTopology(m, k)
    PROVE  RegistryInv'
<1>1. /\ UNCHANGED <<nodes, tokens, apitokens, op, rev, rekeyReq, held, created, ghosts>>
      /\ op = Idle /\ manual' = [manual EXCEPT ![m] = k]
  BY DEF SaveTopology
<1>2. RegistryTypeOK'
  BY <1>1 DEF RegistryInv, RegistryTypeOK, ghosts
<1>3. KeyInv' /\ RevInv'
  BY <1>1, SameKeeps, KeyFrame, RevFrame DEF RegistryInv, ghosts
<1>4. OpInv' /\ TokenInv'
  BY <1>1, IdleOpInv, TokenFrame DEF RegistryInv, ghosts
<1>. QED
  BY <1>2, <1>3, <1>4 DEF RegistryInv

\* Enroll burns the token before anything else: it had registered nobody.
LEMMA BurnStep ==
    ASSUME RegistryInv, NEW e \in EnrollTok, NEW n \in Node, NEW k \in Key, EnrollBurn(e, n, k)
    PROVE  RegistryInv'
<1>1. /\ op = Idle /\ tokens[e] \in TokenRecord /\ tokens[e] # None /\ ~tokens[e].consumed
      /\ tokens' = [tokens EXCEPT ![e].consumed = TRUE]
      /\ op' = [Idle EXCEPT !.kind = "enroll", !.node = n, !.key = k, !.by = e]
      /\ UNCHANGED <<nodes, apitokens, manual, rev, rekeyReq, held, created, ghosts>>
  BY DEF EnrollBurn, ConsumeEnrollmentToken, RegistryInv, RegistryTypeOK
<1>2. /\ tokens' \in [EnrollTok -> TokenRecord \cup {None}]
      /\ \A x \in EnrollTok \ {e} : tokens'[x] = tokens[x]
      /\ tokens'[e].consumed
  BY <1>1, Zenon DEF RegistryInv, RegistryTypeOK, TokenRecord
<1>3. op' \in Operation
  BY <1>1, IdleType, Zenon DEF Operation
<1>4. op'.kind = "enroll" /\ op'.pc = "guard" /\ op'.node = n /\ op'.key = k /\ op'.by = e
  BY <1>1, IdleType DEF Operation, Idle
<1>5. OpInv'
  BY <1>4 DEF OpInv
<1>6. grants[e] = 0 /\ e \in created
  BY <1>1 DEF RegistryInv, RegistryTypeOK, TokenInv, Spent
<1>7. TokenInv'
  <2>1. \A x \in EnrollTok : Registering(x)' => x = e
    BY <1>4 DEF Registering
  <2>2. \A x \in EnrollTok : Spent(x) => Spent(x)'
    BY <1>1, <1>2 DEF Spent
  <2>3. Spent(e)'
    BY <1>1, <1>2, <1>6 DEF Spent
  <2>. QED
    BY <1>1, <1>2, <1>6, <2>1, <2>2, <2>3 DEF RegistryInv, TokenInv, ghosts
<1>. QED
  BY <1>1, <1>2, <1>3, <1>5, <1>7, TokensStep DEF RegistryInv, RegistryTypeOK

\* IssueNodeAPIToken changes the token of the record and the index.
LEMMA IssueStep ==
    ASSUME RegistryInv, IssueNodeAPIToken PROVE RegistryInv'
<1>1. /\ op.kind = "enroll" /\ op.pc = "issue" /\ op.node \in Enrolled /\ op.node \in Node
      /\ op.tok \in ApiTok /\ op \in Operation
      /\ op' = [op EXCEPT !.pc = "reply"]
      /\ UNCHANGED <<tokens, manual, rev, rekeyReq, held, created, ghosts>>
  BY DEF IssueNodeAPIToken, RegistryInv, RegistryTypeOK, OpInv, Enrolled
<1>2. Keeps /\ nodes' \in [Node -> NodeRecord \cup {None}]
  BY <1>1, TokenOfRecord, Zenon DEF IssueNodeAPIToken
<1>3. apitokens' \in [ApiTok -> Node \cup {None}]
  BY <1>1 DEF IssueNodeAPIToken, RegistryInv, RegistryTypeOK
<1>4. op' \in Operation
  BY <1>1, Zenon DEF Operation
<1>5. op'.kind = "enroll" /\ op'.pc = "reply" /\ op'.node = op.node /\ op'.key = op.key
      /\ op'.by = op.by /\ op'.tok = op.tok
  BY <1>1 DEF Operation
<1>6. OpInv' /\ \A e \in EnrollTok : Registering(e)' => Registering(e)
  BY <1>1, <1>2, <1>5 DEF RegistryInv, OpInv, Registering, Keeps
<1>7. RegistryTypeOK'
  BY <1>1, <1>2, <1>3, <1>4 DEF RegistryInv, RegistryTypeOK, ghosts
<1>8. KeyInv' /\ RevInv'
  BY <1>1, <1>2, KeyFrame, RevFrame DEF RegistryInv, ghosts
<1>9. TokenInv'
  BY <1>1, <1>6, TokenFrame DEF RegistryInv, ghosts
<1>. QED
  BY <1>6, <1>7, <1>8, <1>9 DEF RegistryInv

\* A record written with a key that no other approved node holds, and that is now the last one
\* accepted for its node, keeps the keys unique and last.
LEMMA KeyWritten ==
    ASSUME RegistryTypeOK, KeyInv, NEW n \in Node, NEW r \in NodeRecord,
           nodes' = [nodes EXCEPT ![n] = r],
           r.status = "approved" =>
               lastKey'[n] = r.key /\ \A m \in Approved \ {n} : nodes[m].key # r.key,
           \A m \in Node \ {n} : lastKey'[m] = lastKey[m]
    PROVE  KeyInv'
<1>1. /\ nodes'[n] = r
      /\ \A m \in Node \ {n} : nodes'[m] = nodes[m]
      /\ Approved' = IF r.status = "approved" THEN Approved \cup {n} ELSE Approved \ {n}
  BY WriteRecord, Zenon
<1>2. \A m \in Approved : m \in Node
  BY DEF Approved, Enrolled
<1>3. \A m \in Approved' : m = n => r.status = "approved"
  BY <1>1
<1>4. \A m \in Approved' : m # n => m \in Approved /\ nodes'[m] = nodes[m]
  BY <1>1, <1>2
<1>5. ASSUME NEW a \in Approved', NEW b \in Approved', nodes'[a].key = nodes'[b].key
      PROVE  a = b
  <2>1. CASE a = n
    BY <2>1, <1>1, <1>3, <1>4, <1>5
  <2>2. CASE b = n
    BY <2>2, <1>1, <1>3, <1>4, <1>5
  <2>3. CASE a # n /\ b # n
    BY <2>3, <1>4, <1>5 DEF KeyInv
  <2>. QED
    BY <2>1, <2>2, <2>3
<1>6. ASSUME NEW a \in Approved' PROVE nodes'[a].key = lastKey'[a]
  <2>1. CASE a = n
    BY <2>1, <1>1, <1>3
  <2>2. CASE a # n
    BY <2>2, <1>2, <1>4 DEF KeyInv, LastKeyWins
  <2>. QED
    BY <2>1, <2>2
<1>. QED
  BY <1>5, <1>6 DEF KeyInv, LastKeyWins

\* Enroll writes the record; the token that led to it is used up.
LEMMA EnrollUpsertStep ==
    ASSUME RegistryInv, NEW t \in ApiTok, EnrollUpsert(t) PROVE RegistryInv'
<1> DEFINE r == [status |-> "approved", key |-> op.key, tok |-> t, rekey |-> FALSE, applied |-> 0]
<1>1. /\ op.kind = "enroll" /\ op.pc = "upsert" /\ op.node \in Node /\ op.key \in Key
      /\ op.by \in EnrollTok /\ op \in Operation
      /\ CheckWGKeyUnique(op.key, op.node)
  BY DEF EnrollUpsert, RegistryInv, RegistryTypeOK, OpInv
<1>2. r \in NodeRecord /\ r.status = "approved" /\ r.key = op.key
  BY <1>1, RegistryAssumption DEF NodeRecord
<1>3. nodes' = [nodes EXCEPT ![op.node] = r]
  BY DEF EnrollUpsert
<1>. HIDE DEF r
<1>4. nodes' \in [Node -> NodeRecord \cup {None}] /\ Enrolled' = Enrolled \cup {op.node}
  BY <1>1, <1>2, <1>3, WriteRecord, Zenon DEF RegistryInv
<1>5. /\ op' = [op EXCEPT !.pc = "issue", !.tok = t]
      /\ grants' = [grants EXCEPT ![op.by] = @ + 1]
      /\ lastKey' = [lastKey EXCEPT ![op.node] = op.key]
      /\ UNCHANGED <<tokens, apitokens, manual, rev, rekeyReq, held, created>>
  BY DEF EnrollUpsert
<1>6. op' \in Operation
  BY <1>1, <1>5, Zenon DEF Operation
<1>7. op'.kind = "enroll" /\ op'.pc = "issue" /\ op'.node = op.node /\ op'.key = op.key
      /\ op'.by = op.by /\ op'.tok = t
  BY <1>1, <1>5 DEF Operation
<1>8. /\ lastKey' \in [Node -> Key \cup {None}] /\ lastKey'[op.node] = op.key
      /\ \A m \in Node \ {op.node} : lastKey'[m] = lastKey[m]
  BY <1>1, <1>5 DEF RegistryInv, RegistryTypeOK
<1>9. grants[op.by] = 0 /\ Spent(op.by)
  BY <1>1 DEF RegistryInv, TokenInv, Registering
<1>10. grants' \in [EnrollTok -> Nat] /\ grants'[op.by] = 1
       /\ \A e \in EnrollTok \ {op.by} : grants'[e] = grants[e]
  BY <1>1, <1>5, <1>9 DEF RegistryInv, RegistryTypeOK
<1>11. RegistryTypeOK'
  BY <1>4, <1>5, <1>6, <1>8, <1>10 DEF RegistryInv, RegistryTypeOK
<1>12. KeyInv'
  <2>1. \A m \in Approved \ {op.node} : nodes[m].key # r.key
    BY <1>1, <1>2 DEF CheckWGKeyUnique
  <2>. QED
    BY <1>1, <1>2, <1>3, <1>8, <2>1, KeyWritten, Zenon DEF RegistryInv
<1>13. TokenInv'
  <2>1. \A e \in EnrollTok : ~Registering(e)'
    BY <1>7 DEF Registering
  <2>2. \A e \in EnrollTok : Spent(e)' = Spent(e)
    BY <1>5 DEF Spent
  <2>. QED
    BY <1>1, <1>5, <1>9, <1>10, <2>1, <2>2 DEF RegistryInv, TokenInv
<1>14. OpInv'
  BY <1>1, <1>4, <1>7 DEF OpInv
<1>15. RevInv'
  BY <1>4, <1>5 DEF RegistryInv, RevInv
<1>. QED
  BY <1>11, <1>12, <1>13, <1>14, <1>15 DEF RegistryInv

\* A write of the lock holder that starts no enrollment.
LEMMA WriteBackStep ==
    ASSUME RegistryInv, NEW n \in Node, NEW r \in NodeRecord,
           nodes' = [nodes EXCEPT ![n] = r],
           KeyInv', OpInv', op' \in Operation, op'.kind # "enroll",
           lastKey' \in [Node -> Key \cup {None}],
           UNCHANGED <<tokens, apitokens, manual, rev, rekeyReq, held, created, grants>>
    PROVE  RegistryInv'
<1>1. nodes' \in [Node -> NodeRecord \cup {None}] /\ Enrolled' = Enrolled \cup {n}
  BY WriteRecord, Zenon DEF RegistryInv
<1>2. RegistryTypeOK'
  BY <1>1 DEF RegistryInv, RegistryTypeOK
<1>3. TokenInv'
  BY TokenFrame DEF RegistryInv, Registering
<1>4. RevInv'
  BY <1>1 DEF RegistryInv, RevInv
<1>. QED
  BY <1>2, <1>3, <1>4 DEF RegistryInv

\* Rekey writes the record it read with the new key.
LEMMA RekeyUpsertStep ==
    ASSUME RegistryInv, RekeyUpsert PROVE RegistryInv'
<1> DEFINE r == [op.rec EXCEPT !.key = op.key, !.rekey = FALSE]
<1>1. op.node \in Node /\ op.key \in Key /\ op.rec \in NodeRecord
      /\ CheckWGKeyUnique(op.key, op.node)
  BY DEF RekeyUpsert, RegistryInv, OpInv
<1>2. r \in NodeRecord /\ r.key = op.key
  BY <1>1, Zenon DEF NodeRecord
<1>3. /\ nodes' = [nodes EXCEPT ![op.node] = r] /\ op' = Idle
      /\ lastKey' = [lastKey EXCEPT ![op.node] = op.key]
      /\ UNCHANGED <<tokens, apitokens, manual, rev, rekeyReq, held, created, grants>>
  BY DEF RekeyUpsert
<1>. HIDE DEF r
<1>4. /\ lastKey' \in [Node -> Key \cup {None}] /\ lastKey'[op.node] = op.key
      /\ \A m \in Node \ {op.node} : lastKey'[m] = lastKey[m]
  BY <1>1, <1>3 DEF RegistryInv, RegistryTypeOK
<1>5. \A m \in Approved \ {op.node} : nodes[m].key # r.key
  BY <1>1, <1>2 DEF CheckWGKeyUnique
<1>6. KeyInv'
  BY <1>1, <1>2, <1>3, <1>4, <1>5, KeyWritten, Zenon DEF RegistryInv
<1>7. op' \in Operation /\ op'.kind # "enroll" /\ OpInv'
  BY <1>3, IdleType, IdleOpInv DEF Idle
<1>. QED
  BY <1>1, <1>2, <1>3, <1>4, <1>6, <1>7, WriteBackStep, Zenon

\* FlagWrite and ClearWrite write the record back with its key.
LEMMA FlagWriteStep ==
    ASSUME RegistryInv, FlagWrite \/ ClearWrite PROVE RegistryInv'
<1> DEFINE r == [op.rec EXCEPT !.rekey = (op.kind = "flag")]
<1>1. /\ op.node \in Node /\ op.rec \in NodeRecord /\ Fresh(op.rec, op.node)
      /\ op.kind = "flag" => op.todo \subseteq Enrolled
      /\ op \in Operation
  BY DEF FlagWrite, ClearWrite, RegistryInv, RegistryTypeOK, OpInv
<1>2. r \in NodeRecord /\ r.key = op.rec.key /\ r.status = op.rec.status
  BY <1>1, Zenon DEF NodeRecord
<1>3. /\ nodes' = [nodes EXCEPT ![op.node] = r]
      /\ UNCHANGED <<tokens, apitokens, manual, rev, rekeyReq, held, created, grants, lastKey>>
  BY Zenon DEF FlagWrite, ClearWrite, ghosts
<1>. HIDE DEF r
<1>4. KeyInv'
  <2>1. r.status = "approved" =>
          lastKey'[op.node] = r.key /\ \A m \in Approved \ {op.node} : nodes[m].key # r.key
    BY <1>1, <1>2, <1>3 DEF Fresh
  <2>. QED
    BY <1>1, <1>2, <1>3, <2>1, KeyWritten, Zenon DEF RegistryInv
<1>5. Enrolled' = Enrolled \cup {op.node}
  BY <1>1, <1>2, <1>3, WriteRecord, Zenon DEF RegistryInv
<1>6. op' \in Operation /\ op'.kind # "enroll" /\ OpInv'
  <2>1. CASE op' = Idle
    BY <2>1, IdleType, IdleOpInv DEF Idle
  <2>2. CASE op' # Idle
    <3>1. op.kind = "flag" /\ op' = [op EXCEPT !.pc = "read", !.todo = op.todo \ {op.node},
                                               !.node = None, !.rec = None]
      BY <2>2 DEF FlagWrite, ClearWrite, AfterFlag
    <3>2. op' \in Operation
      BY <1>1, <3>1, Zenon DEF Operation
    <3>3. op'.kind = "flag" /\ op'.pc = "read" /\ op'.todo \subseteq op.todo
      BY <1>1, <3>1 DEF Operation
    <3>. QED
      BY <1>1, <1>5, <3>1, <3>2, <3>3 DEF OpInv
  <2>. QED
    BY <2>1, <2>2
<1>. QED
  BY <1>1, <1>2, <1>3, <1>4, <1>6, WriteBackStep, Zenon DEF RegistryInv, RegistryTypeOK

-----------------------------------------------------------------------------
(***************************************************************************)
(* The theorems.                                                           *)
(***************************************************************************)
\* Nothing is registered when the controller starts.
LEMMA InitRegistry == ASSUME Init PROVE RegistryInv
<1>1. RegistryTypeOK
  BY IdleType DEF Init, RegistryTypeOK
<1>2. Enrolled = {} /\ Approved = {}
  BY DEF Init, Enrolled, Approved
<1>3. KeyInv /\ TokenInv
  BY <1>2 DEF Init, KeyInv, LastKeyWins, TokenInv, Registering, Idle
<1>4. OpInv /\ RevInv
  BY DEF Init, OpInv, RevInv, Idle, NoRevoke
<1>. QED
  BY <1>1, <1>3, <1>4 DEF RegistryInv

\* Every step keeps the registry invariant, whoever takes it.
LEMMA NextRegistry == ASSUME RegistryInv, [Next]_vars PROVE RegistryInv'
<1>1. CASE TenantOp
  <2>1. CASE \E e \in EnrollTok, n \in Node, k \in Key : EnrollBurn(e, n, k)
    BY <2>1, BurnStep
  <2>2. CASE EnrollGuard \/ EnrollUnique \/ IssueNodeAPIToken \/ RekeyUnique
    BY <2>2, EnrollGuardStep, UniqueStep, IssueStep
  <2>3. CASE \E t \in ApiTok : EnrollUpsert(t)
    BY <2>3, EnrollUpsertStep
  <2>4. CASE \E received \in BOOLEAN : EnrollReply(received)
    BY <2>4, ReplyStep
  <2>5. CASE \E n \in Node : RekeyRead(n) \/ FlagRead(n) \/ ClearNodeRekey(n)
    BY <2>5, RekeyReadStep, FlagReadStep
  <2>6. CASE RekeyUpsert \/ FlagFleetRekey \/ FlagWrite \/ ClearWrite
    BY <2>6, RekeyUpsertStep, FlagFleetStep, FlagWriteStep
  <2>. QED
    BY <1>1, <2>1, <2>2, <2>3, <2>4, <2>5, <2>6 DEF TenantOp
<1>2. CASE Revoke
  BY <1>2, RevokeReadStep, RevokeUpsertStep, RevokeTokenStep, TokenRecordStep DEF Revoke
<1>3. CASE \/ \E e \in EnrollTok, n \in Node : HandleEnrollmentToken(e, n)
           \/ \E e \in EnrollTok : Expire(e)
  BY <1>3, TokenRecordStep
<1>4. CASE \E m \in ManualNode, k \in Key : SaveTopology(m, k)
  BY <1>4, SaveStep
<1>5. CASE \E n \in Node, k \in Key : HandleRekey(n, k)
  BY <1>5, RequestStep
<1>6. CASE \E n \in Node, g \in 1 .. MaxApplied : SetAppliedGeneration(n, g)
  BY <1>6, ReportStep
<1>7. CASE Fault \/ FaultInStore
  BY <1>7, FaultStep, FaultInStoreStep
<1>8. CASE UNCHANGED vars
  <2>1. Keeps
    BY <1>8, SameKeeps DEF vars
  <2>. QED
    BY <1>8, <2>1, UnlockedStep DEF vars, RegistryInv, RegistryTypeOK, RevInv
<1>. QED
  BY <1>1, <1>2, <1>3, <1>4, <1>5, <1>6, <1>7, <1>8 DEF Next

\* The registry invariant holds in every state of the controller.
THEOREM RegistryInvariance == Spec => []RegistryInv
  BY InitRegistry, NextRegistry, PTL DEF Spec

\* As many keys as holders, when no two holders share one.
LEMMA OneKeyEach ==
    ASSUME NEW S, IsFiniteSet(S), NEW f, \A a, b \in S : f[a] = f[b] => a = b
    PROVE  /\ IsFiniteSet({f[a] : a \in S})
           /\ Cardinality({f[a] : a \in S}) = Cardinality(S)
<1> DEFINE T == {f[a] : a \in S}
           g == [a \in S |-> f[a]]
<1>1. g \in Bijection(S, T)
  BY DEF Bijection, Injection, Surjection, IsInjective
<1>2. ExistsBijection(S, T)
  BY <1>1 DEF ExistsBijection
<1>. HIDE DEF T
<1>3. IsFiniteSet(T) /\ Cardinality(T) = Cardinality(S)
  BY <1>2, FS_Bijection
<1>. QED
  BY <1>3 DEF T

\* A design that passes the gate of a stage gives every member of the fleet its own key.
LEMMA FleetIsUnique == ASSUME RegistryInv PROVE FleetKeysUnique
<1> DEFINE key == [n \in Approved |-> nodes[n].key]
           NK == {nodes[n].key : n \in Approved}
           MK == {manual[m] : m \in ManualNode}
<1>1. \A m, n \in Approved : nodes[m].key = nodes[n].key => m = n
  BY DEF RegistryInv, KeyInv
<1>2. ASSUME validateManualNodes
      PROVE  Cardinality(NK \cup MK) = Cardinality(Approved) + Cardinality(ManualNode)
  <2>1. IsFiniteSet(Approved)
    <3>1. Approved \in SUBSET Node
      BY DEF Approved, Enrolled
    <3>. QED
      BY <3>1, FS_Subset, RegistryAssumption
  <2>2. IsFiniteSet(NK) /\ Cardinality(NK) = Cardinality(Approved)
    <3>1. \A a, b \in Approved : key[a] = key[b] => a = b
      BY <1>1
    <3>2. NK = {key[n] : n \in Approved}
      OBVIOUS
    <3>. HIDE DEF key, NK
    <3>. QED
      BY <2>1, <3>1, <3>2, OneKeyEach
  <2>3. IsFiniteSet(MK) /\ Cardinality(MK) = Cardinality(ManualNode)
    <3>1. \A a, b \in ManualNode : manual[a] = manual[b] => a = b
      BY <1>2 DEF validateManualNodes
    <3>. QED
      BY <3>1, RegistryAssumption, OneKeyEach
  <2>4. NK \cap MK = {}
    BY <1>2 DEF validateManualNodes
  <2>. HIDE DEF NK, MK
  <2>5. Cardinality(NK \cup MK) = Cardinality(NK) + Cardinality(MK) - Cardinality(NK \cap MK)
    BY <2>2, <2>3, FS_Union
  <2>6. Cardinality(NK \cap MK) = 0
    BY <2>4, FS_EmptySet
  <2>7. Cardinality(Approved) \in Nat /\ Cardinality(ManualNode) \in Nat
    BY <2>1, RegistryAssumption, FS_CardinalityType
  <2>. QED
    BY <2>2, <2>3, <2>5, <2>6, <2>7
<1>. QED
  BY <1>1, <1>2 DEF FleetKeysUnique

\* Whatever handlers interleave and fail, no two members of the fleet share a key, a token
\* registers at most one node, and an approved record carries the last key accepted for it
\* (Enroll, Rekey, FlagFleetRekey, ClearNodeRekey, HandleRevoke, HandleReport).
THEOREM AlwaysEnrollmentHeld == Spec => []EnrollmentHeld
<1>1. RegistryInv => EnrollmentHeld
  <2>. SUFFICES ASSUME RegistryInv PROVE EnrollmentHeld
    OBVIOUS
  <2>1. TokenSingleUse /\ LastKeyWins
    BY DEF RegistryInv, KeyInv, TokenInv, TokenSingleUse
  <2>. QED
    BY <2>1, FleetIsUnique DEF EnrollmentHeld
<1>. QED
  BY <1>1, RegistryInvariance, PTL

\* Only a record that was read as approved, or absent, is written over a revoked one.
LEMMA OverlapStep ==
    ASSUME RegistryInv, [Next]_vars, NEW n \in Node, nodes[n] # None,
           nodes[n].status = "revoked", nodes'[n].status = "approved"
    PROVE  op.node = n /\ (op.rec = None \/ op.rec.status = "approved")
<1>1. nodes \in [Node -> NodeRecord \cup {None}] /\ nodes[n] \in NodeRecord
  BY DEF RegistryInv, RegistryTypeOK
<1>2. CASE \E t \in ApiTok : EnrollUpsert(t)
  <2>1. n = op.node
    BY <1>1, <1>2 DEF EnrollUpsert
  <2>. QED
    BY <2>1, <1>2 DEF EnrollUpsert, RegistryInv, OpInv
<1>3. CASE RekeyUpsert \/ FlagWrite \/ ClearWrite
  <2>1. op.rec \in NodeRecord /\ op.node \in Node
    BY <1>3 DEF RekeyUpsert, FlagWrite, ClearWrite, RegistryInv, OpInv
  <2>2. \E r : r.status = op.rec.status /\ nodes' = [nodes EXCEPT ![op.node] = r]
    <3>1. CASE RekeyUpsert
      <4>1. [op.rec EXCEPT !.key = op.key, !.rekey = FALSE].status = op.rec.status
        BY <2>1 DEF NodeRecord
      <4>. QED
        BY <3>1, <4>1, Zenon DEF RekeyUpsert
    <3>2. CASE FlagWrite \/ ClearWrite
      <4>1. \A b \in BOOLEAN : [op.rec EXCEPT !.rekey = b].status = op.rec.status
        BY <2>1 DEF NodeRecord
      <4>. QED
        BY <3>2, <4>1, Zenon DEF FlagWrite, ClearWrite
    <3>. QED
      BY <1>3, <3>1, <3>2
  <2>3. PICK r : r.status = op.rec.status /\ nodes' = [nodes EXCEPT ![op.node] = r]
    BY <2>2, Zenon
  <2>4. n = op.node /\ nodes'[n] = r
    BY <1>1, <2>1, <2>3
  <2>. QED
    BY <2>3, <2>4
<1>4. CASE RevokeUpsert
  <2>1. rev.rec \in NodeRecord /\ rev.node \in Node
    BY <1>4 DEF RevokeUpsert, RegistryInv, RevInv, Enrolled
  <2>2. [rev.rec EXCEPT !.status = "revoked", !.rekey = FALSE].status = "revoked"
    BY <2>1 DEF NodeRecord
  <2>. QED
    BY <1>1, <1>4, <2>1, <2>2 DEF RevokeUpsert
<1>5. \A x \in Node : \A t : nodes' = [nodes EXCEPT ![x].tok = t] => nodes'[n].status = "revoked"
  BY <1>1 DEF NodeRecord
<1>6. CASE IssueNodeAPIToken
  BY <1>5, <1>6, Zenon DEF IssueNodeAPIToken, RegistryInv, OpInv
<1>7. CASE RevokeNodeAPIToken
  BY <1>5, <1>7, Zenon DEF RevokeNodeAPIToken, RegistryInv, RevInv, Enrolled
<1>8. CASE FaultInStore
  BY <1>5, <1>8, Zenon DEF FaultInStore, RegistryInv, OpInv, RevInv, Enrolled
<1>9. CASE \E m \in Node, g \in 1 .. MaxApplied : SetAppliedGeneration(m, g)
  <2>1. \A m \in Node : \A g : nodes' = [nodes EXCEPT ![m].applied = g] => nodes'[n].status = "revoked"
    BY <1>1 DEF NodeRecord
  <2>. QED
    BY <1>9, <2>1, Zenon DEF SetAppliedGeneration
<1>10. CASE UNCHANGED nodes
  BY <1>10
<1>. QED
  BY <1>2, <1>3, <1>4, <1>6, <1>7, <1>8, <1>9, <1>10, Zenon
     DEF Next, TenantOp, Revoke, vars, records, HandleEnrollmentToken, Expire, SaveTopology,
         EnrollBurn, EnrollGuard, EnrollUnique, EnrollReply, RekeyRead, RekeyUnique,
         FlagFleetRekey, FlagRead, ClearNodeRekey, RevokeRead, PurgeEnrollmentTokensForNode,
         HandleRekey, Fault

\* A revoked node is approved again only by an operation that had read its record before the
\* revocation was written (Enroll's guard, and the write-backs of Rekey and of the flags).
THEOREM OnlyOverlapResurrects == Spec => ResurrectedOnlyByOverlap
<1>1. ASSUME RegistryInv, [Next]_vars
      PROVE  [\A n \in Node :
                 (nodes[n] # None /\ nodes[n].status = "revoked"
                    /\ nodes'[n].status = "approved") =>
                   /\ op.node = n
                   /\ op.rec = None \/ op.rec.status = "approved"]_vars
  BY <1>1, OverlapStep
<1>. QED
  BY <1>1, RegistryInvariance, PTL DEF Spec, ResurrectedOnlyByOverlap
=============================================================================
