---------------------------- MODULE NodeRegistry ----------------------------
(***************************************************************************)
(* The controller's node registry: enrollment tokens, per-node API tokens  *)
(* with their reverse index, the WireGuard keys bound to node records, the *)
(* rekey flags, and revocation (enrollment.go, rekey.go,                   *)
(* handler_enrollment.go, handler_agent.go, storecore.go).                 *)
(*                                                                         *)
(* A store call is atomic (it holds the store lock); an operation is a     *)
(* sequence of store calls.  Enroll, Rekey, FlagFleetRekey, ClearNodeRekey *)
(* and SaveTopology hold the tenant lock (op); HandleRevoke and            *)
(* HandleReport do not.  Whatever an operation has read is kept in op or   *)
(* rev and used by its later steps.                                        *)
(***************************************************************************)
EXTENDS Naturals, FiniteSets

CONSTANTS
    Node,         \* node ids
    ManualNode,   \* ids of hand-deployed nodes of the design
    Key,          \* WireGuard public keys, all well formed
    EnrollTok,    \* enrollment tokens that can be minted
    ApiTok,       \* API tokens that can be minted
    MaxApplied,   \* bound: reported generations
    MaxFaults,    \* bound: crashes and I/O errors
    None

\* What nodes/<id>.json and tokens/<hash>.json hold.
NodeRecord == [status : {"approved", "revoked"}, key : Key, tok : ApiTok \cup {None},
               rekey : BOOLEAN, applied : 0 .. MaxApplied]
TokenRecord == [node : Node, live : BOOLEAN, consumed : BOOLEAN]

\* The design and the registry are finite, and an absent record is not a record.
ASSUME RegistryAssumption ==
    /\ IsFiniteSet(Node) /\ IsFiniteSet(ManualNode)
    /\ None \notin Node \cup Key \cup EnrollTok \cup ApiTok \cup NodeRecord \cup TokenRecord
    /\ MaxApplied \in Nat /\ MaxFaults \in Nat
    /\ ManualNode \cap Node = {}

VARIABLES
    nodes,      \* nodes/<id>.json, None if absent
    tokens,     \* tokens/<hash>.json, None if absent
    apitokens,  \* apitokens/<hash>.json, None if absent
    manual,     \* the keys the stored topology asserts for manual nodes
    op,         \* the operation that holds the tenant lock
    rev,        \* the revocation in progress
    rekeyReq,   \* /rekey requests that passed requireNode and wait for the lock
    held,       \* the API token each agent holds
    minted,     \* API tokens drawn from the random source
    created,    \* enrollment tokens ever created
    grants,     \* ghost: registrations each enrollment token led to
    lastKey,    \* ghost: the last key accepted for a node
    reported,   \* ghost: the generation the agent last reported
    faults

vars == <<nodes, tokens, apitokens, manual, op, rev, rekeyReq, held, minted,
          created, grants, lastKey, reported, faults>>

records   == <<nodes, tokens, apitokens, manual>>
ghosts == <<grants, lastKey, reported>>

Idle == [kind |-> "none", pc |-> "guard", node |-> None, key |-> None, by |-> None,
         rec |-> None, tok |-> None, todo |-> {}]

NoRevoke == [pc |-> "idle", node |-> None, rec |-> None]

(***************************************************************************)
(* What the handlers read.                                                 *)
(***************************************************************************)
Enrolled == {n \in Node : nodes[n] # None}

Approved == {n \in Enrolled : nodes[n].status = "approved"}

\* The node an API token authenticates, None if LookupNodeByAPIToken refuses.
LookupNodeByAPIToken(t) ==
    IF /\ t # None
       /\ apitokens[t] # None
       /\ apitokens[t] \in Approved
       /\ nodes[apitokens[t]].tok = t
    THEN apitokens[t] ELSE None

Authenticated(n) == LookupNodeByAPIToken(held[n]) = n

manualKeyConflict(k) == \E m \in ManualNode : manual[m] = k

CheckWGKeyUnique(k, n) ==
    /\ \A m \in Approved \ {n} : nodes[m].key # k
    /\ ~manualKeyConflict(k)

\* The gate of a stage: every manual node has a key, which is nobody else's.
validateManualNodes ==
    \A m \in ManualNode :
        /\ manual[m] # None
        /\ \A n \in Approved : nodes[n].key # manual[m]
        /\ \A o \in ManualNode \ {m} : manual[o] # manual[m]

(***************************************************************************)
(* Operator: tokens and the design.                                        *)
(***************************************************************************)
HandleEnrollmentToken(e, n) ==
    /\ e \notin created
    /\ created' = created \cup {e}
    /\ tokens' = [tokens EXCEPT ![e] = [node |-> n, live |-> TRUE, consumed |-> FALSE]]
    /\ UNCHANGED <<nodes, apitokens, manual, op, rev, rekeyReq, held, minted, ghosts, faults>>

\* The token's TTL runs out (after it was consumed that makes no difference).
Expire(e) ==
    /\ tokens[e] # None
    /\ tokens[e].live /\ ~tokens[e].consumed
    /\ tokens' = [tokens EXCEPT ![e].live = FALSE]
    /\ UNCHANGED <<nodes, apitokens, manual, op, rev, rekeyReq, held, minted, created,
                   ghosts, faults>>

SaveTopology(m, k) ==
    /\ op = Idle
    /\ manual[m] # k
    /\ manual' = [manual EXCEPT ![m] = k]
    /\ UNCHANGED <<nodes, tokens, apitokens, op, rev, rekeyReq, held, minted, created,
                   ghosts, faults>>

ConsumeEnrollmentToken(e, n) ==
    /\ tokens[e].node = n
    /\ tokens[e].live
    /\ ~tokens[e].consumed

EnrollBurn(e, n, k) ==
    /\ op = Idle
    /\ tokens[e] # None
    /\ ConsumeEnrollmentToken(e, n)
    /\ tokens' = [tokens EXCEPT ![e].consumed = TRUE]
    /\ op' = [Idle EXCEPT !.kind = "enroll", !.node = n, !.key = k, !.by = e]
    /\ UNCHANGED <<nodes, apitokens, manual, rev, rekeyReq, held, minted, created, ghosts, faults>>

\* mutant: whatever the record says, the enrollment goes on
GuardNothing ==
    /\ op.kind = "enroll" /\ op.pc = "guard"
    /\ op' = [op EXCEPT !.pc = "unique", !.rec = nodes[op.node]]
    /\ UNCHANGED <<records, rev, rekeyReq, held, minted, created, ghosts, faults>>

EnrollGuard ==
    /\ op.kind = "enroll" /\ op.pc = "guard"
    /\ op' = IF nodes[op.node] # None /\ nodes[op.node].status = "revoked"
             THEN Idle
             ELSE [op EXCEPT !.pc = "unique", !.rec = nodes[op.node]]
    /\ UNCHANGED <<records, rev, rekeyReq, held, minted, created, ghosts, faults>>

EnrollUnique ==
    /\ op.kind = "enroll" /\ op.pc = "unique"
    /\ op' = IF CheckWGKeyUnique(op.key, op.node) THEN [op EXCEPT !.pc = "upsert"] ELSE Idle
    /\ UNCHANGED <<records, rev, rekeyReq, held, minted, created, ghosts, faults>>

EnrollUpsert(t) ==
    /\ op.kind = "enroll" /\ op.pc = "upsert"
    /\ t \notin minted
    /\ minted' = minted \cup {t}
    /\ nodes' = [nodes EXCEPT ![op.node] =
                    [status |-> "approved", key |-> op.key, tok |-> t,
                     rekey |-> FALSE, applied |-> 0]]
    /\ op' = [op EXCEPT !.pc = "issue", !.tok = t]
    /\ grants' = [grants EXCEPT ![op.by] = @ + 1]
    /\ lastKey' = [lastKey EXCEPT ![op.node] = op.key]
    /\ reported' = [reported EXCEPT ![op.node] = 0]
    /\ UNCHANGED <<tokens, apitokens, manual, rev, rekeyReq, held, created, faults>>

\* The index entry that IssueNodeAPIToken drops before it writes the new one.
Superseded(n, t) == {h \in ApiTok : h = nodes[n].tok /\ h # t}

IssueNodeAPIToken ==
    /\ op.kind = "enroll" /\ op.pc = "issue"
    /\ nodes' = [nodes EXCEPT ![op.node].tok = op.tok]
    /\ apitokens' = [h \in ApiTok |->
            IF h = op.tok THEN op.node
            ELSE IF h \in Superseded(op.node, op.tok) THEN None
            ELSE apitokens[h]]
    /\ op' = [op EXCEPT !.pc = "reply"]
    /\ UNCHANGED <<tokens, manual, rev, rekeyReq, held, minted, created, ghosts, faults>>

\* The audit entry, and the answer: the agent receives the plaintext, or the answer is lost.
EnrollReply(received) ==
    /\ op.kind = "enroll" /\ op.pc = "reply"
    /\ op' = Idle
    /\ held' = IF received THEN [held EXCEPT ![op.node] = op.tok] ELSE held
    /\ UNCHANGED <<records, rev, rekeyReq, minted, created, ghosts, faults>>

(***************************************************************************)
(* Rekey: the agent registers its rotated key.                             *)
(***************************************************************************)
HandleRekey(n, k) ==
    /\ Authenticated(n)
    /\ \A m \in Node : rekeyReq[m] = None      \* bound: one request waits at a time
    /\ rekeyReq' = [rekeyReq EXCEPT ![n] = k]
    /\ UNCHANGED <<records, op, rev, held, minted, created, ghosts, faults>>

RekeyRead(n) ==
    /\ op = Idle
    /\ rekeyReq[n] # None
    /\ rekeyReq' = [rekeyReq EXCEPT ![n] = None]
    /\ op' = [Idle EXCEPT !.kind = "rekey", !.pc = "unique", !.node = n,
                          !.key = rekeyReq[n], !.rec = nodes[n]]
    /\ UNCHANGED <<records, rev, held, minted, created, ghosts, faults>>

RekeyUnique ==
    /\ op.kind = "rekey" /\ op.pc = "unique"
    /\ op' = IF CheckWGKeyUnique(op.key, op.node) THEN [op EXCEPT !.pc = "upsert"] ELSE Idle
    /\ UNCHANGED <<records, rev, rekeyReq, held, minted, created, ghosts, faults>>

RekeyUpsert ==
    /\ op.kind = "rekey" /\ op.pc = "upsert"
    /\ nodes' = [nodes EXCEPT ![op.node] = [op.rec EXCEPT !.key = op.key, !.rekey = FALSE]]
    /\ op' = Idle
    /\ lastKey' = [lastKey EXCEPT ![op.node] = op.key]
    /\ UNCHANGED <<tokens, apitokens, manual, rev, rekeyReq, held, minted, created, grants,
                   reported, faults>>

(***************************************************************************)
(* Rekey flags.                                                            *)
(***************************************************************************)
FlagFleetRekey ==
    /\ op = Idle
    /\ Approved # {}
    /\ op' = [Idle EXCEPT !.kind = "flag", !.pc = "read", !.todo = Approved]
    /\ UNCHANGED <<records, rev, rekeyReq, held, minted, created, ghosts, faults>>

FlagRead(n) ==
    /\ op.kind = "flag" /\ op.pc = "read"
    /\ n \in op.todo
    /\ op' = [op EXCEPT !.pc = "write", !.node = n, !.rec = nodes[n]]
    /\ UNCHANGED <<records, rev, rekeyReq, held, minted, created, ghosts, faults>>

AfterFlag == IF op.todo = {op.node} THEN Idle
             ELSE [op EXCEPT !.pc = "read", !.todo = @ \ {op.node}, !.node = None, !.rec = None]

FlagWrite ==
    /\ op.kind = "flag" /\ op.pc = "write"
    /\ nodes' = [nodes EXCEPT ![op.node] = [op.rec EXCEPT !.rekey = TRUE]]
    /\ op' = AfterFlag
    /\ UNCHANGED <<tokens, apitokens, manual, rev, rekeyReq, held, minted, created, ghosts, faults>>

ClearNodeRekey(n) ==
    /\ op = Idle
    /\ n \in Enrolled
    /\ nodes[n].rekey
    /\ op' = [Idle EXCEPT !.kind = "clear", !.pc = "write", !.node = n, !.rec = nodes[n]]
    /\ UNCHANGED <<records, rev, rekeyReq, held, minted, created, ghosts, faults>>

ClearWrite ==
    /\ op.kind = "clear"
    /\ nodes' = [nodes EXCEPT ![op.node] = [op.rec EXCEPT !.rekey = FALSE]]
    /\ op' = Idle
    /\ UNCHANGED <<tokens, apitokens, manual, rev, rekeyReq, held, minted, created, ghosts, faults>>

(***************************************************************************)
(* HandleRevoke: four store calls, no tenant lock.                         *)
(***************************************************************************)
RevokeRead(n) ==
    /\ rev = NoRevoke
    /\ n \in Enrolled
    /\ rev' = [pc |-> "upsert", node |-> n, rec |-> nodes[n]]
    /\ UNCHANGED <<records, op, rekeyReq, held, minted, created, ghosts, faults>>

\* mutant: the record that was read is written back with its status
RevokeWritesBack ==
    /\ rev.pc = "upsert"
    /\ nodes' = [nodes EXCEPT ![rev.node] = [rev.rec EXCEPT !.rekey = FALSE]]
    /\ rev' = [rev EXCEPT !.pc = "token"]
    /\ UNCHANGED <<tokens, apitokens, manual, op, rekeyReq, held, minted, created, ghosts, faults>>

RevokeUpsert ==
    /\ rev.pc = "upsert"
    /\ nodes' = [nodes EXCEPT ![rev.node] =
                    [rev.rec EXCEPT !.status = "revoked", !.rekey = FALSE]]
    /\ rev' = [rev EXCEPT !.pc = "token"]
    /\ UNCHANGED <<tokens, apitokens, manual, op, rekeyReq, held, minted, created, ghosts, faults>>

RevokeNodeAPIToken ==
    /\ rev.pc = "token"
    /\ nodes' = [nodes EXCEPT ![rev.node].tok = None]
    /\ apitokens' = [h \in ApiTok |-> IF h = nodes[rev.node].tok THEN None ELSE apitokens[h]]
    /\ rev' = [rev EXCEPT !.pc = "purge"]
    /\ UNCHANGED <<tokens, manual, op, rekeyReq, held, minted, created, ghosts, faults>>

PurgeEnrollmentTokensForNode ==
    /\ rev.pc = "purge"
    /\ tokens' = [e \in EnrollTok |->
            IF tokens[e] # None /\ tokens[e].node = rev.node THEN None ELSE tokens[e]]
    /\ rev' = NoRevoke
    /\ UNCHANGED <<nodes, apitokens, manual, op, rekeyReq, held, minted, created, ghosts, faults>>

(***************************************************************************)
(* The agent's report, and faults.                                         *)
(***************************************************************************)
SetAppliedGeneration(n, g) ==
    /\ Authenticated(n)
    /\ nodes[n].applied # g
    /\ nodes' = [nodes EXCEPT ![n].applied = g]
    /\ reported' = [reported EXCEPT ![n] = g]
    /\ UNCHANGED <<tokens, apitokens, manual, op, rev, rekeyReq, held, minted, created, grants,
                   lastKey, faults>>

\* A crash of the controller, or an I/O error: the operations in flight end here.
Fault ==
    /\ faults < MaxFaults
    /\ <<op, rev>> # <<Idle, NoRevoke>>
    /\ op' \in {op, Idle}
    /\ rev' \in {rev, NoRevoke}
    /\ faults' = faults + 1
    /\ UNCHANGED <<records, rekeyReq, held, minted, created, ghosts>>

\* IssueNodeAPIToken or RevokeNodeAPIToken cut after its first record write.
FaultInStore ==
    /\ faults < MaxFaults
    /\ faults' = faults + 1
    /\ \/ /\ op.kind = "enroll" /\ op.pc = "issue"
          /\ \/ /\ apitokens' = [h \in ApiTok |->
                      IF h \in Superseded(op.node, op.tok) THEN None ELSE apitokens[h]]
                /\ nodes' = nodes
             \/ /\ apitokens' = [h \in ApiTok |->
                      IF h \in Superseded(op.node, op.tok) THEN None ELSE apitokens[h]]
                /\ nodes' = [nodes EXCEPT ![op.node].tok = op.tok]
          /\ op' = Idle /\ rev' = rev
       \/ /\ rev.pc = "token"
          /\ nodes' = [nodes EXCEPT ![rev.node].tok = None]
          /\ rev' = NoRevoke
          /\ UNCHANGED <<apitokens, op>>
    /\ UNCHANGED <<tokens, manual, rekeyReq, held, minted, created, ghosts>>

(***************************************************************************)
(* The specification.                                                      *)
(***************************************************************************)
Init ==
    /\ nodes = [n \in Node |-> None]
    /\ tokens = [e \in EnrollTok |-> None]
    /\ apitokens = [t \in ApiTok |-> None]
    /\ manual = [m \in ManualNode |-> None]
    /\ op = Idle
    /\ rev = NoRevoke
    /\ rekeyReq = [n \in Node |-> None]
    /\ held = [n \in Node |-> None]
    /\ minted = {}
    /\ created = {}
    /\ grants = [e \in EnrollTok |-> 0]
    /\ lastKey = [n \in Node |-> None]
    /\ reported = [n \in Node |-> 0]
    /\ faults = 0

TenantOp ==
    \/ \E e \in EnrollTok, n \in Node, k \in Key : EnrollBurn(e, n, k)
    \/ EnrollGuard \/ EnrollUnique \/ IssueNodeAPIToken
    \/ \E t \in ApiTok : EnrollUpsert(t)
    \/ \E received \in BOOLEAN : EnrollReply(received)
    \/ \E n \in Node : RekeyRead(n) \/ FlagRead(n) \/ ClearNodeRekey(n)
    \/ RekeyUnique \/ RekeyUpsert \/ FlagFleetRekey \/ FlagWrite \/ ClearWrite

Revoke ==
    \/ \E n \in Node : RevokeRead(n)
    \/ RevokeUpsert \/ RevokeNodeAPIToken \/ PurgeEnrollmentTokensForNode

Next ==
    \/ \E e \in EnrollTok, n \in Node : HandleEnrollmentToken(e, n)
    \/ \E e \in EnrollTok : Expire(e)
    \/ \E m \in ManualNode, k \in Key : SaveTopology(m, k)
    \/ TenantOp
    \/ Revoke
    \/ \E n \in Node, k \in Key : HandleRekey(n, k)
    \/ \E n \in Node, g \in 1..MaxApplied : SetAppliedGeneration(n, g)
    \/ Fault
    \/ FaultInStore

Spec == Init /\ [][Next]_vars

(***************************************************************************)
(* Properties.                                                             *)
(***************************************************************************)
\* One approved WireGuard key belongs to one node, and a design whose manual nodes pass the
\* gate of a stage gives every member of the fleet, enrolled or manual, a key of its own
\* (CheckWGKeyUnique under the tenant lock on both write paths; validateManualNodes).
FleetKeysUnique ==
    /\ \A m, n \in Approved : nodes[m].key = nodes[n].key => m = n
    /\ validateManualNodes =>
          Cardinality({nodes[n].key : n \in Approved} \cup {manual[m] : m \in ManualNode})
            = Cardinality(Approved) + Cardinality(ManualNode)

\* An enrollment token registers a node at most once, whatever fails after it was burned.
TokenSingleUse == \A e \in EnrollTok : grants[e] <= 1

\* An approved node's record carries the last key that was accepted for it: no flag, clear or
\* rekey that read the record earlier brings an older key back (rekey.go's reason for the lock).
LastKeyWins == \A n \in Approved : nodes[n].key = lastKey[n]

\* A revoked node becomes approved again only by an operation that had read its record before
\* the revocation was written; an enrollment that starts later is refused.
ResurrectedOnlyByOverlap ==
    [][\A n \in Node :
          (nodes[n] # None /\ nodes[n].status = "revoked"
             /\ nodes'[n].status = "approved") =>
            /\ op.node = n
            /\ op.rec = None \/ op.rec.status = "approved"]_vars

\* Who belongs to the fleet, and with which key: the three promises together.
EnrollmentHeld == FleetKeysUnique /\ TokenSingleUse /\ LastKeyWins
=============================================================================
