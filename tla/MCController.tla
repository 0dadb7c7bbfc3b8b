---------------------------- MODULE MCController ----------------------------
(***************************************************************************)
(* The controller's records for TLC: node registry, audit log, file        *)
(* backend and operator login.  These share no state, so one run checks    *)
(* them side by side: the scenario, chosen in the initial state, is the    *)
(* one that moves, and the others keep an initial state.  The state graph  *)
(* is the disjoint union of theirs.                                        *)
(***************************************************************************)
EXTENDS NodeRegistry

CONSTANTS a, b, m, k1, k2

VARIABLES
    scenario,
    file, legacy, tail, appends, auditFaults, acked,
    path, dirKept, names, disk, data, dur, temps, fileOp, fileFaults, kills, crashes,
    sworn, last, shown,
    clock, acct, chals, sessions, attempts, reqs, ids, ghost

\* Rotation at 4 entries down to 2, nine appends, three crashes or failed rotations.
Audit == INSTANCE AuditLog WITH
    auditRetain <- 2, auditRotateAt <- 4, MaxAppends <- 9, MaxFaults <- 3,
    CrashLeaves <- {"nothing", "part", "line"}, ErrorLeaves <- {"nothing"},
    faults <- auditFaults

\* Power losses; a failing call, a death and a power loss; files restored during reads.
Disk == INSTANCE FileBackend WITH
    Vals <- {"a", "b"}, Calls <- {"put", "del", "append"}, Dirs <- {1}, Unsafe <- {},
    Inodes <- 1 .. 4, Foreign <- {}, Odd <- {}, Fresh <- FALSE,
    MaxFaults <- 0, MaxKills <- 0, MaxCrashes <- 2, op <- fileOp, faults <- fileFaults
Failing == INSTANCE FileBackend WITH
    Vals <- {"a"}, Calls <- {"put", "append"}, Dirs <- {1}, Unsafe <- {},
    Inodes <- 1 .. 5, Foreign <- {}, Odd <- {}, Fresh <- FALSE,
    MaxFaults <- 1, MaxKills <- 1, MaxCrashes <- 0, op <- fileOp, faults <- fileFaults
Restored == INSTANCE FileBackend WITH
    Vals <- {"a"}, Calls <- {"get", "del"}, Dirs <- 1 .. 3, Unsafe <- {2},
    Inodes <- 1 .. 3, Foreign <- 1 .. 3, Odd <- {3}, Fresh <- FALSE,
    MaxFaults <- 0, MaxKills <- 0, MaxCrashes <- 0, op <- fileOp, faults <- fileFaults

Account(secret, cr) == [secret |-> secret, last |-> 0, cred |-> cr]

\* Three requests, two at once, with codes or passkeys; four logins against a limit of two.
Codes == INSTANCE OperatorLogin WITH
    Users <- {"op"}, IPs <- {"ip1"}, Kinds <- {"login", "confirm", "disable"},
    Accounts <- {Account(1, 0)}, MaxFailures <- 9, LoginWindow <- 9,
    ChallengeTTL <- 9, SessionTTL <- 9, ReConfirm <- FALSE,
    MaxTime <- 2, MaxReqs <- 3, MaxOpen <- 2
Passkeys == INSTANCE OperatorLogin WITH
    Users <- {"op"}, IPs <- {"ip1"}, Kinds <- {"login", "begin", "finish", "register",
                                              "pkdisable", "enrollLogin", "enrollKeystone"},
    Accounts <- {Account(0, 0), Account(0, 1)}, MaxFailures <- 9, LoginWindow <- 9,
    ChallengeTTL <- 1, SessionTTL <- 9, ReConfirm <- FALSE,
    MaxTime <- 2, MaxReqs <- 3, MaxOpen <- 3
Limiter == INSTANCE OperatorLogin WITH
    Users <- {"op", "nobody"}, IPs <- {"ip1"}, Kinds <- {"login", "logout"},
    Accounts <- {Account(0, 0)}, MaxFailures <- 2, LoginWindow <- 2,
    ChallengeTTL <- 9, SessionTTL <- 1, ReConfirm <- FALSE,
    MaxTime <- 3, MaxReqs <- 4, MaxOpen <- 2

ASSUME Audit!AuditAssumption
ASSUME Disk!FileBackendAssumption /\ Failing!FileBackendAssumption
          /\ Restored!FileBackendAssumption
ASSUME Codes!BoundsAssumption /\ Passkeys!BoundsAssumption /\ Limiter!BoundsAssumption

auditVars == <<file, legacy, tail, appends, auditFaults, acked>>
fileVars == <<path, dirKept, names, disk, data, dur, temps, fileOp, fileFaults, kills,
              crashes, sworn, last, shown>>
loginVars == <<clock, acct, chals, sessions, attempts, reqs, ids, ghost>>
mcVars == <<scenario, vars, auditVars, fileVars, loginVars>>

MCInit ==
    /\ scenario \in {"fleet", "solo", "audit", "disk", "failing", "restored", "codes",
                     "passkeys", "limiter"}
    /\ Init
    /\ Audit!Init /\ (scenario # "audit" => appends = 0)
    /\ CASE scenario = "failing" -> Failing!Init
         [] scenario = "restored" -> Restored!Init
         [] OTHER -> Disk!Init
    /\ CASE scenario = "passkeys" -> Passkeys!Init
         [] scenario = "limiter" -> Limiter!Init
         [] OTHER -> Codes!Init

Move ==
    /\ UNCHANGED scenario
    /\ IF scenario \in {"fleet", "solo"} THEN Next ELSE UNCHANGED vars
    /\ IF scenario = "audit" THEN Audit!Next ELSE UNCHANGED auditVars
    /\ CASE scenario = "disk" -> Disk!Next
         [] scenario = "failing" -> Failing!Next
         [] scenario = "restored" -> Restored!Next
         [] OTHER -> UNCHANGED fileVars
    /\ CASE scenario = "codes" -> Codes!Next
         [] scenario = "passkeys" -> Passkeys!Next
         [] scenario = "limiter" -> Limiter!Next
         [] OTHER -> UNCHANGED loginVars

\* Tokens and keys are only compared for equality, so they are drawn in order.  "fleet": two
\* agents that may ask for the same key, of which only a is revoked and only b rekeys.
\* "solo": one agent beside a hand-deployed node, with reports and a crash.
RegistryBound ==
    /\ created' = 1 .. Cardinality(created')
    /\ minted' = 1 .. Cardinality(minted')
    /\ scenario = "fleet" =>
          /\ manual' = manual /\ faults' = 0 /\ \A x \in Node : reported'[x] = 0
          /\ rev'.node # b /\ rekeyReq'[a] = None
          /\ (\A x \in Node : nodes[x] = None /\ lastKey[x] = None) => op'.key # k2
    /\ scenario = "solo" =>
          manual'[m] # k2 /\ created' \subseteq {1} /\ (tokens'[1] # None => tokens'[1].node = a)

MCSpec == MCInit /\ [][Move /\ RegistryBound]_mcVars

-----------------------------------------------------------------------------
(* The properties of the instances, each on the scenarios it is about.       *)

\* AuditLog: the log stays readable, verifies, and keeps what was acknowledged.
LogVerifies == Audit!LogVerifies

\* FileBackend: a power loss takes back nothing that was acknowledged, and a read returns
\* the record of some moment of that read.
RecordsKept ==
    CASE scenario = "failing" -> Failing!Durable({"put"})
      [] scenario = "restored" -> Restored!ReadLinear
      [] OTHER -> Disk!Durable({"put", "del", "append"})

\* OperatorLogin: a session rests on the factor the account asked for during the request,
\* a proof is used once, and the limiter bounds the attempts of a key in every window.
LoginHeld ==
    CASE scenario = "passkeys" -> Passkeys!LoginHeld
      [] scenario = "limiter" -> Limiter!LoginHeld
      [] OTHER -> Codes!LoginHeld
=============================================================================
