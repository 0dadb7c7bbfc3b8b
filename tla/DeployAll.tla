------------------------------ MODULE DeployAll ------------------------------
(***************************************************************************)
(* deploy-all.sh and deploy-all.ps1, the scripts internal/renderer/        *)
(* deploy.go writes for an air-gapped fleet: check the archive, then visit *)
(* the nodes in order over SSH, stage each bundle in a fresh remote        *)
(* directory, run its install.sh and remove the directory; or run the      *)
(* node's teardown.  Several operators may run the scripts at once.        *)
(*                                                                         *)
(* An SSH command has a remote half that goes on by itself: a connection   *)
(* that drops makes the script count a failure and move on, while the      *)
(* remote command may be killed or may still finish.                       *)
(***************************************************************************)
EXTENDS Naturals, Sequences, FiniteSets

CONSTANTS
    Order,          \* the nodes, in the order of the topology
    HasSSH,         \* nodes with an alias or a host
    Bundled,        \* nodes whose complete bundle is in the archive
    Runs,           \* script runs: each its own operator and archive
    Uninstalls,     \* subset of Runs started with --uninstall, without archive
    PS1,            \* subset of Runs that use the PowerShell script
    MaxFaults       \* bound on failed or dropped commands

DeployAllAssumption ==
    /\ Uninstalls \subseteq Runs /\ PS1 \subseteq Runs
    /\ MaxFaults \in Nat

VARIABLES
    script,     \* [Runs -> the local script]
    tally,      \* [Runs -> [Nodes -> "open" or how the node was counted]]
    dirs,       \* remote staging directories: [node, owner, name, payload]
    remote,     \* remote commands in flight: [run, node, stage, rc]
    did,        \* <<run, node>> whose install or teardown ended with rc 0
    faults
vars == <<script, tally, dirs, remote, did, faults>>

Nodes == {Order[k] : k \in 1..Len(Order)}
Node(r) == Order[script[r].k]
Dir(r, n) == {d \in dirs : d.node = n /\ d.owner = r}
Staged(r) == r \notin Uninstalls \/ r \in PS1

Init ==
    /\ script = [r \in Runs |-> [pc |-> "gate", k |-> 1, exit |-> 9]]
    /\ tally = [r \in Runs |-> [n \in Nodes |-> "open"]]
    /\ dirs = {} /\ remote = {} /\ did = {} /\ faults = 0

Works == faults' = faults
Fails == faults < MaxFaults /\ faults' = faults + 1

At(r, pc) == script[r].pc = pc
Goto(r, pc) == script' = [script EXCEPT ![r].pc = pc]

\* Count the node and go on to the next one.
Count(r, how) ==
    /\ tally' = [tally EXCEPT ![r][Node(r)] = how]
    /\ script' = [script EXCEPT ![r].pc = "node", ![r].k = @ + 1]

Counted(r, how) == Cardinality({n \in Nodes : tally[r][n] = how})

------------------------------------------------------------------------------
\* Size, entry count, names, entry types, extraction: any failure ends the
\* script before the first node.
Gate(r) ==
    /\ At(r, "gate")
    /\ \/ Goto(r, "node") /\ Works
       \/ /\ r \notin Uninstalls
          /\ script' = [script EXCEPT ![r].pc = "done", ![r].exit = 1]
          /\ Fails
    /\ UNCHANGED <<tally, dirs, remote, did>>

\* No SSH details or no complete bundle: skipped.
Visit(r) ==
    /\ At(r, "node") /\ script[r].k <= Len(Order)
    /\ IF Node(r) \in HasSSH /\ (r \notin Uninstalls => Node(r) \in Bundled)
       THEN Goto(r, "test") /\ UNCHANGED tally
       ELSE Count(r, "skipped")
    /\ Works /\ UNCHANGED <<dirs, remote, did>>

SSHTest(r) ==
    /\ At(r, "test")
    /\ \/ /\ Goto(r, IF Staged(r) THEN "mktemp" ELSE "run")
          /\ Works /\ UNCHANGED tally
       \/ Count(r, "failed") /\ Fails
    /\ UNCHANGED <<dirs, remote, did>>

\* A fresh name; the answer can be lost or garbled after the directory was
\* made, and is then not used.
RemoteTemp(r) ==
    /\ At(r, "mktemp")
    /\ \/ /\ dirs' = dirs \cup {[node |-> Node(r), owner |-> r, name |-> r,
                                 payload |-> "empty"]}
          /\ \/ Goto(r, "scp") /\ Works /\ UNCHANGED tally
             \/ Count(r, "failed") /\ Fails
       \/ Count(r, "failed") /\ Fails /\ UNCHANGED dirs
    /\ UNCHANGED <<remote, did>>

\* The copy writes into whatever directory has the name.
Path(r, n) == {d.name : d \in Dir(r, n)}
Upload(r) ==
    {IF d.node = Node(r) /\ d.name \in Path(r, Node(r))
     THEN [d EXCEPT !.payload = r] ELSE d : d \in dirs}

Scp(r) ==
    /\ At(r, "scp")
    /\ \/ dirs' = Upload(r) /\ Goto(r, "run") /\ Works /\ UNCHANGED tally
       \/ /\ Count(r, "failed") /\ Fails           \* best-effort removal
          /\ dirs' \in {dirs \ Dir(r, Node(r)), dirs}
    /\ UNCHANGED <<remote, did>>

Run(r) ==
    /\ At(r, "run")
    /\ remote' = remote \cup {[run |-> r, node |-> Node(r), stage |-> "go",
                               rc |-> 0]}
    /\ Goto(r, "wait") /\ Works
    /\ UNCHANGED <<tally, dirs, did>>

------------------------------------------------------------------------------
(* The remote command: sudo bash install.sh; _yaog_rc=$?; rm -rf the       *)
(* directory; exit $_yaog_rc, where a failed rm turns 0 into 1.            *)

Becomes(c, d) == remote' = (remote \ {c}) \cup {d}

Execute(c) ==
    /\ c.stage = "go"
    /\ \/ /\ Becomes(c, [c EXCEPT !.stage = "rm"])
          /\ did' = did \cup {<<c.run, c.node>>} /\ Works
       \/ /\ Becomes(c, [c EXCEPT !.stage = "rm", !.rc = 1])
          /\ Fails /\ UNCHANGED did
    /\ UNCHANGED <<script, tally, dirs>>

RemoveQuiet(c) ==
    /\ c.stage = "rm"
    /\ Becomes(c, [c EXCEPT !.stage = "end"])
    /\ \/ dirs' = dirs \ Dir(c.run, c.node) /\ Works
       \/ dirs' = dirs /\ Dir(c.run, c.node) # {} /\ Fails
    /\ UNCHANGED <<script, tally, did>>

Remove(c) ==
    /\ c.stage = "rm"
    /\ \/ /\ dirs' = dirs \ Dir(c.run, c.node)
          /\ Becomes(c, [c EXCEPT !.stage = "end"]) /\ Works
       \/ /\ Dir(c.run, c.node) # {} /\ UNCHANGED dirs
          /\ Becomes(c, [c EXCEPT !.stage = "end", !.rc = 1]) /\ Fails
    /\ UNCHANGED <<script, tally, did>>

\* The exit status travels back.
Answer(r) ==
    \E c \in remote :
        /\ c.run = r /\ c.stage = "end" /\ At(r, "wait") /\ c.node = Node(r)
        /\ remote' = remote \ {c}
        /\ Count(r, IF c.rc = 0 THEN "success" ELSE "failed")
        /\ Works /\ UNCHANGED <<dirs, did>>

\* The connection breaks: 255 here; over there a hangup or business as usual.
Drop(r) ==
    /\ At(r, "wait") /\ Fails
    /\ Count(r, "failed")
    /\ remote' \in {remote, {c \in remote : c.run # r \/ c.node # Node(r)}}
    /\ UNCHANGED <<dirs, did>>

Summary(r) ==
    /\ At(r, "node") /\ script[r].k > Len(Order)
    /\ script' = [script EXCEPT ![r].pc = "done",
                    ![r].exit = IF Counted(r, "failed") > 0 THEN 1 ELSE 0]
    /\ Works /\ UNCHANGED <<tally, dirs, remote, did>>

Local(r) ==
    \/ Gate(r) \/ Visit(r) \/ SSHTest(r) \/ RemoteTemp(r) \/ Scp(r) \/ Run(r)
    \/ Answer(r) \/ Drop(r) \/ Summary(r)
Remote == \E c \in remote : Execute(c) \/ Remove(c)

Next == (\E r \in Runs : Local(r)) \/ Remote

Spec == Init /\ [][Next]_vars

\* Commands return: a local script and a remote command that can go on do.
FairSpec == Spec /\ (\A r \in Runs : WF_vars(Local(r))) /\ WF_vars(Remote)

------------------------------------------------------------------------------
(* Properties.                                                             *)

Done(r) == script[r].pc = "done"

\* An install runs from a directory its own script made and filled: never
\* from another operator's upload, and never from under a removal.
OwnPayload ==
    \A c \in remote :
        c.stage = "go" /\ Staged(c.run)
            => \E d \in Dir(c.run, c.node) :
                  /\ d.payload = c.run
                  /\ \A e \in dirs : e.node = d.node /\ e.name = d.name
                                        => e.owner = c.run

\* A node is counted a success only when its install (or teardown) ended
\* with 0 and nothing of this run is left in the node's /tmp.
SuccessMeans ==
    \A r \in Runs, n \in Nodes :
        tally[r][n] = "success" => <<r, n>> \in did /\ Dir(r, n) = {}

\* Exit 0 of a finished script: every node was skipped or succeeded, none was
\* left uncounted, and no staging directory of the run stays behind anywhere.
CleanExit ==
    \A r \in Runs : Done(r) /\ script[r].exit = 0 =>
        \A n \in Nodes : /\ tally[r][n] \in {"success", "skipped"}
                         /\ tally[r][n] = "skipped"
                               => n \notin HasSSH \cap Bundled
                         /\ Dir(r, n) = {}

\* A failing node never stops the visit of the others: every script ends,
\* and unless the archive was refused every node that has SSH and a bundle
\* was tried.
EveryNodeVisited ==
    \A r \in Runs :
        <>(Done(r) /\ (\/ \A n \in Nodes : tally[r][n] # "open"
                       \/ \A n \in Nodes : tally[r][n] = "open"))

\* What the summary of a deploy-all script says is true of the nodes.
SummaryTrue == OwnPayload /\ SuccessMeans /\ CleanExit
==============================================================================
