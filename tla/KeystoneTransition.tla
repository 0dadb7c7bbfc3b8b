------------------------ MODULE KeystoneTransition ------------------------
(***************************************************************************)
(* The keystone credential, its write-ahead marker and its audit record     *)
(* (internal/controller/keystone_transition.go).  The three live in three   *)
(* records, so a crash or an I/O error can separate them.  Every operation  *)
(* here holds the tenant lock from its first step to its last, and every    *)
(* one reconciles the marker before it does anything else.                  *)
(*                                                                         *)
(* An audit event is identified by its random EventID; a write that fails   *)
(* after it has taken effect is the write followed by Fault.                *)
(***************************************************************************)
EXTENDS Naturals

CONSTANTS
    Cred,   \* operator credentials
    Event,  \* audit event ids
    None    \* absent

Snapshot == Cred \cup {None}

\* PendingKeystoneTransition.
Marker == [expected : Snapshot, next : Cred, event : Event]

ASSUME TransitionAssumption == None \notin Cred \cup Marker

VARIABLES
    cred,       \* the pinned credential, None before the first pin
    marker,     \* keystone-transition.json
    logged,     \* how often each event is in the audit log
    used,       \* the event ids drawn so far
    committed,  \* history: the events whose credential write took effect
    holder      \* the operation that holds the tenant lock

vars == <<cred, marker, logged, used, committed, holder>>

\* pc: the next step; wrote: a set operation has done its own credential write.
Holder == [op : {"none", "set", "trust"},
           pc : {"none", "reconcile", "find", "append", "clear", "check", "mark", "cas", "use"},
           expected : Snapshot, next : Snapshot, wrote : BOOLEAN]

Released == [op |-> "none", pc |-> "none", expected |-> None, next |-> None, wrote |-> FALSE]

\* Where an operation goes on once the marker is reconciled.
Reconciled ==
    IF holder.op = "trust" THEN [holder EXCEPT !.pc = "use"]
    ELSE IF holder.wrote THEN Released
    ELSE [holder EXCEPT !.pc = "check"]

-----------------------------------------------------------------------------
\* CompareAndSetKeystoneCredential with the snapshot its caller classified.  The
\* finite set Event bounds the number of transitions.
BeginSet(expected, new) ==
    /\ holder = Released
    /\ used # Event
    /\ holder' = [op |-> "set", pc |-> "reconcile", expected |-> expected, next |-> new,
                  wrote |-> FALSE]
    /\ UNCHANGED <<cred, marker, logged, used, committed>>

\* Mutant: no reconciliation first.
BeginTrustUnreconciled ==
    /\ holder = Released
    /\ holder' = [Released EXCEPT !.op = "trust", !.pc = "use"]
    /\ UNCHANGED <<cred, marker, logged, used, committed>>

\* Stage, sign, promote or GetKeystoneCredential.
BeginTrust ==
    /\ holder = Released
    /\ holder' = [Released EXCEPT !.op = "trust", !.pc = "reconcile"]
    /\ UNCHANGED <<cred, marker, logged, used, committed>>

\* reconcilePendingKeystoneTransitionLocked: nothing pending, committed, not
\* committed, or neither (an error, and the marker stays).
Reconcile ==
    /\ holder.pc = "reconcile"
    /\ holder' = IF marker = None THEN Reconciled
                 ELSE IF cred = marker.next THEN [holder EXCEPT !.pc = "find"]
                 ELSE IF cred = marker.expected THEN [holder EXCEPT !.pc = "clear"]
                 ELSE Released
    /\ UNCHANGED <<cred, marker, logged, used, committed>>

GiveUp ==
    /\ holder.pc = "find"
    /\ holder' = IF logged[marker.event] = 0 THEN Released ELSE [holder EXCEPT !.pc = "clear"]
    /\ UNCHANGED <<cred, marker, logged, used, committed>>

\* findPendingKeystoneAudit; an event found twice is an error.
FindAudit ==
    /\ holder.pc = "find"
    /\ holder' = IF logged[marker.event] = 0 THEN [holder EXCEPT !.pc = "append"]
                 ELSE IF logged[marker.event] = 1 THEN [holder EXCEPT !.pc = "clear"]
                 ELSE Released
    /\ UNCHANGED <<cred, marker, logged, used, committed>>

\* AppendAudit, and the re-read that decides whether it took effect.
AppendAudit ==
    /\ holder.pc = "append"
    /\ logged' = [logged EXCEPT ![marker.event] = @ + 1]
    /\ holder' = [holder EXCEPT !.pc = "clear"]
    /\ UNCHANGED <<cred, marker, used, committed>>

\* DeletePendingKeystoneTransition.
ClearMarker ==
    /\ holder.pc = "clear"
    /\ marker' = None
    /\ holder' = Reconciled
    /\ UNCHANGED <<cred, logged, used, committed>>

\* A compare-only call, or a stale snapshot, ends here without writing.
Check ==
    /\ holder.pc = "check"
    /\ holder' = IF holder.expected = holder.next \/ cred # holder.expected
                 THEN Released ELSE [holder EXCEPT !.pc = "mark"]
    /\ UNCHANGED <<cred, marker, logged, used, committed>>

\* CreatePendingKeystoneTransition with a fresh event id; never over another marker.
WriteMarker(e) ==
    /\ holder.pc = "mark"
    /\ e \notin used
    /\ marker = None
    /\ marker' = [expected |-> holder.expected, next |-> holder.next, event |-> e]
    /\ used' = used \cup {e}
    /\ holder' = [holder EXCEPT !.pc = "cas"]
    /\ UNCHANGED <<cred, logged, committed>>

\* CompareAndSetOperatorCredential, then the closing reconciliation.
WriteCredential ==
    /\ holder.pc = "cas"
    /\ cred = holder.expected
    /\ cred' = holder.next
    /\ committed' = committed \cup {marker.event}
    /\ holder' = [holder EXCEPT !.pc = "reconcile", !.wrote = TRUE]
    /\ UNCHANGED <<marker, logged, used>>

\* The trust operation consults the credential and ends.
UseCredential ==
    /\ holder.pc = "use"
    /\ holder' = Released
    /\ UNCHANGED <<cred, marker, logged, used, committed>>

\* A crash, or an error that makes the operation return.
Fault ==
    /\ holder # Released
    /\ holder' = Released
    /\ UNCHANGED <<cred, marker, logged, used, committed>>

Init ==
    /\ cred = None
    /\ marker = None
    /\ logged = [e \in Event |-> 0]
    /\ used = {}
    /\ committed = {}
    /\ holder = Released

Step ==
    \/ Reconcile \/ FindAudit \/ AppendAudit \/ ClearMarker \/ Check
    \/ (\E e \in Event : WriteMarker(e))
    \/ WriteCredential \/ UseCredential

Next ==
    \/ \E expected \in Snapshot, new \in Cred : BeginSet(expected, new)
    \/ BeginTrust
    \/ Step
    \/ Fault

Spec == Init /\ [][Next]_vars

-----------------------------------------------------------------------------
\* The records and the lock holder have the shape the code gives them.
TypeOK ==
    /\ cred \in Snapshot
    /\ marker \in Marker \cup {None}
    /\ logged \in [Event -> Nat]
    /\ used \subseteq Event
    /\ committed \subseteq Event
    /\ holder \in Holder

\* "Audit before use": when stage, sign, promote or the status read consults the
\* credential, every credential change so far is in the audit log, once.
AuditBeforeUse == holder.pc = "use" => \A e \in committed : logged[e] = 1

\* The append is exactly once and never for a change that did not happen, although
\* it is retried after crashes and after appends that failed having taken effect.
AuditExactlyOnce == \A e \in Event : logged[e] = 0 \/ (logged[e] = 1 /\ e \in committed)

\* A change that is not audited yet is the one the marker names: no crash loses it.
UnauditedIsPending ==
    \A e \in committed : logged[e] = 0 =>
        marker # None /\ marker.event = e /\ marker.next = cred

\* The "third state" that reconciliation refuses forever is never reached.
NeverConflicting == marker # None => cred \in {marker.expected, marker.next}

\* The keystone is audited: before use, exactly once, never lost and never stuck.
KeystoneAudited ==
    AuditBeforeUse /\ AuditExactlyOnce /\ UnauditedIsPending /\ NeverConflicting
=============================================================================
