--------------------- MODULE KeystoneTransitionProofs ---------------------
(***************************************************************************)
(* KeystoneTransition for any credentials and any number of transitions.    *)
(* The inductive invariant adds to the properties what each step of the     *)
(* lock holder knows: which of the marker's two credentials is current, and *)
(* that a committed event without a record is the marker's own.             *)
(***************************************************************************)
EXTENDS KeystoneTransition, TLAPS

\* What the marker says about the credential and its event.
MarkerInv ==
    marker # None =>
        /\ marker.expected # marker.next
        /\ marker.event \in used
        /\ cred \in {marker.expected, marker.next}
        /\ cred = marker.next <=> marker.event \in committed

\* What the lock holder has established when it is about to take its next step.
HolderInv ==
    /\ holder.op = "set" => holder.next \in Cred
    /\ holder.pc = "none" => holder = Released
    /\ holder.op = "none" => holder = Released
    /\ holder.pc \in {"check", "mark", "cas"} => holder.op = "set"
    /\ holder.pc \in {"check", "mark", "use"} => marker = None
    /\ holder.pc \in {"find", "append", "clear", "cas"} => marker # None
    /\ holder.pc \in {"find", "append"} => cred = marker.next
    /\ holder.pc = "append" => logged[marker.event] = 0
    /\ holder.pc = "clear" => (cred = marker.next => logged[marker.event] = 1)
    /\ holder.pc = "mark" => cred = holder.expected /\ holder.expected # holder.next
    /\ holder.pc = "cas" => /\ cred = marker.expected
                            /\ marker.expected = holder.expected
                            /\ marker.next = holder.next

IInv ==
    /\ TypeOK
    /\ AuditExactlyOnce
    /\ UnauditedIsPending
    /\ committed \subseteq used
    /\ MarkerInv
    /\ HolderInv

\* The initial state satisfies the invariant.
LEMMA InitInv == Init => IInv
  BY TransitionAssumption DEF Init, IInv, TypeOK, AuditExactlyOnce, UnauditedIsPending, MarkerInv,
     HolderInv, Released, Holder, Snapshot

\* Every step of every operation, and every fault, preserves it.
LEMMA NextInv == IInv /\ [Next]_vars => IInv'
<1> SUFFICES ASSUME IInv, [Next]_vars PROVE IInv'
  OBVIOUS
<1> USE TransitionAssumption DEF IInv
<1>1. ASSUME NEW expected \in Snapshot, NEW new \in Cred, BeginSet(expected, new) PROVE IInv'
  BY <1>1 DEF BeginSet, TypeOK, AuditExactlyOnce, UnauditedIsPending, MarkerInv, HolderInv,
     Released, Holder, Snapshot
<1>2. CASE BeginTrust
  BY <1>2 DEF BeginTrust, TypeOK, AuditExactlyOnce, UnauditedIsPending, MarkerInv, HolderInv,
     Released, Holder, Snapshot
<1>3. CASE Reconcile
  BY <1>3 DEF Reconcile, Reconciled, TypeOK, AuditExactlyOnce, UnauditedIsPending, MarkerInv,
     HolderInv, Released, Holder, Snapshot, Marker
<1>4. CASE FindAudit
  BY <1>4 DEF FindAudit, TypeOK, AuditExactlyOnce, UnauditedIsPending, MarkerInv, HolderInv,
     Released, Holder, Snapshot, Marker
<1>5. CASE AppendAudit
  BY <1>5 DEF AppendAudit, TypeOK, AuditExactlyOnce, UnauditedIsPending, MarkerInv, HolderInv,
     Released, Holder, Snapshot, Marker
<1>6. CASE ClearMarker
  BY <1>6 DEF ClearMarker, Reconciled, TypeOK, AuditExactlyOnce, UnauditedIsPending, MarkerInv,
     HolderInv, Released, Holder, Snapshot, Marker
<1>7. CASE Check
  BY <1>7 DEF Check, TypeOK, AuditExactlyOnce, UnauditedIsPending, MarkerInv, HolderInv,
     Released, Holder, Snapshot
<1>8. ASSUME NEW e \in Event, WriteMarker(e) PROVE IInv'
  BY <1>8 DEF WriteMarker, TypeOK, AuditExactlyOnce, UnauditedIsPending, MarkerInv, HolderInv,
     Released, Holder, Snapshot, Marker
<1>9. CASE WriteCredential
  BY <1>9 DEF WriteCredential, TypeOK, AuditExactlyOnce, UnauditedIsPending, MarkerInv,
     HolderInv, Released, Holder, Snapshot, Marker
<1>10. CASE UseCredential
  BY <1>10 DEF UseCredential, TypeOK, AuditExactlyOnce, UnauditedIsPending, MarkerInv,
     HolderInv, Released, Holder, Snapshot
<1>11. CASE Fault
  BY <1>11 DEF Fault, TypeOK, AuditExactlyOnce, UnauditedIsPending, MarkerInv, HolderInv,
     Released, Holder, Snapshot
<1>12. CASE UNCHANGED vars
  BY <1>12 DEF vars, TypeOK, AuditExactlyOnce, UnauditedIsPending, MarkerInv, HolderInv,
     Released, Holder, Snapshot
<1> QED
  BY <1>1, <1>2, <1>3, <1>4, <1>5, <1>6, <1>7, <1>8, <1>9, <1>10, <1>11, <1>12 DEF Next, Step

\* The strengthened invariant holds in every state of CompareAndSetKeystoneCredential
\* and the operations that reconcile.
THEOREM Invariance == Spec => []IInv
  BY InitInv, NextInv, PTL DEF Spec

\* The records of the transition keep their types.
THEOREM TypeCorrect == Spec => []TypeOK
<1>1. IInv => TypeOK
  BY DEF IInv
<1> QED
  BY Invariance, <1>1, PTL

\* Stage, sign, promote and the status read never consult a credential whose change is
\* not in the audit log (reconcileKeystoneTrustBoundaryLocked); no crash or ambiguous
\* append makes ensurePendingKeystoneAuditLocked record a change twice, or one that did
\* not happen; a change that is not in the log is recoverable from the marker; and
\* reconcilePendingKeystoneTransitionLocked never meets its conflict error.
THEOREM KeystoneAlwaysAudited == Spec => []KeystoneAudited
<1>1. IInv => AuditBeforeUse
  BY DEF IInv, AuditBeforeUse, AuditExactlyOnce, UnauditedIsPending, HolderInv, TypeOK
<1>2. IInv => AuditExactlyOnce /\ UnauditedIsPending
  BY DEF IInv
<1>3. IInv => NeverConflicting
  BY DEF IInv, MarkerInv, NeverConflicting
<1>4. IInv => KeystoneAudited
  BY <1>1, <1>2, <1>3 DEF KeystoneAudited
<1> QED
  BY Invariance, <1>4, PTL
=============================================================================
