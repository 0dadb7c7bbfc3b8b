------------------------- MODULE MCPromoteRecovery -------------------------
(***************************************************************************)
(* StagedStore under fairness: operations are interrupted at most MaxFaults *)
(* times, an operation that is not interrupted ends, and the operator keeps *)
(* asking for the promote (the recovery path the error message names).      *)
(***************************************************************************)
EXTENDS StagedStore

CONSTANT MaxFaults  \* bound on crashes and I/O errors

VARIABLE faults

vars == <<storeVars, faults>>

Init == StoreInit /\ faults = 0

Step == StoreStep /\ UNCHANGED faults

Retry == PromoteStaged /\ UNCHANGED faults

Next ==
    \/ StoreCall /\ UNCHANGED faults
    \/ Step
    \/ Interrupt /\ faults < MaxFaults /\ faults' = faults + 1

Spec == Init /\ [][Next]_vars /\ WF_vars(Step) /\ WF_vars(Retry)

\* An interrupted promotion is finished by retrying it: no other caller can take
\* the retry away, whatever it asks of the store in between.
InterruptedPromotionCommits == Uncommitted ~> ~Uncommitted
=============================================================================
