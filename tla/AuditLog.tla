----------------------------- MODULE AuditLog -----------------------------
(***************************************************************************)
(* One tenant's hash-chained audit log in the file store                    *)
(* (internal/controller/filestore_audit.go, audit.go): a JSONL file that    *)
(* grows by bare appends, a cached tail that chains the next entry, a       *)
(* rotation at a high-water mark and the migration of the older array file. *)
(*                                                                         *)
(* The file is a sequence of lines.  An append that a crash or an I/O error *)
(* cuts short can leave a part of its line, the whole JSON text without its *)
(* newline, or the whole line; which of these happen is a constant.  The    *)
(* hash of an entry is identified with the number of the append that made   *)
(* it, so different contents have different hashes.                         *)
(***************************************************************************)
EXTENDS Naturals, SequencesExt

CONSTANTS
    auditRetain, auditRotateAt,
    CrashLeaves,  \* what a crash inside an append can leave of its line
    ErrorLeaves,  \* what an append that returns an error can leave of it
    MaxAppends,   \* bound on appends
    MaxFaults,    \* bound on crashes, errors and failed rotations
    None

Leftover == {"nothing", "part", "json", "line"}

AuditAssumption ==
    /\ auditRetain \in Nat \ {0}
    /\ auditRotateAt \in Nat /\ auditRetain < auditRotateAt
    /\ CrashLeaves \subseteq Leftover /\ ErrorLeaves \subseteq Leftover
    /\ MaxAppends \in Nat /\ MaxFaults \in Nat

VARIABLES
    file,     \* audit.jsonl: its lines, or None
    legacy,   \* audit.json: its entries, or None
    tail,     \* auditTails[t], or None
    appends,  \* how many appends have built an entry
    faults,   \* how many faults have happened
    acked     \* history: the entries AppendAudit has returned without error

vars == <<file, legacy, tail, appends, faults, acked>>

-----------------------------------------------------------------------------
\* A line: an entry, or text that does not parse; ended says the newline is there.
\* The first fragment of a line is "part", two lines run together are "joined".
Entry(seq, prev, hash) == [text |-> "entry", seq |-> seq, prev |-> prev, hash |-> hash]
Malformed(text) == [text |-> text, seq |-> 0, prev |-> 0, hash |-> 0]
Line(e, ended) == [entry |-> e, ended |-> ended]

Lines == IF file = None THEN <<>> ELSE file

\* O_APPEND of a line, or of what is left of one: it continues an unended last line.
Extend(lines, e, ended) ==
    IF lines # <<>> /\ ~Last(lines).ended
    THEN Append(Front(lines), Line(Malformed("joined"), ended))
    ELSE Append(lines, Line(e, ended))

Leave(lines, e, left) ==
    CASE left = "nothing" -> lines
      [] left = "part" -> Extend(lines, Malformed("part"), FALSE)
      [] left = "json" -> Extend(lines, e, FALSE)
      [] left = "line" -> Extend(lines, e, TRUE)

\* readAuditJSONL: a malformed last line is dropped, one before it is an error.
parses(lines) == \A i \in 1 .. Len(lines) - 1 : lines[i].entry.text = "entry"
tornTail(lines) == lines # <<>> /\ Last(lines).entry.text # "entry"
readAuditJSONL(lines) ==
    LET kept == IF tornTail(lines) THEN Front(lines) ELSE lines
    IN [i \in 1 .. Len(kept) |-> kept[i].entry]

\* writeAuditJSONL.
writeAuditJSONL(entries) == [i \in 1 .. Len(entries) |-> Line(entries[i], TRUE)]

\* Mutant: the torn tail gets its newline.
Ended(lines) ==
    IF lines = <<>> THEN lines
    ELSE Append(Front(lines), [Last(lines) EXCEPT !.ended = TRUE])

\* loadAuditTail's rewrite of a file with a torn tail.
Healed(lines) ==
    IF tornTail(lines) THEN writeAuditJSONL(readAuditJSONL(lines)) ELSE lines

\* readAudit / listAudit, when it does not fail.
ListAudit ==
    IF file # None THEN readAuditJSONL(file) ELSE IF legacy # None THEN legacy ELSE <<>>

\* VerifyAuditChain = -1, for entries whose own hashes recompute.
VerifyAuditChain(entries) ==
    \A i \in 2 .. Len(entries) : entries[i].prev = entries[i - 1].hash

\* The youngest auditRetain entries.
Kept(entries) == SubSeq(entries, Len(entries) - auditRetain + 1, Len(entries))

\* rotateAudit: the lines and the count it leaves.
rotateAudit(lines, count) ==
    LET entries == readAuditJSONL(lines)
        n == Len(entries)
    IN IF ~parses(lines) THEN [lines |-> lines, count |-> count]
       ELSE IF n <= auditRetain THEN [lines |-> lines, count |-> n]
       ELSE [lines |-> writeAuditJSONL(Kept(entries)),
             count |-> auditRetain]

-----------------------------------------------------------------------------
\* The entry appendAudit builds on the cached tail.
NextEntry == Entry(tail.seq + 1, tail.hash, appends + 1)

\* The append reaches the high-water mark.
Rotates == tail.count + 1 > auditRotateAt

\* loadAuditTail, first part: the array file becomes the JSONL file.  The array may
\* stay behind, if a crash or an error comes before its removal.
MigrateLegacy ==
    /\ tail = None
    /\ file = None
    /\ legacy # None
    /\ file' = writeAuditJSONL(legacy)
    /\ legacy' \in {None, legacy}
    /\ UNCHANGED <<tail, appends, faults, acked>>

\* loadAuditTail, second part: drop a torn tail and cache the last entry.
LoadAuditTail ==
    LET entries == readAuditJSONL(Lines) IN
    /\ tail = None
    /\ file # None \/ legacy = None
    /\ parses(Lines)
    /\ file' = IF file = None THEN None ELSE Healed(file)
    /\ tail' = [seq |-> IF entries = <<>> THEN 0 ELSE Last(entries).seq,
                hash |-> IF entries = <<>> THEN 0 ELSE Last(entries).hash,
                count |-> Len(entries)]
    /\ UNCHANGED <<legacy, appends, faults, acked>>

\* appendAudit once its tail is loaded, with the rotation it ends with; a rotation
\* that fails is ignored.
AppendAudit ==
    LET lines == Extend(Lines, NextEntry, TRUE)
        kept == [lines |-> lines, count |-> tail.count + 1]
        rotated == rotateAudit(lines, tail.count + 1)
    IN
    /\ tail # None
    /\ appends < MaxAppends
    /\ appends' = appends + 1
    /\ acked' = Append(acked, NextEntry)
    /\ \E out \in {kept, rotated} :
         /\ ~Rotates => out = kept
         /\ Rotates /\ out # rotated => faults < MaxFaults
         /\ faults' = IF Rotates /\ out # rotated THEN faults + 1 ELSE faults
         /\ file' = out.lines
         /\ tail' = [seq |-> NextEntry.seq, hash |-> NextEntry.hash, count |-> out.count]
    /\ UNCHANGED legacy

\* appendAudit returns an error; the cached tail stays as it was.
AppendFails ==
    /\ tail # None
    /\ appends < MaxAppends
    /\ faults < MaxFaults
    /\ appends' = appends + 1
    /\ faults' = faults + 1
    /\ \E left \in ErrorLeaves : file' = Leave(Lines, NextEntry, left)
    /\ UNCHANGED <<legacy, tail, acked>>

\* The process stops inside an append and starts again.
Crash ==
    /\ tail # None
    /\ appends < MaxAppends
    /\ faults < MaxFaults
    /\ appends' = appends + 1
    /\ faults' = faults + 1
    /\ tail' = None
    /\ \E left \in CrashLeaves : file' = Leave(Lines, NextEntry, left)
    /\ UNCHANGED <<legacy, acked>>

\* It stops and starts between appends.
Restart ==
    /\ tail # None
    /\ tail' = None
    /\ UNCHANGED <<file, legacy, appends, faults, acked>>

\* A new tenant, or one with an array file of a few entries.
Init ==
    /\ file = None
    /\ appends \in 0 .. auditRetain
    /\ acked = [i \in 1 .. appends |-> Entry(i, i - 1, i)]
    /\ legacy = IF appends = 0 THEN None ELSE acked
    /\ tail = None
    /\ faults = 0

Next == MigrateLegacy \/ LoadAuditTail \/ AppendAudit \/ AppendFails \/ Crash \/ Restart

Spec == Init /\ [][Next]_vars

-----------------------------------------------------------------------------

\* "The log stays readable AND appendable": whatever an append left behind, the next
\* one never turns it into a malformed line inside the file; the listed entries are a
\* hash chain with consecutive Seq; and an acknowledged entry that is not listed has
\* been rotated out, behind auditRetain younger ones.
LogVerifies ==
    LET entries == ListAudit IN
    /\ parses(Lines)
    /\ VerifyAuditChain(entries)
    /\ \A i \in 2 .. Len(entries) : entries[i].seq = entries[i - 1].seq + 1
    /\ \A i \in 1 .. Len(acked) :
          \/ Contains(entries, acked[i])
          \/ Len(entries) >= auditRetain /\ acked[i].hash < entries[1].hash
=============================================================================
