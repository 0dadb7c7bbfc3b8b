----------------------------- MODULE FileBackend -----------------------------
(***************************************************************************)
(* filekv: one record of the JSON-on-disk backend, at the granularity of   *)
(* the system calls of internal/controller/filestore_io.go (the temp-file, *)
(* fsync, rename, fsync-directory writer), filestore_record.go (the pinned *)
(* parent, the validated descriptor, remove and open-for-append) and       *)
(* filestore_custody.go.  The file system is external and modelled by what *)
(* POSIX promises: a name or a content that was not fsynced may or may not *)
(* survive a power loss.                                                   *)
(*                                                                         *)
(* fs.mu admits one call at a time (`op').  A restore may meanwhile put    *)
(* another directory, or another file, at the path; a directory that was   *)
(* moved away does not come back.                                          *)
(***************************************************************************)
EXTENDS Naturals, FiniteSets

CONSTANTS Vals,        \* contents callers write
          Calls,       \* calls made: a subset of {"put", "del", "get", "append"}
          Dirs,        \* directory objects 1 .. n; 1 is the custody directory
          Unsafe,      \* those validateSecureStoreDir refuses
          Inodes,      \* inode numbers (reused once nothing refers to them)
          Foreign,     \* inodes a restore puts at the record's name
          Odd,         \* those of them that are not regular files of ours
          Fresh,       \* TRUE: the collection directory does not exist yet
          MaxFaults,   \* failing system calls
          MaxKills,    \* deaths of the process
          MaxCrashes   \* power losses

FileBackendAssumption ==
    /\ Foreign \subseteq Inodes /\ Odd \subseteq Foreign
    /\ 1 \in Dirs /\ Dirs \subseteq Nat \ {0} /\ 1 \notin Unsafe
    /\ Inodes \subseteq Nat \ {0}

VARIABLES path,    \* the directory object at the path, 0 when absent
          dirKept, \* the directory's own entry is on the disk
          names,   \* names[d]: the inode at the record's name in d, 0: none
          disk,    \* disk[d]: what names[d] may be after a power loss
          data,    \* what a read of each inode returns
          dur,     \* what fsync has made durable of it
          temps,   \* temporary files, as <<directory, inode>>
          op,      \* the call that holds fs.mu
          faults, kills, crashes,
          sworn,   \* history: what the record may be, by what was acknowledged
          last,    \* history: the kind of the last acknowledged write
          shown    \* history: records at the path since the call began

vars == <<path, dirKept, names, disk, data, dur, temps, op, faults, kills, crashes,
          sworn, last, shown>>

Absent == "absent"
Torn == "torn"
Idle == [call |-> "none", pc |-> "idle", val |-> Absent, try |-> 1, ptry |-> 1,
         pinfo |-> 0, dir |-> 0, finfo |-> 0, ino |-> 0]

storeFileOpenAttempts == 3

Content(i) == IF i = 0 THEN Absent ELSE data[i]

Init ==
    /\ path = IF Fresh THEN 0 ELSE 1
    /\ dirKept = ~Fresh
    /\ names = [d \in Dirs |-> 0] /\ disk = [d \in Dirs |-> {0}]
    /\ data = [i \in Inodes |-> "foreign"] /\ dur = data
    /\ temps = {} /\ op = Idle
    /\ faults = 0 /\ kills = 0 /\ crashes = 0
    /\ sworn = {Absent} /\ last = "none" /\ shown = {}

-----------------------------------------------------------------------------
Referenced ==
    {names[d] : d \in Dirs} \cup UNION {disk[d] : d \in Dirs}
    \cup {t[2] : t \in temps} \cup {op.finfo, op.ino} \cup Foreign

Unused == {i \in Inodes : i \notin Referenced}
NewInode == CHOOSE i \in Unused : TRUE

Idled == op' = Idle
At(pc) == op.pc = pc
Goto(pc) == op' = [op EXCEPT !.pc = pc]
Files == <<names, disk, data, dur, temps>>
Place == <<path, dirKept>>

\* The reply of a failed call: what it attempted may or may not have happened.
Error == Idled /\ UNCHANGED <<sworn, last>>

\* The reply of an acknowledged write that leaves the record at v.
Ack(v) == Idled /\ sworn' = {v} /\ last' = op.call

\* The bytes of the descriptor a read opened.
Reply == op' = [Idle EXCEPT !.ino = op.ino]

NotFound == Idled /\ UNCHANGED <<sworn, last>>

\* os.Remove(tmp) of the deferred clean-up, by pathname.
WithoutTemp == temps \ {<<path, op.ino>>}

-----------------------------------------------------------------------------
(* The call takes fs.mu.  tenantDir validates an existing directory;       *)
(* ensureTenantDir, of the two calls that write, creates a missing one.    *)

Begin(call, v) ==
    /\ At("idle") /\ call \in Calls
    /\ op' = [Idle EXCEPT !.call = call, !.pc = "dir", !.val = v]
    /\ sworn' = IF call = "get" THEN sworn ELSE sworn \cup {v}
    /\ UNCHANGED <<Place, Files, last>>

ensureTenantDir ==
    /\ At("dir")
    /\ \/ path \in Unsafe /\ Error /\ UNCHANGED Place
       \/ path = 0 /\ op.call \in {"put", "append"}
          /\ 1 \notin Unsafe /\ path' = 1 /\ dirKept' = FALSE
          /\ Goto(IF op.call = "put" THEN "check" ELSE "parent")
          /\ UNCHANGED <<sworn, last>>
       \/ path \notin Unsafe /\ (path = 0 => op.call \in {"get", "del"})
          /\ Goto(IF op.call = "put" THEN "check" ELSE "parent")
          /\ UNCHANGED <<Place, sworn, last>>
    /\ UNCHANGED Files

-----------------------------------------------------------------------------
(* writeBytesDurable. *)

SecureDir == path # 0 /\ path \notin Unsafe

CreateTemp ==
    /\ At("check")
    /\ \/ ~SecureDir /\ Error /\ UNCHANGED Files
       \/ SecureDir /\ Unused # {}
          /\ op' = [op EXCEPT !.pc = "write", !.dir = path, !.ino = NewInode]
          /\ temps' = temps \cup {<<path, NewInode>>}
          /\ data' = [data EXCEPT ![NewInode] = Torn]
          /\ dur' = [dur EXCEPT ![NewInode] = Torn]
          /\ UNCHANGED <<names, disk, sworn, last>>
    /\ UNCHANGED Place

WriteTemp ==
    /\ At("write") /\ Goto("sync")
    /\ data' = [data EXCEPT ![op.ino] = op.val]
    /\ UNCHANGED <<Place, names, disk, dur, temps, sworn, last>>

SyncTemp ==
    /\ At("sync") /\ Goto("install")
    /\ dur' = [dur EXCEPT ![op.ino] = data[op.ino]]
    /\ UNCHANGED <<Place, names, disk, data, temps, sworn, last>>

replaceStoreFileAtomic ==
    /\ At("install")
    /\ \/ SecureDir /\ path = op.dir /\ Goto("dirsync")
          /\ names' = [names EXCEPT ![path] = op.ino]
          /\ disk' = [disk EXCEPT ![path] = @ \cup {op.ino}]
          /\ temps' = temps \ {<<path, op.ino>>}
          /\ UNCHANGED <<sworn, last>>
       \/ ~(SecureDir /\ path = op.dir) /\ Error
          /\ temps' = WithoutTemp /\ UNCHANGED <<names, disk>>
    /\ UNCHANGED <<Place, data, dur>>

syncDirectorySkipped ==
    /\ At("dirsync") /\ Ack(op.val)
    /\ UNCHANGED <<Place, Files>>

syncStoreDirectory ==
    /\ At("dirsync") 
    /\ \/ path # 0 /\ Ack(op.val) /\ disk' = [disk EXCEPT ![path] = {names[path]}]
       \/ path = 0 /\ Error /\ UNCHANGED disk
    /\ UNCHANGED <<Place, names, data, dur, temps>>

-----------------------------------------------------------------------------
(* openSecureStoreParent: the directory is inspected, opened, and inspected *)
(* again; one that changed meanwhile is opened again, three times at most.  *)

RetryParent ==
    IF op.ptry < storeFileOpenAttempts
    THEN op' = [op EXCEPT !.pc = "parent", !.ptry = @ + 1]
    ELSE op' = Idle

InspectParent ==
    /\ At("parent")
    /\ \/ path = 0 /\ op.call = "get" /\ NotFound
       \/ path = 0 /\ op.call = "del" /\ Ack(Absent)
       \/ path = 0 /\ op.call = "append" /\ Error
       \/ path \in Unsafe /\ Error
       \/ SecureDir /\ op' = [op EXCEPT !.pc = "openroot", !.pinfo = path]
          /\ UNCHANGED <<sworn, last>>
    /\ UNCHANGED <<Place, Files>>

OpenRoot ==
    /\ At("openroot")
    /\ \/ ~SecureDir /\ Error
       \/ SecureDir /\ op' = [op EXCEPT !.pc = "reparent", !.dir = path]
          /\ UNCHANGED <<sworn, last>>
    /\ UNCHANGED <<Place, Files>>

ReinspectParent ==
    /\ At("reparent")
    /\ \/ path \in Unsafe /\ Error
       \/ path \notin Unsafe /\ ~(path = op.dir /\ op.pinfo = op.dir)
          /\ RetryParent /\ UNCHANGED <<sworn, last>>
       \/ path = op.dir /\ op.pinfo = op.dir /\ Goto("file")
          /\ UNCHANGED <<sworn, last>>
    /\ UNCHANGED <<Place, Files>>

-----------------------------------------------------------------------------
(* The record, relative to the pinned directory: openExistingStoreFile     *)
(* (get, and append to a log that exists) and removeStoreFile share the    *)
(* inspect, open, inspect again sequence and differ in what a missing or   *)
(* changed record means to them.                                           *)

Here == names[op.dir]

validateStoreFileInfo(i) == i \notin Odd

RetryFile ==
    IF op.call = "del" \/ op.try = storeFileOpenAttempts
    THEN op' = Idle
    ELSE op' = [op EXCEPT !.pc = "parent", !.try = @ + 1, !.ptry = 1,
                          !.pinfo = 0, !.dir = 0, !.finfo = 0, !.ino = 0]

InspectFile ==
    /\ At("file")
    /\ \/ Here = 0 /\ op.call = "get" /\ NotFound
       \/ Here = 0 /\ op.call = "del" /\ Ack(Absent)
       \/ Here = 0 /\ op.call = "append" /\ Goto("create") /\ UNCHANGED <<sworn, last>>
       \/ Here # 0 /\ ~validateStoreFileInfo(Here) /\ Error
       \/ Here # 0 /\ validateStoreFileInfo(Here)
          /\ op' = [op EXCEPT !.pc = "open", !.finfo = Here]
          /\ UNCHANGED <<sworn, last>>
    /\ UNCHANGED <<Place, Files>>

OpenFile ==
    /\ At("open")
    /\ \/ Here = 0 /\ Error
       \/ Here # 0 /\ ~validateStoreFileInfo(Here) /\ Error
       \/ Here # 0 /\ validateStoreFileInfo(Here)
          /\ op' = [op EXCEPT !.pc = "refile", !.ino = Here]
          /\ UNCHANGED <<sworn, last>>
    /\ UNCHANGED <<Place, Files>>

ReinspectFile ==
    /\ At("refile")
    /\ \/ Here = 0 /\ op.call = "del" /\ Ack(Absent)
       \/ Here # 0 /\ ~validateStoreFileInfo(Here) /\ Error
       \/ (Here = 0 => op.call # "del") /\ (Here # 0 => validateStoreFileInfo(Here))
          /\ ~(Here = op.ino /\ op.finfo = op.ino)
          /\ RetryFile /\ UNCHANGED <<sworn, last>>
       \/ Here # 0 /\ validateStoreFileInfo(Here) /\ Here = op.ino /\ op.finfo = op.ino
          /\ Goto(IF op.call = "del" THEN "unlink" ELSE "recheck")
          /\ UNCHANGED <<sworn, last>>
    /\ UNCHANGED <<Place, Files>>

\* revalidateOpenedStoreParent, then the read or the append of the caller.
revalidateOpenedStoreParent ==
    /\ At("recheck")
    /\ \/ path # op.dir /\ Error
       \/ path = op.dir /\ op.call = "get" /\ Reply /\ UNCHANGED <<sworn, last>>
       \/ path = op.dir /\ op.call = "append" /\ Goto("append") /\ UNCHANGED <<sworn, last>>
    /\ UNCHANGED <<Place, Files>>

-----------------------------------------------------------------------------
(* removeStoreFile: unlink, sync the pinned directory, revalidate.         *)

Unlink ==
    /\ At("unlink")
    /\ \/ Here = 0 /\ Ack(Absent) /\ UNCHANGED <<names, disk>>
       \/ Here # 0 /\ Goto("unsync") /\ UNCHANGED <<sworn, last>>
          /\ names' = [names EXCEPT ![op.dir] = 0]
          /\ disk' = [disk EXCEPT ![op.dir] = @ \cup {0}]
    /\ UNCHANGED <<Place, data, dur, temps>>

syncOpenedStoreDirectory ==
    /\ At("unsync")
    /\ disk' = [disk EXCEPT ![op.dir] = {names[op.dir]}]
    /\ IF path = op.dir THEN Ack(Absent) ELSE Error
    /\ UNCHANGED <<Place, names, data, dur, temps>>

-----------------------------------------------------------------------------
(* openStoreFileForAppend of a log that does not exist yet: O_EXCL, then   *)
(* the descriptor is compared with the name, then file and directory are   *)
(* synced before the first line is written.                                *)

CreateLog ==
    /\ At("create")
    /\ \/ Here # 0 /\ RetryFile /\ UNCHANGED Files
       \/ Here = 0 /\ Unused # {}
          /\ op' = [op EXCEPT !.pc = "created", !.ino = NewInode]
          /\ names' = [names EXCEPT ![op.dir] = NewInode]
          /\ disk' = [disk EXCEPT ![op.dir] = @ \cup {NewInode}]
          /\ data' = [data EXCEPT ![NewInode] = Absent]
          /\ dur' = [dur EXCEPT ![NewInode] = Absent]
          /\ UNCHANGED temps
    /\ UNCHANGED <<Place, sworn, last>>

CheckLog ==
    /\ At("created")
    /\ \/ Here = op.ino /\ path = op.dir /\ Goto("logsync")
       \/ Here = op.ino /\ path # op.dir /\ op' = Idle
       \/ Here # op.ino /\ RetryFile
    /\ UNCHANGED <<Place, Files, sworn, last>>

SyncLog ==
    /\ At("logsync")
    /\ disk' = [disk EXCEPT ![op.dir] = {names[op.dir]}]
    /\ IF path = op.dir THEN Goto("append") /\ UNCHANGED <<sworn, last>> ELSE Error
    /\ UNCHANGED <<Place, names, data, dur, temps>>

\* appendAudit: the line, then Sync of the descriptor.
AppendLine ==
    /\ At("append") /\ Goto("appended")
    /\ data' = [data EXCEPT ![op.ino] = op.val]
    /\ UNCHANGED <<Place, names, disk, dur, temps, sworn, last>>

AppendSync ==
    /\ At("appended") /\ Ack(op.val)
    /\ dur' = [dur EXCEPT ![op.ino] = data[op.ino]]
    /\ UNCHANGED <<Place, names, disk, data, temps>>

-----------------------------------------------------------------------------
Call ==
    \/ ensureTenantDir \/ CreateTemp \/ WriteTemp \/ SyncTemp
    \/ replaceStoreFileAtomic \/ syncStoreDirectory
    \/ InspectParent \/ OpenRoot \/ ReinspectParent
    \/ InspectFile \/ OpenFile \/ ReinspectFile \/ revalidateOpenedStoreParent
    \/ Unlink \/ syncOpenedStoreDirectory
    \/ CreateLog \/ CheckLog \/ SyncLog \/ AppendLine \/ AppendSync

\* A system call of the operation fails: the call returns its error, the
\* writer's deferred clean-up having removed a temporary file.
Fault ==
    /\ faults < MaxFaults /\ ~At("idle") /\ ~At("dir")
    /\ faults' = faults + 1 /\ Error
    /\ temps' = IF op.call = "put" THEN WithoutTemp ELSE temps
    /\ UNCHANGED <<Place, names, disk, data, dur, kills, crashes>>

\* The process dies; the kernel keeps everything.
Kill ==
    /\ kills < MaxKills /\ ~At("idle") /\ kills' = kills + 1
    /\ Idled /\ UNCHANGED <<Place, Files, faults, crashes, sworn, last>>

\* The machine dies: of names and contents that were never synced, any may
\* survive.  What the record is afterwards is what it is from then on.
PowerLoss ==
    /\ crashes < MaxCrashes /\ crashes' = crashes + 1
    /\ Idled /\ UNCHANGED <<faults, kills, last>>
    /\ dirKept' = TRUE
    /\ path' \in {path} \cup IF dirKept THEN {} ELSE {0}
    /\ \E n \in [Dirs -> Inodes \cup {0}] :
          /\ \A d \in Dirs : n[d] \in IF path' = 0 THEN {0} ELSE disk[d]
          /\ names' = n /\ disk' = [d \in Dirs |-> {n[d]}]
    /\ \E kept \in SUBSET {i \in Inodes : data[i] # dur[i]} :
          data' = [i \in Inodes |-> IF i \in kept THEN data[i] ELSE dur[i]]
    /\ dur' = data' /\ temps' \in SUBSET temps
    /\ sworn' = {IF path' = 0 \/ names'[1] = 0 THEN Absent ELSE data'[names'[1]]}

\* A restore renames another file onto the record's name, or puts a directory
\* that was not there before at the path.
RestoreFile(i) ==
    /\ path # 0 /\ i \in Foreign /\ i # names[path]
    /\ names' = [names EXCEPT ![path] = i] /\ disk' = [disk EXCEPT ![path] = {i}]
    /\ UNCHANGED <<Place, data, dur, temps, op, faults, kills, crashes, sworn, last>>

RestoreDir(d) ==
    /\ path # 0 /\ d \in Dirs /\ d > path /\ path' = d
    /\ UNCHANGED <<dirKept, Files, op, faults, kills, crashes, sworn, last>>

\* A file is replaced in a directory that was moved away.
ElsewhereFile(d, i) ==
    /\ d \in Dirs /\ d < path /\ i \in Foreign /\ i # names[d]
    /\ names' = [names EXCEPT ![d] = i] /\ disk' = [disk EXCEPT ![d] = {i}]
    /\ UNCHANGED <<Place, data, dur, temps, op, faults, kills, crashes, sworn, last>>

Observe ==
    LET now == IF path' = 0 THEN 0 ELSE names'[path']
    IN  shown' = IF ~At("idle") THEN shown \cup {now}
                 ELSE IF op'.pc = "dir" THEN {now} ELSE shown

Next ==
    /\ \/ (\E v \in Vals : \E c \in {"put", "append"} : Begin(c, v)) /\ UNCHANGED <<faults, kills, crashes>>
       \/ (\E c \in {"get", "del"} : Begin(c, Absent)) /\ UNCHANGED <<faults, kills, crashes>>
       \/ Call /\ UNCHANGED <<faults, kills, crashes>>
       \/ Fault \/ Kill \/ PowerLoss
       \/ \E i \in Foreign : RestoreFile(i)
       \/ \E d \in Dirs : RestoreDir(d)
       \/ \E d \in Dirs, i \in Foreign : ElsewhereFile(d, i)
    /\ Observe

Spec == Init /\ [][Next]_vars

\* The goroutine that holds fs.mu runs; nothing else is assumed.
FairSpec == Spec /\ WF_vars(Call /\ UNCHANGED <<faults, kills, crashes>> /\ Observe)

-----------------------------------------------------------------------------
(* What the record may turn out to be if power fails now. *)

Survivors ==
    UNION {IF i = 0 THEN {Absent} ELSE {data[i], dur[i]} : i \in disk[1]}
    \cup IF dirKept \/ path = 0 THEN {} ELSE {Absent}

\* The three attempts bound every call, however often the record and its
\* directory are replaced under it: fs.mu is always released.
Returns == ~At("idle") ~> At("idle")

\* Once writeBytesDurable, a removal (the staged-set seal is invalidated that way) or an
\* append has returned, a power loss brings back what it left or what a later call wrote
\* or began to write, whole: never a torn file and never an older record.  With failing
\* system calls this is so of a put; an append does not sync again the name of a file
\* whose creation failed half way.
Durable(calls) == last \in calls => Survivors \subseteq sworn

\* readStoreFile: the file a read returns was the record at the path at some
\* moment of that read, although files and directories were being replaced.
ReadLinear == At("idle") /\ op.ino # 0 => op.ino \in shown
=============================================================================
