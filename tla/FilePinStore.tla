---------------------------- MODULE FilePinStore ----------------------------
(***************************************************************************)
(* FilePinStore: a pin document held in memory and persisted to one file by   *)
(* writing <path>.tmp, syncing it and renaming it over the path.  Handles on   *)
(* one path, in one process or in several, share the directory and nothing     *)
(* else.  A system call is one step; a process may die, and the machine may     *)
(* lose power, between any two of them.                                        *)
(*                                                                         *)
(* The file system is external to the repository: inodes with the data written  *)
(* and the data that reached the disk, and a directory with the two entries      *)
(* the code uses.  A directory entry reaches the disk some time after it changes; *)
(* sync_all forces the data of the file only.                                 *)
(***************************************************************************)
EXTENDS Integers, Sequences

CONSTANTS
    Handle,   \* FilePinStore values on the path
    Writers,  \* those that call flush
    Doc,      \* pin documents: the pins and the catalog hash
    EmptyDoc, \* no pins and no catalog hash
    Inode,    \* files the directory may name
    NoInode,  \* no such entry
    Parts,    \* write calls it takes to write a document
    External, \* contents the file may have had before, made by someone else
    Absent,   \* what `open` sees when there is no file
    Damaged   \* what it sees when the file is no document

ASSUME FileAssumption ==
    /\ Writers \subseteq Handle
    /\ EmptyDoc \in Doc
    /\ NoInode \notin Inode
    /\ Parts \in Nat \ {0}
    /\ Absent \notin Doc /\ Damaged \notin Doc /\ Absent # Damaged

VARIABLES
    path,   \* the inode the directory names <path>, or NoInode
    tmp,    \* the inode it names <path>.tmp, or NoInode
    dpath,  \* the same two entries as they are on the disk
    dtmp,
    data,   \* the contents of each inode, as processes see it
    synced, \* the contents of each inode that reached the disk
    pc,     \* of each handle: where it is in `open` or `flush`
    mem,    \* the document each handle holds in memory
    fd,     \* the file each handle has open
    off,    \* how many parts of the document its `flush` has written
    reply   \* what its last call returned

entries == <<path, tmp, dpath, dtmp>>
vars == <<path, tmp, dpath, dtmp, data, synced, pc, mem, fd, off, reply>>

-----------------------------------------------------------------------------
(* File contents. *)

\* Parts that no document has.
Hole == <<"hole", 0>>             \* zeros, where nothing was written
NoMembers == <<"noMembers", 0>>   \* JSON such as {}, [] or 5
BadMembers == <<"badMembers", 0>> \* `pins` or `catalog_hash` of another type
NotJson == <<"notJson", 0>>

Part == (Doc \X (1..Parts)) \cup {Hole, NoMembers, BadMembers, NotJson}

ASSUME ExternalAssumption == \A c \in External : c \in Seq(Part)

\* The serialized document, in the parts write_all hands to the system.
Bytes(d) == [k \in 1..Parts |-> <<d, k>>]

\* A part written at offset o, over a hole if the file ends before it.
WriteAt(s, o, part) ==
    [k \in 1..(IF Len(s) > o THEN Len(s) ELSE o + 1) |->
        IF k = o + 1 THEN part ELSE IF k <= Len(s) THEN s[k] ELSE Hole]

IsDoc(s) == \E d \in Doc : s = Bytes(d)

\* What `open` makes of the contents of the file.  `parse_pins` and
\* `parse_catalog_hash` take a missing member, or null, for an empty one.
Parse(s) == IF IsDoc(s) THEN CHOOSE d \in Doc : s = Bytes(d)
            ELSE IF s = <<NoMembers>> THEN EmptyDoc
            ELSE Damaged

-----------------------------------------------------------------------------
TypeOK ==
    /\ path \in Inode \cup {NoInode} /\ tmp \in Inode \cup {NoInode}
    /\ dpath \in Inode \cup {NoInode} /\ dtmp \in Inode \cup {NoInode}
    /\ data \in [Inode -> Seq(Part)]
    /\ synced \in [Inode -> Seq(Part)]
    /\ pc \in [Handle -> {"closed", "reading", "ready", "create", "write", "sync", "rename"}]
    /\ mem \in [Handle -> Doc]
    /\ fd \in [Handle -> Inode \cup {NoInode}]
    /\ off \in [Handle -> 0..Parts]
    /\ \A h \in Handle :
        /\ pc[h] \in {"closed", "reading", "ready", "create"} => off[h] = 0
        /\ pc[h] = "write" => off[h] < Parts
    /\ reply \in [Handle -> {"none", "Opened", "Flushed", "InvalidData", "IoError"}]

Init ==
    /\ \E n \in Inode, c \in {Bytes(d) : d \in Doc} \cup External :
         \/ path = NoInode /\ data = [m \in Inode |-> <<>>]
         \/ path = n /\ data = [m \in Inode |-> IF m = n THEN c ELSE <<>>]
    /\ tmp = NoInode
    /\ dpath = path
    /\ dtmp = tmp
    /\ synced = data
    /\ pc = [h \in Handle |-> "closed"]
    /\ mem = [h \in Handle |-> EmptyDoc]
    /\ fd = [h \in Handle |-> NoInode]
    /\ off = [h \in Handle |-> 0]
    /\ reply = [h \in Handle |-> "none"]

\* A file that no entry names and no handle has open is gone.
Live == {path, tmp, dpath, dtmp} \cup {fd[h] : h \in Handle}
Kept(contents) == [n \in Inode |-> IF n \in Live' THEN contents[n] ELSE <<>>]
Reclaim == data' = Kept(data) /\ synced' = Kept(synced)

Goto(h, l) == pc' = [pc EXCEPT ![h] = l]

\* Mutant of Return: the offset outlives the call.
Return_KeepsOffset(h, l, r) ==
    /\ Goto(h, l)
    /\ fd' = [fd EXCEPT ![h] = NoInode]
    /\ reply' = [reply EXCEPT ![h] = r]
    /\ UNCHANGED off

\* An error or success returned to the host; the file is closed.
Return(h, l, r) ==
    /\ Goto(h, l)
    /\ fd' = [fd EXCEPT ![h] = NoInode]
    /\ off' = [off EXCEPT ![h] = 0]
    /\ reply' = [reply EXCEPT ![h] = r]

-----------------------------------------------------------------------------
(* FilePinStore::open, and the in-memory mutators. *)

\* fs::read finds no file.
OpenAbsent(h) ==
    /\ pc[h] = "closed"
    /\ path = NoInode
    /\ Return(h, "ready", "Opened")
    /\ UNCHANGED <<entries, data, synced, mem>>

\* fs::read opens the file; a rename after this does not change what it reads.
OpenFile(h) ==
    /\ pc[h] = "closed"
    /\ path # NoInode
    /\ Goto(h, "reading")
    /\ fd' = [fd EXCEPT ![h] = path]
    /\ reply' = [reply EXCEPT ![h] = "none"]
    /\ UNCHANGED <<entries, data, synced, mem, off>>

ReadFile(h) ==
    /\ pc[h] = "reading"
    /\ Parse(data[fd[h]]) # Damaged
    /\ mem' = [mem EXCEPT ![h] = Parse(data[fd[h]])]
    /\ Return(h, "ready", "Opened")
    /\ UNCHANGED entries
    /\ Reclaim

\* Mutant of RejectFile: a damaged file is taken for an empty one.
RejectFile_StartsEmpty(h) ==
    /\ pc[h] = "reading"
    /\ Parse(data[fd[h]]) = Damaged
    /\ Return(h, "ready", "Opened")
    /\ UNCHANGED <<entries, mem>>
    /\ Reclaim

RejectFile(h) ==
    /\ pc[h] = "reading"
    /\ Parse(data[fd[h]]) = Damaged
    /\ Return(h, "closed", "InvalidData")
    /\ UNCHANGED <<entries, mem>>
    /\ Reclaim

\* Any other error of fs::read.
ReadFails(h) ==
    /\ pc[h] \in {"closed", "reading"}
    /\ Return(h, "closed", "IoError")
    /\ UNCHANGED <<entries, mem>>
    /\ Reclaim

\* `set`, `remove` and `set_catalog_hash`: memory only.  Only what a handle
\* that flushes holds can matter to another.
Update(h, d) ==
    /\ h \in Writers
    /\ pc[h] = "ready"
    /\ d # mem[h]
    /\ mem' = [mem EXCEPT ![h] = d]
    /\ reply' = [reply EXCEPT ![h] = "none"]
    /\ UNCHANGED <<entries, data, synced, pc, fd, off>>

-----------------------------------------------------------------------------
(* FilePinStore::flush. *)

Flush(h) ==
    /\ h \in Writers
    /\ pc[h] = "ready"
    /\ Goto(h, "create")
    /\ reply' = [reply EXCEPT ![h] = "none"]
    /\ UNCHANGED <<entries, data, synced, mem, fd, off>>

\* Mutant of Create: a temporary file that is there is not truncated.
Create_NoTruncate(h) ==
    /\ pc[h] = "create"
    /\ \E n \in Inode :
         /\ IF tmp = NoInode THEN n \notin Live ELSE n = tmp
         /\ tmp' = n
         /\ fd' = [fd EXCEPT ![h] = n]
    /\ Goto(h, "write")
    /\ UNCHANGED <<path, dpath, dtmp, data, synced, mem, off, reply>>

\* File::create: a new file, or the one that is there, truncated.
Create(h) ==
    /\ pc[h] = "create"
    /\ \E n \in Inode :
         /\ IF tmp = NoInode THEN n \notin Live ELSE n = tmp
         /\ tmp' = n
         /\ data' = [data EXCEPT ![n] = <<>>]
         /\ fd' = [fd EXCEPT ![h] = n]
    /\ Goto(h, "write")
    /\ UNCHANGED <<path, dpath, dtmp, synced, mem, off, reply>>

\* One write call of write_all, at the offset of this handle's file.
Write(h) ==
    /\ pc[h] = "write"
    /\ data' = [data EXCEPT ![fd[h]] = WriteAt(@, off[h], <<mem[h], off[h] + 1>>)]
    /\ off' = [off EXCEPT ![h] = @ + 1]
    /\ Goto(h, IF off[h] + 1 = Parts THEN "sync" ELSE "write")
    /\ UNCHANGED <<entries, synced, mem, fd, reply>>

\* Mutant of SyncAll: the file is closed without a sync.
SyncAll_Skipped(h) ==
    /\ pc[h] = "sync"
    /\ Goto(h, "rename")
    /\ fd' = [fd EXCEPT ![h] = NoInode]
    /\ UNCHANGED <<entries, mem, off, reply>>
    /\ Reclaim

SyncAll(h) ==
    /\ pc[h] = "sync"
    /\ Goto(h, "rename")
    /\ fd' = [fd EXCEPT ![h] = NoInode]
    /\ UNCHANGED <<entries, mem, off, reply>>
    /\ data' = Kept(data)
    /\ synced' = Kept([synced EXCEPT ![fd[h]] = data[fd[h]]])

Rename(h) ==
    /\ pc[h] = "rename"
    /\ tmp # NoInode
    /\ path' = tmp
    /\ tmp' = NoInode
    /\ Return(h, "ready", "Flushed")
    /\ UNCHANGED <<dpath, dtmp, mem>>
    /\ Reclaim

\* Mutant of FlushFails: the error is swallowed.
FlushFails_Swallowed(h) ==
    /\ pc[h] \in {"create", "write", "sync", "rename"}
    /\ Return(h, "ready", "Flushed")
    /\ UNCHANGED <<entries, mem>>
    /\ Reclaim

\* Any call of flush may return an error, which flush returns; rename does
\* when the temporary file is not there.
FlushFails(h) ==
    /\ pc[h] \in {"create", "write", "sync", "rename"}
    /\ Return(h, "ready", "IoError")
    /\ UNCHANGED <<entries, mem>>
    /\ Reclaim

-----------------------------------------------------------------------------
(* Restarts. *)

\* The process dies, or drops its handle: memory is lost, the files stay.
Crash(h) ==
    /\ pc[h] # "closed"
    /\ Return(h, "closed", "none")
    /\ mem' = [mem EXCEPT ![h] = EmptyDoc]
    /\ UNCHANGED entries
    /\ Reclaim

\* The system writes a file, or the directory, to the disk on its own.
WriteBack(n) ==
    /\ synced[n] # data[n]
    /\ synced' = [synced EXCEPT ![n] = data[n]]
    /\ UNCHANGED <<entries, data, pc, mem, fd, off, reply>>

WriteBackEntries ==
    /\ <<dpath, dtmp>> # <<path, tmp>>
    /\ dpath' = path
    /\ dtmp' = tmp
    /\ UNCHANGED <<path, tmp, pc, mem, fd, off, reply>>
    /\ Reclaim

\* The machine comes back with what reached the disk.
PowerLoss ==
    /\ path' = dpath
    /\ tmp' = dtmp
    /\ pc' = [h \in Handle |-> "closed"]
    /\ mem' = [h \in Handle |-> EmptyDoc]
    /\ fd' = [h \in Handle |-> NoInode]
    /\ off' = [h \in Handle |-> 0]
    /\ reply' = [h \in Handle |-> "none"]
    /\ UNCHANGED <<dpath, dtmp>>
    /\ data' = Kept(synced)
    /\ synced' = Kept(synced)

-----------------------------------------------------------------------------
\* All that a handle does but the one call that replaces the file.
Quiet(h) ==
    \/ OpenAbsent(h) \/ OpenFile(h) \/ ReadFile(h) \/ RejectFile(h) \/ ReadFails(h)
    \/ \E d \in Doc : Update(h, d)
    \/ Flush(h) \/ Create(h) \/ Write(h) \/ SyncAll(h) \/ FlushFails(h)
    \/ Crash(h)

Step(h) == Quiet(h) \/ Rename(h)

Next ==
    \/ \E h \in Handle : Step(h)
    \/ \E n \in Inode : WriteBack(n)
    \/ WriteBackEntries
    \/ PowerLoss

Spec == Init /\ [][Next]_vars

-----------------------------------------------------------------------------
(* Properties. *)

\* "A concurrent reader sees either the old file or the new one, never a
\* partial write", and "a crash mid-write never corrupts the existing pin
\* file": in every state, crashed ones included, the path names no file or a
\* whole document (or what was there before any flush), and so it would after
\* a power loss (file_pin_store.rs:13-14, 101-103).
NeverTorn ==
    /\ path # NoInode => IsDoc(data[path]) \/ data[path] \in External
    /\ dpath # NoInode => IsDoc(synced[dpath]) \/ synced[dpath] \in External

\* A file that is not JSON, or whose members have the wrong types, is never
\* replaced: no handle gets past `open`, so none can flush over it
\* (file_pin_store.rs:37-39).
CorruptFailsClosed ==
    (path # NoInode /\ Parse(data[path]) = Damaged) =>
        \A h \in Handle : pc[h] \in {"closed", "reading"}

\* One handle flushes.
SingleWriter == \A g, h \in Writers : g = h

InFlush(h) == pc[h] \in {"create", "write", "sync", "rename"}

\* Mutant of InTurn: the hosts do not wait for each other.
InTurn_Never == TRUE

\* Two handles are not in flush at the same time.
InTurn == \A g, h \in Handle : InFlush(g) /\ InFlush(h) => g = h

\* What flush knows at each of its system calls when no other handle is in flush:
\* its temporary file is a file of its own, reached by neither entry of the
\* path, and holds what was written so far; and what is under the path is the
\* same in memory and on the disk (file_pin_store.rs, flush).
FlushInv ==
    /\ NeverTorn
    /\ path # NoInode => synced[path] = data[path]
    /\ dpath # NoInode => synced[dpath] = data[dpath]
    /\ tmp # NoInode => tmp # path /\ tmp # dpath
    /\ dtmp # NoInode => dtmp # dpath
    /\ \A h \in Handle :
        /\ pc[h] \in {"create", "write", "sync", "rename"} => h \in Writers
        /\ pc[h] = "reading" => fd[h] # NoInode /\ fd[h] # tmp
        /\ pc[h] = "write" =>
              /\ tmp # NoInode /\ fd[h] = tmp
              /\ off[h] < Parts
              /\ data[tmp] = [k \in 1..off[h] |-> <<mem[h], k>>]
        /\ pc[h] = "sync" => tmp # NoInode /\ fd[h] = tmp /\ data[tmp] = Bytes(mem[h])
        /\ pc[h] = "rename" => tmp # NoInode /\ data[tmp] = Bytes(mem[h])
                                             /\ synced[tmp] = Bytes(mem[h])
    /\ path # NoInode /\ Parse(data[path]) = Damaged =>
        \A h \in Handle : pc[h] \in {"closed", "reading"}
                          /\ (pc[h] = "reading" => fd[h] = path)

\* To its handles the file is one register: a flush that returns Ok has stored
\* exactly the document in memory, one that returns an error has stored nothing,
\* `open` returns what was stored at a moment during the call, a process crash
\* loses nothing that was stored, and a power loss brings back an earlier
\* document, whole.
File(n, contents) == IF n = NoInode THEN Absent ELSE Parse(contents[n])

Status(h) ==
    CASE pc[h] = "closed" -> "closed"
      [] pc[h] = "reading" -> "opening"
      [] pc[h] = "ready" -> "open"
      [] OTHER -> "flushing"

Register == INSTANCE PinRegister WITH
    stored <- File(path, data),
    saved <- File(dpath, synced),
    status <- [h \in Handle |-> Status(h)],
    seen <- [h \in Handle |-> IF pc[h] = "reading" THEN Parse(data[fd[h]]) ELSE Absent]
ImplementsRegister == Register!Spec

-----------------------------------------------------------------------------
(* A statement of the documentation that the code does not keep. *)

\* ADR-MTCI-002:183, "the durable, fsync-persisted, reopen-on-start pin store",
\* and file_pin_store.rs:11-12, flush is called "to persist": once flush has
\* returned Ok, the document it wrote is what a restart of the machine finds.
FlushIsDurable ==
    \A h \in Handle :
        reply[h] = "Flushed" => dpath # NoInode /\ synced[dpath] = Bytes(mem[h])
=============================================================================
