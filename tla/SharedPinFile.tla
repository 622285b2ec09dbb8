--------------------------- MODULE SharedPinFile ---------------------------
(***************************************************************************)
(* Several hosts that re-pin and flush on one pin file, in turn: nothing in the *)
(* code keeps their flushes apart, so it is for the hosts to do it (InTurn).   *)
(* The steps of each host are those of FilePinStore; the log is history.      *)
(***************************************************************************)
EXTENDS FilePinStore

CONSTANT MaxFlushes \* bound: flushes that are remembered

VARIABLES
    log,     \* the documents that were under the path, the oldest first
    durable, \* how many of them a power loss would leave
    own      \* of each handle: the position of its last flush

sharedVars == <<vars, log, durable, own>>

SharedInit ==
    /\ Init
    /\ log = IF path = NoInode THEN <<EmptyDoc>> ELSE <<Parse(data[path])>>
    /\ durable = 1
    /\ own = [h \in Handle |-> 1]

Flushing ==
    \E h \in Handle :
        /\ Rename(h)
        /\ Len(log) <= MaxFlushes
        /\ log' = Append(log, mem[h])
        /\ own' = [own EXCEPT ![h] = Len(log')]
        /\ UNCHANGED durable

Saving ==
    /\ WriteBackEntries
    /\ durable' = Len(log)
    /\ UNCHANGED <<log, own>>

\* The flushes that are not on the disk are gone, and with them those of others.
Losing ==
    /\ PowerLoss
    /\ log' = SubSeq(log, 1, durable)
    /\ own' = [h \in Handle |-> IF own[h] > durable THEN durable ELSE own[h]]
    /\ UNCHANGED durable

Other ==
    /\ (\E h \in Handle : Quiet(h)) \/ (\E n \in Inode : WriteBack(n))
    /\ UNCHANGED <<log, durable, own>>

SharedNext == (Flushing \/ Saving \/ Losing \/ Other) /\ InTurn'

SharedSpec == SharedInit /\ [][SharedNext]_sharedVars

-----------------------------------------------------------------------------
(* Properties. *)

\* A host that opens the file finds the document it flushed last or one that was
\* flushed after it, never one from before: its approval is lost to another host's
\* flush, or to a power loss, but not brought back to an older state by a crash, a
\* flush that failed half-way or a rename while it read (file_pin_store.rs:3-5,
\* 101-106).
OpensNoOlder ==
    \A h \in Handle :
        reply[h] = "Opened" => \E i \in own[h]..Len(log) : mem[h] = log[i]

\* What is under the path is the document flushed last, and what a power loss would
\* leave is one that was flushed: not a mixture of two hosts' pins.
LastFlushCounts ==
    /\ File(path, data) = IF path = NoInode THEN Absent ELSE log[Len(log)]
    /\ dpath # NoInode => File(dpath, synced) = log[durable]
=============================================================================
