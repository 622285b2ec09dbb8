---------------------------- MODULE PinRegister ----------------------------
(***************************************************************************)
(* What a pin file promises the handles open on it: it is one register.  A    *)
(* flush replaces the whole document at one instant or fails and changes      *)
(* nothing; opening returns a document that was in the register at some time  *)
(* during the call; a process crash loses memory only; a power loss may also   *)
(* bring back an older document, but never a damaged one.                    *)
(***************************************************************************)
CONSTANTS
    Handle,   \* the handles that may be open on the file
    Writers,  \* those of them that flush
    Doc,      \* pin documents: pins and catalog hash
    EmptyDoc, \* no pins, no catalog hash
    Absent,   \* there is no file
    Damaged   \* a file that is no document, made by someone else

VARIABLES
    stored, \* the document in the register, or Absent
    saved,  \* the document a power loss would leave
    status, \* of each handle: "closed", "opening", "open" or "flushing"
    seen,   \* the document an opening handle has caught
    mem,    \* the document each handle holds in memory
    reply   \* what the last call of each handle returned

vars == <<stored, saved, status, seen, mem, reply>>

Init ==
    /\ stored \in Doc \cup {Absent, Damaged}
    /\ saved = stored
    /\ status = [h \in Handle |-> "closed"]
    /\ seen = [h \in Handle |-> Absent]
    /\ mem = [h \in Handle |-> EmptyDoc]
    /\ reply = [h \in Handle |-> "none"]

Goto(h, s, r) ==
    /\ status' = [status EXCEPT ![h] = s]
    /\ reply' = [reply EXCEPT ![h] = r]

OpenAbsent(h) ==
    /\ status[h] = "closed"
    /\ stored = Absent
    /\ Goto(h, "open", "Opened")
    /\ UNCHANGED <<stored, saved, seen, mem>>

OpenBegin(h) ==
    /\ status[h] = "closed"
    /\ stored # Absent
    /\ Goto(h, "opening", "none")
    /\ seen' = [seen EXCEPT ![h] = stored]
    /\ UNCHANGED <<stored, saved, mem>>

OpenEnd(h) ==
    /\ status[h] = "opening"
    /\ IF seen[h] = Damaged
       THEN Goto(h, "closed", "InvalidData") /\ UNCHANGED mem
       ELSE Goto(h, "open", "Opened") /\ mem' = [mem EXCEPT ![h] = seen[h]]
    /\ seen' = [seen EXCEPT ![h] = Absent]
    /\ UNCHANGED <<stored, saved>>

Update(h, d) ==
    /\ status[h] = "open"
    /\ mem' = [mem EXCEPT ![h] = d]
    /\ reply' = [reply EXCEPT ![h] = "none"]
    /\ UNCHANGED <<stored, saved, status, seen>>

FlushBegin(h) ==
    /\ h \in Writers
    /\ status[h] = "open"
    /\ Goto(h, "flushing", "none")
    /\ UNCHANGED <<stored, saved, seen, mem>>

Store(h) ==
    /\ status[h] = "flushing"
    /\ stored' = mem[h]
    /\ Goto(h, "open", "Flushed")
    /\ UNCHANGED <<saved, seen, mem>>

FlushFails(h) ==
    /\ status[h] = "flushing"
    /\ Goto(h, "open", "IoError")
    /\ UNCHANGED <<stored, saved, seen, mem>>

\* The handle is dropped, its process dies, or it could not read the file.
Close(h) ==
    /\ \E r \in {"none", "IoError"} : Goto(h, "closed", r)
    /\ seen' = [seen EXCEPT ![h] = Absent]
    /\ mem' = [mem EXCEPT ![h] = EmptyDoc]
    /\ UNCHANGED <<stored, saved>>

Save ==
    /\ saved' = stored
    /\ UNCHANGED <<stored, status, seen, mem, reply>>

PowerLoss ==
    /\ stored' = saved
    /\ status' = [h \in Handle |-> "closed"]
    /\ seen' = [h \in Handle |-> Absent]
    /\ mem' = [h \in Handle |-> EmptyDoc]
    /\ reply' = [h \in Handle |-> "none"]
    /\ UNCHANGED saved

Next ==
    \/ \E h \in Handle :
         \/ OpenAbsent(h) \/ OpenBegin(h) \/ OpenEnd(h)
         \/ \E d \in Doc : Update(h, d)
         \/ FlushBegin(h) \/ Store(h) \/ FlushFails(h)
         \/ Close(h)
    \/ Save
    \/ PowerLoss

Spec == Init /\ [][Next]_vars
=============================================================================
