------------------------- MODULE FilePinStoreProofs -------------------------
(***************************************************************************)
(* Proofs about FilePinStore, for every number of handles, inodes, documents  *)
(* and parts.  What flush guarantees is proved for handles that flush in turn,  *)
(* and so for one handle that flushes; for two that do not wait for each other,  *)
(* the run of MCFilePinStoreTwoWriters.cfg refutes it.  Then SharedPinFile:       *)
(* each of several hosts that flush in turn finds nothing older than its own    *)
(* flush, the hosts' steps being read as steps of PinRegister.                 *)
(***************************************************************************)
EXTENDS SharedPinFile, TLAPS, SequenceTheorems

USE FileAssumption, ExternalAssumption

-----------------------------------------------------------------------------
(* File contents. *)

\* A serialized document is file contents, of Parts parts.
LEMMA BytesType ==
    ASSUME NEW d \in Doc
    PROVE  Bytes(d) \in Seq(Part) /\ IsDoc(Bytes(d)) /\ Len(Bytes(d)) = Parts
<1>1. \A k \in 1..Parts : <<d, k>> \in Part
  BY DEF Part
<1>2. Bytes(d) \in [1..Parts -> Part]
  BY <1>1 DEF Bytes
<1>3. Bytes(d) \in Seq(Part) /\ Len(Bytes(d)) = Parts
  BY <1>2, Parts \in Nat
<1> QED
  BY <1>3 DEF IsDoc

\* Parsing what flush serialized gives the document back.
LEMMA ParseBytes ==
    ASSUME NEW d \in Doc
    PROVE  Parse(Bytes(d)) = d /\ Parse(Bytes(d)) # Damaged
<1>1. ASSUME NEW e \in Doc, Bytes(d) = Bytes(e) PROVE d = e
  <2>1. 1 \in 1..Parts
    OBVIOUS
  <2>2. Bytes(d)[1] = <<d, 1>> /\ Bytes(e)[1] = <<e, 1>>
    BY <2>1 DEF Bytes
  <2> QED
    BY <1>1, <2>2
<1>2. IsDoc(Bytes(d))
  BY DEF IsDoc
<1>3. (CHOOSE e \in Doc : Bytes(d) = Bytes(e)) = d
  BY <1>1
<1> QED
  BY <1>2, <1>3 DEF Parse

\* `open` finds a document or damage.
LEMMA ParseType == \A s : Parse(s) \in Doc \cup {Damaged}
BY DEF Parse, IsDoc

\* Writing at the end of a file appends.
LEMMA WriteAtType ==
    ASSUME NEW s \in Seq(Part), NEW o \in Nat, NEW p \in Part
    PROVE  WriteAt(s, o, p) \in Seq(Part)
<1> DEFINE n == IF Len(s) > o THEN Len(s) ELSE o + 1
<1>1. n \in Nat
  OBVIOUS
<1>2. Hole \in Part
  BY DEF Part
<1>3. \A k \in 1..n : (IF k = o + 1 THEN p ELSE IF k <= Len(s) THEN s[k] ELSE Hole) \in Part
  BY <1>2
<1>4. WriteAt(s, o, p) = [k \in 1..n |-> IF k = o + 1 THEN p ELSE IF k <= Len(s) THEN s[k] ELSE Hole]
  BY DEF WriteAt
<1> HIDE DEF n
<1>5. WriteAt(s, o, p) \in [1..n -> Part]
  BY <1>3, <1>4
<1> QED
  BY <1>1, <1>5

\* The first o parts of a document.
Written(d, o) == [k \in 1..o |-> <<d, k>>]

\* write_all after o parts writes part o + 1 at the end of the file.
LEMMA WriteNext ==
    ASSUME NEW d \in Doc, NEW o \in 0..Parts, o < Parts,
           NEW s \in Seq(Part), s = Written(d, o)
    PROVE  WriteAt(s, o, <<d, o + 1>>) = Written(d, o + 1)
<1> USE DEF Written
<1>1. Len(s) = o
  OBVIOUS
<1>2. WriteAt(s, o, <<d, o + 1>>) =
         [k \in 1..o+1 |-> IF k = o + 1 THEN <<d, o + 1>> ELSE IF k <= o THEN s[k] ELSE Hole]
  BY <1>1 DEF WriteAt
<1>3. \A k \in 1..o+1 : (IF k = o + 1 THEN <<d, o + 1>> ELSE IF k <= o THEN s[k] ELSE Hole)
                        = <<d, k>>
  OBVIOUS
<1> QED
  BY <1>2, <1>3

-----------------------------------------------------------------------------
(* Type correctness, with any number of writers and any faults. *)

\* Reclaiming inodes keeps file contents file contents.
LEMMA KeptType ==
    ASSUME NEW f \in [Inode -> Seq(Part)]
    PROVE  Kept(f) \in [Inode -> Seq(Part)]
<1>1. <<>> \in Seq(Part)
  OBVIOUS
<1> QED
  BY <1>1 DEF Kept

\* The variables have their types at the start.
LEMMA TypeInit == Init => TypeOK
<1> SUFFICES ASSUME Init PROVE TypeOK
  OBVIOUS
<1>1. <<>> \in Seq(Part)
  OBVIOUS
<1>2. \A c \in {Bytes(d) : d \in Doc} \cup External : c \in Seq(Part)
  BY BytesType
<1>3. PICK n \in Inode, c \in {Bytes(d) : d \in Doc} \cup External :
         \/ path = NoInode /\ data = [m \in Inode |-> <<>>]
         \/ path = n /\ data = [m \in Inode |-> IF m = n THEN c ELSE <<>>]
  BY DEF Init
<1>4. path \in Inode \cup {NoInode} /\ data \in [Inode -> Seq(Part)]
  BY <1>1, <1>2, <1>3
<1> QED
  BY <1>4 DEF Init, TypeOK

\* A system call of any handle, and a crash, keep the types.
LEMMA TypeStep == ASSUME TypeOK, NEW h \in Handle, Step(h) PROVE TypeOK'
<1> USE DEF TypeOK
<1>c. Reclaim => data' \in [Inode -> Seq(Part)] /\ synced' \in [Inode -> Seq(Part)]
  <2>1. Kept(data) \in [Inode -> Seq(Part)] /\ Kept(synced) \in [Inode -> Seq(Part)]
    BY KeptType
  <2> QED
    BY <2>1 DEF Reclaim
<1>r. ASSUME NEW l \in {"closed", "ready"},
             NEW r \in {"none", "Opened", "Flushed", "InvalidData", "IoError"},
             Return(h, l, r)
      PROVE  /\ pc' \in [Handle -> {"closed", "reading", "ready", "create", "write", "sync", "rename"}]
             /\ fd' \in [Handle -> Inode \cup {NoInode}]
             /\ off' \in [Handle -> 0..Parts]
             /\ \A g \in Handle :
                 /\ pc'[g] \in {"closed", "reading", "ready", "create"} => off'[g] = 0
                 /\ pc'[g] = "write" => off'[g] < Parts
             /\ reply' \in [Handle -> {"none", "Opened", "Flushed", "InvalidData", "IoError"}]
  BY <1>r DEF Return, Goto
<1>1. CASE OpenAbsent(h)
  BY <1>1, <1>r DEF OpenAbsent, entries
<1>2. CASE OpenFile(h)
  BY <1>2 DEF OpenFile, entries, Goto
<1>3. CASE ReadFile(h)
  <2>1. Parse(data[fd[h]]) \in Doc
    BY <1>3, ParseType DEF ReadFile
  <2> QED
    BY <1>3, <1>c, <1>r, <2>1 DEF ReadFile, entries
<1>4. CASE RejectFile(h)
  BY <1>4, <1>c, <1>r DEF RejectFile, entries
<1>5. CASE ReadFails(h)
  BY <1>5, <1>c, <1>r DEF ReadFails, entries
<1>6. ASSUME NEW d \in Doc, Update(h, d) PROVE TypeOK'
  BY <1>6 DEF Update, entries
<1>7. CASE Flush(h)
  BY <1>7 DEF Flush, entries, Goto
<1>8. CASE Create(h)
  <2>1. <<>> \in Seq(Part)
    OBVIOUS
  <2>a. pc[h] = "create"
    BY <1>8 DEF Create
  <2>2. off[h] = 0 /\ 0 < Parts
    BY <2>a
  <2>3. PICK n \in Inode :
           tmp' = n /\ data' = [data EXCEPT ![n] = <<>>] /\ fd' = [fd EXCEPT ![h] = n]
    BY <1>8 DEF Create
  <2>4. /\ pc' = [pc EXCEPT ![h] = "write"]
        /\ UNCHANGED <<path, dpath, dtmp, synced, mem, off, reply>>
    BY <1>8 DEF Create, Goto
  <2>5. data' \in [Inode -> Seq(Part)]
    BY <2>1, <2>3
  <2> QED
    BY <2>2, <2>3, <2>4, <2>5
<1>9. CASE Write(h)
  <2>a. off[h] \in 0..Parts /\ off[h] < Parts /\ mem[h] \in Doc /\ Parts \in Nat
    <3>1. pc[h] = "write"
      BY <1>9 DEF Write
    <3> QED
      BY <3>1
  <2>1. off[h] < Parts /\ off[h] + 1 \in 1..Parts
    <3> HIDE DEF TypeOK
    <3> QED
      BY <2>a
  <2>2. <<mem[h], off[h] + 1>> \in Part
    <3> HIDE DEF TypeOK
    <3> QED
      BY <2>a, <2>1 DEF Part
  <2>3. data' \in [Inode -> Seq(Part)]
    <3> DEFINE w == WriteAt(data[fd[h]], off[h], <<mem[h], off[h] + 1>>)
    <3>1. fd[h] \in Inode => w \in Seq(Part)
      BY <2>2, WriteAtType
    <3>2. data' = [data EXCEPT ![fd[h]] = w]
      BY <1>9 DEF Write
    <3> HIDE DEF w
    <3> QED
      BY <3>1, <3>2
  <2>4. /\ off' = [off EXCEPT ![h] = off[h] + 1]
        /\ pc' = [pc EXCEPT ![h] = IF off[h] + 1 = Parts THEN "sync" ELSE "write"]
        /\ UNCHANGED <<path, tmp, dpath, dtmp, synced, mem, fd, reply>>
    BY <1>9 DEF Write, Goto, entries
  <2>5. off' \in [Handle -> 0..Parts]
    BY <2>1, <2>4
  <2>6. ASSUME NEW g \in Handle
        PROVE  /\ pc'[g] \in {"closed", "reading", "ready", "create"} => off'[g] = 0
               /\ pc'[g] = "write" => off'[g] < Parts
    <3>1. CASE g = h
      <4>1. pc'[h] = (IF off[h] + 1 = Parts THEN "sync" ELSE "write") /\ off'[h] = off[h] + 1
        BY <2>4
      <4>2. off[h] + 1 # Parts => off[h] + 1 < Parts
        <5> HIDE DEF TypeOK
        <5> QED
          BY <2>a
      <4> QED
        BY <3>1, <4>1, <4>2
    <3>2. CASE g # h
      <4>1. pc'[g] = pc[g] /\ off'[g] = off[g]
        BY <2>4, <3>2
      <4> QED
        BY <4>1
    <3> QED
      BY <3>1, <3>2
  <2>7. pc' \in [Handle -> {"closed", "reading", "ready", "create", "write", "sync", "rename"}]
    BY <2>4
  <2> QED
    BY <2>3, <2>4, <2>5, <2>6, <2>7
<1>10. CASE SyncAll(h)
  BY <1>10, KeptType DEF SyncAll, entries, Goto
<1>11. CASE Rename(h)
  BY <1>11, <1>c, <1>r DEF Rename
<1>12. CASE FlushFails(h)
  BY <1>12, <1>c, <1>r DEF FlushFails, entries
<1>13. CASE Crash(h)
  BY <1>13, <1>c, <1>r DEF Crash, entries
<1> QED
  BY <1>1, <1>2, <1>3, <1>4, <1>5, <1>6, <1>7, <1>8, <1>9, <1>10, <1>11, <1>12, <1>13 DEF Step, Quiet

\* Every step keeps the types, write-backs and power losses included.
LEMMA TypeNext == TypeOK /\ [Next]_vars => TypeOK'
<1> SUFFICES ASSUME TypeOK, [Next]_vars PROVE TypeOK'
  OBVIOUS
<1>1. ASSUME NEW h \in Handle, Step(h) PROVE TypeOK'
  BY <1>1, TypeStep
<1>2. ASSUME NEW n \in Inode, WriteBack(n) PROVE TypeOK'
  BY <1>2 DEF WriteBack, TypeOK, entries
<1>3. CASE WriteBackEntries
  BY <1>3, KeptType DEF WriteBackEntries, Reclaim, TypeOK
<1>4. CASE PowerLoss
  <2>1. Kept(synced) \in [Inode -> Seq(Part)] /\ 0 \in 0..Parts
    BY KeptType DEF TypeOK
  <2>2. /\ pc' = [h \in Handle |-> "closed"]
        /\ mem' = [h \in Handle |-> EmptyDoc]
        /\ fd' = [h \in Handle |-> NoInode]
        /\ off' = [h \in Handle |-> 0]
        /\ reply' = [h \in Handle |-> "none"]
    BY <1>4 DEF PowerLoss
  <2>3. /\ path' = dpath /\ tmp' = dtmp
        /\ dpath' = dpath /\ dtmp' = dtmp
        /\ data' = Kept(synced) /\ synced' = Kept(synced)
    BY <1>4 DEF PowerLoss
  <2>4. /\ pc' \in [Handle -> {"closed", "reading", "ready", "create", "write", "sync", "rename"}]
        /\ mem' \in [Handle -> Doc]
        /\ fd' \in [Handle -> Inode \cup {NoInode}]
        /\ off' \in [Handle -> 0..Parts]
        /\ reply' \in [Handle -> {"none", "Opened", "Flushed", "InvalidData", "IoError"}]
    BY <2>1, <2>2
  <2>5. \A h \in Handle : pc'[h] = "closed" /\ off'[h] = 0
    BY <2>2
  <2> QED
    BY <2>1, <2>3, <2>4, <2>5 DEF TypeOK
<1>5. CASE UNCHANGED vars
  BY <1>5 DEF vars, TypeOK
<1> QED
  BY <1>1, <1>2, <1>3, <1>4, <1>5 DEF Next

\* Every variable keeps its type, with any number of handles that flush.
THEOREM TypeCorrect == Spec => []TypeOK
<1> QED
  BY TypeInit, TypeNext, PTL DEF Spec

-----------------------------------------------------------------------------
(* What flush guarantees when the handles flush in turn. *)

\* At the start nothing is being flushed and the disk has what the path has.
LEMMA FlushInvInit == Init => FlushInv
<1> SUFFICES ASSUME Init PROVE FlushInv
  OBVIOUS
<1>1. TypeOK
  BY TypeInit
<1>2. PICK n \in Inode, c \in {Bytes(d) : d \in Doc} \cup External :
         \/ path = NoInode /\ data = [m \in Inode |-> <<>>]
         \/ path = n /\ data = [m \in Inode |-> IF m = n THEN c ELSE <<>>]
  BY DEF Init
<1>3. path # NoInode => data[path] = c
  BY <1>2
<1>4. IsDoc(c) \/ c \in External
  BY DEF IsDoc
<1> QED
  BY <1>3, <1>4 DEF Init, FlushInv, NeverTorn

\* An inode that a directory entry names keeps its contents.
LEMMA KeptLive ==
    ASSUME NEW f, NEW n \in Inode, n \in {path, tmp, dpath, dtmp}'
    PROVE  Kept(f)[n] = f[n]
BY DEF Kept, Live

\* A call that returns without having renamed disturbs nothing, provided it
\* leaves no handle open on a damaged file.
LEMMA ReturnStep ==
    ASSUME TypeOK, FlushInv, NEW h \in Handle, NEW l \in {"closed", "ready"}, NEW r,
           Return(h, l, r),
           UNCHANGED entries,
           \A n \in Inode : n \in {path, tmp, dpath, dtmp} =>
                data'[n] = data[n] /\ synced'[n] = synced[n],
           \A g \in Handle : g # h => mem'[g] = mem[g],
           l = "ready" /\ path # NoInode => Parse(data[path]) # Damaged
    PROVE  FlushInv'
<1>1. UNCHANGED <<path, tmp, dpath, dtmp>>
  BY DEF entries
<1>2. /\ path # NoInode => data'[path] = data[path] /\ synced'[path] = synced[path]
      /\ dpath # NoInode => data'[dpath] = data[dpath] /\ synced'[dpath] = synced[dpath]
      /\ tmp # NoInode => data'[tmp] = data[tmp] /\ synced'[tmp] = synced[tmp]
  BY DEF TypeOK
<1>3. pc'[h] = l
  BY DEF Return, Goto, TypeOK
<1>4. \A g \in Handle : g # h =>
         pc'[g] = pc[g] /\ fd'[g] = fd[g] /\ off'[g] = off[g] /\ mem'[g] = mem[g]
  BY DEF Return, Goto, TypeOK
<1>5. NeverTorn'
  BY <1>1, <1>2 DEF FlushInv, NeverTorn
<1>6. /\ path' # NoInode => synced'[path'] = data'[path']
      /\ dpath' # NoInode => synced'[dpath'] = data'[dpath']
      /\ tmp' # NoInode => tmp' # path' /\ tmp' # dpath'
      /\ dtmp' # NoInode => dtmp' # dpath'
  BY <1>1, <1>2 DEF FlushInv
<1>7. ASSUME NEW g \in Handle
      PROVE
        /\ pc'[g] \in {"create", "write", "sync", "rename"} => g \in Writers
        /\ pc'[g] = "reading" => fd'[g] # NoInode /\ fd'[g] # tmp'
        /\ pc'[g] = "write" =>
              /\ tmp' # NoInode /\ fd'[g] = tmp'
              /\ off'[g] < Parts
              /\ data'[tmp'] = [k \in 1..off'[g] |-> <<mem'[g], k>>]
        /\ pc'[g] = "sync" => tmp' # NoInode /\ fd'[g] = tmp' /\ data'[tmp'] = Bytes(mem'[g])
        /\ pc'[g] = "rename" => tmp' # NoInode /\ data'[tmp'] = Bytes(mem'[g])
                                               /\ synced'[tmp'] = Bytes(mem'[g])
  <2>1. CASE g = h
    BY <1>3, <2>1
  <2>2. CASE g # h
    BY <1>1, <1>2, <1>4, <2>2 DEF FlushInv
  <2> QED
    BY <2>1, <2>2
<1>8. ASSUME path' # NoInode, Parse(data'[path']) = Damaged, NEW g \in Handle
      PROVE  /\ pc'[g] \in {"closed", "reading"}
             /\ pc'[g] = "reading" => fd'[g] = path'
  <2>1. Parse(data[path]) = Damaged
    BY <1>1, <1>2, <1>8
  <2>2. CASE g = h
    BY <1>1, <1>3, <1>8, <2>1, <2>2
  <2>3. CASE g # h
    BY <1>1, <1>4, <1>8, <2>1, <2>3 DEF FlushInv
  <2> QED
    BY <2>2, <2>3
<1> QED
  BY <1>5, <1>6, <1>7, <1>8 DEF FlushInv, Bytes

\* While a handle flushes, every other one is outside flush.
LEMMA OthersOutside ==
    ASSUME InTurn, TypeOK, NEW h \in Handle, InFlush(h), NEW g \in Handle, g # h
    PROVE  pc[g] \in {"closed", "reading", "ready"}
<1>1. ~InFlush(g)
  BY DEF InTurn
<1>2. pc[g] \in {"closed", "reading", "ready", "create", "write", "sync", "rename"}
  BY DEF TypeOK
<1> QED
  BY <1>1, <1>2 DEF InFlush

\* One handle that flushes takes turns with itself.
LEMMA OneInTurn ==
    ASSUME SingleWriter, FlushInv
    PROVE  InTurn
<1> SUFFICES ASSUME NEW g \in Handle, NEW h \in Handle, InFlush(g), InFlush(h)
             PROVE  g = h
  BY DEF InTurn
<1>1. g \in Writers /\ h \in Writers
  BY DEF InFlush, FlushInv
<1> QED
  BY <1>1 DEF SingleWriter

\* A handle that is reading has a file open.
LEMMA ReadingIsOpen ==
    ASSUME TypeOK, FlushInv, NEW g \in Handle, pc[g] = "reading"
    PROVE  fd[g] \in Inode
<1>1. fd[g] # NoInode
  BY DEF FlushInv
<1>2. fd[g] \in Inode \cup {NoInode}
  BY DEF TypeOK
<1> QED
  BY <1>1, <1>2

\* File::create empties the temporary file and nothing else.
LEMMA CreateStep ==
    ASSUME InTurn, TypeOK, FlushInv, NEW h \in Handle, Create(h)
    PROVE  FlushInv'
<1>1. PICK n \in Inode :
         /\ IF tmp = NoInode THEN n \notin Live ELSE n = tmp
         /\ tmp' = n
         /\ data' = [data EXCEPT ![n] = <<>>]
         /\ fd' = [fd EXCEPT ![h] = n]
  BY DEF Create
<1>2. /\ pc[h] = "create"
      /\ pc' = [pc EXCEPT ![h] = "write"]
      /\ UNCHANGED <<path, dpath, dtmp, synced, mem, off, reply>>
  BY DEF Create, Goto
<1>3. h \in Writers /\ off[h] = 0 /\ 0 < Parts
  <2>1. h \in Writers
    BY <1>2 DEF FlushInv
  <2>2. off[h] = 0 /\ 0 < Parts
    BY <1>2, FileAssumption DEF TypeOK
  <2> QED
    BY <2>1, <2>2
<1>4. n # path /\ n # dpath /\ (\A g \in Handle : pc[g] = "reading" => fd[g] # n)
  BY <1>1 DEF Live, FlushInv
<1>5. \A m \in Inode : m # n => data'[m] = data[m]
  BY <1>1 DEF TypeOK
<1>6. /\ path # NoInode => data'[path] = data[path]
      /\ dpath # NoInode => data'[dpath] = data[dpath]
      /\ data'[n] = <<>>
  BY <1>1, <1>4, <1>5 DEF TypeOK
<1>7. /\ pc'[h] = "write" /\ fd'[h] = n /\ off'[h] = 0
      /\ \A g \in Handle : g # h => pc'[g] = pc[g] /\ fd'[g] = fd[g]
  BY <1>1, <1>2, <1>3 DEF TypeOK
<1>8. \A g \in Handle : g # h => pc'[g] \in {"closed", "reading", "ready"}
  BY <1>2, <1>7, OthersOutside DEF InFlush
<1>9. NeverTorn'
  BY <1>2, <1>6 DEF FlushInv, NeverTorn
<1>10. /\ path' # NoInode => synced'[path'] = data'[path']
       /\ dpath' # NoInode => synced'[dpath'] = data'[dpath']
       /\ tmp' # NoInode => tmp' # path' /\ tmp' # dpath'
       /\ dtmp' # NoInode => dtmp' # dpath'
  BY <1>1, <1>2, <1>4, <1>6 DEF FlushInv
<1>11. ASSUME NEW g \in Handle
       PROVE
        /\ pc'[g] \in {"create", "write", "sync", "rename"} => g \in Writers
        /\ pc'[g] = "reading" => fd'[g] # NoInode /\ fd'[g] # tmp'
        /\ pc'[g] = "write" =>
              /\ tmp' # NoInode /\ fd'[g] = tmp'
              /\ off'[g] < Parts
              /\ data'[tmp'] = [k \in 1..off'[g] |-> <<mem'[g], k>>]
        /\ pc'[g] = "sync" => tmp' # NoInode /\ fd'[g] = tmp' /\ data'[tmp'] = Bytes(mem'[g])
        /\ pc'[g] = "rename" => tmp' # NoInode /\ data'[tmp'] = Bytes(mem'[g])
                                               /\ synced'[tmp'] = Bytes(mem'[g])
  <2>1. CASE g = h
    <3>1. [k \in 1..off'[h] |-> <<mem'[h], k>>] = <<>>
      BY <1>7
    <3> QED
      BY <1>1, <1>3, <1>6, <1>7, <2>1, <3>1, FileAssumption
  <2>2. CASE g # h
    <3>1. pc'[g] \in {"closed", "reading", "ready"} /\ pc'[g] = pc[g] /\ fd'[g] = fd[g]
      BY <1>7, <1>8, <2>2
    <3>2. pc[g] = "reading" => fd[g] # NoInode /\ fd[g] # n
      BY <1>4 DEF FlushInv
    <3> QED
      BY <1>1, <3>1, <3>2
  <2> QED
    BY <2>1, <2>2
<1>12. ~(path' # NoInode /\ Parse(data'[path']) = Damaged)
  BY <1>2, <1>6 DEF FlushInv
<1> QED
  BY <1>9, <1>10, <1>11, <1>12 DEF FlushInv, Bytes

\* write_all adds the next part to the temporary file and nothing else.
LEMMA WriteStep ==
    ASSUME InTurn, TypeOK, FlushInv, NEW h \in Handle, Write(h)
    PROVE  FlushInv'
<1>1. /\ pc[h] = "write"
      /\ data' = [data EXCEPT ![fd[h]] = WriteAt(data[fd[h]], off[h], <<mem[h], off[h] + 1>>)]
      /\ off' = [off EXCEPT ![h] = off[h] + 1]
      /\ pc' = [pc EXCEPT ![h] = IF off[h] + 1 = Parts THEN "sync" ELSE "write"]
      /\ UNCHANGED <<path, tmp, dpath, dtmp, synced, mem, fd, reply>>
  BY DEF Write, Goto, entries
<1>2. /\ h \in Writers
      /\ tmp # NoInode /\ fd[h] = tmp /\ tmp # path /\ tmp # dpath /\ tmp \in Inode
      /\ data[tmp] = [k \in 1..off[h] |-> <<mem[h], k>>]
  BY <1>1 DEF FlushInv, TypeOK
<1>3. off[h] \in 0..Parts /\ off[h] < Parts /\ mem[h] \in Doc /\ data[tmp] \in Seq(Part)
  BY <1>1, <1>2 DEF TypeOK
<1>4. data'[tmp] = [k \in 1..off[h]+1 |-> <<mem[h], k>>]
  <2>1. data[tmp] = Written(mem[h], off[h])
    BY <1>2 DEF Written
  <2>2. WriteAt(data[tmp], off[h], <<mem[h], off[h] + 1>>) = Written(mem[h], off[h] + 1)
    BY <1>3, <2>1, WriteNext
  <2>3. data'[tmp] = WriteAt(data[tmp], off[h], <<mem[h], off[h] + 1>>)
    BY <1>1, <1>2 DEF TypeOK
  <2> QED
    BY <2>2, <2>3 DEF Written
<1>5. /\ path # NoInode => data'[path] = data[path]
      /\ dpath # NoInode => data'[dpath] = data[dpath]
  BY <1>1, <1>2 DEF TypeOK
<1>6. /\ pc'[h] = IF off[h] + 1 = Parts THEN "sync" ELSE "write"
      /\ off'[h] = off[h] + 1
      /\ \A g \in Handle : g # h => pc'[g] = pc[g] /\ fd'[g] = fd[g]
  BY <1>1 DEF TypeOK
<1>7. \A g \in Handle : g # h => pc'[g] \in {"closed", "reading", "ready"}
  BY <1>1, <1>6, OthersOutside DEF InFlush
<1>8. NeverTorn'
  BY <1>1, <1>5 DEF FlushInv, NeverTorn
<1>9. /\ path' # NoInode => synced'[path'] = data'[path']
      /\ dpath' # NoInode => synced'[dpath'] = data'[dpath']
      /\ tmp' # NoInode => tmp' # path' /\ tmp' # dpath'
      /\ dtmp' # NoInode => dtmp' # dpath'
  BY <1>1, <1>5 DEF FlushInv
<1>10. ASSUME NEW g \in Handle
       PROVE
        /\ pc'[g] \in {"create", "write", "sync", "rename"} => g \in Writers
        /\ pc'[g] = "reading" => fd'[g] # NoInode /\ fd'[g] # tmp'
        /\ pc'[g] = "write" =>
              /\ tmp' # NoInode /\ fd'[g] = tmp'
              /\ off'[g] < Parts
              /\ data'[tmp'] = [k \in 1..off'[g] |-> <<mem'[g], k>>]
        /\ pc'[g] = "sync" => tmp' # NoInode /\ fd'[g] = tmp' /\ data'[tmp'] = Bytes(mem'[g])
        /\ pc'[g] = "rename" => tmp' # NoInode /\ data'[tmp'] = Bytes(mem'[g])
                                               /\ synced'[tmp'] = Bytes(mem'[g])
  <2>1. CASE g = h /\ off[h] + 1 = Parts
    <3>1. data'[tmp] = Bytes(mem[h])
      BY <1>4, <2>1 DEF Bytes
    <3> QED
      BY <1>1, <1>2, <1>6, <2>1, <3>1
  <2>2. CASE g = h /\ off[h] + 1 # Parts
    <3>1. off'[h] < Parts
      BY <1>3, <1>6, <2>2
    <3>2. data'[tmp'] = [k \in 1..off'[h] |-> <<mem'[h], k>>]
      BY <1>1, <1>4, <1>6
    <3> QED
      BY <1>1, <1>2, <1>6, <2>2, <3>1, <3>2
  <2>3. CASE g # h
    BY <1>1, <1>6, <1>7, <2>3 DEF FlushInv
  <2> QED
    BY <2>1, <2>2, <2>3
<1>11. ~(path' # NoInode /\ Parse(data'[path']) = Damaged)
  BY <1>1, <1>5 DEF FlushInv
<1> QED
  BY <1>8, <1>9, <1>10, <1>11 DEF FlushInv, Bytes

\* sync_all puts the whole document on the disk.
LEMMA SyncStep ==
    ASSUME InTurn, TypeOK, FlushInv, NEW h \in Handle, SyncAll(h)
    PROVE  FlushInv'
<1> DEFINE s == [synced EXCEPT ![fd[h]] = data[fd[h]]]
<1>1. /\ pc[h] = "sync"
      /\ pc' = [pc EXCEPT ![h] = "rename"]
      /\ fd' = [fd EXCEPT ![h] = NoInode]
      /\ UNCHANGED <<path, tmp, dpath, dtmp, mem, off, reply>>
      /\ data' = Kept(data)
      /\ synced' = Kept(s)
  BY DEF SyncAll, Goto, entries
<1>2. /\ h \in Writers
      /\ tmp # NoInode /\ fd[h] = tmp /\ tmp # path /\ tmp # dpath /\ tmp \in Inode
      /\ data[tmp] = Bytes(mem[h])
  BY <1>1 DEF FlushInv, TypeOK
<1>3. /\ s[tmp] = data[tmp]
      /\ path # NoInode => s[path] = synced[path]
      /\ dpath # NoInode => s[dpath] = synced[dpath]
  BY <1>2 DEF TypeOK
<1> HIDE DEF s
<1>4. /\ data'[tmp] = Bytes(mem[h]) /\ synced'[tmp] = Bytes(mem[h])
      /\ path # NoInode => data'[path] = data[path] /\ synced'[path] = synced[path]
      /\ dpath # NoInode => data'[dpath] = data[dpath] /\ synced'[dpath] = synced[dpath]
  <2>1. ASSUME NEW n \in Inode, n \in {path, tmp, dpath}
        PROVE  data'[n] = data[n] /\ synced'[n] = s[n]
    <3>1. n \in {path, tmp, dpath, dtmp}'
      BY <1>1, <2>1
    <3> QED
      BY <1>1, <3>1, KeptLive
  <2> QED
    BY <1>2, <1>3, <2>1 DEF TypeOK
<1>5. /\ pc'[h] = "rename"
      /\ \A g \in Handle : g # h => pc'[g] = pc[g] /\ fd'[g] = fd[g]
  BY <1>1 DEF TypeOK
<1>6. \A g \in Handle : g # h => pc'[g] \in {"closed", "reading", "ready"}
  BY <1>1, <1>5, OthersOutside DEF InFlush
<1>7. NeverTorn'
  BY <1>1, <1>4 DEF FlushInv, NeverTorn
<1>8. /\ path' # NoInode => synced'[path'] = data'[path']
      /\ dpath' # NoInode => synced'[dpath'] = data'[dpath']
      /\ tmp' # NoInode => tmp' # path' /\ tmp' # dpath'
      /\ dtmp' # NoInode => dtmp' # dpath'
  BY <1>1, <1>4 DEF FlushInv
<1>9. ASSUME NEW g \in Handle
      PROVE
        /\ pc'[g] \in {"create", "write", "sync", "rename"} => g \in Writers
        /\ pc'[g] = "reading" => fd'[g] # NoInode /\ fd'[g] # tmp'
        /\ pc'[g] = "write" =>
              /\ tmp' # NoInode /\ fd'[g] = tmp'
              /\ off'[g] < Parts
              /\ data'[tmp'] = [k \in 1..off'[g] |-> <<mem'[g], k>>]
        /\ pc'[g] = "sync" => tmp' # NoInode /\ fd'[g] = tmp' /\ data'[tmp'] = Bytes(mem'[g])
        /\ pc'[g] = "rename" => tmp' # NoInode /\ data'[tmp'] = Bytes(mem'[g])
                                               /\ synced'[tmp'] = Bytes(mem'[g])
  <2>1. CASE g = h
    BY <1>1, <1>2, <1>4, <1>5, <2>1
  <2>2. CASE g # h
    BY <1>1, <1>5, <1>6, <2>2 DEF FlushInv
  <2> QED
    BY <2>1, <2>2
<1>10. ~(path' # NoInode /\ Parse(data'[path']) = Damaged)
  BY <1>1, <1>4 DEF FlushInv
<1> QED
  BY <1>7, <1>8, <1>9, <1>10 DEF FlushInv, Bytes

\* rename puts a whole and synced document under the path.
LEMMA RenameStep ==
    ASSUME InTurn, TypeOK, FlushInv, NEW h \in Handle, Rename(h)
    PROVE  FlushInv'
<1>1. /\ pc[h] = "rename"
      /\ path' = tmp /\ tmp' = NoInode
      /\ pc' = [pc EXCEPT ![h] = "ready"]
      /\ fd' = [fd EXCEPT ![h] = NoInode]
      /\ UNCHANGED <<dpath, dtmp, mem>>
      /\ data' = Kept(data) /\ synced' = Kept(synced)
  BY DEF Rename, Return, Goto, Reclaim
<1>2. /\ h \in Writers
      /\ tmp # NoInode /\ tmp \in Inode
      /\ data[tmp] = Bytes(mem[h]) /\ synced[tmp] = Bytes(mem[h])
  BY <1>1 DEF FlushInv, TypeOK
<1>3. /\ data'[tmp] = Bytes(mem[h]) /\ synced'[tmp] = Bytes(mem[h])
      /\ dpath # NoInode => data'[dpath] = data[dpath] /\ synced'[dpath] = synced[dpath]
  <2>1. ASSUME NEW n \in Inode, n \in {tmp, dpath}
        PROVE  data'[n] = data[n] /\ synced'[n] = synced[n]
    <3>1. n \in {path, tmp, dpath, dtmp}'
      BY <1>1, <2>1
    <3> QED
      BY <1>1, <3>1, KeptLive
  <2> QED
    BY <1>2, <2>1 DEF TypeOK
<1>4. /\ pc'[h] = "ready"
      /\ \A g \in Handle : g # h => pc'[g] = pc[g] /\ fd'[g] = fd[g]
  BY <1>1 DEF TypeOK
<1>5. \A g \in Handle : g # h => pc'[g] \in {"closed", "reading", "ready"}
  BY <1>1, <1>4, OthersOutside DEF InFlush
<1>6. mem[h] \in Doc
  BY DEF TypeOK
<1>7. IsDoc(data'[path']) /\ Parse(data'[path']) # Damaged
  BY <1>1, <1>3, <1>6, BytesType, ParseBytes
<1>8. NeverTorn'
  BY <1>1, <1>3, <1>7 DEF FlushInv, NeverTorn
<1>9. /\ path' # NoInode => synced'[path'] = data'[path']
      /\ dpath' # NoInode => synced'[dpath'] = data'[dpath']
      /\ tmp' # NoInode => tmp' # path' /\ tmp' # dpath'
      /\ dtmp' # NoInode => dtmp' # dpath'
  BY <1>1, <1>3 DEF FlushInv
<1>10. ASSUME NEW g \in Handle
       PROVE  /\ pc'[g] \in {"closed", "reading", "ready"}
              /\ pc'[g] = "reading" => fd'[g] # NoInode /\ fd'[g] # tmp'
  BY <1>1, <1>4, <1>5 DEF FlushInv
<1> QED
  BY <1>7, <1>8, <1>9, <1>10 DEF FlushInv, Bytes

\* A system call of any handle, and a crash, keep FlushInv.
LEMMA FlushInvStep ==
    ASSUME InTurn, TypeOK, FlushInv, NEW h \in Handle, Step(h)
    PROVE  FlushInv'
<1>k. ASSUME Reclaim, UNCHANGED entries
      PROVE  \A n \in Inode : n \in {path, tmp, dpath, dtmp} =>
                 data'[n] = data[n] /\ synced'[n] = synced[n]
  BY <1>k, KeptLive DEF Reclaim, entries
<1>1. CASE OpenAbsent(h)
  BY <1>1, ReturnStep DEF OpenAbsent
<1>2. CASE OpenFile(h)
  <2>1. /\ pc' = [pc EXCEPT ![h] = "reading"] /\ fd' = [fd EXCEPT ![h] = path]
        /\ path # NoInode
        /\ UNCHANGED <<path, tmp, dpath, dtmp, data, synced, mem, off>>
    BY <1>2 DEF OpenFile, Goto, entries
  <2>2. /\ pc'[h] = "reading" /\ fd'[h] = path
        /\ \A g \in Handle : g # h => pc'[g] = pc[g] /\ fd'[g] = fd[g]
    BY <2>1 DEF TypeOK
  <2>3. path # tmp
    BY <2>1 DEF FlushInv
  <2> QED
    BY <2>1, <2>2, <2>3 DEF FlushInv, NeverTorn
<1>3. CASE ReadFile(h)
  <2>1. pc[h] = "reading" /\ Parse(data[fd[h]]) # Damaged
    BY <1>3 DEF ReadFile
  <2>2. path # NoInode => Parse(data[path]) # Damaged
    BY <2>1 DEF FlushInv
  <2>3. /\ Return(h, "ready", "Opened") /\ UNCHANGED entries /\ Reclaim
        /\ mem' = [mem EXCEPT ![h] = Parse(data[fd[h]])]
    BY <1>3 DEF ReadFile
  <2>4. \A g \in Handle : g # h => mem'[g] = mem[g]
    BY <2>3 DEF TypeOK
  <2> QED
    BY <1>k, <2>2, <2>3, <2>4, ReturnStep
<1>4. CASE RejectFile(h)
  BY <1>k, <1>4, ReturnStep DEF RejectFile
<1>5. CASE ReadFails(h)
  BY <1>k, <1>5, ReturnStep DEF ReadFails
<1>6. ASSUME NEW d \in Doc, Update(h, d) PROVE FlushInv'
  <2>1. /\ pc[h] = "ready" /\ mem' = [mem EXCEPT ![h] = d]
        /\ UNCHANGED <<path, tmp, dpath, dtmp, data, synced, pc, fd, off>>
    BY <1>6 DEF Update, entries
  <2>2. \A g \in Handle : g # h => mem'[g] = mem[g]
    BY <2>1 DEF TypeOK
  <2>3. \A g \in Handle : pc[g] # "ready" => mem'[g] = mem[g]
    BY <2>1, <2>2
  <2> QED
    BY <2>1, <2>3 DEF FlushInv, NeverTorn
<1>7. CASE Flush(h)
  <2>1. /\ h \in Writers /\ pc[h] = "ready" /\ pc' = [pc EXCEPT ![h] = "create"]
        /\ UNCHANGED <<path, tmp, dpath, dtmp, data, synced, mem, fd, off>>
    BY <1>7 DEF Flush, entries, Goto
  <2>2. pc'[h] = "create" /\ \A g \in Handle : g # h => pc'[g] = pc[g]
    BY <2>1 DEF TypeOK
  <2>3. ~(path # NoInode /\ Parse(data[path]) = Damaged)
    BY <2>1 DEF FlushInv
  <2> QED
    BY <2>1, <2>2, <2>3 DEF FlushInv, NeverTorn
<1>8. CASE Create(h)
  BY <1>8, CreateStep
<1>9. CASE Write(h)
  BY <1>9, WriteStep
<1>10. CASE SyncAll(h)
  BY <1>10, SyncStep
<1>11. CASE Rename(h)
  BY <1>11, RenameStep
<1>12. CASE FlushFails(h)
  <2>1. ~(path # NoInode /\ Parse(data[path]) = Damaged)
    BY <1>12 DEF FlushFails, FlushInv
  <2> QED
    BY <1>k, <1>12, <2>1, ReturnStep DEF FlushFails
<1>13. CASE Crash(h)
  <2>1. \A g \in Handle : g # h => mem'[g] = mem[g]
    BY <1>13 DEF Crash, TypeOK
  <2> QED
    BY <1>k, <1>13, <2>1, ReturnStep DEF Crash
<1> QED
  BY <1>1, <1>2, <1>3, <1>4, <1>5, <1>6, <1>7, <1>8, <1>9, <1>10, <1>11, <1>12, <1>13 DEF Step, Quiet

\* Every step keeps FlushInv, write-backs and power losses included.
LEMMA FlushInvNext == InTurn /\ TypeOK /\ FlushInv /\ [Next]_vars => FlushInv'
<1> SUFFICES ASSUME InTurn, TypeOK, FlushInv, [Next]_vars PROVE FlushInv'
  OBVIOUS
<1>1. ASSUME NEW h \in Handle, Step(h) PROVE FlushInv'
  BY <1>1, FlushInvStep
<1>2. ASSUME NEW n \in Inode, WriteBack(n) PROVE FlushInv'
  <2>1. /\ synced' = [synced EXCEPT ![n] = data[n]]
        /\ UNCHANGED <<path, tmp, dpath, dtmp, data, pc, mem, fd, off>>
    BY <1>2 DEF WriteBack, entries
  <2>2. \A m \in Inode : synced'[m] = IF m = n THEN data[n] ELSE synced[m]
    BY <2>1 DEF TypeOK
  <2>3. /\ path # NoInode => synced'[path] = data[path]
        /\ dpath # NoInode => synced'[dpath] = synced[dpath]
        /\ tmp # NoInode /\ synced[tmp] = data[tmp] => synced'[tmp] = synced[tmp]
    BY <2>2 DEF FlushInv, TypeOK
  <2> QED
    BY <2>1, <2>3 DEF FlushInv, NeverTorn
<1>3. CASE WriteBackEntries
  <2>1. /\ dpath' = path /\ dtmp' = tmp
        /\ UNCHANGED <<path, tmp, pc, mem, fd, off>>
        /\ data' = Kept(data) /\ synced' = Kept(synced)
    BY <1>3 DEF WriteBackEntries, Reclaim
  <2>2. ASSUME NEW n \in Inode, n \in {path, tmp}
        PROVE  data'[n] = data[n] /\ synced'[n] = synced[n]
    BY <2>1, <2>2, KeptLive
  <2>3. /\ path # NoInode => data'[path] = data[path] /\ synced'[path] = synced[path]
        /\ tmp # NoInode => data'[tmp] = data[tmp] /\ synced'[tmp] = synced[tmp]
    BY <2>2 DEF TypeOK
  <2>4. NeverTorn'
    BY <2>1, <2>3 DEF FlushInv, NeverTorn
  <2> QED
    BY <2>1, <2>3, <2>4 DEF FlushInv, Bytes
<1>4. CASE PowerLoss
  <2>1. /\ path' = dpath /\ tmp' = dtmp /\ dpath' = dpath /\ dtmp' = dtmp
        /\ pc' = [h \in Handle |-> "closed"]
        /\ data' = Kept(synced) /\ synced' = Kept(synced)
    BY <1>4 DEF PowerLoss
  <2>2. dpath # NoInode => data'[dpath] = synced[dpath] /\ synced'[dpath] = synced[dpath]
    BY <2>1, KeptLive DEF TypeOK
  <2>3. \A h \in Handle : pc'[h] = "closed"
    BY <2>1
  <2>4. NeverTorn'
    BY <2>1, <2>2 DEF FlushInv, NeverTorn
  <2> QED
    BY <2>1, <2>2, <2>3, <2>4 DEF FlushInv
<1>5. CASE UNCHANGED vars
  BY <1>5 DEF vars, FlushInv, NeverTorn, Bytes
<1> QED
  BY <1>1, <1>2, <1>3, <1>4, <1>5 DEF Next

\* When the handles flush in turn, each system call of a flush finds what the one
\* before it left: FlushInv is inductive, through crashes and power losses.
THEOREM FlushInTurn == Spec /\ []InTurn => []FlushInv
<1> QED
  BY FlushInvInit, FlushInvNext, TypeCorrect, PTL DEF Spec

\* So it is with one handle that flushes: it takes turns with itself.
THEOREM FlushCorrect == SingleWriter => (Spec => []FlushInv)
<1> SUFFICES ASSUME SingleWriter PROVE Spec => []FlushInv
  OBVIOUS
<1>1. TypeOK /\ FlushInv /\ [Next]_vars => FlushInv'
  BY FlushInvNext, OneInTurn
<1> QED
  BY <1>1, FlushInvInit, TypeCorrect, PTL DEF Spec

\* The path never names a part of a document, in memory or on the disk.
THEOREM PathNeverTorn == SingleWriter => (Spec => []NeverTorn)
<1> SUFFICES ASSUME SingleWriter PROVE Spec => []NeverTorn
  OBVIOUS
<1>1. FlushInv => NeverTorn
  BY DEF FlushInv
<1> QED
  BY <1>1, FlushCorrect, PTL

\* No handle gets past `open` while the file is damaged.
THEOREM CorruptIsKept == SingleWriter => (Spec => []CorruptFailsClosed)
<1> SUFFICES ASSUME SingleWriter PROVE Spec => []CorruptFailsClosed
  OBVIOUS
<1>1. FlushInv => CorruptFailsClosed
  BY DEF FlushInv, CorruptFailsClosed
<1> QED
  BY <1>1, FlushCorrect, PTL

-----------------------------------------------------------------------------
(* The file is one register. *)

StatusOf(l) == CASE l = "closed" -> "closed"
                 [] l = "reading" -> "opening"
                 [] l = "ready" -> "open"
                 [] OTHER -> "flushing"
Statuses == [g \in Handle |-> Status(g)]
Caught == [g \in Handle |-> IF pc[g] = "reading" THEN Parse(data[fd[g]]) ELSE Absent]

\* A handle that is not open holds nothing.
MemInv == \A h \in Handle : pc[h] \in {"closed", "reading"} => mem[h] = EmptyDoc

\* Every step keeps that.
LEMMA MemStep == TypeOK /\ MemInv /\ [Next]_vars => MemInv'
<1> SUFFICES ASSUME TypeOK, MemInv, [Next]_vars PROVE MemInv'
  OBVIOUS
<1>1. ASSUME NEW h \in Handle, Step(h) PROVE MemInv'
  <2>1. ASSUME NEW l, Goto(h, l), mem' = mem, l \in {"closed", "reading"} => mem[h] = EmptyDoc
        PROVE  MemInv'
    BY <2>1 DEF Goto, MemInv, TypeOK
  <2>2. CASE OpenAbsent(h) \/ FlushFails(h)
    BY <2>1, <2>2 DEF OpenAbsent, FlushFails, Return
  <2>3. CASE OpenFile(h) \/ RejectFile(h) \/ ReadFails(h)
    <3>1. mem[h] = EmptyDoc
      BY <2>3 DEF OpenFile, RejectFile, ReadFails, MemInv
    <3> QED
      BY <2>1, <2>3, <3>1 DEF OpenFile, RejectFile, ReadFails, Return
  <2>4. CASE ReadFile(h)
    BY <2>4 DEF ReadFile, Return, Goto, MemInv, TypeOK
  <2>5. CASE \E d \in Doc : Update(h, d)
    BY <2>5 DEF Update, MemInv, TypeOK
  <2>6. CASE Flush(h) \/ Create(h) \/ SyncAll(h)
    BY <2>1, <2>6 DEF Flush, Create, SyncAll
  <2>7. CASE Write(h)
    <3>1. PICK l \in {"sync", "write"} : Goto(h, l) /\ mem' = mem
      BY <2>7 DEF Write
    <3> QED
      BY <2>1, <3>1
  <2>8. CASE Rename(h)
    BY <2>1, <2>8 DEF Rename, Return
  <2>9. CASE Crash(h)
    BY <2>9 DEF Crash, Return, Goto, MemInv, TypeOK
  <2> QED
    BY <1>1, <2>2, <2>3, <2>4, <2>5, <2>6, <2>7, <2>8, <2>9 DEF Step, Quiet
<1>2. CASE (\E n \in Inode : WriteBack(n)) \/ WriteBackEntries \/ UNCHANGED vars
  BY <1>2 DEF WriteBack, WriteBackEntries, vars, MemInv
<1>3. CASE PowerLoss
  BY <1>3 DEF PowerLoss, MemInv
<1> QED
  BY <1>1, <1>2, <1>3 DEF Next

\* A file that a handle has open keeps its contents.
LEMMA KeptOpen ==
    ASSUME NEW f, NEW g \in Handle, fd'[g] \in Inode
    PROVE  Kept(f)[fd'[g]] = f[fd'[g]]
BY DEF Kept, Live

\* The register's view of a handle that goes elsewhere.
LEMMA GotoMaps ==
    ASSUME TypeOK, NEW h \in Handle, NEW l, Goto(h, l)
    PROVE  Statuses' = [Statuses EXCEPT ![h] = StatusOf(l)]
<1>1. \A g \in Handle : pc'[g] = IF g = h THEN l ELSE pc[g]
  BY DEF Goto, TypeOK
<1>2. \A g \in Handle : Status(g)' = IF g = h THEN StatusOf(l) ELSE Status(g)
  BY <1>1 DEF Status, StatusOf
<1>3. Statuses' = [g \in Handle |-> IF g = h THEN StatusOf(l) ELSE Status(g)]
  BY <1>2 DEF Statuses
<1> QED
  BY <1>3 DEF Statuses

\* And of what the others have caught.
LEMMA CaughtMaps ==
    ASSUME TypeOK, NEW h \in Handle, NEW l, Goto(h, l), NEW v,
           \A g \in Handle : g # h /\ pc[g] = "reading" =>
               fd'[g] = fd[g] /\ data'[fd[g]] = data[fd[g]],
           v = IF l = "reading" THEN Parse(data'[fd'[h]]) ELSE Absent
    PROVE  Caught' = [Caught EXCEPT ![h] = v]
<1>1. \A g \in Handle : pc'[g] = IF g = h THEN l ELSE pc[g]
  BY DEF Goto, TypeOK
<1>2. \A g \in Handle : (IF pc'[g] = "reading" THEN Parse(data'[fd'[g]]) ELSE Absent)
         = IF g = h THEN v ELSE IF pc[g] = "reading" THEN Parse(data[fd[g]]) ELSE Absent
  BY <1>1
<1>3. Caught' = [g \in Handle |-> IF g = h THEN v ELSE IF pc[g] = "reading" THEN Parse(data[fd[g]]) ELSE Absent]
  BY <1>2 DEF Caught
<1> QED
  BY <1>3 DEF Caught

\* What is under the path, in memory and on the disk, is the same to the register.
Stays == File(path, data)' = File(path, data) /\ File(dpath, synced)' = File(dpath, synced)

\* It is, when the entries stay and what they name does.
LEMMA EntriesStay ==
    ASSUME path' = path, dpath' = dpath,
           path # NoInode => data'[path] = data[path],
           dpath # NoInode => synced'[dpath] = synced[dpath]
    PROVE  Stays
BY DEF Stays, File

\* A call that returns and leaves the entries.
LEMMA ReturnMaps ==
    ASSUME TypeOK, FlushInv, NEW h \in Handle, NEW l \in {"closed", "ready"}, NEW r,
           Return(h, l, r), UNCHANGED entries, Reclaim \/ UNCHANGED <<data, synced>>
    PROVE  /\ Statuses' = [Statuses EXCEPT ![h] = StatusOf(l)]
           /\ reply' = [reply EXCEPT ![h] = r]
           /\ Caught' = [Caught EXCEPT ![h] = Absent]
           /\ Stays
<1>1. Goto(h, l) /\ fd' = [fd EXCEPT ![h] = NoInode] /\ reply' = [reply EXCEPT ![h] = r]
  BY DEF Return
<1>2. UNCHANGED <<path, tmp, dpath, dtmp>>
  BY DEF entries
<1>3. ASSUME NEW g \in Handle, g # h, pc[g] = "reading"
      PROVE  fd'[g] = fd[g] /\ data'[fd[g]] = data[fd[g]]
  <2>1. fd'[g] = fd[g] /\ fd[g] \in Inode
    BY <1>1, <1>3, ReadingIsOpen DEF TypeOK
  <2> QED
    BY <2>1, KeptOpen DEF Reclaim
<1>4. Caught' = [Caught EXCEPT ![h] = Absent]
  <2>1. Absent = IF l = "reading" THEN Parse(data'[fd'[h]]) ELSE Absent
    OBVIOUS
  <2> QED
    BY <1>1, <1>3, <2>1, CaughtMaps
<1>5. /\ path # NoInode => data'[path] = data[path]
      /\ dpath # NoInode => synced'[dpath] = synced[dpath]
  BY <1>2, KeptLive DEF Reclaim, TypeOK
<1> QED
  BY <1>1, <1>2, <1>4, <1>5, GotoMaps, EntriesStay

\* A call that goes on, or changes only the document in memory, and touches no
\* file but the temporary one.
LEMMA GoesOn ==
    ASSUME TypeOK, FlushInv, NEW h \in Handle, NEW l, Goto(h, l), l # "reading",
           UNCHANGED <<path, dpath>>,
           \A n \in Inode : n \in {path, dpath} \/ (\E g \in Handle : g # h /\ pc[g] = "reading" /\ fd[g] = n)
               => data'[n] = data[n],
           dpath # NoInode => synced'[dpath] = synced[dpath],
           \A g \in Handle : g # h => fd'[g] = fd[g]
    PROVE  /\ Statuses' = [Statuses EXCEPT ![h] = StatusOf(l)]
           /\ Caught' = [Caught EXCEPT ![h] = Absent]
           /\ Stays
<1>1. ASSUME NEW g \in Handle, g # h, pc[g] = "reading"
      PROVE  fd'[g] = fd[g] /\ data'[fd[g]] = data[fd[g]]
  <2>1. fd[g] \in Inode
    BY <1>1, ReadingIsOpen
  <2> QED
    BY <1>1, <2>1
<1>2. Absent = IF l = "reading" THEN Parse(data'[fd'[h]]) ELSE Absent
  OBVIOUS
<1>3. Caught' = [Caught EXCEPT ![h] = Absent]
  BY <1>1, <1>2, CaughtMaps
<1>4. path # NoInode => data'[path] = data[path]
  BY DEF TypeOK
<1> QED
  BY <1>3, <1>4, GotoMaps, EntriesStay

\* What a handle of the register does that stores nothing.
RegisterQuiet(h) ==
    \/ Register!OpenAbsent(h) \/ Register!OpenBegin(h) \/ Register!OpenEnd(h)
    \/ \E d \in Doc : Register!Update(h, d)
    \/ Register!FlushBegin(h) \/ Register!FlushFails(h) \/ Register!Close(h)

\* A system call of a handle, but for the rename, is such a step of the register,
\* or nothing to it.
LEMMA QuietMaps ==
    ASSUME TypeOK, FlushInv, MemInv, NEW h \in Handle, Quiet(h)
    PROVE  RegisterQuiet(h) \/ UNCHANGED Register!vars
<1>s. /\ Statuses = [g \in Handle |-> Status(g)] /\ Statuses[h] = StatusOf(pc[h])
      /\ Caught = [g \in Handle |-> IF pc[g] = "reading" THEN Parse(data[fd[g]]) ELSE Absent]
      /\ Caught[h] = IF pc[h] = "reading" THEN Parse(data[fd[h]]) ELSE Absent
  BY DEF Statuses, Status, StatusOf, Caught
<1>t. StatusOf("closed") = "closed" /\ StatusOf("ready") = "open" /\ StatusOf("reading") = "opening"
  BY DEF StatusOf
<1>u. \A l \in {"create", "write", "sync", "rename"} : StatusOf(l) = "flushing"
  BY DEF StatusOf
<1>n. ASSUME pc[h] # "reading" PROVE [Caught EXCEPT ![h] = Absent] = Caught
  <2>1. \A g \in Handle : [Caught EXCEPT ![h] = Absent][g] = Caught[g]
    BY <1>n, <1>s
  <2> QED
    BY <1>s, <2>1
<1>f. ASSUME Statuses[h] = "flushing" PROVE [Statuses EXCEPT ![h] = "flushing"] = Statuses
  BY <1>f, <1>s
<1>1. CASE OpenAbsent(h)
  <2>1. /\ pc[h] = "closed" /\ path = NoInode /\ Return(h, "ready", "Opened")
        /\ UNCHANGED entries /\ UNCHANGED <<data, synced>> /\ mem' = mem
    BY <1>1 DEF OpenAbsent
  <2>2. /\ Statuses' = [Statuses EXCEPT ![h] = StatusOf("ready")]
        /\ reply' = [reply EXCEPT ![h] = "Opened"]
        /\ Caught' = [Caught EXCEPT ![h] = Absent]
        /\ Stays
    BY <2>1, ReturnMaps
  <2>3. Register!OpenAbsent(h)
    BY <1>n, <1>s, <1>t, <2>1, <2>2
       DEF Register!OpenAbsent, Register!Goto, Stays, File, Statuses, Caught
  <2> QED
    BY <2>3 DEF RegisterQuiet
<1>2. CASE OpenFile(h)
  <2>1. /\ pc[h] = "closed" /\ path # NoInode /\ Goto(h, "reading")
        /\ fd' = [fd EXCEPT ![h] = path] /\ reply' = [reply EXCEPT ![h] = "none"]
        /\ UNCHANGED <<path, dpath, data, synced, mem>>
    BY <1>2 DEF OpenFile, entries
  <2>2. Statuses' = [Statuses EXCEPT ![h] = StatusOf("reading")]
    BY <2>1, GotoMaps
  <2>3. Stays
    BY <2>1, EntriesStay
  <2>4. fd'[h] = path /\ \A g \in Handle : g # h => fd'[g] = fd[g]
    BY <2>1 DEF TypeOK
  <2>5. Caught' = [Caught EXCEPT ![h] = Parse(data[path])]
    <3>1. Parse(data[path]) = IF "reading" = "reading" THEN Parse(data'[fd'[h]]) ELSE Absent
      BY <2>1, <2>4
    <3> QED
      BY <2>1, <2>4, <3>1, CaughtMaps
  <2>6. Parse(data[path]) # Absent
    BY ParseType
  <2>7. Register!OpenBegin(h)
    BY <1>s, <1>t, <2>1, <2>2, <2>3, <2>5, <2>6
       DEF Register!OpenBegin, Register!Goto, Stays, File, Statuses, Caught
  <2> QED
    BY <2>7 DEF RegisterQuiet
<1>3. CASE ReadFile(h) \/ RejectFile(h)
  <2>1. /\ pc[h] = "reading" /\ UNCHANGED entries /\ Reclaim
        /\ IF Parse(data[fd[h]]) = Damaged
           THEN Return(h, "closed", "InvalidData") /\ mem' = mem
           ELSE Return(h, "ready", "Opened") /\ mem' = [mem EXCEPT ![h] = Parse(data[fd[h]])]
    BY <1>3 DEF ReadFile, RejectFile
  <2>2. PICK l \in {"closed", "ready"}, r \in {"InvalidData", "Opened"} :
           /\ Return(h, l, r)
           /\ IF Parse(data[fd[h]]) = Damaged
              THEN l = "closed" /\ r = "InvalidData" /\ mem' = mem
              ELSE l = "ready" /\ r = "Opened" /\ mem' = [mem EXCEPT ![h] = Parse(data[fd[h]])]
    BY <2>1
  <2>3. /\ Statuses' = [Statuses EXCEPT ![h] = StatusOf(l)]
        /\ reply' = [reply EXCEPT ![h] = r]
        /\ Caught' = [Caught EXCEPT ![h] = Absent]
        /\ Stays
    BY <2>1, <2>2, ReturnMaps
  <2>4. Caught[h] = Parse(data[fd[h]]) /\ Statuses[h] = "opening"
    BY <1>s, <1>t, <2>1
  <2>5. Register!OpenEnd(h)
    <3>1. CASE Parse(data[fd[h]]) = Damaged
      <4>1. /\ Statuses' = [Statuses EXCEPT ![h] = "closed"]
            /\ reply' = [reply EXCEPT ![h] = "InvalidData"] /\ mem' = mem
        BY <1>t, <2>2, <2>3, <3>1
      <4> QED
        BY <2>3, <2>4, <3>1, <4>1
           DEF Register!OpenEnd, Register!Goto, Stays, Statuses, Caught
    <3>2. CASE Parse(data[fd[h]]) # Damaged
      <4>1. /\ Statuses' = [Statuses EXCEPT ![h] = "open"]
            /\ reply' = [reply EXCEPT ![h] = "Opened"]
            /\ mem' = [mem EXCEPT ![h] = Caught[h]]
        BY <1>t, <2>2, <2>3, <2>4, <3>2
      <4> QED
        BY <2>3, <2>4, <3>2, <4>1
           DEF Register!OpenEnd, Register!Goto, Stays, Statuses, Caught
    <3> QED
      BY <3>1, <3>2
  <2> QED
    BY <2>5 DEF RegisterQuiet
<1>4. CASE ReadFails(h) \/ Crash(h)
  <2>1. mem' = [mem EXCEPT ![h] = EmptyDoc]
    <3>1. CASE ReadFails(h)
      <4>1. mem' = mem /\ mem[h] = EmptyDoc
        BY <3>1 DEF ReadFails, MemInv
      <4> QED
        BY <4>1 DEF TypeOK
    <3> QED
      BY <1>4, <3>1 DEF Crash
  <2>2. PICK r \in {"none", "IoError"} :
           Return(h, "closed", r) /\ UNCHANGED entries /\ Reclaim
    BY <1>4 DEF ReadFails, Crash
  <2>3. /\ Statuses' = [Statuses EXCEPT ![h] = "closed"]
        /\ reply' = [reply EXCEPT ![h] = r]
        /\ Caught' = [Caught EXCEPT ![h] = Absent]
        /\ Stays
    BY <1>t, <2>2, ReturnMaps
  <2>4. Register!Close(h)
    BY <2>1, <2>3 DEF Register!Close, Register!Goto, Stays, Statuses, Caught
  <2> QED
    BY <2>4 DEF RegisterQuiet
<1>5. ASSUME NEW d \in Doc, Update(h, d) PROVE RegisterQuiet(h)
  <2>1. /\ pc[h] = "ready" /\ mem' = [mem EXCEPT ![h] = d]
        /\ reply' = [reply EXCEPT ![h] = "none"]
        /\ UNCHANGED <<path, dpath, data, synced, pc, fd>>
    BY <1>5 DEF Update, entries
  <2>2. Statuses' = Statuses /\ Caught' = Caught /\ Stays
    BY <2>1 DEF Statuses, Status, Caught, Stays, File
  <2>3. Register!Update(h, d)
    BY <1>s, <1>t, <2>1, <2>2 DEF Register!Update, Stays, Statuses, Caught
  <2> QED
    BY <2>3 DEF RegisterQuiet
<1>6. CASE Flush(h)
  <2>1. /\ h \in Writers /\ pc[h] = "ready" /\ Goto(h, "create")
        /\ reply' = [reply EXCEPT ![h] = "none"]
        /\ UNCHANGED <<path, dpath, data, synced, mem, fd>>
    BY <1>6 DEF Flush, entries
  <2>2. /\ Statuses' = [Statuses EXCEPT ![h] = StatusOf("create")]
        /\ Caught' = [Caught EXCEPT ![h] = Absent]
        /\ Stays
    BY <2>1, GoesOn
  <2>3. Register!FlushBegin(h)
    BY <1>n, <1>s, <1>t, <1>u, <2>1, <2>2
       DEF Register!FlushBegin, Register!Goto, Stays, Statuses, Caught
  <2> QED
    BY <2>3 DEF RegisterQuiet
<1>7. CASE Create(h) \/ Write(h) \/ SyncAll(h)
  <2>1. PICK l \in {"write", "sync", "rename"} :
           /\ pc[h] \in {"create", "write", "sync"} /\ Goto(h, l)
           /\ UNCHANGED <<path, dpath, mem, reply>>
           /\ \A g \in Handle : g # h => fd'[g] = fd[g]
    <3>1. CASE Create(h)
      BY <3>1 DEF Create, TypeOK
    <3>2. CASE Write(h)
      BY <3>2 DEF Write, entries
    <3>3. CASE SyncAll(h)
      BY <3>3 DEF SyncAll, entries, TypeOK
    <3> QED
      BY <1>7, <3>1, <3>2, <3>3
  <2> DEFINE others == {path, dpath} \cup {fd[g] : g \in {k \in Handle : k # h /\ pc[k] = "reading"}}
  <2>2. \A n \in Inode : n \in others => data'[n] = data[n]
    <3>1. CASE Create(h)
      <4>1. PICK n \in Inode :
               (IF tmp = NoInode THEN n \notin Live ELSE n = tmp) /\ data' = [data EXCEPT ![n] = <<>>]
        BY <3>1 DEF Create
      <4>2. n \notin others
        BY <4>1 DEF Live, FlushInv
      <4> QED
        BY <4>1, <4>2 DEF TypeOK
    <3>2. CASE Write(h)
      <4>1. fd[h] = tmp /\ tmp # NoInode /\ tmp \notin others
        BY <3>2 DEF Write, FlushInv
      <4> QED
        BY <3>2, <4>1 DEF Write, TypeOK
    <3>3. CASE SyncAll(h)
      <4>1. data' = Kept(data) /\ path' = path /\ dpath' = dpath
        BY <3>3 DEF SyncAll, entries
      <4>2. \A n \in Inode : n \in others => n \in Live'
        BY <2>1, <4>1 DEF Live
      <4> QED
        BY <4>1, <4>2 DEF Kept
    <3> QED
      BY <1>7, <3>1, <3>2, <3>3
  <2>3. dpath # NoInode => synced'[dpath] = synced[dpath]
    <3>1. CASE Create(h) \/ Write(h)
      BY <3>1 DEF Create, Write
    <3>2. CASE SyncAll(h)
      <4>1. /\ synced' = Kept([synced EXCEPT ![fd[h]] = data[fd[h]]])
            /\ dpath' = dpath /\ fd[h] = tmp /\ tmp # NoInode /\ tmp # dpath
        BY <3>2 DEF SyncAll, FlushInv, entries
      <4>2. dpath # NoInode => synced'[dpath] = [synced EXCEPT ![fd[h]] = data[fd[h]]][dpath]
        BY <4>1, KeptLive DEF TypeOK
      <4> QED
        BY <4>1, <4>2 DEF TypeOK
    <3> QED
      BY <1>7, <3>1, <3>2
  <2> HIDE DEF others
  <2>4. \A n \in Inode :
           n \in {path, dpath} \/ (\E g \in Handle : g # h /\ pc[g] = "reading" /\ fd[g] = n)
             => data'[n] = data[n]
    BY <2>2 DEF others
  <2>5. /\ Statuses' = [Statuses EXCEPT ![h] = StatusOf(l)]
        /\ Caught' = [Caught EXCEPT ![h] = Absent]
        /\ Stays
    BY <2>1, <2>3, <2>4, GoesOn
  <2>6. Statuses' = Statuses /\ Caught' = Caught
    BY <1>f, <1>n, <1>s, <1>u, <2>1, <2>5
  <2> QED
    BY <2>1, <2>5, <2>6 DEF Register!vars, Stays, Statuses, Caught
<1>8. CASE FlushFails(h)
  <2>1. /\ pc[h] \in {"create", "write", "sync", "rename"} /\ Return(h, "ready", "IoError")
        /\ UNCHANGED entries /\ Reclaim /\ mem' = mem
    BY <1>8 DEF FlushFails
  <2>2. /\ Statuses' = [Statuses EXCEPT ![h] = "open"]
        /\ reply' = [reply EXCEPT ![h] = "IoError"]
        /\ Caught' = [Caught EXCEPT ![h] = Absent]
        /\ Stays
    BY <1>t, <2>1, ReturnMaps
  <2>3. Register!FlushFails(h)
    BY <1>n, <1>s, <1>u, <2>1, <2>2
       DEF Register!FlushFails, Register!Goto, Stays, Statuses, Caught
  <2> QED
    BY <2>3 DEF RegisterQuiet
<1> QED
  BY <1>1, <1>2, <1>3, <1>4, <1>5, <1>6, <1>7, <1>8 DEF Quiet

\* The rename stores the document the handle holds.
LEMMA RenameMaps ==
    ASSUME TypeOK, FlushInv, NEW h \in Handle, Rename(h)
    PROVE  Register!Store(h)
<1>s. Statuses = [g \in Handle |-> Status(g)] /\ Statuses[h] = StatusOf(pc[h])
  BY DEF Statuses, Status, StatusOf
<1>t. StatusOf("ready") = "open" /\ StatusOf("rename") = "flushing"
  BY DEF StatusOf
<1>1. /\ pc[h] = "rename" /\ path' = tmp /\ tmp # NoInode /\ tmp \in Inode
      /\ dpath' = dpath /\ mem' = mem
      /\ Goto(h, "ready") /\ fd' = [fd EXCEPT ![h] = NoInode]
      /\ reply' = [reply EXCEPT ![h] = "Flushed"] /\ Reclaim
      /\ data[tmp] = Bytes(mem[h]) /\ mem[h] \in Doc
  BY DEF Rename, Return, FlushInv, TypeOK
<1>2. Statuses' = [Statuses EXCEPT ![h] = "open"]
  BY <1>t, <1>1, GotoMaps
<1>3. data'[tmp] = Bytes(mem[h]) /\ (dpath # NoInode => synced'[dpath] = synced[dpath])
  BY <1>1, KeptLive DEF Reclaim, TypeOK
<1>4. File(path, data)' = mem[h] /\ File(dpath, synced)' = File(dpath, synced)
  BY <1>1, <1>3, ParseBytes DEF File
<1>5. ASSUME NEW g \in Handle, g # h, pc[g] = "reading"
      PROVE  fd'[g] = fd[g] /\ data'[fd[g]] = data[fd[g]]
  <2>1. fd'[g] = fd[g] /\ fd[g] \in Inode
    BY <1>1, <1>5, ReadingIsOpen DEF TypeOK
  <2> QED
    BY <1>1, <2>1, KeptOpen DEF Reclaim
<1>6. Caught' = [Caught EXCEPT ![h] = Absent]
  <2>1. Absent = IF "ready" = "reading" THEN Parse(data'[fd'[h]]) ELSE Absent
    OBVIOUS
  <2> QED
    BY <1>1, <1>5, <2>1, CaughtMaps
<1>7. Caught' = Caught
  <2>1. \A g \in Handle : [Caught EXCEPT ![h] = Absent][g] = Caught[g]
    BY <1>1 DEF Caught
  <2> QED
    BY <1>6, <2>1 DEF Caught
<1> QED
  BY <1>s, <1>t, <1>1, <1>2, <1>4, <1>7
     DEF Register!Store, Register!Goto, Statuses, Caught

\* To the register, a write-back of data is nothing.
LEMMA WriteBackMaps ==
    ASSUME TypeOK, FlushInv, NEW n \in Inode, WriteBack(n)
    PROVE  UNCHANGED Register!vars
<1>1. /\ synced' = [synced EXCEPT ![n] = data[n]]
      /\ UNCHANGED <<path, dpath, data, pc, mem, fd, reply>>
  BY DEF WriteBack, entries
<1>2. dpath # NoInode => synced'[dpath] = synced[dpath]
  BY <1>1 DEF FlushInv, TypeOK
<1>3. Statuses' = Statuses /\ Caught' = Caught /\ Stays
  BY <1>1, <1>2, EntriesStay DEF Statuses, Status, Caught
<1> QED
  BY <1>1, <1>3 DEF Register!vars, Stays, Statuses, Caught

\* A write-back of the directory saves the document that is there.
LEMMA SaveMaps ==
    ASSUME TypeOK, FlushInv, WriteBackEntries
    PROVE  Register!Save
<1>1. /\ path' = path /\ dpath' = path
      /\ UNCHANGED <<pc, mem, fd, reply>> /\ Reclaim
  BY DEF WriteBackEntries
<1>2. path # NoInode => data'[path] = data[path] /\ synced'[path] = data[path]
  BY <1>1, KeptLive DEF Reclaim, FlushInv, TypeOK
<1>3. File(path, data)' = File(path, data) /\ File(dpath, synced)' = File(path, data)
  BY <1>1, <1>2 DEF File
<1>4. ASSUME NEW g \in Handle, pc[g] = "reading" PROVE data'[fd[g]] = data[fd[g]]
  <2>1. fd'[g] = fd[g] /\ fd[g] \in Inode
    BY <1>1, <1>4, ReadingIsOpen
  <2> QED
    BY <1>1, <2>1, KeptOpen DEF Reclaim
<1>5. Statuses' = Statuses /\ Caught' = Caught
  BY <1>1, <1>4 DEF Statuses, Status, Caught
<1> QED
  BY <1>1, <1>3, <1>5 DEF Register!Save, Statuses, Caught

\* A power loss brings back the document that was saved.
LEMMA LossMaps ==
    ASSUME TypeOK, FlushInv, PowerLoss
    PROVE  Register!PowerLoss
<1>1. /\ path' = dpath /\ dpath' = dpath
      /\ data' = Kept(synced) /\ synced' = Kept(synced)
      /\ pc' = [h \in Handle |-> "closed"]
      /\ mem' = [h \in Handle |-> EmptyDoc]
      /\ reply' = [h \in Handle |-> "none"]
  BY DEF PowerLoss
<1>2. dpath # NoInode => data'[dpath] = synced[dpath] /\ synced'[dpath] = synced[dpath]
  BY <1>1, KeptLive DEF TypeOK
<1>3. File(path, data)' = File(dpath, synced) /\ File(dpath, synced)' = File(dpath, synced)
  BY <1>1, <1>2 DEF File
<1>4. Statuses' = [h \in Handle |-> "closed"] /\ Caught' = [h \in Handle |-> Absent]
  BY <1>1 DEF Statuses, Status, Caught
<1> QED
  BY <1>1, <1>3, <1>4 DEF Register!PowerLoss, Statuses, Caught

\* So every step of the file is a step of the register, or nothing to it.
LEMMA NextMaps ==
    TypeOK /\ FlushInv /\ MemInv /\ [Next]_vars => [Register!Next]_(Register!vars)
<1> SUFFICES ASSUME TypeOK, FlushInv, MemInv, [Next]_vars
             PROVE  Register!Next \/ UNCHANGED Register!vars
  OBVIOUS
<1>1. ASSUME NEW h \in Handle, Quiet(h) PROVE Register!Next \/ UNCHANGED Register!vars
  BY <1>1, QuietMaps DEF Register!Next, RegisterQuiet
<1>2. ASSUME NEW h \in Handle, Rename(h) PROVE Register!Next
  BY <1>2, RenameMaps DEF Register!Next
<1>3. ASSUME NEW n \in Inode, WriteBack(n) PROVE UNCHANGED Register!vars
  BY <1>3, WriteBackMaps
<1>4. CASE WriteBackEntries
  BY <1>4, SaveMaps DEF Register!Next
<1>5. CASE PowerLoss
  BY <1>5, LossMaps DEF Register!Next
<1>6. CASE UNCHANGED vars
  <2>1. Statuses' = Statuses /\ Caught' = Caught /\ Stays /\ mem' = mem /\ reply' = reply
    BY <1>6 DEF vars, Statuses, Status, Caught, Stays, File
  <2> QED
    BY <2>1 DEF Register!vars, Stays, Statuses, Caught
<1> QED
  BY <1>1, <1>2, <1>3, <1>4, <1>5, <1>6 DEF Next, Step

\* The register starts with what the file holds.
LEMMA InitMaps == Init => Register!Init /\ MemInv
<1> SUFFICES ASSUME Init PROVE Register!Init /\ MemInv
  OBVIOUS
<1>1. /\ dpath = path /\ synced = data
      /\ pc = [h \in Handle |-> "closed"]
      /\ mem = [h \in Handle |-> EmptyDoc]
      /\ reply = [h \in Handle |-> "none"]
  BY DEF Init
<1>2. File(path, data) \in Doc \cup {Absent, Damaged} /\ File(dpath, synced) = File(path, data)
  BY <1>1, ParseType DEF File
<1>3. Statuses = [h \in Handle |-> "closed"] /\ Caught = [h \in Handle |-> Absent]
  BY <1>1 DEF Statuses, Status, Caught
<1> QED
  BY <1>1, <1>2, <1>3 DEF Register!Init, MemInv, Statuses, Caught

\* To handles that flush in turn the file is one register: `Ok` means stored, an
\* error means nothing was stored, and no crash leaves a mixture.
THEOREM RegisterInTurn == Spec /\ []InTurn => ImplementsRegister
<1>1. Spec => []MemInv
  BY InitMaps, MemStep, TypeCorrect, PTL DEF Spec
<1> QED
  BY <1>1, NextMaps, InitMaps, TypeCorrect, FlushInTurn, PTL
     DEF Spec, ImplementsRegister, Register!Spec

\* So it is with one handle that flushes.
THEOREM FileIsARegister == SingleWriter => (Spec => ImplementsRegister)
<1> SUFFICES ASSUME SingleWriter PROVE Spec => ImplementsRegister
  OBVIOUS
<1>1. FlushInv => InTurn
  BY OneInTurn
<1> QED
  BY <1>1, FlushCorrect, RegisterInTurn, PTL

-----------------------------------------------------------------------------
(* What holds of one pin file holds of a shared one. *)

\* The hosts do what FilePinStore says, and the log only watches.
LEMMA SharedStep == [SharedNext]_sharedVars => [Next]_vars
<1> SUFFICES ASSUME [SharedNext]_sharedVars PROVE Next \/ UNCHANGED vars
  OBVIOUS
<1>1. CASE Flushing \/ Saving \/ Losing \/ Other
  BY <1>1 DEF Flushing, Saving, Losing, Other, Next, Step
<1>2. CASE UNCHANGED sharedVars
  BY <1>2 DEF sharedVars
<1> QED
  BY <1>1, <1>2 DEF SharedNext

\* They flush in turn.
LEMMA SharedInTurn == SharedSpec => Spec /\ []InTurn
<1>1. SharedInit => InTurn
  BY DEF SharedInit, Init, InTurn, InFlush
<1>2. InTurn /\ [SharedNext]_sharedVars => InTurn'
  BY DEF SharedNext, sharedVars, vars, InTurn, InFlush
<1>3. SharedInit => Init
  BY DEF SharedInit
<1> QED
  BY <1>1, <1>2, <1>3, SharedStep, PTL DEF SharedSpec, Spec

\* Every variable keeps its type.
THEOREM SharedTypes == SharedSpec => []TypeOK
<1> QED
  BY SharedInTurn, TypeCorrect, PTL

\* Each system call of a flush finds what the one before it left.
THEOREM SharedFlushes == SharedSpec => []FlushInv
<1> QED
  BY SharedInTurn, FlushInTurn, PTL

\* The path never names a part of a document, nor of two.
THEOREM SharedNeverTorn == SharedSpec => []NeverTorn
<1>1. FlushInv => NeverTorn
  BY DEF FlushInv
<1> QED
  BY <1>1, SharedFlushes, PTL

\* No host gets past `open` while the file is damaged.
THEOREM SharedCorruptIsKept == SharedSpec => []CorruptFailsClosed
<1>1. FlushInv => CorruptFailsClosed
  BY DEF FlushInv, CorruptFailsClosed
<1> QED
  BY <1>1, SharedFlushes, PTL

\* To the hosts the file is one register.
THEOREM SharedRegister == SharedSpec => ImplementsRegister
<1> QED
  BY SharedInTurn, RegisterInTurn, PTL

-----------------------------------------------------------------------------
(* Nothing older than the own flush. *)

\* The log follows the register: its last document is the stored one, its durable
\* one the saved one, and what a host has caught or opened is from its own flush
\* on.
LogInv ==
    /\ log \in Seq(Doc \cup {Damaged})
    /\ durable \in 1..Len(log)
    /\ own \in [Handle -> 1..Len(log)]
    /\ log[Len(log)] = IF File(path, data) = Absent THEN EmptyDoc ELSE File(path, data)
    /\ log[durable] = IF File(dpath, synced) = Absent THEN EmptyDoc ELSE File(dpath, synced)
    /\ \A h \in Handle :
        /\ Caught[h] # Absent => \E i \in own[h]..Len(log) : Caught[h] = log[i]
        /\ reply[h] = "Opened" => \E i \in own[h]..Len(log) : mem[h] = log[i]

\* At the start the log has the document of the file.
LEMMA LogInit == SharedInit => LogInv
<1> SUFFICES ASSUME SharedInit PROVE LogInv
  OBVIOUS
<1>1. /\ durable = 1 /\ own = [h \in Handle |-> 1]
      /\ dpath = path /\ synced = data
      /\ pc = [h \in Handle |-> "closed"] /\ reply = [h \in Handle |-> "none"]
  BY DEF SharedInit, Init
<1>2. log = <<IF path = NoInode THEN EmptyDoc ELSE Parse(data[path])>>
  BY DEF SharedInit
<1>3. (IF path = NoInode THEN EmptyDoc ELSE Parse(data[path])) \in Doc \cup {Damaged}
  BY ParseType
<1>4. log \in Seq(Doc \cup {Damaged}) /\ Len(log) = 1
  BY <1>2, <1>3
<1>5. (IF File(path, data) = Absent THEN EmptyDoc ELSE File(path, data)) = log[1]
  BY <1>2, ParseType DEF File
<1>6. \A h \in Handle : Caught[h] = Absent /\ reply[h] # "Opened"
  BY <1>1 DEF Caught
<1> QED
  BY <1>1, <1>4, <1>5, <1>6 DEF LogInv, File

\* What a host that stores nothing changes for itself: it may catch the stored
\* document, and open the one it has caught or, where there is no file, an empty one.
LEMMA QuietChanges ==
    ASSUME TypeOK, MemInv, NEW h \in Handle, RegisterQuiet(h)
    PROVE  /\ Stays
           /\ \A g \in Handle : g # h =>
                 Caught'[g] = Caught[g] /\ mem'[g] = mem[g] /\ reply'[g] = reply[g]
           /\ Caught'[h] \in {Absent, Caught[h], File(path, data)}
           /\ reply'[h] = "Opened" =>
                 \/ mem'[h] = Caught[h] /\ Caught[h] # Absent
                 \/ mem'[h] = EmptyDoc /\ File(path, data) = Absent
<1>t. /\ Statuses[h] = Status(h)
      /\ Caught = [g \in Handle |-> Caught[g]]
      /\ mem \in [Handle -> Doc] /\ reply = [g \in Handle |-> reply[g]]
  BY DEF Statuses, Caught, TypeOK
<1>1. CASE Register!OpenAbsent(h)
  <2>1. /\ Statuses[h] = "closed" /\ File(path, data) = Absent
        /\ reply' = [reply EXCEPT ![h] = "Opened"]
        /\ Stays /\ Caught' = Caught /\ mem' = mem
    BY <1>1 DEF Register!OpenAbsent, Register!Goto, Stays, Statuses, Caught
  <2>2. mem[h] = EmptyDoc
    BY <1>t, <2>1 DEF Status, MemInv, TypeOK
  <2> QED
    BY <1>t, <2>1, <2>2
<1>2. CASE Register!OpenBegin(h)
  <2>1. /\ reply' = [reply EXCEPT ![h] = "none"]
        /\ Caught' = [Caught EXCEPT ![h] = File(path, data)]
        /\ Stays /\ mem' = mem
    BY <1>2 DEF Register!OpenBegin, Register!Goto, Stays, Statuses, Caught
  <2> QED
    BY <1>t, <2>1
<1>3. CASE Register!OpenEnd(h)
  <2>1. /\ Statuses[h] = "opening" /\ Stays /\ Caught' = [Caught EXCEPT ![h] = Absent]
        /\ \/ reply' = [reply EXCEPT ![h] = "InvalidData"] /\ mem' = mem
           \/ reply' = [reply EXCEPT ![h] = "Opened"] /\ mem' = [mem EXCEPT ![h] = Caught[h]]
    BY <1>3 DEF Register!OpenEnd, Register!Goto, Stays, Statuses, Caught
  <2>2. Caught[h] # Absent
    <3>1. pc[h] = "reading"
      BY <1>t, <2>1 DEF Status
    <3> QED
      BY <3>1, ParseType DEF Caught
  <2> QED
    BY <1>t, <2>1, <2>2
<1>4. ASSUME NEW d \in Doc, Register!Update(h, d)
      PROVE  /\ Stays /\ Caught' = Caught
             /\ mem' = [mem EXCEPT ![h] = d] /\ reply' = [reply EXCEPT ![h] = "none"]
  BY <1>4 DEF Register!Update, Stays, Statuses, Caught
<1>5. CASE Register!FlushBegin(h) \/ Register!FlushFails(h)
  <2>1. PICK r \in {"none", "IoError"} : reply' = [reply EXCEPT ![h] = r]
    BY <1>5 DEF Register!FlushBegin, Register!FlushFails, Register!Goto
  <2>2. Stays /\ Caught' = Caught /\ mem' = mem
    BY <1>5 DEF Register!FlushBegin, Register!FlushFails, Stays, Statuses, Caught
  <2> QED
    BY <1>t, <2>1, <2>2
<1>6. CASE Register!Close(h)
  <2>1. PICK r \in {"none", "IoError"} : reply' = [reply EXCEPT ![h] = r]
    BY <1>6 DEF Register!Close, Register!Goto
  <2>2. Stays /\ Caught' = [Caught EXCEPT ![h] = Absent] /\ mem' = [mem EXCEPT ![h] = EmptyDoc]
    BY <1>6 DEF Register!Close, Stays, Statuses, Caught
  <2> QED
    BY <1>t, <2>1, <2>2
<1>7. CASE \E d \in Doc : Register!Update(h, d)
  BY <1>t, <1>4, <1>7
<1> QED
  BY <1>1, <1>2, <1>3, <1>5, <1>6, <1>7 DEF RegisterQuiet

\* So it keeps the log's invariant.
LEMMA LogQuiet ==
    ASSUME TypeOK, FlushInv, MemInv, LogInv, NEW h \in Handle, Quiet(h),
           UNCHANGED <<log, durable, own>>
    PROVE  LogInv'
<1>1. CASE RegisterQuiet(h)
  <2>1. Len(log) \in own[h]..Len(log)
    BY DEF LogInv
  <2>2. ASSUME NEW g \in Handle, Caught'[g] # Absent
        PROVE  \E i \in own[g]..Len(log) : Caught'[g] = log[i]
    <3>1. CASE g # h \/ Caught'[h] = Caught[h]
      BY <1>1, <2>2, <3>1, QuietChanges DEF LogInv
    <3>2. CASE g = h /\ Caught'[h] = File(path, data)
      BY <2>1, <2>2, <3>2 DEF LogInv
    <3> QED
      BY <1>1, <2>2, <3>1, <3>2, QuietChanges
  <2>3. ASSUME NEW g \in Handle, reply'[g] = "Opened"
        PROVE  \E i \in own[g]..Len(log) : mem'[g] = log[i]
    <3>1. CASE g # h
      BY <1>1, <2>3, <3>1, QuietChanges DEF LogInv
    <3>2. CASE g = h /\ mem'[h] = Caught[h] /\ Caught[h] # Absent
      BY <3>2 DEF LogInv
    <3>3. CASE g = h /\ mem'[h] = EmptyDoc /\ File(path, data) = Absent
      BY <2>1, <3>3 DEF LogInv
    <3> QED
      BY <1>1, <2>3, <3>1, <3>2, <3>3, QuietChanges
  <2>4. Stays
    BY <1>1, QuietChanges
  <2> QED
    BY <2>2, <2>3, <2>4 DEF LogInv, Stays
<1>2. CASE UNCHANGED Register!vars
  BY <1>2 DEF Register!vars, LogInv, Statuses, Caught
<1> QED
  BY <1>1, <1>2, QuietMaps

\* A rename adds what it stores at the end.
LEMMA LogFlushing ==
    ASSUME TypeOK, FlushInv, LogInv, NEW h \in Handle, Rename(h),
           log' = Append(log, mem[h]), own' = [own EXCEPT ![h] = Len(log')],
           UNCHANGED durable
    PROVE  LogInv'
<1>1. /\ File(path, data)' = mem[h] /\ File(dpath, synced)' = File(dpath, synced)
      /\ Caught' = Caught /\ mem' = mem /\ reply' = [reply EXCEPT ![h] = "Flushed"]
      /\ Statuses[h] = "flushing"
  BY RenameMaps DEF Register!Store, Register!Goto, Statuses, Caught
<1>2. mem[h] \in Doc /\ mem[h] # Absent
  BY DEF TypeOK
<1>3. /\ log' \in Seq(Doc \cup {Damaged}) /\ Len(log') = Len(log) + 1
      /\ log'[Len(log')] = mem[h]
      /\ \A i \in 1..Len(log) : log'[i] = log[i]
  BY <1>2 DEF LogInv
<1>4. own' \in [Handle -> 1..Len(log')] /\ durable' \in 1..Len(log')
  BY <1>3 DEF LogInv
<1>5. Caught[h] = Absent
  BY <1>1 DEF Statuses, Status, Caught
<1>6. ASSUME NEW g \in Handle, g # h, NEW i \in own[g]..Len(log)
      PROVE  i \in own'[g]..Len(log') /\ log'[i] = log[i]
  <2>1. own'[g] = own[g] /\ own[g] \in 1..Len(log)
    BY <1>6 DEF LogInv
  <2>2. i \in 1..Len(log)
    BY <2>1
  <2> QED
    BY <1>3, <2>1, <2>2
<1>7. ASSUME NEW g \in Handle
      PROVE  /\ Caught'[g] # Absent => \E i \in own'[g]..Len(log') : Caught'[g] = log'[i]
             /\ reply'[g] = "Opened" => \E i \in own'[g]..Len(log') : mem'[g] = log'[i]
  <2>1. CASE g = h
    BY <1>1, <1>5, <2>1 DEF TypeOK
  <2>2. CASE g # h
    <3>1. reply'[g] = reply[g] /\ mem'[g] = mem[g] /\ Caught'[g] = Caught[g]
      BY <1>1, <2>2 DEF TypeOK
    <3>2. /\ Caught[g] # Absent => \E i \in own[g]..Len(log) : Caught[g] = log[i]
          /\ reply[g] = "Opened" => \E i \in own[g]..Len(log) : mem[g] = log[i]
      BY DEF LogInv
    <3>3. ASSUME Caught[g] # Absent PROVE \E i \in own'[g]..Len(log') : Caught[g] = log'[i]
      <4>1. PICK i \in own[g]..Len(log) : Caught[g] = log[i]
        BY <3>2, <3>3
      <4> QED
        BY <1>6, <2>2, <4>1
    <3>4. ASSUME reply[g] = "Opened" PROVE \E i \in own'[g]..Len(log') : mem[g] = log'[i]
      <4>1. PICK i \in own[g]..Len(log) : mem[g] = log[i]
        BY <3>2, <3>4
      <4> QED
        BY <1>6, <2>2, <4>1
    <3> QED
      BY <3>1, <3>3, <3>4
  <2> QED
    BY <2>1, <2>2
<1>8. log'[durable'] = log[durable]
  BY <1>3 DEF LogInv
<1> QED
  BY <1>1, <1>2, <1>3, <1>4, <1>7, <1>8 DEF LogInv

\* A power loss leaves the documents up to the durable one.
LEMMA LogLosing == ASSUME TypeOK, FlushInv, LogInv, Losing PROVE LogInv'
<1>1. /\ File(path, data)' = File(dpath, synced) /\ File(dpath, synced)' = File(dpath, synced)
      /\ Caught' = [h \in Handle |-> Absent] /\ reply' = [h \in Handle |-> "none"]
  BY LossMaps DEF Losing, Register!PowerLoss, Statuses, Caught
<1>2. /\ log' = SubSeq(log, 1, durable) /\ durable' = durable
      /\ own' = [h \in Handle |-> IF own[h] > durable THEN durable ELSE own[h]]
  BY DEF Losing
<1>3. log' \in Seq(Doc \cup {Damaged}) /\ Len(log') = durable /\ log'[durable] = log[durable]
  BY <1>2 DEF LogInv
<1>4. own' \in [Handle -> 1..Len(log')] /\ durable' \in 1..Len(log')
  BY <1>2, <1>3 DEF LogInv
<1>5. \A h \in Handle : Caught'[h] = Absent /\ reply'[h] # "Opened"
  BY <1>1
<1> QED
  BY <1>1, <1>2, <1>3, <1>4, <1>5 DEF LogInv

\* Every step of the hosts keeps the log's invariant.
LEMMA LogNext ==
    TypeOK /\ FlushInv /\ MemInv /\ LogInv /\ [SharedNext]_sharedVars => LogInv'
<1> SUFFICES ASSUME TypeOK, FlushInv, MemInv, LogInv, [SharedNext]_sharedVars
             PROVE  LogInv'
  OBVIOUS
<1>1. CASE Flushing
  BY <1>1, LogFlushing DEF Flushing
<1>2. CASE Saving
  <2>1. /\ File(path, data)' = File(path, data) /\ File(dpath, synced)' = File(path, data)
        /\ Caught' = Caught /\ mem' = mem /\ reply' = reply
    BY <1>2, SaveMaps DEF Saving, Register!Save, Statuses, Caught
  <2>2. durable' = Len(log) /\ log' = log /\ own' = own
    BY <1>2 DEF Saving
  <2> QED
    BY <2>1, <2>2 DEF LogInv
<1>3. CASE Losing
  BY <1>3, LogLosing
<1>4. CASE Other
  <2>1. ASSUME NEW n \in Inode, WriteBack(n), UNCHANGED <<log, durable, own>> PROVE LogInv'
    <3>1. UNCHANGED Register!vars
      BY <2>1, WriteBackMaps
    <3> QED
      BY <2>1, <3>1 DEF Register!vars, LogInv, Statuses, Caught
  <2> QED
    BY <1>4, <2>1, LogQuiet DEF Other
<1>5. CASE UNCHANGED sharedVars
  BY <1>5 DEF sharedVars, vars, LogInv, File, Caught
<1> QED
  BY <1>1, <1>2, <1>3, <1>4, <1>5 DEF SharedNext

\* The log follows the register in every state.
THEOREM LogHolds == SharedSpec => []LogInv
<1>1. SharedInit => MemInv
  BY InitMaps DEF SharedInit
<1>2. SharedSpec => []MemInv
  BY <1>1, MemStep, SharedStep, SharedTypes, PTL DEF SharedSpec
<1> QED
  BY <1>2, LogInit, LogNext, SharedTypes, SharedFlushes, PTL DEF SharedSpec

\* A host that opens the file finds its own last flush or one that came after it.
THEOREM NoneOpensOlder == SharedSpec => []OpensNoOlder
<1>1. LogInv => OpensNoOlder
  BY DEF LogInv, OpensNoOlder
<1> QED
  BY <1>1, LogHolds, PTL

\* What is under the path is the document flushed last, and on the disk one that was
\* flushed.
THEOREM LastFlushIsThere == SharedSpec => []LastFlushCounts
<1>1. LogInv => LastFlushCounts
  BY ParseType DEF LogInv, LastFlushCounts, File
<1> QED
  BY <1>1, LogHolds, PTL
=============================================================================
