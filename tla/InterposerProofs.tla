-------------------------- MODULE InterposerProofs --------------------------
(***************************************************************************)
(* Proofs about Interposer, for every catalog, page size, policy and number of     *)
(* approvals.                                                               *)
(***************************************************************************)
EXTENDS Interposer, ToolCatalogProofs

USE DescriptorAssumption, CatalogAssumption, InterposerAssumption

-----------------------------------------------------------------------------
(* The operators of Interposer. *)

\* What the constants of the wire can come to.
LEMMA WireErrors ==
    ASSUME NEW p, NEW w PROVE WireError(p, w) \in {"Integrity", "MalformedCatalog", "Ok"}
BY DEF WireError

\* Judging is clean, drift by the policy, or refused; and it is clean exactly when
\* every descriptor is good and the report shows no drift.
LEMMA Judged ==
    ASSUME NEW c
    PROVE  /\ Judge(c) \in Verdicts \cup {"Integrity"}
           /\ Judge(c) \in Verdicts <=> ResultOf(c) = "Ok"
           /\ Judge(c) = "Clean" <=> ResultOf(c) = "Ok" /\ ~HasDrift(ReportOf(c, store.pins))
BY DEF Judge, ApplyPolicy, Verdicts

\* A page is a piece of the catalog.
LEMMA PageType ==
    ASSUME NEW k \in Nat, served \in Catalog
    PROVE  PageAt(k) \in Seq(Descriptor)
<1> DEFINE n == IF LastAt(k) THEN Len(served) ELSE k + PageSize
<1>1. served \in Seq(Descriptor) /\ Len(served) \in Nat
  OBVIOUS
<1>2. n \in Nat /\ n <= Len(served)
  BY <1>1 DEF LastAt
<1> HIDE DEF n
<1>3. \A i \in (k + 1)..n : served[i] \in Descriptor
  BY <1>1, <1>2
<1>4. SubSeq(served, k + 1, n) \in Seq(Descriptor)
  BY <1>2, <1>3, SubSeqProperties
<1> QED
  BY <1>4 DEF PageAt, n

\* Documents: the empty one, and that of a good catalog.
LEMMA DocTypes ==
    /\ EmptyDoc \in Doc
    /\ \A c \in Seq(Descriptor) : ResultOf(c) = "Ok" =>
           [pins |-> BaselineOf(c), catalogHash |-> CatalogHash(HashesIn(c))] \in Doc
<1>1. EmptyDoc \in Doc
  BY DEF EmptyDoc, Doc, Pins, CatalogHashes
<1>2. ASSUME NEW c \in Seq(Descriptor), ResultOf(c) = "Ok"
      PROVE  [pins |-> BaselineOf(c), catalogHash |-> CatalogHash(HashesIn(c))] \in Doc
  <2>1. BaselineOf(c) \in Pins
    BY <1>2, BaselineTools
  <2>2. Len(c) \in Nat /\ DOMAIN HashesIn(c) = 1..Len(c)
    BY DEF HashesIn
  <2>3. CatalogHash(HashesIn(c)) \in [Hash -> Nat]
    BY <2>2, CatalogHashType
  <2> QED
    BY <2>1, <2>3 DEF Doc, CatalogHashes
<1> QED
  BY <1>1, <1>2

-----------------------------------------------------------------------------
(* The inductive invariant of the baselines. *)

\* The catalogs under judgement and those approved are good, and the verdict is that
\* on the store as it is; a store that is not open holds nothing,
\* and one that is flushed holds an approval the file has not.
VerdictsHold ==
    /\ \A k \in 1..Len(approvals) : ResultOf(approvals[k]) = "Ok"
    /\ reply \in Verdicts =>
        /\ status[Host] \in {"open", "flushing"}
        /\ ResultOf(captured) = "Ok"
        /\ reply = "Clean" <=> ~HasDrift(ReportOf(captured, store.pins))
    /\ status[Host] \in {"closed", "opening"} => store = EmptyDoc
    /\ status[Host] = "flushing" => flushed < Len(approvals)

IInv == TypeOK /\ BaselinesAreApproved /\ VerdictsHold

\* At the start nothing is approved, and nothing is stored.
LEMMA InvInit == Init => IInv
<1> SUFFICES ASSUME Init PROVE IInv
  OBVIOUS
<1>1. Len(<<>>) = 0 /\ <<>> \in Seq(Descriptor) /\ <<>> \in Seq(Seq(Descriptor))
  OBVIOUS
<1>2. EmptyDoc \in Doc
  BY DocTypes
<1>3. TypeOK
  <2>1. /\ status \in [{Host} -> {"closed", "opening", "open", "flushing"}]
        /\ seen \in [{Host} -> Doc \cup {Absent}]
        /\ mem \in [{Host} -> Doc]
        /\ fileReply \in [{Host} -> {"none", "Opened", "Flushed", "IoError"}]
    BY <1>2 DEF Init
  <2>2. approvals \in Seq(Seq(Descriptor)) /\ flushed \in 0..Len(approvals) /\ onDisk \in 0..flushed
    BY <1>1 DEF Init
  <2> QED
    BY <1>1, <2>1, <2>2 DEF Init, TypeOK
<1>4. BaselinesAreApproved
  BY <1>1 DEF Init, BaselinesAreApproved, DocOf
<1>5. VerdictsHold
  BY <1>1 DEF Init, VerdictsHold, Verdicts, store
<1> QED
  BY <1>3, <1>4, <1>5 DEF IInv

\* What no step of a fetch or a judgement touches.
Kept == /\ UNCHANGED <<stored, saved, status, seen, mem, fileReply>>
        /\ UNCHANGED <<approvals, flushed, onDisk>>
        /\ UNCHANGED policy

\* A step of the file that keeps what the interposer knows.
Unjudged == UNCHANGED <<served, policy, fetching, descriptors, cursor, more, reply, captured, intact>>

\* The types that a fetch or a judgement may disturb.
FetchTypes ==
    /\ served \in Catalog
    /\ fetching \in BOOLEAN /\ more \in BOOLEAN /\ intact \in BOOLEAN
    /\ descriptors \in Seq(Descriptor)
    /\ cursor \in Nat
    /\ ~fetching => descriptors = <<>> /\ cursor = 0 /\ ~more
    /\ reply \in Verdicts \cup {"none", "Page", "Repinned", "MalformedCatalog", "Integrity"}
    /\ captured \in Seq(Descriptor)

\* A step that keeps the file, and where a verdict is new it is the verdict on what
\* is captured.
LEMMA KeptOK ==
    ASSUME IInv, Kept, FetchTypes',
           reply' \in Verdicts =>
               \/ reply' = reply /\ captured' = captured
               \/ reply' = Judge(captured') /\ status[Host] = "open"
    PROVE  IInv'
<1>1. TypeOK'
  BY DEF IInv, TypeOK, Kept, FetchTypes
<1>2. BaselinesAreApproved'
  BY DEF IInv, BaselinesAreApproved, Kept, store, DocOf
<1>3. store' = store
  BY DEF Kept, store
<1>4. reply' \in Verdicts =>
        /\ status[Host] \in {"open", "flushing"}
        /\ ResultOf(captured') = "Ok"
        /\ reply' = "Clean" <=> ~HasDrift(ReportOf(captured', store.pins))
  BY Judged DEF IInv, VerdictsHold
<1>5. VerdictsHold'
  BY <1>3, <1>4 DEF IInv, VerdictsHold, Kept
<1> QED
  BY <1>1, <1>2, <1>5 DEF IInv

\* Calls that fetch or judge.
LEMMA FetchStep ==
    ASSUME IInv,
           Observe \/ NewAccumulator \/ ObservePage \/ PageFails \/ Finish \/ Abandon
           \/ RepinFails \/ ServerChange
    PROVE  IInv'
<1>1. TypeOK
  BY DEF IInv
<1> DEFINE Result == Verdicts \cup {"none", "Page", "Repinned", "MalformedCatalog", "Integrity"}
<1>2. <<>> \in Seq(Descriptor)
  OBVIOUS
<1>3. {"none", "Page", "MalformedCatalog", "Integrity"} \cap Verdicts = {}
  BY DEF Verdicts
<1>4. CASE Observe
  <2>1. PICK r \in Results :
           reply' = IF WireError(r[1], r[2]) # "Ok" THEN WireError(r[1], r[2]) ELSE Judge(PageAt(0))
    BY <1>4 DEF Observe
  <2>2. WireError(r[1], r[2]) \in {"Integrity", "MalformedCatalog", "Ok"}
    BY WireErrors
  <2>3. /\ reply' \in Verdicts \cup {"Integrity", "MalformedCatalog"}
        /\ reply' \in Verdicts => reply' = Judge(PageAt(0))
    BY <1>3, <2>1, <2>2, Judged
  <2>4. PageAt(0) \in Seq(Descriptor)
    BY <1>1, PageType DEF TypeOK
  <2>5. captured' = IF reply' \in Verdicts THEN PageAt(0) ELSE <<>>
    BY <1>4 DEF Observe
  <2>6. Kept /\ UNCHANGED <<served, fetching, descriptors, cursor, more>> /\ intact' = TRUE
    BY <1>4 DEF Observe, Kept, file, fetch, history
  <2>7. FetchTypes'
    BY <1>1, <1>2, <2>3, <2>4, <2>5, <2>6 DEF TypeOK, FetchTypes
  <2>8. status[Host] = "open"
    BY <1>4 DEF Observe, Free
  <2> QED
    BY <2>3, <2>5, <2>6, <2>7, <2>8, KeptOK
<1>5. CASE NewAccumulator
  <2>1. Kept /\ served' = served
    BY <1>5 DEF NewAccumulator, Kept, file, history
  <2>2. FetchTypes' /\ reply' = "none"
    BY <1>1, <1>2, <1>5, <2>1 DEF TypeOK, FetchTypes, NewAccumulator
  <2> QED
    BY <1>3, <2>1, <2>2, KeptOK
<1>6. CASE ObservePage
  <2>1. PICK k \in {cursor, cursor - PageSize} \cap Nat : Page(k)
    BY <1>6 DEF ObservePage
  <2>2. Kept /\ UNCHANGED <<served, fetching, captured, intact>> /\ fetching
    BY <2>1 DEF Page, Kept, file, history
  <2>3. descriptors' \in Seq(Descriptor) /\ cursor' \in Nat
    <3>1. PageAt(k) \in Seq(Descriptor)
      BY <1>1, PageType DEF TypeOK
    <3>2. descriptors' = descriptors \o PageAt(k) /\ cursor' = k + PageSize
      BY <2>1 DEF Page
    <3> QED
      BY <1>1, <3>1, <3>2 DEF TypeOK
  <2>4. more' \in BOOLEAN /\ reply' = "Page"
    BY <2>1 DEF Page
  <2>5. FetchTypes'
    BY <1>1, <2>2, <2>3, <2>4 DEF TypeOK, FetchTypes
  <2> QED
    BY <1>3, <2>2, <2>4, <2>5, KeptOK
<1>7. CASE PageFails \/ RepinFails
  <2>1. /\ Kept /\ UNCHANGED <<served, fetching, descriptors, cursor, more, captured, intact>>
        /\ \E p, w : WireError(p, w) # "Ok" /\ reply' = WireError(p, w)
    BY <1>7 DEF PageFails, RepinFails, Kept, file, fetch, history
  <2>2. reply' \in {"Integrity", "MalformedCatalog"}
    BY <2>1, WireErrors
  <2>3. FetchTypes'
    BY <1>1, <2>1, <2>2 DEF TypeOK, FetchTypes
  <2> QED
    BY <1>3, <2>1, <2>2, <2>3, KeptOK
<1>8. CASE Finish
  <2>1. Kept /\ UNCHANGED <<served, more, intact>> /\ status[Host] = "open"
    BY <1>8 DEF Finish, Kept, file, history
  <2>2. /\ reply' = Judge(descriptors)
        /\ captured' = IF reply' \in Verdicts THEN descriptors ELSE <<>>
        /\ fetching' = FALSE /\ descriptors' = <<>> /\ cursor' = 0 /\ ~more
    BY <1>8 DEF Finish
  <2>3. reply' \in Verdicts \cup {"Integrity"}
    BY <2>2, Judged
  <2>4. FetchTypes'
    BY <1>1, <1>2, <2>1, <2>2, <2>3 DEF TypeOK, FetchTypes
  <2> QED
    BY <2>1, <2>2, <2>4, KeptOK
<1>9. CASE Abandon
  <2>1. Kept /\ UNCHANGED <<served, reply, captured, intact>>
    BY <1>9 DEF Abandon, Kept, file, history
  <2>2. FetchTypes'
    BY <1>1, <1>2, <1>9, <2>1 DEF TypeOK, FetchTypes, Abandon
  <2> QED
    BY <2>1, <2>2, KeptOK
<1>10. CASE ServerChange
  <2>1. Kept /\ UNCHANGED <<fetching, descriptors, cursor, more, reply, captured>>
    BY <1>10 DEF ServerChange, Kept, file, fetch, history
  <2>2. FetchTypes'
    BY <1>1, <1>10, <2>1 DEF TypeOK, FetchTypes, ServerChange
  <2> QED
    BY <2>1, <2>2, KeptOK
<1> QED
  BY <1>4, <1>5, <1>6, <1>7, <1>8, <1>9, <1>10

\* The types of the file's variables.
FileTypes ==
    /\ stored \in Doc \cup {Absent} /\ saved \in Doc \cup {Absent}
    /\ status \in [{Host} -> {"closed", "opening", "open", "flushing"}]
    /\ seen \in [{Host} -> Doc \cup {Absent}]
    /\ mem \in [{Host} -> Doc]
    /\ fileReply \in [{Host} -> {"none", "Opened", "Flushed", "IoError"}]

\* A re-pin of the catalog that was judged.
LEMMA RepinStep ==
    ASSUME IInv, Repin
    PROVE  IInv'
<1>1. TypeOK /\ BaselinesAreApproved /\ VerdictsHold
  BY DEF IInv
<1>2. ResultOf(captured) = "Ok" /\ captured \in Seq(Descriptor)
  BY <1>1 DEF Repin, VerdictsHold, Verdicts, TypeOK
<1> DEFINE d == [pins |-> BaselineOf(captured), catalogHash |-> CatalogHash(HashesIn(captured))]
           n == Len(approvals)
<1>3. d \in Doc /\ Repinned(captured) = d
  BY <1>2, DocTypes DEF Repinned
<1> HIDE DEF d
<1>4. /\ status[Host] = "open" /\ mem' = [mem EXCEPT ![Host] = d]
      /\ fileReply' = [fileReply EXCEPT ![Host] = "none"]
      /\ UNCHANGED <<stored, saved, status, seen>>
  BY <1>3 DEF Repin, File!Update
<1>5. /\ reply' = "Repinned" /\ approvals' = Append(approvals, captured) /\ captured' = <<>>
      /\ UNCHANGED <<served, policy, fetching, descriptors, cursor, more, intact, flushed, onDisk>>
  BY <1>2 DEF Repin, fetch
<1>6. /\ approvals \in Seq(Seq(Descriptor)) /\ n \in Nat
      /\ flushed \in 0..n /\ onDisk \in 0..flushed
  BY <1>1 DEF TypeOK
<1>7. /\ approvals' \in Seq(Seq(Descriptor)) /\ Len(approvals') = n + 1
      /\ \A k \in 1..n : approvals'[k] = approvals[k]
      /\ approvals'[n + 1] = captured
  BY <1>2, <1>5, <1>6
<1>8. store' = d
  BY <1>1, <1>4 DEF TypeOK, store
<1>9. TypeOK'
  <2>1. <<>> \in Seq(Descriptor)
    OBVIOUS
  <2>2. FileTypes'
    BY <1>1, <1>3, <1>4 DEF TypeOK, FileTypes
  <2>3. flushed' \in 0..Len(approvals') /\ onDisk' \in 0..flushed'
    BY <1>5, <1>6, <1>7
  <2> QED
    BY <1>1, <1>5, <1>7, <2>1, <2>2, <2>3 DEF TypeOK, FileTypes
<1>10. BaselinesAreApproved'
  <2>1. ASSUME NEW k \in 0..n PROVE DocOf(k)' = DocOf(k)
    <3>1. CASE k = 0
      BY <3>1 DEF DocOf
    <3>2. CASE k # 0
      <4>1. k \in 1..n
        BY <1>6, <3>2
      <4>2. approvals'[k] = approvals[k]
        BY <1>7, <4>1
      <4> QED
        BY <3>2, <4>2, Zenon DEF DocOf
    <3> QED
      BY <3>1, <3>2
  <2>3. DocOf(Len(approvals))' = d
    <3>1. Len(approvals') = n + 1 /\ n + 1 # 0 /\ approvals'[Len(approvals')] = captured
      BY <1>6, <1>7
    <3>2. Len(approvals') # 0
      BY <1>6, <3>1
    <3> QED
      BY <3>1, <3>2 DEF DocOf, d
  <2>4. stored' = IF flushed' = 0 THEN Absent ELSE DocOf(flushed)'
    <3>1. DocOf(flushed)' = DocOf(flushed)
      BY <1>5, <1>6, <2>1
    <3> QED
      BY <1>1, <1>4, <1>5, <3>1 DEF BaselinesAreApproved
  <2>5. saved' = IF onDisk' = 0 THEN Absent ELSE DocOf(onDisk)'
    <3>1. DocOf(onDisk)' = DocOf(onDisk)
      BY <1>5, <1>6, <2>1
    <3> QED
      BY <1>1, <1>4, <1>5, <3>1 DEF BaselinesAreApproved
  <2>6. status'[Host] = "open"
    BY <1>4
  <2> QED
    BY <1>8, <2>3, <2>4, <2>5, <2>6 DEF BaselinesAreApproved
<1>11. VerdictsHold'
  <2>1. ASSUME NEW k \in 1..Len(approvals') PROVE ResultOf(approvals'[k]) = "Ok"
    <3>1. k \in 1..n \/ k = n + 1
      BY <1>6, <1>7
    <3>2. CASE k \in 1..n
      BY <1>1, <1>7, <3>2, Zenon DEF VerdictsHold
    <3>3. CASE k = n + 1
      BY <1>2, <1>7, <3>3, Zenon
    <3> QED
      BY <3>1, <3>2, <3>3
  <2> QED
    BY <1>4, <1>5, <2>1 DEF VerdictsHold, Verdicts
<1> QED
  BY <1>9, <1>10, <1>11 DEF IInv

\* A step of the file that keeps what the interposer knows and the approvals.
LEMMA FileOK ==
    ASSUME IInv, Unjudged, FileTypes', UNCHANGED approvals,
           flushed' \in 0..Len(approvals), onDisk' \in 0..flushed',
           BaselinesAreApproved',
           reply \in Verdicts => status'[Host] \in {"open", "flushing"} /\ store' = store,
           status'[Host] \in {"closed", "opening"} => store' = EmptyDoc,
           status'[Host] = "flushing" => flushed' < Len(approvals)
    PROVE  IInv'
<1>1. TypeOK'
  BY DEF IInv, TypeOK, FileTypes, Unjudged
<1>2. VerdictsHold'
  BY DEF IInv, VerdictsHold, Unjudged
<1> QED
  BY <1>1, <1>2 DEF IInv

\* Opening the file.
LEMMA OpenStep ==
    ASSUME IInv, Open
    PROVE  IInv'
<1>1. TypeOK /\ BaselinesAreApproved /\ VerdictsHold
  BY DEF IInv
<1>2. Unjudged /\ UNCHANGED <<approvals, flushed, onDisk>>
  BY DEF Open, Undisturbed, Unjudged, fetch, history
<1>3. /\ flushed \in 0..Len(approvals) /\ onDisk \in 0..flushed /\ Len(approvals) \in Nat
  BY <1>1 DEF TypeOK
<1>4. \A k : DocOf(k)' = DocOf(k)
  BY <1>2 DEF DocOf
<1>5. status[Host] \in {"closed", "opening"} => reply \notin Verdicts
  BY <1>1 DEF VerdictsHold
<1>6. stored \in Doc \cup {Absent} /\ seen[Host] \in Doc \cup {Absent}
  BY <1>1 DEF TypeOK
<1>7. CASE File!OpenAbsent(Host)
  <2>1. /\ status[Host] = "closed" /\ stored = Absent
        /\ status' = [status EXCEPT ![Host] = "open"]
        /\ fileReply' = [fileReply EXCEPT ![Host] = "Opened"]
        /\ UNCHANGED <<stored, saved, seen, mem>>
    BY <1>7 DEF File!OpenAbsent, File!Goto
  <2>2. FileTypes' /\ status'[Host] = "open" /\ store' = store
    BY <1>1, <2>1 DEF TypeOK, FileTypes, store
  <2>3. flushed = 0
    <3>1. flushed # 0 => DocOf(flushed) \in Doc
      <4>1. flushed # 0 => flushed \in 1..Len(approvals)
        BY <1>3
      <4>2. flushed # 0 => ResultOf(approvals[flushed]) = "Ok" /\ approvals[flushed] \in Seq(Descriptor)
        BY <1>1, <4>1 DEF TypeOK, VerdictsHold
      <4> QED
        BY <4>2, DocTypes DEF DocOf
    <3> QED
      BY <1>1, <2>1, <3>1, FileAssumption DEF BaselinesAreApproved
  <2>4. store = DocOf(Len(approvals))
    BY <1>1, <2>1, <2>3 DEF BaselinesAreApproved, VerdictsHold, DocOf
  <2>5. BaselinesAreApproved'
    BY <1>1, <1>2, <1>4, <2>1, <2>2, <2>4 DEF BaselinesAreApproved
  <2> QED
    BY <1>2, <1>3, <1>5, <2>1, <2>2, <2>5, FileOK
<1>8. CASE File!OpenBegin(Host)
  <2>1. /\ status[Host] = "closed" /\ stored # Absent
        /\ status' = [status EXCEPT ![Host] = "opening"]
        /\ fileReply' = [fileReply EXCEPT ![Host] = "none"]
        /\ seen' = [seen EXCEPT ![Host] = stored]
        /\ UNCHANGED <<stored, saved, mem>>
    BY <1>8 DEF File!OpenBegin, File!Goto
  <2>2. FileTypes' /\ status'[Host] = "opening" /\ store' = store /\ seen'[Host] = stored
    BY <1>1, <2>1 DEF TypeOK, FileTypes, store
  <2>3. stored = DocOf(flushed) /\ flushed = Len(approvals)
    BY <1>1, <2>1 DEF BaselinesAreApproved
  <2>4. BaselinesAreApproved'
    BY <1>1, <1>2, <1>4, <2>1, <2>2, <2>3 DEF BaselinesAreApproved
  <2>5. store = EmptyDoc
    BY <1>1, <2>1 DEF VerdictsHold
  <2> QED
    BY <1>2, <1>3, <1>5, <2>1, <2>2, <2>4, <2>5, FileOK
<1>9. CASE File!OpenEnd(Host)
  <2>1. seen[Host] \in Doc /\ seen[Host] # Damaged /\ status[Host] = "opening"
    <3>1. status[Host] = "opening" /\ seen[Host] = DocOf(flushed)
      BY <1>1, <1>9 DEF File!OpenEnd, BaselinesAreApproved
    <3>2. DocOf(flushed) \in Doc
      <4>1. CASE flushed = 0
        BY <4>1, DocTypes DEF DocOf
      <4>2. CASE flushed # 0
        <5>1. flushed \in 1..Len(approvals)
          BY <1>3, <4>2
        <5>2. ResultOf(approvals[flushed]) = "Ok" /\ approvals[flushed] \in Seq(Descriptor)
          BY <1>1, <5>1 DEF TypeOK, VerdictsHold
        <5> QED
          BY <4>2, <5>2, DocTypes DEF DocOf
      <4> QED
        BY <4>1, <4>2
    <3> QED
      BY <3>1, <3>2, FileAssumption
  <2>2. /\ status' = [status EXCEPT ![Host] = "open"]
        /\ fileReply' = [fileReply EXCEPT ![Host] = "Opened"]
        /\ mem' = [mem EXCEPT ![Host] = seen[Host]]
        /\ seen' = [seen EXCEPT ![Host] = Absent]
        /\ UNCHANGED <<stored, saved>>
    BY <1>9, <2>1 DEF File!OpenEnd, File!Goto
  <2>3. FileTypes' /\ status'[Host] = "open" /\ store' = seen[Host]
    BY <1>1, <2>1, <2>2 DEF TypeOK, FileTypes, store
  <2>4. store' = DocOf(Len(approvals))
    BY <1>1, <2>1, <2>3 DEF BaselinesAreApproved
  <2>5. BaselinesAreApproved'
    BY <1>1, <1>2, <1>4, <2>2, <2>3, <2>4 DEF BaselinesAreApproved
  <2> QED
    BY <1>2, <1>3, <1>5, <2>1, <2>2, <2>3, <2>5, FileOK
<1> QED
  BY <1>7, <1>8, <1>9 DEF Open

\* Flushing, and what the disk has of it.
LEMMA FlushStep ==
    ASSUME IInv, FlushBegin \/ Flushed \/ FlushFails \/ Save
    PROVE  IInv'
<1>1. TypeOK /\ BaselinesAreApproved /\ VerdictsHold
  BY DEF IInv
<1>2. Unjudged /\ UNCHANGED approvals
  BY DEF FlushBegin, Flushed, FlushFails, Save, Undisturbed, Unjudged, fetch, history
<1>3. /\ flushed \in 0..Len(approvals) /\ onDisk \in 0..flushed /\ Len(approvals) \in Nat
  BY <1>1 DEF TypeOK
<1>4. \A k : DocOf(k)' = DocOf(k)
  BY <1>2 DEF DocOf
<1>5. CASE FlushBegin \/ FlushFails
  <2>1. PICK next \in {"flushing", "open"}, r \in {"none", "IoError"} :
           /\ status[Host] \in {"open", "flushing"}
           /\ next = "flushing" => flushed < Len(approvals)
           /\ status' = [status EXCEPT ![Host] = next]
           /\ fileReply' = [fileReply EXCEPT ![Host] = r]
           /\ UNCHANGED <<stored, saved, seen, mem, flushed, onDisk>>
    BY <1>5 DEF FlushBegin, FlushFails, File!FlushBegin, File!FlushFails, File!Goto, history
  <2>2. /\ FileTypes' /\ status'[Host] \in {"open", "flushing"} /\ store' = store
        /\ status'[Host] = "flushing" => flushed' < Len(approvals)
    BY <1>1, <2>1 DEF TypeOK, FileTypes, store
  <2>3. BaselinesAreApproved'
    BY <1>1, <1>2, <1>4, <2>1, <2>2 DEF BaselinesAreApproved
  <2> QED
    BY <1>2, <1>3, <2>1, <2>2, <2>3, FileOK
<1>6. CASE Flushed
  <2>1. /\ status[Host] = "flushing" /\ stored' = mem[Host]
        /\ status' = [status EXCEPT ![Host] = "open"]
        /\ fileReply' = [fileReply EXCEPT ![Host] = "Flushed"]
        /\ flushed' = Len(approvals)
        /\ UNCHANGED <<saved, seen, mem, onDisk>>
    BY <1>6 DEF Flushed, File!Store, File!Goto
  <2>2. FileTypes' /\ status'[Host] = "open" /\ store' = store
    BY <1>1, <2>1 DEF TypeOK, FileTypes, store
  <2>3. store = DocOf(Len(approvals)) /\ Len(approvals) # 0
    BY <1>1, <1>3, <2>1 DEF BaselinesAreApproved, VerdictsHold
  <2>4. BaselinesAreApproved'
    <3>1. store' = DocOf(Len(approvals))' /\ Len(approvals') # 0
      BY <1>2, <1>4, <2>2, <2>3
    <3>2. stored' = IF flushed' = 0 THEN Absent ELSE DocOf(flushed)'
      BY <1>2, <2>1, <2>2, <3>1 DEF store, DocOf
    <3>3. saved' = IF onDisk' = 0 THEN Absent ELSE DocOf(onDisk)'
      BY <1>1, <1>2, <2>1 DEF BaselinesAreApproved, DocOf
    <3> QED
      BY <2>2, <3>1, <3>2, <3>3 DEF BaselinesAreApproved
  <2>5. onDisk' \in 0..flushed' /\ flushed' \in 0..Len(approvals)
    BY <1>3, <2>1
  <2> QED
    BY <1>2, <2>2, <2>4, <2>5, FileOK
<1>7. CASE Save
  <2>1. saved' = stored /\ onDisk' = flushed /\ flushed' = flushed
        /\ UNCHANGED <<stored, status, seen, mem, fileReply>>
    BY <1>7 DEF Save, File!Save
  <2>2. FileTypes' /\ store' = store
    BY <1>1, <2>1 DEF TypeOK, FileTypes, store
  <2>3. BaselinesAreApproved'
    BY <1>1, <1>2, <1>4, <2>1, <2>2 DEF BaselinesAreApproved
  <2>4. onDisk' \in 0..flushed' /\ flushed' \in 0..Len(approvals)
    BY <1>3, <2>1
  <2> QED
    BY <1>1, <1>2, <2>1, <2>2, <2>3, <2>4, FileOK DEF VerdictsHold
<1> QED
  BY <1>5, <1>6, <1>7

\* A process crash and a power loss.
LEMMA LossStep ==
    ASSUME IInv, Crash \/ PowerLoss
    PROVE  IInv'
<1>1. TypeOK /\ BaselinesAreApproved /\ VerdictsHold
  BY DEF IInv
<1>2. /\ approvals \in Seq(Seq(Descriptor)) /\ Len(approvals) \in Nat
      /\ flushed \in 0..Len(approvals) /\ onDisk \in 0..flushed
  BY <1>1 DEF TypeOK
<1> DEFINE k == IF Crash THEN flushed ELSE onDisk
<1>3. /\ Down(k) /\ flushed' = k /\ onDisk' = onDisk
      /\ saved' = saved
      /\ stored' = IF k = 0 THEN Absent ELSE DocOf(k)
      /\ UNCHANGED served
  <2>1. CASE Crash
    BY <1>1, <2>1 DEF Crash, File!Close, Down, BaselinesAreApproved
  <2>2. CASE ~Crash
    BY <1>1, <2>2 DEF PowerLoss, File!PowerLoss, Down, BaselinesAreApproved
  <2> QED
    BY <2>1, <2>2
<1>4. status'[Host] = "closed" /\ store' = EmptyDoc /\ FileTypes'
  <2>1. EmptyDoc \in Doc
    BY DocTypes
  <2>2. CASE Crash
    <3>1. PICK r \in {"none", "IoError"} :
             /\ status' = [status EXCEPT ![Host] = "closed"]
             /\ fileReply' = [fileReply EXCEPT ![Host] = r]
             /\ seen' = [seen EXCEPT ![Host] = Absent]
             /\ mem' = [mem EXCEPT ![Host] = EmptyDoc]
             /\ UNCHANGED <<stored, saved>>
      BY <2>2 DEF Crash, File!Close, File!Goto
    <3> QED
      BY <1>1, <2>1, <3>1 DEF TypeOK, FileTypes, store
  <2>3. CASE PowerLoss
    <3>1. /\ status' = [h \in {Host} |-> "closed"]
          /\ fileReply' = [h \in {Host} |-> "none"]
          /\ seen' = [h \in {Host} |-> Absent]
          /\ mem' = [h \in {Host} |-> EmptyDoc]
          /\ stored' = saved /\ saved' = saved
      BY <2>3 DEF PowerLoss, File!PowerLoss
    <3> QED
      BY <1>1, <2>1, <3>1 DEF TypeOK, FileTypes, store
  <2> QED
    BY <2>2, <2>3
<1>5. k \in 0..Len(approvals) /\ onDisk \in 0..k
  BY <1>2
<1> HIDE DEF k
<1>6. /\ approvals' \in Seq(Seq(Descriptor)) /\ Len(approvals') = k
      /\ \A j \in 1..k : approvals'[j] = approvals[j]
  <2>1. approvals' = SubSeq(approvals, 1, k)
    BY <1>3 DEF Down
  <2> QED
    BY <1>2, <1>5, <2>1
<1>7. TypeOK'
  <2>1. <<>> \in Seq(Descriptor)
    OBVIOUS
  <2>2. /\ fetching' = FALSE /\ descriptors' = <<>> /\ cursor' = 0 /\ more' = FALSE
        /\ reply' = "none" /\ captured' = <<>> /\ intact' = FALSE
        /\ policy' \in Policies
    BY <1>3 DEF Down
  <2>3. flushed' \in 0..Len(approvals') /\ onDisk' \in 0..flushed'
    BY <1>3, <1>5, <1>6
  <2> QED
    BY <1>1, <1>3, <1>4, <1>6, <2>1, <2>2, <2>3 DEF TypeOK, FileTypes
<1>8. BaselinesAreApproved'
  <2>1. stored' = IF flushed' = 0 THEN Absent ELSE DocOf(flushed)'
    <3>1. k # 0 => approvals'[k] = approvals[k]
      BY <1>5, <1>6
    <3> QED
      BY <1>3, <3>1, Zenon DEF DocOf
  <2>2. saved' = IF onDisk' = 0 THEN Absent ELSE DocOf(onDisk)'
    <3>1. onDisk # 0 => approvals'[onDisk] = approvals[onDisk]
      BY <1>5, <1>6
    <3> QED
      BY <1>1, <1>3, <3>1, Zenon DEF DocOf, BaselinesAreApproved
  <2> QED
    BY <1>3, <1>4, <1>6, <2>1, <2>2 DEF BaselinesAreApproved
<1>9. VerdictsHold'
  <2>1. ASSUME NEW j \in 1..k PROVE ResultOf(approvals'[j]) = "Ok"
    <3>1. j \in 1..Len(approvals) /\ approvals'[j] = approvals[j]
      BY <1>2, <1>5, <1>6
    <3> QED
      BY <1>1, <3>1, Zenon DEF VerdictsHold
  <2>2. reply' \notin Verdicts
    BY <1>3 DEF Down, Verdicts
  <2> QED
    BY <1>4, <1>6, <2>1, <2>2 DEF VerdictsHold
<1> QED
  BY <1>7, <1>8, <1>9 DEF IInv

\* Every action of host, server and file system keeps the invariant.
LEMMA InvNext == IInv /\ [Next]_vars => IInv'
<1> SUFFICES ASSUME IInv, [Next]_vars PROVE IInv'
  OBVIOUS
<1>1. CASE Next
  BY <1>1, FetchStep, RepinStep, OpenStep, FlushStep, LossStep DEF Next
<1>2. CASE UNCHANGED vars
  <2>1. Unjudged /\ UNCHANGED <<stored, saved, status, seen, mem, fileReply, approvals, flushed, onDisk>>
    BY <1>2 DEF vars, file, fetch, history, Unjudged
  <2>2. Kept /\ FetchTypes'
    BY <2>1 DEF Kept, Unjudged, FetchTypes, IInv, TypeOK
  <2> QED
    BY <2>1, <2>2, KeptOK DEF Unjudged
<1> QED
  BY <1>1, <1>2

\* So it always holds.
LEMMA InvHolds == Spec => []IInv
BY InvInit, InvNext, PTL DEF Spec

-----------------------------------------------------------------------------
(* What is proved of the interposer and its pin file. *)

\* The variables have their types.
THEOREM TypesHold == Spec => []TypeOK
<1>1. IInv => TypeOK
  BY DEF IInv
<1> QED
  BY <1>1, InvHolds, PTL

\* Memory, the pin file and the disk have the whole baseline of an approved catalog,
\* whatever fails and whenever the host goes down.
THEOREM BaselinesHold == Spec => []BaselinesAreApproved
<1>1. IInv => BaselinesAreApproved
  BY DEF IInv
<1> QED
  BY <1>1, InvHolds, PTL

\* A clean verdict lists the tools of the catalog approved last, across restarts.
THEOREM CleanHolds == Spec => []CleanIsApproved
<1>1. IInv => CleanIsApproved
  <2> DEFINE last == IF approvals = <<>> THEN <<>> ELSE approvals[Len(approvals)]
             n == Len(approvals)
  <2> SUFFICES ASSUME IInv, reply = "Clean"
               PROVE  /\ ToolsOf(captured) \subseteq ToolsOf(last)
                      /\ NamesIn(captured, Len(captured)) = NamesIn(last, Len(last))
    BY Zenon DEF CleanIsApproved
  <2>1. /\ approvals \in Seq(Seq(Descriptor)) /\ n \in Nat
        /\ captured \in Seq(Descriptor) /\ store \in Doc
    BY DEF IInv, TypeOK, store
  <2>2. /\ ResultOf(captured) = "Ok" /\ ~HasDrift(ReportOf(captured, store.pins))
        /\ store = DocOf(n)
    BY DEF IInv, VerdictsHold, BaselinesAreApproved, Verdicts
  <2>3. store.pins \in Pins
    BY <2>1 DEF Doc
  <2>4. ToolsOf(captured) = {<<m, store.pins[m]>> : m \in PinnedNames(store.pins)}
    BY <2>1, <2>2, <2>3, GoodCatalog, CleanReport
  <2>5. NamesIn(captured, Len(captured)) = PinnedNames(store.pins)
    BY <2>1, <2>4, NamesOfTools
  <2>6. CASE n = 0
    <3>1. last = <<>>
      BY <2>1, <2>6
    <3>2. store.pins = [m \in Name |-> NoPin]
      BY <2>2, <2>6 DEF DocOf, EmptyDoc
    <3>3. PinnedNames(store.pins) = {}
      BY <3>2 DEF PinnedNames
    <3>4. NamesIn(<<>>, Len(<<>>)) = {}
      BY DEF NamesIn
    <3> QED
      BY <2>4, <2>5, <3>1, <3>3, <3>4
  <2>7. CASE n # 0
    <3>1. last = approvals[n] /\ n \in 1..n
      BY <2>1, <2>7
    <3>2. last \in Seq(Descriptor) /\ ResultOf(last) = "Ok"
      BY <2>1, <3>1 DEF IInv, VerdictsHold
    <3>3. store.pins = BaselineOf(last)
      BY <2>2, <2>7, <3>1 DEF DocOf
    <3> HIDE DEF last
    <3>4. /\ \A m \in PinnedNames(store.pins) : <<m, store.pins[m]>> \in ToolsOf(last)
          /\ PinnedNames(store.pins) = NamesIn(last, Len(last))
      BY <3>2, <3>3, BaselineTools
    <3> QED
      BY <2>4, <2>5, <3>4
  <2> QED
    BY <2>6, <2>7
<1> QED
  BY <1>1, InvHolds, PTL

-----------------------------------------------------------------------------
(* The verdict on a catalog fetched page by page. *)

\* The tools of the catalog from one position to another.
ToolsBetween(a, b) ==
    {<<NameOf[served[j]], HashOf[served[j]]>> : j \in {j \in 1..Len(served) : a < j /\ j <= b}}

\* While the server keeps its catalog, the pages gathered are those up to the cursor,
\* all of them when there is no next one; and what is judged has the tools served.
Gathered ==
    intact =>
        /\ fetching => /\ ToolsOf(descriptors) = ToolsBetween(0, cursor)
                       /\ ~more => cursor >= Len(served)
        /\ reply \in Verdicts => ToolsOf(captured) = ToolsOf(served)

\* The tools of two lists of descriptors.
LEMMA ToolsOfBoth ==
    ASSUME NEW a \in Seq(Descriptor), NEW b \in Seq(Descriptor)
    PROVE  ToolsOf(a \o b) = ToolsOf(a) \cup ToolsOf(b)
<1> DEFINE Tool(d) == <<NameOf[d], HashOf[d]>>
           ab == a \o b
<1>1. /\ DOMAIN a = 1..Len(a) /\ DOMAIN b = 1..Len(b) /\ DOMAIN ab = 1..(Len(a) + Len(b))
      /\ Len(a) \in Nat /\ Len(b) \in Nat
      /\ \A j \in 1..(Len(a) + Len(b)) : ab[j] = IF j <= Len(a) THEN a[j] ELSE b[j - Len(a)]
  OBVIOUS
<1> HIDE DEF ab
<1>2. ASSUME NEW t \in ToolsOf(ab) PROVE t \in ToolsOf(a) \cup ToolsOf(b)
  <2>1. PICK j \in 1..(Len(a) + Len(b)) : t = Tool(ab[j])
    BY <1>1 DEF ToolsOf
  <2>2. CASE j <= Len(a)
    <3>1. j \in DOMAIN a /\ ab[j] = a[j]
      BY <1>1, <2>2
    <3> QED
      BY <2>1, <3>1 DEF ToolsOf
  <2>3. CASE ~(j <= Len(a))
    <3>1. j - Len(a) \in DOMAIN b /\ ab[j] = b[j - Len(a)]
      BY <1>1, <2>3
    <3> QED
      BY <2>1, <3>1 DEF ToolsOf
  <2> QED
    BY <2>2, <2>3
<1>3. ToolsOf(a) \subseteq ToolsOf(ab)
  <2>1. \A j \in DOMAIN a : j \in DOMAIN ab /\ ab[j] = a[j]
    BY <1>1
  <2> QED
    BY <2>1 DEF ToolsOf
<1>4. ToolsOf(b) \subseteq ToolsOf(ab)
  <2>1. ASSUME NEW j \in DOMAIN b PROVE Len(a) + j \in DOMAIN ab /\ ab[Len(a) + j] = b[j]
    <3>1. Len(a) + j \in 1..(Len(a) + Len(b)) /\ ~(Len(a) + j <= Len(a)) /\ Len(a) + j - Len(a) = j
      BY <1>1
    <3> QED
      BY <1>1, <3>1
  <2> QED
    BY <2>1 DEF ToolsOf
<1> QED
  BY <1>2, <1>3, <1>4 DEF ab

\* The tools of a page.
LEMMA PageTools ==
    ASSUME NEW k \in Nat, served \in Catalog
    PROVE  ToolsOf(PageAt(k)) = ToolsBetween(k, k + PageSize)
<1> DEFINE n == IF LastAt(k) THEN Len(served) ELSE k + PageSize
           page == PageAt(k)
           Tool(d) == <<NameOf[d], HashOf[d]>>
<1>1. served \in Seq(Descriptor) /\ Len(served) \in Nat
  OBVIOUS
<1>2. n \in Nat /\ n <= Len(served) /\ \A j \in 1..Len(served) : j <= n <=> j <= k + PageSize
  BY <1>1 DEF LastAt
<1>3. page = SubSeq(served, k + 1, n)
  BY DEF PageAt
<1> HIDE DEF n
<1>4. \A j \in (k + 1)..n : served[j] \in Descriptor
  BY <1>1, <1>2
<1>5. /\ SubSeq(served, k + 1, n) \in Seq(Descriptor)
      /\ Len(SubSeq(served, k + 1, n)) = IF k + 1 <= n THEN n - (k + 1) + 1 ELSE 0
      /\ \A j \in 1..(n - (k + 1) + 1) : SubSeq(served, k + 1, n)[j] = served[k + 1 + j - 1]
  BY <1>2, <1>4, SubSeqProperties
<1> HIDE DEF page
<1>6. DOMAIN page = 1..Len(page)
  BY <1>3, <1>5
<1>7. ASSUME NEW i \in DOMAIN page
      PROVE  k + i \in 1..Len(served) /\ k < k + i /\ k + i <= k + PageSize /\ page[i] = served[k + i]
  <2>1. i \in 1..(n - (k + 1) + 1) /\ k + 1 + i - 1 = k + i
    BY <1>2, <1>3, <1>5, <1>6
  <2>2. k + i \in 1..Len(served) /\ k < k + i /\ k + i <= n
    BY <1>2, <2>1
  <2> QED
    BY <1>2, <1>3, <1>5, <2>1, <2>2
<1>8. ASSUME NEW j \in 1..Len(served), k < j, j <= k + PageSize
      PROVE  j - k \in DOMAIN page /\ page[j - k] = served[j]
  <2>1. j <= n /\ j - k \in 1..(n - (k + 1) + 1) /\ k + 1 + (j - k) - 1 = j
    BY <1>2, <1>8
  <2> QED
    BY <1>2, <1>3, <1>5, <1>6, <2>1
<1>9. ToolsOf(page) \subseteq ToolsBetween(k, k + PageSize)
  <2>1. ASSUME NEW i \in DOMAIN page PROVE Tool(page[i]) \in ToolsBetween(k, k + PageSize)
    BY <1>7 DEF ToolsBetween
  <2> QED
    BY <2>1 DEF ToolsOf
<1>10. ToolsBetween(k, k + PageSize) \subseteq ToolsOf(page)
  <2>1. ASSUME NEW j \in 1..Len(served), k < j, j <= k + PageSize
        PROVE  Tool(served[j]) \in ToolsOf(page)
    BY <1>8, <2>1 DEF ToolsOf
  <2> QED
    BY <2>1 DEF ToolsBetween
<1> QED
  BY <1>9, <1>10 DEF page

\* Up to the end, they are the tools of the catalog.
LEMMA AllTools ==
    ASSUME served \in Catalog, NEW k \in Nat, k >= Len(served)
    PROVE  ToolsBetween(0, k) = ToolsOf(served)
<1>1. DOMAIN served = 1..Len(served) /\ Len(served) \in Nat
  OBVIOUS
<1>2. {j \in 1..Len(served) : 0 < j /\ j <= k} = DOMAIN served
  BY <1>1
<1> QED
  BY <1>2 DEF ToolsBetween, ToolsOf

\* A page more, or one that was read before.
LEMMA PageGathered ==
    ASSUME TypeOK, Gathered, CursorTypes \subseteq {"string"}, ObservePage
    PROVE  Gathered'
<1>1. PICK k \in {cursor, cursor - PageSize} \cap Nat : Page(k)
  BY DEF ObservePage
<1>2. /\ fetching /\ descriptors' = descriptors \o PageAt(k) /\ cursor' = k + PageSize
      /\ more' = ~LastAt(k) /\ reply' = "Page"
      /\ UNCHANGED <<served, fetching, captured, intact>>
  BY <1>1 DEF Page
<1>3. served \in Catalog /\ Len(served) \in Nat /\ cursor \in Nat /\ descriptors \in Seq(Descriptor)
  BY DEF TypeOK
<1>4. PageAt(k) \in Seq(Descriptor)
  BY <1>3, PageType
<1>5. ASSUME intact PROVE ToolsOf(descriptors') = ToolsBetween(0, cursor')
  <2>1. ToolsOf(descriptors) = ToolsBetween(0, cursor)
    BY <1>2, <1>5 DEF Gathered
  <2>2. ToolsOf(descriptors') = ToolsBetween(0, cursor) \cup ToolsBetween(k, k + PageSize)
    <3>1. ToolsOf(PageAt(k)) = ToolsBetween(k, k + PageSize)
      BY <1>3, PageTools
    <3>2. ToolsOf(descriptors \o PageAt(k)) = ToolsOf(descriptors) \cup ToolsOf(PageAt(k))
      BY <1>3, <1>4, ToolsOfBoth
    <3> QED
      BY <1>2, <2>1, <3>1, <3>2
  <2>3. ToolsBetween(0, cursor) \cup ToolsBetween(k, k + PageSize) = ToolsBetween(0, k + PageSize)
    <3>1. {j \in 1..Len(served) : 0 < j /\ j <= cursor}
          \cup {j \in 1..Len(served) : k < j /\ j <= k + PageSize}
          = {j \in 1..Len(served) : 0 < j /\ j <= k + PageSize}
      BY <1>3
    <3> QED
      BY <3>1 DEF ToolsBetween
  <2> QED
    BY <1>2, <2>2, <2>3
<1>6. ~more' => cursor' >= Len(served)
  BY <1>2, <1>3 DEF LastAt
<1>7. reply' \notin Verdicts
  BY <1>2 DEF Verdicts
<1>8. ToolsBetween(0, cursor)' = ToolsBetween(0, cursor')
  BY <1>2 DEF ToolsBetween
<1> QED
  BY <1>2, <1>5, <1>6, <1>7, <1>8 DEF Gathered

\* Every step keeps what has been gathered true to the catalog served.
LEMMA GatheredNext ==
    ASSUME TypeOK, VerdictsHold, Gathered, CursorTypes \subseteq {"string"}, OnePageOnly, [Next]_vars
    PROVE  Gathered'
<1>1. served \in Catalog /\ Len(served) \in Nat /\ cursor \in Nat
  BY DEF TypeOK
<1>2. CASE Observe
  <2>1. /\ LastAt(0) /\ ~fetching' /\ served' = served
        /\ captured' = IF reply' \in Verdicts THEN PageAt(0) ELSE <<>>
    BY <1>2 DEF Observe, Free, fetch
  <2>2. ToolsOf(PageAt(0)) = ToolsOf(served)
    BY <1>1, <2>1, PageTools, AllTools DEF LastAt
  <2> QED
    BY <2>1, <2>2 DEF Gathered
<1>3. CASE NewAccumulator
  <2>1. /\ reply' = "none" /\ served' = served /\ descriptors' = <<>> /\ cursor' = 0 /\ more' = TRUE
    BY <1>3 DEF NewAccumulator
  <2>2. ToolsOf(<<>>) = {} /\ ToolsBetween(0, 0) = {}
    BY <1>1 DEF ToolsOf, ToolsBetween
  <2>3. ToolsBetween(0, cursor)' = ToolsBetween(0, 0)
    BY <2>1 DEF ToolsBetween
  <2> QED
    BY <2>1, <2>2, <2>3 DEF Gathered, Verdicts
<1>4. CASE ObservePage
  BY <1>4, PageGathered
<1>5. CASE Finish
  <2>1. /\ fetching /\ ~more /\ ~fetching' /\ UNCHANGED <<served, intact>>
        /\ captured' = IF reply' \in Verdicts THEN descriptors ELSE <<>>
    BY <1>5 DEF Finish
  <2>2. intact => ToolsOf(descriptors) = ToolsOf(served)
    BY <1>1, <2>1, AllTools DEF Gathered
  <2> QED
    BY <2>1, <2>2 DEF Gathered
<1>6. CASE \/ Abandon \/ RepinFails \/ PageFails
           \/ Open \/ FlushBegin \/ Flushed \/ FlushFails \/ Save \/ UNCHANGED vars
  <2>1. /\ UNCHANGED <<served, intact, captured>>
        /\ ~fetching' \/ UNCHANGED <<fetching, descriptors, cursor, more>>
        /\ reply' = reply \/ reply' \in {"Integrity", "MalformedCatalog"}
    <3>1. \A p, w : WireError(p, w) # "Ok" => WireError(p, w) \in {"Integrity", "MalformedCatalog"}
      BY WireErrors
    <3> QED
      BY <1>6, <3>1 DEF Abandon, RepinFails, PageFails, Open, FlushBegin, Flushed, FlushFails, Save,
           Undisturbed, vars, fetch
  <2>2. UNCHANGED <<served, cursor>> => ToolsBetween(0, cursor)' = ToolsBetween(0, cursor)
    BY DEF ToolsBetween
  <2> QED
    BY <2>1, <2>2 DEF Gathered, Verdicts
<1>7. CASE Repin
  <2>1. /\ UNCHANGED <<served, intact, fetching, descriptors, cursor, more>>
        /\ reply' \notin Verdicts
    BY <1>7 DEF Repin, fetch, Verdicts
  <2>2. ToolsBetween(0, cursor)' = ToolsBetween(0, cursor)
    BY <2>1 DEF ToolsBetween
  <2> QED
    BY <2>1, <2>2 DEF Gathered
<1>8. CASE Crash \/ PowerLoss \/ ServerChange
  BY <1>8 DEF Crash, PowerLoss, Down, ServerChange, Gathered
<1> QED
  BY <1>2, <1>3, <1>4, <1>5, <1>6, <1>7, <1>8 DEF Next

\* However the catalog is cut into pages, and whichever fail or arrive twice, the
\* verdict is the one on the whole: for a host that uses `observe` on single pages
\* only, and a server whose cursors are strings.
THEOREM WholeIsJudged ==
    ASSUME OnePageOnly, CursorTypes \subseteq {"string"}
    PROVE  Spec => []JudgedWhole
<1>1. Init => Gathered
  BY DEF Init, Gathered
<1>2. IInv /\ Gathered /\ [Next]_vars => Gathered'
  BY GatheredNext DEF IInv
<1>3. IInv /\ Gathered => JudgedWhole
  <2> SUFFICES ASSUME IInv, Gathered, reply \in Verdicts, intact
               PROVE  reply = "Clean" <=>
                        ToolsOf(served) = {<<n, store.pins[n]>> : n \in PinnedNames(store.pins)}
    BY DEF JudgedWhole
  <2>1. /\ captured \in Seq(Descriptor) /\ store \in Doc
    BY DEF IInv, TypeOK, store
  <2>2. /\ ResultOf(captured) = "Ok"
        /\ reply = "Clean" <=> ~HasDrift(ReportOf(captured, store.pins))
        /\ ToolsOf(captured) = ToolsOf(served)
    BY DEF IInv, VerdictsHold, Gathered
  <2>3. store.pins \in Pins
    BY <2>1 DEF Doc
  <2> QED
    BY <2>1, <2>2, <2>3, GoodCatalog, CleanReport
<1> QED
  BY <1>1, <1>2, <1>3, InvHolds, PTL DEF Spec
=============================================================================
