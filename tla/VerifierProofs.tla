--------------------------- MODULE VerifierProofs ---------------------------
(***************************************************************************)
(* Proofs about Verifier, for every set of descriptors, names, hashes and    *)
(* catalogs that satisfies the assumptions of ToolCatalog.                  *)
(***************************************************************************)
EXTENDS Verifier, ToolCatalogProofs

USE DescriptorAssumption, CatalogAssumption

-----------------------------------------------------------------------------
(* The values a call starts from. *)

\* The values a call starts from have their types.
LEMMA EmptyTypes ==
    /\ EmptyReport \in Reports
    /\ NoReply \in Replies
    /\ [n \in Name |-> NoPin] \in Pins
BY DEF EmptyReport, EmptyList, Reports, NameList, NoReply, Replies, CatalogHashes, Pins

-----------------------------------------------------------------------------
(* Type correctness. *)

\* The variables have their types at the start.
LEMMA TypeInit == Init => TypeOK
<1> SUFFICES ASSUME Init PROVE TypeOK
  OBVIOUS
<1> QED
  BY EmptyTypes DEF Init, TypeOK, CatalogHashes

\* Adding a name to one list of a report gives a report.
LEMMA ClassifyType ==
    ASSUME report \in Reports, NEW n \in Name, NEW h \in Hash, Classify(n, h)
    PROVE  report' \in Reports
<1> DEFINE plus(list) == [list EXCEPT ![n] = @ + 1]
<1>1. \A list \in NameList : plus(list) \in NameList
  BY DEF NameList
<1>2. \/ report' = [report EXCEPT !.added = plus(report.added)]
      \/ report' = [report EXCEPT !.unchanged = plus(report.unchanged)]
      \/ report' = [report EXCEPT !.mutated = plus(report.mutated)]
  BY DEF Classify
<1> HIDE DEF plus
<1> QED
  BY <1>1, <1>2 DEF Reports

\* Every step of the loops and of the host keeps the types.
LEMMA TypeNext == TypeOK /\ [Next]_vars => TypeOK'
<1> SUFFICES ASSUME TypeOK, [Next]_vars PROVE TypeOK'
  OBVIOUS
<1> USE DEF TypeOK
<1>t. catalog \in Seq(Descriptor) /\ Len(catalog) \in Nat
  <2>1. <<>> \in Seq(Descriptor)
    OBVIOUS
  <2>2. \A c \in Catalog \cup {<<>>} : c \in Seq(Descriptor)
    BY <2>1, CatalogAssumption
  <2> QED
    BY <2>2, LenProperties
<1>f. ASSUME NEW r \in Replies, Return(r)
      PROVE  /\ call' \in {"none", "verify", "repin"}
             /\ catalog' \in Catalog \cup {<<>>}
             /\ i' \in Nat
             /\ call' # "none" => i' \in 1..Len(catalog') + 1
             /\ observed' \in SUBSET Name
             /\ hashes' \in Seq(Hash)
             /\ report' \in Reports
             /\ reply' \in Replies
  BY <1>f, <1>t, EmptyTypes DEF Return
<1>s. ASSUME call # "none", AtTool, Scan
      PROVE  /\ tool \in Descriptor
             /\ NameOf[tool] \in Name
             /\ HashOf[tool] \in Hash
             /\ i' \in Nat
             /\ call' # "none" => i' \in 1..Len(catalog') + 1
             /\ hashes' \in Seq(Hash)
             /\ observed' \in SUBSET Name
             /\ UNCHANGED <<call, catalog, reply>>
  <2>1. tool \in Descriptor
    BY <1>s, <1>t DEF AtTool, tool
  <2>2. NameOf[tool] \in Name /\ HashOf[tool] \in Hash
    BY <1>s, <2>1, GoodDescriptor DEF Scan
  <2> QED
    BY <1>s, <1>t, <2>1, <2>2 DEF Scan, AtTool
<1>1. CASE Idle /\ Host
  <2>1. ASSUME NEW op \in {"verify", "repin"}, NEW c \in Catalog, Call(op, c)
        PROVE  TypeOK'
    <3>1. Len(c) \in Nat
      OBVIOUS
    <3>2. i' \in Nat /\ i' \in 1..Len(catalog') + 1
      BY <2>1, <3>1 DEF Call
    <3> QED
      BY <2>1, <3>2, EmptyTypes DEF Call, store
  <2>2. ASSUME NEW n \in Name, NEW h \in Hash, HostSet(n, h)
        PROVE  TypeOK'
    BY <2>2 DEF HostSet, HostEdit, locals, Pins
  <2>3. ASSUME NEW n \in Name, HostRemove(n)
        PROVE  TypeOK'
    BY <2>3 DEF HostRemove, HostEdit, locals, Pins
  <2>4. ASSUME NEW c \in Catalog, HostSetCatalogHash(c)
        PROVE  TypeOK'
    <3>1. Len(c) \in Nat /\ DOMAIN HashesIn(c) = 1..Len(c)
      BY DEF HashesIn
    <3>2. catalogHash' \in [Hash -> Nat]
      BY <2>4, <3>1, CatalogHashType DEF HostSetCatalogHash
    <3> QED
      BY <2>4, <3>2 DEF HostSetCatalogHash, HostEdit, locals, CatalogHashes
  <2> QED
    BY <1>1, <2>1, <2>2, <2>3, <2>4 DEF Host
<1>2. CASE TakeReply
  BY <1>2, EmptyTypes DEF TakeReply, store, locals
<1>3. CASE Reject
  <2>1. [NoReply EXCEPT !.op = call, !.result = ErrorOf(tool)] \in Replies
    BY <1>3, EmptyTypes DEF Reject, ErrorOf, Replies, NoReply
  <2> QED
    BY <1>3, <2>1, <1>f DEF Reject, store
<1>4. CASE VerifyTool
  BY <1>4, <1>s, ClassifyType DEF VerifyTool, store
<1>5. CASE FinishVerify
  <2>1. CatalogHash(hashes) \in [Hash -> Nat]
    BY CatalogHashType
  <2>2. [report EXCEPT !.removed = RemovedNames] \in Reports
    BY DEF RemovedNames, Reports, NameList
  <2>3. [op |-> "verify", result |-> "Ok",
         report |-> [report EXCEPT !.removed = RemovedNames],
         observedHash |-> CatalogHash(hashes)] \in Replies
    BY <2>1, <2>2 DEF Replies, CatalogHashes
  <2> QED
    BY <1>5, <2>3, <1>f DEF FinishVerify, store
<1>6. CASE RepinTool
  BY <1>6, <1>s DEF RepinTool, Pins
<1>7. CASE FinishRepin
  <2>1. CatalogHash(hashes) \in [Hash -> Nat]
    BY CatalogHashType
  <2>2. [NoReply EXCEPT !.op = "repin"] \in Replies
    BY EmptyTypes DEF Replies, NoReply
  <2>3. OnlyObserved \in Pins
    BY DEF OnlyObserved, Pins
  <2> QED
    BY <1>7, <2>1, <2>2, <2>3, <1>f DEF FinishRepin, CatalogHashes
<1>8. CASE UNCHANGED vars
  BY <1>8 DEF vars
<1> QED
  BY <1>1, <1>2, <1>3, <1>4, <1>5, <1>6, <1>7, <1>8 DEF Next

\* Every variable keeps its type, whatever the descriptors and catalogs.
THEOREM TypeCorrect == Spec => []TypeOK
<1> QED
  BY TypeInit, TypeNext, PTL DEF Spec

-----------------------------------------------------------------------------
(* The loop invariant, and what it says of the replies. *)

\* At the end of either loop the whole catalog was good.
LEMMA AllGood ==
    ASSUME TypeOK, LoopInv, call # "none", ~AtTool
    PROVE  /\ catalog \in Seq(Descriptor)
           /\ i - 1 = Len(catalog)
           /\ Accepted(catalog) = Len(catalog)
           /\ ResultOf(catalog) = "Ok"
<1>1. catalog \in Seq(Descriptor)
  <2>1. <<>> \in Seq(Descriptor)
    OBVIOUS
  <2> QED
    BY <2>1 DEF TypeOK
<1>2. Len(catalog) \in Nat /\ i - 1 = Len(catalog)
  BY <1>1 DEF TypeOK, AtTool
<1>3. Accepted(catalog) = Len(catalog)
  BY <1>1, <1>2, AcceptedUnique DEF LoopInv
<1> QED
  BY <1>1, <1>2, <1>3 DEF ResultOf

\* No call is under way at the start.
LEMMA LoopInit == Init => LoopInv
BY DEF Init, LoopInv, Verified, NoReply

\* Every step of the loops and of the host keeps LoopInv.
LEMMA LoopNext == TypeOK /\ LoopInv /\ [Next]_vars => LoopInv'
<1> SUFFICES ASSUME TypeOK, LoopInv, [Next]_vars PROVE LoopInv'
  OBVIOUS
<1>t. catalog \in Seq(Descriptor) /\ Len(catalog) \in Nat
  <2>1. <<>> \in Seq(Descriptor)
    OBVIOUS
  <2> QED
    BY <2>1, LenProperties DEF TypeOK
<1>s. ASSUME call # "none", AtTool, Scan
      PROVE  /\ i - 1 \in Nat /\ i - 1 < Len(catalog) /\ i - 1 + 1 = i
             /\ i' - 1 = i - 1 + 1
             /\ NameOf[catalog[i]] \in Name
             /\ call' = call /\ catalog' = catalog
             /\ reply' = NoReply
             /\ \A j \in 1..i'-1 : ErrorOf(catalog[j]) = "Ok"
             /\ observed' = NamesIn(catalog, i'-1)
             /\ Len(hashes') = i'-1
             /\ \A j \in 1..i'-1 : hashes'[j] = HashOf[catalog[j]]
  <2>1. /\ i \in 1..Len(catalog) /\ i - 1 \in Nat /\ i - 1 < Len(catalog) /\ i - 1 + 1 = i
        /\ i' - 1 = i - 1 + 1 /\ i' - 1 = i
    BY <1>s, <1>t DEF TypeOK, AtTool, Scan
  <2>2. catalog[i] \in Descriptor
    BY <1>t, <2>1
  <2>3. NameOf[catalog[i]] \in Name /\ HashOf[catalog[i]] \in Hash
    BY <1>s, <2>2, GoodDescriptor DEF Scan, tool
  <2>4. 1..i'-1 = 1..i-1 \cup {i}
    BY <2>1
  <2>5. \A j \in 1..i'-1 : ErrorOf(catalog[j]) = "Ok"
    BY <1>s, <2>4 DEF Scan, tool, LoopInv
  <2>6. observed' = NamesIn(catalog, i'-1)
    BY <1>s, <2>4 DEF Scan, tool, LoopInv, NamesIn
  <2>7. hashes \in Seq(Hash) /\ Len(hashes) = i-1 /\ hashes' = Append(hashes, HashOf[catalog[i]])
    BY <1>s DEF Scan, tool, LoopInv, TypeOK
  <2>8. Len(hashes') = i /\ hashes'[i] = HashOf[catalog[i]]
        /\ \A j \in 1..i-1 : hashes'[j] = hashes[j]
    BY <2>1, <2>3, <2>7, AppendProperties
  <2>9. \A j \in 1..i'-1 : hashes'[j] = HashOf[catalog[j]]
    BY <1>s, <2>4, <2>8 DEF LoopInv
  <2> QED
    BY <1>s, <2>1, <2>3, <2>5, <2>6, <2>8, <2>9 DEF Scan, LoopInv
<1>r. ASSUME NEW r, Return(r), r.op # "verify" \/ r.result # "Ok", pinsAtCall' = pins'
      PROVE  LoopInv'
  BY <1>r DEF Return, LoopInv, Verified
<1>1. CASE Idle /\ Host
  <2>1. ASSUME NEW op \in {"verify", "repin"}, NEW c \in Catalog, Call(op, c)
        PROVE  LoopInv'
    <3>1. /\ i' = 1 /\ i' - 1 = 0 /\ catalog' = c /\ observed' = {} /\ hashes' = <<>>
          /\ report' = EmptyReport /\ call' = op /\ pins' = pins
          /\ pinsAtCall' = pins /\ pins \in Pins /\ reply' = NoReply
      BY <1>1, <2>1 DEF Call, Idle, store, LoopInv, TypeOK
    <3>2. Len(<<>>) = 0 /\ 1..0 = {}
      OBVIOUS
    <3> QED
      BY <3>1, <3>2, NothingScanned DEF LoopInv, Verified, NoReply, EmptyReport
  <2>2. ASSUME HostEdit PROVE LoopInv'
    BY <1>1, <2>2 DEF HostEdit, Idle, LoopInv, Verified, NoReply
  <2> QED
    BY <1>1, <2>1, <2>2 DEF Host, HostSet, HostRemove, HostSetCatalogHash
<1>2. CASE TakeReply
  BY <1>2 DEF TakeReply, store, locals, LoopInv, Verified, NoReply
<1>3. CASE Reject
  <2>1. ErrorOf(tool) # "Ok"
    BY <1>3 DEF Reject
  <2> DEFINE r == [NoReply EXCEPT !.op = call, !.result = ErrorOf(tool)]
  <2>2. r.result # "Ok"
    BY <2>1 DEF NoReply
  <2> HIDE DEF r
  <2>3. Return(r) /\ pinsAtCall' = pins'
    BY <1>3 DEF Reject, store, r
  <2> QED
    BY <2>2, <2>3, <1>r
<1>4. CASE VerifyTool
  <2>1. /\ call = "verify" /\ AtTool /\ Scan /\ pins' = pins /\ pinsAtCall' = pinsAtCall
        /\ Classify(NameOf[catalog[i]], HashOf[catalog[i]])
    BY <1>4 DEF VerifyTool, store, tool
  <2>2. pins \in Pins /\ report \in Reports
    BY DEF TypeOK
  <2>3. /\ report'.added = AddedIn(catalog, i'-1, pins)
        /\ report'.mutated = MutatedIn(catalog, i'-1, pins)
        /\ report'.unchanged = UnchangedIn(catalog, i'-1, pins)
    <3>1. /\ report.added = AddedIn(catalog, i-1, pins)
          /\ report.mutated = MutatedIn(catalog, i-1, pins)
          /\ report.unchanged = UnchangedIn(catalog, i-1, pins)
      BY <2>1 DEF LoopInv
    <3> DEFINE n == NameOf[catalog[i]]
               h == HashOf[catalog[i]]
    <3>2. /\ AddedIn(catalog, i'-1, pins) =
                IF pins[n] = NoPin THEN [report.added EXCEPT ![n] = @ + 1]
                ELSE report.added
          /\ MutatedIn(catalog, i'-1, pins) =
                IF pins[n] # NoPin /\ pins[n] # h
                THEN [report.mutated EXCEPT ![n] = @ + 1] ELSE report.mutated
          /\ UnchangedIn(catalog, i'-1, pins) =
                IF pins[n] # NoPin /\ pins[n] = h
                THEN [report.unchanged EXCEPT ![n] = @ + 1] ELSE report.unchanged
      <4> DEFINE k == i - 1
      <4>1. /\ k \in Nat /\ k < Len(catalog) /\ i' - 1 = k + 1
            /\ n \in Name /\ n = NameOf[catalog[k+1]] /\ h = HashOf[catalog[k+1]]
        BY <1>s, <2>1
      <4>2. /\ report.added = AddedIn(catalog, k, pins)
            /\ report.mutated = MutatedIn(catalog, k, pins)
            /\ report.unchanged = UnchangedIn(catalog, k, pins)
        BY <3>1
      <4> HIDE DEF n, h, k
      <4>3. /\ AddedIn(catalog, k+1, pins) =
                  IF pins[n] = NoPin THEN [AddedIn(catalog, k, pins) EXCEPT ![n] = @ + 1]
                  ELSE AddedIn(catalog, k, pins)
            /\ MutatedIn(catalog, k+1, pins) =
                  IF pins[n] # NoPin /\ pins[n] # h
                  THEN [MutatedIn(catalog, k, pins) EXCEPT ![n] = @ + 1]
                  ELSE MutatedIn(catalog, k, pins)
            /\ UnchangedIn(catalog, k+1, pins) =
                  IF pins[n] # NoPin /\ pins[n] = h
                  THEN [UnchangedIn(catalog, k, pins) EXCEPT ![n] = @ + 1]
                  ELSE UnchangedIn(catalog, k, pins)
        BY <1>t, <2>2, <4>1, CountStep
      <4> QED
        BY <4>1, <4>2, <4>3
    <3>3. NoPin \notin Hash /\ h \in Hash
      BY <1>s, <1>t, <2>1, GoodDescriptor DEF Scan, tool, AtTool, TypeOK
    <3> HIDE DEF n, h
    <3>4. Classify(n, h)
      BY <2>1 DEF n, h
    <3> QED
      BY <2>2, <3>2, <3>3, <3>4 DEF Classify, Reports
  <2> QED
    BY <1>s, <2>1, <2>3 DEF LoopInv, Verified, NoReply
<1>5. CASE FinishVerify
  <2>1. /\ call = "verify" /\ ~AtTool /\ pins' = pins /\ pinsAtCall' = pinsAtCall
        /\ call' = "none" /\ catalog' = catalog
        /\ reply' = [op |-> "verify", result |-> "Ok",
                     report |-> [report EXCEPT !.removed = RemovedNames],
                     observedHash |-> CatalogHash(hashes)]
    BY <1>5 DEF FinishVerify, Return, store
  <2>2. i - 1 = Len(catalog) /\ \A j \in 1..Len(catalog) : ErrorOf(catalog[j]) = "Ok"
    BY <2>1, AllGood DEF LoopInv
  <2>3. RemovedNames = RemovedFrom(catalog, Len(catalog), pins)
    <3>1. \A n \in Name : n \in observed <=> At(catalog, Len(catalog), n) # {}
      BY <2>1, <2>2 DEF LoopInv, NamesIn, At
    <3> QED
      BY <3>1 DEF RemovedNames, RemovedFrom, PinnedNames
  <2>4. report \in Reports
    BY DEF TypeOK
  <2>5. [report EXCEPT !.removed = RemovedNames] = ReportOf(catalog, pins)
    <3>1. report = [added |-> report.added, removed |-> report.removed,
                    mutated |-> report.mutated, unchanged |-> report.unchanged]
      BY <2>4 DEF Reports
    <3>2. [report EXCEPT !.removed = RemovedNames] =
             [added |-> report.added, removed |-> RemovedNames,
              mutated |-> report.mutated, unchanged |-> report.unchanged]
      BY <3>1
    <3> QED
      BY <2>1, <2>2, <2>3, <3>2 DEF LoopInv, ReportOf
  <2>6. pins = pinsAtCall
    BY <2>1 DEF LoopInv
  <2> QED
    BY <2>1, <2>2, <2>5, <2>6 DEF LoopInv, Verified
<1>6. CASE RepinTool
  <2>1. /\ call = "repin" /\ AtTool /\ Scan /\ pinsAtCall' = pinsAtCall
        /\ pins' = [pins EXCEPT ![NameOf[catalog[i]]] = HashOf[catalog[i]]]
    BY <1>6 DEF RepinTool, tool
  <2>2. pins' = PinnedOver(pinsAtCall, catalog, i'-1)
    BY <1>s, <1>t, <2>1, PinStep DEF LoopInv
  <2> QED
    BY <1>s, <2>1, <2>2 DEF LoopInv, Verified, NoReply
<1>7. CASE FinishRepin
  <2> DEFINE r == [NoReply EXCEPT !.op = "repin"]
  <2>1. r.op # "verify"
    BY DEF NoReply
  <2> HIDE DEF r
  <2>2. Return(r) /\ pinsAtCall' = pins'
    BY <1>7 DEF FinishRepin, r
  <2> QED
    BY <2>1, <2>2, <1>r
<1>8. CASE UNCHANGED vars
  BY <1>8 DEF vars, LoopInv, Verified
<1> QED
  BY <1>1, <1>2, <1>3, <1>4, <1>5, <1>6, <1>7, <1>8 DEF Next

\* The loops of `verify` and `repin` compute the declarative report and pins.
THEOREM LoopsCorrect == Spec => []LoopInv
<1>1. TypeOK /\ LoopInv /\ [Next]_vars => (TypeOK /\ LoopInv)'
  BY TypeNext, LoopNext
<1>2. Init => TypeOK /\ LoopInv
  BY TypeInit, LoopInit
<1> QED
  BY <1>1, <1>2, PTL DEF Spec
\* `verify` is clean exactly on the pinned tools, for all catalogs and pins.
THEOREM CleanIsExact == Spec => []CleanIffBaseline
<1>1. TypeOK /\ LoopInv => CleanIffBaseline
  <2> SUFFICES ASSUME TypeOK, LoopInv, Verified
               PROVE  ~HasDrift(reply.report) <=> ToolsOf(catalog) = PinnedTools
    BY DEF CleanIffBaseline
  <2>1. catalog \in Seq(Descriptor)
    <3>1. <<>> \in Seq(Descriptor)
      OBVIOUS
    <3> QED
      BY <3>1 DEF TypeOK
  <2>2. /\ \A j \in 1..Len(catalog) : ErrorOf(catalog[j]) = "Ok"
        /\ reply.report = ReportOf(catalog, pins)
        /\ pins \in Pins
    BY DEF LoopInv, TypeOK
  <2> QED
    BY <2>1, <2>2, CleanReport DEF PinnedTools
<1> QED
  BY <1>1, TypeCorrect, LoopsCorrect, PTL
-----------------------------------------------------------------------------
(* The loops implement the one-step service. *)

\* CatalogService reads the operators of ToolCatalog with the same constants.
LEMMA SameOperators ==
    ASSUME NEW c, NEW p, NEW k, NEW hs
    PROVE  /\ Service!ResultOf(c) = ResultOf(c)
           /\ Service!Accepted(c) = Accepted(c)
           /\ Service!PinnedOver(p, c, k) = PinnedOver(p, c, k)
           /\ Service!BaselineOf(c) = BaselineOf(c)
           /\ Service!ReportOf(c, p) = ReportOf(c, p)
           /\ Service!CatalogHash(hs) = CatalogHash(hs)
           /\ Service!HashesIn(c) = HashesIn(c)
           /\ Service!NoReply = NoReply
<1>1. \A d : Service!ErrorOf(d) = ErrorOf(d)
  BY DEF Service!ErrorOf, ErrorOf
<1>3. Service!Accepted(c) = Accepted(c)
  BY <1>1 DEF Service!Accepted, Accepted
<1>4. \A q, r : Service!PinnedOver(r, c, q) = PinnedOver(r, c, q)
  BY DEF Service!PinnedOver, PinnedOver, Service!At, At
<1>5. Service!ReportOf(c, p) = ReportOf(c, p)
  <2>1. Service!AddedIn(c, Len(c), p) = AddedIn(c, Len(c), p)
    BY DEF Service!AddedIn, AddedIn, Service!At, At, Service!Cardinality, Cardinality
  <2>2. Service!MutatedIn(c, Len(c), p) = MutatedIn(c, Len(c), p)
    BY DEF Service!MutatedIn, MutatedIn, Service!At, At, Service!Cardinality, Cardinality
  <2>3. Service!UnchangedIn(c, Len(c), p) = UnchangedIn(c, Len(c), p)
    BY DEF Service!UnchangedIn, UnchangedIn, Service!At, At, Service!Cardinality, Cardinality
  <2>4. Service!RemovedFrom(c, Len(c), p) = RemovedFrom(c, Len(c), p)
    BY DEF Service!RemovedFrom, RemovedFrom, Service!At, At
  <2> QED
    BY <2>1, <2>2, <2>3, <2>4 DEF Service!ReportOf, ReportOf
<1>6. Service!CatalogHash(hs) = CatalogHash(hs)
  BY DEF Service!CatalogHash, CatalogHash, Service!Cardinality, Cardinality
<1>2. Service!HashesIn(c) = HashesIn(c)
  BY DEF Service!HashesIn, HashesIn
<1>7. Service!NoReply = NoReply
  BY DEF Service!NoReply, NoReply, Service!EmptyReport, EmptyReport, Service!EmptyList, EmptyList
<1>8. Service!ResultOf(c) = ResultOf(c)
  BY <1>1, <1>3 DEF Service!ResultOf, ResultOf
<1> QED
  BY <1>2, <1>3, <1>4, <1>5, <1>6, <1>7, <1>8 DEF Service!BaselineOf, BaselineOf

\* The hashes gathered by the loop have the catalog hash of the catalog.
LEMMA GatheredHashes ==
    ASSUME TypeOK, LoopInv, call # "none", ~AtTool
    PROVE  CatalogHash(hashes) = CatalogHash(HashesIn(catalog))
<1>1. hashes \in Seq(Hash) /\ Len(hashes) = Len(catalog)
  BY AllGood DEF TypeOK, LoopInv
<1>2. DOMAIN hashes = 1..Len(catalog) /\ DOMAIN HashesIn(catalog) = 1..Len(catalog)
  BY <1>1 DEF HashesIn
<1>3. \A j \in 1..Len(catalog) : hashes[j] = HashesIn(catalog)[j]
  BY AllGood DEF LoopInv, HashesIn
<1>4. \A h \in Hash : {j \in DOMAIN hashes : hashes[j] = h} =
                       {j \in DOMAIN HashesIn(catalog) : HashesIn(catalog)[j] = h}
  BY <1>2, <1>3
<1> QED
  BY <1>4 DEF CatalogHash

\* What is left after the names that were not observed are dropped.
LEMMA DroppedUnobserved ==
    ASSUME TypeOK, LoopInv, call = "repin", ~AtTool
    PROVE  OnlyObserved = BaselineOf(catalog)
<1>1. i - 1 = Len(catalog)
  BY AllGood
<1>2. pins = PinnedOver(pinsAtCall, catalog, Len(catalog))
  BY <1>1 DEF LoopInv
<1>3. \A n \in Name : n \in observed <=> At(catalog, Len(catalog), n) # {}
  BY <1>1 DEF LoopInv, NamesIn, At
<1> DEFINE none == [n \in Name |-> NoPin]
<1>4. \A n \in Name : OnlyObserved[n] = PinnedOver(none, catalog, Len(catalog))[n]
  <2> SUFFICES ASSUME NEW n \in Name
               PROVE  OnlyObserved[n] = PinnedOver(none, catalog, Len(catalog))[n]
    OBVIOUS
  <2> DEFINE S == At(catalog, Len(catalog), n)
             v == HashOf[catalog[CHOOSE j \in S : \A l \in S : l <= j]]
  <2>1. pins[n] = IF S = {} THEN pinsAtCall[n] ELSE v
    BY <1>2 DEF PinnedOver
  <2>2. PinnedOver(none, catalog, Len(catalog))[n] = IF S = {} THEN NoPin ELSE v
    BY DEF PinnedOver
  <2>3. OnlyObserved[n] = IF S # {} THEN pins[n] ELSE NoPin
    BY <1>3 DEF OnlyObserved
  <2> HIDE DEF S, v, none
  <2> QED
    BY <2>1, <2>2, <2>3
<1>5. OnlyObserved = [n \in Name |-> OnlyObserved[n]]
  BY DEF OnlyObserved
<1>6. PinnedOver(none, catalog, Len(catalog)) =
         [n \in Name |-> PinnedOver(none, catalog, Len(catalog))[n]]
  BY DEF PinnedOver
<1> QED
  BY <1>4, <1>5, <1>6 DEF BaselineOf

\* Every step is one of CatalogService or changes nothing there.
LEMMA StepImplements ==
    TypeOK /\ LoopInv /\ [Next]_vars => [Service!Next]_(Service!vars)
<1> SUFFICES ASSUME TypeOK, LoopInv, [Next]_vars
             PROVE  Service!Next \/ UNCHANGED Service!vars
  OBVIOUS
<1>r. Service!NoReply = NoReply
  BY SameOperators
<1>1. CASE Idle /\ Host
  <2>1. Service!Idle /\ pins = pinsAtCall
    BY <1>1, <1>r DEF Idle, Service!Idle, LoopInv
  <2>2. ASSUME NEW op \in {"verify", "repin"}, NEW c \in Catalog, Call(op, c)
        PROVE  Service!Call(op, c)
    BY <2>2 DEF Call, Service!Call, store
  <2>3. ASSUME NEW n \in Name, NEW h \in Hash, HostSet(n, h)
        PROVE  Service!Edit
    BY <2>1, <2>3 DEF HostSet, HostEdit, Service!Edit
  <2>4. ASSUME NEW n \in Name, HostRemove(n)
        PROVE  Service!Edit
    BY <2>1, <2>4 DEF HostRemove, HostEdit, Service!Edit
  <2>5. ASSUME NEW c \in Catalog, HostSetCatalogHash(c)
        PROVE  Service!Edit
    BY <2>1, <2>5, SameOperators DEF HostSetCatalogHash, HostEdit, Service!Edit
  <2> QED
    BY <1>1, <2>1, <2>2, <2>3, <2>4, <2>5 DEF Host, Service!Next
<1>2. CASE TakeReply
  BY <1>2, <1>r DEF TakeReply, store, Service!TakeReply, Service!Next
<1>3. CASE Reject
  <2>1. catalog \in Seq(Descriptor)
    <3>1. <<>> \in Seq(Descriptor)
      OBVIOUS
    <3> QED
      BY <3>1 DEF TypeOK
  <2>2. /\ i - 1 \in 0..Len(catalog) /\ i - 1 < Len(catalog) /\ i - 1 + 1 = i
        /\ \A j \in 1..i-1 : ErrorOf(catalog[j]) = "Ok"
        /\ ErrorOf(catalog[i]) # "Ok"
    BY <1>3, <2>1 DEF Reject, AtTool, tool, TypeOK, LoopInv
  <2>3. Accepted(catalog) = i - 1
    BY <2>1, <2>2, AcceptedUnique
  <2>4. ResultOf(catalog) = ErrorOf(tool) /\ ErrorOf(tool) # "Ok"
    BY <2>2, <2>3 DEF ResultOf, tool
  <2>5. /\ call \in {"verify", "repin"} /\ call' = "none" /\ catalog' = catalog
        /\ catalogHash' = catalogHash /\ pinsAtCall' = pins
        /\ reply' = [NoReply EXCEPT !.op = call, !.result = ErrorOf(tool)]
    BY <1>3 DEF Reject, Return, store, TypeOK
  <2>6. reply' = Service!Failed(call, ResultOf(catalog))
    BY <1>r, <2>4, <2>5 DEF Service!Failed
  <2>7. CASE call = "verify"
    <3>1. pins = pinsAtCall
      BY <2>7 DEF LoopInv
    <3>2. Service!Verify
      BY <2>4, <2>5, <2>6, <2>7, <3>1, SameOperators DEF Service!Verify
    <3> QED
      BY <3>2 DEF Service!Next
  <2>8. CASE call = "repin"
    <3>1. pins = PinnedOver(pinsAtCall, catalog, Accepted(catalog))
      BY <2>3, <2>8 DEF LoopInv
    <3>2. Service!RepinFails
      BY <2>4, <2>5, <2>6, <2>8, <3>1, SameOperators DEF Service!RepinFails
    <3> QED
      BY <3>2 DEF Service!Next
  <2> QED
    BY <2>5, <2>7, <2>8
<1>4. CASE VerifyTool
  BY <1>4 DEF VerifyTool, Scan, store, Service!vars
<1>5. CASE FinishVerify
  <2>1. /\ call = "verify" /\ ~AtTool /\ pinsAtCall' = pinsAtCall
        /\ catalogHash' = catalogHash /\ call' = "none" /\ catalog' = catalog
    BY <1>5 DEF FinishVerify, Return, store
  <2>2. ResultOf(catalog) = "Ok"
    BY <2>1, AllGood
  <2>3. reply'.report = ReportOf(catalog, pinsAtCall)
    <3>1. LoopInv'
      BY LoopNext
    <3>2. Verified'
      BY <1>5 DEF FinishVerify, Return, Verified
    <3>3. pins' = pinsAtCall /\ reply'.report = ReportOf(catalog', pins')
      BY <2>1, <3>1, <3>2 DEF LoopInv
    <3> QED
      BY <2>1, <3>3
  <2>4. CatalogHash(hashes) = CatalogHash(HashesIn(catalog))
    BY <2>1, GatheredHashes
  <2>5. reply' = [op |-> "verify", result |-> "Ok",
                  report |-> ReportOf(catalog, pinsAtCall),
                  observedHash |-> CatalogHash(HashesIn(catalog))]
    BY <1>5, <2>3, <2>4 DEF FinishVerify, Return
  <2>6. Service!Verify
    BY <2>1, <2>2, <2>5, SameOperators DEF Service!Verify
  <2> QED
    BY <2>6 DEF Service!Next
<1>6. CASE RepinTool
  BY <1>6 DEF RepinTool, Scan, Service!vars
<1>7. CASE FinishRepin
  <2>1. /\ call = "repin" /\ ~AtTool /\ pinsAtCall' = OnlyObserved
        /\ catalogHash' = CatalogHash(hashes) /\ call' = "none" /\ catalog' = catalog
        /\ reply' = [NoReply EXCEPT !.op = "repin"]
    BY <1>7 DEF FinishRepin, Return
  <2>2. /\ ResultOf(catalog) = "Ok"
        /\ OnlyObserved = BaselineOf(catalog)
        /\ CatalogHash(hashes) = CatalogHash(HashesIn(catalog))
    BY <2>1, AllGood, DroppedUnobserved, GatheredHashes
  <2>3. Service!Repin
    BY <1>r, <2>1, <2>2, SameOperators DEF Service!Repin
  <2> QED
    BY <2>3 DEF Service!Next
<1>8. CASE UNCHANGED vars
  BY <1>8 DEF vars, Service!vars
<1> QED
  BY <1>1, <1>2, <1>3, <1>4, <1>5, <1>6, <1>7, <1>8 DEF Next

\* For the host, every call is one step of CatalogService: the declarative
\* report, baseline or error, and the partial pins of a failing `repin`.
THEOREM VerifierRefinesService == Spec => ImplementsService
<1>1. Init => Service!Init
  BY SameOperators DEF Init, Service!Init
<1> QED
  BY <1>1, StepImplements, TypeCorrect, LoopsCorrect, PTL
     DEF Spec, ImplementsService, Service!Spec

-----------------------------------------------------------------------------
(* What a re-pin and a later verdict have to do with each other. *)

\* Every listing is classified once, and every pinned name that is missing.
THEOREM AllAreClassified == Spec => []EveryToolClassified
<1>1. TypeOK /\ LoopInv => EveryToolClassified
  <2> SUFFICES ASSUME TypeOK, LoopInv, Verified, NEW n \in Name
               PROVE  LET r == reply.report IN
                      /\ r.added[n] + r.mutated[n] + r.unchanged[n] =
                             Cardinality(At(catalog, Len(catalog), n))
                      /\ r.removed[n] > 0 <=> (pins[n] # NoPin /\ At(catalog, Len(catalog), n) = {})
                      /\ r.removed[n] \in {0, 1}
    BY DEF EveryToolClassified
  <2>1. catalog \in Seq(Descriptor)
    <3>1. <<>> \in Seq(Descriptor)
      OBVIOUS
    <3> QED
      BY <3>1 DEF TypeOK
  <2>2. reply.report = ReportOf(catalog, pins) /\ pins \in Pins
    BY DEF LoopInv, TypeOK
  <2> QED
    BY <2>1, <2>2, AllClassified
<1> QED
  BY <1>1, TypeCorrect, LoopsCorrect, PTL

\* The store has the pins and the hash of one catalog that was accepted.
FromCatalog(p, h) ==
    \E c \in Seq(Descriptor) :
        /\ ResultOf(c) = "Ok"
        /\ p = BaselineOf(c)
        /\ h = CatalogHash(HashesIn(c))

\* What a re-pin leaves until the host writes the store, and the hash that `verify`
\* returns with its report.
AcceptInv ==
    /\ origin = "accepted" => FromCatalog(pinsAtCall, catalogHash)
    /\ Verified => reply.observedHash = CatalogHash(HashesIn(catalog))

\* Every step keeps that.
LEMMA AcceptNext == TypeOK /\ LoopInv /\ AcceptInv /\ [Next]_vars => AcceptInv'
<1> SUFFICES ASSUME TypeOK, LoopInv, AcceptInv, [Next]_vars PROVE AcceptInv'
  OBVIOUS
<1>k. ASSUME UNCHANGED <<pinsAtCall, catalogHash>>, origin' = "accepted" => origin = "accepted",
             Verified' => reply'.observedHash = CatalogHash(HashesIn(catalog'))
      PROVE  AcceptInv'
  BY <1>k DEF AcceptInv, Verified
<1>1. CASE Idle /\ Host
  <2>1. ~Verified' /\ (origin' = "edited" \/ UNCHANGED <<pinsAtCall, catalogHash, origin>>)
    BY <1>1 DEF Idle, Host, HostSet, HostRemove, HostSetCatalogHash, HostEdit, Call, store,
       Verified, NoReply
  <2> QED
    BY <2>1 DEF AcceptInv
<1>2. CASE TakeReply
  <2>1. ~Verified' /\ UNCHANGED <<pinsAtCall, catalogHash, origin>>
    BY <1>2 DEF TakeReply, Verified, NoReply, store
  <2> QED
    BY <1>k, <2>1
<1>3. CASE Reject
  <2>1. /\ call # "none" /\ reply' = [NoReply EXCEPT !.op = call, !.result = ErrorOf(tool)]
        /\ ErrorOf(tool) # "Ok"
        /\ pinsAtCall' = pins /\ pins' = pins /\ catalogHash' = catalogHash
        /\ origin' = IF call = "repin" /\ i > 1 THEN "partial" ELSE origin
    BY <1>3 DEF Reject, Return, store
  <2>2. ~Verified'
    BY <2>1 DEF Verified, NoReply
  <2>3. origin' = "accepted" => pins = pinsAtCall
    <3>1. CASE call = "repin"
      <4>1. i > 1 \/ i = 1
        BY <2>1 DEF TypeOK
      <4>2. i = 1 => pins = PinnedOver(pinsAtCall, catalog, 0)
        BY <3>1 DEF LoopInv
      <4>3. PinnedOver(pinsAtCall, catalog, 0) = pinsAtCall
        BY NothingScanned DEF TypeOK
      <4> QED
        BY <2>1, <3>1, <4>1, <4>2, <4>3
    <3>2. CASE call # "repin"
      BY <3>2 DEF LoopInv
    <3> QED
      BY <3>1, <3>2
  <2>4. origin' = "accepted" => origin = "accepted"
    BY <2>1
  <2> QED
    BY <2>1, <2>2, <2>3, <2>4 DEF AcceptInv
<1>4. CASE VerifyTool \/ RepinTool
  <2>1. ~Verified' /\ UNCHANGED <<pinsAtCall, catalogHash, origin>>
    BY <1>4 DEF VerifyTool, RepinTool, Scan, store, LoopInv, Verified, NoReply
  <2> QED
    BY <1>k, <2>1
<1>5. CASE FinishVerify
  <2>1. /\ UNCHANGED <<pinsAtCall, catalogHash, origin, catalog>>
        /\ reply'.observedHash = CatalogHash(hashes)
    BY <1>5 DEF FinishVerify, Return, store
  <2>2. CatalogHash(hashes) = CatalogHash(HashesIn(catalog))
    BY <1>5, GatheredHashes DEF FinishVerify
  <2> QED
    BY <1>k, <2>1, <2>2
<1>6. CASE FinishRepin
  <2>1. /\ pinsAtCall' = OnlyObserved /\ catalogHash' = CatalogHash(hashes)
        /\ reply' = [NoReply EXCEPT !.op = "repin"]
    BY <1>6 DEF FinishRepin, Return
  <2>2. /\ OnlyObserved = BaselineOf(catalog)
        /\ CatalogHash(hashes) = CatalogHash(HashesIn(catalog))
        /\ catalog \in Seq(Descriptor) /\ ResultOf(catalog) = "Ok"
    BY <1>6, DroppedUnobserved, GatheredHashes, AllGood DEF FinishRepin
  <2>3. FromCatalog(pinsAtCall', catalogHash')
    BY <2>1, <2>2 DEF FromCatalog
  <2>4. ~Verified'
    BY <2>1 DEF Verified, NoReply
  <2> QED
    BY <2>3, <2>4 DEF AcceptInv
<1>7. CASE UNCHANGED vars
  BY <1>k, <1>7 DEF vars, AcceptInv, Verified
<1> QED
  BY <1>1, <1>2, <1>3, <1>4, <1>5, <1>6, <1>7 DEF Next

\* So it always holds, with the types and the loops.
LEMMA AcceptHolds == Spec => [](TypeOK /\ LoopInv /\ AcceptInv)
<1>1. Init => AcceptInv
  BY DEF Init, AcceptInv, Verified, NoReply
<1> QED
  BY <1>1, AcceptNext, TypeCorrect, LoopsCorrect, PTL DEF Spec

\* A verdict that follows a re-pin: the catalog, the one that was accepted, and the
\* pins and the hash the store has of it.
LEMMA VerdictOnAccepted ==
    ASSUME TypeOK, LoopInv, AcceptInv, origin = "accepted", Verified
    PROVE  /\ catalog \in Seq(Descriptor)
           /\ \A j \in 1..Len(catalog) : /\ NameOf[catalog[j]] \in Name
                                         /\ HashOf[catalog[j]] \in Hash
           /\ ~HasDrift(reply.report) <=> ToolsOf(catalog) = PinnedTools
           /\ reply.observedHash = CatalogHash(HashesIn(catalog))
           /\ FromCatalog(pins, catalogHash)
<1>1. catalog \in Seq(Descriptor)
  <2>1. <<>> \in Seq(Descriptor)
    OBVIOUS
  <2> QED
    BY <2>1 DEF TypeOK
<1>2. /\ call = "none" /\ \A j \in 1..Len(catalog) : ErrorOf(catalog[j]) = "Ok"
      /\ reply.report = ReportOf(catalog, pins)
      /\ pins \in Pins /\ pins = pinsAtCall
  BY DEF LoopInv, TypeOK
<1>3. \A j \in 1..Len(catalog) : NameOf[catalog[j]] \in Name /\ HashOf[catalog[j]] \in Hash
  <2>1. \A j \in 1..Len(catalog) : catalog[j] \in Descriptor
    BY <1>1
  <2> QED
    BY <1>2, <2>1, GoodDescriptor
<1>4. ~HasDrift(reply.report) <=> ToolsOf(catalog) = PinnedTools
  BY <1>1, <1>2, CleanReport DEF PinnedTools
<1> QED
  BY <1>1, <1>2, <1>3, <1>4 DEF AcceptInv

\* After a re-pin, a clean catalog shows only descriptors that were accepted.
THEOREM OnlyAcceptedShown == Spec => []CleanShowsOnlyAccepted
<1>1. TypeOK /\ LoopInv /\ AcceptInv => CleanShowsOnlyAccepted
  <2> SUFFICES ASSUME TypeOK, LoopInv, AcceptInv, origin = "accepted", Clean,
                      NEW h \in Hash, reply.observedHash[h] > 0
               PROVE  catalogHash[h] > 0
    BY DEF CleanShowsOnlyAccepted
  <2>1. Verified /\ ~HasDrift(reply.report)
    BY DEF Clean
  <2>2. /\ catalog \in Seq(Descriptor) /\ ToolsOf(catalog) = PinnedTools
        /\ reply.observedHash = CatalogHash(HashesIn(catalog))
        /\ FromCatalog(pins, catalogHash)
    BY <2>1, VerdictOnAccepted
  <2>3. PICK c \in Seq(Descriptor) : /\ ResultOf(c) = "Ok" /\ pins = BaselineOf(c)
                                     /\ catalogHash = CatalogHash(HashesIn(c))
    BY <2>2 DEF FromCatalog
  <2>4. PICK j \in 1..Len(catalog) : HashOf[catalog[j]] = h
    BY <2>2, HashCounted
  <2>5. <<NameOf[catalog[j]], h>> \in PinnedTools
    <3>1. j \in DOMAIN catalog
      BY <2>2
    <3> QED
      BY <2>2, <2>4, <3>1 DEF ToolsOf
  <2>6. PICK n \in PinnedNames(pins) : <<NameOf[catalog[j]], h>> = <<n, pins[n]>>
    BY <2>5 DEF PinnedTools
  <2>7. <<n, h>> \in ToolsOf(c)
    BY <2>3, <2>6, BaselineTools
  <2>8. PICK k \in DOMAIN c : <<n, h>> = <<NameOf[c[k]], HashOf[c[k]]>>
    BY <2>7 DEF ToolsOf
  <2>9. k \in 1..Len(c) /\ HashOf[c[k]] = h
    BY <2>3, <2>8
  <2> QED
    BY <2>3, <2>9, HashCounted
<1> QED
  BY <1>1, AcceptHolds, PTL

\* After a re-pin, a catalog with the accepted catalog hash is clean if it lists no
\* name twice with different hashes: an equal count of hashes is the same tools.
THEOREM SameHashShowsNoDrift == Spec => []SameHashIsClean
<1>1. TypeOK /\ LoopInv /\ AcceptInv => SameHashIsClean
  <2> SUFFICES ASSUME TypeOK, LoopInv, AcceptInv, origin = "accepted", Verified,
                      reply.observedHash = catalogHash, ~Conflicting(catalog)
               PROVE  Clean
    BY DEF SameHashIsClean
  <2>1. /\ catalog \in Seq(Descriptor)
        /\ \A j \in 1..Len(catalog) : NameOf[catalog[j]] \in Name /\ HashOf[catalog[j]] \in Hash
        /\ ~HasDrift(reply.report) <=> ToolsOf(catalog) = PinnedTools
        /\ catalogHash = CatalogHash(HashesIn(catalog))
        /\ FromCatalog(pins, catalogHash)
    BY VerdictOnAccepted
  <2>2. PICK c \in Seq(Descriptor) : /\ ResultOf(c) = "Ok" /\ pins = BaselineOf(c)
                                     /\ catalogHash = CatalogHash(HashesIn(c))
    BY <2>1 DEF FromCatalog
  <2>3. \A j \in 1..Len(c) : NameOf[c[j]] \in Name /\ HashOf[c[j]] \in Hash
    <3>1. \A j \in 1..Len(c) : c[j] \in Descriptor /\ ErrorOf(c[j]) = "Ok"
      BY <2>2, GoodCatalog
    <3> QED
      BY <3>1, GoodDescriptor
  <2>4. \A h \in Hash : (\E j \in 1..Len(catalog) : HashOf[catalog[j]] = h)
                        <=> (\E k \in 1..Len(c) : HashOf[c[k]] = h)
    <3>1. ASSUME NEW h \in Hash
          PROVE  /\ CatalogHash(HashesIn(catalog))[h] > 0
                       <=> \E j \in 1..Len(catalog) : HashOf[catalog[j]] = h
                 /\ CatalogHash(HashesIn(c))[h] > 0 <=> \E k \in 1..Len(c) : HashOf[c[k]] = h
      BY <2>1, HashCounted
    <3>2. CatalogHash(HashesIn(catalog)) = CatalogHash(HashesIn(c))
      BY <2>1, <2>2
    <3> QED
      BY <3>1, <3>2
  <2>5. \A j \in 1..Len(catalog), k \in 1..Len(c) :
           HashOf[catalog[j]] = HashOf[c[k]] => NameOf[catalog[j]] = NameOf[c[k]]
    <3>1. \A j \in 1..Len(catalog) : catalog[j] \in Descriptor
      BY <2>1
    <3>2. \A k \in 1..Len(c) : c[k] \in Descriptor
      OBVIOUS
    <3> QED
      BY <2>1, <3>1, <3>2, HashCoversName
  <2>6. DOMAIN catalog = 1..Len(catalog) /\ DOMAIN c = 1..Len(c)
    BY <2>1
  <2>7. ToolsOf(catalog) = ToolsOf(c)
    <3>1. ASSUME NEW j \in 1..Len(catalog)
          PROVE  \E k \in 1..Len(c) : NameOf[c[k]] = NameOf[catalog[j]] /\ HashOf[c[k]] = HashOf[catalog[j]]
      BY <2>1, <2>4, <2>5
    <3>2. ASSUME NEW k \in 1..Len(c)
          PROVE  \E j \in 1..Len(catalog) : NameOf[c[k]] = NameOf[catalog[j]] /\ HashOf[c[k]] = HashOf[catalog[j]]
      BY <2>3, <2>4, <2>5
    <3>3. /\ ToolsOf(catalog) = {<<NameOf[catalog[j]], HashOf[catalog[j]]>> : j \in 1..Len(catalog)}
          /\ ToolsOf(c) = {<<NameOf[c[k]], HashOf[c[k]]>> : k \in 1..Len(c)}
      BY <2>6, Zenon DEF ToolsOf
    <3>4. ToolsOf(catalog) \subseteq ToolsOf(c)
      BY <3>1, <3>3
    <3>5. ToolsOf(c) \subseteq ToolsOf(catalog)
      BY <3>2, <3>3
    <3> QED
      BY <3>4, <3>5, Zenon
  <2>8. \A j, k \in 1..Len(c) : NameOf[c[j]] = NameOf[c[k]] => HashOf[c[j]] = HashOf[c[k]]
    <3>1. \A j, k \in 1..Len(catalog) :
             NameOf[catalog[j]] = NameOf[catalog[k]] => HashOf[catalog[j]] = HashOf[catalog[k]]
      BY <2>6 DEF Conflicting
    <3>2. \A k \in 1..Len(c) : \E j \in 1..Len(catalog) :
             NameOf[c[k]] = NameOf[catalog[j]] /\ HashOf[c[k]] = HashOf[catalog[j]]
      BY <2>3, <2>4, <2>5
    <3> QED
      BY <3>1, <3>2
  <2>9. ToolsOf(c) = PinnedTools
    BY <2>2, <2>8, BaselineHasAll DEF PinnedTools
  <2> QED
    BY <2>1, <2>7, <2>9 DEF Clean
<1> QED
  BY <1>1, AcceptHolds, PTL
=============================================================================
