------------------------------ MODULE Verifier ------------------------------
(***************************************************************************)
(* The core crate as it runs: `verify` and `repin` walk the catalog one      *)
(* descriptor at a time and return at the first error, over the pin store    *)
(* of a host that calls them in any order with any catalogs, and that may    *)
(* also write the store itself.  The borrow checker gives a call exclusive   *)
(* use of the store, so calls do not interleave; what matters is what an     *)
(* early return leaves behind.                                              *)
(***************************************************************************)
EXTENDS ToolCatalog

VARIABLES
    pins,        \* PinStore: the pinned hash of each name
    catalogHash, \* PinStore: the catalog hash
    call,        \* the call being run: "verify", "repin" or "none"
    catalog,     \* its argument, until the reply is taken
    i,           \* the next descriptor of the loop
    observed,    \* the names seen so far in this call
    hashes,      \* the hashes computed so far in this call
    report,      \* the lists of the report being built
    reply,       \* what the call returned, until the host takes it
    pinsAtCall,  \* history: the pins when no `repin` is under way
    origin       \* history: what wrote the store last

store == <<pins, catalogHash>>
locals == <<i, observed, hashes, report>>
vars == <<pins, catalogHash, call, catalog, i, observed, hashes, report, reply,
          pinsAtCall, origin>>

NoReply == [op |-> "none", result |-> "Ok", report |-> EmptyReport,
            observedHash |-> NoCatalogHash]

Replies == [op : {"none", "verify", "repin"},
            result : {"Ok", "MissingName", "Canonicalization"},
            report : Reports,
            observedHash : CatalogHashes]

TypeOK ==
    /\ pins \in Pins
    /\ catalogHash \in CatalogHashes
    /\ call \in {"none", "verify", "repin"}
    /\ catalog \in Catalog \cup {<<>>}
    /\ i \in Nat
    /\ call # "none" => i \in 1..Len(catalog) + 1
    /\ observed \in SUBSET Name
    /\ hashes \in Seq(Hash)
    /\ report \in Reports
    /\ reply \in Replies
    /\ pinsAtCall \in Pins
    /\ origin \in {"empty", "accepted", "partial", "edited"}

Init ==
    /\ pins = [n \in Name |-> NoPin]
    /\ catalogHash = NoCatalogHash
    /\ call = "none"
    /\ catalog = <<>>
    /\ i = 1
    /\ observed = {}
    /\ hashes = <<>>
    /\ report = EmptyReport
    /\ reply = NoReply
    /\ pinsAtCall = pins
    /\ origin = "empty"

-----------------------------------------------------------------------------
\* The host is outside the crate and has taken what the last call returned.
Idle == call = "none" /\ reply = NoReply

TakeReply ==
    /\ call = "none" /\ reply # NoReply
    /\ reply' = NoReply
    /\ catalog' = <<>>
    /\ UNCHANGED <<store, call, locals, pinsAtCall, origin>>

\* Entering either function: fresh locals.
Call(op, c) ==
    /\ call' = op
    /\ catalog' = c
    /\ i' = 1
    /\ observed' = {}
    /\ hashes' = <<>>
    /\ report' = EmptyReport
    /\ UNCHANGED <<store, reply, pinsAtCall, origin>>

\* Leaving it: the locals are dropped, only the reply is left.
Return(r) ==
    /\ call' = "none"
    /\ i' = 1
    /\ observed' = {}
    /\ hashes' = <<>>
    /\ report' = EmptyReport
    /\ reply' = r
    /\ UNCHANGED catalog

AtTool == i <= Len(catalog)
tool == catalog[i]

\* Mutant of Scan: the loop steps over every second descriptor.
Scan_SkipsOne ==
    /\ ErrorOf(tool) = "Ok"
    /\ hashes' = Append(hashes, HashOf[tool])
    /\ observed' = observed \cup {NameOf[tool]}
    /\ i' = i + 2
    /\ UNCHANGED <<call, catalog, reply>>

\* The part of the loop body that `verify` and `repin` share.
Scan ==
    /\ ErrorOf(tool) = "Ok"
    /\ hashes' = Append(hashes, HashOf[tool])
    /\ observed' = observed \cup {NameOf[tool]}
    /\ i' = i + 1
    /\ UNCHANGED <<call, catalog, reply>>

\* Mutant of Reject: a bad descriptor is skipped rather than rejected.
Reject_SkipsTool ==
    /\ call # "none"
    /\ AtTool
    /\ ErrorOf(tool) # "Ok"
    /\ i' = i + 1
    /\ UNCHANGED <<store, call, catalog, observed, hashes, report, reply, pinsAtCall, origin>>

\* `?` on a descriptor without a name or a canonical form.
Reject ==
    /\ call # "none"
    /\ AtTool
    /\ ErrorOf(tool) # "Ok"
    /\ Return([NoReply EXCEPT !.op = call, !.result = ErrorOf(tool)])
    /\ pinsAtCall' = pins
    /\ origin' = IF call = "repin" /\ i > 1 THEN "partial" ELSE origin
    /\ UNCHANGED store

\* Mutant of Classify: the hash of a pinned tool is not compared.
Classify_ByName(name, hash) ==
    \/ /\ pins[name] = NoPin
       /\ report' = [report EXCEPT !.added[name] = @ + 1]
    \/ /\ pins[name] # NoPin
       /\ report' = [report EXCEPT !.unchanged[name] = @ + 1]

\* Mutant of Classify: a mutated tool is reported as an added one too.
Classify_Twice(name, hash) ==
    report' = [report EXCEPT
                 !.added[name] = IF pins[name] # hash THEN @ + 1 ELSE @,
                 !.mutated[name] = IF pins[name] \notin {NoPin, hash} THEN @ + 1 ELSE @,
                 !.unchanged[name] = IF pins[name] = hash THEN @ + 1 ELSE @]

Classify(name, hash) ==
    \/ /\ pins[name] = NoPin
       /\ report' = [report EXCEPT !.added[name] = @ + 1]
    \/ /\ pins[name] = hash
       /\ report' = [report EXCEPT !.unchanged[name] = @ + 1]
    \/ /\ pins[name] \notin {NoPin, hash}
       /\ report' = [report EXCEPT !.mutated[name] = @ + 1]

VerifyTool ==
    /\ call = "verify"
    /\ AtTool
    /\ Scan
    /\ Classify(NameOf[tool], HashOf[tool])
    /\ UNCHANGED <<store, pinsAtCall, origin>>

RemovedNames == [n \in Name |-> IF n \in PinnedNames(pins) \ observed THEN 1 ELSE 0]

FinishVerify ==
    /\ call = "verify"
    /\ ~AtTool
    /\ Return([op |-> "verify", result |-> "Ok",
               report |-> [report EXCEPT !.removed = RemovedNames],
               observedHash |-> CatalogHash(hashes)])
    /\ UNCHANGED <<store, pinsAtCall, origin>>

\* Mutant of RepinTool: a name that is pinned keeps its pin.
RepinTool_FirstUseOnly ==
    /\ call = "repin"
    /\ AtTool
    /\ Scan
    /\ pins' = [pins EXCEPT ![NameOf[tool]] = IF @ = NoPin THEN HashOf[tool] ELSE @]
    /\ UNCHANGED <<catalogHash, report, pinsAtCall, origin>>

RepinTool ==
    /\ call = "repin"
    /\ AtTool
    /\ Scan
    /\ pins' = [pins EXCEPT ![NameOf[tool]] = HashOf[tool]]
    /\ UNCHANGED <<catalogHash, report, pinsAtCall, origin>>

\* Mutant of OnlyObserved: the pins of tools no longer present stay.
OnlyObserved_KeepsRemoved == pins

\* The pins without those of the names that were not observed.
OnlyObserved == [n \in Name |-> IF n \in observed THEN pins[n] ELSE NoPin]

FinishRepin ==
    /\ call = "repin"
    /\ ~AtTool
    /\ pins' = OnlyObserved
    /\ catalogHash' = CatalogHash(hashes)
    /\ Return([NoReply EXCEPT !.op = "repin"])
    /\ pinsAtCall' = pins'
    /\ origin' = "accepted"

-----------------------------------------------------------------------------
\* The host writes its store between calls.
HostEdit ==
    /\ pinsAtCall' = pins'
    /\ origin' = "edited"
    /\ UNCHANGED <<call, catalog, locals, reply>>

HostSet(n, h) ==
    /\ pins' = [pins EXCEPT ![n] = h]
    /\ UNCHANGED catalogHash
    /\ HostEdit

HostRemove(n) ==
    /\ pins' = [pins EXCEPT ![n] = NoPin]
    /\ UNCHANGED catalogHash
    /\ HostEdit

HostSetCatalogHash(c) ==
    /\ ResultOf(c) = "Ok"
    /\ catalogHash' = CatalogHash(HashesIn(c))
    /\ UNCHANGED pins
    /\ HostEdit

\* What the host may do between calls.
Host ==
    \/ \E op \in {"verify", "repin"}, c \in Catalog : Call(op, c)
    \/ \E n \in Name, h \in Hash : HostSet(n, h)
    \/ \E n \in Name : HostRemove(n)
    \/ \E c \in Catalog : HostSetCatalogHash(c)

Next ==
    \/ Idle /\ Host
    \/ TakeReply
    \/ Reject
    \/ VerifyTool
    \/ FinishVerify
    \/ RepinTool
    \/ FinishRepin

Spec == Init /\ [][Next]_vars

-----------------------------------------------------------------------------
(* Properties. *)

Verified == reply.op = "verify" /\ reply.result = "Ok"
Clean == Verified /\ ~HasDrift(reply.report)

PinnedTools == {<<n, pins[n]>> : n \in PinnedNames(pins)}

\* Two tools of the catalog share a name and have different hashes.
Conflicting(c) ==
    \E j, k \in DOMAIN c : NameOf[c[j]] = NameOf[c[k]] /\ HashOf[c[j]] # HashOf[c[k]]

\* `verify` reports no drift exactly when the tools of the catalog are the
\* pinned tools: nothing new, nothing missing, nothing changed, whatever the
\* order and however often a tool is listed (verifier.rs, verify, has_drift).
CleanIffBaseline ==
    Verified => (~HasDrift(reply.report) <=> ToolsOf(catalog) = PinnedTools)

\* "Every tool is classified as added, removed, mutated, or unchanged": each
\* listed tool is in one list, once per listing, and a name is reported as
\* removed exactly when it is pinned and was not listed (verifier.rs, verify).
EveryToolClassified ==
    Verified => \A n \in Name :
        LET r == reply.report IN
        /\ r.added[n] + r.mutated[n] + r.unchanged[n] =
               Cardinality(At(catalog, Len(catalog), n))
        /\ r.removed[n] > 0 <=> (pins[n] # NoPin /\ At(catalog, Len(catalog), n) = {})
        /\ r.removed[n] \in {0, 1}

\* After a successful `repin`, a catalog with the recorded catalog hash is
\* clean, unless it lists two different tools under one name: the catalog
\* hash and the pins `repin` records agree (verifier.rs, repin).
SameHashIsClean ==
    (origin = "accepted" /\ Verified /\ reply.observedHash = catalogHash
        /\ ~Conflicting(catalog))
    => Clean

\* After a successful `repin`, a catalog that verifies clean lists only
\* descriptors that the accepted catalog listed (verifier.rs, verify, repin).
CleanShowsOnlyAccepted ==
    (origin = "accepted" /\ Clean) =>
        \A h \in Hash : reply.observedHash[h] > 0 => catalogHash[h] > 0

\* What the loops know after i - 1 descriptors: all were good, the locals and
\* the three lists describe exactly them, and `repin` has pinned exactly them;
\* and a reply of `verify` is the report on the whole catalog (verifier.rs,
\* verify, repin).
LoopInv ==
    /\ call # "none" =>
        /\ reply = NoReply
        /\ \A j \in 1..i-1 : ErrorOf(catalog[j]) = "Ok"
        /\ observed = NamesIn(catalog, i-1)
        /\ Len(hashes) = i-1
        /\ \A j \in 1..i-1 : hashes[j] = HashOf[catalog[j]]
    /\ call = "verify" =>
        /\ report.added = AddedIn(catalog, i-1, pins)
        /\ report.mutated = MutatedIn(catalog, i-1, pins)
        /\ report.unchanged = UnchangedIn(catalog, i-1, pins)
    /\ pins = IF call = "repin" THEN PinnedOver(pinsAtCall, catalog, i-1) ELSE pinsAtCall
    /\ Verified =>
        /\ call = "none"
        /\ \A j \in 1..Len(catalog) : ErrorOf(catalog[j]) = "Ok"
        /\ reply.report = ReportOf(catalog, pins)

\* Seen from the host, each call is the one-step operation of CatalogService:
\* the loops compute the declarative report, baseline and error, and a failing
\* `repin` leaves exactly the pins of the descriptors before the bad one.
Service == INSTANCE CatalogService WITH pins <- pinsAtCall
ImplementsService == Service!Spec

-----------------------------------------------------------------------------
(* A statement of the documentation that the code does not keep. *)

\* verifier.rs:74-76, `repin` accepts an observed catalog as the new baseline,
\* and the test at verifier.rs:120-128: the catalog just accepted has no drift.
AcceptedCatalogHasNoDrift ==
    (origin = "accepted" /\ Verified /\ reply.observedHash = catalogHash) => Clean
=============================================================================
