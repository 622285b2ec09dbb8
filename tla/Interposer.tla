----------------------------- MODULE Interposer -----------------------------
(***************************************************************************)
(* The interposer crate at work: a host that puts an Interposer over a        *)
(* FilePinStore between itself and one server, fetches the server's catalog    *)
(* in one piece or page by page, has the operator approve drift, re-pins and   *)
(* flushes, and is restarted.                                               *)
(*                                                                         *)
(* The core crate and the pin file are the abstractions that Verifier and      *)
(* FilePinStore implement: `verify` and `repin` are one step (ToolCatalog), the  *)
(* file is one register (PinRegister).  An accumulator borrows the interposer,  *)
(* so nothing is re-pinned or flushed while a fetch is under way.  The server,   *)
(* the transport, the operator and the host's loop are external; the host does   *)
(* what the crate's documentation asks of it.                               *)
(***************************************************************************)
EXTENDS ToolCatalog

CONSTANTS
    Host,        \* the handle of the host on the pin file
    Absent,      \* there is no pin file
    Damaged,     \* the pin file is no document
    Policies,    \* the drift policies a host may choose
    Wires,       \* what the bytes of a result may look like
    CursorTypes, \* JSON types a server may give `nextCursor`
    PageSize,    \* tools on a page
    OnePageOnly, \* the host judges a single result only if it is the last page
    MaxApprovals,\* bound: approvals that are remembered
    MaxFetched   \* bound: with more descriptors, no page is asked for again

ASSUME InterposerAssumption ==
    /\ Policies \subseteq {"Report", "FailClosed"}
    /\ Wires \subseteq {"sound", "duplicateMember", "tooDeep", "noTools"}
    /\ CursorTypes \subseteq {"string", "other"}
    /\ PageSize \in Nat \ {0}
    /\ OnePageOnly \in BOOLEAN
    /\ MaxApprovals \in Nat /\ MaxFetched \in Nat

VARIABLES
    \* the pin file
    stored, saved, status, seen, mem, fileReply,
    served,      \* the catalog the server advertises
    \* the interposer and the host's fetch loop
    policy,      \* Interposer: its drift policy
    fetching,    \* an accumulator is alive
    descriptors, \* CatalogAccumulator: the descriptors gathered so far
    cursor,      \* how many tools the pages up to the next one skip
    more,        \* the last page had a cursor
    reply,       \* what the last call returned
    captured,    \* the catalog it judged, while the host keeps it
    \* history
    intact,      \* the server has not changed its catalog since the fetch began
    approvals,   \* the catalogs approved and re-pinned, without those lost
    flushed,     \* how many of them the pin file has
    onDisk       \* how many of them a power loss would leave

file == <<stored, saved, status, seen, mem, fileReply>>
fetch == <<fetching, descriptors, cursor, more>>
history == <<approvals, flushed, onDisk>>
vars == <<file, served, policy, fetch, reply, captured, intact, history>>

-----------------------------------------------------------------------------
Doc == [pins : Pins, catalogHash : CatalogHashes]
EmptyDoc == [pins |-> [n \in Name |-> NoPin], catalogHash |-> NoCatalogHash]

ASSUME FileAssumption == Absent \notin Doc /\ Damaged \notin Doc \cup {Absent}

File == INSTANCE PinRegister WITH
    Handle <- {Host}, Writers <- {Host}, reply <- fileReply

\* The pin store the interposer holds, and its contents.
store == mem[Host]

Verdicts == {"Clean", "Drift", "DriftError"}

TypeOK ==
    /\ stored \in Doc \cup {Absent} /\ saved \in Doc \cup {Absent}
    /\ status \in [{Host} -> {"closed", "opening", "open", "flushing"}]
    /\ seen \in [{Host} -> Doc \cup {Absent}]
    /\ mem \in [{Host} -> Doc]
    /\ fileReply \in [{Host} -> {"none", "Opened", "Flushed", "IoError"}]
    /\ served \in Catalog
    /\ policy \in Policies
    /\ fetching \in BOOLEAN /\ more \in BOOLEAN /\ intact \in BOOLEAN
    /\ descriptors \in Seq(Descriptor)
    /\ cursor \in Nat
    /\ ~fetching => descriptors = <<>> /\ cursor = 0 /\ ~more
    /\ reply \in Verdicts \cup {"none", "Page", "Repinned", "MalformedCatalog", "Integrity"}
    /\ captured \in Seq(Descriptor)
    /\ approvals \in Seq(Seq(Descriptor))
    /\ flushed \in 0..Len(approvals)
    /\ onDisk \in 0..flushed

Init ==
    /\ stored = Absent
    /\ saved = Absent
    /\ status = [h \in {Host} |-> "closed"]
    /\ seen = [h \in {Host} |-> Absent]
    /\ mem = [h \in {Host} |-> EmptyDoc]
    /\ fileReply = [h \in {Host} |-> "none"]
    /\ served \in Catalog
    /\ policy \in Policies
    /\ fetching = FALSE
    /\ descriptors = <<>>
    /\ cursor = 0
    /\ more = FALSE
    /\ reply = "none"
    /\ captured = <<>>
    /\ intact = FALSE
    /\ approvals = <<>>
    /\ flushed = 0
    /\ onDisk = 0

-----------------------------------------------------------------------------
(* Parsing and judging. *)

\* The error of parse_wire and of the search for the tools array, on the path
\* that takes bytes and on the one that takes a parsed value.
WireError(path, wire) ==
    CASE path = "bytes" /\ wire = "duplicateMember" -> "Integrity"
      [] path = "bytes" /\ wire = "tooDeep" -> "MalformedCatalog"
      [] wire = "noTools" -> "MalformedCatalog"
      [] OTHER -> "Ok"

\* What a host can hand to the interposer: a value is bytes serde_json took.
Results == {r \in {"bytes", "value"} \X Wires : r # <<"value", "tooDeep">>}

\* Mutant of ApplyPolicy: only mutated tools are drift.
ApplyPolicy_OnlyMutated(report) ==
    IF \A n \in Name : report.mutated[n] = 0 THEN "Clean"
    ELSE IF policy = "Report" THEN "Drift" ELSE "DriftError"

ApplyPolicy(report) ==
    IF ~HasDrift(report) THEN "Clean"
    ELSE IF policy = "Report" THEN "Drift" ELSE "DriftError"

\* The outcome of judging a whole catalog against the pins.
Judge(c) ==
    IF ResultOf(c) # "Ok" THEN "Integrity" ELSE ApplyPolicy(ReportOf(c, store.pins))

\* Mutant of Repinned: the pins of tools no longer present stay.
Repinned_KeepsRemoved(c) ==
    [pins |-> PinnedOver(store.pins, c, Accepted(c)), catalogHash |-> CatalogHash(HashesIn(c))]

\* The pin store after a re-pin of c, which keeps what it wrote when it fails.
Repinned(c) ==
    IF ResultOf(c) = "Ok"
    THEN [pins |-> BaselineOf(c), catalogHash |-> CatalogHash(HashesIn(c))]
    ELSE [store EXCEPT !.pins = PinnedOver(store.pins, c, Accepted(c))]

\* The interposer is up, no call on its pin store is under way and no
\* accumulator borrows it.
Free == status[Host] = "open" /\ ~fetching

\* The tools the server puts on the page after k others, and whether it is
\* the last one.
LastAt(k) == k + PageSize >= Len(served)
PageAt(k) == SubSeq(served, k + 1, IF LastAt(k) THEN Len(served) ELSE k + PageSize)

-----------------------------------------------------------------------------
(* Interposer::observe and observe_bytes: one result, its cursor unread. *)
Observe ==
    /\ Free
    /\ OnePageOnly => LastAt(0)
    /\ \E r \in Results :
         reply' = IF WireError(r[1], r[2]) # "Ok" THEN WireError(r[1], r[2]) ELSE Judge(PageAt(0))
    /\ captured' = IF reply' \in Verdicts THEN PageAt(0) ELSE <<>>
    /\ intact' = TRUE
    /\ UNCHANGED <<file, served, policy, fetch, history>>

-----------------------------------------------------------------------------
(* CatalogAccumulator. *)

\* `new`: the host starts over, from the first page.
NewAccumulator ==
    /\ Free
    /\ fetching' = TRUE
    /\ descriptors' = <<>>
    /\ cursor' = 0
    /\ more' = TRUE
    /\ reply' = "none"
    /\ captured' = <<>>
    /\ intact' = TRUE
    /\ UNCHANGED <<file, served, policy, history>>

\* Mutant of Page: each page replaces the ones before it.
Page_Replaces(k) ==
    /\ status[Host] = "open" /\ fetching
    /\ k = cursor => more
    /\ descriptors' = PageAt(k)
    /\ cursor' = k + PageSize
    /\ more' = ~LastAt(k)
    /\ reply' = "Page"
    /\ UNCHANGED <<file, served, policy, fetching, captured, intact, history>>

\* Mutant of Page: a page without a cursor is not gathered.
Page_DropsLast(k) ==
    /\ status[Host] = "open" /\ fetching
    /\ IF k = cursor THEN more ELSE Len(descriptors) < MaxFetched
    /\ descriptors' = IF LastAt(k) THEN descriptors ELSE descriptors \o PageAt(k)
    /\ cursor' = k + PageSize
    /\ more' = ~LastAt(k)
    /\ reply' = "Page"
    /\ UNCHANGED <<file, served, policy, fetching, captured, intact, history>>

\* observe_page and observe_page_bytes, on the page after k tools: the next one, or
\* one that has been read before.  A cursor that is no string reads as none.
Page(k) ==
    /\ status[Host] = "open" /\ fetching
    /\ IF k = cursor THEN more
       ELSE Len(descriptors) + Len(PageAt(k)) + (Len(served) - cursor) <= MaxFetched
    /\ descriptors' = descriptors \o PageAt(k)
    /\ cursor' = k + PageSize
    /\ \E t \in CursorTypes : more' = (~LastAt(k) /\ t = "string")
    /\ reply' = "Page"
    /\ UNCHANGED <<file, served, policy, fetching, captured, intact, history>>

\* The next page or, after a timeout, once more the one before.
ObservePage == \E k \in {cursor, cursor - PageSize} \cap Nat : Page(k)

\* The page cannot be read: the accumulator stays as it is.
PageFails ==
    /\ status[Host] = "open" /\ fetching /\ more
    /\ \E r \in Results :
         /\ WireError(r[1], r[2]) # "Ok"
         /\ reply' = WireError(r[1], r[2])
    /\ UNCHANGED <<file, served, policy, fetch, captured, intact, history>>

\* Mutant of Finish: the accumulator is not consumed, its descriptors stay.
Finish_NotConsumed ==
    /\ status[Host] = "open" /\ fetching /\ ~more
    /\ reply' = Judge(descriptors)
    /\ captured' = IF reply' \in Verdicts THEN descriptors ELSE <<>>
    /\ fetching' = FALSE
    /\ UNCHANGED <<file, served, policy, descriptors, cursor, more, intact, history>>

\* The host clones the catalog and calls `finish` when there is no cursor.
Finish ==
    /\ status[Host] = "open" /\ fetching /\ ~more
    /\ reply' = Judge(descriptors)
    /\ captured' = IF reply' \in Verdicts THEN descriptors ELSE <<>>
    /\ fetching' = FALSE
    /\ descriptors' = <<>>
    /\ cursor' = 0
    /\ UNCHANGED <<file, served, policy, more, intact, history>>

\* It gives up after an error.
Abandon ==
    /\ status[Host] = "open" /\ fetching
    /\ fetching' = FALSE
    /\ descriptors' = <<>>
    /\ cursor' = 0
    /\ more' = FALSE
    /\ UNCHANGED <<file, served, policy, reply, captured, intact, history>>

-----------------------------------------------------------------------------
(* repin_bytes and repin_complete, of the drift the operator has approved. *)
Repin ==
    /\ Free
    /\ reply \in {"Drift", "DriftError"}
    /\ Len(approvals) < MaxApprovals
    /\ File!Update(Host, Repinned(captured))
    /\ reply' = IF ResultOf(captured) = "Ok" THEN "Repinned" ELSE "Integrity"
    /\ approvals' = Append(approvals, captured)
    /\ captured' = <<>>
    /\ UNCHANGED <<served, policy, fetch, intact, flushed, onDisk>>

\* repin_bytes of bytes that parse_wire refuses.
RepinFails ==
    /\ Free
    /\ reply \in {"Drift", "DriftError"}
    /\ \E w \in Wires : WireError("bytes", w) # "Ok" /\ reply' = WireError("bytes", w)
    /\ UNCHANGED <<file, served, policy, fetch, captured, intact, history>>

-----------------------------------------------------------------------------
(* The pin file, through pins_mut: open at the start, flush after a re-pin. *)

Undisturbed == UNCHANGED <<served, policy, fetch, reply, captured, intact>>

Open ==
    /\ File!OpenAbsent(Host) \/ File!OpenBegin(Host) \/ File!OpenEnd(Host)
    /\ Undisturbed
    /\ UNCHANGED history

FlushBegin ==
    /\ Free
    /\ flushed < Len(approvals)
    /\ File!FlushBegin(Host)
    /\ Undisturbed
    /\ UNCHANGED history

Flushed ==
    /\ File!Store(Host)
    /\ flushed' = Len(approvals)
    /\ Undisturbed
    /\ UNCHANGED <<approvals, onDisk>>

FlushFails ==
    /\ File!FlushFails(Host)
    /\ Undisturbed
    /\ UNCHANGED history

Save ==
    /\ File!Save
    /\ saved # stored
    /\ onDisk' = flushed
    /\ Undisturbed
    /\ UNCHANGED <<approvals, flushed>>

\* The host's memory is gone; of the approvals, the first k are left.
Down(k) ==
    /\ fetching' = FALSE
    /\ descriptors' = <<>>
    /\ cursor' = 0
    /\ more' = FALSE
    /\ reply' = "none"
    /\ captured' = <<>>
    /\ intact' = FALSE
    /\ approvals' = SubSeq(approvals, 1, k)
    /\ policy' \in Policies
    /\ UNCHANGED served

Crash ==
    /\ status[Host] # "closed"
    /\ File!Close(Host)
    /\ Down(flushed)
    /\ UNCHANGED <<flushed, onDisk>>

PowerLoss ==
    /\ File!PowerLoss
    /\ Down(onDisk)
    /\ flushed' = onDisk
    /\ UNCHANGED onDisk

-----------------------------------------------------------------------------
ServerChange ==
    /\ served' \in Catalog \ {served}
    /\ intact' = FALSE
    /\ UNCHANGED <<file, policy, fetch, reply, captured, history>>

Next ==
    \/ Observe
    \/ NewAccumulator \/ ObservePage \/ PageFails \/ Finish \/ Abandon
    \/ Repin \/ RepinFails
    \/ Open \/ FlushBegin \/ Flushed \/ FlushFails \/ Save
    \/ Crash \/ PowerLoss
    \/ ServerChange

Spec == Init /\ [][Next]_vars

\* What a host does that is neither disturbed nor given new orders: it opens the
\* file, ends a flush it began, and fetches and judges the whole catalog.
Steady == Open \/ Flushed \/ NewAccumulator \/ Page(cursor) \/ Finish

\* The crate runs nothing by itself: that the host goes on as it should is an
\* assumption on the host, of which the crate's documentation says that it "drives
\* when to re-observe" (interposer lib.rs:31-36).
FairSpec == Spec /\ WF_vars(Steady)

-----------------------------------------------------------------------------
(* Properties. *)

\* The pin document of the first k approvals: that of the last of them.
DocOf(k) == IF k = 0 THEN EmptyDoc
            ELSE [pins |-> BaselineOf(approvals[k]),
                  catalogHash |-> CatalogHash(HashesIn(approvals[k]))]

\* Whatever is in memory, in the pin file and on the disk is the whole baseline
\* of an approved catalog: the last one approved, the last one flushed and the
\* last one written back, through failed pages, failed re-pins, failed flushes,
\* crashes and power losses.  In particular a re-pin of a catalog that was
\* judged never stops half-way (interposer lib.rs, repin_complete, repin_bytes;
\* file_pin_store.rs, open, flush).
BaselinesAreApproved ==
    /\ status[Host] \in {"open", "flushing"} => store = DocOf(Len(approvals))
    /\ status[Host] = "opening" => seen[Host] = DocOf(flushed)
    /\ status[Host] \in {"closed", "opening"} => flushed = Len(approvals)
    /\ stored = IF flushed = 0 THEN Absent ELSE DocOf(flushed)
    /\ saved = IF onDisk = 0 THEN Absent ELSE DocOf(onDisk)

\* Rug-pull detection across restarts: a catalog that is judged Clean lists a
\* tool if and only if the last approved catalog that was not lost lists it, and
\* with a descriptor that catalog has (file_pin_store.rs:3-8).
CleanIsApproved ==
    reply = "Clean" =>
        LET last == IF approvals = <<>> THEN <<>> ELSE approvals[Len(approvals)] IN
        /\ ToolsOf(captured) \subseteq ToolsOf(last)
        /\ NamesIn(captured, Len(captured)) = NamesIn(last, Len(last))

\* Drift is judged over the union of every page: however the catalog is cut into
\* pages, and whichever pages fail or arrive twice, the verdict is the one on the
\* whole catalog, if the server keeps it during the fetch (interposer
\* lib.rs:190-195).
JudgedWhole ==
    (reply \in Verdicts /\ intact) =>
        (reply = "Clean" <=>
            ToolsOf(served) = {<<n, store.pins[n]>> : n \in PinnedNames(store.pins)})

\* An announced change is judged in the end: whatever page, flush or restart it came
\* in the middle of, once the server keeps its catalog and the host goes on, the
\* host again and again holds the verdict on the catalog that is served, and no
\* state left behind keeps it from that (interposer lib.rs:31-36, 189-207).
ChangeIsJudged == <>[][Steady]_vars => []<>(reply = Judge(served))
=============================================================================
