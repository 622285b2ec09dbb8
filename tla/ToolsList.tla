----------------------------- MODULE ToolsList -----------------------------
(***************************************************************************)
(* From the bytes of a tools/list result to the names and hashes that verify and    *)
(* repin work on: what ToolCatalog and Interposer take for given.  The steps are    *)
(* those of Canonical; here is what the two crates read off the value.            *)
(***************************************************************************)
EXTENDS Canonical

None == <<>>
Some(v) == <<v>>

\* Value::get, of an object's member; Value::as_array and Value::as_str.
Get(v, name) ==
    IF v.kind # "{" THEN None
    ELSE LET at == {i \in DOMAIN v.names : v.names[i] = name} IN
         IF at = {} THEN None ELSE Some(v.items[CHOOSE i \in at : TRUE])
AsArray(o) == IF o # None /\ o[1].kind = "[" THEN Some(o[1].items) ELSE None
AsStr(o) == IF o # None /\ o[1].kind = "string" THEN Some(o[1].is) ELSE None

\* ToolCatalog::from_tools_list.
FromToolsList(result) ==
    LET tools == Get(result, "tools") IN
    AsArray(IF tools # None THEN tools ELSE Some(result))

\* Mutant of PageTools: a page that is a bare array has no tools.
PageTools_ObjectsOnly(page) == AsArray(Get(page, "tools"))

\* The tools that observe_page appends.
PageTools(page) ==
    LET tools == AsArray(Get(page, "tools")) IN
    IF tools # None THEN tools ELSE AsArray(Some(page))

\* The cursor it returns.
NextCursor(page) == AsStr(Get(page, "nextCursor"))

\* ToolDescriptor::name.
NameIn(descriptor) == AsStr(Get(descriptor, "name"))

\* Mutant of Preimage: the descriptor's values alone.
Preimage_NoNames(descriptor) ==
    IF descriptor.kind # "{" THEN WriteValue(descriptor, 0)
    ELSE WriteValue([descriptor EXCEPT !.kind = "[", !.names = <<>>], 0)

\* descriptor_hash, before SHA-256: the canonical form, or Bad.
Preimage(descriptor) ==
    IF FromSerde(descriptor, 0) THEN WriteValue(descriptor, 0) ELSE Bad

\* Mutant of Wire: Parser is not asked.
Wire_Unchecked == IF pc = "parsed" /\ path = "serde" THEN Some(Result) ELSE None

\* parse_wire of the input: serde_json's value, if Parser has accepted it too.
Wire == IF pc = "parsed" /\ path = "serde" /\ forms["raw"] # Bad THEN Some(Result) ELSE None

-----------------------------------------------------------------------------
(* Properties. *)

\* What ToolCatalog has for a list of descriptors.
Pairs(tools) == {<<NameIn(d), Preimage(d)>> : d \in ToSet(tools)}
Reading(result) ==
    LET tools == FromToolsList(result) IN
    <<IF tools = None THEN None ELSE Some(Pairs(tools[1])), NextCursor(result)>>

\* A result read by observe and the same result read as the only page of a fetch
\* have the same tools, or none in both: the two crates look for them in their own
\* way (manifest.rs:58-71, interposer lib.rs:229-238).
PagesReadAsResults ==
    (pc = "parsed" /\ path = "serde") => PageTools(Result) = FromToolsList(Result)

\* Two descriptors of a result have the same hash if and only if serde_json has read
\* them as one value, whichever way they are spelled and ordered; they have the same name
\* then, as ToolCatalog assumes (descriptor_hash.rs:3-4).  Two numbers that serde_json
\* rounds to one double are one value: see SameBytes.
HashMeansDescriptor ==
    (pc = "parsed" /\ path = "serde" /\ FromToolsList(Result) # None) =>
        \A d, e \in {d \in ToSet(FromToolsList(Result)[1]) : Preimage(d) # Bad} :
            /\ Preimage(d) = Preimage(e) => NameIn(d) = NameIn(e)
            /\ Preimage(d) = Preimage(e) <=> e \in Reorderings(d)
=============================================================================
