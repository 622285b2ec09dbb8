# TLA+ specifications of mcp-tool-catalog-integrity

MTCI pins the tool descriptors an MCP server advertises and reports how a later
catalog drifts from them.  The code is small; what is hard about it is what an
early return leaves behind, what a crash leaves on the disk, and what a host that
fetches, approves, re-pins, flushes and restarts in every possible order ends up
trusting; and that the bytes of a catalog go through two parsers, which do not read
every text alike.  These modules model exactly that, TLC checks them on small instances, and
TLAPS proves the invariants and two refinements for every instance.

Paths below are relative to `crates/mcp-tool-catalog-integrity/src/` (*core*) and
`crates/mcp-tool-catalog-integrity-interposer/src/` (*interposer*).

## 1. Inventory

| Component | State | Operations | Where |
|---|---|---|---|
| descriptors and catalogs | a JSON value per tool, a list of them | `name`, `from_values`, `from_tools_list` | core `manifest.rs` |
| hashes | none | `descriptor_hash`, `catalog_hash` | core `descriptor_hash.rs` |
| canonicalizer | parser position and depth | `parse`, `canonicalize`, `canonicalize_value`, `canonicalize_json_value` | core `canonical.rs` |
| pin store | a hash per pinned name, a catalog hash | `get`, `set`, `remove`, `pinned_names`, `catalog_hash`, `set_catalog_hash` | core `pin_store.rs` |
| verifier | locals of one call | `verify`, `repin`, `has_drift` | core `verifier.rs` |
| file pin store | the same in memory, a file, a temporary file | `open`, `flush` and the pin store's | interposer `file_pin_store.rs` |
| interposer | a pin store, a policy | `observe`, `observe_bytes`, `repin_bytes`, `repin_complete`, `pins_mut` | interposer `lib.rs` |
| accumulator | the descriptors gathered so far | `new`, `observe_page`, `observe_page_bytes`, `catalog`, `finish` | interposer `lib.rs` |
| stdio example, ADR-MTCI-002 attestation, build files | none of their own | none | `examples/`, `docs/adr/`, `bazel/` |

**How they interact.** A host owns an `Interposer`, which owns a pin store.
`observe*` and `finish` parse a result, call `verify` with the store borrowed
immutably and apply the policy.  `repin_*` call `repin` with the store borrowed
mutably.  The accumulator borrows the whole interposer, so a fetch excludes
re-pins and flushes.  Nothing in the crates is concurrent with itself; what is
concurrent is outside: the server that changes its catalog, the transport, the
operator, other processes on the same pin file, and the file system.

**What is hard, and what makes each part correct.**

- `repin` writes while it walks and returns at the first bad descriptor.  The
  store must be exactly the old pins overwritten by the good prefix; `verify`
  must judge against whatever is there, and clean must mean equal.
- The raw-bytes path has a parser of its own, the value path has serde_json's: both
  are meant to accept the same texts to the same depth and to come to the same bytes
  (where they do not is in the differences below), the canonical form must be its own
  canonical form, and the numbers, strings and the order of members must be those of
  RFC 8785 at every limit.  A value built by hand has gone through neither.
- Names can repeat in a catalog, and descriptors that differ in spelling only
  have one hash.
- `flush` is five system calls.  Each can fail, the process can die and the
  machine can lose power between any two, and another handle can read, or flush,
  at any time.
- The approval of a catalog is in memory, then in the file, then on the disk.
  After any restart the host must judge against a whole approved baseline.
- A catalog arrives in pages that fail, are repeated, or belong to different
  versions.
- A change that is announced during a fetch, a flush or a restart must be judged in
  the end.

`PROJECT.json` lists each of these at its line, under `hazards`.

## 2. Modules

| Module | Role |
|---|---|
| `ToolCatalog` | data: descriptors, hashes, pins, reports; declarative definitions of what `verify` and `repin` compute |
| `CatalogService` | abstract: each call is answered in one step |
| `Verifier` | `verify` and `repin` one descriptor at a time, over a pin store the host also writes; implements `CatalogService` |
| `PinRegister` | abstract: the pin file is one register |
| `FilePinStore` | `open` and `flush` one system call at a time, over inodes, directory entries and the disk; implements `PinRegister` |
| `SharedPinFile` | composition: several hosts, each with `FilePinStore`'s steps, on one pin file in turn |
| `Interposer` | composition: interposer, accumulator, pin file (`INSTANCE PinRegister`), host loop, server |
| `JsonNumber` | `parse_number` and `write_number`, one part of the grammar at a time |
| `JsonString`, `Utf16` | `parse_string` and `write_string`, one character at a time; code units and their order |
| `JsonParser` | `parse`, `parse_value`, `parse_object`, `parse_array`, one lexeme at a time, the calls under way as a stack |
| `Canonical` | both entries over one input, the writer, hand-built values, the canonical form parsed again |
| `ToolsList` | what the crates read off the value: tools, names, cursor, the preimage of a hash |
| `Grammar` | a declarative grammar of the texts, and the properties that compare the parser with it |
| `MCVerifier`, `MCFilePinStore`, `MCSharedPinFile`, `MCInterposer`, `MCJsonNumber`, `MCJsonString`, `MCCanonical` | constants for TLC |
| `ToolCatalogProofs`, `Utf16Proofs` | lemmas about the operators of `ToolCatalog`; about joined sequences and the order of UTF-16 |
| `VerifierProofs`, `InterposerProofs`, `JsonStringProofs`, `JsonNumberProofs` | theorems about the module each is named for |
| `FilePinStoreProofs` | theorems about `FilePinStore` and `SharedPinFile` |
| `CanonicalProofs` | theorems about `JsonParser`, `Canonical` and `ToolsList` |

### ToolCatalog

A descriptor is an opaque value; `NameOf` and `HashOf` are all the code reads of
it.  A hash stands for a canonical form, so SHA-256 is taken as injective; the
assumption `HashCoversName` says that the name is part of what is hashed, which
`ToolsList` checks from the bytes on (`HashMeansDescriptor`).
`NoHash` is a descriptor that canonicalization refuses.  `CatalogHash` is the
multiset of the hashes: the code sorts the list and ends each hash with a NUL.
The four sorted lists of a `DriftReport` are counts per name, which a sorted list
is equivalent to.  The two orders the code fixes are kept: the name is checked
before the hash, and of two descriptors with one name the last is pinned.

### Verifier

`call`, `catalog`, `i`, `observed`, `hashes`, `report` are the arguments and locals
of the call under way, `pins` and `catalogHash` the `PinStore`.  `Scan` is what the
two loop bodies share, `VerifyTool` and `RepinTool` add the rest, `Reject` is the `?`
of either, `FinishVerify` and `FinishRepin` the code after the loop.  `HostSet`,
`HostRemove` and `HostSetCatalogHash` are a host that uses the store without
`repin`, between calls only: `&mut` excludes it during one.  `pinsAtCall` and
`origin` are history: the pins before the `repin` under way, and what wrote the
store last.

### FilePinStore

A handle's `pc` is at one of its system calls: in `open` at `closed` (before `fs::read`
opens the file) or `reading`; in `flush` at `create`, `write`, `sync`, `rename`.
The file system is external: `path` and `tmp` are the two directory entries,
`data` the contents of each inode, `dpath`, `dtmp` and `synced` what of both is on
the disk.  `sync_all` forces a file's contents and no directory entry;
`WriteBack` and `WriteBackEntries` are the system doing either in its own time, the
two entries of the directory together.  `write_all` is `Parts` write calls at the
handle's own offset, so that two handles on one temporary file can be seen to
overwrite each other.  `fs::read` reads an inode in one step: the code never
writes an inode that an open path leads to, which is what `FlushInv` says.

What may be in the file is a document, or one of three things made by someone else:
JSON without the two members, JSON with members of other types, and no JSON.
`set`, `remove` and `set_catalog_hash` are one action `Update` that replaces the
document by any other: which change it is makes no difference here.

`SharedPinFile` has several hosts that flush.  Nothing in the code keeps two flushes
apart (the fourth run below shows what comes of it), so that it is for the hosts to
do it, and `InTurn` is that assumption.  `log` and `durable` are history: the
documents that were under the path, and how many of them the disk has; `own` is the
position of each host's last flush.

### Interposer

`verify` and `repin` are one step each, as `VerifierRefinesService` allows, and the
pin file is the actions of `PinRegister`, as the run of `FilePinStore` shows.  A
result or page is one of four kinds of wire (sound, with a duplicate member, too
deep for serde_json but not for the canonicalizer, without a tools array), and
`WireError` gives what each path answers.  The host's loop follows the crate's
documentation (lib.rs:23-36): fetch to the last cursor, clone the catalog, finish,
re-pin what was approved, flush.  It may also retry the page before, give up,
ignore drift, fail to flush, crash.  `approvals`, `flushed` and `onDisk` are history:
the approved catalogs that were not lost and how many of them the file and the
disk have.  `intact` is history too: the server has kept its catalog since the fetch
began.

### JsonNumber, JsonString

The inputs are sequences of characters.  `JsonNumber` has one action for each part of
the grammar that `parse_number` goes through, then the conversion and its domain test,
then `write_number`, then all of it again on what was written.  A number may also be
built by hand (`BuiltInit`): `JcsValue::Number` holds any double, NaN and the infinities
(`NonFinite`) included, and `Refuse` is the error of `write_number` for these.
`Characters` may be any set that has those of numbers.  A double is its sign,
its shortest digits and the position of its point: the inputs have so few digits that
a double keeps them, and of a double's width only the range is left, which
`MaxPoint` and `LowPoint` shrink.  `JsonString` reads one character or one escape per
step, a surrogate pair in two escapes being one of them, and writes the result in one
step.  Its inputs are spellings: an opening quote, pieces that say what they mean and
an ending.  `SpellingAssumption` says what a piece may be, one disjunct for each kind of text
(a character, a short escape, the escape of a code unit, and what means nothing),
and what may follow the last one.  Any text behind a quote is a spelling in this
sense, so that the assumption restricts what the history variable `spelling` says of
a text, and no text.

### JsonParser, Canonical, ToolsList

The inputs are sequences of lexemes; `Read` says what each path makes of a string or
a number, as the two modules above define it.  It is a function of the path, because
the two parsers convert a decimal in different ways (`str::parse`, which rounds to the
nearest double; serde_json without `float_roundtrip`, which multiplies or divides by a
power of ten): the same lexeme may be one double for `raw` and another for `serde`, or
refused by either alone.  `open` is the call stack of the
recursive descent: one frame for `parse`, one for each `parse_object` or `parse_array`
under way with the names and values it has.  `path` says who parses: `raw` is
`Parser`, `serde` is serde_json, whose behaviour is modelled from how the code uses
it (the last of two equal names wins, its depth limit refuses at 128 and not after
it), `again` is `Parser` on a canonical form, `built` is a value that no parser has
made, whose numbers may be `NonFinite`.  `Canonical` adds `write_value` and
`from_serde_value`, with the depth each counts for itself, the sort of the members and
the writer's three checks (`Writable`: depth, repeated names, finite numbers); `ToolsList` the functions of
`manifest.rs`, `descriptor_hash` up to the SHA-256, `parse_wire` and the reading
of a page.

A value is a leaf, or a container of names and items, and `Value[n]` are those with at
most `n` containers in each other; `Height` bounds what a caller can build by hand, at
or beyond `MaxDepth`.  What goes down into a value (`Write`, `Laid`, `Within`, `Orders`) is
a function over such a level, so that TLC can evaluate it and a proof can induct on the
level; the writer's level is the depth it has left, as `write_value` counts it.
`Sorted` is any order of the members in which no name comes after the next one in
UTF-16: when no name is repeated there is one such order, which is what
`sort_by` gives.  `Laid` is the value written with its members where they are, and
`Plainly` a text without its white space, each lexeme as it would be written; the two
are for `ReadsTheText`.

`Grammar` is the one module with `RECURSIVE` operators: `Values` takes a text apart in
every way there is.  It is for TLC only, and no other module but `MCCanonical` uses it.

## 3. Runs

| Run | Config | Result |
|---|---|---|
| `verifier` | `MCVerifier.cfg` | passes |
| `verifier_duplicate_name` | `MCVerifierDuplicateName.cfg` | `AcceptedCatalogHasNoDrift` is violated |
| `file_pin_store` | `MCSharedPinFile.cfg` | passes |
| `file_pin_store_two_writers` | `MCFilePinStoreTwoWriters.cfg` | `NeverTorn` is violated |
| `file_pin_store_power_loss` | `MCFilePinStorePowerLoss.cfg` | `FlushIsDurable` is violated |
| `interposer_restart` | `MCInterposerRestart.cfg` | passes |
| `interposer_pages` | `MCInterposerPages.cfg` | passes |
| `json_number` | `MCJsonNumber.cfg` | passes |
| `json_number_zero` | `MCJsonNumberZero.cfg` | `ZeroIsAccepted` is violated |
| `json_string` | `MCJsonString.cfg` | passes |
| `canonical` | `MCCanonical.cfg` | passes |
| `canonical_rounding` | `MCCanonicalRounding.cfg` | `SameBytes` is violated |

**verifier.** Every catalog of up to three of six descriptors: two versions of a
tool, one of them in two spellings, another tool, one without a name and one
without a canonical form.  Three is the least at which a bad descriptor follows
two good ones of one name, and a name is seen for the third time.  Calls and host
edits follow each other without bound; the state space is finite without one.
The run shows that clean means equal to the pins (`CleanIffBaseline`), that each
listed tool is classified once (`EveryToolClassified`), that the loops compute the
declarative report and pins (`LoopInv`) so that the host sees atomic calls
(`ImplementsService`), and that after a successful re-pin the two records of the
baseline, pins and catalog hash, agree (`SameHashIsClean`, `CleanShowsOnlyAccepted`).

**file_pin_store.** Two hosts that both read and flush, two documents, two write calls
per document, two flushes to remember, three inodes: one that an open host still
reads, one under each of the two entries.  The file may be absent, a document, or
someone else's with members of the wrong types; JSON without the two members is an
empty store to `open` (see *Further differences*), and is left out of the run, though
not of the proofs.
Inodes and hosts are symmetric.
The path never names a torn file, not on the disk either (`NeverTorn`); nobody gets
past `open` on a damaged file (`CorruptFailsClosed`); the file is one register
(`ImplementsRegister`): `Ok` means stored, an error means nothing was stored, a reader
gets a document that was there during its call.  `FlushInv` is why: see the proofs.  A host
that opens the file reads its own last flush or a later one (`OpensNoOlder`), and
file and disk each hold one flush, not a mixture of two hosts' pins
(`LastFlushCounts`): an approval can be lost to the other host's flush, as the code
makes no attempt to merge, but an older state does not come back.

**interposer_restart.** Two approvals, so that there is a baseline to fall back to
in memory, file and disk each; catalogs that add, remove or change a tool.  The
catalog changes without bound, also between two pages and while the host is
down.  Memory, file and disk each hold a whole approved baseline
(`BaselinesAreApproved`) and clean means the last one not lost (`CleanIsApproved`).
`ChangeIsJudged` is the liveness property: see *Fairness*.
**interposer_pages** has one approval, both policies, all wires and repeated pages
(up to three descriptors gathered of a catalog of two): the verdict is that of the
whole catalog (`JudgedWhole`).  It assumes string cursors (`CursorTypes`) and that
`observe` is called on one-page results only (`OnePageOnly`): the code checks neither,
and without either the property fails (see *Further differences*).

**json_number.** Every text of up to five of the characters `- + . e 0 1 7 ,`, and
products of signs, integer parts, fractions and exponents that put the point on
either side of each limit: 1e21 and 1e-6 of the layout, and those of the range, a
point at 25 and at -9 instead of 309 and -323.  Each layout limit lies inside the
range, as it does for doubles.  A text is accepted if and only if it is a number a
double holds (`NumbersAreExact`), its canonical form is ECMAScript's (`EcmaScriptForm`)
and reads back (`CanonicalIsStable`).  The doubles of these texts, NaN and the infinities
are written as numbers built by hand too: the three are refused, and no other.
**json_string.** Spellings of up to three of seventeen pieces with five endings: each kind of
escape, each half of a pair in either order, what may not come bare, cut-off
texts.  Three pieces are a pair with something before or behind it.

**canonical.** Every text of up to four of ten lexemes; objects with each pair of three
names, whose order differs in code units and in characters; towers of containers on
either side of the limit, which is 4 instead of 128 (`Height` is one more); arrays and
objects with each pair of seven numbers, four of which the two parsers read differently;
results of `tools/list` in each shape with up to two of sixteen descriptors; objects,
towers and results with a lexeme dropped or doubled; and values built by hand, too
deep, with repeated names or with a NaN at any level among them.  `ReadsTheGrammar` compares the parser with a
declarative grammar, in both directions; `ReadsTheText` says that what it accepts is the
value it returns, to the last lexeme; `EntriesAgree` compares the two entries and names
the only differences: depth, repeated names, a number that one of them refuses, and a
number that serde_json rounds to another double, in whose place alone the canonical forms
may differ; `MembersAreUnordered` says that the order of members does not matter and
that the writer refuses exactly what is outside the domain; it, `CanonicalIsStable` and
`HashMeansDescriptor` are what a hash rests on; `HashesAreOfTheBytes` says that
`parse_wire`, which checks with one parser and uses the other's value, drops nothing by
it: the value is the one the grammar has for the bytes, each number being the double
serde_json has read (which need not be the nearest one: `canonical_rounding`); `PagesReadAsResults` that the two searches for the tools array agree.
`Returns` is liveness.

`CHECK_DEADLOCK FALSE` is in the runs of the parsers, which end.

### Fairness

Nothing in the crates runs by itself, and the safety properties assume no fairness.
Two properties need some:

- `ChangeIsJudged`, under `FairSpec`: weak fairness of `Steady`, the host opening its
  file, ending a flush it began, fetching the next page and finishing.  This is the
  host's part, as lib.rs:31-36 has it: MTCI "does not subscribe", the host "drives when
  to re-observe".  The property is conditional as well, on the host only doing this
  from some time on (`<>[][Steady]_vars`): neither crashes nor server changes for ever are
  excluded otherwise.  What it shows is that no state a change, an error, a crash or
  a half-done flush leaves behind keeps the host from a verdict on what is served.
- `Returns`, under `Fairness`: weak fairness of `Parse`.  The parser runs in its caller's
  thread and waits for nothing.

### Where the code and its documentation differ

1. A catalog with two different descriptors of one name drifts from itself right
   after it was accepted (core `verifier.rs:84`, against `verifier.rs:74-75`).
2. Two handles that flush share `<path>.tmp` and can put a partial document under
   the path (`file_pin_store.rs:131`, against `:102-103`).
3. The directory is not synced: after `flush` returned `Ok` a power loss can bring the
   old file back (`file_pin_store.rs:135`, against ADR-MTCI-002:183).  It brings it
   back whole: `NeverTorn`, `ImplementsRegister`.
4. `0e5` and `0.0e-1` are refused as underflows, because the test for a nonzero digit
   looks at the exponent too (`canonical.rs:669`, against its comment at `:670`).
5. A decimal that serde_json rounds to another double than `str::parse` is hashed as that
   double: the value of `1e-23` in the bytes is hashed as `1.0000000000000001e-23`
   (lib.rs:160, against lib.rs:118-119).  A host that uses MTCI throughout sees the same
   hash for the same bytes every time; what differs is the hash of another implementation
   of RFC 8785, and that two descriptors with these two numbers have one hash.

*Further differences*, met while modelling and without a run of their own:

- A failing `repin` leaves the good prefix pinned (`verifier.rs:84`); `pin_store.rs:9-10`
  says the store holds what the host last accepted.  A host that judged the catalog
  first does not meet it: `BaselinesAreApproved`.
- A tool listed twice is clean, and its catalog hash is another (`verifier.rs:34`,
  against the *set* of `descriptor_hash.rs:5`).
- A file holding `{}` or `5` opens as an empty store (`file_pin_store.rs:66`, against
  `:37-39`): `Parse` has it so, and no property forbids it.
- A text nested exactly 128 deep passes `canonicalize` and fails serde_json
  (`canonical.rs:60`, against `:56-58`): the last case of `EntriesAgree`, which says that
  it is the only depth at which they differ.  It fails closed: no hash is taken of it.
- A `nextCursor` that is not a string ends the fetch (lib.rs:241, against lib.rs:24,
  228), and `observe` judges the first page of a paginated catalog as if it were the
  whole (lib.rs:111, against lib.rs:24-29).  Each refutes `JudgedWhole` once `CursorTypes`
  has another type, or `OnePageOnly` is `FALSE`.
- The value path accepts `1e-400` and `0e5` as 0, which the bytes path refuses (the first
  is an underflow, the second difference 4), and refuses `1.7976931348623158e308`, which
  the bytes path rounds down to the greatest double: `EntriesAgree` has these as
  differences.  `parse_wire` asks both and so takes none of them.

## 4. Proofs

TLAPS checks them for every value of the constants, under the named assumptions of
`ToolCatalog`, `FilePinStore`, `Interposer`, `JsonParser`, `JsonString`, `JsonNumber` and
`Canonical` only, and those the table names.  TLC evaluates each assumption in a run.
Those of `Canonical` say what the modules below it deliver: `ReadAssumption`, that what a
string or a number is written as reads as itself (`JsonString` and `JsonNumber` prove
it), that no text reads as a number that is not finite (`JsonNumber`, for `Parser`), and
that lexemes and punctuation differ; `SpelledAssumption`, that two names with
the same characters are one; `TextAssumption` and `BuiltAssumption`, that inputs
are made of lexemes and that values built by hand are values; `DepthAssumption`, that no
path nests deeper than `Height` and `Parser` nests `MaxDepth`.  `Limit["serde"]` is free: the
theorems hold whatever depth serde_json allows, and whatever it makes of a number.

| Theorem | States |
|---|---|
| `VerifierProofs!TypeCorrect` | `Spec => []TypeOK` |
| `VerifierProofs!LoopsCorrect` | `Spec => []LoopInv` |
| `VerifierProofs!CleanIsExact` | `Spec => []CleanIffBaseline` |
| `VerifierProofs!AllAreClassified` | `Spec => []EveryToolClassified` |
| `VerifierProofs!OnlyAcceptedShown` | `Spec => []CleanShowsOnlyAccepted` |
| `VerifierProofs!SameHashShowsNoDrift` | `Spec => []SameHashIsClean` |
| `VerifierProofs!VerifierRefinesService` | `Spec => ImplementsService` |
| `FilePinStoreProofs!TypeCorrect` | `Spec => []TypeOK` |
| `FilePinStoreProofs!FlushCorrect` | `SingleWriter => (Spec => []FlushInv)` |
| `FilePinStoreProofs!PathNeverTorn` | `SingleWriter => (Spec => []NeverTorn)` |
| `FilePinStoreProofs!CorruptIsKept` | `SingleWriter => (Spec => []CorruptFailsClosed)` |
| `FilePinStoreProofs!FileIsARegister` | `SingleWriter => (Spec => ImplementsRegister)` |
| `FilePinStoreProofs!FlushInTurn` | `Spec /\ []InTurn => []FlushInv` |
| `FilePinStoreProofs!RegisterInTurn` | `Spec /\ []InTurn => ImplementsRegister` |
| `FilePinStoreProofs!SharedTypes` | `SharedSpec => []TypeOK` |
| `FilePinStoreProofs!SharedFlushes` | `SharedSpec => []FlushInv` |
| `FilePinStoreProofs!SharedNeverTorn` | `SharedSpec => []NeverTorn` |
| `FilePinStoreProofs!SharedCorruptIsKept` | `SharedSpec => []CorruptFailsClosed` |
| `FilePinStoreProofs!SharedRegister` | `SharedSpec => ImplementsRegister` |
| `FilePinStoreProofs!NoneOpensOlder` | `SharedSpec => []OpensNoOlder` |
| `FilePinStoreProofs!LastFlushIsThere` | `SharedSpec => []LastFlushCounts` |
| `InterposerProofs!TypesHold` | `Spec => []TypeOK` |
| `InterposerProofs!BaselinesHold` | `Spec => []BaselinesAreApproved` |
| `InterposerProofs!CleanHolds` | `Spec => []CleanIsApproved` |
| `InterposerProofs!WholeIsJudged` | `Spec => []JudgedWhole`, if `OnePageOnly` and all cursors are strings |
| `JsonStringProofs!StringTypes` | `Spec => []TypeOK` |
| `JsonStringProofs!CanonicalStringIsStable` | `Spec => []CanonicalIsStable` |
| `JsonStringProofs!StringIsItsMeaning` | `Spec => []ReadsTheMeaning` |
| `JsonNumberProofs!NumberTypes` | `Spec => []TypeOK` |
| `JsonNumberProofs!NumbersHold` | `Spec => []NumbersAreExact` |
| `JsonNumberProofs!CanonicalNumberIsStable` | `Spec => []CanonicalIsStable` |
| `JsonNumberProofs!EcmaScriptHolds` | `Spec => []EcmaScriptForm` |
| `CanonicalProofs!ParserTypes` | `CanonicalSpec => []TypeOK` |
| `CanonicalProofs!DepthHolds` | `CanonicalSpec => []DepthIsBounded` |
| `CanonicalProofs!NamesHold` | `CanonicalSpec => []NamesAreDistinct` |
| `CanonicalProofs!ConsumesHolds` | `CanonicalSpec => InputIsConsumed` |
| `CanonicalProofs!TextIsRead` | `CanonicalSpec => []ReadsTheText` |
| `CanonicalProofs!OrderIsFree` | `CanonicalSpec => []MembersAreUnordered` |
| `CanonicalProofs!StableHolds` | `CanonicalSpec => []CanonicalIsStable` |
| `CanonicalProofs!PagesAgree` | `CanonicalSpec => []PagesReadAsResults` |
| `CanonicalProofs!HashesMean` | `CanonicalSpec => []HashMeansDescriptor` |

*Verifier.* `LoopInv` ties the locals to the first `i - 1` descriptors: the lists
count them (`CountStep`), the pins are those of the call overwritten by them
(`PinStep`).  It is inductive with `TypeOK`.  `CleanReport` is the lemma on reports
that makes `CleanIffBaseline` follow from it at the end of the loop; `AllClassified` the
one behind `EveryToolClassified`.  For the two properties about accepted catalogs
`AcceptInv` is added: after a re-pin, pins and catalog hash come from one
catalog, and the observed hash of a reply is that of the catalog judged.  The
refinement maps `pins` to `pinsAtCall`, so that the writes of a `repin` under way
are invisible: loop steps stutter, `FinishVerify`, `FinishRepin` and `Reject` are the
steps of `CatalogService`, where `AcceptedUnique` shows that the loop stopped at the
descriptor the declarative definition names.

*FilePinStore.* `NeverTorn` is not inductive.  `FlushInv` adds what each system call
of `flush` relies on: at `write` the temporary file holds the parts written so far,
at `sync` the whole document, at `rename` the whole document on the disk too; the
temporary inode is neither entry of the path nor open for reading; and what is
under the path is the same in memory and on the disk, which carries `NeverTorn`
through a write-back of the directory and a power loss.  Its steps take `InTurn`, that
no two flushes overlap, and nothing about who flushes: `FlushInTurn`.  Without it the
second difference above refutes `NeverTorn`.  With one handle that flushes
(`SingleWriter`) `FlushInv` itself gives `InTurn` back, hence the theorems without it.
The refinement takes `FlushInv` and `MemInv`, that a handle which is not open holds
nothing: `File::create`, the writes and the sync stutter, as the temporary inode is not
what the register shows, `rename` stores, the directory's write-back saves.

*SharedPinFile.* Each of its steps is a step of `FilePinStore` that ends in `InTurn`, so
that the theorems above carry over.  `OpensNoOlder` and `LastFlushCounts` need
`LogInv`: the document under the path is the last of `log` and the one on the disk is
`log[durable]`; what a host that is reading has an inode of, and what a host
that opened the file holds, is an entry of `log` that is not before its own last flush.
`FlushInv` is needed for it: `rename` must bring the whole document of the host that
flushes, and no inode that is being read may change.

*Interposer.* `IInv` adds to `BaselinesAreApproved` what a verdict says of the catalog
that is kept for a re-pin (`VerdictsHold`): it was judged without an error, so that
its re-pin cannot stop half-way, and `Clean` means no drift from the pins now in
memory.  `WholeIsJudged` adds `Gathered`: while the server keeps its catalog, the
descriptors gathered have the tools up to the cursor, in whatever order and however
often pages came.  That `verify`, `repin` and the file are one step each there is what
`VerifierRefinesService` and `FileIsARegister` are for.

*JsonString.* Three inductive invariants.  `TextInv` types the state; that a pair of
escapes combines to a scalar value is `CombineType`.  `StableInv` is for the second
parse: after `k` characters of the string, `out` is its prefix of `k` and `pos` stands
behind what `Written` made of them, and `Written` reads back whatever follows it.
`MeaningInv` is for the first: after `k` pieces the code units of `out` are those of the
pieces, and they are well-formed.  The latter is what makes the refusals exact: a
piece that is half of a pair is never at the end of what was read, so that a half
that is refused is the half of no pair, wherever in the spelling its other half would
have to be.  The texts and units of many pieces are joined by a fold (`FlattenSeq`); what
it does for every length is an induction over the natural numbers, for a set and
not for an operator, which the prover can instantiate (`NatInduct`, `Joined`).

*JsonNumber.* `NumbersAreExact` compares a reader that goes forward with `Parts`, which
takes a whole token apart from its `e` and its point on; `Shape` is what both are proved
equal to: the positions where the parts of a number begin, and what stands there.
`ReadInv` goes forward: what was passed has the shape of a number as far as it is.
`FollowInv` goes backward: if the text up to the terminator that a JSON reader sees has
the shape of a number, then every part ended where that part of the number does, and
only a value outside the domain makes the reader fail.  Neither is enough alone: the
first gives that what is accepted is a number, the second that a number is accepted.
`CanonicalIsStable` and `EcmaScriptForm` add `WrittenInv`, that the text of the second
parse is `WriteNumber(first)`.  Each of the four layouts is shown to be a sign, an
integer part, a fraction and an exponent put together (`Laid`), with the digits of the
double among zeros (`Spread`) and the point moved by the exponent; what is put
together so has the shape of a number (`ComposedIs`), so that the second parse is
the first theorem again.  The limits enter as `MaxPoint < 1000` and `LowPoint < 999`
only: an exponent is written with at most three digits.

*JsonParser.* `IInv` says of every frame of the call stack that it is a container with
as many names as values, or one more while a value is due, that the stack is within
the limit, and that no frame of `Parser` repeats a name.  Termination of the parser
follows from `ConsumesHolds` for a finite text; TLC checks it as `Returns`.

*Canonical.* `CInv` adds `TInv`, that what the frames hold are values of the level the
limit leaves them, and that the call at the bottom has no value until its one value is
read; and `FormsOK`, that what each path came to is made of lexemes.
Hence `ResultIs`, that what is parsed is a value, on which the rest stands.

- `OrderIsFree` is by induction on the level.  `WriteDomain` says that the writer fails
  exactly on what is too deep, repeats a name or has a number that is not finite,
  wherever in the value it is.  Two orders of the same
  members have the same names at the same positions once they are sorted (`SortedSame`): the
  order of UTF-16 is total on names that differ (`Utf16Proofs`: code units tell
  well-formed strings apart), so that there is one sorted order.
- `HashesMean` needs the converse too: of two values with one canonical form each is the
  other with its members in some order (`WrittenAlike`).  A text could be cut into
  entries in more than one way; `BracketedAt` says where each begins and ends in the text
  of a container, and `Counterparts` that two containers whose texts are the same from some
  place on have the same entries, one after the other: of a value's text none is the
  beginning of another's, brackets and commas being no lexemes of leaves.
- `StableHolds`: a canonical form is some value laid out as it is, its names ascending
  (`FormIsLaid`).  `AInv` is the invariant of the second parse: each frame of the call stack is on
  its way to a container which stands at a known place in the text, has its first
  items already, and the frame above it is on the way to the next one (`Along`).  From that
  each action but the fitting one is excluded: the parser cannot fail, and ends
  with the value the text was written from.
- `TextIsRead`: `XInv` says that the calls under way, each laid out as far as it is
  (`Shows`), are the text up to the position (`Taken`).  It needs the comma, the name
  and the colon that were read and are not yet in any value, which is what `Mark` and
  `Named` say of each `pc`; and that a name which was read is not in the frame yet, so
  that `Delivered` appends (`IInv`).  At the end one frame is left, that of the text.
- The step from forms to names in `HashesMean` is `NameSame`: in an object that repeats no
  name, `Get` finds a member wherever it stands.

*Only model-checked:* `ChangeIsJudged` and `Returns`, because liveness under fairness is out
of the prover's reach; `ReadsTheGrammar`, `EntriesAgree` and `HashesAreOfTheBytes`,
because the grammar is recursive.  What remains open of the first for all inputs is
that `Parser` refuses nothing that the grammar has a value for: that it reads what it accepts as
it stands is `TextIsRead`, and that it accepts every canonical form is `StableHolds`.
What remains open of the other two is where serde_json and `Parser` read differently:
the run has an example of each kind of difference, and serde_json is not this code.

## 5. Not modelled

- SHA-256 and base64: a hash stands for its preimage.  The text of the pin file, and
  the order of its members: a document is a value that is written in parts.
- The rounding of decimals to doubles and the shortest digits of a double, which the
  code leaves to the standard library (`str::parse`, `{:e}`) and to serde_json: `JsonNumber`
  uses numbers that need neither, and `MCCanonical` gives for each number what each
  parser rounds it to (`Read`) instead of computing it.
- serde_json beyond what `Canonical` says of it: it is external.
- What the code leaves to the host, and no property covers (`hazards` has a note for each):
  merging the approvals of two hosts (the last flush wins), a server that changes its
  catalog between two pages (an approved mixture is an approved catalog), a host that
  finishes on the pages it has, one that re-pins another catalog than the one judged.
- The stdio example (one `observe_bytes` call), the attestation of ADR-MTCI-002 (no code),
  the build.

## 6. State of the plan

Done: `ToolCatalog`, `CatalogService`, `Verifier`; `PinRegister`, `FilePinStore`,
`SharedPinFile`; `Interposer` with its liveness; `JsonNumber`, `JsonString`, `JsonParser`,
`Canonical`, `ToolsList`, `Grammar`; proofs of both refinements and of every safety
property that a run checks, but for the three that speak of `Grammar`.

Left: a proof that `Parser` accepts every text with a value in the domain, white space
and other spellings included: `StableHolds` has it for canonical forms, and its argument
(`Along`) should carry over to a text that is any value laid out, with white space in it.
