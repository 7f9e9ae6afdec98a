# SynthXEX in TLA+

SynthXEX turns a PE executable for the Xbox 360 into a XEX(2) file. It is a
sequential C program of about 1,900 lines: `main` reads a PE, lays its sections out
at their addresses in a *basefile*, builds the headers in memory, decides where
everything goes, writes the XEX, and finally reads it back to put the hash of the
headers into it. This directory holds TLA+ models of its parts, TLC
configurations that check them, and proofs that the invariants which TLC checks on small
instances hold for every size of them.

There is no concurrency in the program. What is hard to get right, and hard to test,
is elsewhere:

* the same facts are kept, counted or decided in several places (two offset tables,
  two counters over the separate headers, three tests for "has imports");
* everything refers to everything by offset: headers placed forwards and imports
  placed backwards, RVAs turned into file positions and back, hashes that cover the
  file they are stored in;
* structures are byte-swapped *in place* and used afterwards;
* one file position serves nested walks, and one stream is both read and written;
* every stage can fail, and every exit of `main` has its own list of what to release.

## Inventory

| Component (source under `src/src/`) | State it keeps | Operations | Modelled in |
|---|---|---|---|
| Driver (`main.c`) | six structures, three strings, three files | options, the stages in order, an exit per failure | `SynthXEX` |
| Ownership (`common/datastorage.c`, frees) | the pointers of `datastorage.h` | `nullAndFree`, `free*Struct`, `freeAllMainStructs` | `MainStructs` |
| Addresses (`common/datastorage.c`, rest) | none | `getNextAligned`, `rvaToOffset`, `offsetToRVA`, the readers of 16 and 32 bits | `DataStorage`; the readers in `PEHeader` |
| PE reader (`getdata/gethdrdata.c`) | `peData`, the section table | `validatePE`, `getHdrData`, `getSectionInfo` | `PEHeader` |
| Import reader (`getdata/getimports.c`) | `peImportInfo`, the position in the PE | `getImports` | `PEImports` |
| Mapper (`pemapper/pemapper.c`) | the basefile and its position | `mapPEToBasefile`, `xenonifyIAT` | `PEMapper`; its reading of the headers in `PEHeader` |
| Page hashes (`setdata/pagedescriptors.c`) | page descriptors, `imageSha1` | `setPageDescriptors`, `getRwx` | `PEMapper` |
| Headers (`setdata/populateheaders.c`, `optheaders.c`) | `xexHeader`, `secInfoHeader`, `optHeaders`, entries | `setXEXHeader`, `setSecInfoHeader`, `setOptHeaders`, `setImportLibsInfo` | `OptHeaders` and `ImportNames`, page count and flags in `PEMapper`, allocations in `SynthXEX` |
| Placer (`placer/placer.c`) | `offsets`, offsets in entries and XEX header | `placeStructs`, `setOptHeaderOffsets` | `Placer` |
| Writer (`write/writexex.c`) | the XEX and its position, swapped fields | `writeXEX` | `WriteXEX` |
| Header hash (`write/headerhash.c`) | the XEX | `setHeaderSha1` | `WriteXEX` |
| getopt, nettle SHA-1, text output, packaging | none that matters here | | not modelled |

They interact by call and by shared structures, in one order: `main` validates the
PE, `getHdrData` fills `peData`, `getImports` adds the imports, `mapPEToBasefile`
writes the basefile and sets its size, `setSecInfoHeader` turns the size into a page
count, `setPageDescriptors` hashes the pages, `setOptHeaders` builds the entries and
the import libraries, `placeStructs` fills `offsets`, `writeXEX` follows
`offsets`, `setHeaderSha1` follows what the file says of itself. In between,
`main` frees the parts it is done with.

What makes each part correct: the readers of the headers see one section table, miss no
failing read, and refuse what later stages could not read; the placer's structures do not overlap and both tables
say the same; the writer leaves a complete, big endian file in which a loader finds
everything; the mapper keeps all section data, rewrites every import and leaves a hash
chain that verifies; the import reader finds every import and its true address; the import tables form a
hash chain that verifies in the file, their size is what will be written, and the entries
ascend; the frees are safe in any order and complete; every exit releases what exists then.

## The modules

### `DataStorage`
Operators only. 32-bit offsets are taken modulo the constant `Word`
(`U32`), `getNextAligned` and the two address translations are functions of their
arguments, and the on-disk sizes are those of the packed structures without their
in-memory pointers. `Translate` is the common form of `rvaToOffset` and `offsetToRVA`:
the last section in table order that starts at or before the address. Two definitions are the
interface between the stage that builds the optional headers and those that place and write
them: `OptHeaderIds` gives their entries in order, and `LibrariesAsBuilt` says what the sizes
kept for the import libraries have to do with one another (`ImportLibrariesSize`). `Placer` and
`WriteXEX` start from both, and `OptHeaders` is checked, and proved, to end with them.

### `Placer`
`placeStructs` with `setOptHeaderOffsets` inlined. `pc` follows the code: the fixed
headers (`PlaceHeaders`), the `calloc` that may fail (`AllocOptHeaders`), one turn of the
loop per entry (`PlaceSeparateHeader`, `ReserveImportHeader`, `SkipInlineHeader`, each
of which aligns first), then `PlaceBasefile` and `PlaceImports`. Inputs are the page
count and the import libraries. The security header comes right behind the entries, at 56
or 64: four or five entries end on a multiple of 8 already, so nothing is left between (the
comment at `placer.c:82` speaks of "at least 8 bytes beyond end of optional header entries";
the code only aligns to 8). `importLibIdcs` is uninitialised in the code; the model
gives it a value no entry has, so a use before the assignment would be visible.

### `WriteXEX` (extends `Placer`) and `XexImage`
The writer runs on the layout `Placer` has just computed, so the two are checked
together. The file is a set of extents (what, where, how long, which byte order) and a
write that overlaps an older extent destroys it. `swapped` holds the structures whose
fields are currently big endian in memory; a field that steers a loop is read
through `InMemory`, so a loop steered by a swapped field runs the wrong number of
times. One action per block of `writeXEX`, one turn of a loop per step. `setHeaderSha1`
records which extents each of its two hashed ranges sees. The byte order of the host
(`littleEndian`) and whether reads and writes always come back whole (`reliable`) are
variables that never change; the constant `Cases` says which images meet which host.

`XexImage` is the abstract specification: structures are added, none is ever
damaged, and the hash goes on once, last, over an image that is complete unless a write
came up short. `ImplementsImage` states that `WriteXEX` implements it in every case, with
`written` mapped to the wanted structures whole in the file.

### `PEHeader` (extends `DataStorage`)
`validatePE`, `getHdrData` with `getSectionInfo`, and the first half of
`mapPEToBasefile`, one step for each read. A file is its length, the values of its
fields by position (every other byte is 0), and the flags set in its fields of flags.
`Outcomes` says how a read can end: as it should, at the end of the file, or with
another error; the value is then 0, as in the code, and `trouble` remembers that it was
not the file's. The three readers find the section table in three ways: `EndOfTable`
(the size of the optional header), the fixed `0xF8` of `getSectionInfo`, and
`headerSize - 1` of the mapper; `Standard` says that the optional header has the 224 bytes
for which these agree. `found`, `peData->sections` and `sectionInfo` are what each has seen.

### `PEMapper` (extends `DataStorage`)
`mapPEToBasefile`, `xenonifyIAT`, `setSecInfoHeader` (page count, page size flag), and
`setPageDescriptors`. Files are functions from positions to cells; a cell is a byte or a
whole IAT entry or hint. `lastOp` and `disciplined` record the C rule on reads and writes of
one stream. The section table is as linkers write it, or out of order with the highest section
last; sections may be longer in memory than in the file.

`xenonifyIAT` reads four bytes wherever a table of the directory says its IAT is, and takes
them for an entry. Where they are an entry as the PE has it, that is what the model reads.
Where they are anything else, data, a gap, or an entry that was rewritten for an earlier
table which names the same place, it reads any ordinal of `Numbers` or any name RVA
(`EntriesAt`), and from two bytes that are no hint any number (`HintsAt`); it then goes on like
the code, fails or succeeds. So IATs may be shared, overlap, and run into data.
`IATXenonified` speaks of the entries that one table alone names, and that are imports whose
hint is raw data in no IAT; `ModuleIndex` is what ties the number in them to `tableIndex` of
the headers (`EveryImportListed` of `OptHeaders`). What becomes of a shared entry no document
says. The entry that the padding of finding 2 may hit is exempt as well.

`littleEndian` is the host's byte order. A descriptor is hashed as it is in memory, so
`setPageDescriptors` swaps its `sizeAndInfo` to big endian (`HashPage`) and back
(`DigestPage`); `swapped` holds the descriptors whose field is big endian at the time. SHA-1 is
taken to be injective, so a digest is the tuple of what was hashed, the byte order included, and
`HashChainVerifies` compares with the descriptors as `writeXEX` puts them into the file, after
a swap of its own. The loader's page size comes from the flag, the builder's from a division,
and the chain is checked with the former. `SectionsIntact` allows the byte lost to the
padding, which in an image without data is the header's.

### `PEImports` (extends `DataStorage`)
`getImports`. A file is a sequence of cells, one per `fread`: a directory entry, 16
bytes of a name, an IAT entry; up to its blank cell a directory is made of entries
(`PEImportsAssumption`). RVAs, offsets and sizes are in cells. Both translations are those of
`DataStorage`.

### `OptHeaders` (extends `DataStorage` and `ImportNames`)
`setOptHeaders`, with `setImportLibsInfo` in its midst, and `setXEXHeader`. The entries
are an array indexed by `currentHeader`. One turn of the loop over the tables is
`BeginTable` (index and name), `SetAddresses`, `HashTable` (swap to big endian, hash) and
`DigestTable` (swap back, store the hash in the table before). A hash is the tuple of the
bytes hashed, with their byte order; `InFile` is what `writeXEX` makes of a table, by a
swap of its own. The names follow, one step each. 8 and 16 bits are the constants `Byte`
and `Short`. The size of the libraries is kept in 32 bits: by it the writer tells whether
there are any, so `SizeIsWhatIsWritten` also says that it is not 0 when there are.

### `ImportNames`
Operators only: how a name is cut and read (`strtok`, `strtoul`, and the comparisons of
lengths in between), next to a reference that says what a well-formed name is and what
numbers a reader sees in it. A name is a sequence of characters, with the file name of the
library as one element. Numbers fit in an unsigned long and there is no white space.

### `MainStructs` and `SynthXEX` (extends `MainStructs`)
The heap maps every pointer field of `datastorage.h` to null, live or dangling;
`Inside` says which memory a field lies in. `lost` collects blocks no pointer leads to,
`fault` records a double free or an access through a pointer that leads nowhere.
`MainStructs` has these and the free functions, as functions from heap to heap; its
`FreesInAnyOrder` asks of every state of `main` that any two of these functions,
one of them called twice, leave `freeAllMainStructs` able to finish, if their caller looks
(`MayCall`) for what they do not look for: that `peData` is there for `freeSectionsStruct` and
`freePeImportInfoStruct`, and for `freeImportLibrariesStruct` that `optHeaders` is, and
`nameTable` not, which it would leave to be freed a second time. The comment above the functions
asks nothing of their caller: that is `CalledIndividually`, which is violated (finding 6). `SynthXEX` is `main`: each stage uses, allocates and leaves behind what the code
does, succeeding and failing at each point it can, and each exit frees and closes its
own list.

### Proof and MC modules
`DataStorageProofs` has lemmas about 32-bit sums, running sums, least numbers and the two
translations. `PlacerProofs`, `WriteXEXProofs` (on `PlacerProofs` and `DataStorageProofs`),
`PEHeaderProofs`, `PEImportsProofs` and `OptHeadersProofs` (on `DataStorageProofs`),
`PEMapperProofs` and `SynthXEXProofs` each extend the module they are named after with the
proofs below. `MCWriteXEX`, `MCPEMapper`,
`MCPEImports`, `MCOptHeaders` and `MCPEHeader` only define the small instances; `SynthXEX` needs
none.

## What TLC checks

| Run | What it shows | Bounds, and why they are enough |
|---|---|---|
| `write` | of the placer: types, `HeadersDisjoint`, `BasefileAboveHeaders`, `OffsetTablesAgree`; of the writer: types, `FreeSeesTableCount`, `NothingButTheImage`, `BigEndianFile`, `EntriesFindHeaders`, `HeaderHashValid`, `ImplementsImage`, `Terminates` | 1 to 3 pages of 4 KiB on a little endian host and 1 or 2 pages of 64 KiB (16 blocks to a page) on a big endian one, with and without a partial last block, and 147 to 153 pages, where the headers cross a 4 KiB boundary with and without imports; no library, the smallest, two of different sizes, and 3600 bytes of them: every loop runs 0, 1 and more times. Where writes may fail, one page: every subset of the writes, and every allocation |
| `write_short` | **fails**: success although the file is not complete | |
| `mapper` | types, `SectionsIntact`, `IATXenonified`, `PositioningBetweenReadsAndWrites`, `HashChainVerifies`, `PermissionsMatch` | both kinds of host; pages of four and of eight cells (the two page sizes); two sections of every size from empty to a page, so that data ends on, before and behind each boundary; sections longer in memory than in the file, three sections out of order; imports by ordinal and by name, in one table, two and three, where the index wraps (`Byte` 2); IATs shared by two tables, overlapping, running into data and out of the image |
| `mapper_padding` | **fails**: data that ends one byte before, or on, a page boundary | |
| `imports` | types, `AddressesRight`, `ImportsComplete`, `Terminates` | up to two libraries; data before directory and directory before data; a missing terminator, bad RVAs, an empty IAT, a trailing section without data |
| `imports_bss` | **fails**: a section without raw data in front of others | |
| `opt_headers` | types, `TableHashesVerify`, `SizeIsWhatIsWritten`, `EveryImportListed`, `NamesFound`, `VersionsAsNamed`, `EntriesAscend` | no import, and one to three tables, on both kinds of host; `Byte` 2 and `Short` 4, so that an index wraps, and four tables or imports are too many; of one name, every text with a character removed, inserted or replaced |
| `header` | types, `NoFailureTakenForData`, `AcceptedCanBeRead`, `OneSectionTable`, `TranslationsInverse` | PEs with one and two sections in either order, with and without raw data; optional headers of 224 bytes, longer, shorter and empty; files that end on each boundary and one byte to either side; one wrong field at a time; every read failing or not |
| `header_wrap` | **fails**: a section whose size and position add up to more than 32 bits | |
| `main` | types, `NoMemoryFault`, `FreesInAnyOrder`, `FilesClosedOnce`, `NothingHeldAtExit`, `BuildLeaksNothing` | two tables, three options (both paths and one more, or one twice) |
| `main_free` | **fails**: a function that frees part of `peData` called after `freePeDataStruct` | one table, two options |
| `main_realloc` | **fails**: the unchecked `realloc` of `getImports` | |

The six failing runs are findings about the program, listed in `PROJECT.json` with the
line of a comment or message each one contradicts:

1. `writexex.c:88`: unchecked writes, so "XEX built." may be printed for an incomplete file.
2. `pemapper.c:178`: data that ends one byte before a page boundary is not padded, and
   the last page is not counted; data that ends on the boundary loses its last byte.
3. `datastorage.c:197`: `offsetToRVA` takes a section without raw data for the one that
   holds every later position.
4. `getimports.c:165`: a `realloc` whose failure is not noticed.
5. `gethdrdata.c:109`: the sum that is compared with the size of the file wraps at 32
   bits, so data far outside of the file is accepted.
6. `datastorage.c:82`: the comment at lines 36-39 says that the functions that free can be
   called individually and twice, as each checks for NULL. `freeSectionsStruct` and
   `freePeImportInfoStruct` do not, and `freeImportLibrariesStruct` frees `nameTable` again when
   it is called again. `main` never does any of this (`NoFault`).

Findings 2, 3 and 5 bound what the other runs say: `HashChainVerifies` and `PermissionsMatch`
are stated for whole pages, `imports` has a section without data last only, and
`OneSectionTable` speaks of raw data in the file where the sum does not wrap.

Bounds are named where they are: `Word`, `Byte`, `Short`, `SmallPage`, `LargePage`,
`MaxTables`, `MaxOptions`, `Numbers` (what four bytes that are no entry may read as), the sets given for `PageCounts`, `ImportLibraries`, `Cases`, `PEs`,
`Executables` and `PEImportTables`. `Word` stands for 2^32; TLC, whose integers have 32 bits,
is given 2^30, which the offsets of the small images stay far below (and which the PEs of
`header` reach, to make sums wrap), and the proofs take any. A PE is shorter than 4 GiB
(`PEHeaderAssumption`), as `ftell` and the 32-bit sizes of the program suppose. A write that
fails is taken to leave nothing in the file (`Fwrite`).

**Fairness.** The program is one thread and nothing it waits for is another's to do, so
as long as it has a next step it takes it: `WF_vars(Step)` in `WriteXEX` and
`PEImports`, the only two specifications with a liveness property. `Step` leaves out
the stuttering that stands for having returned and, in `PEImports`, the failing
allocation: no loop may rely on memory running out to end it.

## What is proved

Every invariant that a run checks, the refinement of `XexImage`, and for the two stages that
`Terminates` is about that every step comes nearer to the end. One invariant,
`SizeIsWhatIsWritten`, is proved under a condition that the code does not see to
(`LibrariesFit`, below). The theorems hold for every value of the constants that the
named `ASSUME` of the module allows; TLC evaluates these assumptions on each run. In each module an inductive
invariant comes first, checked with TLC before it was proved, then a lemma per
action, then the theorems.

### The layout (`PlacerProofs`)

`PlacerProofs` proves, for every set of page counts and import libraries whose
headers fit in `Word` bytes (`PlacerAssumption`: the fixed headers, 24 bytes a page and
the libraries leave 5,000 bytes of room), and for every `Word`:

* `PlacerTypeCorrect`: `PlacerSpec => []PlacerTypeOK`;
* `DisjointHeaders`: `PlacerSpec => []HeadersDisjoint`;
* `BasefileAbove`: `PlacerSpec => []BasefileAboveHeaders`;
* `TablesOfOffsetsAgree`: `PlacerSpec => []OffsetTablesAgree`;
* `LayoutInvariant`: the invariant they rest on.

The safety invariants speak of finished layouts only and are not inductive. `LayoutInv`
adds what is true on the way: `HeadersPlaced` fixes where the headers of constant size
lie; `LoopInv` says that the separate headers placed so far follow one another between
there and `currentOffset`, and that `currentOffset` has moved at most 24 bytes for each
entry, so that no addition wraps and no `getNextAligned` does; `ImportsRemembered` says that
once the import entry is behind the loop its two indices are right;
`BasefilePlaced` says that after rounding up the libraries still fit between the last
header and the basefile. The proof has one step for each action (`NextLayout`), on lemmas
about `getNextAligned` (`Aligned8`, `Aligned4096`), about the entries (`IdPlaces`,
`EntryFacts`) and about 32-bit sums that do not wrap (`U32Exact`, `Bounds`). For the two
tables of offsets, `TablesInv` says that `sepHeader` is one more than the *rank* of the last
entry, the number of entries with data so far, and that each header is stored under its
rank; ranks of different headers differ (`RankAbove`, `RanksDiffer`), so that no store hits
another's, that of the imports at the end included.

### The headers of the PE (`PEHeaderProofs`)

`PEHeaderProofs` proves, for every set of files shorter than `Word` and for every `Word`:

* `HeaderTypeCorrect`: `Spec => []PEHeaderTypeOK`;
* `FailuresNoticed`: `Spec => []NoFailureTakenForData`;
* `TablesAgree`: `Spec => []OneSectionTable`;
* `AcceptedIsReadable`: `Spec => []AcceptedCanBeRead`;
* `InverseTranslations`: `Spec => []TranslationsInverse`;
* `HeaderInvariant`: the invariant they rest on.

`HeaderInv` has, besides the types, `Quiet` (a read that failed has already led to an
error return, and nothing else is a result before the readers are done), `Checked` (what `validatePE`
knows at each of its steps, up to every section it has looked at), `HdrKept` (the fields
`getHdrData` has read are those that were validated, so its loops and positions are
too) and `TablesKept` (both copies of the section table equal the entries validated, as
far as they have been read). Each is proved kept by every action. `AcceptedIsReadable` then
looks at each later read and finds its position below the end that was checked.
`InverseTranslations` needs no invariant but the types: it is `RawDataTranslated` of
`DataStorageProofs`, which holds of any table in which no section reaches into a later one.
That rests on `TranslateBy`, by which the last section starting at or before an address is the
one it lies in.

### The imports of the PE (`PEImportsProofs`)

* `ImportsTyped`: `Spec => []ImportsTypeOK`, for any PE;
* `AddressesFound`: `Spec => [](Linked(pe) => AddressesRight)`;
* `NoImportMissed`: `Spec => [](Linked(pe) => ImportsComplete)`;
* `NearsItsEnd`: `Spec => [](StepsLeft \in Nat) /\ [][StepsLeft' < StepsLeft]_vars`, for any PE;
* `ImportsInvariant`: the invariant they rest on.

`Linked` is what linkers see to and `validatePE` does not check: sections ascend, in the image
and in the file, within 32 bits, and the directory and each IAT lie in the raw data of one
section, blank cell included. It cannot be left out: finding 3 is a PE without it, and `imports`
has, besides PEs that are `Linked`, one that is not. `Begun(p, rva, n)` says that the first `n`
cells from an RVA on are not blank, and `Ended` that the next one is. The
invariant keeps the file position at the end of a run that has begun: of the
directory, as many entries as there are tables (`DirectoryRead`), and of the table in hand,
as many cells of its IAT as there are imports (`TableInHand`); the tables before it have
their whole IATs (`TablesRead`). `AddressFound` says that positions of a run within one
section are translated back to the RVAs they came from, `RunIs` that the run read is the run of
the reference reading. Without `Linked` the walk is still whole and in order; only
its addresses may be another section's.

Only blank cells end the directory, a name and an IAT, and the one file position seeks back
and forth between them. `StepsLeft` counts a whole `Turn` for each entry the directory may still
hold, from the position it was left at (`EntriesLeft`), and in the turn in hand what the file
can still have of the name and of the IAT (`LeftOfTurn`). So `getImports` returns within a
number of steps that the length of the file gives, whatever is in it.

### The basefile and the page hashes (`PEMapperProofs`)

* `MapperTypesHold`: `Spec => []MapperTypeOK`;
* `SectionsStayIntact`: `Spec => []SectionsIntact`;
* `EveryEntryXenonified`: `Spec => []IATXenonified`;
* `PositionedAlways`: `Spec => []PositioningBetweenReadsAndWrites`;
* `ChainVerifies`: `Spec => []HashChainVerifies`;
* `PermissionsHold`: `Spec => []PermissionsMatch`;
* `MapInvariant`: the invariant they rest on.

`Placed` says what a cell of a mapped section is at any time: as it was, or the entry it has
been rewritten to, or lost to the padding. Entries are rewritten in the file that they and the
hints are read from, so the proof has to show that what is read is still the PE's:
an entry that one table alone names is read before it is rewritten, and the hints
`IATXenonified` speaks of are in no IAT. Whatever else is read and rewritten, it is within the
IATs (`SectionsStayIntact`). `Chain` says that behind the page in hand each
descriptor holds the hash of the next page together with that page's descriptor in big endian,
which no later step touches, and that no descriptor but the one in hand is swapped. That the loader's page size is the builder's, found by a division, follows
for whole pages, and only for these (`WholePages`, finding 2).

### The optional headers (`OptHeadersProofs`)

* `EntriesInOrder`: `Spec => []EntriesAscend`;
* `NoImportDropped`: `Spec => []EveryImportListed`;
* `TablesHashForwards`: `Spec => []TableHashesVerify`;
* `OptHeadersTyped`: `Spec => []OptHeadersTypeOK`;
* `NamesInOrder`: `Spec => []NamesFound`;
* `VersionsRead`: `Spec => []VersionsAsNamed`;
* `SizeCounted`: the size of the libraries is the sum of what is written, as 32 bits keep it;
* `SizeWritten`: `Spec => [](LibrariesFit => SizeIsWhatIsWritten)`;
* `OptInvariant` and `LibsInvariant`: the invariants they rest on.

Tables are filled from the last to the first: `FilledBy` and `HashedBy` say from which
table on the index and all imports are there, and the hash is in the table before. A hash that is
stored changes the table before, and only that one, which is hashed later. `swapped` is
empty outside of the one step between a swap and its reversal, on either kind of host.
`EntriesInOrder` also shows that the entries are the `OptHeaderIds` that placer and
writer start from, so that interface is proved, not assumed.

The second invariant is about the names and sizes: `NamesRead` (which names have been cut and
what numbers were found), `NamesLaidOut` (where each was put), `Sized` (what the size has come
to, with the tables not yet counted) and `Typed`. `strtok`, `strtoul` and `strlen` are folds over
a name of any length. They are reasoned about by positions: a token is a stretch `f .. t` of the
name without a separator, the next one begins behind it, and a run of digits has the value
its reference reading has. That the recursive functions behind these folds, and the running
sums of the sizes, exist for any length is shown by the least number where they would not
(`LeastNat`), as the library's induction theorems take an operator.

`LibrariesFit` says that what the libraries take up is less than `Word`. It is needed: the size is
kept in 32 bits, and neither the number of imports nor that of tables keeps it below that. Each
directory entry may name the same IAT, so enough tables of 65,535 imports would wrap
the sum, in a PE far smaller than the headers it asks for. `SizeCounted` says what happens then.
With `LibrariesFit`, `SizeWritten` gives `LibrariesAsBuilt`, all that the proofs of the
writer assume of the libraries.

### The file (`WriteXEXProofs`)

* `WriterTypeCorrect`: `Spec => []WriterTypeOK`;
* `TableCountForFree`: `Spec => []FreeSeesTableCount`;
* `OnlyTheImage`: `Spec => []NothingButTheImage`;
* `FileIsBigEndian`: `Spec => []BigEndianFile`;
* `LoaderFindsHeaders`: `Spec => []EntriesFindHeaders`;
* `HashOfTheHeaders`: `Spec => []HeaderHashValid`;
* `WriterImplementsImage`: `Spec => ImplementsImage`, the abstract specification;
* `WriterNearsItsEnd`: `Spec => [](StepsLeft \in Nat) /\ [][StepsLeft' < StepsLeft]_vars`.

They take the layout from `PlacerProofs`, an image of at least one page, and libraries as
`OptHeaders` builds them (`LibrariesAsBuilt`, in `WriteXEXAssumption`). `Regions` turns the
layout into a row of disjoint parts of the file, and `FileInv` says that each extent
lies in the part of its kind and within a loop behind none but those before it
(`Frontier`): so no write destroys another's extent, and what is in the file stays.
`CoreInv` says from which step on each kind of structure can be swapped; since no step comes back,
each is swapped once, written, and never again read, except for the four fields the
loops are steered by. `DueInv` says which structures must be in the file by each step if writes
come back whole, which makes the image complete in the end; and `HashInv` what the two hashed
ranges held when they were hashed, which nothing has overwritten since. The implementation proof
maps each action to adding structures, to putting the hash on, to giving up, or to a stutter. The
size of the import libraries is a sum over the tables, by a recursive function, whose existence and
growth are proved with `LeastNat`, like those of `OptHeadersProofs`.

`StepsLeft` counts the stages to come and a turn for each entry, page, block and table. That
it falls needs `CoreInv`: the counts that the loops run to are fields which the writer swaps in
place, and a loop that ran while its own were swapped would run to another number.

### Memory and files (`SynthXEXProofs`)

* `MainTypesHold`: `Spec => []MainTypeOK`;
* `NoFault`: `Spec => []NoMemoryFault`;
* `FreeingCommutes`: `Spec => []FreesInAnyOrder`;
* `EveryFileClosedOnce`: `Spec => []FilesClosedOnce`;
* `EverythingReleased`: `Spec => []NothingHeldAtExit`;
* `NothingLeaks`: `Spec => []BuildLeaksNothing`;
* `MainInvariant`: the invariant they rest on, for any `MaxTables` and `MaxOptions`.

A heap is `Sound` when nothing has faulted, nothing dangles, and what a live pointer lies in is
live. Each free function takes a sound heap to a sound heap in which a fixed set of pointers is
null and the others are as they were, whatever was allocated before (`Frees`), two of them
if `peData` is there and one if `optHeaders` is and `nameTable` is not, which `MayCall` sees to; so
any two commute, twice is once, and `freeAllMainStructs` can always finish. `MainsHeld` and `ArraysHeld`
say what is allocated at each stage, `OpenFiles` which files are open, and `Lost` that no
pointer is forgotten but a path given twice and what a failed stage was working
on. All exits but success go through one lemma (`Aborts`, or `Leaves` before the structures
exist), so a stage only has to say what it leaves behind.

### Only model-checked

* `Terminates` of `WriteXEX` and `PEImports`: liveness under fairness, and `ENABLED`, are out of
  the prover's reach. What is proved is that neither can step forever (`NearsItsEnd`,
  `WriterNearsItsEnd`); what TLC adds is that until it has returned there is a next step, and
  that this is taken.
* `SizeIsWhatIsWritten` without `LibrariesFit`: on the instances of `opt_headers` no sum wraps.
* The six findings: what fails on an instance needs no proof.

## What is not modelled

* The contents of headers that are the same for every XEX (system flags, TLS stub, format
  of the basefile, region, media types, signature), and all output.
* stdio buffering, including writes that fail as late as `fclose`, and partial writes that
  leave some bytes behind.
* Files by name: an output that is the input, or that existed before.
* Section tables out of order whose last section is not the highest, and images smaller
  than a page. `PEMapper` and `PEImports` also take it that sections start on page
  boundaries and do not overlap, which linkers guarantee and `validatePE` does not
  check. `PEHeader` has no such limits.
* IATs that overlap at other than entry boundaries, and RVAs of names that point into the
  middle of an IAT entry: a cell of `PEMapper` is a whole entry.
* Import names with white space, or with numbers beyond an unsigned long.
* nettle (SHA-1 is taken to be injective), getopt (the options come one at a time, in any
  order), packaging.

## Plan

Done: all modules above, their runs, and the proofs of their invariants. What is left, in order of
importance:

1. A composition of the stages from PE to file on one small image: `Linked` of
   `PEImportsProofs` and `PEMapperAssumption` are about the same section table, and the IATs of
   `PEMapper` are the tables `PEImports` has found. Between `OptHeaders`, `Placer` and `WriteXEX`
   the interfaces are proved on both sides, but for `LibrariesFit`.
2. Proofs: that `Linked` and finding 3 leave nothing between them (the weakest condition under
   which `AddressesRight` holds); that `PEHeader`, `PEMapper` and `OptHeaders` come nearer to their
   end with every step as well.
