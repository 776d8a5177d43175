# A TLA+ model of Distributed-KVStorage

The repository is the beginning of a LevelDB-style key-value store in C++: the
in-memory index and the code around it are there, the memtable, the log, the
tables and the database itself are interfaces or empty files. This directory
holds TLA+ specifications of the parts that exist, TLC configurations that check
them on small instances, and TLAPS proofs of what matters most.

    tlc -config SkipListSafety.cfg SkipList      # model-check one run
    tlapm SkipListProofs.tla                     # check one module of proofs

`PROJECT.json` maps every definition to the source lines it models, and lists
the runs, the hazards of the code with the properties that watch them, and the
theorems.

## 1. The system

| Component | Source | State | Operations | Modules |
|---|---|---|---|---|
| SkipList and its Iterator | `database/skiplist.h` | nodes with atomic links, `max_height_`, an iterator's `node_` | `insert`; `contains`, `seek`, `seekToFirst`, `seekToLast`, `next`, `prev` | `SkipList`, `OrderedSet`, `MCSkipListScan`, `SkipListNodes`, and their proofs |
| Arena | `util/arena.{h,cc}` | current block and what is left of it, list of blocks, usage counter | `allocate`, `allocateAligned`, `memoryUsage`, destructor | `Arena`, `SkipListNodes`, `SkipListNodesProofs` |
| Status | `include/status.{h,cc}` | pointer to a heap block, null for ok | constructors, copies, moves, destructor | `Status`, `StatusValue`, `StatusProofs` |
| File helpers of Env | `util/env.cc` | none; files belong to the Env | `WriteStringToFile`, `ReadFileToString` | `EnvFile`, `MCEnvFile`, `EnvFileProofs` |
| Coding | `util/coding.{h,cc}` | none | fixed and variable length integers, length-prefixed strings | `Coding`, `Powers`, `CodingStream`, `CodingStreamProofs` |
| Comparator, Slice | `util/comparator.cc`, `include/slice.h` | none | bytewise order, shortest separator, short successor | `Comparator`, `KeyShortening`, `InternalKeyProofs` |
| Random | `util/random.h` | `seed_` | `next`, `oneIn` | `Random`, `SkipListNodes` |
| Logging | `util/logging.cc` | none | numbers to decimal text and back | `Logging`, `CodingStream`, `CodingStreamProofs` |
| Hash | `util/hash.cc` | none | `Hash` | `Hash`, `MCKeyShortening` |
| Internal keys, their filter policy | `database/db_format.{h,cc}` | none (`LookupKey`: a buffer, inside the object or on the heap) | pack, parse, compare, shorten, look up, `createFilter`, `keyMayMatch` | `DbFormat`, `KeyShortening`, `LookupKeys`, `VersionLookup`, `DbFormatProofs`, `InternalKeyProofs` |
| Env, EnvWrapper | `include/env.h` | none | virtual calls | `EnvWrapper`; the calls made by the helpers are external steps in `EnvFile` |
| NoDestructor, Options, Iterator, DataBase, MemTable | | | | see section 7 |

Interactions. The skip list takes its nodes from the arena, chooses heights with
`Random` and orders keys with the comparator it is given; in the memtable to come
that will be `InternalKeyComparator` over keys that start as a `LookupKey`'s do.
`db_format` is built from `coding` and `comparator`. All of Env reports through
`Status`.

What is hard in this code:

* **Concurrency without locks.** One thread inserts while others search. Links are
  published with release stores and read with acquire loads, but the new node's
  own links and `max_height_` are stored with relaxed order. A reader may be on
  any node, at any level, when an insert happens beside it.
* **Failing calls.** Every call in `WriteStringToFile` and `ReadFileToString` can
  fail, and other threads use the same name in the meantime. The arena can throw
  in the middle of an insert. Input can end inside an item that is read.
* **Ownership.** A `Status` owns a raw `new[]` block, a `LookupKey` owns one if its
  bytes do not fit in the object; the arena owns all its blocks and hands out pieces
  of them up to the last byte.
* **Boundaries.** The last group of a varint, a quarter of a block, the byte 0xff,
  the largest sequence number, keys that are prefixes of one another.

## 2. Modules, and how they correspond to the code

Names follow the source. An operator `X_Defect` is a *variant with a defect*: `X`
as it would be after a plausible mistake. No specification uses one; the list
`mutants` of `PROJECT.json` says which property each of them breaks, which shows
that the property depends on the code being as it is.

### SkipList and OrderedSet

`SkipList` executes `findGreateOrEqual`, `findLessThan` and `findLast` one load at
a time. The three loops differ in when they follow a link (`Follows`) and what they
return (`SearchReturns`); `Advance` and `Descend` are the two branches of the loop
body. `insert` is a search that records `prev[]`, then `newNode` (height chosen,
`prev[]` filled above the old height, `max_height_` raised, node built), then one
`Link` step per level. `newNodeThrows` is the insert that ends with an exception of
the arena: `max_height_` is already raised, no node is built, and the caller may
insert the key again.

*Memory.* The writer's stores go into `pending` and reach the readers by `Commit`
in any order that coherence and `memory_order_release` allow: a release store
waits for every earlier store, any other store only for earlier stores to the same
cell. The writer sees its own stores at once (`own`, `ownHeight`). Readers load
with acquire order, so their loads are not reordered among themselves; the relaxed
load of `max_height_` can only see a newer value by being late, which a later
`Commit` covers. A node's key is a plain store and so pending, too: `keyed` says
which keys have arrived. Memory that nobody has written reads as `Uninit`. A node
is named by its key because no key is inserted twice, which the caller of `insert`
has to ensure.

`OrderedSet` is the promise: a growing set, an atomic insert, and read operations
that answer correctly for one instant between call and return. Its refinement
mapping takes the set to be the nodes published on level 0. `prev` is a search for
the key the iterator stands on, as in the code.

`contains` and `seek` in `skiplist.h` call `findGreaterOrEqual`, a name that is
declared nowhere (the member is `findGreateOrEqual`); being a template, the file
compiles until somebody calls them. They are modelled as calling the member.

### Arena

A pointer is a block number and an offset. `operator new[]` aligns a block for
every type, so only offsets matter. `allocate` and `allocateAligned` are either a
bump of `alloc_ptr_` or the fallback, which gives a large request a block of its
own and otherwise starts a new block and gives up the rest of the old one.
History variables record the pieces handed out and the bytes given up.
`push_backThrows` is a request that needs a block and fails after `operator new[]`
has returned. The block is on the heap and not deleted (`heap`, `live`), and in
`lost`, because no variable of the arena holds its address; everything else is as
before. So `live` and `blocks_` are two views of the same memory that differ after an
exception: `OnlyLostRemain` says by exactly these blocks.

### SkipListNodes and Random

`SkipListNodes` composes the arena, the random generator and the way the skip list
uses both. The constructor allocates `head_` with all links and seeds the generator
(the code's seed is a constant; the model tries all); `insert` enters the loop of
`randomHeight`, every turn of which is a step (`Climb`; `drawn` is the height so far),
and when the loop ends (`InsertBuilds`) asks the arena for a node with so many links,
which may throw after the height was drawn; other users of the arena run in the same
thread and take their steps between inserts.
`nexts_` is declared with one element, so that the links of a node stay in its own
memory is a matter of this arithmetic alone. `Random` has the modulus `2^Bits - 1`
and the multiplier as constants; the code divides with a shift and a mask, and so
does the model.

### Status and StatusValue

`Status` models `state_` as an address in a heap of blocks that can be allocated
and deleted; reading a deleted block gives `Garbage`. `StatusValue` is what a user
thinks: a variable that holds ok or an error. The move assignment swaps, so the
source keeps the target's old value; the specification of values says so.

### EnvFile

Every virtual call of the two functions is one step and may fail. The Env and its
files are external: `newWritableFile` creates a new file under the name (as
`env.h` says, an existing one is deleted), a `WritableFile` may keep appended data
in a buffer until it is closed, a failed `append` or `close` may have written any
part, `read` returns fragments of any size up to the buffer and an empty one at
the end of the file only. The clean-up after a failure deletes *the name*, and its
own result is not looked at. History variables record which writes overlapped.
`DoWriteStringToFile` can also `sync()`; its only caller passes `false`, so that
step does not exist. A thread of the model reads or writes, not both
(`ThreadAssumption`); a real thread that does both is one of each, because the two
functions share no state but the files.

### EnvWrapper

A virtual call on a chain of wrappers around an `Env`, one dispatch per step. The
methods are the ones `env.h` declares; the target is any class that implements the
pure virtual ones and some of `deleteFile` and `deleteDir`. A method that a wrapper
overrides is forwarded, one that it inherits from `Env` calls another method of the
same object.

### Coding, Logging, Comparator, DbFormat, Hash and their users

`Coding`, `Logging`, `Comparator`, `DbFormat` and `Hash` are operators. The size of a
byte and of the two integer types are constants, with assumptions that keep the
relation between them that the code has: a varint of the largest number has `Groups`
groups, and its last group may reach beyond the type (with the widths of run `coding`
it does). A shift is a product with a power, written as `Power(b, n)`, a recursive
function that proofs can unfold; `FromDigits` is what all decoders do, each byte shifted
to its place and added. `ConsumeDecimalNumber` has the loop of the code as a recursive
function over the digits at the start of the input: `value[i]` is the variable `value`
when `i` of them were consumed, and the function fails at the first digit that does not
fit. Where the code converts a size to `uint32_t` (`PutLengthPrefixedSlice`, `LookupKey`)
the model takes the remainder.

`CodingStream` puts items into a string, which arrives in pieces, and reads it back.
A Get whose item is not there yet fails and is tried again when more has arrived; the
caller of `GetLengthPrefixedSlice` goes back to the `Slice` it had, because a failed call
may have consumed the length, and a decimal number is followed by a byte that is no
digit, because its first digits are a number too. A reader may also take a varint64
for a varint32.

`KeyShortening` starts from every pair of internal keys up to a length and shortens.
`LookupKeys` makes and destroys objects of class `LookupKey`. The constructor computes
`needed` and takes `space_` or a block of `operator new[]`, writes the length, the user
key and the tag, and leaves three pointers; the destructor compares the first of them
with `space_` to know whether there is a block to delete. `space_` is address 0, the
blocks are addresses from 1 on, the other two pointers count from the first. The constant
13 of the code is `Groups32 + Width64`, the longest varint32 and the tag, and the size of
`space_` is a parameter. The class cannot be copied.

`VersionLookup` stores versions of user keys in the comparator's order and looks
them up with a `LookupKey`; they can be written out as a table with a filter, which
a reader asks with the same `LookupKey` first. The keys of the table are the one
enumeration of the entries that the comparator finds in order. The user's filter policy
is outside the repository and taken to be exact, which is the least it may let pass.
The memtable that will do this is empty, so its add and its get are external, modelled
from what `LookupKey` and the skip list offer. `MCKeyShortening` also hashes the keys; `Hash` is in
an MC module of its own because the bitwise operators it needs cannot be used from
modules with proofs.

## 3. The runs

| Run | Configuration | Shows |
|---|---|---|
| `skiplist_safety` | 3 keys, height 2, 1 reader, 5 pending stores, the arena may throw | `SafeReads`: nobody follows an uninitialised link, compares an unwritten key or uses an unset `prev[]`; `LevelLists`: every level is at all times a sorted list of the published nodes, and contained in the level below; `Assertions`: the two assertions in the code; `Linearizable`: refinement of `OrderedSet` |
| `skiplist_scan` | 3 keys, height 3 | a scan during inserts meets every key that was there when it began, in ascending order |
| `skiplist_live` | 2 keys, height 2, fairness | every operation ends; an inserted node appears on all its levels |
| `arena` | `SkipListNodes`: blocks of 64, requests 1, 16, 24 and nodes of one or two links, five pieces, one exception, modulus 7 | pieces disjoint, inside their blocks, aligned; little waste; usage exact for the blocks of `blocks_`; `OnlyLostRemain`: each block is deleted once, and only what an exception lost outlives the arena; `LinksIntact`: every link of every node is aligned memory that belongs to that node only; `SeedFollows`: the generator computes `seed * A mod M` and never leaves `1 .. M-1` |
| `status` | 3 objects, 2 errors, 4 addresses | each block has exactly one owner; refinement of `StatusValue` |
| `env_file` | 1 name, 2 writers, 1 reader, 3 files | `WrittenIsRead`, `NoTornRead`, `ReadsPrefix` |
| `env_file_live` | 1 writer, 1 reader, fairness | both functions return |
| `coding` | bytes of 4 bits, types of 1 and 2 bytes, 2 items | what is put is what is got, however the bytes are split, and nothing is left over; a Get fails only if its item is incomplete; `DecimalExact`: decimal numbers are read exactly up to the largest and rejected above it |
| `key_shortening` | 2-bit bytes, 2-byte tags, user keys up to length 2 | comparing bytes is comparing parts; a separator lies between its neighbours; `SuccessorShortest`: a successor is not before its key, and no key from there on is shorter; `HashTellsApart`: changing one byte changes the hash |
| `lookup_key` | 2-bit bytes, lengths of 4 bits in up to four groups, user keys of 0, 1, 5, 6, 7 and 13 bytes, `space_` of 12, 2 objects | `LookupKeyFits`: what the constructor writes fits in the buffer it chose; `LookupKeyReads`: it reads back as what it was made of; `BuffersOwned`: each block has exactly one owner and is deleted with it |
| `version_lookup` | 2-bit bytes, user keys where one is a prefix of another | a lookup finds the newest version the snapshot may see; snapshots are stable; asking the filter first changes no answer |
| `env_wrapper` | two wrappers, every kind of target | **violated**: the comment on `EnvWrapper` says that all calls are forwarded; `deleteFile` arrives as `removeFile` |

Bounds, and why they are enough:

* *One reader.* Readers store nothing that another thread loads, so a second one
  adds interleavings but no state a reader can tell apart.
* *Three keys, two or three levels.* An insert can be before, between and after
  existing nodes, a search can be beside it on every level, and levels can be
  added. `MaxPending` 5 is a whole insert of height 2 (key, two links on
  each level) invisible to the reader; with 4, as in the other runs, two inserts can
  still overlap in what the reader sees. The bound only delays the writer. The
  liveness run has two levels: each of its properties is a temporal formula per
  thread, or per key and level, and what a third level adds is covered by the scan.
* *Arena.* The requests are below and above the alignment, and below, at and above
  a quarter of a block; five of them fill blocks and give them up. One exception can
  come before, between and after them. The proofs remove the
  bounds. A modulus of 7 has a product that exceeds it in the sum of its two halves,
  and both fixed points are among the seeds.
* *LookupKeys.* The buffer is exactly full for the keys of 6 bytes (in `space_`) and of
  7 and 13 bytes (on the heap): their lengths need all four groups of a varint32, and 13 is
  the longest whose internal key still has a length of that type. A `needed` that is one
  byte too small fails for each of them.
* *EnvFile.* Three files let two overlapping writes be followed or preceded by
  a third; the data are a string shorter than the read buffer and one that is longer.
  Writers are symmetric, and the symmetry is used only without liveness.
* *Widths.* What depends on the width is the top group of a varint and the largest
  sequence number; both occur with small widths. A number of two bytes of 4 bits has
  three decimal digits, and 255 ends in a digit that is not 9. The strings that are
  hashed have less than a word, a word, and up to two bytes more.

`CHECK_DEADLOCK FALSE` is set where the system really stops: a destroyed arena, and
a stream that has been read.

*Fairness.* A thread inside an operation keeps running (weak fairness of its
steps), because the operating system schedules it and the code has no lock or wait; a store becomes visible
in finite time, as C++ requires of atomics. Nobody is forced to start an
operation.
A writer that waits for room in `pending` gets it because stores do become visible.

## 4. What is proved

The theorems hold for every value of the constants that satisfies the assumptions
named in the modules. Each inductive invariant was first checked by TLC as an
invariant of the run, with the constants of the table above.

| Module | Theorems |
|---|---|
| `SkipListProofs` | `SkipListTypeOK`, `SkipListSafeReads`, `SkipListLevelLists`, `SkipListAssertions`, `SkipListLinearizable`, `SkipListScanMissesNothing`, `SkipListScanOrdered` |
| `SkipListNodesProofs` | `ArenaTypeOK`, `ArenaDisjoint`, `ArenaAligned`, `ArenaLittleWaste`, `ArenaOnlyLostRemain`, `ArenaUsageExact`; `NodesUseArena`, `NodesLinksIntact`, `NodesSeedFollows` |
| `StatusProofs` | `StatusTypeOK`, `StatusOwnership`, `StatusRefinesValue` |
| `EnvFileProofs` | `EnvFileTypeOK`, `EnvFileWrittenIsRead`, `EnvFileNoTornRead`, `EnvFileReadsPrefix` |
| `CodingStreamProofs` | `StreamTypeOK`, `StreamRoundTrip`, `StreamFailsOnlyWhenCut`, `StreamDecimalExact` |
| `InternalKeyProofs` | `ShorteningSeparates`, `ShorteningShortest`, `ShorteningOrder`; `LookupKeysFit`, `LookupKeysRead`, `LookupBuffersOwned`; `LookupTypeOK`, `LookupNewestVisible`, `LookupSnapshotStable`, `LookupFilterHidesNothing` |
| `DbFormatProofs` | lemmas only: the bytewise order, integers and strings as bytes, tags |
| `NumberTheorems` | lemmas only: induction, division, sums, powers, digits |

**SkipList.** Assumptions: the keys are a finite set of integers, there is at least one level, the writer
is no reader, and head, null and uninitialised memory are no keys. The properties speak
of what the readers see; the difficulty is that the writer is ahead of them by any
number of stores, which arrive out of order. `Sent(t, l)` is the set of keys that will
be published on level `l` when every release store older than `t` is visible, and
`Issued(l)` the set when all are. The invariant says

* `ReadersList`: every level of the readers is the sorted list of `linked[l]`, contained
  in the level below, and its keys have arrived;
* `StoresOrdered`: a pending release store, at its turn, publishes a finished node
  after its predecessor in `Sent` (`Ready`), and a pending store to a link of a new
  node is followed by the release store that publishes it (`Awaited`);
* `WriterList`: every level of the writer is the sorted list of `Issued(l)`;
* `ReaderPlace`, `WriterPlace`: a search stands on a node of the list it sees, before
  its key, and `prev[]` holds the predecessors in `Issued`.

The proof has a lemma per action; `CommitStep` is where `memory_order_release` is
needed: only when everything older is visible is `Sent` of the store what the readers
have. `Splice` is the one fact about lists, that linking a key after its predecessor
makes a sorted list of one more key. For `SkipListLinearizable`, the release store on
level 0 is the abstract insert, and a search that returns answers for the instant of
its last load. The proof on scans adds what a scan remembers (`Scans`) and uses only
that `linked[0]` grows and that a link leads to the next published key.

**Arena.** Assumptions: the block size is positive, requests are positive numbers (the
code asserts it in `allocate`). `PiecesDisjoint` is not inductive: that
the next piece is free depends on `alloc_ptr_` and `alloc_bytes_remaining_`
agreeing. `Frontier` says that they add up to the size of the current block and
that no piece reaches beyond the pointer; `Ledger` says that `blocks_` lists
every block once that was not lost, that the lost ones are live for ever, and that no
piece lies in one. `IInv` is these two with `TypeOK` and three of the properties. `BumpStep` and
`FallbackStep` show that the two ways to serve a request preserve it, and
`SlopAligns` is the arithmetic of the alignment. An exception adds a block
that is live and lost, and `LostStep` shows that this disturbs none of it. `UsageExact` compares the counter with sums: `Usage` adds that the
pieces and what is left of the current block are together not more than the counter,
so that a bump, which does not change the counter, is covered.

**SkipListNodes.** `NodesUseArena` shows that every behaviour of the composition is a
behaviour of `Arena`, because a node of every height is one of the `Requests`, so that
the theorems on the arena hold for it. `NodesLinksIntact` follows from the arena's
invariant and `NodesPlaced`, that every node has the room its height asks for.
`NodesSeedFollows` is arithmetic (`DigitSum`): the sum of the two digits of the product
to the base `2^n`, reduced once, is the remainder modulo `2^n - 1`; it needs that the
product is no multiple of the modulus, which `RandomAssumption` says and which holds
in the code because the modulus is prime.

**Status.** The inductive invariant is `TypeOK /\ Ownership`: two objects never share a
block, no object points to a deleted one and no block is lost. Ownership is what makes
the values of the other objects survive a `delete[]`, so the refinement step
(`StepLemma`) needs it.

**EnvFile.** Assumptions: the read buffer is positive, strings are finite sequences, at
least one is written. The three properties depend on who may change a file: `Owners` (a file
that is being written has one writer, and holds a prefix of its string), `Alone` (a
write that is the only one of its name still has the name), `Settled` and `Bound` (what
a name leads to when nobody writes it), `Expected` and `Undisturbed` (what that means
for a read that is under way). One lemma per call of the two functions, with its
failure; the delicate ones are `newWritableFile`, which takes the name from another
file, and `deleteFile`, which may delete somebody else's.

**DbFormat.** Assumptions: a byte has an even number of values and at least four, and
the widths are related as above. `FixedRoundTrip` is that decoding gives back what was
encoded, because a number is the sum of its digits (`Digits`, by induction); `VarintRead`
the same for varints, and that they fail exactly when their last byte is missing;
`SliceRead` for strings with their length. `CompareLess` shows that `Slice::compare`,
which finds the first difference, is the dictionary order; it is transitive and total.
`ParseAppended` and `CompareParts` put this together for internal keys: parsing gives back
the parts, and since the tag packs the sequence number above the type, the comparison of
two tags is that of their parts (`PackOrder`).

**KeyShortening.** The invariant is that both keys were put together from a user key not
longer than `MaxLen`, a sequence number and a type. A separator lies strictly between the
two user keys (`SeparatorOfUserKeys`), and because the user key decides before the tag
does, between all internal keys with them. It has parts as every key has, so that
`OrderOfParts` follows from `CompareParts`. A successor keeps the
bytes 0xff in front of the first other one, and every string from the key on has at least
these and one more (`NoShorter`), so none is shorter; that the replaced key has the tag
that sorts first does not change its length.

**LookupKeys.** Assumptions (`KeysAssumption`): the size of an internal key fits in both
integer types, because the constructor converts it to 32 bits. `LookupInv` says that every
living object is what its constructor wrote and that its buffer has the size it asked for
(`Placed`), with `BuffersOwned`: a block that belonged to two objects would be gone for the
second when the first is destroyed. `WrittenFits` is the fact about one object, that a
varint of a 32-bit number has at most `Groups32` groups and that cutting the bytes at the
three pointers gives the parts back.

**VersionLookup.** Assumptions: user keys are strings of bytes, and no version is none
of them. The invariant says that the entries are the keys of the versions, which have
different sequence numbers up to the last one (`Stored`), that a snapshot is not later
than the last one (`Taken`) and that the filter has the user keys of the table
(`Filtered`). A finite set of versions has a first one in the order of the comparator
(`FirstVersion`, by induction over the set), so a seek returns it (`SeekFinds`); the
`LookupKey` of a snapshot comes before the versions it may see, the newest of them first,
and after the later ones (`FindNewest`). `SnapshotStable` is part of the invariant. An
added version is later than every snapshot taken, so the newest visible one is the same
before and after, and what is found depends on nothing else (`FindDetermined`).

**CodingStream.** Assumptions: strings have less than 2^32 bytes, a byte has values that
are no digits, and the 32-bit type is not wider than the 64-bit type. The invariant
says where the items end in the string (`Layout`: offsets, such that the bytes between two
of them are the encoding of an item) and that the input is exactly what has arrived
behind the items that were read (`Position`). `ReadsItem` is the fact about each kind of
item: given an input that agrees with its encoding as far as either goes, a Get succeeds
if all of it is there, returns the value and takes these bytes only, and otherwise fails
and leaves the input alone (the caller's Slice, for strings). With it a Get moves the
position from one offset to the next. `FailsOnlyWhenCut` then is that the sizes of the
items add up to the offset (`SizesAddUp`).

`DecimalExact` is about any input. The overflow test of line 40 looks at the value
before the digit is added; `TooLargeIs` is that it says exactly whether the value fits
afterwards. If no digit is refused the loop has lost nothing by wrapping (`LoopBack`), and
the text of its value is the digits without their leading zeros (`LoopText`). If the
digits are the text of a number that fits, every prefix of them spells a smaller one, so
none is refused and the loop ends with the number (`LoopFollows`, `TextTaken`).

**NumberTheorems.** The library's induction theorems take the property as an operator,
which the provers cannot instantiate. Here a property is the set of the values that have
it, and induction follows from the well-foundedness of the natural numbers
(`LeastNumber`, `NumberInduction`, `SubsetInduction`). With it the fold of the community
modules is shown to be well defined for sums (`SumExists`, `SumUnique`, `SumIsFold`) and
independent of the order (`SumAny`). `PowerRecursion` unfolds a power, by the same argument for
recursive functions (`PowerUptoExists`, `PowerUptoUnique`); `NextDigit` and `Digits` are
the arithmetic of positional notation.

## 5. What is only model-checked

* `OperationsEnd`, `InsertsVisible`, `CallsReturn`: liveness under fairness is outside the
  prover's reach.
* `HashTellsApart`: the hash needs bitwise operators, which modules with proofs cannot use.

## 6. What the checks say about the code

* `skiplist.h:201` says "`x` is the greatest node `<= key`". The code returns the
  greatest node *before* the key, and `prev()` relies on that.
* `status.h:97` and its use: after a move assignment the source holds the
  target's old status, not ok.
* A failed write deletes the file that has the name *now*. If two writes to one
  name overlap, the failing one can remove what the other has completed; so
  `WrittenIsRead` is about writes that no other write overlaps, and `NoTornRead`
  about names whose failed writes could be cleaned up.
* A failed `GetLengthPrefixedSlice` leaves the input behind the length; a caller
  that tries again must go back to where it was. The integer Gets leave their input
  alone. With that, reading in pieces is safe.
* `env.h:127` says that `EnvWrapper` forwards all calls (run `env_wrapper`), but
  `deleteFile` and `deleteDir` are not among them: on a wrapper they become
  `removeFile` and `removeDir`, and a target that overrides `deleteFile`, as
  `env.h:41` asks, is bypassed. `DoWriteStringToFile` cleans up with `deleteFile`.
  `env.h:40` describes a default implementation of `removeFile` that calls
  `deleteFile`; there is none, and with it the two would call each other for ever.
* An exception of the arena during `insert` leaves a list that is intact and may be
  higher than any of its nodes.
* `arena.cc:53-54`: the block of `operator new[]` is pushed on `blocks_` only after it was
  allocated. If `push_back` throws, its address is lost and the destructor does not delete
  it, although the comment of `arena.h:35` says that `blocks_` has all the blocks; `memoryUsage()` does not count
  it. `OnlyLostRemain` shows that nothing else leaks.
* `InternalFilterPolicy::createFilter` turns the caller's `const` array into an array
  of user keys. A caller has to fill it again for the next filter.

## 7. Not modelled

* `Random::uniform` and `skewed`, `EscapeString`: not called, or a copy.
* `NoDestructor`, `Options`: a compile-time wrapper and plain data.
* `Iterator`, `DataBase`, the file classes of `env.h`: abstract classes; `database_impl.*` and
  `memtable.*` are empty, and what `VersionLookup` has of a memtable is external.
* `InternalKey`: a string buffer around `AppendInternalKey` and `ExtractUserKey`.
* `bad_alloc` in the copy assignment of `Status`, and requests or strings near the size of the address
  space; they are listed as hazards without a property.
* The lifetime of the bytes a `Slice` points to.

## 8. Plan

Done, in this order: `SkipList` with `OrderedSet`, `Arena` with its proofs,
`Status` with its proofs, `EnvFile`, `Coding`, `Comparator`, `DbFormat` and their
users; then exceptions of the arena, `SkipListNodes` with `Random`, streams that
arrive in pieces, `Logging`, `Hash`, the filter policy, `EnvWrapper` and `LookupKeys`.

Then the proofs of section 4: the skip list with its refinement and scans, the nodes
in the arena, the generator, the usage counter, the file helpers, the shortening of keys;
and the codings, the order of internal keys, lookups and streams. Every safety property
of the passing runs is proved but `HashTellsApart`.

Left, for when the code is there: `VersionLookup` over `OrderedSet`, the memtable's reads
on the real index, once `memtable.cc` says how it encodes its entries; and the log and
the tables.
