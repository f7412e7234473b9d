# A TLA+ verification of NeuralDB

NeuralDB is a C++ vector database: an HNSW graph index and a brute-force index
over float vectors, a write-ahead log, a disk-paged variant of the HNSW index,
metadata filters, Python bindings and a command-line tool. This directory holds
TLA+ models of its core, TLC configurations that check them on small instances,
and TLAPS proofs. Line numbers refer to the files of the repository
(`src/src/hnsw.cpp` is the repository's `src/hnsw.cpp`, and so on).

## 1. Inventory

| Part | State | Operations | What makes it correct |
|---|---|---|---|
| `HNSWIndex` (hnsw.cpp, hnsw.hpp) | slot arrays `raw_vectors_`, `id_map_`, `metadata_`, `tombstone_`; `graph_` (node, layer, links); `num_vectors_`, `entry_point_`, `max_layer_` | `insert`, `delete_vector`, `search`, `is_deleted`, `live_size`, `compact`, `save`, `load` | links stay on layers that exist; the entry point is on top; bounded lists; connected graph; deleted vectors hidden; live ones found; calls return |
| `WAL` (wal.cpp, wal.hpp) | one stdio stream and its file | open, `append_insert`, `append_delete`, `replay`, `checkpoint`, close | replay returns exactly the whole records since the last checkpoint; a torn record harms nothing before it |
| compact / save / load | index file (header, rows, tombstone words), log, index in memory | the three calls and recovery by the application | nothing reported done is lost, nothing deleted returns, nothing is doubled |
| `PagedVectorStore` (paged_index.cpp) | page file, `n_vectors_`, `page_cache_`, `lru_order_` | `push`, `get`, `load_page_`, `evict_lru_`, open, close | cache and list agree, bounded cache, written pages dropped from it, usable pointers, count survives |
| `PagedIndex` (paged_index.cpp) | a store and an HNSW index | `insert`, `search` | slot of the store = internal id of the index; a walk reads the vector it means |
| `FlatIndex` (vector_store.cpp) | list of vectors with a deleted flag | `insert`, `delete_vector`, `compact`, `search`, `search_filtered` | exact top k of the live vectors |
| filter (filter.cpp) | none | `parse_where`, `evaluate_filter` | a clause admits exactly the metadata it is documented to admit |
| Python bindings (bindings.cpp) | none of their own | filtered `search`, conversions | live matching rows with their own metadata, exact while the beam suffices |
| distance kernels | none | cosine, L2; AVX2, NEON, naive | every term of the sum once, no read past the end |
| `MMapReader`, `FileWriter` (storage.cpp) | a mapping, a stream | read, write | used by nothing else |
| CLI, benchmark, script | none | argument handling; parallel build | glue |

How they interact. `PagedIndex` calls `push` and then `HNSWIndex::insert`, and
installs `get` as the vector accessor of the index, so that every similarity the
index computes reads through the page cache. `compact` builds a second
`HNSWIndex`, saves it, and truncates the log through a `WAL` object of its own
beside the one its caller holds. No code in the repository appends to the log
when it inserts: the application does. The CLI inserts from several threads; the
Python bindings hold the interpreter lock and so serialise their calls.

What is hard. `index_mutex_` is released and taken again many times inside one
insert and one search, and both carry ids, copied lists and the entry point from one
critical section to the next. Crashes can fall inside an append, inside `save`, and
between `save` and the truncation. `get` hands out raw pointers into pages that the
next `get` may unmap. Boundaries: the beam and list widths, k = 0, the last partial
page, the 16-bit visit tag, partly filled tombstone words, vector tails. Values of
mixed types meet in one comparison function. The list is in `PROJECT.json` under
"hazards", each with its line and the properties that cover it.

## 2. Modules

| Module | Models | Extends / instantiates |
|---|---|---|
| `Hnsw` | the index in memory, several threads | |
| `VisitedTags` | the visited buffer of `search_layer_` | |
| `Wal` | the log file, unit by unit | |
| `IndexFile` | what `save` writes and `load` makes of it | |
| `Durability` | compact, save, load and replay under crashes | `IndexFile` |
| `PagedStore` | page file, page cache, pointers | |
| `PagedIndex` | the store and the index that reads through it | `PagedStore` |
| `Filter` | where clauses over JSON values | |
| `VectorStore` | what a vector index promises (abstract) | |
| `FlatIndex` | the brute-force index with filters | `Filter`, `Store == INSTANCE VectorStore` |
| `PyIndex` | the Python `Index` class | `Filter`, `Store == INSTANCE VectorStore` |
| `Kernels` | block loop, horizontal sum and tail of the kernels | |
| `HnswProofs`, `WalProofs`, `DurabilityProofs`, `FilterProofs` | theorems | the module of that name |
| `PagedIndexProofs` | theorems about the store and the index on it | `PagedIndex` |
| `FlatIndexProofs`, `PyIndexProofs` | theorems | the module of that name and `FilterProofs` |
| `SearchLayerProofs` | theorems about what `search_layer_` is built on | `VisitedTags`, `Kernels` |
| `MCHnsw`, `MCWal`, `MCPagedIndex`, `MCFlatIndex`, `MCPyIndex` | values of constants and symmetry for TLC | the module checked |

Definitions whose comment begins with "Mutant" are wrong on purpose: each is a
plausible slip in the definition that follows it, and the property paired with
it in `PROJECT.json` fails when it is put in that definition's place.

### Hnsw

The shared variables carry the names of the members without the underscore. One
action is one critical section, together with the thread-local code up to the
next one:

| Action | Code |
|---|---|
| `InsertAllocate` | hnsw.cpp 37-53: take a slot; the first vector returns at once |
| `InsertReadEntry` | 55-61 |
| `ExpandCandidate`, `EvalNeighbour` | `search_layer_`: copy the links of the best candidate; score one link |
| `Descend` | 63-66 and 265-268 |
| `LinkOwn`, `LinkBack`, `NextLayer` | 68-97: own list; one back-link with its pruning; next layer |
| `InsertPublish` | 99-105 |
| `DeleteVector` | 115-125 |
| `SearchLoad`, `SearchEntry`, `SearchCollect`, `SearchReturn` | 246-247; 250-263; 272-281; return |

Abstractions. A vector is a member of `Vec` and `Sim` an arbitrary integer
function, so rounding is not modelled; ties are, with the queue order of the code
(similarity, then id) and any order out of `std::sort`. `random_layer` is any
level up to `MaxLevel`. `visited_buf` is a set; `VisitedTags` shows when that is
justified. Metadata is left out. `ret`
holds slots instead of ids and scores. `deleted_ids` (the ids whose last
operation is a delete) and `settled` (the slots whose insert had returned when a
search was called) are history variables.

### VisitedTags

`visited_buf` and `visit_tag` are `thread_local` statics: one buffer per thread
for all traversals of all indexes, never cleared except when the tag wraps.
`StartWalk` is lines 172-191 (load the count, resize, next tag, fill at the
wrap, mark the entry point), `Visit` lines 207-209, `Allocate` the insert that
makes an index longer, also while other threads walk it. `seen` is the set that the
buffer stands for. A link can lead past the end of the buffer, where the outcome of
the test is arbitrary. `start` and `resized` are what `InBounds` compares the growth
of the index with: the count the walk loaded, and whether it resized the buffer.

### Wal

The file is a sequence of units: a field, a float and a metadata byte take one
each. `Replay` reads units as `replay` does, so a misplaced record is misread
the way the code misreads it. `After` is what a stdio stream leaves in the file:
"ab" writes at the end, "wb" at its own offset, and the gap reads as zeros.
`TearAppend` is a crash after any number of units of a record. Reading a length
field as a record's length covers large lengths too: they run past the end of
the file, and replay stops. History: `written` are the records wholly written since
the last checkpoint, `safe` those of them written before any was torn, and `tail`
says whether the file is whole, ends in a torn record, or has one with something
behind it.

### IndexFile and Durability

`IndexFile` has the file as `save` writes it: the count of the header, one row
per slot, and the tombstones packed into words of `WordBits` bits. `Loaded` is
`load`: version 1 files have no tombstones and leave those of the index they are
loaded into; a count that is not the number of rows shifts everything behind the
ids, so that what comes back is `Garbage`. Links are left out: the graph does
not decide which vectors exist.

In `Durability` the log is a list of whole records. The actions of `compact`
follow the code: copy under the lock, empty the file and read the count, write
the file under the lock, truncate the log. `AppSave` starts the same steps for
the live index, the checkpoint that wal.hpp:36 describes. The application's part
(log, apply, report; load and replay at the start, or over an index in use:
`Reload`) is external, in the order the test "WAL recovery test" suggests. At
the start there is a version 1 file with the ids `OldIds`. `CrashPoints` says
where `compact` or `save` may be when the process dies; `Recoverable` is demanded
exactly there. In the window between the end of save and the truncation the records
are in the file and in the log; `WindowRecovery` says what a recovery from there
gives: `LoggedInserts` are the vectors that can come back twice, or, behind a save
of the live index, although they were deleted. The process does not die there in
the passing run, since what it does next with doubled vectors is
`DurabilityReplayTwice.cfg`.

### PagedStore

Units as in `Wal`: a header, `VectorsPerPage` vectors and `Slack` unused units per
page. `n_vectors_++` is two steps (`PushRead`, `PushCount`), as a plain increment
is. `PushWrite` is both writes and the fsync; nothing reads the header.
`PushInvalidate`, `GetHit` and `GetMiss` are the critical sections of
`cache_mutex_`; `GetThrows` is a failing mmap. `nb_vec` and `cur` are the pointers a
thread holds outside the lock: the pruning loop of `HNSWIndex::insert` (hnsw.cpp
89-91) keeps one while it gets the others. `Done` drops them. `behind` is the
history variable of `WrittenPagesDropped`: the pages in the cache that a push has
written to since they were cached. `Reopen` is destructor and constructor. Only
slots whose `push` has returned are asked for. The POSIX branches are modelled; a
private mapping shows later writes to the file, as Linux does.

### PagedIndex

`insert` is `push` (the actions of `PagedStore`) followed by `Allocate`, the slot
that `HNSWIndex::insert` takes: the slot that `push` returns is not passed on, and
the accessor uses the internal id as the slot. `Access` is the accessor, called for
internal ids only. `get_vec_` is `noexcept`, so a `get` that throws ends the
process (`Terminate`); the next one opens the file with an empty index. `base` is
the count the store had when it was opened: 0 for a new file, and the whole pages of
an old one. `SlotsAgree` says that the numberings are apart by it. The accessor
leaves it out, so that a walk of an index on an old file reads other vectors; see
the end of section 3.

### Filter, VectorStore, FlatIndex, PyIndex

A JSON value is a pair of type and content; strings are ranks in lexicographic
order. `json_compare`, `apply_op`, `parse_where` and `evaluate_filter` are
translated branch by branch; `ToDouble` is the conversion both numbers go
through, and in the runs it loses the low bit of large integers. `Satisfies` and
`Meaning` say what filter.hpp documents: every constraint holds, and an order
relates values of one type.

`VectorStore` is the promise: a set of live entries, deletes that remove, and a
search that returns the exact top k of the entries `Matches` admits. `FlatIndex`
implements it (`ImplementsStore`) by a refinement mapping that takes the entries
not flagged as deleted for `live`. A delete and a search report to their caller,
so that a delete without effect is not taken for a stutter. The OpenMP loop
writes each score once, so a search is one action; `std::partial_sort` may order
ties any way. `Stop` is where the loop over the sorted scores meets
`MinusInfinity`, a constant below every similarity, and breaks. `Picked(s, S)` is
what a loop over `s` collects when it passes over everything outside `S`: the
`remove_if` of compact, the tombstone test of `HNSWIndex::search`, the filter of
the bindings.

`PyIndex` is the class the bindings expose, serialised by the interpreter lock:
conversion of metadata to JSON text and back (NaN becomes null, and null, lists
and objects come back as text), a search for k or 4k results, the way from each
external id back to its first slot, the filter, the cut at k. `Beams` is what the
walk of layer 0 may return: all slots where it reaches them all (`ReachesAll`: at
most 2M + 1 slots, so that no list was pruned, and a beam as wide; `AlwaysConnected`
and `SearchAlwaysExact` of section 4 are about this case), and otherwise any
`ef_search` slots or fewer, sorted, since a greedy walk over pruned lists or with a
narrow beam may miss nearer ones.

### Kernels

A partial sum is a function from terms to how often they are in it. `Block` adds
one term to every lane, `Reduce` is `hsum256` with the shuffles of the code (or
`vaddvq_f32`), `Tail` the scalar loop; the naive kernel is the tail alone. The
values, and rounding, are left out.

## 3. Runs

All passing runs explore their instance completely.

| Run | Instance | Shows |
|---|---|---|
| `hnsw_insert_race` | 2 inserting threads, 3 vectors, levels 0-1, fairness | `TypeOK`, `LinksStayOnLayer`, `WalksStayOnLayer`, `EntryPointOnTop`, `CallsReturn` |
| `hnsw_search_race` | 1 thread inserts, deletes and searches, 1 searches; 3 vectors, level 0, beam 3, k = 0 and 2 | `AnswerWellFormed`, `DeletedNeverReturned` |
| `hnsw_one_layer` | 2 threads insert and search, 3 vectors, level 0, fairness | `SettledIsFound`, `CallsReturn` |
| `hnsw_sequential` | 1 thread, 4 vectors, levels 0-1, deletes | `SearchExact`, `Connected`, `DegreeBound` |
| `wal_replay` | 1 object, tears, appends behind them | `ReplayExact`, `DamageConfined` |
| `durability_sequential` | 4 ids, one of them in a version 1 file, words of 2 bits; crashes when compact or save is idle or has only started | `Recoverable`, `WindowRecovery`, `MemoryAgrees` |
| `paged_index` | inserter and searcher, 3 pages with slack, cache of 2, one reopening or termination | `TypeOK`, `LruAgrees`, `CacheBounded`, `WrittenPagesDropped`, `MappedSeesStored`, `SlotsAgree` |
| `visited_tags` | 2 threads, 2 indexes of up to 3 slots that grow under walks, tags 0-2, margin 1 | `VisitedExact`, `InBounds` |
| `flat_index` | 3 entries, 4 kinds of metadata, 9 clauses, k = 0, 1, 2, 4 | `ImplementsStore` |
| `python_search` | 3 slots, 3 kinds of metadata, 6 clauses, beam of 3, or of 2 that may miss slots, k = 0 to 2 | `RowsSound`, `AnswerExact` |
| `kernels` | 3 kernels, dimensions 0 to 31 | `TermsOnce`, `ReadsInBounds` |

One run ends in a violation; it states what the repository says and what the code
does not do, and `PROJECT.json` quotes the line:

| Run | Property | The code |
|---|---|---|
| `hnsw_lost_link` | `Connected` | of two inserts one walks into the other's node over layer 1 and links itself to it on layer 0, which the other then overwrites with its own choice: the vector stays unreachable after both have returned |

The trace is 2 inserts beside a first vector. Slot 2 draws level 1 and is linked
on layer 1. The insert of slot 1 (level 0), whose closest node on layer 1 is slot
2, descends into it, finds no link of it on layer 0, and links 1 to 2 and back.
Then the insert of slot 2 writes the layer-0 list it chose itself over the one
that holds 1. `AlwaysConnected` (section 4) says how far this goes: a second
inserting thread and a second layer are both needed.

### Further instances

Each of these configurations shows the boundary of a property above: TLC finds it
violated, and the trace is the shortest way to the behaviour described.

| Configuration | Module | Property | The code |
|---|---|---|---|
| `HnswHalfLinked.cfg` | `MCHnsw` | `SettledIsFound` | the same line while it runs: a search that walks into a node still without its layer-0 links misses vectors inserted long before |
| `HnswTombstoneBeam.cfg` | `MCHnsw` | `LiveAnswered` | deleted vectors fill the beam; the answer is empty although a live vector exists |
| `HnswReuseId.cfg` | `MCHnsw` | `DeletedNeverReturned` | delete, insert, delete of one id leaves it in the answers |
| `HnswDeletedEntry.cfg` | `MCHnsw` | `SettledIsFound` | the entry point is deleted, and the search starts at a slot whose insert has not linked it yet |
| `VisitedRace.cfg` | `VisitedTags` | `AllInBounds` | an index that grows while it is walked outgrows the buffer |
| `WalTornTail.cfg` | `MCWal` | `ReplayComplete` | appending behind a torn record loses the next one |
| `WalStaleOffset.cfg` | `MCWal` | `ReplayComplete` | truncation by compact after the caller's own checkpoint leaves a hole of zeros |
| `DurabilityReplayTwice.cfg` | `Durability` | `Recoverable` | a crash between save and truncation doubles vectors; a delete then reaches one copy |
| `DurabilityStaleCount.cfg` | `Durability` | `SavedAligned` | an insert between the count and the lock of save leaves a header that does not fit the rows |
| `DurabilityTornSave.cfg` | `Durability` | `Recoverable` | a crash inside save loses the index |
| `DurabilityLostAppend.cfg` | `Durability` | `Recoverable` | an operation logged during compact is truncated away |
| `PagedPrune.cfg` | `PagedStore` | `PointersValid` | pruning reads through a pointer whose page it has evicted itself |
| `PagedZeroPage.cfg` | `PagedStore` | `GetSeesStored` | vectors of the last partial page read as zeros |
| `PagedStalePage.cfg` | `PagedStore` | `FreshPages` | with slack at the end of pages, as for every dimension the repository uses, the file ends before the page does: a page that has just been completed is cached as zeros again and stays so; paged_index.cpp:100 says the next read sees fresh data |
| `PagedReopen.cfg` | `PagedStore` | `ReopenKeepsCount` | reopening forgets the last partial page |
| `PagedLeak.cfg` | `PagedStore` | `NothingLeaked` | heap pages dropped by push are never freed |
| `PagedSlotRace.cfg` | `PagedIndex` | `SlotsAgree` | two inserting threads: slots and internal ids fall apart |
| `FilterOpenRange.cfg` | `MCFlatIndex` | `ImplementsStore` | `$lt` or `$lte` without a lower bound admits fields of every other type |
| `FlatReuseId.cfg` | `MCFlatIndex` | `ImplementsStore` | an id that came back before a compact cannot be deleted |
| `PyNarrowBeam.cfg` | `MCPyIndex` | `FilterKeepsK` | filtering after the beam was cut returns fewer than k rows although k vectors match; README.md:20 of the repository speaks of filters "during graph traversal" |
| `PyReuseId.cfg` | `MCPyIndex` | `RowsSound` | an id that came back is filtered by, and shown with, the metadata of its deleted slot |

`HNSWIndex::search` for k = 0 returns results up to the whole beam, as the test for
the length follows the push (hnsw.cpp:278); `AnswerWellFormed` says so openly: at
most k results for k >= 1 only, and the beam for every k. The bindings cut them off.

Met while modelling, and in no configuration: `compact` leaves the index in memory
as it was (hnsw.cpp:146); a `PagedIndex` opened on a file with vectors starts
numbering at 0 while its store does not, and its accessor asks for slot 0 and not
for slot `base` (paged_index.cpp:227-230); the bindings accept the metric "l2" and
ignore it (bindings.cpp:89); `k * 4` overflows for large k (bindings.cpp:138); `load` takes
no lock; NaN in a clause equals every number (filter.cpp:14-16).

Why the bounds are enough. In `Hnsw`, three vectors with two layers are the least
with a node to descend to, a node to link and a node between them, and two threads
give every pair of critical sections in both orders; M = 2 makes a layer-1 list
overflow with four vectors. In `hnsw_search_race` three vectors, k = 2 and k = 0
give answers of every length, cut by k and not; the exactness properties take a beam
as wide as the index, so they say nothing of beams that tombstones fill
(`HnswTombstoneBeam.cfg`). Layer-0 lists (2M = 4 links) overflow only with six
vectors, out of TLC's reach here: `DegreeBound` for them is proved; `Connected` is
claimed, and proved, for unpruned lists only. The hypotheses of the theorems about
exactness and connectivity hold in the instances: four vectors do not exceed 2M + 1
= 5, the beam is as wide as the index, `hnsw_sequential` has one caller, and
`hnsw_one_layer` has one layer and deletes nothing. Two similarities (equal and
different) are enough for ties and strict order between three nodes. In `Wal`,
vectors and metadata of length 0 to 1 give every alignment of a misread field. In
`PagedStore`, three pages against a cache of two force evictions of every page, and
one unit of slack gives pages that are complete and not wholly in the file, as the
dimensions in use do (no 4 * dim of 32, 64, 128 or 768 divides 4088); vectors are
symmetric, as they are only stored and compared. In `VisitedTags` a tag of three
values wraps with every second traversal, and a margin of one lets the buffer of one
index be too short and just long enough for the other, and an index of up to three
slots outgrow it. Words of two bits with four slots give a full, a partly filled and
a missing last word. In `FlatIndex` three entries are the least with one in, one out
and one tied, and fields hold numbers, strings, Booleans and null against bounds and
lists of several types; k runs from 0 to beyond the count. In `PyIndex` three slots
leave one or two outside a beam of two; more than 2M + 1 = 5 slots, the other case
in which the walk may miss some, are left to the proof of `RowsAlwaysSound`.
Dimensions up to 31 are three AVX2 blocks and every tail.

Fairness. `FairSpec` asks that a thread inside a call keeps taking steps (weak
fairness of each thread's next step). The operating system schedules every
thread, and no critical section waits for anything but `index_mutex_`, which
every holder releases within the same action. Nothing is assumed about callers.
`CallsReturn` is checked where two threads insert on two layers and where inserts
and searches share one.
Deadlock checking is off in `kernels`, where a call ends, and in the `Hnsw` runs,
where callers may stop calling once the bounded number of inserts is used up.

## 4. Proofs

Checked by TLAPS for every value of the constants that the named assumptions
allow.

`HnswProofs`. The inductive invariant is
`IndInv == TypeOK /\ LinksStayOnLayer /\ WalksStayOnLayer /\ EntryPointOnTop`.
None of its parts is inductive alone. That a link on layer l leads to a node with
layer l rests on what an insert holds between two critical sections
(`WalksStayOnLayer`): it links to what it found, which it reached over links of
that layer, starting from an entry point that has it. The entry point has it
because the entry point spans `max_layer` (`EntryPointOnTop`), and that needs an
insert's slot to have exactly the levels it drew. Layers of a node never shrink,
so what was read before an unlock stays true after it. From it follow:

- `TypeCorrect`, `LinksOnLayer`, `WalksOnLayer`, `EntryOnTop`;
- `DegreesBounded`: lists grow by one and are cut to Mmax in the same section;
- `DeletedStaysHidden` (assuming ids are not reused): an action property; the
  collecting section reads the tombstones it answers by;
- `AnswersWellFormed`, for every k: the beam is never longer than `EfSearch`
  (`BeamsBounded`) and holds no slot twice, and the cut at k shortens it for k >= 1.

`AlwaysConnected` assumes `Roomy` (`MaxVectors <= 2 * M + 1`: a layer-0 list has room
for every other slot, so that none is pruned; pruning is one-directional and may cut
a node off) and `OneLayer \/ OneWriter`: every insert draws level 0, or one thread
inserts; any number of others search and delete (`HnswLostLink.cfg` shows why). There
are no paths in the argument: a graph is connected when every set of slots that is
closed under links and meets it contains it. `GraphInv` says so of the slots that
have joined layer 0 (`Joined`: their insert has returned, or somebody links to them),
while inserts run. A slot first gets its own list and joins with the first back-link to
it, and other threads may step in between; `InsertOK` says for each point of
an insert that nobody links to its slot on a layer still before it, so that the
overwriting at line 75 overwrites nothing, and that everything it holds has joined, so
that what it links to is part of the connected whole. That a walk on an upper layer
only meets such slots (`LinksJoined`) is where two writers on two layers fail.
`NextGrows`: links on layer 0 are never removed. `NoRepeats` gives, by a count of the
slots, that a list with an entry per other slot is not too long.

`SettledAlwaysFound` assumes `Roomy` and `Undisturbed`: one layer and no deletes, for
any number of threads, or one caller (`HnswHalfLinked.cfg` and `HnswDeletedEntry.cfg`
show the rest). The invariant is `SearchOK`, above all `Covers`: on layer 0, a set
that contains what the search has visited or copied, and that is closed under the
links of all slots but those it has expanded, contains every slot the search must
find. It starts true, since everything settled has joined; an expansion moves links
of a slot into the copied list; a link that an insert adds makes fewer sets closed
(`SearchKept`), so that the copy of a list may be as stale as it likes. At the end
nothing is waiting, the visited slots themselves are such a set, and in a beam as wide
as the index they are all still there (`NothingDropped`). That the loop only stops
early when no candidate is left (`WalkComplete`) needs the top of a queue to exist
(`TopExists`), by well-founded order on the naturals. `SearchAlwaysExact` is for one
caller: the settled slots are then all slots (`ExactInv`), and the sorted list that is
cut at k has the rest behind it.

Assumptions: M >= 2 (for M = 1 the level multiplier 1/ln M is infinite),
`EfSearch` >= 1, an integer similarity, finite bounds.

`SearchLayerProofs`, on `VisitedTags`. `Inv == TypeOK /\ TagsPast /\ VisitedExact`:
`VisitedExact` needs that no entry carries a tag that is still to come (`TagsPast`),
which holds because the tag only grows until it wraps, and the wrap clears the
buffer. `ReadyLemma` says what resize and fill leave. Result: `BufferIsExact`, for
any tag width of two values or more, and for indexes that grow. `Covered`, the
entries a walk can count on, gives `WalksInBounds`: a slot past the end of the buffer
was taken after the walk began, and if the walk resized the buffer only behind the
margin. How far an index grows meanwhile nobody bounds (`VisitedRace.cfg`).

On `Kernels`, `KInv` says that lane l holds the terms below i that are l modulo the
width, and that after `Reduce` the sum holds all terms below i. Results:
`EveryTermOnce`, `NothingPastTheEnd`, for every dimension.

`WalProofs`. The results assume `SoleWriter`: an object that appends is not used
beside another one that checkpoints (`WalStaleOffset.cfg` shows why). The invariant is
`WInv == WalType /\ StreamsAtEnd /\ FileFramed`: every "wb" stream stands at the end
of the file, so that it writes where an "ab" stream would; and the file begins with
the encodings of the records in `safe`, one behind another, with nothing after them
("whole"), a true prefix of one more ("cut"), or anything ("buried"). Reading the
encoding of a record gives the record and lands behind it (`WholeRecord`), a cut one
is not read (`CutRecord`), what `replay` hands back begins with the framed records
(`ReplayPrefix`), and is exactly them when nothing stands behind the cut
(`ReplayFramed`). Results: `ReplayAlwaysExact`, and `DamageAlwaysConfined`, which
holds behind torn records too (`WalTornTail.cfg` shows what is lost there).

`DurabilityProofs`. `SaveLoadExact`: `load` undoes `save`, by the division of a
slot number by the word width (`DivMod`), the word it names being among the words
written (`WordExists`), and the bit being the slot's own (`PackUnpack`). The other
results assume `Sequential`: no operation runs during compact or save, and
`CrashPoints` are those outside the window between the opening of the file and the
truncation (`DurabilityLostAppend.cfg`, `DurabilityTornSave.cfg` and
`DurabilityReplayTwice.cfg` show each case that is excluded), and a finite set of
old ids. `DInv` has four parts beside the types. `PendingSound`: the operation in
flight is logged and not yet applied. `MemorySound`: each id has one slot, and the
index in memory holds what is live. `SaveSound`: what compact copied, or save is
writing, holds the same, and a finished file is its image. `DiskSound`: outside the
window, file and log recover what was promised, each id in one slot. The last needs
its clause on version 1 files: such a file has no tombstones and leaves those of the
index it is loaded into, so `Reload` is exact only because the index in memory is
then what the file and the log recover. Lemmas say how replay of a longer log, of a
log behind a compacted file, and over an old index differ. Results:
`AlwaysRecoverable`, `MemoryAlwaysAgrees`.

`AlwaysWindowRecovery` is about the states that `Recoverable` leaves out, between the
end of save and the truncation, where recovery replays the log over a file that holds
it already. `LogSound` says what the log gives without the file: no id twice, nothing
live that was not promised, and what it inserts is in the index or in flight.
`WindowSound` combines it with the finished file (`SaveSound`): recovery loses nothing
that was reported done, behind a compacted file nothing else comes back, and behind a
saved live index exactly the vectors whose insert is still in the log do.

`PagedIndexProofs`, on `PagedStore`. `CacheInv == TypeOK /\ LruAgrees /\
CacheBounded` is inductive. Lemmas say what erase, push_front and pop_back do to a
list without repetitions; `EvictLemma` combines them: a full cache is not empty, so
its list is not, so the eviction frees exactly one place. Results: `TypeCorrect`,
`LruAlwaysAgrees`, `CacheAlwaysBounded`, for any number of pushing threads. With one
pushing thread, `StoredInv` adds how far a push is (`Counted`), that what was stored
is in the file, below the counter and below the slot being written (`StoredBelow`),
and
that pointers lead to such slots: `MappedAlwaysSeesStored`.

`WrittenPagesAlwaysDropped` holds for any number of pushing threads and with slack or
without: with `TypeOK`, `WrittenPagesDropped` is inductive (`DroppedNext`), as it
names, for each page in the cache that was written to since, a push that has written
and not yet invalidated. It says nothing of a page that is cached after the
invalidation and before the file is long enough (`PagedStalePage.cfg`).

`PointersStayValid`: for one caller and a cache with room for every page,
`PointersValid` holds, because a cache that lacks a page is not full (`NoEviction`) and
nobody pushes while holding a pointer. Both hypotheses are needed: with a smaller cache
an insert that prunes evicts its own page (`PagedPrune.cfg`), and with a second caller
the invalidation in `push` unmaps a page that the other loaded between the write of
the page's last vector and the invalidation, however large the cache is (one thread
that pushes, one that reads, 2 vectors per page and a cache of 3 pages in
`PagedStore`: TLC finds it in the second push).

On `PagedIndex`, `SlotInv` adds to `CacheInv` how far the store is ahead of the
index at each point of an insert (`Ahead`): by `base`, and by one more while a push
has counted and the index has not. A process that ends in between takes the index with
it; the next one counts the whole pages of the file, which is its base. Results:
`NumberingsAgree`, for one inserting thread and any number of others, every base, and
any number of reopenings and terminations (two inserting threads do break it:
`PagedSlotRace.cfg`); `IndexCacheInv` for any number.
`IndexSeesStored` and `IndexPagesDropped` carry the results on the store over: every
step of the composition is one of the store, a stutter of it, or the end of a process.

`FilterProofs`. `OperatorsMean` compares `apply_op` with `Satisfies` for values
of any types; only `$lt` and `$lte` need values of one ordered type, since
`json_compare` calls every mixed pair less. `ClauseMeans` lifts it to clauses: a
lower bound of the same type keeps other types out, so two-sided ranges, and all
clauses without an order, mean what they say. Assumptions: no NaN, and numbers
that convert to numbers.

`PickedChain` and `DistinctCount` are the facts about lists that the next two modules
use: `Picked` keeps exactly the chosen elements, in order, and a list without
repetitions is as long as the set of its elements.

`FlatIndexProofs`. `FlatImplementsStore`: `FlatIndex` implements `VectorStore`,
assuming that no id is inserted while an entry has it (`FlatReuseId.cfg`), metadata
and clauses as in `ClauseMeans`, and integer similarities above `MinusInfinity`. The
invariant `EntriesSound` (each id has one entry) is what makes the first entry of an
id the only one, so that a delete removes. One lemma per action names the step of
the store it is; compact is a stutter. For a search, `HitFacts` shows that a partial
sort of k scores, cut at the first minus infinity, gives min(k, matching) entries and
none worse than one left out: if the cut comes early, everything that matches has
been taken.

`PyIndexProofs`. `PInv == SlotsSound /\ ef_search \in Efs /\ RowsSound /\
AnswerExact`, where `SlotsSound` is that each id has one slot, live or dead; it turns
the way from the id back to its first slot into the identity (`SlotOfId`).
`StoredMetadata` takes metadata through the conversion to JSON, where NaN becomes
null, to what `ClauseMeans` speaks of. `KeptSound` holds for every beam, whatever the
walk missed; `KeptExact` needs a beam over all slots, which `Beams` only promises where
`ReachesAll` holds, and room for all candidates: then the cut at 4k, the filter and the
cut at k give a prefix of a sorted list of all that matches. Results:
`RowsAlwaysSound`, `AnswersAlwaysExact`, assuming that ids are not inserted again
(`PyReuseId.cfg`), k >= 0, integer similarities, metadata without NaN inside nested
values, and clauses as in `ClauseMeans`.

Induction over data. What a recursive function computes (`Replay`, `Replayed`,
`LiveSlots`, `Picked`, `Stop`) is proved in `WalProofs`, `DurabilityProofs` and
`FilterProofs` by the lemma `SetInduction`: a set of naturals that has 0 and every
successor of its elements has all naturals. The set says, by comprehension, for
which lengths the claim holds.

Only model-checked:

- `CallsReturn`: liveness under fairness, which the prover does not reach.

Every other property of the passing runs is the subject of a theorem.

## 5. Not modelled

Values of floating-point similarities and their rounding; parsing of JSON text;
the Windows branches; `MMapReader` and `FileWriter`, wrappers of mmap and stdio
that nothing else in the repository uses; the CLI and the benchmark (argument
parsing, timing; their parallel build is the setting of the runs with two
inserting threads); failed `fopen`s; loss of flushed data at a power failure;
negative k, and what `load` makes of a file cut short, which are undefined
behaviour; the links inside the index file. `is_deleted`, `live_size` and the
accessors only read.

## 6. Plan

What is left, in this order:

1. The links of the index file, so that a loaded graph is searched.
2. Larger instances of `Hnsw` in which layer-0 lists overflow, to find out how much
   of `Connected` pruning leaves.
