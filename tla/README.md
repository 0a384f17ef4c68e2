# HarfBuzz in TLA+

Models, model checks and proofs of the stateful core of HarfBuzz: the glyph
buffer that every shaping stage edits, the lookups that edit it, the structures
that threads share, the blobs and tables a font is read from, the containers,
and the serializer that writes tables. Paths below are relative to the repository;
the library's own code is in `src/src/`.

Contents: [what the system is made of](#the-system),
[what is modelled](#what-is-modelled), [the modules](#the-modules),
[the runs](#the-runs), [the proofs](#the-proofs),
[where code and documentation disagree](#where-the-code-and-its-documentation-disagree),
[what is not modelled](#what-is-not-modelled), [the plan](#the-plan).

## The system

HarfBuzz turns a run of Unicode text and a font into positioned glyphs. A client
fills an `hb_buffer_t`, makes an `hb_font_t` over an `hb_face_t`, and calls
`hb_shape`. The face caches the compiled *shape plan* of the call (which features
map to which lookups, which shaper runs); the plan's stages then edit the buffer
in place: normalization, substitution lookups, reordering, positioning. Faces,
fonts and plans are shared between threads, buffers are not.

| Component | State | Operations | Interacts with | What is hard | What makes it correct |
|---|---|---|---|---|---|
| Glyph buffer (`hb-buffer.cc/.hh`) | two glyph blocks, cursor `idx`, lengths `len`, `out_len`, flags, `successful` | client edits; stage edits through `out_info`; cluster merging; break flags | every stage; lookups hold positions in it | output written over input; failures half way; rewinding the cursor; clusters that straddle the cursor | no access outside the blocks, nothing unread overwritten, nothing unwritten visible, clusters monotone, the least cluster never lost |
| Shape plan cache (`hb-shape-plan.cc`, `hb-face.cc`) | lock-free list of plans in the face | create or find, destroy, destroy face | objects, faces, allocator | threads that miss together; references taken from a list nobody locks | one plan per key, no node lost, references exact, nothing dangling, every call returns |
| Interned languages (`hb-common.cc`) | lock-free list of strings, static default | `hb_language_from_string`, `hb_language_get_default`, exit handler | buffers compare languages by address | the same race; the locale may change | one address per language, nothing leaks, default set once |
| Lazy loaders (`hb-machinery.hh`) | one atomic pointer | get, fini, free_instance | faces' tables and accelerators, shaper data, static function tables | the race to install; failure; inert owners in constant memory | all threads get one object, losers destroy theirs |
| Hash map (`hb-map.hh`) | slots, population, occupancy | set, del, get, has, clear, reset, resize | subset plans, serializer, CFF | tombstones, probing, a rebuild that fails | a finite map; searches end |
| Objects, user data (`hb-object.hh`) | count, keyed data with a lock | reference, destroy, set/get user data | all public objects | callbacks run outside the lock and call back; the race to install the array | destroyed once, callbacks once, nothing used after it is freed |
| Blobs (`hb-blob.cc`) | data, length, mode, parent through user data | create, sub-blob, copy, make writable | sanitizer, faces | memory modes, parents kept alive by their parts | bytes stay while a blob shows them, and no immutable byte changes |
| Sanitizer (`hb-sanitize.hh`) | budget of operations, edit count, writable | sanitize_blob | blobs, every table | retry with a writable copy, edits that must converge | an accepted table passes again unedited; it ends |
| Serializer (`hb-serialize.hh`) | object stack, packed objects, sharing map | push, pop_pack, revert, resolve links | subsetter | revert after sharing; sticky failure; retry in a larger buffer | no offset to a reverted object; the table reads back as built |
| Bit sets (`hb-set.hh`) | pages, their sorted map, cached population; sticky failure | single and range edits, algebra in place, iteration | lookups, subset plans | algebra in place on pages that stay where they were appended; failure | it is the set its edits make |
| Lookup driver (`hb-ot-layout.cc`, `hb-ot-layout-gsubgpos.hh`) | match positions, nesting, budget | apply forward, nested lookups | buffer | nested lookups change the length under the positions matched | positions stay in the text and with their glyphs; it ends |
| Vectors, digests, caches | arrays with a sticky failure; single words | | containers | | digests never miss a member |
| Shaping pipeline, complex shapers, AAT, CFF interpreters, fonts, subsetter, back ends | see `PROJECT.json` | | | | |

`PROJECT.json` lists every component with its status, and under `hazards` the
lines where this code is hard to test, each with the properties that cover it.

## What is modelled

Eleven components, chosen because a test reaches their hard cases least: the
buffer, the lookups, the containers and the serializer are sequential but depend on
long sequences of calls and on where an allocation fails; the plan cache, the
languages, the loaders and the objects depend on interleavings; blobs on chains of
owners.

### The glyph buffer

`HBBuffer` has one variable for the memory, `mem`, with the blocks `info` and
`pos` and the bit `sep` (`out_info` is `pos`); the other variables are the fields
of the same name (`idx`, `len`, `outLen`, `allocated`, `successful`, `haveOutput`,
`havePositions`, and `level` for `cluster_level`) and `hasUnsafe`, a bit of
`scratch_flags`. A glyph is its
codepoint, its cluster and its unsafe-to-break bit. A cell nobody has written
holds the codepoint `Uninit`. An action is one method, called with any arguments
its asserts and callers allow; `Client` has those of an application, `Stage` those
of shaping. `enlarge` may fail at any call, in either of its two reallocations
(`Ensure`, `RoomMade`); the action then does what the method does when it returns
early. Which of the two failed, and that one block may then be larger than
`allocated` says, is not told apart: nothing reads the difference. Loops over glyphs
are operators of `GlyphRuns` that give their result.

Where a stage's contract is in its callers and not in an assert it is a guard:
`SwapBuffers` and `BeginOutput` when the edit was carried to the end of the text or
is abandoned (`Settled`); during an edit no direct `MergeClusters` that begins in
input already consumed (`Unread`); without output, where the in-place drivers of AAT
tables move the cursor and merge around it, `MergeClusters` wherever the cursor is, on
a buffer whose `out_len` is what an earlier pass can have left there (`LengthLeft`).
`SkipGlyph` stands for every way to pass over a glyph once something else was written
for it. At the levels that merge, `ligate_input` (`hb-ot-layout-gsubgpos.hh:913`, `:995`) has
made one cluster of the ligature before it skips the components; at the level
`characters` it has not, and the glyph skipped may be the last of its cluster
(`TextCursor.Drop` says the same of the text).

`TextCursor` is what the buffer promises: a text, split by a cursor while it is
edited. `HBBuffer` implements it (`ImplementsCursor`, and `CursorSteps` for
behaviours that start with a text) with `done` the output and `todo` the input not
yet consumed. In it there is no memory, no second block and no shift: moving the
cursor leaves the text alone, merging is defined on the whole text.

### Threads: plan cache, languages, lazy loaders

In `ShapePlanCache`, `LanguageList` and `LazyLoader` a thread is a value of `pc`
and the locals of the function it runs; each action is what the thread does
between two accesses to shared memory. Addresses are reused: a freed node, item,
plan or object may be the next one allocated, so that the compare-and-exchange is
exposed to the ABA problem if there is one. Allocation fails at any time. The
atomics of `hb-atomic.hh` acquire on load and release on exchange, and shared
nodes are not written after they are linked, so sequential consistency is a fair
model of them.

`rank` and `linked` in the list modules are auxiliary: the depth of a node and the
nodes exchanged in. They appear in no guard.

Clients end a use in the modules as the API asks: the face is destroyed when no
call on it runs; a loader's owner goes when nobody uses the loader; exit handlers
run when no call runs.

`PlanMemo` is the abstract specification of the plan cache: a memo by key whose
answers are atomic. While the face lives a key's plan is remembered once, never
replaced and never forgotten, so that two answers for one key are the same plan unless
one of them is a plan of the call's own (the inert face, or no memory for a node) or the
empty plan. `End` is the destruction of the face, which comes when no call is running;
only then does `Forget` drop plans, node by node.

### The hash map

`HashMap` computes what `set_with_hash`, `resize` and `bucket_for_hash` compute, on
a table of slots; `MapSpec` is a finite map. Keys are addresses and `ContentOf` is
what `hb_deref` compares, because the code compares contents when it searches and
addresses when it deletes. A set that finds no memory is dropped and leaves the map as
it was (`Fail`). The exception is a rebuild for which `population` was too low, which may
run out of memory half way: some entries are lost, and the call that asked for it goes on
(`FailHalfway`, enabled only then). `OneSlotPerContent` says more than its name: every used
slot is the one a search for its key finds. The module declares recursive operators
and is for TLC only.

### Lookups

`LookupDriver` is `apply_forward` over a text that the buffer's cursor splits in
`done` and `todo`, as in `TextCursor`. What a font's lookups match is any choice: a
substitution without records of its own (`Leaves`: a glyph becomes none, one or two;
a ligature takes later glyphs and leaves those it skipped) is one step, a context is
a frame with the positions it matched. `NestLeaf` and `NestContext` are `recurse`
with its nesting limit and budget; when a nested lookup returns, `Adjusted`
(`MatchPositions`) computes what `apply_lookup` does to the positions and the end of
the frame. The labels `of`, the glyphs a frame matched, exist for
`PositionsFollowGlyphs` only and appear in no guard; they are dropped where the
code's comment says that it guesses. Glyphs that skipping ignores are those between
the positions chosen.

### Objects, blobs and tables

`HBObject` is one object and its threads: each has a stack of calls, because a
destroy callback of user data may set or remove user data of the same object. The
array is installed by compare-and-exchange; the operations of `hb_lockable_set_t`
hold the lock and run callbacks after they released it. User data that finds no
memory for its item is accepted and lost (`push` answers its scrap item), which
`DataOwned` allows: its callback never runs.

`HBBlob` is the heap of blobs and the blocks of bytes they show; dropping a
reference may free a chain of blobs, which is computed at once because it is one
call. `Sanitizer` adds a face's file and tables: `sanitize_blob` takes a round per
step (first pass, pass with edits, check that edits converged), other owners hold,
share and drop blobs between rounds. A table is a row of offsets whose target is
null, good or bad; `Spoils` says which targets an edit breaks.

### Bit sets

`PagedSet` has the pages and the page map as the code keeps them, with vectors that
grow and fail as `hb_vector_t` does; `SetSpec` is a set of numbers with the flag that
it has failed. Intersection shrinks the page vector without moving the pages it
keeps, so that a kept page may fall outside
(see [below](#where-the-code-and-its-documentation-disagree)): `ImplementsSetUnlessLost` is
the refinement up to the first such loss, and the model follows a set that suffered one
no further than a clear or a copy into it. `Backward` is the loop of `process` over the
two maps, from their ends down, with its writes over the left map as they come. Where it
overwrites an entry it has still to read, its closing assertion fails; the model is of a
build with assertions and stops there (`aborted`). Iteration is what the code computes,
empty pages included.

### The serializer

`Serializer` is `hb_serialize_context_t` and a client that uses it as the tables do:
objects inside one another, popped and linked at once or kept and linked later,
discarded, reverted to snapshots. Memory is one array of fields; moving, sharing,
reverting and resolving are what the code does to it, and each method also computes
whether its asserts hold. Each allocation may fail: of an object (`PushRefused`), of
the vector of packed objects or of their map (`bad`), and of an object's links (`AddLink`:
the link and all later ones of the object are lost, `cut`, which `lost` counts and the
context does not know). The tree that the client built is kept with each object
(`kids`) for `TableReadsBack` only: it compares what a reader finds when it follows
the resolved offsets, for tables that lost no link. `Retry` is `_subset2` with a larger buffer.

## The modules

| Module | Models | Used by |
|---|---|---|
| `GlyphRuns` | loops of `hb-buffer.cc` over glyphs | `HBBuffer` |
| `TextCursor` | abstract text with a cursor | `HBBuffer` (refinement) |
| `HBBuffer` | `hb_buffer_t` | `MCBuffer`, `HBBufferProofs` |
| `PlanMemo` | abstract memo | `ShapePlanCache` (refinement) |
| `ShapePlanCache` | `hb_shape_plan_create_cached2`, `hb_face_destroy` | `MCPlanCache`, `ShapePlanCacheProofs` |
| `LanguageList` | `lang_find_or_insert` and its callers | `MCLanguageList`, `LanguageListProofs` |
| `LazyLoader` | `hb_lazy_loader_t` | `MCLazyLoader`, `LazyLoaderProofs` |
| `MapSpec` | abstract map | `HashMap` (refinement) |
| `HashMap` | `hb_hashmap_t` | `MCHashMap` |
| `MatchPositions` | positions of a match under nested edits | `LookupDriver` |
| `LookupDriver` | `apply_forward`, `apply_lookup`, `recurse` | `MCLookupDriver`, `LookupDriverProofs` |
| `HBObject` | `hb_object_*`, `hb_lockable_set_t` | `MCObject`, `HBObjectProofs` |
| `HBBlob` | `hb_blob_t` | `Sanitizer` |
| `Sanitizer` | `hb_sanitize_context_t::sanitize_blob`, a face's tables | `MCSanitizer`, `SanitizerProofs` |
| `SetSpec` | abstract set | `PagedSet` (refinement) |
| `PagedSet` | `hb_set_t` | `MCPagedSet` |
| `Serializer` | `hb_serialize_context_t`, `_subset2` | `MCSerializer`, `SerializerProofs` |

The `MC` modules only give constants their values and define the initial texts and
symmetry sets. Definitions commented as mutants are plausible bugs; each property
of each passing run has one that breaks it.

## The runs

| Run | Question | Bounds |
|---|---|---|
| `buffer_edit` | Every stage method from every text: the inductive invariant, clusters, flags, and each step of the cursor specification | texts of 1 to 3 glyphs with clusters 1 and 2 in any order, blocks of 2 or 4 cells, a level that merges and the level where merging is replaced by flags |
| `buffer_life` | The whole life of a buffer: client edits, changes of the cluster level, stages, failures, reuse; implements `TextCursor` from the start | texts of up to 2 glyphs, blocks of 2 or 3 cells |
| `plan_cache` | Safety of the cache; it implements `PlanMemo`; every call returns | 2 threads, 3 keys of which one has no shaper, 2 nodes, 3 plans |
| `languages` | Safety of interning and of the default; every call returns | 2 threads, 3 names of 2 languages, 3 items |
| `lazy_loader` | Safety of a static, a member's and an inert member's loader; every get returns | 3 threads, 3 objects |
| `hash_map` | Structure of the table; it implements `MapSpec` | 6 keys that collide, two with equal contents, 2 values (symmetric: they are only compared); up to 2 granted allocations per call |
| `lookups` | Match positions under nested lookups; the lookup advances and ends | 4 glyphs, texts of up to 5, 2 contexts that match up to 3 glyphs with up to 2 records, an array of 4 positions, 2 levels of nesting below the first, 3 nested lookups (`MaxOps`) |
| `objects` | User data and the end of an object under races and callbacks; every call returns | 2 threads with 2 references each, 2 keys, 2 data, calls nested 2 deep; deadlock is checked |
| `tables` | Blobs, their bytes and their references; what the sanitizer accepts | 3 blobs, 2 blocks, 3 references held, tables of 1 file offset and 2 table offsets, 5 checks a round, 1 edit |
| `sets` | Structure of the pages; iteration, minimum, maximum; implements `SetSpec` until a page is lost | 2 sets, 3 pages of one number, vectors that stop growing at 0 or 2, one set in error |
| `set_population` | the population a document promises | as `sets`; see below |
| `serializer` | Asserts, sharing, links, and what the table reads back as when no link was lost | blocks of 2 to 4 fields of 0 or 1, offsets up to 2, objects 3 deep, 1 index kept, 1 failed allocation |

Why the bounds are enough. *Buffer*: three glyphs are needed for a run of two with a
neighbour on a side, two clusters for a merge; with blocks of 2 and 4 cells every
edit meets the sizes at which room is just there, must be made and cannot be made;
outputs longer than the input (`<<a, a>>` for one glyph) force the move to the
position block at every cursor. *Threads*: two threads race for an exchange, the loser
retries or gives up and the winner goes on to the next key; a third, which can finish
between the read and the exchange of a second that races a first, is in
`lazy_loader`, and for all four structures that threads share the theorems cover any
number; with no more nodes than threads and fewer plans than calls, freed addresses are
reused. *Hash map*: a table is rebuilt twice within six keys, and once five of them
were counted down to one by deleting them again, the rebuild is too small and must be
rebuilt in turn, or fails half way; `Slack` is 1 in place of 8 so that this takes few
keys, `Width` keeps `population` to 6 bits, and
`MinPopulation`, `MaxPopulation` and `MaxMallocs` bound counters that would not end.
`MinPopulation = 0` leaves out one case on purpose: if `population` wraps below
zero by deleting deleted keys again and again (see below), a rebuild may get a table so
small that rebuilds within the rebuild must succeed for its searches to end.
*Lookups*: a match of three leaves a position before, at and after the one that is
edited; a text of five over four is one that grows under a match and then must not;
an array of four positions overflows; three nested lookups exhaust the budget within
the second context. *Objects*: two data for one key replace each other, two keys give
a removal something to move. *Tables*: a file, its table and a copy; of the offsets one
edit spoils another, so that a second pass finds what the first made. *Sets*: an
operand with a page before, between and after those of the other. *Serializer*: an
object in an object in the table, two equal ones to share, and one offset that does
not reach.

All sizes of `HBBuffer` are multiples of a cell; overflow of byte counts
(`hb_unsigned_mul_overflows` in `enlarge`) cannot occur below `max_len`.

Deadlock checking is off in all runs but `objects`: an application may stop calling.

### Fairness

The buffer, the containers, the tables and the serializer are sequential: no liveness
is claimed. A thread of the plan cache, the languages or a loader is weakly fair in
its own steps (`Step(t)`) only: the operating system runs a thread that can run, and
clients owe no call and no destruction. This suffices although a lost exchange starts
again: each lost exchange means that another thread linked a node for good or
installed an object for good, which happens at most once per key, language or loader.
Exhausting memory ends a call too. In `HBObject` taking the lock is strongly fair as
well: the mutex is the platform's, and is not withheld from one waiting thread for
ever. `LookupDriver` is one thread that runs to its end without waiting for anybody:
weak fairness of `Next`.

## The proofs

TLAPS checks eight modules of theorems, for every value of the constants that
satisfies the named assumptions.

*`HBBufferProofs`* (`BufferAssumption`, `TextAssumption`: block sizes that reach
beyond `max_len`, codepoints distinct from the uninitialized one, no substitution by nothing: the
callers of `replace_glyphs` give it at least one glyph). `BufferSafe`
proves the inductive invariant `BufferInv`; `TypeCorrect`, `MemorySafe`,
`InPlaceSafe` and `NoUnwritten` are the properties it implies. Memory safety alone
is not inductive. That nothing unwritten is visible needs `InputWritten`, which says
more than the property: the input stays written *behind* the cursor as well,
because a failed edit is abandoned by going back to the whole input; and
`OutputWritten`, because a swap makes the output the input. `InPlaceOutputBehindCursor`
is needed in turn to show that output written in place falls on consumed cells, or
on the cell at the cursor. The proof has one lemma per method, over lemmas that say
what copying, merging and making room leave written. `BufferFlagsAnnounced` proves
that break flags are announced, from the same lemmas and the invariant `FlagInv`: the
scratch flag is up, or no glyph of input or output is flagged, behind the cursor
included, where moving back and giving up an edit return to. It has a hypothesis,
`TextsAppended`: what clients append is text, and only glyphs are ever flagged
(`hb_shape` takes a buffer of Unicode text).

`BufferRefinesCursor` proves that the buffer implements `TextCursor`, method by method.
`View` reads the text off the blocks, glyph by glyph, wherever the output lies, and
`Parts` cuts it at the cursor; a method is then shown to write the cells that the step of
the text asks for. Loops over clusters look at cells and stop at block ends and at the
cursor; merging in the specification looks at the text (`Span`, `LeastOf`): the lemmas
`SpanAhead`, `SpanBehind` and `LeastIs` identify them, and where the code stops short
(a merge outside an edit, or behind the cursor) the step is the weaker `MergeSome`. Methods
of stages give `Staged`, those of clients `Stepped`; one that fails is `RunOut`, one called
after a failure `Broken`. `EveryStateFollowsCursor` is the same from any state of the
invariant, which is where `buffer_edit` starts.

`MonotoneClusters` and `LeastClusterStays` are proved about the text and hold of the buffer
by the refinement. What a step must not do to the clusters is one relation, `Keeps`:
rising clusters stay rising, falling ones falling, every cluster of the new text is one of
the old, and none of the old is below all of the new. It is transitive, and two lemmas give
it: `JoinKeeps` for merges (a merge reaches only whole runs of its two ends, and strays
that share the cluster of its start: `Reach`) and `SpliceKeeps` for steps that replace
glyphs by others of a cluster between the neighbours. A deletion is a splice, and keeps
the least cluster because it lowers the clusters before it, merges with the one after it,
or leaves a smaller or equal one. The monotony of rising clusters alone is not enough for a
buffer that was reversed, nor is either without the set of clusters.

*`ShapePlanCacheProofs`* (`CacheAssumption`; `FiniteAssumption`: the threads are
finitely many, so that references can be counted). As in `LanguageListProofs` the
invariant `CacheInv` ranks the linked nodes, and a call that found nothing has compared
every node below the head it read (`CacheKeysUnique`). On top of it each plan has a set
of owners, the list, the calls and the clients, and its count is their number:
`CacheReferences`, from which `CacheNothingDangling` and `CacheNoNodeLost` follow. The
refinement is proved step by step: `CacheImplementsMemo` and, unfolded, `CacheRefinesMemo`
show that every step of the cache is a step of `PlanMemo` or leaves the memo alone; the
linearization point of a call that creates is its exchange, of one that finds the
comparison that succeeded.

*`HBObjectProofs`* (`HBObjectAssumption`, with finitely many threads). References are a
set, `Held`, of pairs of a thread and a number, and the count is its size as long as the
object is not being destroyed; then one thread is its destroyer and holds the rest of
the calls (`EndInv`). Each datum has one holder: nobody, the client, a call, the array,
or a callback that is still to run (`DataInv`). Both need to know what a call that waits
below a callback may not have done yet (`StackInv`). `ObjectStaysAlive`,
`ObjectDataOwned` and `ObjectCallbacksUnlocked` follow.

*`SanitizerProofs`* (`HBBlobAssumption`, `SanitizerAssumption`). The heap of blobs is
`Sound` if counts are exact (`Counted`), each blob fits its mode and its bytes (`Fits`),
a block that will be given back has one blob to do it (`Owned`), and parents end
somewhere (`Grounded`). That one `hb_blob_destroy` keeps it so, however long the chain of
blobs that die with it, rests on the chain being a path along parents: the least set
`Losing` that passes references on. `SanitizerReferences` and `SanitizerBytesAlive`
follow. `SanitizerFrozenBytes`: only the owner alone of a block writes to it, and an
immutable blob that shows the bytes would be another. `SanitizerAcceptedIsSane` is about
the rounds of checks: a round that stays within the budget and edits nothing has seen
every offset good or null, and a round that edits is followed by one that must not.

*`LanguageListProofs`* (`LanguageAssumption`: `Canon` is a function, `None` is no
item). The invariant orders the linked items by `rank`. A call that is at `cur`
after it read `first` has compared all items ranked between them; the head has the
greatest rank; hence an exchange that succeeds, because the head is still `first`,
has compared everything, and no language is linked twice (`LanguagesUnique`). That
the exchange is not fooled by a reused address follows from linked items never being
freed while calls run. `LanguagesComparable`, `LanguagesOwned`, `LanguagesAlive` and
`LanguagesDefaultKept` follow.

*`LazyLoaderProofs`* (`LoaderAssumption`: `Null`, `None` and objects are distinct).
The invariant says whose each object is. `LoaderOneObject`, `LoaderObjectAlive`,
`LoaderObjectsOwned`, `LoaderNeverNullptr`, `LoaderInertUntouched` and
`LoaderInstanceKept` follow.

*`LookupDriverProofs`* (`LookupDriverAssumption`, `MaxContextAssumption`: a text within
its limit, a match within the array). `DriverPositionsInText` proves that nested
lookups never lead a position out of the text or out of its array, for texts, arrays
and nesting of any size. The property alone is not inductive: when a context returns,
the frame around it is adjusted by a difference of lengths, and only if its record's
position is still in the text that is left may the adjustment use it. The invariant
`FramesFit` therefore links each frame to the one nested in it (`Nests`): they share a
position, the first of the inner one, which no adjustment moves and which stays before
the inner one's end. The lemmas below it are about the arithmetic of the adjustment
(`WidenedFits`, `NarrowedFits`, `AdjustedFits`); that a removal keeps positions in
order rests on `Gap`: increasing positions are at least as far apart as their indices.
`DriverPositionsFollowGlyphs` proves that a position leads to the glyph that was matched
as long as the code does not guess. Its invariant `Tracks` follows the glyphs through
nested frames by their distance from the *end* of the text, which is what the adjustment
preserves: while nothing was guessed the text is no shorter than when the frame was
entered, and unchanged if it is no longer. `DriverApplicationsAdvance` proves the action
property that the loop moves on after each application.

*`SerializerProofs`* (`SerializerAssumption`). `Sound` is about the block and holds whatever
fails: packed objects descend from its end, those under construction ascend from its
start, and while the map has lost nothing it holds exactly the packed objects, no two of
them equal. `Matched` keeps the client's frames in step with the stack. `Good` is about
contexts that lost nothing, no link either (`Healthy`): the links of a level lie below the start of the level above it
and lead to objects packed before that one was begun, so that discarding a level takes just
what nobody below links to; and the trees kept with the objects are those their links lead to (`PackedFaithful`). `SerializerAsserts` (no assert of
the code fails), `SerializerSharing` (the map is the packed objects, no content is packed
twice) and `SerializerLinks` (a link leads to an object packed before) follow.
`SerializerReadsBack` is about the end of a table without lost links: `Read` follows the resolved offsets recursively, and
as an offset of an object leads to one packed before it, a least counterexample among the
packed objects shows that the reader finds the tree the client built.

Some invariants are proved and no run repeats them, because a theorem says more than
a small instance: the type invariants of the buffer and the lookups, the buffer's
`WithinAllocation`, `InPlaceOutputBehindCursor` and `NothingUnwrittenVisible` (named
parts of `BufferInv`, which `buffer_edit` does check), the languages'
`SameTagSamePointer`, `ItemsOwned` and `DefaultKept`, and the loader's `ObjectAlive`,
`NeverNullptr`, `InertUntouched` and `InstanceKept`.

Only model-checked: the hash map, the sets, their refinements of `MapSpec` and `SetSpec`,
and liveness, which the prover does not handle. `HashMap` and `PagedSet` declare recursive
operators (rebuilding a table, growing a vector), of which the prover can use nothing; the
recursive check of a table in `Sanitizer` and the reader of a table in `Serializer` are
functions for that reason. `SearchEnds` moreover is not true for all values of the constants
(a wrapped `population` makes a table too small, see the bounds above), and that probing
visits every slot is number theory about triangular numbers. Where a proof needs induction,
over ranks, chains of parents, lengths or offsets, it takes a least counterexample from the
well-foundedness of the numbers (`LeastExists`).

## Where the code and its documentation disagree

* `set_population`: `hb_set_get_population` "Returns the number of numbers in the set."
  (`src/hb-set.cc:413`). After an intersection that keeps a page stored behind one it
  drops, the set has none of the common numbers and counts one it does not have.

### Known divergences

Met while modelling; the modules do what the code does, and no run is about them.

* `max_len` is "Maximum allowed len" (`hb-buffer.hh:97`), but only `enlarge` looks at
  it (`hb-buffer.hh:337` asks it only when a block must grow): blocks grow by half and
  are then filled. In `HBBuffer` texts grow to the capacity of the block.
* The manual says that level 2 "performs no merging of clusters whatsoever"
  (`docs/usermanual-clusters.xml:544`); `delete_glyph` (`hb-buffer.cc:588`) lowers the
  clusters before the deleted glyph at every level.
* A merge takes whole clusters by the manual (`docs/usermanual-clusters.xml:327`); its
  extension to the left (`hb-buffer.cc:527`) stops at the cursor, which a lookup that
  applied nothing leaves at the end of the text.
* The hash map's population is "Not including tombstones" (`hb-map.hh:67`), but
  `set_with_hash` (`hb-map.hh:232`) counts overwritten keys again and does not uncount
  deleted ones; `is_empty` and `get_population` report it.
* The serializer's methods go on after a failed allocation until a later one looks at
  `successful`. If `push` had no memory (`hb-serialize.hh:178`), the client's `pop_pack`
  packs the parent in its place, and asserts of `add_link` or `end_serialize` can fail;
    if the last `pop_pack`, that of the table in `end_serialize`, finds no memory,
  `successful` stays true although the offsets of the table were not resolved.
  `AssertsHold` and `LinksToPacked` are stated for contexts whose allocations succeed,
  `TableReadsBack` for ones whose table was packed.
* A link for which `links.push ()` finds no memory (`hb-serialize.hh:278`) is written to
  the scrap object and lost; `end_serialize` (`hb-serialize.hh:159`) asks `packed` and
  `packed_map` for errors, not the links of objects, so that the table is finished with
  `successful` true and a zero where the offset should be. `TableReadsBack` is stated for
  tables that lost no link.
* The backward pass of `hb_set_t::process` writes the result's map entries over those of
  the left operand (`hb-set.hh:507`), counting on never passing its reader. An
  intersection that drops a left page below one it keeps does pass it: {0, 1, 2} with
  {1, 2}, one number to a page, misses the common entry 1 and fails `assert (!count)`
  (`hb-set.hh:547`). `ImplementsSetUnlessLost` is about calls that return.
* `hb_set_previous` takes an empty page for one whose greatest element is its first number
  (`hb-set.hh:170`, `:620`), and the loop of `hb_set_get_max` (`hb-set.hh:691`) counts up
  from the last page, past the end if that page is empty. `IterationExact` is stated for
  iteration downwards without an empty page in its way and for sets whose last page is
  not empty.

## What is not modelled

Binary font formats and generated tables and machines: a model would repeat their
data. The platform back ends: they call libraries whose code is not here. Text
formats of buffers, features and variations: conversions without state. Fonts: tables
of callbacks, inherited from a parent font. Positioning lookups, the AAT state driver,
the complex shapers and the CFF interpreters: interpreters of font data and Unicode
properties, of which only the edits of the buffer are modelled. The builder of the OT
map and the normalizer. Names and numbers in error messages and traces.

In the modelled components: `sort` and the UTF decoders of the buffer; shaper choice and
the comparison of features in plan keys; calls made from other exit handlers after the
languages were freed; reference counting of `hb_map_t`; files behind blobs; what a
table's own sanitizer checks; offsets that fail the check of their own range, which
refuses the table without an attempt to neuter them (`hb-open-type.hh:359`), and offsets
that may not be null (`:376`); the bulk additions (`add_array`, `add_sorted_array`) and
`next_range` of sets; `apply_backward`, lookup flags, masks and ligature ids; alignment
and the byte widths of offsets in the serializer.

## The plan

In this order, by how much rests on each part.

1. Core, done: `HBBuffer` with proofs of its memory, of its break flags, of its clusters
   and of the refinement of `TextCursor`.
2. Shared state, done with proofs: `ShapePlanCache` and its refinement, `LanguageList`,
   `LazyLoader`, `HBObject`.
3. Containers, done: `HashMap`, `PagedSet`. Next: their recursive operators rewritten as
   functions, then the proofs that a search of the map ends (an unused slot is left) and
   that pages stay in order; the bulk additions of sets.
4. Lookups, done with proofs: `LookupDriver`. Next: `apply_backward`, then `sort` in the
   buffer.
5. Tables, done: `HBBlob`, `Sanitizer` and `Serializer`, all with
   proofs.
6. Algorithms as operators against reference definitions: the builder of the OT map,
   chains of GPOS attachments, Arabic joining, the normalizer's rounds, the stacks of the
   CFF interpreters.
