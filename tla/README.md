# A verification project for spirv-to-dxil

This directory holds TLA+ modules that model the parts of spirv-to-dxil that
carry its own logic, the TLC configurations that check them on small instances,
and TLAPS proofs for every value of the constants.  Paths below are relative to
the repository; `mesa/src` is the vendored and patched Mesa tree that makes up
the library.

## 1. Inventory

spirv-to-dxil is a library: `convert` in `src/spirv_to_dxil.zig` takes SPIR-V
bytes and returns DXIL bytes.  It calls `spirv_to_dxil` (C), which parses SPIR-V
to NIR, lowers it, and calls `nir_to_dxil`, which builds a DXIL module in
memory, writes it as LLVM bitcode and wraps it into a DXBC container.  The tool
`spirv2dxil` links several stages on the way.  Nothing is persistent and nothing
talks to a network.  What makes the code hard is that conversions may run in
several threads over one process-wide type cache, that every step may fail for
lack of memory or because of its input, that stages are numbered one by one and
have to agree all the same, and that the output format is full of sizes, offsets
and relative numbers that have to fit each other.

| component | state | operations | interacts with | what can go wrong | correct when |
|---|---|---|---|---|---|
| `util/simple_mtx.h`, futex variant | one word: 0 free, 1 taken, 2 taken with waiters | lock, unlock | kernel wait queue | a wake-up lost between test and sleep; the word is 1 for a moment in a contended unlock | at most one owner; no sleeper forgotten; implements a mutex |
| `util/simple_mtx.h`, `u_call_once`, plain variant | once flag, called flag, `mtx_t`, thread-local argument | lock, unlock, one-time initialisation | `pthread_once`, `pthread_mutex` | racing initialisers; an unordered read of the flag | initialised once, before use; at most one owner |
| type cache, `compiler/glsl_types.c` | user count, arena, one hash table per kind of type | init_or_ref, decref, one interning function per kind | every conversion, through the mutex | freed under a user; stale table after release; two copies of a type | counted users; nothing dangles; equal types have equal addresses |
| entry points, `spirv_to_dxil.zig`, `spirv_to_dxil.c` | what the call has allocated, its reference | convert, spirv_to_dxil, spirv_to_dxil_free | cache, front end, nir_to_dxil | an error path that skips a release or does it too early | reference balanced, IR gone before its types, only the slice left |
| `nir_to_dxil` | ntd_context, module, container, blob | the function and its error paths | module, signatures, container | returns that skip the clean-up | no output when it fails, nothing left behind |
| `util/ralloc.c` | tree of headers; slabs, free lists and a generation bit | allocate, free, steal, adopt, resize; gc alloc, free, sweep | everything that owns memory | a header linked twice; a slab on no list or on two; an object swept that is in use | the tree is a tree; a sweep keeps exactly what was marked or is new |
| `util/hash_table.c` | slots, tombstones, two counts, size index | insert, search, remove, clear, reserve, rehash, iterate | type cache, passes | a probe cut short by a reused slot; a refused resize; removal in a loop | it is a map; a loop meets each entry once |
| `util/blob.c` | data, size, allocated, out_of_memory | write, reserve, overwrite, finish_get_buffer | buffer, container | memory runs out at any write | a failed write changes nothing and is remembered |
| `dxil_buffer.c` | 64-bit accumulator, pending bits, blob | emit_bits, emit_vbr_bits, align | module writer | bits lost or overwritten at the word boundary | blob and accumulator hold exactly the emitted bits |
| `dxil_module.c`, builders; `dxil_function.c` | lists of types, constants, globals, functions, attribute sets, metadata, instructions | get or create; declare a dx.op function; emit an instruction | nir_to_dxil | an equal entry at two addresses, or two requests that get one entry | each entry once, defined before use; a lookup stays true |
| `dxil_module.c`, writer | stack of open blocks, width of abbreviation ids | enter/exit block, records, abbreviations, one function per section | buffer | a size, width, id or relative number that is off makes the rest unreadable | a reader gets back the records and values that were meant |
| interface passes of `dxil_nir.c`, `dxil_nir_tess.c`, `dxil_spirv_nir.c` | variables with locations, masks gathered from the code | sort, number, remove, pad, link | both stages, signatures | masks that are stale when used | linked stages put a value in the same place |
| `dxil_signature.c` | signature records, psv elements, string and index tables, mappings | preprocess_signatures | passes, container | rows overlapping; a variable without record | every variable has a place of its own, found by its number |
| `dxil_container.c` | parts blob, part offsets | one function per part, write | nir_to_dxil | sizes announced before content; shared names | parts tile the file; names and tables resolve |
| the rest of `nir_to_dxil.c` and of the passes, SPIR-V front end, NIR | the IR | rewrites, translation | type cache, module | shader semantics | not modelled |
| `dxil_dump.c`, `dxil_enums.c`, `dxil_validator.cpp`, clc, dozen, build script | - | text output, I/O, other products | - | - | not modelled |

`PROJECT.json` lists the hazards of these components at the lines where they
bite, each with the properties that would catch it.

## 2. Modules and how they correspond to the code

**Mutex, FutexMutex, MCFutexMutex, FutexMutexProofs.**  `Mutex` is what a mutex
promises: a set of holders that never has two members.  `FutexMutex` has one
action for each access to shared memory in `simple_mtx_lock` and
`simple_mtx_unlock`: the compare-and-exchange (`CmpxchgTakes`, `CmpxchgFails`),
the exchange (`Xchg`), the kernel's test of the word before sleeping
(`FutexWait`), the fetch-and-add, the store of 0 and the wake.  The wait queue
of the kernel is external; it may wake threads spuriously.  `Owners` is the
refinement mapping to `Mutex`.

**OnceMutex, MCOnceMutex, OnceMutexProofs.**  The plain variant, which is the one `build.zig`
compiles on Linux, macOS and Windows (it defines no HAVE_LINUX_FUTEX_H and sets
WINDOWS_NO_FUTEX); the BSDs get the futex.  `called` is the flag of
`util_call_once_data`, `once` the `once_flag`, `context` the thread-local
argument.  The flag is read with relaxed ordering (`u_call_once.h:61`): on a
machine that reorders loads a thread that finds it set may or may not see what
`mtx_init` wrote.  `loadsInOrder` is the machine, taken from the constant
`Machines`; `sees` records for which threads the initialisation is visible;
locking a mutex without it leads to "broken", since `simple_mtx_lock` ignores
the result of `mtx_lock`.  `FinishedInOrder` states the comment on the flag
("already called and finished"), and `MutualExclusion` exclusion, for the machines
on which they hold; `InitOnlyOnce` is stated for all.

**GlslTypeCache, MCGlslTypeCache.**  A critical section of
`glsl_type_cache_mutex` is one action; that the mutex justifies this is what
the modules above show.  `heap` says which type lives at an address; the
release makes all addresses reusable.  There is one action per interning
function; keys are abstracted to the kind, one element type and one argument,
which is all that distinguishes two keys.  `CacheSpec` is the cache with any
users that obey its rules (`Enter`, `Obtain`, `DropTypes`, `Leave`) and is the
abstract specification `SpirvToDxil` is checked against.  What is proved of it
stands in the first half of `SpirvToDxilProofs`.

**SpirvToDxil, MCSpirvToDxil, SpirvToDxilProofs.**  Extends the cache with the conversions
themselves.  `pc` is the point `convert`, `spirv_to_dxil` and `nir_to_dxil` have
reached, `owned` the resources some frame of the call can still release, `lost`
those whose last pointer went away with a frame.  Every conditional return and
every jump to `out` is an action.  What the front end and the passes compute is
left out; they ask for types and succeed or fail.  The zig wrapper passes no
specialisations; the step `Specialize` keeps the public C function's branch.

**HashMap, HashTable, MCHashTable, HashTableProofs.**  `HashMap` is what a hash table promises: a
map, with the two things that callers may see once the allocator has refused a
resize: an insert that is turned away, and entries that are lost when an insert
finds as many tombstones as the table may hold entries, takes it to be empty and
clears it.  `HashTable` is the code: probing
by double hashing, tombstones, the choice of a new size, the moving of entries
one by one (an action each, so that the state in the middle of a rehash is
there), removal by entry and by key, `clear`, `reserve`, and the loop
`hash_table_foreach` with removal of the entry in hand.  `Contents`, what a
search would find, is the refinement mapping.  The assumptions on the table of
sizes (`SizesArePrime`, `SizesGrow`) are what `hash_sizes` provides: each size
is prime, the second modulus is smaller, `max_entries` stays below the size, and
both grow from one entry to the next.

**Ralloc, GcHeap, GcContext, MCGcContext.**  `Ralloc` has the functions of the
allocator on the headers (parent, first child, siblings).  `GcContext` adds the
mark-and-sweep context in which the instructions of a shader live: slabs with
free lists, the list of slabs with room, the generation bit, large objects, and
the protocol of `nir_sweep`.  Everything hangs below the shader, and the owner
of any plain block may allocate, free, steal, adopt or resize in between.
`GcHeap` is what the context promises to its users, `ImplementsGc` that it keeps
the promise.  In the code `gc_sweep_end` follows whatever the marking did; here
any subset of the objects is marked.  The model also lets objects be allocated
and freed between the two ends of a sweep, which the functions allow and
`nir_sweep`, their only caller, does not do.

**DxilBuffer, MCDxilBuffer, DxilBufferProofs.**  Bit-exact: words and the
accumulator are functions from bit positions, so that OR, shift and truncation
are what they are in C.  `stream` is the history of what callers asked for.

**DxilModule, DxilModuleProofs, RequestChain.**  The module as it is built.  A request is a lookup with its
answer (`asked` keeps them): types of every kind, constants, dx.op functions by
name and overload with the types that their description spells, globals,
attribute sets; then a body with calls and a return, and the metadata of a
compute shader without resources.  An entry is named by its place in its list,
which is what its address is to the code.  Running out of memory is left out
here.  Floats are their bits, and `FloatsEqual` is the `==` by which the code
looks for them: it takes the zeros of both signs for one (`NegZero`), and a NaN
(a member of `NaNs`, a quiet one, since a signalling NaN does not survive the
conversion to double) equals nothing, itself included.  So a NaN is never found:
each request appends one more constant with the same bits
(`dxil_module.c:1754`, `1778`).  This costs room in the module and nothing else,
and no comment or test speaks of it, so it is no finding, but the properties name
it: `ListsAreSound` allows equal NaN constants, and `AnswersAreStable` says that
a repeated request for a NaN adds exactly one copy of its constant.
`BuildSpec` is the building alone, with steps of the writer, which leave
the module as it is (`Written`).  `RequestChain` is no part of the code: it is
the argument about calls made one after the other, each on the module that the
one before it left, which the proofs instantiate for types, letters of a
description, constants, undefined values and metadata.

**DxilBitstream, BitstreamReader, DxilEmitModule, MCDxilEmitModule.**
`DxilBitstream` has the writing primitives at the level of fields (value,
width, position), relying on `DxilBuffer` for the bits.  `DxilEmitModule` extends
`DxilModule`: it has `assign_values`, the abbreviation tables and an operator for
each `emit_` function, and one action per section of `dxil_emit_module`, after
each of which the writing may have failed.  It writes the modules that were
built, and a few given ones that hold records the builder above never makes.
`BitstreamReader` is external: a reader of the LLVM bitstream format that learns
abbreviations from the stream, checks alignment and block lengths and rejects a
value that does not fit its field.  Names and the two fixed strings are short
sequences of character codes.  UINT32_MAX is a constant because TLC's integers
end at 2^31 - 1, which stands for it; likewise the bits of -0.0.  Only
`dxil_emit_ret_void` makes returns, so `emit_ret` has no value.

**DxilSignature.**  Where the inputs and outputs of a shader live: the sorting
and numbering at the end of `dxil_spirv_nir_passes`, `dxil_spirv_nir_link` with
the removal of unread outputs and unwritten inputs, the padding of the domain
shader's inputs and the tessellation levels, `allocate_sysvalues`, and
`preprocess_signatures` with registers, records, elements, string and index
tables.  Stages are linked in the order of `spirv2dxil`.  A variable is its
location, component, slots, flags and number; a mask such as `inputs_read` is
kept apart from the variables because the code gathers it once and then uses it
while the variables change.  A variable is a scalar, a vector or one array of
them, possibly per vertex, so that `glsl_varying_count` is 1 (`VaryingRange`).
Interpolation, component types and usage masks are left out.

**DxilContainer, MCDxilContainer, DxilContainerProofs.**  Extends `DxilSignature`: the signatures it
writes are the ones computed there.  A blob is its chunks with their offsets;
contents are kept where a reader follows them.  One action per call in
`nir_to_dxil`.  The properties read the finished container through its own
directory, counts and offsets, never through the writer's variables.

Operators marked "Mutant" are plausible bugs; each takes the place of the
definition that follows it to show that a property can fail.

## 3. Runs

| run | instance | shows |
|---|---|---|
| futex | 4 threads, fair | exclusion, no lost wake-up, refinement of Mutex; calls return once no new ones come; the mutex keeps being handed out |
| once | 3 threads, 2 mutexes, machines of both kinds, fair | exclusion under racing initialisation; the flag means what its comment says where loads keep their order; `mtx_init` runs once; nobody stays blocked |
| type_cache | 3 threads, 3 addresses, symmetric | users counted, nothing dangles, types canonical and stable while held |
| conversions | 2 threads, 1 address, fair | references balance, ownership on every path; conversions obey CacheSpec; the last one releases the cache |
| conversions_leak | 2 threads | **violation**: see findings |
| hash_table | 4 keys, 2 data, tables of 3 and 5 slots | soundness of slots and counts, exact iteration, refinement of HashMap |
| allocators | 3 free blocks besides shader, context and temporary one, 2 objects in a slab, symmetric | links agree, slabs add up, refinement of GcHeap |
| buffer | widths 9, 31, 32, memory for 0 to 2 words | the stream is held; failures leave the blob alone |
| module | 3 requests in any order, among them for a NaN, a body with a call, given modules; memory runs out in every section | lookups are true and, but for the NaN, stable, lists sound; no partial module, a reader agrees, references resolve |
| signed_zero | requests of both zeros in three widths | **violation**: see findings |
| container | 364 pipelines of 1 to 4 stages, validators 5 to 8, three amounts of memory | rows do not overlap, variables reach their records, linked stages agree; parts tile the file, names and tables resolve, names are shared as documented, no partial success |
| hull_domain | hull shaders that reread an output | **violation**: see findings |

Bounds.  Two threads race on any pair of steps; three and four let a third one
overtake or sleep behind a sleeper, which is where futex mutexes fail.  Three
addresses suffice for a type, a type built on it and a reused address.  The four
keys have equal hashes, equal first slots in the small table and in the large
one, and two of them fill the large table, so that probes pass tombstones and
entries and resizes happen both ways and in place.  Three blocks are enough for
two slabs and something in between; a slab of two objects can be empty, half
full and full (the loop that keeps the list of slabs with room in order of their
free objects moves a slab only if it holds four or more).  The buffer widths fill the accumulator exactly, miss it by one
bit and straddle it; two words let bits pass from one into the next.  Three
requests (`MaxRequests`) repeat one around another; one call (`MaxCalls`)
suffices as a body's instructions are appended to a list; modules with at most
one request (`MaxWritten`) go on to the writer, along with given modules that
contain every kind of record, values of one and several VBR groups, names of
each encoding, forward references and two bodies.  The pipelines are a vertex
and a pixel shader with every choice of shared and unshared variables (packed
components, a variable of two slots, a system value), shaders alone with clip
distances, streams, targets in several components and generated values, a
geometry shader in between, tessellation in the three domains with every choice
of inputs and rereading, and four stages.  The validator versions are the ones
at which a layout changes; memory ends before the first part, in the middle and
not at all.  Deadlock is checked except where the system ends: a finished or
failed writer.

Fairness is weak fairness of each thread's own steps once it is inside a call:
a runnable thread is eventually scheduled, and critical sections and conversions
contain no unbounded waiting other than the mutex.  Nobody is obliged to start a
call, and the kernel owes nobody a spurious wake-up.

### Findings

* `conversions_leak`: `nir_to_dxil` returns past its clean-up when
  `allocate_sysvalues` fails (`nir_to_dxil.c:6699`), and no failing path after
  `dxil_container_init` finishes the container, so a failed conversion loses
  memory, although `convert` documents that "the caller only frees the returned
  slice".
* `hull_domain`: `dxil_spirv_nir_link` pads the inputs of the domain shader "so
  HS<->DS match" (`dxil_spirv_nir.c:821`), but numbers both sides with masks that
  were gathered before the padding.  A hull shader that uses an output as scratch
  memory puts another one in row 0 that the domain shader expects in row 1.  The
  same staleness can order the two tessellation levels differently when a domain
  shader reads only the inner one, and appears when a geometry shader loses
  an output after its inputs were linked; `LinkedStagesAgree` is therefore stated
  for stages whose masks are current (`MasksAreCurrent`).
* `signed_zero`: `dxil_module_get_float_const` and `_double_const` compare
  with `==` (`dxil_module.c:1754`), so that 0.0 and -0.0 become one constant,
  although `dxil_spirv_nir.c:55` announces `SignedZeroInfNanPreserve`.  The run
  `module` asks for floats without -0.0, a NaN among them, and there the same
  property holds.

## 4. Proofs

| theorem | statement |
|---|---|
| FutexMutexProofs!Exclusion | `Spec => [](TypeOK /\ MutualExclusion)` |
| FutexMutexProofs!WakeupsAreKept | `Spec => []NoLostWakeup` |
| FutexMutexProofs!Refinement | `Spec => ImplementsMutex` |
| OnceMutexProofs!FinishedBeforeUse | `Spec => []FinishedInOrder` |
| OnceMutexProofs!Exclusion | `Spec => []MutualExclusion` |
| OnceMutexProofs!InitialisedOnce | `Spec => InitOnlyOnce` |
| SpirvToDxilProofs!UsersKeepTheArena | `CacheSpec => []UsersAreCounted` |
| SpirvToDxilProofs!NothingDangles | `CacheSpec => []NoDanglingType` |
| SpirvToDxilProofs!EqualTypesAreOne | `CacheSpec => [](TypesAreCanonical /\ TablesMatchArena)` |
| SpirvToDxilProofs!StableTypes | `CacheSpec => HeldTypesAreStable` |
| SpirvToDxilProofs!Balanced | `Spec => []ReferencesBalance` |
| SpirvToDxilProofs!OnlyTheSlice | `Spec => []OnlyTheSliceRemains` |
| SpirvToDxilProofs!LeaksAreBounded | `Spec => []LossesAreBounded` |
| SpirvToDxilProofs!Obedience | `Spec => ObeysTheCache` |
| SpirvToDxilProofs!ConversionsNeverDangle | `Spec => [](UsersAreCounted /\ NoDanglingType /\ TypesAreCanonical)` |
| HashTableProofs!Soundness | `Spec => []TableIsSound` |
| HashTableProofs!ExactIteration | `Spec => []IterationIsExact` |
| HashTableProofs!MovesEnd | `Spec => []MovesFindASlot` |
| HashTableProofs!Refinement | `Spec => ImplementsMap` |
| DxilBufferProofs!CallsAreReady | `Spec => []ReadyForCall` |
| DxilBufferProofs!StreamIsHeld | `Spec => []HoldsStream` |
| DxilBufferProofs!FailureIsClean | `Spec => FailureKeepsBlob` |
| DxilContainerProofs!SizesAreKept | `Spec /\ []SignaturesAreWhole => []PartsTile` |
| DxilContainerProofs!NoPartialContainer | `Spec /\ []SignaturesAreWhole => []NoPartialSuccess` |
| DxilModuleProofs!Building_ListsAreSound | `BuildSpec => []ListsAreSound` |
| DxilModuleProofs!Building_AnswersAreStable | `BuildSpec => []AnswersAreStable` |
| DxilModuleProofs!Building_AnswersAreTrue | `BuildSpec => []AnswersAreTrue`, if `OneZero` |

*Futex.*  No assumption on the set of threads.  The inductive invariant `IInv`
joins typing, exclusion, `WordTellsOwner` and `NoLostWakeup`: exclusion alone is
not inductive, since the fast path relies on the word being 0 only when nobody
owns the mutex.

*Plain mutex.*  No assumption on the numbers of threads and mutexes.  The
invariant follows the initialisation: whoever is at `mtx_init` is the one thread
for which `call_once` is running and finds its own argument in the thread-local
(`InitialiserIsAlone`); a set flag means an initialised mutex (`FlagMeansReady`,
for all machines); a thread that passed the flag also sees the initialisation
where loads keep their order, so that none is "broken" there.  Holders are
exactly the threads behind `mtx_lock` (`HoldersAreInside`), which gives
exclusion.  Without in-order loads only the single initialisation remains.

*Cache.*  Assumes that the set of threads is finite (it is counted) and that
the marks for a built-in element and a free address are no addresses or types.
`CacheInv` adds `OnlyUsersHold` to the properties: a thread that holds types
holds a reference, so a decref to zero can only happen when nobody holds any.
`StableTypes` follows from it step by step.

*Conversions.*  The cache's invariant, that the IR is all that points to types
(`OnlyTheIRHolds`: nothing is held before the parser or after the release of
the IR), and the part of the call in which each resource can be owned
(`OwnedInItsPlace`; the parts blob and the bitcode buffer do not exist while
system values are being allocated, which is why the early return there loses
less).  Each step is then a step of the cache or none of its business:
`Obedience` is a refinement, and with it everything proved of `CacheSpec` holds
of conversions (`ConversionsNeverDangle`).  `LossesAreBounded` is the positive
side of the finding `conversions_leak`: only the four resources of `MayBeLost`
are ever lost.

*Hash table.*  Assumptions: hashes are numbers, sizes are as above, and the marks
for free and deleted slots are no entries.  Three arguments carry the proof.
(1) Every slot is probed: two of the first `Size` probes for a key differ,
because a prime that divides a product divides a factor (`Euclid`, from the
least number principle) and the step is neither 0 nor a multiple of the size;
by counting, the probes cover the table (`EverySlotIsProbed`).  So a slot is
found whenever one is left.  (2) Between calls every entry is reached from its
key without crossing a free slot (`EntriesAreReached`), each key is in one slot,
and the counters are the numbers of entries and tombstones.  Overwriting a
tombstone, a free slot or the own entry keeps this (`StoreInNewSlot`,
`ChangeSlot`), since slots never become free again.  (3) While entries are
moved the new table holds exactly the entries of the old one below the cursor,
and no tombstone (`Moving`), so the counters that `RehashDone` copies are right.
`Iterating` says which entries the loop has met: those up to the cursor.
`SlackUnlessRefused` relates the counters to `max_entries` unless a resize was
refused; it is what the refinement needs at the two places where the promise of
`HashMap` is conditional: an insert without a slot and the clearing of a table
of tombstones can only follow a refusal.

*Buffer.*  Assumes that inputs satisfy the asserts of `dxil_buffer_emit_bits`
and that limits are numbers.  `BufferInv` says that at most 31 bits are pending
and none lies beyond them; the latter is what makes the next OR and the
alignment correct.  The lemmas follow a word through OR, padding and flush.
`FailureIsClean` adds that memory has not run out as long as no call failed.

*Container.*  Every size in a container is written before what it measures: the
size of a part is computed from the records, the names, the tables, and only
then are these written.  Assumes that sizes are numbers (`SizesAreNumbers`) and
that pipelines are sequences.  The hypothesis `[]SignaturesAreWhole` says that
the numbers in the signatures (lengths, counts, table sizes) are non-negative
integers.  In the code their types say so; here they are the result of the
interface passes, a chain of folds over sequences with choices in between, and
typing that chain is beyond the provers.  `SignaturesAreWhole` is therefore a
conjunct of `PsvResolves`, which the run `container` checks.  The inductive
invariant `IInv` (also in `DxilContainer`) has two layers.  A blob is laid out
(`IsLaid`): its chunks follow each other within its size, and it is out of memory
exactly when a write has failed.  The parts so far (`PartsAre`) are those that
`nir_to_dxil` adds before the current one (`PartsBefore`), and each holds, where
the directory says, its name and the number of bytes up to the next part.
Adding a part keeps this if the chunks written are as long as the size that
was announced; that is one lemma per part, on sums over sequences
(`SumExists`, by the least number principle): elements against
`ElementCount`, names with and without sharing, the validation part in each of
its versions, and the padded bitcode.  `Write` then copies the parts behind the
directory, which moves every chunk by the size of the header.  Memory may end in
each write; a write that fails leaves the function with an error, hence
`NoPartialSuccess`.

*Module.*  For any set of function descriptions, overloads, constants, resource
types and bindings, and any number of requests, globals, calls and metadata.
Assumes that descriptions consist of the letters `get_type_from_string` knows,
that overloads and resource components are numbers (`DescriptionsAreSpelled`),
and nothing of names and values, nor of which values are NaNs.  The inductive invariant `BuildInv` has three
parts, all in `DxilModule`.  (1) The module is sound (`IsSound`): every type,
constant, node, function and attribute set refers to entries listed before it
and to entries of the right sort: a function has a function type, a constant the
type of its kind, an aggregate constants as members; no list has an entry twice,
function types and NaN constants aside (`IsNaNConst`).
(2) Whatever was answered is still there (`Knows`): `HasType`, `HasStruct`,
`HasFloat` and so on follow an answer to the entries it refers to.  (3) A
declared function has the type, name and attributes that its description and
overload spell (`IsPrototype`).  `ListsAreSound` alone is not inductive: a type
that is not listed yet may only be appended if what it refers to is, which is a
fact about the answer of the call before.  A request is a chain of requests:
fields before the struct, the parameters before the function.  So one lemma for
each kind of entry says that a request keeps the module sound, that lists only
grow at the end (`Grows`), and that the answer is there; that answers stay while
a module grows makes the chain of such requests one as well (`RequestChain`).
For `AnswersAreStable` the same chains are shown to add nothing when all their
entries are there; for a float constant this takes the first place at which
`==` holds, since -0.0 may be found under 0.0 (`HasFirstFloat`), and for a NaN,
where `==` holds nowhere, that one constant is added, equal to the one that was
answered before (`HasNaN`).  For `AnswersAreTrue` the types an
answer refers to are unfolded to a tree (`TypeTree`, whose recursion along the
list is well founded as entries refer back: `ForestExists`, `ForestIsUnique`)
and the tree is compared with the one that the description spells.  Its
hypothesis `OneZero`, that no two floats asked for are equal under `==` with
different bits, is the negation of what the finding `signed_zero` needs.  These
theorems are about modules that are built; the given modules of the run
`module`, and the writer, remain with TLC.

Only model-checked: all liveness (fairness is outside the prover); signatures,
and what a reader resolves in a container, because much is about folds over
sequences whose typing starts at the interface passes; the module writer, whose
reader and some encodings are recursive operators (`NoPartialModule` needs
neither, but the module that states it extends the reader); and the allocators
with their refinement, where the children of a block are a recursion along the
links.

## 5. Not modelled

Most of the repository is Mesa code that this library carries along: generated
tables, headers of other interfaces, the GLSL compiler, drivers.  Of what takes
part in a conversion, the following is left out.

* What SPIR-V and NIR mean and what the passes and the `emit_` functions of
  `nir_to_dxil.c` do to instructions: statements about shaders, far beyond a
  model checker.  This includes the creators of the remaining instructions in
  `dxil_module.c` and the emission of resources.
* In signatures: interpolation modes, component types and usage masks, and the
  metadata made from them.
* Arrays of arrays and structs as variables between stages, for which
  `glsl_varying_count` makes the link passes look at several locations.
* In `dxil_module.c`: constants with a signalling NaN, and aggregates of floats.
* In `hash_table.c`: the wrap of `hash_address + double_hash` at 2^32, which the
  last size of the table, with more than 2^31 slots, would need.
* In `ralloc.c`: destructors, strings and the linear allocator.  `set.c` is the
  algorithm of `hash_table.c` without data; the table for 64-bit keys wraps it.
* `dxil_nir_tess.c:368` reads `var->data.location` after `ralloc_free(var)`:
  undefined, yet with the allocators in use the value read is the old one until
  the block is reused; the model gives it the old value.
* The statics `debug_dxil` and `shader_id` are written without a lock, but only
  affect debug output.
* Dumping, the options and files of the command line tool, the validator DLL,
  clc and dozen: I/O or other products.

## 6. Plan

Done: the mutexes, the cache, the conversions, hash table, allocators, buffer,
module builder and writer, signatures and linking, container; the proofs of
section 4, which cover the mutexes, the cache, the conversions, the hash table,
the buffer and the module builder completely but for liveness, and the layout of
the container.  Next, in this order:

1. Proofs: the signatures as non-negative integers, by typing the interface
   passes, which turns the hypothesis `SignaturesAreWhole` into a theorem; then
   `SlabsAddUp` of the allocator outside of sweeps, and `NoPartialModule`, with
   the reader kept out of the module that states it.
2. Usage masks and interpolation in the signatures, with the metadata nodes
   `nir_to_dxil` builds for them.
3. Resource emission: the order and the ids of SRVs, UAVs, constant buffers and
   samplers, which the container and the metadata both list.
