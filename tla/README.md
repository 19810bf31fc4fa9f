# Ikarus Scheme: a TLA+ verification project

Ikarus is an optimizing compiler and runtime system for R6RS Scheme: a C
runtime (`src/src`, about 9 000 lines) with a generational copying collector,
and a Scheme system (`src/scheme`, about 37 000 lines) with an expander, a native
compiler, a numeric tower, ports, hash tables, continuations and libraries.
Everything a Scheme program does rests on the collector and the invariants it
shares with the compiled code, so that is where this project starts; the other
modules model what is built on it.

## 1. The system

| Component | State | Operations | Talks to |
|---|---|---|---|
| Copying collector (`ikarus-collect.c`) | `collection_id`, `gc_t` (collect_gen, queues, forward_list), segment and dirty vectors, protected lists | `ik_collect`, `add_object`, `collect_loop`, `handle_guardians`, `scan_dirty_pages`, `fix_weak_pointers`, `deallocate_unused_pages`, `fix_new_pages`, `gc_finalize_guardians`, `gc_add_tconcs` | called by compiled code when the heap is exhausted; reads the stack; writes tconcs that Scheme code reads |
| Segment table and page cache (`ikarus-runtime.c`) | segment vector, dirty vector, cached and uncached page lists | `ik_mmap_typed`, `ik_munmap_from_segment`, `extend_table_maybe` | collector, allocation, weak pairs |
| Compiled code's write barrier (`pass-specify-rep-primops.ss`) | dirty vector | `mem-assign`, `smart-dirty-vector-set` | collector |
| Weak pairs (`ikarus-weak-pairs.c`) | `weak_pairs_ap/ep`, pages of their own type | `weak-cons`, `weak-pair?` | collector, symbol table |
| Guardians (`ikarus.guardians.ss`) | a tconc per guardian, protected list 0 | `make-guardian`, `(g obj)`, `(g)` | collector, symbol table, ports |
| Continuations (`ikarus.control.ss`, `ikarus-exec.c`, `ikarus-enter.S`) | `next_k`, frame pointer, frame base, winders | `call/cf`, `call/cc`, `dynamic-wind`, underflow, `ik_stack_overflow` | collector (frames and masks), FFI, event loop |
| Foreign calls and callbacks (`ikarus-ffi.c`) | sealed stack, callback locatives | call out, call back | continuations, collector |
| Post-collection hooks (`ikarus.collect.ss`) | `post-gc-hooks`, `collect-key` | `do-overflow`, `do-post-gc` | collector |
| Hash tables (`ikarus.hash-tables.ss`) | vector of tcbuckets, tconc | lookup with rehash, insert, delete, enlarge | collector (keys are addresses) |
| Symbol table (`ikarus.symbol-table.ss`) | weak buckets, guardian | intern, unintern | weak pairs, guardians |
| Ports, sockets, event loop (`ikarus.io.ss`, `ikarus-io.c`) | buffers, index, size, cookie position; pending, in and out queues | get, put, flush, refill, seek, close; select | continuations, guardians |
| Library manager (`psyntax.library-manager.ss`) | installed libraries, visit and invoke states, pending stack | find, install, visit, invoke, uninstall | expander, fasl |
| Expander, compiler, assembler | - | pure passes | library manager |
| Fasl, numerics, strings, lists, sort, equal, unicode | - | sequential functions | - |

`PROJECT.json` lists every component with its files and why it is or is not
modelled, and under `hazards` every place where this code is hard to test, with
the properties that watch it.

**What is hard.** The runtime is single threaded, but its mutator and collector
are two actors that share the heap, the dirty vector, the tconcs and the
protected lists, and a collection can start at any allocation. Each collection
takes only some generations, so a mistake in one leaves a heap that looks right
until a later collection of another generation. The dirty vector is recomputed
by the very scan that moves objects; the new bit makes a page look older than
all generations to some tests and not to others; the generation in which
weak pairs, their referents, guardians, guarded objects and registrations live
are all independent. That is what the model of the collector enumerates and the
proofs cover.

Around it, steps of different actors come in orders that nobody writes a test
for: a collection moves the keys of a hash table, or empties the symbol table's
guardian, between two steps of a lookup; a continuation or an error leaves a
foreign call, a `dynamic-wind`, a hook, a library half invoked or a flush half
done, and is then used again; a reader blocks, and a callback uses the same port.
And each level does its own arithmetic at the edges of words, cards, pages and
buffers: fixnums turn into bignums, tables move when they grow, stack areas fill,
a dirty word is put together by shifts.


What makes the components correct:

- collector: no dangling pointers, complete remembered set, one copy of each
  object, weak cars broken only for dead referents, guardians deliver once and
  only what is unreachable, everything unreachable is reclaimed; a page of code
  that is passed by refers to nothing that is freed;
- memory: every page has one use, the tables say which, wherever they are moved;
- hash tables: a lookup finds a key after it moved; count matches the buckets;
- symbols: reading a name gives the symbol that has it, as long as anybody could
  tell another from it;
- continuations: the frames seen by underflow are those captured; C functions
  return in order; winders run once each in order;
- foreign calls: an integer is the same number on both sides;
- numbers: results are those of the integers, in the one representation;
- hooks: they see every collection, and the room asked for is there afterwards;
- fasl: what is read has the sharing and the cycles of what was written;
- ports: bytes are written once and in order; characters are whole wherever reads
  cut them; the event loop forgets no operation that waits;
- libraries: invoked once, after what they refer to, whatever fails and is tried again.

## 2. The modules

| Module | What it is |
|---|---|
| `Collector` | the collector and the program's operations that bear on it; properties |
| `Heap` | the abstract specification: what the collector promises to a program |
| `CollectorHeap` | the refinement mapping from `Collector` to `Heap`; reclamation |
| `CollectorInvariant` | the inductive invariant `IInv` |
| `CollectorProofs` | proof: every step of `ik_collect` and of the program keeps `IInv`; the safety theorems; `Collector` implements `Heap`, of programs without guardians |
| `Reachability` | what can be reached in a graph, as a recursive function; `Heap` and `CollectorHeap` use it |
| `Code` | pages of code and their dirty words |
| `Pages` | mapping, the page cache, the segment and dirty tables, nurseries |
| `HashTable` | eq-hashtables and the collector's tcbuckets |
| `Symbols` | the C and the Scheme symbol table, and the table of gensyms |
| `Hooks` | `do-overflow`, the hooks after a collection, `collect-key` |
| `Control` | the abstract specification: frames that wait are a list |
| `Stack` | frames, continuations, overflow, underflow, foreign calls and callbacks; refines `Control` |
| `StackProofs` | proof: `WithinArea`, `FramesMatch`, `CStackMatches`; `Stack` implements `Control` |
| `Winders` | `dynamic-wind` |
| `Lists` | loops over lists and vectors of lists, as recursive functions |
| `SequenceFacts` | lemmas on sequences, and on functions defined by recursion |
| `Numbers` | the representation of exact integers |
| `Bignum` | operations on exact integers |
| `Foreign` | integers on their way to C memory, calls and pointers, and back |
| `Fasl` | the fasl writer and both readers |
| `Ports` | the two ports of a socket and the event loop |
| `PortsProofs` | proof: `BytesInOrder`, `NoneForgotten` |
| `PagesProofs` | proof: `PagesAccounted`, `TablesKept` |
| `TablesProofs` | proof: `ChainsWhole`, `SymbolsKept`, `KeysFound`, `CountedOnce` |
| `Libraries` | finding, installing, invoking and visiting libraries |
| `RuntimeProofs` | proof: `CodeFollowed`, `RoomKept`, `InvokedInOrder`; `WindersFollow`, `InOutAlternate`, `SharedExtentsStay` |
| `NumbersProofs` | proof: `ArithmeticExact`, `DivisionExact`; `LoadedExact`, `RecordLaidOut`, `StoredModulo` |
| `MCCollector`, `MCControl`, `MCNumbers`, `MCRuntime` and their `.cfg` files | instances for TLC |

`Stack` is composed with `Control` by refinement, `Collector` with `Heap`;
`Bignum` and `Foreign` share `Numbers`. The other modules meet the collector in
an action of their own: `CollectSymbol`, `CollectTable`, `Collect` of `Stack` and
of `Hooks`, `MoveCode` and `ScanCode`, and the scan of dirty pages and the end of a collection in `Pages` each
say what a collection does to the state of that module, at every point where the
code can collect. `Collector` shows that the collector does what these actions
take for granted of it: what is reached is kept, whole and once, and guardians
deliver what is not.

`MCControl`, `MCNumbers` and `MCRuntime` each put several modules that share no
state into one instance, with a variable `unit` that never changes: a behaviour is
a behaviour of one of them.

### Collector: state

`type`, `gen`, `new` are the fields of a segment-vector word; `dirty` the nibbles
of a dirty word, as sets of generations (the code's bit `8 >> g` stands for
`g`). `object` says which object is at an address, `ref` what is stored in each
location (object field, root, protected-list slot). An evacuated object keeps
its identity at the old address, with `Forward` in its first field and the new
address in its second, as in the code. `queue` is the union of `gc->queues` and
the unscanned parts of the open allocation areas; `protected`, `pend_hold`,
`pend_final` and `forward_list` are the lists of the same names. `phase` is where
`ik_collect` is; `scan`, `page` and `todo` are the loop variables of
`scan_dirty_pages` and of the loops over roots and lists.

### Collector: actions

| Actions | Code |
|---|---|
| `Allocate`, `SetField`, `Load`, `Drop` | `cons`, `weak-cons`, `make-vector`, `set-car!` and the like with their barrier, `car` and the like, a variable going out of scope |
| `MakeCell`, `MakeTconc`, `Register`, `Dequeue` | `ikarus.guardians.ss` and `ikrt_register_guardian_pair`; between the two conses of `make-guardian` only a collection may come |
| `StartCollection` | entry of `ik_collect`: choice of the generation |
| `VisitPage`, `VisitLocation`, `FinishPage`, `EndScan` | `scan_dirty_pages`, `scan_dirty_pointers_page` |
| `VisitLocation`, `EndRoots` | the roots in `ik_collect` |
| `CollectLoop` | one `add_object` of `collect_loop` |
| `SortGuardians`, `FinalGuardians`, `FinalListTraced`, `HoldGuardians` | the three loops of `handle_guardians` |
| `FixWeakPointers`, `DeallocateUnusedPages`, `FixNewPages` | the functions of the same names |
| `FinalizeGuardian`, `ResetHeap` | `gc_finalize_guardians`; heap reset and unmapping of the old heap |

`add_object` is one step because it calls nothing that could observe its middle;
`AddObject` has its four outcomes: keep, follow a forwarding pointer, retag a
large vector, copy.

### Collector: abstractions

- Objects have two pointer fields; one field stands for any number. Data,
  strings, closures, records and symbols differ in size and in which words
  are pointers; the pairs, weak pairs and large vectors of the model are the
  three ways an object is moved (copied and scanned, copied and half scanned,
  retagged).
- `add_list` copies the whole spine of a list before it returns; the model
  queues the cdr of the copy instead. The order in which `collect_loop` takes
  the queued fields is fixed (`CHOOSE`); no property depends on it.
- Allocation picks one free slot (`CHOOSE`) of an open page or a hole; page
  tails filled with zeros are `Nil`.
- The program's kept heap segment is unmapped and mapped again in the model:
  the code reuses `heap_base`. Its dirty words survive in the code, but pages of
  type `mainheap` are never scanned, so they are not read.
- The loop that holds registrations evaluates `is_live` pair by pair in the
  code. Its only copies are of registered pairs whose object is already live,
  so nothing it asks about becomes live in between; the model evaluates it once.
- The program gets at the cells of a guardian only through the guardian;
  `car` and `cdr` never read them.
- The mask of a collected generation (3, 15, 63, 255 in the code) is the
  constant `Mask`; runs use the same pattern with period 2 instead of 4
  (1, 3, ...) so that a collection of the oldest generation is within reach.
- `FinishPage` models the read past the end of `cleanup_mask` (see Findings) as an
  arbitrary mask. The proofs hold for any outcome of it.

*Bounds.* `MaxObjects` caps the objects allocated when the program allocates, `Used`
the fields it writes, `Object` the objects of each kind (`PairObjects` and the like in
`MCCollector`; `MakeCell` needs an identity for the guardian), `Root` and
`Entry` are the program's variables and registrations. The counter `collection_id` is kept modulo the
period of the masks.


### Code

*State.* The one page the code objects share: its generation and dirty word, and of
each object the card it starts in, the generation of its reloc vector, of its
annotation and of an object the vector names. Segment words are kept nibble by
nibble, because `scan_dirty_code_page` shifts whole segment words where it means
their dirty nibble.

| Actions | Code |
|---|---|
| `SetReloc`, `Annotate` | `ikrt_set_code_reloc_vector`, `ikrt_set_code_annotation` |
| `MoveCode` | `add_code_entry` and `relocate_new_code`: the page is collected |
| `ScanCode`, `PassCode` | the page is older: `scan_dirty_code_page`, or `scan_dirty_pages` passes it by |

Which generation is collected is left open, where `Collector` has the counter
that decides it. *Bounds:* two code objects, or one larger than a page, and the cards
6 and 7 to start in. What lies on a page before the first only adds bits; cards
{0, 3, 5, 7} were checked once with the same result.

### Pages

*State.* `m` is the pcb: the segment and dirty tables (one entry for each page), where
they are, the page cache, the nursery and those it filled, the stack, the pages of
the protected lists, and what the operating system handed out. `gc` is what a
collection keeps of it while it runs: `segment_vector`, which `ik_mmap_typed` and its kin in the collector
read again after every mapping, and, while dirty pages are scanned, the locals `segment_vec` and `dirty_vec`:
the scan of a page reads the first again after each object it adds and the second before it stores the bits, the
loop over the pages both after each page.

| Actions | Code |
|---|---|
| `Alloc`, `NewNursery`, `MapObjects` | `ik_safe_alloc`, `ik_unsafe_alloc`, `ik_mmap_typed` with `extend_table_maybe` and the page cache |
| `MapProtected`, `StackOverflow`, `Write` | `ik_register_guardian`'s page, `ik_stack_overflow`'s stack, the write barrier |
| `CollectBegin`, `GcMap`, `GcRetag`, `GcProtected`, `CollectEnd` | what `ik_collect` does to pages: mapping for survivors, retagging, the pages of lists, `deallocate_unused_pages`, `fix_new_pages`, the old nurseries, a new one if it is too small |
| `ScanPage`, `PageScanned`, `ScanEnd` | `scan_dirty_pages` with the scans of one page: the dirty word is found at the local address of the table, computed while objects are added and tables may move, and stored |
| `Delete`, `OutOfMemory` | `ikrt_exit` with `ik_delete_pcb`; a failing mmap ends the process |

Sizes are in pages, generations two (pages stay or go), mmap takes the first room from
below, or from above. *Bounds:* four segments of 6 pages, tables that grow on both
sides, a cache of 2 pages, requests of 1 and 3 pages, 5 operations besides the ends of collections, at most 4 pages of
objects: enough for the tables to move during a collection, also in the middle of the scan of a page, for the cache to be full and
empty, and for the nursery to be replaced.

### HashTable

*State.* `vector`, `count` and `tconc` are the fields of the table, `buckets` its tcbuckets
with their generation and whether the collector still tracks them, `address` where
each key is, `doing` the operation that a collection has interrupted, `stored` what the table is to hold.

| Actions | Code |
|---|---|
| `RefKey`, `PutKey`, `FinishPut`, `EnlargeTable` | `get-bucket` with `direct-lookup` and `rehash-lookup`; `put-hash!` up to and after its allocation; `enlarge-table` |
| `DeleteKey`, `ClearTable` | `del-hash`, `clear-hash!` |
| `CollectTable` | the tcbuckets of `add_object` and `gc_add_tconcs` |

A collection may give keys any addresses and deliver the buckets in any
order. *Bounds:* 3 keys, vectors of 1 and 2 lists, generations 0 and 1: every key can be
in every list, moved or not, with its bucket on the tconc or not.

### Symbols

*State.* `ctable` is the C table of the boot files, `chains` the Scheme table's lists of weak
references, `guarded` and `queue` its guardian. `seeking` is the symbol an interrupted
`string->symbol` is about to return. Of the program only what it holds strongly
(`held`), weakly, or through a value matters. `gtable` and `ustring` are the gensyms'.

| Actions | Code |
|---|---|
| `CIntern`, `Handover` | `ikrt_string_to_symbol` with the C table; `initialize-symbol-table!` |
| `Lookup`, `Bleed`, `Return` | `string->symbol`: `lookup` and `intern` with growth, `bleed-guardian` with `dead?` and `unintern`, its end |
| `SetValue`, `Drop`, `KeepWeakly`, `TakeWeak` | the program |
| `CollectSymbol` | what a collection does to one symbol (broken, queued, kept) |
| `MakeGensym`, `NameGensym`, `InternGensym`, `UninternGensym` | `gensym`, its unique string, `ikrt_strings_to_gensym`, `ikrt_unintern_gensym` |

*Bounds:* 3 names, of which two share a list before the table grows, 3 symbols, 3 gensyms.

### Hooks

*State.* `room` from the allocation pointer to the redline, `collectKey`, and the stack of
calls of `do-overflow`, each with what it was called for and where it is.

| Actions | Code |
|---|---|
| `Allocate`, `CollectNow`, `SetHooks`, `Escape` | the program and the hooks: an allocation check, `(collect)`, `post-gc-hooks`, an error or continuation |
| `Collect`, `ReturnNow` | `do-overflow`, without hooks |
| `MakeKey`, `StartHooks`, `HooksReturn`, `RunAgain`, `CheckRoom` | `do-post-gc`, `collect-key`, `ik_collect_check` |

*Bounds:* room for 6 words, sizes on both sides of the size that is not tested and
beyond the heap, 4 collections: a hook's collection, and one within its key.

### Control and Stack

`Control` is what a program relies on: the frames that wait are a list, a continuation
is a list. `Stack` is how the code does it, word by word: `blocks` are the stack areas and
the frames copied to the heap, `frame_base` and `frame_pointer` those of the pcb,
`conts` the continuation objects, `next_k` their chain, `cstack` the activations of C
functions, `system_stack` where the C stack goes back to.

| Actions | Code |
|---|---|
| `Call`, `Return`, `Resume` | code of the compiler at a call, a return and a return point |
| `Capture`, `Throw` | `$seal-frame-and-call`, `$current-frame`; the code of a continuation |
| `StackOverflow` | `ik_stack_overflow` |
| `Finish`, `UnderflowToC`, `Underflow` | the turns of the loop of `ik_exec_code` |
| `ForeignCall`, `CallBack`, `Enter`, `ForeignResult`, `ForeignReturn` | `ikrt_ffi_call` with `ikrt_seal_scheme_stack`, `generic_callback`, conversions, and returns |
| `Collect` | `collect_stack` on the stack and on every continuation |

What is below `frame_pointer` is cleared, and continuations nobody refers to are
dropped at once: neither is read. Live masks are left out: every word of a frame
is kept. `dead` is the exit of `collect_stack` ("frames did not match up"). A
continuation invoked across a foreign call ends the behaviour (`across`): the code
goes on with a C stack that is not the continuation's, and nothing is promised.

*Bounds:* areas of 11 words with a redline at 9, two of them, frames of 1 word and of 3 (one
that says its own size), 4 frames at once, 8 continuation objects. `MCControl` runs
`Stack` twice: with one kept continuation, two frames and one foreign call at a time, and
without kept continuations but with callbacks nested to depth 2.

### Winders

*State.* `winders` is the variable of that name, `frames` the library's frames that wait,
`kept` the continuations of the program, `entered` counts thunks.

| Actions | Code |
|---|---|
| `DynamicWind`, `InReturns`, `BodyReturns`, `OutReturns` | `dynamic-wind` |
| `KeepPlace`, `GoToPlace` | `call/cc` and the continuation's procedure |
| `UnwindReturns`, `RewindReturns` | `do-wind`: `common-tail`, `unwind*`, `rewind*` |

Lists are compared with `eq?`; a pair is its name. Thunks are any code: they enter
extents, capture and throw. *Bounds:* 2 extents, one kept continuation, 3 frames, 2
throws under way.

### Numbers and Bignum

*State.* Two operands and the last result; one action for each operation: sums, products,
division, `modulo`, bitwise operations and shifts, comparison, square root, length,
digits and the nearest flonum. `Continue` goes on with a result. An integer is a
tagged word or a sign and limbs. What the code takes from GMP (`Mpn...`) is
external and given by the naturals it computes; what the code does to limbs itself,
it does limb by limb. A limb the code does not write holds anything.

*Bounds:* words of 4 bits, 1 of which is the tag; operands up to 3 limbs, up to 2 where there are two
operands, with limbs that are 0, 1, all ones and those around the sign bit; shifts up to 9.
The cases of this code are carries, signs, zero limbs and the ends of the
fixnums, and none depends on more bits.

### Foreign

*State.* An integer, a pointer, and the memory at it as one number, little end first, in
`build`s with C types of several sizes. `PointerSet`, `PointerRef`, `SetPointer`,
`RefPointer`, `IntegerToPointer` and `PointerToInteger` are `ikarus-pointers.c`; `CallReturns` and
`PassRecord` the conversions of `ikarus-ffi.c`. *Bounds:* a build whose
`long long` is a word (64 bits) and one where it is two; 3 fields, 3 operations.

### Fasl

*State.* `graph` is what is written, `tokens` the file, `loaded` the reader's heap with its
table of marks and its page of code, `results` what was read. `FaslWriteFile` is the writer
(reference counts, then one pass with marks, lists of pairs together),
`FaslRead` one call of either reader: the C code for boot files, the Scheme library for
others. Tokens stand for bytes, strings for numbers and other data without
references, and there is one immediate value. *Bounds:* 7 shapes of graphs, with all
their edges, that between them have every kind; two readings; a table of
3 marks in C.

### Ports

*State.* The buffers of the two ports of a socket, `sink` and `sent` for the other end, `act` what each
thread (the program or a callback) is doing, `pending`, `outQueue` and `inQueue` of the event
loop. A byte is its position, so an order is seen.

| Actions | Code |
|---|---|
| `PutBytes`, `PutStep`, `Flush`, `FlushStep`, `WriteOut`, `WriteFails` | `put-u8`, `put-bytevector`, `flush-output-port`; a write takes some bytes, blocks or fails |
| `GetChar`, `GetStep`, `Refill`, `ReadIn`, `ReadFails` | `get-char` in UTF-8, `refill-bv-buffer`; a read gives some bytes, blocks or fails |
| `CloseOut`, `CloseIn`, `CloseSocket`, `ResetOut`, `ResetIn`, `Unregister` | closing, `reset-output-port!`, `unregister-callback` and what they take from the event loop |
| `Register`, `CallbackReturns`, `Dispatch`, `Select`, `NextBatch` | `register-callback`, `process-events`, `do-select` |

*Bounds:* buffers of 3 and 4 bytes, characters of 1, 3, 2 and 2 bytes of which the text
ends within the last, one callback, 4 operations (5 were checked once, with the same result).

### Libraries

*State.* `collection` is the installed libraries, `invokeState` and `visitState` the
procedure in a library's field, `stack` the calls under way, `starts` and `finished` what
became of each library's code. `File` says what the expander collects from each file, as four lists: the
libraries its import forms name (`imp*`), those its transformers refer to (`vis*`), those its body refers to
(`inv*`), and those its `stale-when` forms refer to (`guard-req*`). They differ: a library may be imported and not referred to, and then it is
never invoked; one that another exports again, or that a macro brings in, may be referred to and not
imported. What can be referred to is in reach of the import forms (`InReach`).

| Actions | Code |
|---|---|
| `FindImport`, `Stale`, `Install` | `find-external-library`, `try-load-from-file`, the expansion of a file (`library-expander`), `install-library` |
| `InvokeRequired`, `InvokeCode`, `VisitCode`, `CodeReturns` | `invoke-library` over `inv*`, `visit-library` over `vis*` |
| `VisitForMacro`, `InvokeReferred` | while something is expanded: `chi-global-macro`, `expand-transformer`; before a compiled file is used, its `guard-req*`; before an expression is evaluated, its `invoke-req*` |
| `Import`, `FindImported`, `Expanded`, `Evaluated` | a program, or library code that calls `environment` or `eval`: what it imports is found and what it refers to is invoked, which may be nothing |
| `LibraryFails` | an error, which unwinds to code that may handle it |

Import forms inside a body are taken together with those of the file, before it is expanded. A program
imports one library at a time. Whether a compiled file is stale or made with other versions of what it needs is a choice.
Versions in import forms and uninstalling are left out.

*Bounds:* five libraries, two of which import each other, one that refers to a library only another one imports; 4 imports.

## 3. What the runs check

| Run | Instance | Properties |
|---|---|---|
| `weak` | 1 pair, 1 weak pair, 2 variables, 3 generations | `IInv`, `OneCopy`, `WeakPairsApart`, `ImplementsHeap` |
| `cards` | 2 pairs on 2 cards of a page, 1 large vector, 2 variables, 3 generations | `NoDangling`, `RememberedSet` |
| `large` | 1 pair, 1 large vector, 3 generations, fair | `ImplementsHeap`, `CollectionEnds`, `Reclaimed` |
| `guardians` | 1 guardian, 1 guarded pair, 2 variables, 1 registration at a time, 3 generations | `ProtectedGeneration`, `ImplementsHeap` |
| `two_guardians` | 2 guardians, 2 registrations, 2 variables, 1 generation | `ImplementsHeap` |
| `guarded_weak` | 1 guardian, 1 weak pair, 2 variables, 1 generation | `ImplementsHeap` |
| `scan` | 1 pair, 1 large vector | `ScannedPagesNotCollected`, **violated** |
| `control` | `Stack` twice, `Winders` | `WithinArea`, `FramesMatch`, `CStackMatches`, `ImplementsControl`; `WindersFollow`, `InOutAlternate`, `SharedExtentsStay` |
| `numbers` | `Bignum`, `Foreign` | `ArithmeticExact`, `DivisionExact`, `AllVerified`, `BitsExact`, `ConversionExact`; `StoredModulo`, `LoadedExact`, `RecordLaidOut` |
| `numbers_carry` | the same | `SumVerified`, **violated** |
| `runtime` | `Code`, `Pages`, `Symbols` twice, `HashTable`, `Fasl`, `Ports`, `Libraries`, `Hooks` | `CodeFollowed`; `PagesAccounted`, `TablesKept`; `ChainsWhole`, `SymbolsKept`; `KeysFound`, `CountedOnce`; `FaslReadBack`; `BytesInOrder`, `NoneForgotten`; `InvokedInOrder`; `RoomKept` |
| `code_cards` | `Code` | `VerifyCode`, **violated** |

The collector:

- `NoDangling`: after any sequence of collections of any generations, what the
  program or a later collection can follow leads to an object that was not left
  behind. `RememberedSet` is the reason; it relates every card to what its fields
  point to.
- `ImplementsHeap` is the whole promise: the program cannot tell the collector
  from `Heap`, in which reachable objects never change, weak cars are broken
  only when their referent is not strongly reachable (not counting what a
  guardian is about to deliver), and a registration is condemned only when its
  object is out of reach, then delivered once at the end of its guardian's
  queue.
- `Reclaimed` says the converse: no object is garbage for ever. An object may be
  kept by a dead older one; the schedule of `collection_id_to_gen` reaches that
  generation too.
- `CodeFollowed`: code that a collection passes by refers to nothing it frees, with two
  exceptions (see below). `PagesAccounted` and `TablesKept`: every page has one use, and the
  tables say which, wherever a collection has moved them; the addresses a collection and its
  scans keep of the tables are those the tables have.

What rests on it:

- `KeysFound`, `CountedOnce`, `ChainsWhole`, `SymbolsKept`: lookups give what they
  would if nothing ever moved or was dropped, at every point where a collection can
  come. A table that holds a moved key under its old address, or a symbol freed and made
  anew while somebody holds the old one, would break them.
- `ImplementsControl`: captured, split, copied, moved and collected frames are those
  of a plain list, and values arrive whole; `CStackMatches`: C functions return in the order they
  were called, to code that is there. `WithinArea` and `FramesMatch` are what the
  code relies on on the way, `FramesMatch` except while a foreign call or callback converts values
  (see below).
- `WindersFollow`, `InOutAlternate`, `SharedExtentsStay`: the list of extents is
  that of the frames, an `out` runs once after each `in`, and a throw neither
  leaves nor enters what both places share, also if thunks throw.
- `BytesInOrder`: bytes pass once and in order, characters come whole, after short
  transfers, errors and blocked calls, except on a port that an error of `read!` or a second
  writer has left `mixed`; `NoneForgotten`: every blocked operation is in the
  event loop exactly once.
- `InvokedInOrder`: whatever fails and is tried again, code starts once and after the code of
  what it refers to, a library is visited after what its transformers refer to, and what an installed library names is installed.
- `RoomKept`: what `do-overflow` was called for fits afterwards, and the hooks saw
  the last collection, unless the pointer was behind the redline (`misled`).
- `FaslReadBack`: both readers give back the graph that was written, with its sharing, its
  cycles and the words of its code.
- The properties of numbers compare every operation with the integers it stands for.

*Why the collector's bounds suffice.* The interesting cases are pairs of objects in
different generations at a collection of a third: three generations give an
oldest one (from which nothing is promoted), a youngest and one between. Two
objects and references between them reach every combination, and two variables
are what it takes to store a young object into an old one. The third object of
`cards` gives an old page two cards, one with a pointer to a younger object and
one without. A guardian needs its tconc, the end of its queue, the registered
pair and the object, each with its own generation; `guardians` has all four.
Registrations that depend on each other need two guardians; the order of the
phases does not depend on generations, so `two_guardians` has one generation.
The bounds of the other modules are given above with each.

*Symmetry.* Objects of one kind are interchangeable: `Fresh` takes any unused
identity, and an object's identity has no influence on where it is placed or
when it is moved. The runs `cards`, `guardians`, `two_guardians` and `guarded_weak`
use that symmetry. Addresses, pages, variables and registrations are not
treated as symmetric, because allocation and traversal order them.

*Not reached by these instances*: a collection of an intermediate generation
with two guardians in different generations; three or more turns of the
fixpoint.

*Fairness.* `Spec` of `Collector` has weak fairness of the collector's steps only: `ik_collect`
is a function that runs to its end without giving up control, so once started
its next step is always taken. Nothing is assumed of the program. `large` adds
weak fairness of `StartCollection` (`FairSpec`): a program that goes on allocating
exhausts its heap again and again, and garbage in one that stops allocating is
not reclaimed by anyone. The other specifications state no fairness and their
properties are safety properties: whether the peer of a socket ever sends, or
a hook ever returns, is not for the code to decide.

*Deadlock* is checked in every run but `runtime` and `code_cards`, whose page
operations and readings of a file come to an end. In `Collector`, `FinalizeGuardian` is
disabled if one of the three words it follows is not a pair, and `CopyObject` if no
page is free, so the absence of deadlock also says neither happens.

### Findings

`scan`: the comment at `ikarus-collect.c:424` names as roots the "dirty pages not
collected in this run". `scan_dirty_pages` decides with `t & gen_mask > collect_gen`, and
`gen_mask` includes the new bit. When scanning one page reaches a large vector
of a collected generation, its page is retagged in place with the new bit; if
that page lies further on and has a dirty word, the same scan visits it. The
visit itself is harmless (its fields are queued anyway), but
`cleanup_mask[t & gen_mask]` at line 1694 is then read with an index of 9 or more
in a table of 5. Whatever is read, the remembered set stays complete: all that
the vector points to is promoted to its own generation or is older (the runs
and the proofs let the word read be anything).

`numbers_carry`: `ikrt_bnbnplus` and `ikrt_bnbnminus` store the carry of a sum of magnitudes
after the limbs of the first operand, also when the second is the longer. A limb
of the sum is overwritten, and the last one is never written.

`code_cards`: `scan_dirty_code_page` shifts whole segment words by the card, so the dirty
nibble lands one card too far, and is lost for code that starts in the last card. What
remains, the nibble of the generation, keeps the word from being 0 in most cases, not
in all: then the word is 0 although the page refers to a younger reloc vector, which
the heap verifier asserts cannot be. `CodeFollowed` holds with such code excepted.

### Seen by reading

These came up while modelling. They are excepted by name in a property, end a
behaviour of the model, or are outside it; no run of their own shows them.

- Numbers: the greatest fixnum comes back from `bitwise-and` as a bignum
  (`numerics.c:1328`, `GreatestFixnumBig`). `modulo` of a multiple of a divisor of the
  other sign gives the divisor instead of 0 if one is a bignum
  (`numerics.c:1807`, `ikarus.numerics.ss:1757`, `:1782`; `MultipleOfOther`). A negative bignum
  shifted right by whole limbs loses a limb where the floor carries
  (`numerics.c:1522`, `LimbLost`). The least fixnum divided by its negation
  leaves a remainder (`LeastByItsNegation`).
- `numerics.c:2089-2123`: `ikrt_exact_bignum_sqrt` takes the root of its operand for the
  remainder before the third allocation, and reads the operand after it.
- Foreign integers: only where a `long long` is two words, a negative bignum of one limb
  overflows (`NegatedLong`), and a magnitude of one limb that is no `long` gets a second
  limb of 0 (`LeadingZero`). Records passed by value are laid out without padding (`ffi.c:109`).
- Foreign calls: a collection while a callback's arguments are converted, or a result
  after a callback, ends the process with "frames did not match up" (`ffi.c:420`,
  `:362`, `collect.c:433`). A continuation invoked across a foreign call
  does not unwind it.
- Code: the annotation has no part in the dirty word (`collect.c:1721`), so a young
  one may be freed.
- `ik_collect_check` compares a signed with an unsigned number (`collect.c:379`): a
  pointer behind the redline counts as room for anything, so the hooks are not run again for
  the room they took (`misled` in `Hooks`). Collections that C starts (`ik_safe_alloc`) run no hooks.
- A symbol that the guardian has let go of, and that the program takes from a weak pair of its
  own, is dropped from the table all the same (`symbol-table.ss:84`, `recovered`).
- Fasl: the C reader takes half the limbs of a bignum where words have 64 bits, knows
  fewer kinds than the writer writes, and gives up above 8192 marks, for which the
  writer has no limit.
- Ports: `refill-bv-buffer` shifts the buffer and advances the position before `read!`, which
  may raise an error (`io.ss:861`). A second writer on a port whose flush is
  blocked makes it write bytes twice or lose some (`mixed`). `reset` and `unregister-callback`
  remove a blocked continuation too (`removed`). An error of `select` is raised
  in whatever operation had entered the event loop.
- Libraries: if a library that another refers to fails once while it is being invoked, the
  other reports "circularity detected" for ever (`library-manager.ss:371`).

## 4. What is proved

For every value of the constants that satisfies `ConstantsAssumption` (which
holds of any page table, placement and set of objects; it does not bound them):

| Theorem | Property |
|---|---|
| `TypeCorrect` | `TypeOK` (part of `IInv`) |
| `InductiveInvariant` | `IInv` |
| `PointersValid` | `NoDangling` |
| `RememberedSetComplete` | `RememberedSet` |
| `ObjectsNotSplit` | `OneCopy` |
| `WeakPairsKept` | `WeakPairsApart` |
| `EntriesOnTheirList` | `ProtectedGeneration` |
| `CollectorImplementsHeap` | `ImplementsHeap`: `Collector` refines `Heap`, if no object is a guardian |

The properties speak of the heap between collections and are not inductive.
`IInv` says what holds inside one. The pages divide into those being evacuated
(*left*), those being filled (*new*) and the older ones kept. Its heart is
`StaleInv`: a location outside the left pages that still leads into them is
`Pending`, that is, some later phase is bound to visit it - it is queued, on a
dirty card not yet scanned, a root not yet visited, the car of a weak pair that
`fix_weak_pointers` will fix, or an entry not yet sorted. `StartCollection`
establishes it from `RememberedSet`; each phase keeps it because what it visits
stops being stale (`ForwardInv`: forwarding pointers lead to new pages) and what it
copies is queued; when the phases are over nothing is pending, so nothing is
stale and the left pages can be unmapped. `RememberedInv` is the remembered set
with the cards still ahead of the scan excepted; `CopyInv` is one copy per
object not counting forwarded ones; `EntriesInv` and `ListsInv` say where the
registrations are during `handle_guardians`.

`CollectorProofs` begins with the common part: each outcome of `AddObject` at a location
keeps the invariant, whichever phase asked for it. The bookkeeping of each phase
and the program's steps follow.

`CollectorImplementsHeap` is for every heap, any roots and generations and any order of visits, of programs that make no
guardians (`NoGuardians`: no object is a tconc or a cell), with `HeapAssumption`: there are finitely many addresses
and objects, and immediates are not objects. `ReachIsLeast`, proved from the recursive definition, turns
`Reach` into the least set that has what one starts from and what its members lead to; every step after that argues with
least sets, never with paths. `IInv` gets two companions, `NothingGuarded` and `CopiesSame` (a forwarding pointer leads to a
copy of the same object); with them the objects in reach are each at one address that stays (`ReachKnown`, where
`StaleInv` is what is needed in the middle of a collection), and the view is exactly what
any heap that agrees with memory on the objects in reach becomes (`ViewKnown`). So a step
is shown by giving a set of addresses that has all that can be got to after it (`ViewAfter`): the same set when a
forwarding pointer is followed, a page unmapped or retagged; the set with the copy instead of
the original when `add_object` copies; the set with the new object when the program allocates. `fix_weak_pointers` is the one
step of the collector that is seen (`FixSeen`): the cars it breaks are of objects still on left pages, and the set of
addresses reached otherwise has none on those pages, so what `Heap` allows to be broken includes them. With guardians the
view also has registrations and queues, which are chains of cells that `handle_guardians` extends; that part is
model-checked only.

The other components have theorems of their own:

| Theorem | Property | For every value that satisfies |
|---|---|---|
| `HooksLeaveRoom` | `RoomKept` | `HooksAssumption`: the sizes are numbers, the heap has more room than the slack of the redline, and a key fits in that slack |
| `LibrariesInOrder` | `InvokedInOrder` | `LibrariesAssumption`: what a file imports and refers to are lists of libraries (cycles included); `ReferencesAssumption`: what it refers to is in reach of its import forms |
| `CodeIsFollowed` | `CodeFollowed` | `CodeAssumption`: code starts in a card of its page (a page is 8 cards) |
| `WindersInductive` | `WindersInv` | `WindersAssumption`: extents are numbers, and so are the bounds |
| `WindersFollowFrames` | `WindersFollow` | the same |
| `InAndOutAlternate` | `InOutAlternate` | the same |
| `SharedExtentsKept` | `SharedExtentsStay`, a property of steps | the same |
| `StackInvariant` | `StackInv` | `StackAssumption`: twice a frame, a handler, the frame of the check and two values fit below the redline, and the redline is within the area |
| `StackWithinArea` | `WithinArea` | the same |
| `StackFramesMatch` | `FramesMatch` | the same |
| `StackCStackMatches` | `CStackMatches` | the same |
| `StackImplementsControl` | `ImplementsControl`: `Stack` refines `Control` | the same |
| `PortsSafe` | `PortsInv` | `PortsAssumption`: a callback is not the loop; buffers of at least one byte for output and four for input, so that a character fits; characters of one to four bytes |
| `BytesKept` | `BytesInOrder` | the same |
| `NoneLeftOut` | `NoneForgotten` | the same |
| `ChainsAreWhole` | `ChainsWhole` | `SymbolsAssumption`: the marks for "no name" and "unnamed" are not names, hashes are numbers, a table has at least one list |
| `SymbolsAreKept` | `SymbolsKept` | the same |
| `KeysAreFound` | `KeysFound` | `HashTableAssumption`: there are finitely many keys, at least one address, and a vector has at least one list |
| `KeysAreCounted` | `CountedOnce` | the same |
| `PagesInvariant` | `PagesInv` | `PagesAssumption`: a segment, the heap, its margin, the stack and every request have at least one page; the extension of the heap, the number of segments and the size of the cache are numbers |
| `PagesAreAccounted` | `PagesAccounted` | the same |
| `TablesAreKept` | `TablesKept` | the same |
| `ArithmeticIsExact` | `ArithmeticExact` | `NumbersAssumption`: a fixnum has a tag, a sign and at least one bit more; `BignumAssumption`: limbs are limbs |
| `DivisionIsExact` | `DivisionExact` | the same |
| `IntegersAreLoaded` | `LoadedExact` | `NumbersAssumption` and `ForeignAssumption`: a `long` is a word and a `long long` one or two; the smaller types grow in size; a `short` is smaller than a fixnum, and an `int` is where words have 8 bytes |
| `RecordsAreLaidOut` | `RecordLaidOut` | the same |
| `BitsAreStored` | `StoredModulo`, a property of steps | the same |

`HooksInv` adds to `RoomKept` that only the innermost call can be about to return,
with the room its collection left (`ReturnInv`), and how keys are numbered: each call that runs
hooks has noted a key made no later than its round, and if there was a collection since,
the key there is now is a later one or none (`KeyInv`). So `do-overflow` cannot mistake
the key of another round for its own, whatever collections, escapes and nested calls the hooks make.

`LibrariesInv` says of every call of `invoke-library` that what is gone from its `todo` has
returned or is the call above (`NeedsIn`), and that the call that runs a library's code is the
first call for it (`EnteredIn`): the state is `ToInvoke` only until the first call, and never again.
Both follow the stack, which a step shortens (`FirstCalls`), extends (`OneMore`), or both; an error may cut it at any
code that runs, and then nothing below waits (`NeedsPrefix`). That what `install-library` looks up is there follows from two more parts: what a
file names is installed or still to be found (`FindIn`), and what an installed library names is installed (`ClosedInv`). So when the imports of a
file are found, the installed libraries are a set that has them and all that those import, and what is in reach is the least
such set (`FoundInReach`). `VisitsInv` says that a library was not visited before what its transformers refer to was invoked. `RuntimeProofs` has a
lemma for each of these, and one for each action.

`CodeInv` adds to `CodeFollowed` why a page may be passed by: every younger object that code
names has, on some card of the page, a bit as high as its generation asks for (`RecordedInv`).
It need not be the card of that code: `scan_dirty_code_page` stores a whole segment
word shifted to the card, and what the shift pushes out of the word is lost for the last card. That is the exception in
`CodeFollowed`, and the proof shows that there is no other.

`WindersInv` says that there is a set `F` of frames, among them all that wait and all that
continuations kept, and of their continuations', and a map `up` from extents to lists, such that
every list of extents anywhere has `up[e]` below `e`. So of two lists that share an
extent one is not just alike below it but the same, and what `common-tail` computes is what
the two continuations share. Each frame of `do-wind` is `Sound`: what it has still to leave or enter
ends in that common tail. `WindersFollow` alone is not inductive, since it says nothing of a
continuation until it is invoked.

`StackInv` has five parts. `InvMemory`: the words of every continuation are frames, each beginning where the one before
ends (`Framed`), of a size that the redline leaves room for; those in the area in use lie above `frame_base`,
and `frame_base` is never lower than the longest frame below the redline. `InvConts`: no continuation leads back
to itself, said as a property of sets (each one that is not empty has a member whose `next` is outside), so that it is of first order.
`InvPointer`: the words from `frame_pointer` to `frame_base` are frames, and for each `pc` how far
down they may reach; here is why one check at the entry of a procedure is enough, with the frame
that `ik_underflow` puts back below the old base. `InvC`: each C call on the C stack has its system continuation,
which leads to that of the call below (`Matched`). `InvPc` names the places. `FramesMatch` asks what `Split`, a recursive
function, returns: `SplitMatches` shows by the least counterexample that it never returns a mismatch on words that are
`Framed`. That `Split`, `FirstSystem` and `Reach` are defined at all on these states, which a definition by `CHOOSE` does not
promise, follows from `SequenceFacts` (`AlongExists`: recursion along a relation that ends).

The last part of `StackProofs` shows that every step of `Stack` is a step of `Control` or leaves `ctl`, `saved`, `where` and `got` alone. `ctl` is
the row of frames on the stack followed by the chain of continuations (`ListIs`). Rows and chains are compared by the places
where they would differ (`RowsAgree`, `ChainAgrees`), so that what a step has to show is local: a call writes below the
row (`PushedRow`), a seal turns the row into the first part of the chain (`SealChains`), a split puts the same words in two parts
(`SplitChains`), a collection copies each part (`CopiedChains`), and what becomes unreachable was on no list
(`ChainsReferred`). `Resume` and the steps that reach C take the first of the list. `Throw` needs in addition that two lists have
the same boundary exactly when their first system continuation is the same, which is how the code's situation is told
from one across a foreign call (`MarksDiffer`: marks are apart from each other and from frames).
`ForeignCall` adds a mark that no list has, because what a list names is reachable. The invariant is `StackInv` with
`InvTop`: while C runs, no frame of Scheme is above its mark. `Underflow`, `CallBack` and `ForeignResult`
are stutters: that nothing shows of them is the point.

`PortsInv` is about three things at once, because an operation that blocks keeps an index and a count in its continuation
while others run. `LoopInv`: a task in a queue is *due* (`Due`: its thread is blocked in an operation of that
direction, or is a callback in none), a thread is in one queue at most, once, and a blocked one is in one unless it was
unregistered (`OneTask`). `do-select` reverses and divides the queue `pending`; `ReverseOnlyDrawn` and `OnlyPicks` say that this
draws each task once. `OutInOrder`: the bytes that the socket took, followed by those in the buffer, are what was put
(`OutBytes`), and the count that a blocked write holds is still the index of the buffer, since no other thread uses the port
(`Alone`). `BufferedInOrder`: what is between index and size is the part of the text that follows what was consumed
(`Buffered`); while a read is under way the same bytes are at the front of the buffer, where `refill-bv-buffer` has
shifted them (`Ahead`); what was consumed ends where a character does (`Whole`), unless the text ends inside a
character, after which replacement characters are all that comes (`Past`). `ReadBack` alone says nothing of
the buffer, so it cannot be inductive.

`TablesProofs` begins with vectors of lists that hold nothing twice, alone or together (`Tidy`), whatever they
hold: what putting an element in front of a list, taking one out, joining the lists and spreading a list
over a larger vector (`Put`, `Take`, `Joined`, `Spread`) does to them. A table (`TableOf`) is such a vector with each element
in the list of its name and no two of a name.
`SymbolsInv` says of which symbols there is a table: before the handover of all that exist, after it of those that the
guardian has or has in its queue (`Interneds`). Therefore a collection can break a reference only to a symbol that is in no list:
one in the guardian goes to the queue first, and `bleed-guardian` drops it from its list as it takes it from the queue, or gives it
back to the guardian. What the program refers to is with the guardian, and what has a value or a property there or in the
queue, but for the `recovered` (`SchemeKept`). `ChainsWhole` alone is not inductive: it does not say which symbols the collector may free.
`GensymsInv` is the same for gensyms, whose table no collection touches.

`HashTableInv` says that the buckets are `InPlace`: one that the collector tracks is in the list of the present address of its key, and
one that is linked but not tracked waits on the tconc; a bucket is never older than its key (else a key could
move without its bucket being copied, and stay in the wrong list); what has been unlinked says so itself, so that it is not added anew when it
comes off the tconc. `RehashFinds` is the loop of `rehash-lookup`: the bucket looked for does not come off the tconc
unnoticed (`Walked`), so when the tconc is empty there is none. While a key is being added all buckets are linked, so each has a key of its own
and a new one can be numbered (`FreshBucket`).

`PagesInv` is about the memory manager between two operations; inside one, a page that was just mapped is nobody's yet, and one
that `extend_table_maybe` moves a table away from is still mapped. So there are two accounts. `Ledger(x, G)`: the
pages that are mapped are those with a type, those in the cache, those on a protected list and those of `G`, no two of these
share a page, and the count is right. `Whole(x, H)`: `G` is the page of the cache, the two tables and the pages `H` in
hand. Mapping adds to `G`, unmapping takes from it (`MMapLedger`, `MUnmapLedger`), typing a run moves it from `G` to the typed
pages (`SetTypeLedger`), and `ik_munmap_from_segment` moves it to the cache or gives it back (`UnmapSegmentLedger`). `MoveTablesWhole` is
`extend_table_maybe`: the new tables are on the ledger before the old ones are off it, and every page that had a word has it still
(`SameView`), so a caller that holds pages keeps them (`ExtendTableWhole`). `PagesInv` says of the state between operations
that it is `Whole` with nothing in hand, that pages without a type are clean, and that the main heap is the nursery and the full ones, as areas no
two of which share a page (`Areal`). That last part is in neither property and is needed for the end of a collection:
`ik_collect` unmaps the full nurseries one by one, each while those after it must still be typed (`UnmapSegmentsFree`). Likewise
`ik_delete_pcb` unmaps the pages of a list one by one, so none may be on it twice (`UnmapEachCounted`).
In a collection `PagesInv` speaks of the nurseries that were full when it began, and of
the copy of the table's address in `gc`, which `GcMap` reads again after every mapping. `Scanning` says the same of the two addresses that the scan of dirty pages holds: inside a
page only that of the segment table has to be right, between pages both, and the page being scanned is still one of objects, so that the dirty word stored at the end is its own. The state at the end is another disjunct: nothing is left.
The number of generations is two in the model and in the proof.

`NumbersProofs` has an invariant for `Bignum` that is short: the operands are verified (`ProgramInvariant`). The work is in the
operations. What limbs stand for (`NatOf`) and what limbs a number has (`LimbsOf`) are recursive functions, so their laws are
proved by least counterexamples from `SequenceFacts`: the limbs of a natural below `B^^k` stand for it (`NatOfItsLimbs`), a
top limb that is not 0 bounds it from below, and trimming leaves it as it is (`TrimIs`). With them `normalize_bignum` returns
the one representation of a number (`NormalizeIs`), whatever the width of words. An integer is taken apart into sign and
magnitude (`Stands`, `FixParts`), and each procedure of `numerics.c` has a lemma that says what it computes of these:
`Grow` and `Shrink` have the limbs they need, `BnBnShrink` finds the greater magnitude from the first unequal limb
(`UnequalIs`, and the higher limb decides), the product and the quotient fit the limbs they are given, the remainder has the
sign that the code gives it, and the root of a number of `n` limbs fits half of them, rounded up. The exceptions in the properties
are all there are: `CarryMisplaced`, `LeastByItsNegation` and `MultipleOfOther` appear in the proofs as the cases that
cannot be closed.

The invariant of `Foreign` (`ForeignInvariant`) says that what the last operation moved is still at both ends; what it
rests on is that `Replace` changes the bits it should and no others (`ReplaceIs`), so that the fields of a record, written one
after the other, survive those after them (`BufferHolds`, by induction on the field), and that each conversion in `ikarus-pointers.c`
picks the fixnum exactly when it must (`SToNumberIs` and its kin). The proof needs `ForeignAssumption` to say that a `short`,
and an `int` where words have 8 bytes, is *smaller* than a fixnum: `ikrt_ref_ushort` and `ikrt_ref_uint` make a
fixnum of what they read without a test, and an unsigned number of as many bits as a fixnum is none. The sizes of the two builds
(16 bits of 30, 32 of 61) satisfy it.

*Only model-checked*, and why:

- `CollectionEnds` and `Reclaimed`: liveness under fairness, which the prover does not do;
- the refinement `ImplementsHeap` with guardians (runs `guardians`, `two_guardians`, `guarded_weak`): it needs an invariant of the
  chains of cells under every guardian, and of what each loop of `handle_guardians` has
  found reachable so far, that is not written;
- `Fasl`, whose readers are `RECURSIVE` operators, which the prover cannot take;
- `AllVerified`, `BitsExact` and `ConversionExact` of `Bignum`: the bitwise operations, shifts and conversions combine
  words bit by bit or digit by digit, and no proof of what `AndBits`, `Complement` and `DigitsOf` compute is written.

## 5. Plan

Done: the collector with its abstract specification and safety proofs; code pages, memory, hash tables,
symbols, hooks, continuations and foreign calls, `dynamic-wind`, exact integers, fasl, ports and the event
loop, libraries; the safety proofs of `Hooks`, `Libraries`, `Code`, `Winders`, `Stack`, `Ports`, `Symbols`,
`HashTable`, `Pages` and `Foreign`, and those of the arithmetic of `Bignum`;
the refinement of `Control`, and that of `Heap` without guardians.

Left, in this order:

1. The collector's refinement with guardians; the bitwise operations of `Bignum`.
2. Live masks of frames in `Stack`; objects that are neither pairs nor vectors in `Collector`.
3. File positions, other transcoders and lookahead in `Ports`; `hashtable-copy` and `update-hash!` in
   `HashTable`; versions and uninstalling in `Libraries`.
4. Ratnums, and the comparison of exact integers with flonums.

Not modelled, and why: the expander and the compiler are passes from tree to tree, without state
that outlives a pass, over inputs too large for a finite instance to say much; what
generated code does at a call, an allocation, a store and a return is in `Stack`,
`Hooks` and `Collector`. The data structure library, records and conditions are sequential functions on lists,
vectors, strings and records; promises are one variable, read and set within a few lines. The reader,
the printer and the generated unicode tables are conversions at the level of characters. Processes, files
and system calls are wrappers without state; exceptions and signals keep a list in a parameter and a
flag, and what an escape leaves behind is modelled where it matters (`Libraries`, `Ports`, `Hooks`).
`PROJECT.json` says the same by component.
