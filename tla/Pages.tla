------------------------------- MODULE Pages -------------------------------
(***************************************************************************)
(* The memory manager of the run time (src/src/ikarus-runtime.c): mapping  *)
(* and unmapping of pages, the cache of freed pages, the segment and dirty *)
(* tables that move when memory grows past them, the nursery and the areas *)
(* it has filled, and what a collection does to them (ikarus-collect.c).   *)
(*                                                                         *)
(* Memory is a row of pages, the tables have an entry for each page of     *)
(* their segments and are pages themselves.  The record m holds what the   *)
(* pcb holds, m.mapped what the operating system has handed out.  An       *)
(* operator takes an m and returns the next one, or the set of those that  *)
(* are possible where a place is chosen.  Sizes are in pages.              *)
(***************************************************************************)
EXTENDS Integers, Sequences, FiniteSets, SequencesExt, Lists

CONSTANTS
  SegmentPages,   \* pages that one page of a table describes
  Segments,       \* segments of the address space
  HeapSize,       \* IK_HEAPSIZE
  HeapExt,        \* IK_HEAP_EXT_SIZE
  StackPages,     \* STAKSIZE
  Margin,         \* pages between the redline and the end of the heap, 2 in the code
  CacheSize,      \* CACHE_SIZE: how many freed pages are kept
  Requests,       \* sizes asked for
  MaxMapped,      \* bound: pages of objects, guardians and old nurseries
  MaxPageOps      \* bound: what happens before the last collection ends and the program exits

\* nothing is mapped that has no page, and the end of the heap is past the redline
ASSUME PagesAssumption ==
  /\ SegmentPages \in Nat \ {0} /\ Segments \in Nat
  /\ HeapSize \in Nat \ {0} /\ HeapExt \in Nat /\ Margin \in Nat \ {0}
  /\ StackPages \in Nat \ {0} /\ CacheSize \in Nat
  /\ Requests \subseteq Nat \ {0}

VARIABLES
  m,              \* the pcb
  gc,             \* the collection under way
  pageOps         \* how much has happened

pvars == <<m, gc, pageOps>>

PageNumber == 0 .. SegmentPages * Segments - 1
\* the first and the last page of memory are never mapped
Usable == 1 .. SegmentPages * Segments - 2
Run(b, n) == b .. b + n - 1
SegmentIndex(p) == p \div SegmentPages
SegmentAbove(p) == SegmentIndex(p + SegmentPages - 1)

\* an entry of the segment table, and whether the dirty table's is not zero
Word(type, g, new) == [type |-> type, gen |-> g, new |-> new, dirty |-> FALSE]
Hole == Word("hole", 0, FALSE)
MainHeap == Word("mainheap", 0, FALSE)
MainStack == Word("mainstack", 0, FALSE)
\* pointers, symbols, data, code and weak pairs: what a collection may free
Objects(g, new) == Word("objects", g, new)

\* the entry of page p, if the tables describe it
Covered(x) == {p \in PageNumber : x.memory_base <= SegmentIndex(p) /\ SegmentIndex(p) < x.memory_end}
At(x, p) == p - x.memory_base * SegmentPages
Entry(x, p) == x.table[At(x, p)]
Typed(x) == {p \in Covered(x) : Entry(x, p).type # "hole"}
TablePages(x) == x.memory_end - x.memory_base

-----------------------------------------------------------------------------
(* Mapping *)

\* mmap: the operating system takes the first room from below, or from above
Places(x, n) == {b \in Usable : Run(b, n) \subseteq Usable \ x.mapped}
\* ik_mmap
MMap(x, n) ==
  {<<[x EXCEPT !.mapped = @ \cup Run(b, n), !.total = @ + n], b>> :
     b \in {b \in Places(x, n) : \A a \in Places(x, n) : IF x.upwards THEN b <= a ELSE a <= b}}
\* ik_munmap
MUnmap(x, b, n) ==
  [x EXCEPT !.mapped = @ \ Run(b, n), !.total = @ - n,
            !.failed = @ \/ ~(Run(b, n) \subseteq x.mapped)]

\* the entries of the old segments after those of the new ones below
Copied(table, old, new, below) ==
  [i \in 0 .. new * SegmentPages - 1 |->
     LET j == i - below * SegmentPages IN
     IF j \in 0 .. old * SegmentPages - 1 THEN table[j] ELSE Hole]

\* the dirty vector, and the segment vector, move to n pages
MoveDirty(x, n) ==
  {[MUnmap(t[1], x.dirty_vector_base, TablePages(x)) EXCEPT !.dirty_vector_base = t[2]] : t \in MMap(x, n)}
MoveSegments(x, n) ==
  {[MUnmap(t[1], x.segment_vector_base, TablePages(x)) EXCEPT !.segment_vector_base = t[2]] : t \in MMap(x, n)}
\* both get lo .. hi; their entries move alike and are kept together
Relaid(x, lo, hi) ==
  [x EXCEPT !.memory_base = lo, !.memory_end = hi,
            !.table = Copied(@, TablePages(x), hi - lo, x.memory_base - lo)]
MoveTables(x, lo, hi) ==
  {Relaid(y, lo, hi) : y \in UNION {MoveSegments(d, hi - lo) : d \in MoveDirty(x, hi - lo)}}

\* extend_table_maybe
ExtendTable(x, p, n) ==
  IF p < x.memory_base * SegmentPages
    THEN MoveTables(x, SegmentIndex(p), x.memory_end)
  ELSE IF p + n >= x.memory_end * SegmentPages
    THEN MoveTables(x, x.memory_base, SegmentAbove(p + n))
  ELSE {x}

\* set_segment_type: the dirty table is left alone
SetType(x, b, n, w) ==
  [x EXCEPT !.table = [i \in DOMAIN @ |-> IF i \in Run(At(x, b), n) THEN [w EXCEPT !.dirty = x.table[i].dirty]
                                         ELSE @[i]],
            !.failed = @ \/ ~(Run(b, n) \subseteq Covered(x))]

\* ik_mmap_typed: a cached page, if one will do
Take(x, n) ==
  IF n = 1 /\ x.cached # <<>>
  THEN {<<[x EXCEPT !.cached = Tail(@), !.uncached = @ + 1], Head(x.cached)>>}
  ELSE MMap(x, n)
MMapTyped(x, n, w) ==
  UNION {{<<SetType(y, t[2], n, w), t[2]>> : y \in ExtendTable(t[1], t[2], n)} : t \in Take(x, n)}

UnmapSegmentAll(x, b, n) ==    \* wrong: the pages on the cache are unmapped too
  LET k == IF n < x.uncached THEN n ELSE x.uncached
  IN  MUnmap([x EXCEPT
                !.table = [i \in DOMAIN @ |-> IF i \in Run(At(x, b), n) THEN Hole ELSE @[i]],
                !.cached = Reverse([i \in 1 .. k |-> b + i - 1]) \o @,
                !.uncached = @ - k], b, n)

\* ik_munmap_from_segment: as many pages as the cache takes, the rest is unmapped
UnmapSegment(x, b, n) ==
  LET k == IF n < x.uncached THEN n ELSE x.uncached
      y == [x EXCEPT
              !.failed = @ \/ ~(Run(b, n) \subseteq Typed(x)),
              !.table = [i \in DOMAIN @ |-> IF i \in Run(At(x, b), n) THEN Hole ELSE @[i]],
              !.cached = Reverse([i \in 1 .. k |-> b + i - 1]) \o @,
              !.uncached = @ - k]
  IN  IF k = n THEN y ELSE MUnmap(y, b + k, n - k)

\* the pages of S in the order of addresses
InOrder(S) == Only([i \in 1 .. SegmentPages * Segments |-> i - 1], S)
\* the pages of s are unmapped, one after the other
UnmapEach(x, s) ==
  LET after[i \in 0 .. Len(s)] == IF i = 0 THEN x ELSE MUnmap(after[i - 1], s[i], 1)
  IN after[Len(s)]
\* the areas of s are freed, one after the other
UnmapSegments(x, s) ==
  LET after[i \in 0 .. Len(s)] == IF i = 0 THEN x ELSE UnmapSegment(after[i - 1], s[i][1], s[i][2])
  IN after[Len(s)]

-----------------------------------------------------------------------------
(* The life of a pcb *)

Off == [on |-> FALSE]

\* ik_make_pcb
Blank ==
  [mapped |-> {}, total |-> 0, failed |-> FALSE, deleted |-> FALSE, upwards |-> TRUE,
   memory_base |-> 0, memory_end |-> 0, table |-> <<>>,
   dirty_vector_base |-> 0, segment_vector_base |-> 0,
   cached |-> <<>>, uncached |-> CacheSize, cached_pages_base |-> 0,
   heap_base |-> 0, heap_size |-> HeapSize, used |-> 0, heap_pages |-> <<>>,
   stack_base |-> 0, protected |-> {}]

\* the tables for what lies between the heap and the stack, with a page around
FirstTables(x) ==
  LET low == IF x.heap_base < x.stack_base THEN x.heap_base - 1 ELSE x.stack_base - 1
      high == IF x.heap_base < x.stack_base THEN x.stack_base + StackPages + 1
              ELSE x.heap_base + HeapSize + 1
      lo == SegmentIndex(low)
      hi == SegmentAbove(high)
      two == UNION {{[t[1] EXCEPT !.dirty_vector_base = d[2], !.segment_vector_base = t[2]] :
                       t \in MMap(d[1], hi - lo)} : d \in MMap(x, hi - lo)}
  IN  {SetType(SetType([y EXCEPT !.memory_base = lo, !.memory_end = hi,
                                 !.table = [i \in 0 .. (hi - lo) * SegmentPages - 1 |-> Hole]],
                       y.heap_base, HeapSize, MainHeap),
               y.stack_base, StackPages, MainStack) : y \in two}

FirstPcbs ==
  LET Heaps == UNION {MMap([Blank EXCEPT !.upwards = up], HeapSize) : up \in BOOLEAN}
      Stacks == UNION {MMap([h[1] EXCEPT !.heap_base = h[2]], StackPages) : h \in Heaps}
      Caches == UNION {MMap([s[1] EXCEPT !.stack_base = s[2]], 1) : s \in Stacks}
  IN UNION {FirstTables([c[1] EXCEPT !.cached_pages_base = c[2]]) : c \in Caches}
PagesInit ==
  /\ m \in FirstPcbs
  /\ gc = Off
  /\ pageOps = 0

Mutator == gc = Off /\ ~m.deleted

\* allocation fits the nursery: ik_unsafe_alloc, ik_safe_alloc
Fits(x, n) == x.used + n < x.heap_size
Alloc(n) ==
  /\ Mutator
  /\ Fits(m, n)
  /\ m' = [m EXCEPT !.used = @ + n]
  /\ UNCHANGED gc

Larger(a, b) == IF a > b THEN a ELSE b

\* ik_unsafe_alloc when it does not: another nursery, the full one is kept
NewNursery(n) ==
  /\ Mutator
  /\ ~Fits(m, n)
  /\ LET size == Larger(n, HeapExt) + Margin IN
     \E t \in MMapTyped(m, size, MainHeap) :
       m' = [t[1] EXCEPT !.heap_pages = <<<<m.heap_base, m.heap_size>>>> \o @,
                         !.heap_base = t[2], !.heap_size = size, !.used = n]
  /\ UNCHANGED gc

\* the pages of a code object, of weak pairs, of the symbol table
MapObjects(n) ==
  /\ Mutator
  /\ \E t \in MMapTyped(m, n, Objects(0, FALSE)) : m' = t[1]
  /\ UNCHANGED gc

\* ik_register_guardian: a page of the protected list
MapProtected ==
  /\ Mutator
  /\ \E t \in MMap(m, 1) : m' = [t[1] EXCEPT !.protected = @ \cup {t[2]}]
  /\ UNCHANGED gc

\* ik_stack_overflow: the full stack becomes data that the collector frees
StackOverflow ==
  /\ Mutator
  /\ \E t \in MMapTyped(SetType(m, m.stack_base, StackPages, Objects(0, FALSE)), StackPages, MainStack) :
       m' = [t[1] EXCEPT !.stack_base = t[2]]
  /\ UNCHANGED gc

\* the write barrier
Write(p) ==
  /\ Mutator
  /\ Entry(m, p).type = "objects"
  /\ m' = [m EXCEPT !.table[At(m, p)].dirty = TRUE]
  /\ UNCHANGED gc

-----------------------------------------------------------------------------
(* A collection *)

MaxGeneration == 1     \* two generations are enough for pages to stay or go
NextOf(g) == IF g = MaxGeneration THEN g ELSE g + 1
\* where the tables are: pcb->segment_vector and pcb->dirty_vector
TableNow(x) == <<x.segment_vector_base, x.memory_base>>
DirtyNow(x) == <<x.dirty_vector_base, x.memory_base>>

ReadOnce(g, x) == g       \* wrong: the copies are those made at the start
\* the function that scans dirty pages makes its own copies of them, again
ReadAgain(g, x) == [g EXCEPT !.segment_vec = TableNow(x), !.dirty_vec = DirtyNow(x)]

\* ik_collect for n pages, at once or because ik_safe_alloc finds no room; first the dirty
\* pages are scanned
CollectBegin(n) ==
  /\ Mutator
  /\ n > 0 => ~Fits(m, n)
  /\ \E g \in 0 .. MaxGeneration :
       gc' = [on |-> TRUE, gen |-> g, need |-> n, segment_vector |-> TableNow(m),
              old_heap_pages |-> m.heap_pages,
              scan |-> "pages", page |-> 0, segment_vec |-> TableNow(m), dirty_vec |-> DirtyNow(m)]
  /\ m' = [m EXCEPT !.heap_pages = <<>>]

\* pages for survivors: meta_alloc_extending, gc_alloc_new_large_ptr,
\* gc_alloc_new_weak_pair, gc_tconc_push_extending; the scan of a page, when add_object
\* returns, reads gc->segment_vector again
GcMap(n) ==
  /\ gc.on /\ gc.scan # "pages"
  /\ \E t \in MMapTyped(m, n, Objects(NextOf(gc.gen), TRUE)) :
       /\ m' = t[1]
       /\ gc' = [gc EXCEPT !.segment_vector = TableNow(t[1]),
                           !.segment_vec = IF gc.scan = "page" THEN TableNow(t[1]) ELSE @]

\* scan_dirty_pages, in the order of addresses: a page that is not collected and is dirty
ScanPage(p) ==
  /\ gc.on /\ gc.scan = "pages" /\ p > gc.page
  /\ Entry(m, p).dirty /\ Entry(m, p).gen > gc.gen
  /\ gc' = [ReadAgain(gc, m) EXCEPT !.scan = "page", !.page = p]
  /\ UNCHANGED m
\* its bits are stored (scan_dirty_pointers_page, scan_dirty_code_page): the callee before
\* that, and its caller after it, read where the tables are
PageScanned ==
  /\ gc.on /\ gc.scan = "page"
  /\ LET g == ReadAgain(gc, m) IN
     /\ \E d \in BOOLEAN :
          m' = [m EXCEPT !.table[At(m, gc.page)].dirty = d, !.failed = @ \/ g.dirty_vec # DirtyNow(m)]
     /\ gc' = [ReadAgain(g, m) EXCEPT !.scan = "pages"]
ScanEnd ==
  /\ gc.on /\ gc.scan = "pages"
  /\ gc' = [gc EXCEPT !.scan = "over"]
  /\ UNCHANGED m

Collectable(w) == w.type = "objects" /\ w.gen <= gc.gen /\ ~w.new

\* enqueue_large_ptr, add_code_entry: a large object stays where it is
GcRetag(p) ==
  /\ gc.on /\ gc.scan # "pages"
  /\ Collectable(Entry(m, p))
  /\ m' = SetType(m, p, 1, Objects(NextOf(gc.gen), TRUE))
  /\ UNCHANGED gc

\* handle_guardians: the entries of a page go to a page of another list, or to none
GcProtected(p) ==
  /\ gc.on /\ gc.scan = "over"
  /\ \/ \E t \in MMap(m, 1) :
          m' = [MUnmap(t[1], p, 1) EXCEPT !.protected = (@ \ {p}) \cup {t[2]}]
     \/ m' = [MUnmap(m, p, 1) EXCEPT !.protected = @ \ {p}]
  /\ UNCHANGED gc

\* deallocate_unused_pages, in the order of addresses
Deallocated(x) ==
  LET pages == InOrder({p \in Covered(x) : Collectable(Entry(x, p))})
  IN  UnmapSegments(x, [i \in DOMAIN pages |-> <<pages[i], 1>>])
\* fix_new_pages
FixedNew(x) == [x EXCEPT !.table = [i \in DOMAIN @ |-> [@[i] EXCEPT !.new = FALSE]]]
\* the nurseries that were full are freed, the last one is used again
OldNurseries(x) == UnmapSegments([x EXCEPT !.used = 0], gc.old_heap_pages)

\* or, if it has too little room, replaced
Nursery(x) ==
  IF x.heap_size - Margin <= gc.need \/ x.heap_size < HeapSize
  THEN LET size == Larger(gc.need, HeapSize) + Margin IN
       {[t[1] EXCEPT !.heap_base = t[2], !.heap_size = size] :
          t \in MMapTyped(UnmapSegment(x, x.heap_base, x.heap_size), size, MainHeap)}
  ELSE {x}

\* the end of ik_collect, and of ik_safe_alloc, which exits if there is no room
CollectEnd ==
  /\ gc.on /\ gc.scan = "over"
  /\ \E x \in Nursery(OldNurseries(FixedNew(Deallocated(m)))) :
       m' = [x EXCEPT !.failed = @ \/ ~Fits(x, gc.need), !.used = gc.need]
  /\ gc' = Off

\* ikrt_exit, ik_delete_pcb
Delete ==
  /\ Mutator
  /\ LET x1 == MUnmap(UnmapEach(m, m.cached), m.cached_pages_base, 1)
         x2 == UnmapEach(x1, InOrder(m.protected))
         x3 == UnmapEach(x2, InOrder(Typed(m)))
         x4 == MUnmap(MUnmap(x3, m.dirty_vector_base, TablePages(m)), m.segment_vector_base, TablePages(m))
     IN  m' = [x4 EXCEPT !.deleted = TRUE]
  /\ UNCHANGED gc

\* mmap fails: the process ends
OutOfMemory ==
  /\ ~m.deleted
  /\ \E n \in 1 .. 2 * Segments + HeapSize + Margin : Places(m, n) = {}
  /\ m' = [Blank EXCEPT !.deleted = TRUE]
  /\ gc' = Off

\* the bound
ObjectPages(x) == {p \in Covered(x) : Entry(x, p).type = "objects"}
Room(n) == Cardinality(ObjectPages(m)) + Cardinality(m.protected) + Len(m.heap_pages) + n <= MaxMapped

PagesNext ==
  \/ /\ pageOps < MaxPageOps
     /\ pageOps' = pageOps + 1
     /\ \/ \E n \in Requests :
             \/ Alloc(n)
             \/ Room(1) /\ NewNursery(n)
             \/ Room(n) /\ (MapObjects(n) \/ GcMap(n))
             \/ CollectBegin(n)
        \/ CollectBegin(0)
        \/ Room(1) /\ MapProtected
        \/ Room(StackPages) /\ StackOverflow
        \/ \E p \in Covered(m) : Write(p) \/ GcRetag(p)
        \/ \E p \in m.protected : GcProtected(p)
  \/ /\ \/ CollectEnd \/ Delete \/ OutOfMemory \/ PageScanned \/ ScanEnd
        \/ \E p \in Covered(m) : ScanPage(p)
     /\ UNCHANGED pageOps
  \/ m.deleted /\ UNCHANGED pvars

PagesSpec == PagesInit /\ [][PagesNext]_pvars

-----------------------------------------------------------------------------
(* Properties *)

Owners(x) ==
  IF x.deleted THEN <<>>
  ELSE <<Typed(x), ToSet(x.cached), {x.cached_pages_base}, x.protected,
         Run(x.dirty_vector_base, TablePages(x)), Run(x.segment_vector_base, TablePages(x))>>

\* Every page has one use: it has a type in the segment table, or is in the
\* cache, or is part of the run time's own tables; the count of pages is right
\* and nothing is left when the program exits (ikrt_exit, ik_munmap_from_segment).
PagesAccounted ==
  LET own == Owners(m) IN
  /\ m.total = Cardinality(m.mapped)
  /\ UNION {own[i] : i \in DOMAIN own} = m.mapped
  /\ \A i, j \in DOMAIN own : i # j => own[i] \cap own[j] = {}
  /\ Len(m.cached) = Cardinality(ToSet(m.cached))
  /\ Len(m.cached) + m.uncached = CacheSize

\* Whatever moves the tables, they say of every page what it is: the nurseries
\* are main heap, the stack is stack, and a page that is not in use is clean, so
\* that it is clean when it is handed out again (extend_table_maybe); the copies of
\* their addresses that the collector uses are good, gc->segment_vector and those of
\* scan_dirty_pages and of the scan of a page (segment_vec, dirty_vec), although what
\* is copied in between moves the tables; and no assertion of the memory manager
\* fails, on what is mapped and freed and on the room a collection leaves.
TablesKept ==
  /\ ~m.deleted =>
       LET heaps == <<<<m.heap_base, m.heap_size>>>> \o m.heap_pages \o (IF gc.on THEN gc.old_heap_pages ELSE <<>>)
           all == UNION {Run(heaps[i][1], heaps[i][2]) : i \in DOMAIN heaps}
       IN  /\ all = {p \in Covered(m) : Entry(m, p).type = "mainheap"}
           /\ Run(m.stack_base, StackPages) = {p \in Covered(m) : Entry(m, p).type = "mainstack"}
           /\ \A p \in Covered(m) : Entry(m, p).dirty => Entry(m, p).type = "objects"
  /\ gc.on =>
       /\ gc.segment_vector = TableNow(m)
       /\ gc.scan # "over" => gc.segment_vec = TableNow(m)
       /\ gc.scan = "pages" => gc.dirty_vec = DirtyNow(m)
  /\ ~m.failed

=============================================================================
