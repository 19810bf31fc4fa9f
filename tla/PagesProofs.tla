----------------------------- MODULE PagesProofs -----------------------------
(* Proof that the memory manager loses no page and uses none for two things, *)
(* and that its tables say of every page what it is, wherever they are: for  *)
(* every size of a segment, of the heap, the stack and the cache, and any    *)
(* number of pages mapped.                                                   *)
(*                                                                           *)
(* Inside an operation pages are mapped that nothing knows of yet, or known  *)
(* to two parts of the run time until one of them lets go.  Ledger(x, G) is  *)
(* the account with that in it: the pages of G are those that have no type,  *)
(* are not in the cache and are on no protected list.  Whole(x, H) says that *)
(* those are the run time's own tables and, apart from them, the pages H in  *)
(* hand.  Each part of an operation moves pages from one side to the other;  *)
(* between two operations H is empty.  PagesInv adds that the words of the   *)
(* table are those of the nursery, of the nurseries that are full, which     *)
(* share no page, and of the stack.                                          *)
EXTENDS Pages, SequenceFacts, FiniteSetTheorems, TLAPS

-----------------------------------------------------------------------------
(* Numbers, words and the segment table *)

-----------------------------------------------------------------------------
(* Pages and tables *)

\* words of the segment table
Words == [type : {"hole", "mainheap", "mainstack", "objects"}, gen : Int, new : BOOLEAN, dirty : BOOLEAN]
\* tables of any length
Tables == UNION {[0 .. n - 1 -> Words] : n \in Nat}

\* what a pcb is made of
Pcbs ==
  [mapped : SUBSET Int, total : Int, failed : BOOLEAN, deleted : BOOLEAN, upwards : BOOLEAN,
   memory_base : Nat, memory_end : Nat, table : Tables,
   dirty_vector_base : Int, segment_vector_base : Int,
   cached : Seq(Int), uncached : Nat, cached_pages_base : Int,
   heap_base : Int, heap_size : Int, used : Int, heap_pages : Seq(Int \X Int),
   stack_base : Int, protected : SUBSET Int]

\* the tables are as long as the memory they describe
Measured(x) ==
  /\ x.memory_base <= x.memory_end
  /\ x.memory_end <= Segments
  /\ x.table \in [0 .. TablePages(x) * SegmentPages - 1 -> Words]

\* the entry of page p; where the tables end there are holes
Now(x, p) == IF p \in Covered(x) THEN Entry(x, p) ELSE Hole
\* the pages of a type
OfType(x, t) == {p \in PageNumber : Now(x, p).type = t}

\* products and order
LEMMA Products ==
  ASSUME NEW a \in Int, NEW b \in Int, NEW c \in Nat
  PROVE  /\ a * c \in Int
         /\ a <= b => a * c <= b * c
         /\ (b - a) * c = b * c - a * c
         /\ (a + b) * c = a * c + b * c
         /\ a >= 0 => a * c >= 0
  OBVIOUS

\* quotients, and the pages of a segment
LEMMA Division ==
  ASSUME NEW a \in Nat, NEW k \in Int, NEW c \in Nat \ {0}
  PROVE  /\ a \div c \in Nat
         /\ (a \div c) * c <= a
         /\ a < (a \div c) * c + c
         /\ k <= a \div c <=> k * c <= a
         /\ a \div c < k <=> a < k * c
  <1> DEFINE q == a \div c
  <1>1. q \in Nat /\ q * c <= a /\ a < (q + 1) * c
    OBVIOUS
  <1>2. (q + 1) * c = q * c + c
    BY <1>1
  <1> HIDE DEF q
  <1>3. k <= q => k * c <= q * c
    BY <1>1, Products
  <1>4. q + 1 <= k => (q + 1) * c <= k * c
    BY <1>1, Products
  <1>5. k * c \in Int /\ q * c \in Int
    BY <1>1
  <1>6. q \in Nat /\ q * c <= a /\ a < q * c + c /\ (k <= q <=> k * c <= a) /\ (q < k <=> a < k * c)
    BY <1>1, <1>2, <1>3, <1>4, <1>5
  <1>7. QED BY <1>6 DEF q

\* the parts of a pcb
TableFields(x) == <<x.memory_base, x.memory_end, x.table>>

\* where the areas of the program are
Areas(x) == <<x.heap_base, x.heap_size, x.used, x.heap_pages, x.stack_base, x.deleted, x.upwards>>

\* the cache of unmapped pages
Cache(x) == <<x.cached, x.uncached>>

\* where the run time's own tables are
Homes(x) == <<x.dirty_vector_base, x.segment_vector_base, x.cached_pages_base>>

\* the pages the segment table is for are those of whole segments
LEMMA CoveredIs ==
  ASSUME NEW x \in Pcbs
  PROVE  Covered(x) = {p \in PageNumber : x.memory_base * SegmentPages <= p /\ p < x.memory_end * SegmentPages}
  <1>1. SegmentPages \in Nat \ {0} /\ Segments \in Nat
    BY PagesAssumption
  <1>2. x.memory_base \in Nat /\ x.memory_end \in Nat
    BY DEF Pcbs
  <1>3. ASSUME NEW p \in PageNumber
        PROVE  /\ x.memory_base <= SegmentIndex(p) <=> x.memory_base * SegmentPages <= p
               /\ SegmentIndex(p) < x.memory_end <=> p < x.memory_end * SegmentPages
    <2>1. p \in Nat
      BY <1>1 DEF PageNumber
    <2>2. QED BY <1>1, <1>2, <2>1, Division DEF SegmentIndex
  <1>4. QED BY <1>3 DEF Covered

\* it has a word for each of them
LEMMA EntryIn ==
  ASSUME NEW x \in Pcbs, Measured(x), NEW p \in Covered(x)
  PROVE  p \in PageNumber /\ At(x, p) \in DOMAIN x.table /\ Entry(x, p) \in Words
  <1>1. SegmentPages \in Nat \ {0} /\ Segments \in Nat
    BY PagesAssumption
  <1>2. x.memory_base \in Nat /\ x.memory_end \in Nat
    BY DEF Pcbs
  <1>3. p \in PageNumber /\ x.memory_base * SegmentPages <= p /\ p < x.memory_end * SegmentPages
    BY CoveredIs
  <1>4. p \in Int
    BY <1>1, <1>3 DEF PageNumber
  <1>5. TablePages(x) * SegmentPages = x.memory_end * SegmentPages - x.memory_base * SegmentPages
    BY <1>1, <1>2, Products DEF TablePages
  <1>6. x.memory_end * SegmentPages \in Int /\ x.memory_base * SegmentPages \in Int
    BY <1>1, <1>2, Products
  <1>7. At(x, p) \in 0 .. TablePages(x) * SegmentPages - 1
    BY <1>3, <1>4, <1>5, <1>6 DEF At
  <1>8. x.table \in [0 .. TablePages(x) * SegmentPages - 1 -> Words]
    BY DEF Measured
  <1>9. QED BY <1>3, <1>7, <1>8 DEF Entry

\* every page has a word
LEMMA NowIn ==
  ASSUME NEW x \in Pcbs, Measured(x), NEW p
  PROVE  Now(x, p) \in Words
  <1>1. Hole \in Words
    BY DEF Hole, Word, Words
  <1>2. QED BY <1>1, EntryIn DEF Now

\* pages with a type are pages the table is for
LEMMA TypedIs ==
  ASSUME NEW x
  PROVE  /\ Typed(x) = {p \in PageNumber : Now(x, p).type # "hole"}
         /\ Typed(x) \subseteq PageNumber /\ Typed(x) \subseteq Covered(x)
         /\ \A t : t # "hole" => OfType(x, t) = {p \in Covered(x) : Entry(x, p).type = t}
  <1>1. Covered(x) \subseteq PageNumber
    BY DEF Covered
  <1>2. Hole.type = "hole"
    BY DEF Hole, Word
  <1>3. QED BY <1>1, <1>2 DEF Typed, Now, OfType

\* the same table says the same
LEMMA TableSame ==
  ASSUME NEW x, NEW y, TableFields(x) = TableFields(y)
  PROVE  /\ Covered(y) = Covered(x) /\ Typed(y) = Typed(x) /\ TablePages(y) = TablePages(x)
         /\ Measured(x) => Measured(y)
         /\ \A p : Now(y, p) = Now(x, p)
         /\ \A b : At(y, b) = At(x, b)
  <1>1. x.memory_base = y.memory_base /\ x.memory_end = y.memory_end /\ x.table = y.table
    BY DEF TableFields
  <1>2. Covered(y) = Covered(x)
    BY <1>1 DEF Covered
  <1>3. \A p : Entry(y, p) = Entry(x, p)
    BY <1>1 DEF Entry, At
  <1>4. Typed(y) = Typed(x)
    BY <1>2, <1>3 DEF Typed
  <1>5. QED BY <1>1, <1>2, <1>3, <1>4 DEF Now, Measured, TablePages, At

\* a run of pages is finite
LEMMA RunIn ==
  ASSUME NEW b \in Int, NEW n \in Int
  PROVE  /\ Run(b, n) \subseteq Int
         /\ IsFiniteSet(Run(b, n))
         /\ n >= 0 => Cardinality(Run(b, n)) = n
         /\ \A p \in Int : p \in Run(b, n) <=> b <= p /\ p < b + n
         /\ Run(b, 1) = {b}
  <1>1. Run(b, n) = b .. (b + n - 1) /\ b + n - 1 \in Int
    BY DEF Run
  <1>2. IsFiniteSet(Run(b, n)) /\ (n >= 0 => Cardinality(Run(b, n)) = n)
    BY <1>1, FS_Interval
  <1>3. Run(b, 1) = {b}
    BY DEF Run
  <1>4. QED BY <1>1, <1>2, <1>3

\* the table of x with e at the places in S
Written(x, S, e) == [i \in DOMAIN x.table |-> IF i \in S THEN e[i] ELSE x.table[i]]

\* what is written shows for those pages alone
LEMMA TableWritten ==
  ASSUME NEW x \in Pcbs, NEW y \in Pcbs, Measured(x), NEW b \in Int, NEW n \in Int, NEW e,
         e \in [DOMAIN x.table -> Words],
         y.memory_base = x.memory_base, y.memory_end = x.memory_end,
         y.table = Written(x, Run(At(x, b), n), e)
  PROVE  /\ Measured(y) /\ Covered(y) = Covered(x) /\ TablePages(y) = TablePages(x)
         /\ \A p \in Covered(x) : Now(y, p) = IF p \in Run(b, n) THEN e[At(x, p)] ELSE Now(x, p)
         /\ \A p : p \notin Covered(x) => Now(y, p) = Hole /\ Now(x, p) = Hole
  <1>1. TablePages(y) = TablePages(x) /\ Covered(y) = Covered(x)
    BY DEF TablePages, Covered
  <1>2. x.table \in [0 .. TablePages(x) * SegmentPages - 1 -> Words]
    BY DEF Measured
  <1>3. Measured(y)
    BY <1>1, <1>2 DEF Measured, Written
  <1>4. \A p : At(y, p) = At(x, p)
    BY DEF At
  <1>5. ASSUME NEW p \in Covered(x)
        PROVE  Now(y, p) = IF p \in Run(b, n) THEN e[At(x, p)] ELSE Now(x, p)
    <2>1. At(x, p) \in DOMAIN x.table /\ p \in PageNumber
      BY EntryIn
    <2>2. p \in Int
      BY <2>1, PagesAssumption DEF PageNumber
    <2> DEFINE from == x.memory_base * SegmentPages
    <2>7. from \in Int
      <3>1. x.memory_base \in Nat
        BY DEF Pcbs
      <3>2. QED BY <3>1, PagesAssumption, Products
    <2>8. At(x, p) = p - from /\ At(x, b) = b - from
      BY DEF At
    <2> HIDE DEF from
    <2>3. At(x, p) \in Run(At(x, b), n) <=> p \in Run(b, n)
      BY <2>2, <2>7, <2>8 DEF Run
    <2>4. y.table[At(x, p)] = IF At(x, p) \in Run(At(x, b), n) THEN e[At(x, p)] ELSE x.table[At(x, p)]
      BY <2>1 DEF Written
    <2>5. Now(y, p) = y.table[At(x, p)] /\ Now(x, p) = x.table[At(x, p)]
      BY <1>1, <1>4 DEF Now, Entry
    <2>6. QED BY <2>3, <2>4, <2>5
  <1>6. \A p : p \notin Covered(x) => Now(y, p) = Hole /\ Now(x, p) = Hole
    BY <1>1 DEF Now
  <1>7. QED BY <1>1, <1>3, <1>5, <1>6

-----------------------------------------------------------------------------
(* The ledger of pages *)

\* only what is mapped differs
SameUses(x, y) ==
  /\ TableFields(y) = TableFields(x) /\ Areas(y) = Areas(x) /\ Cache(y) = Cache(x)
  /\ Homes(y) = Homes(x) /\ y.protected = x.protected

\* ik_munmap gives pages back and leaves all else alone
LEMMA MUnmapEffect ==
  ASSUME NEW x \in Pcbs, NEW b \in Int, NEW n \in Int
  PROVE  LET y == MUnmap(x, b, n) IN
         /\ y \in Pcbs /\ SameUses(x, y)
         /\ y.mapped = x.mapped \ Run(b, n)
         /\ y.total = x.total - n
         /\ y.failed = (x.failed \/ ~(Run(b, n) \subseteq x.mapped))
  <1> DEFINE M == x.mapped \ Run(b, n)
             f == (x.failed \/ ~(Run(b, n) \subseteq x.mapped))
             t == x.total - n
             y == [x EXCEPT !.mapped = M, !.total = t, !.failed = f]
  <1>1. M \in SUBSET Int /\ t \in Int
    BY DEF Pcbs
  <1>2. f \in BOOLEAN
    OBVIOUS
  <1>3. MUnmap(x, b, n) = y
    BY DEF MUnmap
  <1> HIDE DEF M, f, t
  <1>4. y \in Pcbs
    BY <1>1, <1>2 DEF Pcbs
  <1>5. y.mapped = M /\ y.total = t /\ y.failed = f
    BY DEF Pcbs
  <1>6. SameUses(x, y)
    BY DEF SameUses, TableFields, Areas, Cache, Homes, Pcbs
  <1>7. QED BY <1>3, <1>4, <1>5, <1>6 DEF M, f, t

\* ik_mmap finds pages that were not mapped and leaves all else alone
LEMMA MMapEffect ==
  ASSUME NEW x \in Pcbs, NEW n \in Nat \ {0}, NEW t \in MMap(x, n)
  PROVE  /\ t[1] \in Pcbs /\ SameUses(x, t[1])
         /\ t[2] \in Usable /\ t[2] \in Nat /\ Run(t[2], n) \subseteq Usable
         /\ Run(t[2], n) \cap x.mapped = {}
         /\ t[1].mapped = x.mapped \cup Run(t[2], n)
         /\ t[1].total = x.total + n
         /\ t[1].failed = x.failed
  <1>1. PICK b \in Places(x, n) : t = <<[x EXCEPT !.mapped = @ \cup Run(b, n), !.total = @ + n], b>>
    BY DEF MMap
  <1>2. b \in Usable /\ Run(b, n) \subseteq Usable /\ Run(b, n) \cap x.mapped = {}
    BY <1>1 DEF Places
  <1> DEFINE M == x.mapped \cup Run(b, n)
             k == x.total + n
             y == [x EXCEPT !.mapped = M, !.total = k]
  <1>3. Usable \subseteq Nat
    BY PagesAssumption DEF Usable
  <1>4. M \in SUBSET Int
    <2>1. x.mapped \subseteq Int
      BY DEF Pcbs
    <2>2. Run(b, n) \subseteq Int
      <3>1. b \in Int
        BY <1>2, <1>3
      <3>2. QED BY <3>1, RunIn
    <2> HIDE DEF y, k
    <2>3. QED BY <2>1, <2>2
  <1>8. k \in Int
    BY DEF Pcbs
  <1>5. t[1] = y /\ t[2] = b
    BY <1>1
  <1> HIDE DEF M, k
  <1>6. y \in Pcbs /\ y.mapped = M /\ y.total = k /\ y.failed = x.failed
    BY <1>4, <1>8 DEF Pcbs
  <1>7. SameUses(x, y)
    BY DEF SameUses, TableFields, Areas, Cache, Homes, Pcbs
  <1>9. QED BY <1>2, <1>3, <1>5, <1>6, <1>7 DEF M, k

\* what is mapped has four uses, and no page two of them
Split(M, A, B, C, D) ==
  /\ M = ((A \cup B) \cup C) \cup D
  /\ A \cap B = {} /\ A \cap C = {} /\ A \cap D = {}
  /\ B \cap C = {} /\ B \cap D = {} /\ C \cap D = {}

\* no page is in the cache twice
CacheFits(x) ==
  /\ \A i, j \in 1 .. Len(x.cached) : x.cached[i] = x.cached[j] => i = j
  /\ Len(x.cached) + x.uncached = CacheSize

\* pages are counted, and those that have no type, are not in the cache and
\* are on no protected list are those of G
Ledger(x, G) ==
  /\ x \in Pcbs /\ Measured(x) /\ CacheFits(x)
  /\ x.mapped \subseteq Usable
  /\ x.total = Cardinality(x.mapped)
  /\ Split(x.mapped, Typed(x), ToSet(x.cached), x.protected, G)

\* pages are used for the same
LEMMA SameUsesKeep ==
  ASSUME NEW x, NEW y, SameUses(x, y)
  PROVE  /\ Typed(y) = Typed(x) /\ y.cached = x.cached /\ y.protected = x.protected
         /\ y.uncached = x.uncached
         /\ Measured(x) => Measured(y)
         /\ CacheFits(x) => CacheFits(y)
  <1>1. TableFields(x) = TableFields(y) /\ y.cached = x.cached /\ y.uncached = x.uncached /\ y.protected = x.protected
    BY DEF SameUses, Cache
  <1>2. QED BY <1>1, TableSame DEF CacheFits

\* sets of pages are finite
LEMMA UsableFinite ==
  ASSUME NEW M, M \subseteq Usable PROVE IsFiniteSet(M) /\ Cardinality(M) \in Nat
  <1>1. SegmentPages * Segments \in Int
    BY PagesAssumption, Products
  <1>2. IsFiniteSet(Usable)
    BY <1>1, FS_Interval DEF Usable
  <1>3. IsFiniteSet(M)
    BY <1>2, FS_Subset
  <1>4. QED BY <1>3, FS_CardinalityType

\* pages of two sets without one in common are counted apart
LEMMA ApartCounted ==
  ASSUME NEW S, NEW T, IsFiniteSet(S), IsFiniteSet(T), S \cap T = {}
  PROVE  Cardinality(S \cup T) = Cardinality(S) + Cardinality(T)
  <1>1. Cardinality(S \cap T) = 0
    BY FS_EmptySet
  <1>2. Cardinality(S) \in Nat /\ Cardinality(T) \in Nat
    BY FS_CardinalityType
  <1>3. Cardinality(S \cup T) = Cardinality(S) + Cardinality(T) - Cardinality(S \cap T)
    BY FS_Union
  <1>4. QED BY <1>1, <1>2, <1>3

\* pages that are mapped are in hand
LEMMA MMapLedger ==
  ASSUME NEW x, NEW G, Ledger(x, G), NEW n \in Nat \ {0}, NEW t \in MMap(x, n)
  PROVE  Ledger(t[1], G \cup Run(t[2], n)) /\ Run(t[2], n) \cap G = {}
  <1>1. x \in Pcbs /\ Measured(x) /\ CacheFits(x) /\ x.mapped \subseteq Usable /\ x.total = Cardinality(x.mapped)
    BY DEF Ledger
  <1>2. Split(x.mapped, Typed(x), ToSet(x.cached), x.protected, G)
    BY DEF Ledger
  <1>3. PICK y, b : y = t[1] /\ b = t[2]
    OBVIOUS
  <1>4. /\ y \in Pcbs /\ SameUses(x, y)
        /\ b \in Nat /\ Run(b, n) \subseteq Usable
        /\ Run(b, n) \cap x.mapped = {}
        /\ y.mapped = x.mapped \cup Run(b, n)
        /\ y.total = x.total + n
    BY <1>1, <1>3, MMapEffect
  <1>5. Typed(y) = Typed(x) /\ y.cached = x.cached /\ y.protected = x.protected /\ Measured(y) /\ CacheFits(y)
    BY <1>1, <1>4, SameUsesKeep
  <1>6. IsFiniteSet(Run(b, n)) /\ Cardinality(Run(b, n)) = n
    BY <1>4, RunIn
  <1>7. IsFiniteSet(x.mapped) /\ Cardinality(x.mapped) \in Nat
    BY <1>1, UsableFinite
  <1>8. Cardinality(y.mapped) = Cardinality(x.mapped) + n
    <2>1. x.mapped \cap Run(b, n) = {}
      BY <1>4
    <2>2. Cardinality(x.mapped \cup Run(b, n)) = Cardinality(x.mapped) + Cardinality(Run(b, n))
      BY <1>6, <1>7, <2>1, ApartCounted
    <2>3. QED BY <1>4, <1>6, <2>2
  <1>9. Split(y.mapped, Typed(y), ToSet(y.cached), y.protected, G \cup Run(b, n)) /\ Run(b, n) \cap G = {}
    BY <1>2, <1>4, <1>5 DEF Split
  <1>10. y.mapped \subseteq Usable
    BY <1>1, <1>4
  <1>11. Ledger(y, G \cup Run(b, n))
    BY <1>1, <1>4, <1>5, <1>8, <1>9, <1>10 DEF Ledger
  <1>12. QED BY <1>3, <1>9, <1>11

\* pages in hand may be given back
LEMMA MUnmapLedger ==
  ASSUME NEW x, NEW G, Ledger(x, G), NEW b \in Int, NEW n \in Nat, Run(b, n) \subseteq G
  PROVE  /\ Ledger(MUnmap(x, b, n), G \ Run(b, n))
         /\ MUnmap(x, b, n).failed = x.failed
         /\ MUnmap(x, b, n).mapped = x.mapped \ Run(b, n)
  <1>1. x \in Pcbs /\ Measured(x) /\ CacheFits(x) /\ x.mapped \subseteq Usable /\ x.total = Cardinality(x.mapped)
    BY DEF Ledger
  <1>2. Split(x.mapped, Typed(x), ToSet(x.cached), x.protected, G)
    BY DEF Ledger
  <1>3. PICK y : y = MUnmap(x, b, n)
    OBVIOUS
  <1>4. /\ y \in Pcbs /\ SameUses(x, y)
        /\ y.mapped = x.mapped \ Run(b, n)
        /\ y.total = x.total - n
        /\ y.failed = (x.failed \/ ~(Run(b, n) \subseteq x.mapped))
    BY <1>1, <1>3, MUnmapEffect
  <1>5. Typed(y) = Typed(x) /\ y.cached = x.cached /\ y.protected = x.protected /\ Measured(y) /\ CacheFits(y)
    BY <1>1, <1>4, SameUsesKeep
  <1>6. IsFiniteSet(Run(b, n)) /\ Cardinality(Run(b, n)) = n
    BY RunIn
  <1>7. IsFiniteSet(x.mapped) /\ Cardinality(x.mapped) \in Nat
    BY <1>1, UsableFinite
  <1>8. Run(b, n) \subseteq x.mapped
    BY <1>2 DEF Split
  <1>9. Cardinality(y.mapped) = Cardinality(x.mapped) - n
    <2>1. x.mapped \cap Run(b, n) = Run(b, n)
      BY <1>8
    <2>2. Cardinality(x.mapped \ Run(b, n)) = Cardinality(x.mapped) - Cardinality(x.mapped \cap Run(b, n))
      BY <1>7, FS_Difference
    <2>3. QED BY <1>4, <1>6, <2>1, <2>2
  <1>10. Split(y.mapped, Typed(y), ToSet(y.cached), y.protected, G \ Run(b, n))
    BY <1>2, <1>4, <1>5 DEF Split
  <1>11. y.mapped \subseteq Usable
    BY <1>1, <1>4
  <1>12. Ledger(y, G \ Run(b, n))
    BY <1>1, <1>4, <1>5, <1>9, <1>10, <1>11 DEF Ledger
  <1>13. x.failed \in BOOLEAN
    BY <1>1 DEF Pcbs
  <1>14. y.failed = x.failed
    BY <1>4, <1>8, <1>13
  <1>15. QED BY <1>3, <1>4, <1>12, <1>14

-----------------------------------------------------------------------------
(* Words of the segment table are written *)

\* a table some words of which are overwritten is a table
LEMMA WrittenInTables ==
  ASSUME NEW x \in Pcbs, Measured(x), NEW S, NEW e, e \in [DOMAIN x.table -> Words]
  PROVE  Written(x, S, e) \in Tables
  <1> DEFINE k == TablePages(x) * SegmentPages
             T == Written(x, S, e)
  <1>1. x.table \in [0 .. k - 1 -> Words]
    BY DEF Measured
  <1>2. k \in Nat
    <2>1. x.memory_end \in Nat /\ x.memory_base \in Nat /\ x.memory_base <= x.memory_end
      BY DEF Pcbs, Measured
    <2>2. TablePages(x) \in Nat
      BY <2>1 DEF TablePages
    <2>3. QED BY <2>2, PagesAssumption, Products
  <1> HIDE DEF k
  <1>3. T \in [0 .. k - 1 -> Words]
    BY <1>1 DEF Written
  <1>4. QED BY <1>2, <1>3 DEF Tables

\* only the entries differ, and what an assertion says of them
SameMemory(x, y) ==
  /\ y.mapped = x.mapped /\ y.total = x.total /\ Areas(y) = Areas(x)
  /\ Homes(y) = Homes(x) /\ y.protected = x.protected
  /\ y.memory_base = x.memory_base /\ y.memory_end = x.memory_end

\* e, known to be dirty if d is
Dirtied(e, d) == [e EXCEPT !.dirty = d.dirty]

\* set_segment_type changes the words of a run of pages
LEMMA SetTypeEffect ==
  ASSUME NEW x \in Pcbs, Measured(x), NEW b \in Int, NEW n \in Int, NEW w \in Words
  PROVE  LET y == SetType(x, b, n, w) IN
         /\ y \in Pcbs /\ Measured(y) /\ SameMemory(x, y) /\ Cache(y) = Cache(x)
         /\ Covered(y) = Covered(x)
         /\ y.failed = (x.failed \/ ~(Run(b, n) \subseteq Covered(x)))
         /\ \A p \in Covered(x) : Now(y, p) = IF p \in Run(b, n) THEN Dirtied(w, Now(x, p)) ELSE Now(x, p)
         /\ \A p : p \notin Covered(x) => Now(y, p) = Hole /\ Now(x, p) = Hole
  <1> DEFINE T == [i \in DOMAIN x.table |-> IF i \in Run(At(x, b), n) THEN [w EXCEPT !.dirty = x.table[i].dirty] ELSE x.table[i]]
             e == [i \in DOMAIN x.table |-> [w EXCEPT !.dirty = x.table[i].dirty]]
             f == (x.failed \/ ~(Run(b, n) \subseteq Covered(x)))
             y == [x EXCEPT !.table = T, !.failed = f]
  <1>1. SetType(x, b, n, w) = y
    BY DEF SetType
  <1>2. e \in [DOMAIN x.table -> Words]
    <2>1. ASSUME NEW i \in DOMAIN x.table PROVE [w EXCEPT !.dirty = x.table[i].dirty] \in Words
      <3>1. x.table[i] \in Words
        BY DEF Measured
      <3>2. QED BY <3>1 DEF Words
    <2>2. QED BY <2>1
  <1>3. T = Written(x, Run(At(x, b), n), e)
    BY DEF Written
  <1>4. T \in Tables
    <2> HIDE DEF T, e
    <2>1. QED BY <1>2, <1>3, WrittenInTables
  <1>5. f \in BOOLEAN
    OBVIOUS
  <1>6. \A p \in Covered(x) : e[At(x, p)] = Dirtied(w, Now(x, p))
    <2>1. \A p \in Covered(x) : At(x, p) \in DOMAIN x.table
      BY EntryIn
    <2>2. QED BY <2>1 DEF Dirtied, Now, Entry
  <1> HIDE DEF T, e, f
  <1>7. y \in Pcbs
    BY <1>4, <1>5 DEF Pcbs
  <1>8. SameMemory(x, y) /\ Cache(y) = Cache(x) /\ y.failed = f /\ y.table = T
        /\ y.memory_base = x.memory_base /\ y.memory_end = x.memory_end
    BY DEF SameMemory, Areas, Homes, Cache, Pcbs
  <1> HIDE DEF y
  <1>9. /\ Measured(y) /\ Covered(y) = Covered(x)
        /\ \A p \in Covered(x) : Now(y, p) = IF p \in Run(b, n) THEN e[At(x, p)] ELSE Now(x, p)
        /\ \A p : p \notin Covered(x) => Now(y, p) = Hole /\ Now(x, p) = Hole
    BY <1>2, <1>3, <1>7, <1>8, TableWritten
  <1>10. \A p \in Covered(x) : Now(y, p) = IF p \in Run(b, n) THEN Dirtied(w, Now(x, p)) ELSE Now(x, p)
    BY <1>6, <1>9
  <1>11. QED BY <1>1, <1>7, <1>8, <1>9, <1>10 DEF f

\* the pages ik_munmap_from_segment puts into the cache, the last one first
LEMMA HeadsOfRun ==
  ASSUME NEW b \in Int, NEW k \in Nat
  PROVE  LET s == Reverse([i \in 1 .. k |-> b + i - 1]) IN
         /\ s \in Seq(Int) /\ Len(s) = k
         /\ ToSet(s) = Run(b, k)
         /\ \A i, j \in 1 .. k : s[i] = s[j] => i = j
  <1> DEFINE q == [i \in 1 .. k |-> b + i - 1]
             s == [i \in 1 .. k |-> b + k - i]
  <1>1. q \in Seq(Int) /\ Len(q) = k
    OBVIOUS
  <1>2. Reverse(q) = [i \in 1 .. k |-> q[(k - i) + 1]]
    BY <1>1 DEF Reverse
  <1>3. \A i \in 1 .. k : (k - i) + 1 \in 1 .. k /\ q[(k - i) + 1] = b + k - i
    OBVIOUS
  <1>4. Reverse(q) = s
    <2> HIDE DEF q
    <2>1. QED BY <1>2, <1>3
  <1>5. s \in Seq(Int) /\ Len(s) = k
    OBVIOUS
  <1>6. \A i, j \in 1 .. k : s[i] = s[j] => i = j
    OBVIOUS
  <1>7. ToSet(s) = Run(b, k)
    <2>1. ToSet(s) = {s[i] : i \in 1 .. k}
      BY <1>5 DEF ToSet
    <2>2. ASSUME NEW p \in Run(b, k) PROVE p \in ToSet(s)
      <3>1. p \in Int /\ b <= p /\ p < b + k
        BY RunIn
      <3>2. b + k - p \in 1 .. k /\ s[b + k - p] = p
        BY <3>1
      <3>3. QED BY <2>1, <3>2
    <2>3. ASSUME NEW i \in 1 .. k PROVE s[i] \in Run(b, k)
      <3>1. s[i] = b + k - i
        OBVIOUS
      <3>2. QED BY <3>1, RunIn
    <2>4. QED BY <2>1, <2>2, <2>3
  <1>8. QED BY <1>4, <1>5, <1>6, <1>7

\* the cache after some are put in front
LEMMA FrontCached ==
  ASSUME NEW s \in Seq(Int), NEW t \in Seq(Int)
  PROVE  /\ s \o t \in Seq(Int) /\ Len(s \o t) = Len(s) + Len(t)
         /\ ToSet(s \o t) = ToSet(s) \cup ToSet(t)
         /\ (/\ \A i, j \in 1 .. Len(s) : s[i] = s[j] => i = j
             /\ \A i, j \in 1 .. Len(t) : t[i] = t[j] => i = j
             /\ ToSet(s) \cap ToSet(t) = {})
            => \A i, j \in 1 .. Len(s \o t) : (s \o t)[i] = (s \o t)[j] => i = j
  <1> DEFINE a == Len(s)
             c == Len(t)
             u == s \o t
  <1>1. a \in Nat /\ c \in Nat /\ u \in Seq(Int) /\ Len(u) = a + c
    OBVIOUS
  <1>2. \A i \in 1 .. a + c : u[i] = IF i <= a THEN s[i] ELSE t[i - a]
    OBVIOUS
  <1>3. ToSet(u) = {u[i] : i \in 1 .. a + c} /\ ToSet(s) = {s[i] : i \in 1 .. a} /\ ToSet(t) = {t[i] : i \in 1 .. c}
    <2>1. ToSet(s) = {s[i] : i \in 1 .. a} /\ ToSet(t) = {t[i] : i \in 1 .. c}
      BY DEF ToSet
    <2> HIDE DEF u
    <2>2. ToSet(u) = {u[i] : i \in DOMAIN u}
      BY DEF ToSet
    <2>3. PICK e : e = Len(u)
      OBVIOUS
    <2>4. DOMAIN u = 1 .. e /\ e = a + c
      BY <1>1, <2>3
    <2>5. ToSet(u) = {u[i] : i \in 1 .. a + c}
      BY <2>2, <2>4, Zenon
    <2>6. QED BY <2>1, <2>5
  <1> HIDE DEF u, a, c
  <1>4. \A i \in 1 .. a : i \in 1 .. a + c /\ u[i] = s[i]
    BY <1>1, <1>2
  <1>5. \A i \in 1 .. c : i + a \in 1 .. a + c /\ u[i + a] = t[i]
    BY <1>1, <1>2
  <1>6. \A i \in 1 .. a + c : \/ i \in 1 .. a /\ u[i] = s[i]
                              \/ i - a \in 1 .. c /\ u[i] = t[i - a] /\ ~(i <= a)
    BY <1>1, <1>2
  <1>7. ToSet(u) = ToSet(s) \cup ToSet(t)
    <2>1. \A x \in ToSet(s) \cup ToSet(t) : x \in ToSet(u)
      BY <1>3, <1>4, <1>5
    <2>2. \A x \in ToSet(u) : x \in ToSet(s) \cup ToSet(t)
      BY <1>3, <1>6
    <2>3. QED BY <2>1, <2>2
  <1>8. ASSUME \A i, j \in 1 .. a : s[i] = s[j] => i = j, \A i, j \in 1 .. c : t[i] = t[j] => i = j,
               ToSet(s) \cap ToSet(t) = {}
        PROVE  \A i, j \in 1 .. a + c : u[i] = u[j] => i = j
    <2>1. TAKE i, j \in 1 .. a + c
    <2>2. \A k \in 1 .. a : s[k] \in ToSet(s)
      BY <1>3
    <2>3. \A k \in 1 .. c : t[k] \in ToSet(t)
      BY <1>3
    <2>4. \A k \in 1 .. a, l \in 1 .. c : s[k] # t[l]
      BY <1>8, <2>2, <2>3
    <2>8. a \in Nat /\ c \in Nat /\ i \in Int /\ j \in Int
      BY <1>1
    <2>9. ASSUME NEW k \in 1 .. a, NEW l \in 1 .. a + c, l \notin 1 .. a PROVE u[k] # u[l]
      <3>1. l - a \in 1 .. c /\ u[l] = t[l - a]
        BY <1>6, <2>9
      <3>2. u[k] = s[k]
        BY <1>4
      <3>3. QED BY <2>4, <3>1, <3>2
    <2>5. CASE i \in 1 .. a
      <3>1. CASE j \in 1 .. a
        BY <1>4, <1>8, <2>5, <3>1
      <3>2. CASE j \notin 1 .. a
        BY <2>5, <2>9, <3>2
      <3>3. QED BY <3>1, <3>2
    <2>6. CASE i \notin 1 .. a
      <3>1. i - a \in 1 .. c /\ u[i] = t[i - a]
        BY <1>6, <2>6
      <3>2. CASE j \in 1 .. a
        BY <2>6, <2>9, <3>2
      <3>3. CASE j \notin 1 .. a
        <4>1. j - a \in 1 .. c /\ u[j] = t[j - a]
          BY <1>6, <3>3
        <4>2. u[i] = u[j] => i - a = j - a
          BY <1>8, <3>1, <4>1
        <4>3. QED BY <1>1, <4>2
      <3>4. QED BY <3>2, <3>3
    <2>7. QED BY <2>5, <2>6
  <1> USE DEF u, a, c
  <1>9. QED BY <1>1, <1>7, <1>8

\* the pages of R, some of them in G, may be given a type
May(x, G, R) == R \subseteq Covered(x) /\ R \subseteq Typed(x) \cup G
\* y is x after those at b were
Becomes(x, y, G, b, n, w) ==
  /\ Ledger(y, G \ Run(b, n)) /\ SameMemory(x, y)
  /\ Covered(y) = Covered(x)
  /\ y.failed = x.failed
  /\ \A p : Now(y, p) = IF p \in Run(b, n) THEN Dirtied(w, Now(x, p)) ELSE Now(x, p)

\* pages in hand, or of another type, get a type
LEMMA SetTypeLedger ==
  ASSUME NEW x, NEW G, Ledger(x, G), NEW b \in Int, NEW n \in Int, NEW w \in Words,
         w.type # "hole", May(x, G, Run(b, n))
  PROVE  Becomes(x, SetType(x, b, n, w), G, b, n, w)
  <1>0. Run(b, n) \subseteq Covered(x) /\ Run(b, n) \subseteq Typed(x) \cup G
    BY DEF May
  <1>1. x \in Pcbs /\ Measured(x) /\ CacheFits(x) /\ x.mapped \subseteq Usable /\ x.total = Cardinality(x.mapped)
        /\ Split(x.mapped, Typed(x), ToSet(x.cached), x.protected, G)
    BY DEF Ledger
  <1>2. PICK y : y = SetType(x, b, n, w)
    OBVIOUS
  <1>3. /\ y \in Pcbs /\ Measured(y) /\ SameMemory(x, y) /\ Cache(y) = Cache(x)
        /\ Covered(y) = Covered(x)
        /\ y.failed = (x.failed \/ ~(Run(b, n) \subseteq Covered(x)))
        /\ \A p \in Covered(x) : Now(y, p) = IF p \in Run(b, n) THEN Dirtied(w, Now(x, p)) ELSE Now(x, p)
        /\ \A p : p \notin Covered(x) => Now(y, p) = Hole /\ Now(x, p) = Hole
    BY <1>1, <1>2, SetTypeEffect
  <1>4. y.failed = x.failed
    <2>1. x.failed \in BOOLEAN
      BY <1>1 DEF Pcbs
    <2>2. QED BY <1>0, <1>3, <2>1
  <1>5. \A p : Now(y, p) = IF p \in Run(b, n) THEN Dirtied(w, Now(x, p)) ELSE Now(x, p)
    BY <1>0, <1>3
  <1>6. \A d : Dirtied(w, d).type = w.type
    BY DEF Dirtied, Words
  <1>7. Typed(y) = Typed(x) \cup Run(b, n)
    <2>1. Run(b, n) \subseteq PageNumber
      BY <1>0, TypedIs DEF Covered
    <2>2. \A p : Now(y, p).type # "hole" <=> p \in Run(b, n) \/ Now(x, p).type # "hole"
      BY <1>5, <1>6
    <2>3. QED BY <2>1, <2>2, TypedIs
  <1>8. y.cached = x.cached /\ y.uncached = x.uncached /\ y.protected = x.protected /\ y.mapped = x.mapped /\ y.total = x.total
    BY <1>3 DEF SameMemory, Cache
  <1>9. CacheFits(y)
    BY <1>1, <1>8 DEF CacheFits
  <1>10. Split(y.mapped, Typed(y), ToSet(y.cached), y.protected, G \ Run(b, n))
    BY <1>0, <1>1, <1>7, <1>8 DEF Split
  <1>11. Ledger(y, G \ Run(b, n))
    BY <1>1, <1>3, <1>8, <1>9, <1>10 DEF Ledger
  <1>12. QED BY <1>2, <1>3, <1>4, <1>5, <1>11 DEF Becomes

\* how many of n pages the cache takes, and what ik_munmap_from_segment does before it unmaps
Taken(x, n) == IF n < x.uncached THEN n ELSE x.uncached

\* ik_munmap_from_segment before the pages go to the cache or back
Released(x, b, n) ==
  [x EXCEPT
     !.failed = @ \/ ~(Run(b, n) \subseteq Typed(x)),
     !.table = [i \in DOMAIN @ |-> IF i \in Run(At(x, b), n) THEN Hole ELSE @[i]],
     !.cached = Reverse([i \in 1 .. Taken(x, n) |-> b + i - 1]) \o @,
     !.uncached = @ - Taken(x, n)]

\* the pages lose their type, and nothing else changes
LEMMA ReleasedEffect ==
  ASSUME NEW x \in Pcbs, Measured(x), NEW b \in Int, NEW n \in Nat
  PROVE  LET y == Released(x, b, n) IN
         /\ y \in Pcbs /\ Measured(y) /\ SameMemory(x, y)
         /\ y.failed = (x.failed \/ ~(Run(b, n) \subseteq Typed(x)))
         /\ y.cached = Reverse([i \in 1 .. Taken(x, n) |-> b + i - 1]) \o x.cached
         /\ y.uncached = x.uncached - Taken(x, n)
         /\ Covered(y) = Covered(x)
         /\ \A p : Now(y, p) = IF p \in Run(b, n) THEN Hole ELSE Now(x, p)
  <1> DEFINE T == Written(x, Run(At(x, b), n), [i \in DOMAIN x.table |-> Hole])
             f == (x.failed \/ ~(Run(b, n) \subseteq Typed(x)))
             c == Reverse([i \in 1 .. Taken(x, n) |-> b + i - 1]) \o x.cached
             u == x.uncached - Taken(x, n)
             y == [x EXCEPT !.failed = f, !.table = T, !.cached = c, !.uncached = u]
  <1>1. Taken(x, n) \in Nat /\ u \in Nat
    <2>1. x.uncached \in Nat
      BY DEF Pcbs
    <2>2. QED BY <2>1 DEF Taken
  <1>2. Released(x, b, n) = y
    <2>1. T = [i \in DOMAIN x.table |-> IF i \in Run(At(x, b), n) THEN Hole ELSE x.table[i]]
      BY DEF Written
    <2>2. QED BY <2>1 DEF Released
  <1>3. [i \in DOMAIN x.table |-> Hole] \in [DOMAIN x.table -> Words]
    BY DEF Hole, Word, Words
  <1>4. T \in Tables
    BY <1>3, WrittenInTables
  <1>5. f \in BOOLEAN
    OBVIOUS
  <1>6. c \in Seq(Int)
    <2>1. x.cached \in Seq(Int)
      BY DEF Pcbs
    <2>2. QED BY <1>1, <2>1, HeadsOfRun, FrontCached
  <1>10. \A p \in Covered(x) : [i \in DOMAIN x.table |-> Hole][At(x, p)] = Hole
    BY EntryIn
  <1>11. T = Written(x, Run(At(x, b), n), [i \in DOMAIN x.table |-> Hole])
    OBVIOUS
  <1> HIDE DEF T, c, f, u
  <1>7. y \in Pcbs
    BY <1>1, <1>4, <1>5, <1>6 DEF Pcbs
  <1>8. /\ SameMemory(x, y) /\ y.failed = f /\ y.table = T /\ y.cached = c /\ y.uncached = u
        /\ y.memory_base = x.memory_base /\ y.memory_end = x.memory_end
    BY DEF SameMemory, Areas, Homes, Pcbs
  <1> HIDE DEF y
  <1>9. /\ Measured(y) /\ Covered(y) = Covered(x)
        /\ \A p \in Covered(x) : Now(y, p) = IF p \in Run(b, n) THEN Hole ELSE Now(x, p)
        /\ \A p : p \notin Covered(x) => Now(y, p) = Hole /\ Now(x, p) = Hole
    <2> DEFINE e == [i \in DOMAIN x.table |-> Hole]
    <2>1. /\ e \in [DOMAIN x.table -> Words] /\ y.table = Written(x, Run(At(x, b), n), e)
          /\ \A p \in Covered(x) : e[At(x, p)] = Hole
      BY <1>3, <1>8, <1>10, <1>11
    <2> HIDE DEF e
    <2>2. /\ Measured(y) /\ Covered(y) = Covered(x)
          /\ \A p \in Covered(x) : Now(y, p) = IF p \in Run(b, n) THEN e[At(x, p)] ELSE Now(x, p)
          /\ \A p : p \notin Covered(x) => Now(y, p) = Hole /\ Now(x, p) = Hole
      BY <1>7, <1>8, <2>1, TableWritten
    <2>3. QED BY <2>1, <2>2
  <1>12. \A p : Now(y, p) = IF p \in Run(b, n) THEN Hole ELSE Now(x, p)
    BY <1>9
  <1>13. y.failed = f /\ y.cached = c /\ y.uncached = u
    BY <1>8
  <1>14. QED BY <1>2, <1>7, <1>8, <1>9, <1>12, <1>13 DEF f, c, u

\* y is x after the pages of R, which had types, were freed
Freed(x, y, G, R) ==
  /\ Ledger(y, G)
  /\ Areas(y) = Areas(x) /\ Homes(y) = Homes(x) /\ y.protected = x.protected
  /\ y.memory_base = x.memory_base /\ y.memory_end = x.memory_end
  /\ y.failed = x.failed
  /\ \A p : Now(y, p) = IF p \in R THEN Hole ELSE Now(x, p)

\* pages that lose their type are in the cache or are given back
LEMMA UnmapSegmentLedger ==
  ASSUME NEW x, NEW G, Ledger(x, G), NEW b \in Int, NEW n \in Nat, Run(b, n) \subseteq Typed(x)
  PROVE  Freed(x, UnmapSegment(x, b, n), G, Run(b, n))
  <1>1. x \in Pcbs /\ Measured(x) /\ CacheFits(x) /\ x.mapped \subseteq Usable /\ x.total = Cardinality(x.mapped)
        /\ Split(x.mapped, Typed(x), ToSet(x.cached), x.protected, G)
    BY DEF Ledger
  <1>2. PICK y : y = Released(x, b, n)
    OBVIOUS
  <1>3. PICK k : k = Taken(x, n)
    OBVIOUS
  <1>4. UnmapSegment(x, b, n) = IF k = n THEN y ELSE MUnmap(y, b + k, n - k)
    BY <1>2, <1>3 DEF UnmapSegment, Released, Taken
  <1> DEFINE r == Reverse([i \in 1 .. k |-> b + i - 1])
  <1>5. /\ y \in Pcbs /\ Measured(y) /\ SameMemory(x, y)
        /\ y.failed = (x.failed \/ ~(Run(b, n) \subseteq Typed(x)))
        /\ y.cached = r \o x.cached
        /\ y.uncached = x.uncached - k
        /\ Covered(y) = Covered(x)
        /\ \A p : Now(y, p) = IF p \in Run(b, n) THEN Hole ELSE Now(x, p)
    BY <1>1, <1>2, <1>3, ReleasedEffect
  <1>6. x.uncached \in Nat /\ x.cached \in Seq(Int) /\ x.failed \in BOOLEAN
    BY <1>1 DEF Pcbs
  <1>7. k \in Nat /\ k <= n /\ k <= x.uncached
    BY <1>3, <1>6 DEF Taken
  <1>8. /\ r \in Seq(Int) /\ Len(r) = k /\ ToSet(r) = Run(b, k)
        /\ \A i, j \in 1 .. k : r[i] = r[j] => i = j
    BY <1>7, HeadsOfRun
  <1> HIDE DEF r
  <1>9. Run(b, n) = Run(b, k) \cup Run(b + k, n - k) /\ Run(b, k) \cap Run(b + k, n - k) = {}
    <2>1. Run(b, n) \subseteq Int /\ Run(b, k) \subseteq Int /\ Run(b + k, n - k) \subseteq Int
      BY <1>7, RunIn
    <2>2. /\ \A p \in Int : p \in Run(b, n) <=> b <= p /\ p < b + n
          /\ \A p \in Int : p \in Run(b, k) <=> b <= p /\ p < b + k
          /\ \A p \in Int : p \in Run(b + k, n - k) <=> b + k <= p /\ p < (b + k) + (n - k)
      BY <1>7, RunIn
    <2>3. \A p \in Int : p \in Run(b, n) <=> p \in Run(b, k) \/ p \in Run(b + k, n - k)
      BY <1>7, <2>2
    <2>4. \A p \in Int : ~(p \in Run(b, k) /\ p \in Run(b + k, n - k))
      BY <1>7, <2>2
    <2>5. QED BY <2>1, <2>3, <2>4
  <1>10. ToSet(r) \cap ToSet(x.cached) = {}
    BY <1>1, <1>8, <1>9 DEF Split
  <1>11. /\ ToSet(y.cached) = Run(b, k) \cup ToSet(x.cached)
         /\ Len(y.cached) = k + Len(x.cached)
         /\ \A i, j \in 1 .. Len(y.cached) : y.cached[i] = y.cached[j] => i = j
    <2>1. \A i, j \in 1 .. Len(x.cached) : x.cached[i] = x.cached[j] => i = j
      BY <1>1 DEF CacheFits
    <2>2. \A i, j \in 1 .. Len(r) : r[i] = r[j] => i = j
      BY <1>8
    <2>3. /\ Len(r \o x.cached) = Len(r) + Len(x.cached)
          /\ ToSet(r \o x.cached) = ToSet(r) \cup ToSet(x.cached)
          /\ \A i, j \in 1 .. Len(r \o x.cached) : (r \o x.cached)[i] = (r \o x.cached)[j] => i = j
      BY <1>6, <1>8, <1>10, <2>1, <2>2, FrontCached
    <2>4. QED BY <1>5, <1>8, <2>3
  <1>12. CacheFits(y)
    <2>1. Len(x.cached) + x.uncached = CacheSize /\ Len(x.cached) \in Nat
      BY <1>1, <1>6 DEF CacheFits
    <2>2. Len(y.cached) + y.uncached = CacheSize
      BY <1>5, <1>6, <1>7, <1>11, <2>1
    <2>3. QED BY <1>11, <2>2 DEF CacheFits
  <1>13. Typed(y) = Typed(x) \ Run(b, n)
    <2>1. Hole.type = "hole"
      BY DEF Hole, Word
    <2>2. \A p : Now(y, p).type # "hole" <=> p \notin Run(b, n) /\ Now(x, p).type # "hole"
      BY <1>5, <2>1
    <2>3. QED BY <2>2, TypedIs
  <1>14. y.protected = x.protected /\ y.mapped = x.mapped /\ y.total = x.total /\ Areas(y) = Areas(x)
         /\ Homes(y) = Homes(x) /\ y.memory_base = x.memory_base /\ y.memory_end = x.memory_end
    BY <1>5 DEF SameMemory
  <1>15. y.failed = x.failed
    BY <1>5, <1>6
  <1>16. Split(y.mapped, Typed(y), ToSet(y.cached), y.protected, G \cup Run(b + k, n - k))
    BY <1>1, <1>9, <1>11, <1>13, <1>14 DEF Split
  <1>17. Ledger(y, G \cup Run(b + k, n - k))
    BY <1>1, <1>5, <1>12, <1>14, <1>16 DEF Ledger
  <1>18. G \cap Run(b + k, n - k) = {}
    BY <1>1, <1>9 DEF Split
  <1>19. CASE k = n
    <2>1. Run(b + k, n - k) = {}
      BY <1>7, <1>19 DEF Run
    <2>2. Ledger(y, G)
      BY <1>17, <2>1
    <2>3. QED BY <1>4, <1>5, <1>14, <1>15, <1>19, <2>2 DEF Freed
  <1>20. CASE k # n
    <2>1. PICK z : z = MUnmap(y, b + k, n - k)
      OBVIOUS
    <2>2. b + k \in Int /\ n - k \in Nat
      BY <1>7
    <2>3. Ledger(z, (G \cup Run(b + k, n - k)) \ Run(b + k, n - k)) /\ z.failed = y.failed
      BY <1>17, <2>1, <2>2, MUnmapLedger
    <2>4. (G \cup Run(b + k, n - k)) \ Run(b + k, n - k) = G
      BY <1>18
    <2>5. SameUses(y, z)
      BY <1>5, <2>1, <2>2, MUnmapEffect
    <2>6. Areas(z) = Areas(y) /\ Homes(z) = Homes(y) /\ z.protected = y.protected /\ TableFields(y) = TableFields(z)
      BY <2>5 DEF SameUses
    <2>7. z.memory_base = y.memory_base /\ z.memory_end = y.memory_end
      BY <2>6 DEF TableFields
    <2>8. \A p : Now(z, p) = Now(y, p)
      BY <2>6, TableSame
    <2>9. Ledger(z, G)
      BY <2>3, <2>4
    <2>10. UnmapSegment(x, b, n) = z
      BY <1>4, <1>20, <2>1
    <2>11. QED BY <1>5, <1>14, <1>15, <2>3, <2>6, <2>7, <2>8, <2>9, <2>10 DEF Freed
  <1>21. QED BY <1>19, <1>20

-----------------------------------------------------------------------------
(* The tables move *)

\* a longer table says the same of every page, and nothing of those that are new
LEMMA RelaidEffect ==
  ASSUME NEW x \in Pcbs, Measured(x), NEW lo \in Nat, NEW hi \in Nat,
         lo <= x.memory_base, x.memory_end <= hi, hi <= Segments
  PROVE  LET y == Relaid(x, lo, hi) IN
         /\ y \in Pcbs /\ Measured(y)
         /\ y.mapped = x.mapped /\ y.total = x.total /\ y.failed = x.failed
         /\ Areas(y) = Areas(x) /\ Homes(y) = Homes(x) /\ Cache(y) = Cache(x) /\ y.protected = x.protected
         /\ y.memory_base = lo /\ y.memory_end = hi
         /\ \A p : Now(y, p) = Now(x, p)
  <1>1. x.memory_base \in Nat /\ x.memory_end \in Nat /\ x.memory_base <= x.memory_end
    BY DEF Pcbs, Measured
  <1>2. SegmentPages \in Nat \ {0} /\ Segments \in Nat
    BY PagesAssumption
  <1> DEFINE B == x.memory_base * SegmentPages
             E == x.memory_end * SegmentPages
             L == lo * SegmentPages
             U == hi * SegmentPages
             T == Copied(x.table, TablePages(x), hi - lo, x.memory_base - lo)
             y == Relaid(x, lo, hi)
  <1>3. B \in Nat /\ E \in Nat /\ L \in Nat /\ U \in Nat /\ L <= B /\ B <= E /\ E <= U
    BY <1>1, <1>2, Products
  <1>4. TablePages(x) * SegmentPages = E - B
    BY <1>1, <1>2, Products DEF TablePages
  <1>5. (hi - lo) * SegmentPages = U - L /\ (x.memory_base - lo) * SegmentPages = B - L
    BY <1>1, <1>2, Products
  <1> HIDE DEF B, E, L, U
  <1>6. x.table \in [0 .. (E - B) - 1 -> Words]
    BY <1>4 DEF Measured
  <1>7. T = [i \in 0 .. (U - L) - 1 |-> IF i - (B - L) \in 0 .. (E - B) - 1 THEN x.table[i - (B - L)] ELSE Hole]
    BY <1>4, <1>5 DEF Copied
  <1>8. Hole \in Words
    BY DEF Hole, Word, Words
  <1>9. T \in [0 .. (U - L) - 1 -> Words]
    <2> HIDE DEF T
    <2>1. QED BY <1>6, <1>7, <1>8
  <1>10. T \in Tables
    <2>1. U - L \in Nat
      BY <1>3
    <2> HIDE DEF T
    <2>2. QED BY <1>9, <2>1 DEF Tables
  <1>11. y = [x EXCEPT !.memory_base = lo, !.memory_end = hi, !.table = T]
    BY DEF Relaid
  <1> HIDE DEF T, y
  <1>12. y \in Pcbs
    BY <1>10, <1>11 DEF Pcbs
  <1>13. y.memory_base = lo /\ y.memory_end = hi /\ y.table = T
    BY <1>11 DEF Pcbs
  <1>14. /\ y.mapped = x.mapped /\ y.total = x.total /\ y.failed = x.failed
         /\ Areas(y) = Areas(x) /\ Homes(y) = Homes(x) /\ Cache(y) = Cache(x) /\ y.protected = x.protected
    BY <1>11 DEF Pcbs, Areas, Homes, Cache
  <1>15. TablePages(y) * SegmentPages = U - L
    BY <1>5, <1>13 DEF TablePages
  <1>16. Measured(y)
    BY <1>1, <1>9, <1>13, <1>15 DEF Measured
  <1>17. /\ \A p : p \in Covered(x) <=> p \in PageNumber /\ B <= p /\ p < E
         /\ \A p : p \in Covered(y) <=> p \in PageNumber /\ L <= p /\ p < U
    BY <1>12, <1>13, CoveredIs DEF B, E, L, U
  <1>18. \A p \in PageNumber : p \in Nat
    BY <1>2 DEF PageNumber
  <1>19. \A p : At(x, p) = p - B /\ At(y, p) = p - L
    BY <1>13 DEF At, B, L
  <1>20. ASSUME NEW p PROVE Now(y, p) = Now(x, p)
    <2>1. CASE p \in Covered(y)
      <3>1. p \in Nat /\ L <= p /\ p < U /\ p \in PageNumber
        BY <1>17, <1>18, <2>1
      <3>2. p - L \in 0 .. (U - L) - 1 /\ (p - L) - (B - L) = p - B
        BY <1>3, <3>1
      <3>3. T[p - L] = IF p - B \in 0 .. (E - B) - 1 THEN x.table[p - B] ELSE Hole
        BY <1>7, <3>2
      <3>4. p - B \in 0 .. (E - B) - 1 <=> p \in Covered(x)
        BY <1>3, <1>17, <3>1
      <3>5. Now(y, p) = T[p - L]
        BY <1>13, <1>19, <2>1 DEF Now, Entry
      <3>6. Now(x, p) = IF p \in Covered(x) THEN x.table[p - B] ELSE Hole
        BY <1>19 DEF Now, Entry
      <3>7. QED BY <3>3, <3>4, <3>5, <3>6
    <2>2. CASE p \notin Covered(y)
      <3>1. p \notin Covered(x)
        BY <1>3, <1>17, <1>18, <2>2
      <3>2. QED BY <2>2, <3>1 DEF Now
    <2>3. QED BY <2>1, <2>2
  <1>21. QED BY <1>12, <1>13, <1>14, <1>16, <1>20 DEF y

\* the same words, the same pages that have a type
LEMMA NowTyped ==
  ASSUME NEW x, NEW y, \A p : Now(y, p) = Now(x, p)
  PROVE  Typed(y) = Typed(x)
  BY TypedIs

\* a table of the run time is elsewhere
LEMMA HomeEffect ==
  ASSUME NEW x \in Pcbs, NEW b \in Int
  PROVE  /\ LET y == [x EXCEPT !.dirty_vector_base = b] IN
            /\ y \in Pcbs /\ y.mapped = x.mapped /\ y.total = x.total /\ y.failed = x.failed
            /\ TableFields(y) = TableFields(x) /\ Areas(y) = Areas(x) /\ Cache(y) = Cache(x) /\ y.protected = x.protected
            /\ Homes(y) = <<b, x.segment_vector_base, x.cached_pages_base>>
         /\ LET y == [x EXCEPT !.segment_vector_base = b] IN
            /\ y \in Pcbs /\ y.mapped = x.mapped /\ y.total = x.total /\ y.failed = x.failed
            /\ TableFields(y) = TableFields(x) /\ Areas(y) = Areas(x) /\ Cache(y) = Cache(x) /\ y.protected = x.protected
            /\ Homes(y) = <<x.dirty_vector_base, b, x.cached_pages_base>>
         /\ LET y == [x EXCEPT !.cached_pages_base = b] IN
            /\ y \in Pcbs /\ y.mapped = x.mapped /\ y.total = x.total /\ y.failed = x.failed
            /\ TableFields(y) = TableFields(x) /\ Areas(y) = Areas(x) /\ Cache(y) = Cache(x) /\ y.protected = x.protected
            /\ Homes(y) = <<x.dirty_vector_base, x.segment_vector_base, b>>
  BY DEF Pcbs, TableFields, Areas, Cache, Homes

\* what a ledger is about is the same
LEMMA LedgerSame ==
  ASSUME NEW x, NEW y \in Pcbs, NEW G, Ledger(x, G),
         y.mapped = x.mapped, y.total = x.total, Cache(y) = Cache(x), y.protected = x.protected,
         Measured(y), Typed(y) = Typed(x)
  PROVE  Ledger(y, G)
  <1>1. y.cached = x.cached /\ y.uncached = x.uncached
    BY DEF Cache
  <1>2. CacheFits(y)
    BY <1>1 DEF CacheFits, Ledger
  <1>3. QED BY <1>1, <1>2 DEF Ledger

\* and so it is after two steps
LEMMA SameUsesTransitive ==
  ASSUME NEW x, NEW y, NEW z, SameUses(x, y), SameUses(y, z)
  PROVE  SameUses(x, z)
  BY DEF SameUses

\* G with the pages of N in the place of those of R, and that N is new
Swapped(G, N, R) == (G \cup N) \ R

\* pages of N are none of G
Fresh(N, G) == N \cap G = {}

\* pages are mapped in the place of those at a
LEMMA ReplacedLedger ==
  ASSUME NEW x, NEW G, Ledger(x, G), NEW n \in Nat \ {0}, NEW t \in MMap(x, n),
         NEW a \in Int, NEW k \in Nat, Run(a, k) \subseteq G
  PROVE  LET y == MUnmap(t[1], a, k) IN
         /\ t[2] \in Nat /\ Fresh(Run(t[2], n), G)
         /\ Ledger(y, Swapped(G, Run(t[2], n), Run(a, k)))
         /\ SameUses(x, y) /\ y.failed = x.failed
  <1>1. x \in Pcbs
    BY DEF Ledger
  <1>2. PICK z, b : z = t[1] /\ b = t[2]
    OBVIOUS
  <1>3. z \in Pcbs /\ SameUses(x, z) /\ b \in Nat /\ z.failed = x.failed /\ Run(b, n) \subseteq Usable
    BY <1>1, <1>2, MMapEffect
  <1>4. Ledger(z, G \cup Run(b, n)) /\ Run(b, n) \cap G = {}
    BY <1>2, MMapLedger
  <1>5. PICK y : y = MUnmap(z, a, k)
    OBVIOUS
  <1>6. Ledger(y, (G \cup Run(b, n)) \ Run(a, k)) /\ y.failed = z.failed
    <2>1. Run(a, k) \subseteq G \cup Run(b, n)
      OBVIOUS
    <2>2. QED BY <1>4, <1>5, <2>1, MUnmapLedger
  <1>7. SameUses(z, y)
    BY <1>3, <1>5, MUnmapEffect
  <1>8. SameUses(x, y)
    BY <1>3, <1>7, SameUsesTransitive
  <1>9. QED BY <1>2, <1>3, <1>4, <1>5, <1>6, <1>8 DEF Swapped, Fresh

\* nothing but what is mapped and where the tables are differs
SameEntries(x, y) ==
  /\ TableFields(y) = TableFields(x) /\ Areas(y) = Areas(x) /\ Cache(y) = Cache(x)
  /\ y.protected = x.protected /\ y.failed = x.failed
  /\ y.cached_pages_base = x.cached_pages_base

\* the pages of the dirty vector, and of the segment table
DirtyRun(x) == Run(x.dirty_vector_base, TablePages(x))
SegmentRun(x) == Run(x.segment_vector_base, TablePages(x))

\* the dirty vector moves: its new pages are on the ledger for its old ones
LEMMA DirtyMovedLedger ==
  ASSUME NEW x, NEW G, Ledger(x, G), NEW n \in Nat \ {0}, NEW y \in MoveDirty(x, n),
         TablePages(x) \in Nat, DirtyRun(x) \subseteq G
  PROVE  \E b \in Nat :
         /\ Fresh(Run(b, n), G)
         /\ Ledger(y, Swapped(G, Run(b, n), DirtyRun(x)))
         /\ SameEntries(x, y)
         /\ y.dirty_vector_base = b /\ y.segment_vector_base = x.segment_vector_base
  <1>0. PICK k, a : k = TablePages(x) /\ a = x.dirty_vector_base
    OBVIOUS
  <1>1. a \in Int /\ k \in Nat /\ Run(a, k) \subseteq G
    BY <1>0 DEF Ledger, Pcbs, DirtyRun, SegmentRun
  <1>2. PICK t \in MMap(x, n) : y = [MUnmap(t[1], a, k) EXCEPT !.dirty_vector_base = t[2]]
    BY <1>0 DEF MoveDirty
  <1>3. /\ t[2] \in Nat /\ Fresh(Run(t[2], n), G)
        /\ Ledger(MUnmap(t[1], a, k), Swapped(G, Run(t[2], n), Run(a, k)))
        /\ SameUses(x, MUnmap(t[1], a, k))
        /\ MUnmap(t[1], a, k).failed = x.failed
    BY <1>1, ReplacedLedger
  <1>4. PICK w, b, G1 : w = MUnmap(t[1], a, k) /\ b = t[2] /\ G1 = Swapped(G, Run(t[2], n), Run(a, k))
    OBVIOUS
  <1>5. b \in Nat /\ Fresh(Run(b, n), G) /\ Ledger(w, G1) /\ SameUses(x, w) /\ w.failed = x.failed
        /\ y = [w EXCEPT !.dirty_vector_base = b]
    BY <1>2, <1>3, <1>4
  <1>6. w \in Pcbs /\ b \in Int
    BY <1>5 DEF Ledger
  <1>7. /\ y \in Pcbs /\ y.mapped = w.mapped /\ y.total = w.total /\ y.failed = w.failed
        /\ TableFields(y) = TableFields(w) /\ Areas(y) = Areas(w) /\ Cache(y) = Cache(w) /\ y.protected = w.protected
        /\ Homes(y) = <<b, w.segment_vector_base, w.cached_pages_base>>
    BY <1>5, <1>6, HomeEffect
  <1>8. Ledger(y, G1)
    <2>1. Measured(y) /\ Typed(y) = Typed(w)
      BY <1>5, <1>7, TableSame DEF Ledger
    <2>2. QED BY <1>5, <1>7, <2>1, LedgerSame
  <1>9. SameEntries(x, y) /\ y.dirty_vector_base = b /\ y.segment_vector_base = x.segment_vector_base
    BY <1>5, <1>7 DEF SameUses, SameEntries, Homes
  <1>10. G1 = Swapped(G, Run(b, n), Run(a, k))
    BY <1>4
  <1>11. QED BY <1>0, <1>5, <1>8, <1>9, <1>10 DEF DirtyRun, SegmentRun

\* and so does the segment table
LEMMA SegmentsMovedLedger ==
  ASSUME NEW x, NEW G, Ledger(x, G), NEW n \in Nat \ {0}, NEW y \in MoveSegments(x, n),
         TablePages(x) \in Nat, SegmentRun(x) \subseteq G
  PROVE  \E b \in Nat :
         /\ Fresh(Run(b, n), G)
         /\ Ledger(y, Swapped(G, Run(b, n), SegmentRun(x)))
         /\ SameEntries(x, y)
         /\ y.segment_vector_base = b /\ y.dirty_vector_base = x.dirty_vector_base
  <1>0. PICK k, a : k = TablePages(x) /\ a = x.segment_vector_base
    OBVIOUS
  <1>1. a \in Int /\ k \in Nat /\ Run(a, k) \subseteq G
    BY <1>0 DEF Ledger, Pcbs, DirtyRun, SegmentRun
  <1>2. PICK t \in MMap(x, n) : y = [MUnmap(t[1], a, k) EXCEPT !.segment_vector_base = t[2]]
    BY <1>0 DEF MoveSegments
  <1>3. /\ t[2] \in Nat /\ Fresh(Run(t[2], n), G)
        /\ Ledger(MUnmap(t[1], a, k), Swapped(G, Run(t[2], n), Run(a, k)))
        /\ SameUses(x, MUnmap(t[1], a, k))
        /\ MUnmap(t[1], a, k).failed = x.failed
    BY <1>1, ReplacedLedger
  <1>4. PICK w, b, G1 : w = MUnmap(t[1], a, k) /\ b = t[2] /\ G1 = Swapped(G, Run(t[2], n), Run(a, k))
    OBVIOUS
  <1>5. b \in Nat /\ Fresh(Run(b, n), G) /\ Ledger(w, G1) /\ SameUses(x, w) /\ w.failed = x.failed
        /\ y = [w EXCEPT !.segment_vector_base = b]
    BY <1>2, <1>3, <1>4
  <1>6. w \in Pcbs /\ b \in Int
    BY <1>5 DEF Ledger
  <1>7. /\ y \in Pcbs /\ y.mapped = w.mapped /\ y.total = w.total /\ y.failed = w.failed
        /\ TableFields(y) = TableFields(w) /\ Areas(y) = Areas(w) /\ Cache(y) = Cache(w) /\ y.protected = w.protected
        /\ Homes(y) = <<w.dirty_vector_base, b, w.cached_pages_base>>
    BY <1>5, <1>6, HomeEffect
  <1>8. Ledger(y, G1)
    <2>1. Measured(y) /\ Typed(y) = Typed(w)
      BY <1>5, <1>7, TableSame DEF Ledger
    <2>2. QED BY <1>5, <1>7, <2>1, LedgerSame
  <1>9. SameEntries(x, y) /\ y.segment_vector_base = b /\ y.dirty_vector_base = x.dirty_vector_base
    BY <1>5, <1>7 DEF SameUses, SameEntries, Homes
  <1>10. G1 = Swapped(G, Run(b, n), Run(a, k))
    BY <1>4
  <1>11. QED BY <1>0, <1>5, <1>8, <1>9, <1>10 DEF DirtyRun, SegmentRun

\* the pages of the run time's own tables
Own(x) == ({x.cached_pages_base} \cup DirtyRun(x)) \cup SegmentRun(x)

\* all pages are accounted for, but for those of H, which are in hand
Whole(x, H) ==
  /\ Ledger(x, Own(x) \cup H)
  /\ Split(Own(x) \cup H, {x.cached_pages_base}, DirtyRun(x), SegmentRun(x), H)
  /\ x.stack_base \in Typed(x)

\* what the ledger says of the tables
LEMMA WholeMeasures ==
  ASSUME NEW x, NEW H, Whole(x, H)
  PROVE  /\ x \in Pcbs /\ Measured(x) /\ x.stack_base \in Covered(x)
         /\ TablePages(x) \in Nat \ {0}
         /\ DirtyRun(x) \subseteq Own(x) \cup H /\ SegmentRun(x) \subseteq Own(x) \cup H
         /\ x.dirty_vector_base \in Int /\ x.segment_vector_base \in Int /\ x.cached_pages_base \in Int
  <1>1. x \in Pcbs /\ Measured(x) /\ x.stack_base \in Covered(x)
    BY TypedIs DEF Whole, Ledger
  <1>2. x.memory_base \in Nat /\ x.memory_end \in Nat
        /\ x.dirty_vector_base \in Int /\ x.segment_vector_base \in Int /\ x.cached_pages_base \in Int
    BY <1>1 DEF Pcbs
  <1>3. x.memory_base < x.memory_end
    <2>1. x.memory_base <= SegmentIndex(x.stack_base) /\ SegmentIndex(x.stack_base) < x.memory_end
      BY <1>1 DEF Covered
    <2>2. x.stack_base \in Nat
      BY <1>1, PagesAssumption DEF Covered, PageNumber
    <2>3. SegmentIndex(x.stack_base) \in Nat
      BY <2>2, PagesAssumption, Division DEF SegmentIndex
    <2>4. QED BY <1>2, <2>1, <2>3
  <1>4. QED BY <1>1, <1>2, <1>3 DEF TablePages, Own

\* extend_table_maybe moves both tables, and all pages are accounted for
LEMMA MoveTablesWhole ==
  ASSUME NEW x, NEW H, Whole(x, H), NEW lo \in Nat, NEW hi \in Nat,
         lo <= x.memory_base, x.memory_end <= hi, hi <= Segments,
         NEW y \in MoveTables(x, lo, hi)
  PROVE  /\ Whole(y, H) /\ y.failed = x.failed /\ Areas(y) = Areas(x) /\ y.protected = x.protected
         /\ Cache(y) = Cache(x)
         /\ y.memory_base = lo /\ y.memory_end = hi
         /\ \A p : Now(y, p) = Now(x, p)
  <1> DEFINE old == TablePages(x)
             n == hi - lo
             D == DirtyRun(x)
             S == SegmentRun(x)
             G == Own(x) \cup H
  <1>1. /\ x \in Pcbs /\ Measured(x) /\ old \in Nat \ {0} /\ D \subseteq G /\ S \subseteq G
        /\ x.dirty_vector_base \in Int /\ x.segment_vector_base \in Int /\ x.cached_pages_base \in Int
    BY WholeMeasures
  <1>2. n \in Nat \ {0}
    <2>1. x.memory_base \in Nat /\ x.memory_end \in Nat
      BY <1>1 DEF Pcbs
    <2>2. QED BY <1>1, <2>1 DEF TablePages
  <1>3. Ledger(x, G) /\ Split(G, {x.cached_pages_base}, D, S, H) /\ x.stack_base \in Typed(x)
    BY DEF Whole
  <1>4. D = Run(x.dirty_vector_base, old) /\ S = Run(x.segment_vector_base, old)
    BY DEF DirtyRun, SegmentRun
  <1>5. PICK d, e : d \in MoveDirty(x, n) /\ e \in MoveSegments(d, n) /\ y = Relaid(e, lo, hi)
    BY DEF MoveTables
  <1>6. PICK b \in Nat :
          /\ Fresh(Run(b, n), G) /\ Ledger(d, Swapped(G, Run(b, n), D)) /\ SameEntries(x, d)
          /\ d.dirty_vector_base = b /\ d.segment_vector_base = x.segment_vector_base
    <2>1. Ledger(x, G) /\ DirtyRun(x) \subseteq G /\ TablePages(x) \in Nat /\ d \in MoveDirty(x, n) /\ n \in Nat \ {0}
      BY <1>1, <1>2, <1>3, <1>5
    <2> HIDE DEF G, n
    <2>2. QED BY <2>1, DirtyMovedLedger
  <1>7. TablePages(d) = old
    BY <1>6, TableSame DEF SameEntries
  <1> DEFINE R == Run(b, n)
             G1 == Swapped(G, R, D)
  <1>8. S \subseteq G1
    BY <1>3, <1>6 DEF Split, Swapped, Fresh
  <1>9. PICK c \in Nat :
          /\ Fresh(Run(c, n), G1) /\ Ledger(e, Swapped(G1, Run(c, n), S)) /\ SameEntries(d, e)
          /\ e.segment_vector_base = c /\ e.dirty_vector_base = b
    <2>1. SegmentRun(d) = S
      BY <1>6, <1>7 DEF SegmentRun
    <2>2. Ledger(d, G1) /\ TablePages(d) \in Nat /\ e \in MoveSegments(d, n) /\ n \in Nat \ {0} /\ SegmentRun(d) \subseteq G1
      BY <1>1, <1>2, <1>5, <1>6, <1>7, <1>8, <2>1
    <2> HIDE DEF G1, S, n
    <2>3. QED BY <1>6, <2>1, <2>2, SegmentsMovedLedger
  <1> DEFINE Q == Run(c, n)
             G2 == Swapped(G1, Q, S)
  <1>18. SameEntries(x, e)
    BY <1>6, <1>9 DEF SameEntries
  <1>20. e.memory_base = x.memory_base /\ e.memory_end = x.memory_end /\ TablePages(e) = old /\ Measured(e)
         /\ Typed(e) = Typed(x) /\ \A p : Now(e, p) = Now(x, p)
    <2>1. TableFields(x) = TableFields(e)
      BY <1>18 DEF SameEntries
    <2>2. e.memory_base = x.memory_base /\ e.memory_end = x.memory_end
      BY <2>1 DEF TableFields
    <2>3. QED BY <1>1, <2>1, <2>2, TableSame
  <1>21. e \in Pcbs
    BY <1>5, <1>9 DEF Ledger
  <1>22. /\ y \in Pcbs /\ Measured(y)
         /\ y.mapped = e.mapped /\ y.total = e.total /\ y.failed = e.failed
         /\ Areas(y) = Areas(e) /\ Homes(y) = Homes(e) /\ Cache(y) = Cache(e) /\ y.protected = e.protected
         /\ y.memory_base = lo /\ y.memory_end = hi
         /\ \A p : Now(y, p) = Now(e, p)
    BY <1>5, <1>20, <1>21, RelaidEffect
  <1>23. Typed(y) = Typed(e)
    BY <1>22, NowTyped
  <1>24. Ledger(y, G2)
    <2>2. Ledger(e, G2)
      BY <1>9
    <2> HIDE DEF G2
    <2>1. QED BY <2>2, <1>21, <1>22, <1>23, LedgerSame
  <1>25. y.dirty_vector_base = b /\ y.segment_vector_base = c /\ y.cached_pages_base = x.cached_pages_base
    BY <1>9, <1>18, <1>22 DEF Homes, SameEntries
  <1>26. DirtyRun(y) = R /\ SegmentRun(y) = Q
    BY <1>22, <1>25 DEF DirtyRun, SegmentRun, TablePages
  <1>27. Split(Own(y) \cup H, {y.cached_pages_base}, DirtyRun(y), SegmentRun(y), H) /\ G2 = Own(y) \cup H
    <2>1. PICK K : K = {x.cached_pages_base}
      OBVIOUS
    <2>2. Own(y) = (K \cup R) \cup Q
      BY <1>25, <1>26, <2>1 DEF Own
    <2>3. G = ((K \cup D) \cup S) \cup H
      BY <2>1 DEF Own
    <2>4. Split(G, K, D, S, H) /\ Fresh(R, G) /\ Fresh(Q, G1)
      BY <1>3, <1>6, <1>9, <2>1
    <2> HIDE DEF R, Q, D, S, G
    <2>5. G2 = ((K \cup R) \cup Q) \cup H
      BY <2>3, <2>4 DEF Split, Swapped, Fresh
    <2>6. Split(G2, K, R, Q, H)
      BY <2>3, <2>4, <2>5 DEF Split, Swapped, Fresh
    <2>7. QED BY <1>25, <1>26, <2>1, <2>2, <2>5, <2>6
  <1>28. y.stack_base \in Typed(y)
    <2>1. y.stack_base = x.stack_base
      BY <1>18, <1>22 DEF Areas, SameEntries
    <2>2. QED BY <1>3, <1>20, <1>23, <2>1
  <1>29. Whole(y, H)
    BY <1>24, <1>27, <1>28 DEF Whole
  <1>30. QED BY <1>18, <1>20, <1>22, <1>29 DEF SameEntries

-----------------------------------------------------------------------------
(* Pages are taken, typed and freed *)

\* what the owners of the areas see is the same
SameView(x, y) ==
  /\ Areas(y) = Areas(x) /\ y.protected = x.protected /\ y.failed = x.failed
  /\ \A p : Now(y, p) = Now(x, p)

\* pages in hand have no other use
LEMMA InHand ==
  ASSUME NEW x, NEW H, Whole(x, H)
  PROVE  /\ H \cap Typed(x) = {} /\ H \cap ToSet(x.cached) = {} /\ H \cap x.protected = {}
         /\ H \subseteq x.mapped
  BY DEF Whole, Ledger, Split

\* the tables are made to reach pages in hand
LEMMA ExtendTableWhole ==
  ASSUME NEW x, NEW H, Whole(x, H), NEW p \in Nat, NEW n \in Nat \ {0},
         Run(p, n) \subseteq H, NEW y \in ExtendTable(x, p, n)
  PROVE  /\ Whole(y, H) /\ SameView(x, y) /\ Cache(y) = Cache(x)
         /\ Run(p, n) \subseteq Covered(y)
  <1> DEFINE B == x.memory_base * SegmentPages
             E == x.memory_end * SegmentPages
             U == SegmentPages * Segments
  <1>1. x \in Pcbs /\ Measured(x) /\ x.stack_base \in Covered(x) /\ x.stack_base \in Typed(x)
    BY WholeMeasures DEF Whole
  <1>2. x.memory_base \in Nat /\ x.memory_end \in Nat /\ x.memory_end <= Segments /\ x.memory_base <= x.memory_end
    BY <1>1 DEF Pcbs, Measured
  <1>3. SegmentPages \in Nat \ {0} /\ Segments \in Nat
    BY PagesAssumption
  <1>4. B \in Nat /\ E \in Nat /\ U \in Nat
    BY <1>2, <1>3, Products
  <1>5. Run(p, n) \subseteq Usable /\ Run(p, n) \cap Typed(x) = {}
    BY InHand DEF Whole, Ledger
  <1>6. p + n < U /\ p + n \in Nat
    <2>1. p + n - 1 \in Run(p, n)
      BY RunIn
    <2>2. p + n - 1 \in Usable
      BY <1>5, <2>1
    <2>3. p + n - 1 <= U - 2
      BY <1>4, <2>2 DEF Usable
    <2>4. QED BY <1>4, <2>3
  <1>7. \A q \in Run(p, n) : q \in PageNumber /\ q \in Nat /\ p <= q /\ q < p + n
    <2> TAKE q \in Run(p, n)
    <2>1. q \in Nat /\ p <= q /\ q < p + n
      <3>1. q \in Int
        BY RunIn
      <3>2. p <= q /\ q < p + n
        BY <3>1, RunIn
      <3>3. QED BY <3>1, <3>2
    <2>2. q \in 0 .. U - 1
      BY <1>4, <1>6, <2>1
    <2>3. QED BY <2>1, <2>2 DEF PageNumber
  <1>8. ASSUME NEW z, z \in Pcbs, z.memory_base * SegmentPages <= p, p + n <= z.memory_end * SegmentPages
        PROVE  Run(p, n) \subseteq Covered(z)
    <2> DEFINE b == z.memory_base * SegmentPages
               e == z.memory_end * SegmentPages
    <2>1. z.memory_base \in Nat /\ z.memory_end \in Nat
      BY <1>8 DEF Pcbs
    <2>2. b \in Nat /\ e \in Nat
      BY <1>3, <2>1, Products
    <2>3. Covered(z) = {q \in PageNumber : b <= q /\ q < e}
      BY <1>8, CoveredIs
    <2>4. b <= p /\ p + n <= e
      BY <1>8
    <2> HIDE DEF b, e
    <2>5. QED BY <1>7, <2>2, <2>3, <2>4
  <1>9. CASE p < B
    <2> DEFINE lo == SegmentIndex(p)
    <2>1. lo \in Nat /\ lo * SegmentPages <= p /\ lo <= x.memory_base
      <3>1. lo \in Nat /\ lo * SegmentPages <= p /\ lo < x.memory_base
        BY <1>2, <1>3, <1>9, Division DEF SegmentIndex
      <3>2. QED BY <1>2, <3>1
    <2>2. y \in MoveTables(x, lo, x.memory_end)
      BY <1>9 DEF ExtendTable
    <2> HIDE DEF lo
    <2>3. /\ Whole(y, H) /\ y.failed = x.failed /\ Areas(y) = Areas(x) /\ y.protected = x.protected
          /\ Cache(y) = Cache(x)
          /\ y.memory_base = lo /\ y.memory_end = x.memory_end
          /\ \A q : Now(y, q) = Now(x, q)
      BY <1>2, <2>1, <2>2, MoveTablesWhole
    <2>4. p + n <= E
      <3>1. x.stack_base \in PageNumber /\ B <= x.stack_base /\ x.stack_base < E
        BY <1>1, CoveredIs
      <3>2. x.stack_base \in Int
        BY <1>4, <3>1 DEF PageNumber
      <3>3. x.stack_base \notin Run(p, n)
        BY <1>1, <1>5
      <3>4. ~(p <= x.stack_base /\ x.stack_base < p + n)
        BY <3>2, <3>3, RunIn
      <3>5. QED BY <1>4, <1>6, <1>9, <3>1, <3>2, <3>4
    <2>5. y \in Pcbs
      BY <2>3, WholeMeasures
    <2>6. Run(p, n) \subseteq Covered(y)
      BY <1>8, <2>1, <2>3, <2>4, <2>5
    <2>7. QED BY <2>3, <2>6 DEF SameView
  <1>10. CASE ~(p < B) /\ p + n >= E
    <2> DEFINE hi == SegmentAbove(p + n)
               a == p + n + SegmentPages - 1
    <2>1. hi = a \div SegmentPages /\ a \in Nat
      BY <1>3, <1>6 DEF SegmentAbove, SegmentIndex
    <2>2. hi \in Nat /\ p + n <= hi * SegmentPages
      <3>1. hi \in Nat /\ a < hi * SegmentPages + SegmentPages
        <4> HIDE DEF hi, a
        <4>1. a \div SegmentPages \in Nat /\ a < (a \div SegmentPages) * SegmentPages + SegmentPages
          BY <1>3, <2>1, Division
        <4>2. QED BY <2>1, <4>1
      <3>2. hi * SegmentPages \in Int
        BY <1>3, <3>1, Products
      <3> HIDE DEF hi
      <3>3. QED BY <1>3, <1>6, <3>1, <3>2
    <2>3. x.memory_end <= hi
      <3>1. E <= a
        BY <1>3, <1>4, <1>6, <1>10
      <3>2. QED BY <1>2, <1>3, <2>1, <3>1, Division
    <2>4. hi <= Segments
      <3>1. (Segments + 1) * SegmentPages = U + SegmentPages
        <4>1. (Segments + 1) * SegmentPages = Segments * SegmentPages + 1 * SegmentPages
          BY <1>3, Products
        <4>2. Segments * SegmentPages = SegmentPages * Segments /\ 1 * SegmentPages = SegmentPages
          BY <1>3
        <4>3. QED BY <4>1, <4>2
      <3>2. a < (Segments + 1) * SegmentPages
        <4> DEFINE V == (Segments + 1) * SegmentPages
        <4>1. V = U + SegmentPages
          BY <3>1
        <4> HIDE DEF V, U
        <4>2. a < V
          BY <1>3, <1>4, <1>6, <4>1
        <4>3. QED BY <4>2 DEF V
      <3>3. hi < Segments + 1
        BY <1>3, <2>1, <3>2, Division
      <3>4. QED BY <1>3, <2>2, <3>3
    <2>5. y \in MoveTables(x, x.memory_base, hi)
      BY <1>10 DEF ExtendTable
    <2> HIDE DEF hi
    <2>6. /\ Whole(y, H) /\ y.failed = x.failed /\ Areas(y) = Areas(x) /\ y.protected = x.protected
          /\ Cache(y) = Cache(x)
          /\ y.memory_base = x.memory_base /\ y.memory_end = hi
          /\ \A q : Now(y, q) = Now(x, q)
      BY <1>2, <2>2, <2>3, <2>4, <2>5, MoveTablesWhole
    <2>7. y \in Pcbs
      BY <2>6, WholeMeasures
    <2>8. y.memory_base * SegmentPages <= p
      BY <1>4, <1>10, <2>6
    <2>9. Run(p, n) \subseteq Covered(y)
      BY <1>8, <2>2, <2>6, <2>7, <2>8
    <2>10. QED BY <2>6, <2>9 DEF SameView
  <1>11. CASE ~(p < B) /\ ~(p + n >= E)
    <2>1. y = x
      BY <1>11 DEF ExtendTable
    <2>2. B <= p /\ p + n <= E
      BY <1>4, <1>6, <1>11
    <2>3. Run(p, n) \subseteq Covered(x)
      BY <1>1, <1>8, <2>2
    <2>4. QED BY <2>1, <2>3 DEF SameView
  <1>12. QED BY <1>9, <1>10, <1>11

\* the first of a list that holds nothing twice is out of it
LEMMA TailOut ==
  ASSUME NEW s \in Seq(Int), s # << >>, \A i, j \in 1 .. Len(s) : s[i] = s[j] => i = j
  PROVE  /\ Tail(s) \in Seq(Int) /\ Len(Tail(s)) = Len(s) - 1 /\ Head(s) \in Int
         /\ ToSet(s) = ToSet(Tail(s)) \cup {Head(s)} /\ Head(s) \notin ToSet(Tail(s))
         /\ \A i, j \in 1 .. Len(Tail(s)) : Tail(s)[i] = Tail(s)[j] => i = j
  <1> DEFINE n == Len(s)
             r == Tail(s)
  <1>1. n \in Nat /\ n # 0 /\ r \in Seq(Int) /\ Len(r) = n - 1 /\ Head(s) = s[1]
    OBVIOUS
  <1>2. \A i \in 1 .. n - 1 : r[i] = s[i + 1]
    OBVIOUS
  <1> HIDE DEF r
  <1>3. ToSet(s) = {s[i] : i \in 1 .. n} /\ ToSet(r) = {r[i] : i \in 1 .. n - 1}
    <2>1. DOMAIN s = 1 .. n
      OBVIOUS
    <2>2. DOMAIN r = 1 .. n - 1
      <3> HIDE DEF n
      <3>1. QED BY <1>1
    <2>3. QED BY <2>1, <2>2 DEF ToSet
  <1> HIDE DEF n
  <1>4. \A i \in 1 .. n : s[i] \in Int
    BY DEF n
  <1>5. \A i \in 1 .. n - 1 : i + 1 \in 1 .. n /\ i + 1 # 1
    BY <1>1
  <1>6. \A i \in 1 .. n : i = 1 \/ (i - 1 \in 1 .. n - 1 /\ (i - 1) + 1 = i)
    BY <1>1
  <1>7. 1 \in 1 .. n
    BY <1>1
  <1>8. ToSet(s) = ToSet(r) \cup {s[1]}
    <2>1. \A v \in ToSet(r) : v \in ToSet(s)
      BY <1>2, <1>3, <1>5
    <2>2. \A i \in 1 .. n : s[i] = s[1] \/ s[i] \in ToSet(r)
      <3>1. ASSUME NEW i \in 1 .. n, i # 1 PROVE s[i] \in ToSet(r)
        <4>1. i - 1 \in 1 .. n - 1 /\ r[i - 1] = s[i]
          BY <1>2, <1>6, <3>1
        <4>2. QED BY <1>3, <4>1
      <3>2. QED BY <3>1
    <2>3. s[1] \in ToSet(s)
      BY <1>3, <1>7
    <2>4. \A v \in ToSet(s) : v \in ToSet(r) \cup {s[1]}
      BY <1>3, <2>2
    <2>5. QED BY <2>1, <2>3, <2>4
  <1>9. \A i, j \in 1 .. n : s[i] = s[j] => i = j
    BY DEF n
  <1>10. s[1] \notin ToSet(r)
    BY <1>2, <1>3, <1>5, <1>7, <1>9
  <1>11. \A i, j \in 1 .. n - 1 : r[i] = r[j] => i = j
    <2> TAKE i, j \in 1 .. n - 1
    <2>1. r[i] = s[i + 1] /\ r[j] = s[j + 1] /\ i + 1 \in 1 .. n /\ j + 1 \in 1 .. n
      BY <1>2, <1>5
    <2>2. r[i] = r[j] => i + 1 = j + 1
      BY <1>9, <2>1
    <2>3. i \in Int /\ j \in Int
      BY <1>1
    <2>4. QED BY <2>2, <2>3
  <1>12. QED BY <1>1, <1>4, <1>7, <1>8, <1>10, <1>11 DEF n, r

\* ik_mmap_typed takes pages from the cache or maps them; they are in hand
LEMMA TakeWhole ==
  ASSUME NEW x, Whole(x, {}), NEW n \in Nat \ {0}, NEW t \in Take(x, n)
  PROVE  /\ t[2] \in Nat /\ Whole(t[1], Run(t[2], n)) /\ SameView(x, t[1])
  <1>1. x \in Pcbs /\ Measured(x) /\ TablePages(x) \in Nat \ {0}
    BY WholeMeasures
  <1> DEFINE G == Own(x) \cup {}
  <1>2. Ledger(x, G) /\ Split(G, {x.cached_pages_base}, DirtyRun(x), SegmentRun(x), {}) /\ x.stack_base \in Typed(x)
    BY DEF Whole
  <1>3. CASE n = 1 /\ x.cached # << >>
    <2> DEFINE r == Tail(x.cached)
               u == x.uncached + 1
               y == [x EXCEPT !.cached = r, !.uncached = u]
    <2>1. t = <<y, Head(x.cached)>>
      BY <1>3 DEF Take
    <2>2. x.cached \in Seq(Int) /\ x.uncached \in Nat
      BY <1>1 DEF Pcbs
    <2>3. PICK s, h : s = x.cached /\ h = Head(x.cached)
      OBVIOUS
    <2>4. /\ r \in Seq(Int) /\ Len(r) = Len(s) - 1 /\ h \in Int
          /\ ToSet(s) = ToSet(r) \cup {h} /\ h \notin ToSet(r)
          /\ \A i, j \in 1 .. Len(r) : r[i] = r[j] => i = j
      <3>1. s \in Seq(Int) /\ s # << >> /\ \A i, j \in 1 .. Len(s) : s[i] = s[j] => i = j
        BY <1>2, <1>3, <2>2, <2>3 DEF Ledger, CacheFits
      <3>2. r = Tail(s) /\ h = Head(s)
        BY <2>3
      <3> HIDE DEF r
      <3>3. QED BY <3>1, <3>2, TailOut
    <2>5. u \in Nat
      BY <2>2
    <2> HIDE DEF r, u
    <2>6. y \in Pcbs
      BY <1>1, <2>4, <2>5 DEF Pcbs
    <2>7. /\ y.cached = r /\ y.uncached = u /\ y.mapped = x.mapped /\ y.total = x.total /\ y.failed = x.failed
          /\ TableFields(y) = TableFields(x) /\ Areas(y) = Areas(x) /\ Homes(y) = Homes(x) /\ y.protected = x.protected
      BY <1>1 DEF Pcbs, TableFields, Areas, Homes
    <2> HIDE DEF y
    <2>8. Typed(y) = Typed(x) /\ Measured(y) /\ TablePages(y) = TablePages(x) /\ \A p : Now(y, p) = Now(x, p)
      BY <1>1, <2>7, TableSame
    <2>9. CacheFits(y)
      <3>1. Len(s) + x.uncached = CacheSize /\ Len(s) \in Nat
        BY <1>2, <2>2, <2>3 DEF Ledger, CacheFits
      <3>2. Len(r) + u = CacheSize
        BY <2>2, <2>4, <3>1 DEF u
      <3>3. QED BY <2>4, <2>7, <3>2 DEF CacheFits
    <2>10. Run(h, n) = {h} /\ h \in x.mapped
      BY <1>2, <1>3, <2>3, <2>4, RunIn DEF Ledger, Split
    <2>11. Split(y.mapped, Typed(y), ToSet(y.cached), y.protected, G \cup {h})
      BY <1>2, <2>3, <2>4, <2>7, <2>8 DEF Ledger, Split
    <2>12. Ledger(y, G \cup {h}) /\ h \notin G
      BY <1>2, <2>3, <2>4, <2>6, <2>7, <2>8, <2>9, <2>11 DEF Ledger, Split
    <2>13. Own(y) = Own(x) /\ DirtyRun(y) = DirtyRun(x) /\ SegmentRun(y) = SegmentRun(x) /\ y.cached_pages_base = x.cached_pages_base
      BY <2>7, <2>8 DEF Own, DirtyRun, SegmentRun, Homes
    <2>14. Split(Own(y) \cup {h}, {y.cached_pages_base}, DirtyRun(y), SegmentRun(y), {h})
      BY <1>2, <2>12, <2>13 DEF Split
    <2>15. y.stack_base \in Typed(y)
      BY <1>2, <2>7, <2>8 DEF Areas
    <2>16. Whole(y, Run(h, n))
      BY <2>10, <2>12, <2>13, <2>14, <2>15 DEF Whole
    <2>17. h \in Nat
      <3>1. h \in Usable
        BY <1>2, <2>10 DEF Ledger
      <3>2. QED BY <3>1, PagesAssumption DEF Usable
    <2>18. SameView(x, y)
      BY <2>7, <2>8 DEF SameView
    <2>19. QED BY <2>1, <2>3, <2>16, <2>17, <2>18
  <1>4. CASE ~(n = 1 /\ x.cached # << >>)
    <2>1. t \in MMap(x, n)
      BY <1>4 DEF Take
    <2>2. PICK y, b : y = t[1] /\ b = t[2]
      OBVIOUS
    <2>3. y \in Pcbs /\ SameUses(x, y) /\ b \in Nat /\ y.failed = x.failed
      BY <1>1, <2>1, <2>2, MMapEffect
    <2>4. Ledger(y, G \cup Run(b, n)) /\ Run(b, n) \cap G = {}
      <3> HIDE DEF G
      <3>1. QED BY <1>2, <2>1, <2>2, MMapLedger
    <2>5. Typed(y) = Typed(x) /\ TablePages(y) = TablePages(x) /\ \A p : Now(y, p) = Now(x, p)
      BY <2>3, TableSame DEF SameUses
    <2>6. Own(y) = Own(x) /\ DirtyRun(y) = DirtyRun(x) /\ SegmentRun(y) = SegmentRun(x) /\ y.cached_pages_base = x.cached_pages_base
      BY <2>3, <2>5 DEF Own, DirtyRun, SegmentRun, Homes, SameUses
    <2>7. Split(Own(y) \cup Run(b, n), {y.cached_pages_base}, DirtyRun(y), SegmentRun(y), Run(b, n))
      BY <1>2, <2>4, <2>6 DEF Split
    <2>8. y.stack_base \in Typed(y)
      BY <1>2, <2>3, <2>5 DEF Areas, SameUses
    <2>9. Whole(y, Run(b, n))
      BY <2>4, <2>6, <2>7, <2>8 DEF Whole
    <2>10. SameView(x, y)
      BY <2>3, <2>5 DEF SameView, SameUses
    <2>11. QED BY <2>2, <2>3, <2>9, <2>10
  <1>5. QED BY <1>3, <1>4

\* a page that holds no objects is clean
Clean(x) == \A p : Now(x, p).dirty => Now(x, p).type = "objects"

\* the pages at b are new, and now of type w
Gained(x, y, b, n, w) ==
  /\ Areas(y) = Areas(x) /\ y.protected = x.protected /\ y.failed = x.failed
  /\ Fresh(Run(b, n), Typed(x)) /\ Run(b, n) \subseteq PageNumber
  /\ \A p : Now(y, p) = IF p \in Run(b, n) THEN w ELSE Now(x, p)

\* ik_mmap_typed leaves all pages accounted for, and those it returns have the type
LEMMA MMapTypedWhole ==
  ASSUME NEW x, Whole(x, {}), Clean(x), NEW n \in Nat \ {0}, NEW w \in Words,
         w.type # "hole", w.dirty = FALSE, NEW t \in MMapTyped(x, n, w)
  PROVE  /\ t[2] \in Nat /\ Whole(t[1], {}) /\ Gained(x, t[1], t[2], n, w)
  <1>1. PICK s, y : /\ s \in Take(x, n) /\ y \in ExtendTable(s[1], s[2], n)
                    /\ t = <<SetType(y, s[2], n, w), s[2]>>
    BY DEF MMapTyped
  <1>2. PICK v, b : v = s[1] /\ b = s[2]
    OBVIOUS
  <1>3. b \in Nat /\ Whole(v, Run(b, n)) /\ SameView(x, v)
    BY <1>1, <1>2, TakeWhole
  <1>4. PICK H : H = Run(b, n)
    OBVIOUS
  <1>5. Whole(y, H) /\ SameView(v, y) /\ Run(b, n) \subseteq Covered(y)
    <2>1. Whole(v, H) /\ Run(b, n) \subseteq H /\ y \in ExtendTable(v, b, n)
      BY <1>1, <1>2, <1>3, <1>4
    <2>2. QED BY <1>3, <2>1, ExtendTableWhole
  <1>6. SameView(x, y)
    BY <1>3, <1>5 DEF SameView
  <1>7. PICK z : z = SetType(y, b, n, w)
    OBVIOUS
  <1>8. PICK G : G = Own(y) \cup H
    OBVIOUS
  <1>9. Ledger(y, G) /\ Split(G, {y.cached_pages_base}, DirtyRun(y), SegmentRun(y), H) /\ y.stack_base \in Typed(y)
    BY <1>5, <1>8 DEF Whole
  <1>10. /\ Ledger(z, G \ Run(b, n)) /\ SameMemory(y, z) /\ z.failed = y.failed
         /\ \A p : Now(z, p) = IF p \in Run(b, n) THEN Dirtied(w, Now(y, p)) ELSE Now(y, p)
    <2>1. May(y, G, Run(b, n))
      BY <1>4, <1>5, <1>8 DEF May
    <2>2. Becomes(y, z, G, b, n, w)
      BY <1>3, <1>7, <1>9, <2>1, SetTypeLedger
    <2>3. QED BY <2>2 DEF Becomes
  <1>11. Fresh(Run(b, n), Typed(x)) /\ Run(b, n) \subseteq PageNumber
    <2>1. Run(b, n) \cap Typed(v) = {}
      BY <1>3, InHand
    <2>2. Typed(v) = Typed(x)
      BY <1>3, NowTyped DEF SameView
    <2>3. Run(b, n) \subseteq PageNumber
      BY <1>5 DEF Covered
    <2>4. QED BY <2>1, <2>2, <2>3 DEF Fresh
  <1>12. ASSUME NEW p \in Run(b, n) PROVE Dirtied(w, Now(y, p)) = w
    <2>1. Now(y, p) = Now(x, p) /\ p \notin Typed(x) /\ p \in PageNumber
      BY <1>6, <1>11 DEF SameView, Fresh
    <2>2. Now(x, p).type = "hole"
      BY <2>1, TypedIs
    <2>3. Now(x, p).dirty = FALSE
      <3>1. Now(x, p) \in Words
        BY WholeMeasures, NowIn
      <3>2. Now(x, p).dirty \in BOOLEAN
        BY <3>1 DEF Words
      <3>3. QED BY <2>2, <3>2 DEF Clean
    <2>4. [w EXCEPT !.dirty = FALSE] = w
      BY DEF Words
    <2>5. QED BY <2>1, <2>3, <2>4 DEF Dirtied
  <1>13. Gained(x, z, b, n, w)
    <2>1. Areas(z) = Areas(x) /\ z.protected = x.protected /\ z.failed = x.failed
      BY <1>6, <1>10 DEF SameView, SameMemory
    <2>2. ASSUME NEW p PROVE Now(z, p) = IF p \in Run(b, n) THEN w ELSE Now(x, p)
      BY <1>6, <1>10, <1>12 DEF SameView
    <2>3. QED BY <1>11, <2>1, <2>2 DEF Gained
  <1>14. Whole(z, {})
    <2>1. Own(z) = Own(y) /\ DirtyRun(z) = DirtyRun(y) /\ SegmentRun(z) = SegmentRun(y) /\ z.cached_pages_base = y.cached_pages_base
      BY <1>10 DEF Own, DirtyRun, SegmentRun, Homes, SameMemory, TablePages
    <2>2. G \ Run(b, n) = Own(z) \cup {}
      <3>1. Own(y) \cap H = {}
        BY <1>9 DEF Split, Own
      <3>2. QED BY <1>4, <1>8, <2>1, <3>1
    <2>3. Split(Own(z) \cup {}, {z.cached_pages_base}, DirtyRun(z), SegmentRun(z), {})
      BY <1>8, <1>9, <2>1 DEF Split, Own
    <2>4. z.stack_base \in Typed(z)
      <3>1. z.stack_base = y.stack_base /\ y.stack_base \in PageNumber /\ Now(y, y.stack_base).type # "hole"
        BY <1>9, <1>10, TypedIs DEF SameMemory, Areas
      <3>2. y.stack_base \notin Run(b, n)
        BY <1>5, <1>9, <1>4, InHand
      <3>3. Now(z, y.stack_base) = Now(y, y.stack_base)
        BY <1>10, <3>2
      <3>4. QED BY <3>1, <3>3, TypedIs
    <2>5. Ledger(z, Own(z) \cup {})
      BY <1>10, <2>2
    <2>6. QED BY <2>3, <2>4, <2>5 DEF Whole
  <1>15. QED BY <1>1, <1>2, <1>3, <1>7, <1>13, <1>14

\* the pages of the first i areas of s
Runs(s, i) == UNION {Run(s[j][1], s[j][2]) : j \in 1 .. i}
\* areas, no two of them with a page in common
Areal(s) ==
  /\ s \in Seq(Int \X Nat)
  /\ \A i, j \in 1 .. Len(s) : i # j => Run(s[i][1], s[i][2]) \cap Run(s[j][1], s[j][2]) = {}

\* pages of the first i areas
LEMMA RunsStep ==
  ASSUME NEW s, NEW i \in Nat
  PROVE  /\ Runs(s, 0) = {}
         /\ i # 0 => Runs(s, i) = Runs(s, i - 1) \cup Run(s[i][1], s[i][2])
  <1>1. Runs(s, 0) = {}
    <2>1. 1 .. 0 = {}
      OBVIOUS
    <2>2. QED BY <2>1 DEF Runs
  <1>2. ASSUME i # 0 PROVE Runs(s, i) = Runs(s, i - 1) \cup Run(s[i][1], s[i][2])
    <2>1. \A j : j \in 1 .. i <=> (j \in 1 .. i - 1 \/ j = i)
      BY <1>2
    <2>2. QED BY <2>1 DEF Runs
  <1>3. QED BY <1>1, <1>2

\* pages that are freed have no type
LEMMA FreedTyped ==
  ASSUME NEW x, NEW y, NEW G, NEW R, Freed(x, y, G, R)
  PROVE  Typed(y) = Typed(x) \ R
  <1>1. Hole.type = "hole"
    BY DEF Hole, Word
  <1>2. \A p : Now(y, p).type # "hole" <=> p \notin R /\ Now(x, p).type # "hole"
    BY <1>1 DEF Freed
  <1>3. QED BY <1>2, TypedIs

\* pages are freed in two steps
LEMMA FreedMore ==
  ASSUME NEW x, NEW y, NEW z, NEW G, NEW R, NEW Q, NEW W, Freed(x, y, G, R), Freed(y, z, G, Q), W = R \cup Q
  PROVE  Freed(x, z, G, W)
  BY DEF Freed

\* all areas of a list are freed
LEMMA UnmapSegmentsFree ==
  ASSUME NEW x, NEW G, Ledger(x, G), NEW s, Areal(s), Runs(s, Len(s)) \subseteq Typed(x)
  PROVE  Freed(x, UnmapSegments(x, s), G, Runs(s, Len(s)))
  <1> DEFINE n == Len(s)
             F(i, y) == UnmapSegment(y, s[i][1], s[i][2])
             H(g) == [i \in 0 .. n |-> IF i = 0 THEN x ELSE F(i, g[i - 1])]
             step == [i \in 1 .. n |-> [y \in Pcbs |-> IF F(i, y) \in Pcbs THEN F(i, y) ELSE y]]
  <1>1. n \in Nat /\ x \in Pcbs /\ \A i \in 1 .. n : s[i][1] \in Int /\ s[i][2] \in Nat
    BY DEF Areal, Ledger
  <1>2. step \in [1 .. n -> [Pcbs -> Pcbs]]
    <2> HIDE DEF F
    <2>1. QED OBVIOUS
  <1>3. PICK g : CountsUp(n, Pcbs, x, step, g)
    <2> HIDE DEF n, step
    <2>1. QED BY <1>1, <1>2, CountedUp
  <1>4. g \in [0 .. n -> Pcbs] /\ g[0] = x
    BY <1>3 DEF CountsUp
  <1>5. ASSUME NEW i \in 1 .. n
        PROVE  /\ i - 1 \in 0 .. n /\ g[i - 1] \in Pcbs
               /\ g[i] = IF F(i, g[i - 1]) \in Pcbs THEN F(i, g[i - 1]) ELSE g[i - 1]
    <2>1. i - 1 \in 0 .. n
      BY <1>1
    <2>2. g[i - 1] \in Pcbs
      BY <1>4, <2>1
    <2>3. g[i] = step[i][g[i - 1]]
      BY <1>3 DEF CountsUp
    <2>4. step[i] = [y \in Pcbs |-> IF F(i, y) \in Pcbs THEN F(i, y) ELSE y]
      OBVIOUS
    <2> HIDE DEF F, step
    <2>5. QED BY <2>1, <2>2, <2>3, <2>4
  <1>6. Freed(x, x, G, Runs(s, 0))
    <2>1. Runs(s, 0) = {}
      BY RunsStep
    <2>2. QED BY <2>1 DEF Freed
  <1>7. ASSUME NEW i \in 1 .. n, Freed(x, g[i - 1], G, Runs(s, i - 1))
        PROVE  Freed(x, g[i], G, Runs(s, i)) /\ g[i] = F(i, g[i - 1])
    <2>1. PICK b, k : b = s[i][1] /\ k = s[i][2]
      OBVIOUS
    <2>2. b \in Int /\ k \in Nat
      BY <1>1, <2>1
    <2>3. Runs(s, i) = Runs(s, i - 1) \cup Run(b, k)
      BY <2>1, RunsStep
    <2>4. Run(b, k) \subseteq Typed(x)
      BY <2>1 DEF Runs
    <2>5. Run(b, k) \cap Runs(s, i - 1) = {}
      <3>1. \A j \in 1 .. i - 1 : j \in 1 .. n /\ j # i
        BY <1>1
      <3>2. \A j \in 1 .. i - 1 : Run(b, k) \cap Run(s[j][1], s[j][2]) = {}
        BY <2>1, <3>1 DEF Areal
      <3>3. QED BY <3>2 DEF Runs
    <2>6. PICK y : y = g[i - 1]
      OBVIOUS
    <2>7. Freed(x, y, G, Runs(s, i - 1))
      BY <1>7, <2>6
    <2>8. Typed(y) = Typed(x) \ Runs(s, i - 1)
      BY <2>7, FreedTyped
    <2>9. Run(b, k) \subseteq Typed(y) /\ Ledger(y, G)
      BY <2>4, <2>5, <2>7, <2>8 DEF Freed
    <2>10. Freed(y, UnmapSegment(y, b, k), G, Run(b, k))
      BY <2>2, <2>9, UnmapSegmentLedger
    <2>11. UnmapSegment(y, b, k) = F(i, g[i - 1])
      BY <2>1, <2>6
    <2>12. F(i, g[i - 1]) \in Pcbs
      BY <2>10, <2>11 DEF Freed, Ledger
    <2>13. g[i] = F(i, g[i - 1])
      <3> HIDE DEF F
      <3>1. QED BY <1>5, <2>12
    <2>14. Freed(x, g[i], G, Runs(s, i))
      <3>1. Freed(y, g[i], G, Run(b, k))
        BY <2>10, <2>11, <2>13
      <3>2. QED BY <2>3, <2>7, <3>1, FreedMore
    <2>15. QED BY <2>13, <2>14
  <1>8. \A i \in 0 .. n : Freed(x, g[i], G, Runs(s, i))
    <2> DEFINE T == {i \in 0 .. n : ~Freed(x, g[i], G, Runs(s, i))}
    <2>1. T \subseteq Nat
      OBVIOUS
    <2>2. ASSUME T # {} PROVE FALSE
      <3>1. PICK i \in T : \A j \in T : i <= j
        BY <2>1, <2>2, LeastNumber
      <3>2. i \in 0 .. n /\ ~Freed(x, g[i], G, Runs(s, i))
        OBVIOUS
      <3>3. i # 0
        BY <1>4, <1>6, <3>2
      <3>4. i \in 1 .. n /\ i - 1 \in 0 .. n /\ ~(i <= i - 1)
        BY <1>1, <3>2, <3>3
      <3>5. Freed(x, g[i - 1], G, Runs(s, i - 1))
        BY <3>1, <3>4
      <3>6. QED BY <1>7, <3>2, <3>4, <3>5
    <2>3. QED BY <2>2
  <1>9. \A i \in 1 .. n : g[i] = F(i, g[i - 1])
    <2>1. \A i \in 1 .. n : i - 1 \in 0 .. n
      BY <1>1
    <2> HIDE DEF F
    <2>2. QED BY <1>7, <1>8, <2>1
  <1>10. g = H(g)
    <2>1. \A i \in 0 .. n : i # 0 => i \in 1 .. n
      BY <1>1
    <2> HIDE DEF F
    <2>2. \A i \in 0 .. n : g[i] = H(g)[i]
      BY <1>4, <1>9, <2>1
    <2>3. g = [i \in 0 .. n |-> g[i]]
      BY <1>4
    <2>4. QED BY <2>2, <2>3
  <1>11. ASSUME NEW h, h = H(h) PROVE h[n] = g[n]
    <2> HIDE DEF F
    <2>1. h[0] = x /\ \A i \in 1 .. n : h[i] = F(i, h[i - 1])
      <3>1. \A i \in 0 .. n : h[i] = H(h)[i]
        BY <1>11
      <3>2. 0 \in 0 .. n /\ \A i \in 1 .. n : i \in 0 .. n /\ i # 0
        BY <1>1
      <3>3. QED BY <3>1, <3>2
    <2> DEFINE T == {i \in 0 .. n : h[i] # g[i]}
    <2>2. T \subseteq Nat
      OBVIOUS
    <2>3. ASSUME T # {} PROVE FALSE
      <3>1. PICK i \in T : \A j \in T : i <= j
        BY <2>2, <2>3, LeastNumber
      <3>2. i # 0
        BY <1>4, <2>1
      <3>3. i \in 1 .. n /\ i - 1 \in 0 .. n /\ ~(i <= i - 1)
        BY <3>2, <1>1
      <3>4. h[i - 1] = g[i - 1]
        BY <3>1, <3>3
      <3>5. h[i] = g[i]
        BY <2>1, <1>9, <3>3, <3>4
      <3>6. QED BY <3>5
    <2>4. QED BY <2>3, <1>1
  <1>12. UnmapSegments(x, s) = g[n]
    <2> DEFINE c == CHOOSE h : h = H(h)
    <2>1. c = H(c)
      BY <1>10
    <2>2. UnmapSegments(x, s) = c[n]
      BY Zenon DEF UnmapSegments
    <2> HIDE DEF c, H
    <2>3. QED BY <1>11, <2>1, <2>2
  <1>13. QED BY <1>1, <1>8, <1>12

\* the pages of a set in their order: each of them, once
LEMMA InOrderHolds ==
  ASSUME NEW S, S \subseteq PageNumber
  PROVE  InOrder(S) \in Seq(PageNumber) /\ ToSet(InOrder(S)) = S /\ Once(InOrder(S))
  <1> DEFINE N == SegmentPages * Segments
             s == [i \in 1 .. N |-> i - 1]
  <1>1. N \in Nat
    BY PagesAssumption, Products
  <1>2. PageNumber = 0 .. N - 1
    BY DEF PageNumber
  <1> HIDE DEF N
  <1>3. s \in Seq(PageNumber) /\ Len(s) = N
    <2>1. \A i \in 1 .. N : i - 1 \in PageNumber
      BY <1>1, <1>2
    <2>2. QED BY <1>1, <2>1
  <1>4. InOrder(S) = Only(s, S)
    BY DEF InOrder, N
  <1>5. \A i \in 1 .. N : s[i] = i - 1
    OBVIOUS
  <1> HIDE DEF s
  <1>6. PICK o : o = Only(s, S)
    OBVIOUS
  <1>7. o \in Seq(PageNumber) /\ \E f : PicksBy(o, s, S, f)
    BY <1>3, <1>6, OnlyPicks
  <1>8. PICK f : PicksBy(o, s, S, f)
    BY <1>7
  <1>9. /\ \A k \in 1 .. Len(o) : f[k] \in 1 .. N /\ o[k] = f[k] - 1 /\ o[k] \in S
        /\ \A j, k \in 1 .. Len(o) : j < k => f[j] < f[k]
        /\ \A j \in 1 .. N : s[j] \in S => \E k \in 1 .. Len(o) : f[k] = j
    BY <1>3, <1>5, <1>8 DEF PicksBy
  <1>10. ToSet(o) = {o[k] : k \in 1 .. Len(o)}
    BY <1>7 DEF ToSet
  <1>11. ASSUME NEW p \in S PROVE p \in ToSet(o)
    <2>1. p + 1 \in 1 .. N /\ s[p + 1] = p
      <3>1. p \in 0 .. N - 1
        BY <1>2
      <3>2. p + 1 \in 1 .. N /\ (p + 1) - 1 = p
        BY <1>1, <3>1
      <3>3. QED BY <1>5, <3>2
    <2>2. PICK k \in 1 .. Len(o) : f[k] = p + 1
      BY <1>9, <2>1
    <2>3. o[k] = p
      <3>1. p \in Int
        BY <1>1, <1>2
      <3>2. QED BY <1>9, <2>2, <3>1
    <2>4. QED BY <1>10, <2>3
  <1>12. ToSet(o) = S
    BY <1>9, <1>10, <1>11
  <1>13. Once(o)
    <2>1. ASSUME NEW i \in 1 .. Len(o), NEW j \in 1 .. Len(o), o[i] = o[j] PROVE i = j
      <3>1. f[i] \in Int /\ f[j] \in Int /\ f[i] = f[j]
        BY <1>1, <1>9, <2>1
      <3>2. i \in Int /\ j \in Int /\ (i < j => f[i] < f[j]) /\ (j < i => f[j] < f[i])
        BY <1>7, <1>9
      <3>3. QED BY <3>1, <3>2
    <2>2. QED BY <2>1 DEF Once
  <1>14. QED BY <1>4, <1>6, <1>7, <1>12, <1>13

\* what is mapped is counted
Counted(x) == x \in Pcbs /\ x.mapped \subseteq Usable /\ x.total = Cardinality(x.mapped)
\* y is x after the pages of R, which were mapped, were unmapped
Unmapped(x, y, R) == Counted(y) /\ SameUses(x, y) /\ y.mapped = x.mapped \ R /\ y.failed = x.failed

\* pages that are given back are counted
LEMMA MUnmapCounted ==
  ASSUME NEW x, Counted(x), NEW b \in Int, NEW n \in Nat, Run(b, n) \subseteq x.mapped
  PROVE  Unmapped(x, MUnmap(x, b, n), Run(b, n))
  <1>1. x \in Pcbs /\ x.mapped \subseteq Usable /\ x.total = Cardinality(x.mapped)
    BY DEF Counted
  <1>2. PICK y : y = MUnmap(x, b, n)
    OBVIOUS
  <1>3. /\ y \in Pcbs /\ SameUses(x, y)
        /\ y.mapped = x.mapped \ Run(b, n)
        /\ y.total = x.total - n
        /\ y.failed = (x.failed \/ ~(Run(b, n) \subseteq x.mapped))
    <2>1. n \in Int /\ b \in Int /\ x \in Pcbs
      BY <1>1
    <2>2. MUnmap(x, b, n) \in Pcbs /\ SameUses(x, MUnmap(x, b, n))
      BY <2>1, MUnmapEffect
    <2>3. MUnmap(x, b, n).mapped = x.mapped \ Run(b, n)
      BY <2>1, MUnmapEffect
    <2>4. MUnmap(x, b, n).total = x.total - n
      BY <2>1, MUnmapEffect
    <2>5. MUnmap(x, b, n).failed = (x.failed \/ ~(Run(b, n) \subseteq x.mapped))
      BY <2>1, MUnmapEffect
    <2>6. QED BY <1>2, <2>2, <2>3, <2>4, <2>5
  <1>4. IsFiniteSet(Run(b, n)) /\ Cardinality(Run(b, n)) = n
    BY RunIn
  <1>5. IsFiniteSet(x.mapped) /\ Cardinality(x.mapped) \in Nat
    BY <1>1, UsableFinite
  <1>6. Cardinality(y.mapped) = Cardinality(x.mapped) - n
    <2>1. x.mapped \cap Run(b, n) = Run(b, n)
      OBVIOUS
    <2>2. Cardinality(x.mapped \ Run(b, n)) = Cardinality(x.mapped) - Cardinality(x.mapped \cap Run(b, n))
      BY <1>5, FS_Difference
    <2>3. QED BY <1>3, <1>4, <2>1, <2>2
  <1>7. y.failed = x.failed
    <2>1. x.failed \in BOOLEAN
      BY <1>1 DEF Pcbs
    <2>2. QED BY <1>3, <2>1
  <1>8. QED BY <1>1, <1>2, <1>3, <1>6, <1>7 DEF Unmapped, Counted

\* the first i pages of s
Firsts(s, i) == {s[j] : j \in 1 .. i}

\* the first i of a list
LEMMA FirstsStep ==
  ASSUME NEW s, NEW i \in Nat
  PROVE  /\ Firsts(s, 0) = {}
         /\ i # 0 => Firsts(s, i) = Firsts(s, i - 1) \cup {s[i]}
  <1>1. 1 .. 0 = {}
    OBVIOUS
  <1>2. ASSUME i # 0 PROVE Firsts(s, i) = Firsts(s, i - 1) \cup {s[i]}
    <2>1. \A j : j \in 1 .. i <=> (j \in 1 .. i - 1 \/ j = i)
      BY <1>2
    <2>2. QED BY <2>1 DEF Firsts
  <1>3. QED BY <1>1, <1>2 DEF Firsts

\* all pages of a list are given back
LEMMA UnmapEachCounted ==
  ASSUME NEW x, Counted(x), NEW s \in Seq(Int), Once(s), ToSet(s) \subseteq x.mapped
  PROVE  Unmapped(x, UnmapEach(x, s), ToSet(s))
  <1> DEFINE n == Len(s)
             F(i, y) == MUnmap(y, s[i], 1)
             H(g) == [i \in 0 .. n |-> IF i = 0 THEN x ELSE F(i, g[i - 1])]
             step == [i \in 1 .. n |-> [y \in Pcbs |-> IF F(i, y) \in Pcbs THEN F(i, y) ELSE y]]
  <1>1. n \in Nat /\ x \in Pcbs /\ \A i \in 1 .. n : s[i] \in Int
    BY DEF Counted
  <1>2. step \in [1 .. n -> [Pcbs -> Pcbs]]
    <2> HIDE DEF F
    <2>1. QED OBVIOUS
  <1>3. PICK g : CountsUp(n, Pcbs, x, step, g)
    <2> HIDE DEF n, step
    <2>1. QED BY <1>1, <1>2, CountedUp
  <1>4. g \in [0 .. n -> Pcbs] /\ g[0] = x
    BY <1>3 DEF CountsUp
  <1>5. ASSUME NEW i \in 1 .. n
        PROVE  /\ i - 1 \in 0 .. n /\ g[i - 1] \in Pcbs
               /\ g[i] = IF F(i, g[i - 1]) \in Pcbs THEN F(i, g[i - 1]) ELSE g[i - 1]
    <2>1. i - 1 \in 0 .. n
      BY <1>1
    <2>2. g[i - 1] \in Pcbs
      BY <1>4, <2>1
    <2>3. g[i] = step[i][g[i - 1]]
      BY <1>3 DEF CountsUp
    <2>4. step[i] = [y \in Pcbs |-> IF F(i, y) \in Pcbs THEN F(i, y) ELSE y]
      OBVIOUS
    <2> HIDE DEF F, step
    <2>5. QED BY <2>1, <2>2, <2>3, <2>4
  <1>6. Unmapped(x, x, Firsts(s, 0))
    <2>1. Firsts(s, 0) = {}
      BY FirstsStep
    <2>2. SameUses(x, x)
      BY DEF SameUses
    <2>3. QED BY <2>1, <2>2 DEF Unmapped
  <1>7. ASSUME NEW i \in 1 .. n, Unmapped(x, g[i - 1], Firsts(s, i - 1))
        PROVE  Unmapped(x, g[i], Firsts(s, i)) /\ g[i] = F(i, g[i - 1])
    <2>1. PICK y, p : y = g[i - 1] /\ p = s[i]
      OBVIOUS
    <2>2. p \in Int /\ Run(p, 1) = {p}
      BY <1>1, <2>1, RunIn
    <2>3. Firsts(s, i) = Firsts(s, i - 1) \cup {p}
      BY <2>1, FirstsStep
    <2>4. p \in x.mapped
      BY <2>1 DEF ToSet
    <2>5. p \notin Firsts(s, i - 1)
      <3>1. \A j \in 1 .. i - 1 : j \in 1 .. n /\ j # i
        BY <1>1
      <3>2. \A j \in 1 .. i - 1 : s[j] # p
        BY <2>1, <3>1 DEF Once
      <3>3. QED BY <3>2 DEF Firsts
    <2>6. Counted(y) /\ SameUses(x, y) /\ y.mapped = x.mapped \ Firsts(s, i - 1) /\ y.failed = x.failed
      BY <1>7, <2>1 DEF Unmapped
    <2>9. Run(p, 1) \subseteq y.mapped
      BY <2>2, <2>4, <2>5, <2>6
    <2>10. Unmapped(y, MUnmap(y, p, 1), {p})
      <3>1. Counted(y) /\ p \in Int /\ 1 \in Nat /\ Run(p, 1) \subseteq y.mapped
        BY <2>2, <2>6, <2>9
      <3>2. Unmapped(y, MUnmap(y, p, 1), Run(p, 1))
        BY <3>1, MUnmapCounted
      <3>3. QED BY <2>2, <3>2
    <2>11. MUnmap(y, p, 1) = F(i, g[i - 1])
      BY <2>1
    <2>12. F(i, g[i - 1]) \in Pcbs
      BY <2>10, <2>11 DEF Unmapped, Counted
    <2>13. g[i] = F(i, g[i - 1])
      <3> HIDE DEF F
      <3>1. QED BY <1>5, <2>12
    <2>14. Unmapped(x, g[i], Firsts(s, i))
      <3>1. Unmapped(y, g[i], {p})
        BY <2>10, <2>11, <2>13
      <3>2. g[i].mapped = x.mapped \ Firsts(s, i)
        BY <2>3, <2>6, <3>1 DEF Unmapped
      <3>3. SameUses(x, g[i])
        BY <2>6, <3>1, SameUsesTransitive DEF Unmapped
      <3>4. QED BY <2>6, <3>1, <3>2, <3>3 DEF Unmapped
    <2>15. QED BY <2>13, <2>14
  <1>8. \A i \in 0 .. n : Unmapped(x, g[i], Firsts(s, i))
    <2> DEFINE T == {i \in 0 .. n : ~Unmapped(x, g[i], Firsts(s, i))}
    <2>1. T \subseteq Nat
      OBVIOUS
    <2>2. ASSUME T # {} PROVE FALSE
      <3>1. PICK i \in T : \A j \in T : i <= j
        BY <2>1, <2>2, LeastNumber
      <3>2. i \in 0 .. n /\ ~Unmapped(x, g[i], Firsts(s, i))
        OBVIOUS
      <3>3. i # 0
        BY <1>4, <1>6, <3>2
      <3>4. i \in 1 .. n /\ i - 1 \in 0 .. n /\ ~(i <= i - 1)
        BY <1>1, <3>2, <3>3
      <3>5. Unmapped(x, g[i - 1], Firsts(s, i - 1))
        BY <3>1, <3>4
      <3>6. QED BY <1>7, <3>2, <3>4, <3>5
    <2>3. QED BY <2>2
  <1>9. \A i \in 1 .. n : g[i] = F(i, g[i - 1])
    <2>1. \A i \in 1 .. n : i - 1 \in 0 .. n
      BY <1>1
    <2> HIDE DEF F
    <2>2. QED BY <1>7, <1>8, <2>1
  <1>10. g = H(g)
    <2>1. \A i \in 0 .. n : i # 0 => i \in 1 .. n
      BY <1>1
    <2> HIDE DEF F
    <2>2. \A i \in 0 .. n : g[i] = H(g)[i]
      BY <1>4, <1>9, <2>1
    <2>3. g = [i \in 0 .. n |-> g[i]]
      BY <1>4
    <2>4. QED BY <2>2, <2>3
  <1>11. ASSUME NEW h, h = H(h) PROVE h[n] = g[n]
    <2> HIDE DEF F
    <2>1. h[0] = x /\ \A i \in 1 .. n : h[i] = F(i, h[i - 1])
      <3>1. \A i \in 0 .. n : h[i] = H(h)[i]
        BY <1>11
      <3>2. 0 \in 0 .. n /\ \A i \in 1 .. n : i \in 0 .. n /\ i # 0
        BY <1>1
      <3>3. QED BY <3>1, <3>2
    <2> DEFINE T == {i \in 0 .. n : h[i] # g[i]}
    <2>2. T \subseteq Nat
      OBVIOUS
    <2>3. ASSUME T # {} PROVE FALSE
      <3>1. PICK i \in T : \A j \in T : i <= j
        BY <2>2, <2>3, LeastNumber
      <3>2. i # 0
        BY <1>4, <2>1
      <3>3. i \in 1 .. n /\ i - 1 \in 0 .. n /\ ~(i <= i - 1)
        BY <3>2, <1>1
      <3>4. h[i - 1] = g[i - 1]
        BY <3>1, <3>3
      <3>5. h[i] = g[i]
        BY <2>1, <1>9, <3>3, <3>4
      <3>6. QED BY <3>5
    <2>4. QED BY <2>3, <1>1
  <1>12. UnmapEach(x, s) = g[n]
    <2> DEFINE c == CHOOSE h : h = H(h)
    <2>1. c = H(c)
      BY <1>10
    <2>2. UnmapEach(x, s) = c[n]
      BY Zenon DEF UnmapEach
    <2> HIDE DEF c, H
    <2>3. QED BY <1>11, <2>1, <2>2
  <1>13. Firsts(s, n) = ToSet(s)
    BY DEF Firsts, ToSet
  <1>14. n \in 0 .. n
    BY <1>1
  <1>15. QED BY <1>8, <1>12, <1>13, <1>14

-----------------------------------------------------------------------------
(* Areas of the program *)

\* another protected list
LEMMA ProtectedEffect ==
  ASSUME NEW x \in Pcbs, NEW Q, Q \subseteq Int
  PROVE  LET y == [x EXCEPT !.protected = Q] IN
         /\ y \in Pcbs /\ y.mapped = x.mapped /\ y.total = x.total /\ y.failed = x.failed
         /\ TableFields(y) = TableFields(x) /\ Areas(y) = Areas(x) /\ Cache(y) = Cache(x) /\ Homes(y) = Homes(x)
         /\ y.protected = Q
  BY DEF Pcbs, TableFields, Areas, Cache, Homes

\* accounts depend on what is mapped, the tables, the cache and the protected pages
LEMMA WholeSame ==
  ASSUME NEW x, NEW y \in Pcbs, NEW H, Whole(x, H),
         y.mapped = x.mapped, y.total = x.total, Cache(y) = Cache(x), y.protected = x.protected,
         Homes(y) = Homes(x), TablePages(y) = TablePages(x), y.stack_base = x.stack_base,
         Measured(y), Typed(y) = Typed(x)
  PROVE  Whole(y, H)
  <1>1. Own(y) = Own(x) /\ DirtyRun(y) = DirtyRun(x) /\ SegmentRun(y) = SegmentRun(x) /\ y.cached_pages_base = x.cached_pages_base
    BY DEF Own, DirtyRun, SegmentRun, Homes
  <1>2. PICK G : G = Own(x) \cup H
    OBVIOUS
  <1>3. Ledger(x, G) /\ Split(G, {x.cached_pages_base}, DirtyRun(x), SegmentRun(x), H) /\ x.stack_base \in Typed(x)
    BY <1>2 DEF Whole
  <1>4. Ledger(y, G)
    <2>1. Ledger(x, G)
      BY <1>3
    <2>2. QED BY <2>1, LedgerSame
  <1>5. QED BY <1>1, <1>2, <1>3, <1>4 DEF Whole

\* the pages of areas of which one comes before the others
Before(b, n, s) == << <<b, n>> >> \o s

\* all pages of a list of areas
AllRuns(s) == Runs(s, Len(s))

\* one more area, that has no page in common with the others
LEMMA AreaBefore ==
  ASSUME NEW b \in Int, NEW n \in Nat, NEW s, Areal(s), Fresh(Run(b, n), AllRuns(s))
  PROVE  /\ Areal(Before(b, n, s))
         /\ AllRuns(Before(b, n, s)) = Run(b, n) \cup AllRuns(s)
  <1> DEFINE r == Before(b, n, s)
             k == Len(s)
             A(u, i) == Run(u[i][1], u[i][2])
  <1>1. s \in Seq(Int \X Nat) /\ k \in Nat
    BY DEF Areal
  <1>2. r \in Seq(Int \X Nat) /\ Len(r) = k + 1 /\ r[1] = <<b, n>> /\ \A i \in 1 .. k : r[i + 1] = s[i]
    <2> DEFINE V == Int \X Nat
               p == <<b, n>>
    <2>1. p \in V /\ s \in Seq(V) /\ r = <<p>> \o s
      BY <1>1 DEF Before
    <2> HIDE DEF V, p, r
    <2>2. <<p>> \in Seq(V) /\ Len(<<p>>) = 1 /\ <<p>>[1] = p
      BY <2>1
    <2>3. r \in Seq(V) /\ Len(r) = k + 1
      BY <2>1, <2>2
    <2>4. r[1] = p /\ \A i \in 1 .. k : r[i + 1] = s[i]
      BY <1>1, <2>1, <2>2
    <2>5. QED BY <2>3, <2>4 DEF V, p
  <1> HIDE DEF r, k
  <1>3. A(r, 1) = Run(b, n) /\ \A i \in 1 .. k : A(r, i + 1) = A(s, i)
    <2>1. r[1][1] = b /\ r[1][2] = n
      BY <1>2
    <2>2. QED BY <1>2, <2>1
  <1>4. \A i, j \in 1 .. k : i # j => A(s, i) \cap A(s, j) = {}
    BY DEF Areal, k
  <1>5. AllRuns(s) = UNION {A(s, i) : i \in 1 .. k} /\ AllRuns(r) = UNION {A(r, i) : i \in 1 .. k + 1}
    BY <1>2 DEF AllRuns, Runs, k
  <1> HIDE DEF A
  <1>6. \A i \in 1 .. k : A(s, i) \cap Run(b, n) = {}
    BY <1>5 DEF Fresh
  <1>7. \A i \in 1 .. k + 1 : i = 1 \/ (i - 1 \in 1 .. k /\ i = (i - 1) + 1)
    BY <1>1
  <1>8. \A i \in 1 .. k + 1 : i = 1 \/ (i - 1 \in 1 .. k /\ A(r, i) = A(s, i - 1))
    BY <1>3, <1>7
  <1>9. \A i, j \in 1 .. k + 1 : i # j => A(r, i) \cap A(r, j) = {}
    <2> TAKE i, j \in 1 .. k + 1
    <2> HAVE i # j
    <2>1. CASE i = 1
      <3>1. j - 1 \in 1 .. k /\ A(r, j) = A(s, j - 1)
        BY <1>8, <2>1
      <3>2. QED BY <1>3, <1>6, <2>1, <3>1
    <2>2. CASE j = 1
      <3>1. i - 1 \in 1 .. k /\ A(r, i) = A(s, i - 1)
        BY <1>8, <2>2
      <3>2. QED BY <1>3, <1>6, <2>2, <3>1
    <2>3. CASE i # 1 /\ j # 1
      <3>1. i - 1 \in 1 .. k /\ A(r, i) = A(s, i - 1) /\ j - 1 \in 1 .. k /\ A(r, j) = A(s, j - 1)
        BY <1>8, <2>3
      <3>2. i - 1 # j - 1
        BY <1>1
      <3>3. QED BY <1>4, <3>1, <3>2
    <2>4. QED BY <2>1, <2>2, <2>3
  <1>10. AllRuns(r) = Run(b, n) \cup AllRuns(s)
    <2>1. \A p \in AllRuns(r) : p \in Run(b, n) \cup AllRuns(s)
      BY <1>3, <1>5, <1>8
    <2>2. \A p \in Run(b, n) : p \in AllRuns(r)
      <3>1. 1 \in 1 .. k + 1
        BY <1>1
      <3>2. QED BY <1>3, <1>5, <3>1
    <2>3. \A p \in AllRuns(s) : p \in AllRuns(r)
      <3>1. \A i \in 1 .. k : i + 1 \in 1 .. k + 1
        BY <1>1
      <3>2. QED BY <1>3, <1>5, <3>1
    <2>4. QED BY <2>1, <2>2, <2>3
  <1>11. Areal(r)
    BY <1>2, <1>9 DEF Areal, A
  <1>12. QED BY <1>10, <1>11 DEF r

\* no area
LEMMA NoAreas ==
  Areal(<< >>) /\ AllRuns(<< >>) = {}
  <1>1. << >> \in Seq(Int \X Nat) /\ Len(<< >>) = 0 /\ 1 .. 0 = {}
    OBVIOUS
  <1>2. QED BY <1>1 DEF Areal, AllRuns, Runs

\* the nursery and those that are full are main heap, the stack is stack
Laid(x, full) ==
  /\ x.heap_size \in Nat
  /\ Areal(full) /\ Fresh(Run(x.heap_base, x.heap_size), AllRuns(full))
  /\ OfType(x, "mainheap") = Run(x.heap_base, x.heap_size) \cup AllRuns(full)
  /\ OfType(x, "mainstack") = Run(x.stack_base, StackPages)
\* the types of the areas are the same
SameAreas(x, y) ==
  /\ y.heap_base = x.heap_base /\ y.heap_size = x.heap_size /\ y.stack_base = x.stack_base
  /\ \A p, t : t \in {"mainheap", "mainstack"} => (Now(y, p).type = t <=> Now(x, p).type = t)

\* the same types, the same areas
LEMMA LaidSame ==
  ASSUME NEW x, NEW y, NEW full, Laid(x, full), SameAreas(x, y)
  PROVE  Laid(y, full)
  <1>1. OfType(y, "mainheap") = OfType(x, "mainheap") /\ OfType(y, "mainstack") = OfType(x, "mainstack")
    BY DEF SameAreas, OfType
  <1>2. QED BY <1>1 DEF Laid, SameAreas

\* what the tables say is kept
Kept(x, full) ==
  /\ Whole(x, {}) /\ Clean(x) /\ Laid(x, full)
  /\ x.failed = FALSE /\ x.deleted = FALSE

\* pages of objects are mapped
LEMMA GainedObjects ==
  ASSUME NEW x, NEW y, NEW full, Kept(x, full), Whole(y, {}), NEW b, NEW n, NEW w,
         Gained(x, y, b, n, w), w.type = "objects"
  PROVE  Kept(y, full)
  <1>1. \A p \in Run(b, n) : Now(x, p).type = "hole"
    BY TypedIs DEF Gained, Fresh
  <1>2. \A p : Now(y, p) = IF p \in Run(b, n) THEN w ELSE Now(x, p)
    BY DEF Gained
  <1>3. y.heap_base = x.heap_base /\ y.heap_size = x.heap_size /\ y.stack_base = x.stack_base
        /\ y.failed = x.failed /\ y.deleted = x.deleted
    BY DEF Gained, Areas
  <1>4. SameAreas(x, y)
    <2>1. \A p, t : t \in {"mainheap", "mainstack"} => (Now(y, p).type = t <=> Now(x, p).type = t)
      BY <1>1, <1>2
    <2>2. QED BY <1>3, <2>1 DEF SameAreas
  <1>5. Clean(y)
    BY <1>2 DEF Kept, Clean
  <1>6. Laid(y, full)
    BY <1>4, LaidSame DEF Kept
  <1>7. QED BY <1>3, <1>5, <1>6 DEF Kept

\* another nursery is mapped
LEMMA GainedNursery ==
  ASSUME NEW x, NEW y, Clean(x), x.failed = FALSE, x.deleted = FALSE, NEW b \in Int, NEW n \in Nat,
         Gained(x, y, b, n, MainHeap)
  PROVE  /\ Clean(y) /\ y.failed = FALSE /\ y.deleted = FALSE /\ Areas(y) = Areas(x)
         /\ Fresh(Run(b, n), OfType(x, "mainheap"))
         /\ OfType(y, "mainheap") = Run(b, n) \cup OfType(x, "mainheap")
         /\ OfType(y, "mainstack") = OfType(x, "mainstack")
  <1>1. \A p \in Run(b, n) : Now(x, p).type = "hole" /\ p \in PageNumber
    BY TypedIs DEF Gained, Fresh
  <1>2. \A p : Now(y, p) = IF p \in Run(b, n) THEN MainHeap ELSE Now(x, p)
    BY DEF Gained
  <1>3. MainHeap.type = "mainheap" /\ MainHeap.dirty = FALSE
    BY DEF MainHeap, Word
  <1>4. Areas(y) = Areas(x) /\ y.failed = FALSE /\ y.deleted = FALSE
    BY DEF Gained, Areas
  <1>5. Clean(y)
    BY <1>2, <1>3 DEF Clean
  <1>6. Fresh(Run(b, n), OfType(x, "mainheap"))
    BY <1>1 DEF Fresh, OfType
  <1>7. OfType(y, "mainheap") = Run(b, n) \cup OfType(x, "mainheap") /\ OfType(y, "mainstack") = OfType(x, "mainstack")
    BY <1>1, <1>2, <1>3 DEF OfType
  <1>8. QED BY <1>4, <1>5, <1>6, <1>7

-----------------------------------------------------------------------------
(* The invariant, and what the program does *)

\* the nurseries that are full, and what a collection knows
FullNow == IF gc.on THEN gc.old_heap_pages ELSE m.heap_pages

\* states of a collection
Collections ==
  [on : {TRUE}, gen : 0 .. MaxGeneration, need : Nat, segment_vector : Int \X Int,
   old_heap_pages : Seq(Int \X Int),
   scan : {"pages", "page", "over"}, page : Int, segment_vec : Int \X Int, dirty_vec : Int \X Int]

\* the copies that a scan makes are good when it uses them, and its page stays one of objects
Scanning(g, x) ==
  /\ g.scan # "over" => g.segment_vec = TableNow(x)
  /\ g.scan = "pages" => g.dirty_vec = DirtyNow(x)
  /\ g.scan = "page" => Now(x, g.page).type = "objects"

\* a collection runs: no new nursery was made, and it knows where the tables are
Collecting(g, x) ==
  /\ g \in Collections
  /\ g.segment_vector = TableNow(x) /\ Scanning(g, x)
  /\ x.heap_pages = << >>
\* nothing is left
Gone(x) ==
  /\ x \in Pcbs /\ x.deleted = TRUE /\ x.failed = FALSE
  /\ x.mapped = {} /\ x.total = 0
  /\ CacheFits(x)

\* the inductive invariant: while the program runs every page is accounted for
\* and the tables are right; in a collection the nurseries are those it started
\* with; and in the end nothing is left
PagesInv ==
  \/ Kept(m, FullNow) /\ (gc = Off \/ Collecting(gc, m))
  \/ Gone(m) /\ gc = Off

\* what the invariant depends on is the same
LEMMA KeptSame ==
  ASSUME NEW x, NEW y \in Pcbs, NEW full, Kept(x, full),
         y.mapped = x.mapped, y.total = x.total, y.failed = x.failed, y.deleted = x.deleted,
         TableFields(y) = TableFields(x), Cache(y) = Cache(x), Homes(y) = Homes(x), y.protected = x.protected,
         y.heap_base = x.heap_base, y.heap_size = x.heap_size, y.stack_base = x.stack_base
  PROVE  Kept(y, full)
  <1>1. Whole(x, {}) /\ Clean(x) /\ Laid(x, full) /\ x.failed = FALSE /\ x.deleted = FALSE /\ Measured(x)
    BY WholeMeasures DEF Kept
  <1>2. Measured(y) /\ Typed(y) = Typed(x) /\ TablePages(y) = TablePages(x) /\ \A p : Now(y, p) = Now(x, p)
    BY <1>1, TableSame
  <1>3. Whole(y, {})
    BY <1>1, <1>2, WholeSame
  <1>4. Clean(y)
    BY <1>1, <1>2 DEF Clean
  <1>5. SameAreas(x, y)
    BY <1>2 DEF SameAreas
  <1>6. Laid(y, full)
    BY <1>1, <1>5, LaidSame
  <1>7. QED BY <1>1, <1>3, <1>4, <1>6 DEF Kept

\* the program runs
LEMMA Running ==
  ASSUME PagesInv, Mutator
  PROVE  Kept(m, m.heap_pages) /\ gc = Off /\ m \in Pcbs
  <1>1. gc = Off /\ m.deleted # TRUE
    BY DEF Mutator
  <1>2. gc.on = FALSE
    BY <1>1 DEF Off
  <1>3. Kept(m, FullNow)
    BY <1>1 DEF PagesInv, Gone
  <1>4. QED BY <1>1, <1>2, <1>3, WholeMeasures DEF FullNow, Kept

\* and does so after a step
LEMMA StillRunning ==
  ASSUME gc' = Off, Kept(m, m.heap_pages)'
  PROVE  PagesInv'
  <1>1. gc'.on = FALSE
    BY DEF Off
  <1>2. FullNow' = (m').heap_pages
    BY <1>1 DEF FullNow
  <1>3. Kept(m, FullNow)'
    BY <1>2
  <1>4. QED BY <1>3 DEF PagesInv

\* sizes are natural numbers
LEMMA Sizes ==
  /\ Requests \subseteq Nat \ {0} /\ HeapSize \in Nat \ {0} /\ HeapExt \in Nat /\ Margin \in Nat \ {0}
  /\ StackPages \in Nat \ {0} /\ Segments \in Nat
  /\ \A a, b \in Nat : Larger(a, b) \in Nat /\ a <= Larger(a, b) /\ b <= Larger(a, b)
  BY PagesAssumption DEF Larger

\* words the memory manager writes
LEMMA WordsAre ==
  /\ MainHeap \in Words /\ MainHeap.type = "mainheap" /\ MainHeap.dirty = FALSE
  /\ MainStack \in Words /\ MainStack.type = "mainstack" /\ MainStack.dirty = FALSE
  /\ \A g, new : Objects(g, new).type = "objects" /\ Objects(g, new).dirty = FALSE
  /\ \A g \in Int : Objects(g, TRUE) \in Words /\ Objects(g, FALSE) \in Words
  BY DEF MainHeap, MainStack, Objects, Word, Words

\* objects are allocated in the nursery
LEMMA AllocKeeps ==
  ASSUME PagesInv, NEW n \in Requests, Alloc(n)
  PROVE  PagesInv'
  <1>1. Kept(m, m.heap_pages) /\ gc = Off /\ m \in Pcbs
    BY Running DEF Alloc
  <1>2. PICK x, y, u : x = m /\ y = m' /\ u = m.used + n
    OBVIOUS
  <1>3. y = [x EXCEPT !.used = u] /\ gc' = Off
    BY <1>1, <1>2 DEF Alloc
  <1>4. u \in Int
    BY <1>1, <1>2, Sizes DEF Pcbs
  <1>5. /\ y \in Pcbs /\ y.mapped = x.mapped /\ y.total = x.total /\ y.failed = x.failed /\ y.deleted = x.deleted
        /\ TableFields(y) = TableFields(x) /\ Cache(y) = Cache(x) /\ Homes(y) = Homes(x) /\ y.protected = x.protected
        /\ y.heap_base = x.heap_base /\ y.heap_size = x.heap_size /\ y.stack_base = x.stack_base
        /\ y.heap_pages = x.heap_pages
    <2>1. x \in Pcbs
      BY <1>1, <1>2
    <2>2. y \in Pcbs
      BY <1>3, <1>4, <2>1 DEF Pcbs
    <2>3. /\ y.mapped = x.mapped /\ y.total = x.total /\ y.failed = x.failed /\ y.deleted = x.deleted
          /\ y.protected = x.protected /\ y.heap_base = x.heap_base /\ y.heap_size = x.heap_size
          /\ y.stack_base = x.stack_base /\ y.heap_pages = x.heap_pages
      BY <1>3, <2>1 DEF Pcbs
    <2>4. TableFields(y) = TableFields(x)
      BY <1>3, <2>1 DEF Pcbs, TableFields
    <2>5. Cache(y) = Cache(x) /\ Homes(y) = Homes(x)
      BY <1>3, <2>1 DEF Pcbs, Cache, Homes
    <2>6. QED BY <2>2, <2>3, <2>4, <2>5
  <1>6. Kept(x, x.heap_pages)
    BY <1>1, <1>2
  <1>7. Kept(y, y.heap_pages)
    BY <1>5, <1>6, KeptSame
  <1>8. QED BY <1>2, <1>3, <1>7, StillRunning

\* the nursery is full: another is mapped, and the full one is put on the list
LEMMA NewNurseryKeeps ==
  ASSUME PagesInv, NEW n \in Requests, NewNursery(n)
  PROVE  PagesInv'
  <1>1. Kept(m, m.heap_pages) /\ gc = Off /\ m \in Pcbs
    BY Running DEF NewNursery
  <1>2. PICK size : size = Larger(n, HeapExt) + Margin
    OBVIOUS
  <1>3. PICK t : /\ t \in MMapTyped(m, size, MainHeap)
                 /\ m' = [t[1] EXCEPT !.heap_pages = <<<<m.heap_base, m.heap_size>>>> \o @,
                                      !.heap_base = t[2], !.heap_size = size, !.used = n]
    BY <1>2 DEF NewNursery
  <1>4. size \in Nat \ {0} /\ n \in Nat
    <2>1. n \in Nat /\ HeapExt \in Nat /\ Margin \in Nat \ {0}
      BY PagesAssumption
    <2>2. PICK k : k = Larger(n, HeapExt)
      OBVIOUS
    <2>3. k \in Nat
      BY <2>1, <2>2 DEF Larger
    <2>4. size = k + Margin
      BY <1>2, <2>2
    <2>5. QED BY <2>1, <2>3, <2>4
  <1>5. PICK x, z, b, y : x = m /\ z = t[1] /\ b = t[2] /\ y = m'
    OBVIOUS
  <1>6. Whole(x, {}) /\ Clean(x) /\ x.failed = FALSE /\ x.deleted = FALSE /\ Laid(x, x.heap_pages)
    BY <1>1, <1>5 DEF Kept
  <1>7. b \in Nat /\ Whole(z, {}) /\ Gained(x, z, b, size, MainHeap)
    <2>1. MainHeap \in Words /\ MainHeap.type # "hole" /\ MainHeap.dirty = FALSE
      BY WordsAre
    <2>2. t \in MMapTyped(x, size, MainHeap)
      BY <1>3, <1>5
    <2>3. QED BY <1>4, <1>5, <1>6, <2>1, <2>2, MMapTypedWhole
  <1>8. /\ Clean(z) /\ z.failed = FALSE /\ z.deleted = FALSE /\ Areas(z) = Areas(x)
        /\ Fresh(Run(b, size), OfType(x, "mainheap"))
        /\ OfType(z, "mainheap") = Run(b, size) \cup OfType(x, "mainheap")
        /\ OfType(z, "mainstack") = OfType(x, "mainstack")
    <2>1. b \in Int /\ size \in Nat
      BY <1>4, <1>7
    <2>2. QED BY <1>6, <1>7, <2>1, GainedNursery
  <1>9. PICK full : full = Before(x.heap_base, x.heap_size, x.heap_pages)
    OBVIOUS
  <1>10. Areal(full) /\ AllRuns(full) = OfType(x, "mainheap")
    <2>1. x.heap_base \in Int
      BY <1>1, <1>5 DEF Pcbs
    <2>2. QED BY <1>6, <1>9, <2>1, AreaBefore DEF Laid
  <1>11. z \in Pcbs
    BY <1>7, WholeMeasures
  <1>12. z.heap_pages = x.heap_pages /\ z.stack_base = x.stack_base
    BY <1>8 DEF Areas
  <1>13. y = [z EXCEPT !.heap_pages = full, !.heap_base = b, !.heap_size = size, !.used = n]
    BY <1>3, <1>5, <1>9, <1>12 DEF Before
  <1>14. full \in Seq(Int \X Int)
    <2>1. full \in Seq(Int \X Nat)
      BY <1>10 DEF Areal
    <2>2. QED BY <2>1
  <1>15. /\ y \in Pcbs /\ y.mapped = z.mapped /\ y.total = z.total /\ y.failed = z.failed /\ y.deleted = z.deleted
         /\ TableFields(y) = TableFields(z) /\ Cache(y) = Cache(z) /\ Homes(y) = Homes(z) /\ y.protected = z.protected
         /\ y.heap_base = b /\ y.heap_size = size /\ y.stack_base = z.stack_base
         /\ y.heap_pages = full
    <2>1. b \in Int /\ size \in Int /\ n \in Int
      BY <1>4, <1>7
    <2>2. QED BY <1>11, <1>13, <1>14, <2>1 DEF Pcbs, TableFields, Cache, Homes
  <1>16. Measured(y) /\ Typed(y) = Typed(z) /\ TablePages(y) = TablePages(z) /\ \A p : Now(y, p) = Now(z, p)
    BY <1>7, <1>15, WholeMeasures, TableSame
  <1>17. Whole(y, {})
    BY <1>7, <1>15, <1>16, WholeSame
  <1>18. Clean(y)
    BY <1>8, <1>16 DEF Clean
  <1>19. Laid(y, full)
    <2>1. OfType(y, "mainheap") = OfType(z, "mainheap") /\ OfType(y, "mainstack") = OfType(z, "mainstack")
      BY <1>16 DEF OfType
    <2>2. size \in Nat
      BY <1>4
    <2>3. OfType(x, "mainstack") = Run(x.stack_base, StackPages)
      BY <1>6 DEF Laid
    <2>4. QED BY <1>8, <1>10, <1>12, <1>15, <2>1, <2>2, <2>3 DEF Laid
  <1>20. Kept(y, y.heap_pages)
    BY <1>8, <1>15, <1>17, <1>18, <1>19 DEF Kept
  <1>21. gc' = Off
    BY <1>1 DEF NewNursery
  <1>22. QED BY <1>5, <1>20, <1>21, StillRunning

\* pages are mapped for objects
LEMMA MapObjectsKeeps ==
  ASSUME PagesInv, NEW n \in Requests, MapObjects(n)
  PROVE  PagesInv'
  <1>1. Kept(m, m.heap_pages) /\ gc = Off /\ m \in Pcbs
    BY Running DEF MapObjects
  <1>2. PICK w : w = Objects(0, FALSE)
    OBVIOUS
  <1>3. w \in Words /\ w.type = "objects" /\ w.type # "hole" /\ w.dirty = FALSE
    <2>1. 0 \in Int
      OBVIOUS
    <2>2. QED BY <1>2, <2>1, WordsAre
  <1>4. PICK t : t \in MMapTyped(m, n, w) /\ m' = t[1]
    BY <1>2 DEF MapObjects
  <1>5. n \in Nat \ {0}
    BY Sizes
  <1>6. Whole(m, {}) /\ Clean(m)
    BY <1>1 DEF Kept
  <1>7. t[2] \in Nat /\ Whole(t[1], {}) /\ Gained(m, t[1], t[2], n, w)
    BY <1>3, <1>4, <1>5, <1>6, MMapTypedWhole
  <1>8. Kept(t[1], m.heap_pages)
    BY <1>1, <1>3, <1>7, GainedObjects
  <1>9. t[1].heap_pages = m.heap_pages
    BY <1>7 DEF Gained, Areas
  <1>10. gc' = Off
    BY <1>1 DEF MapObjects
  <1>11. Kept(m, m.heap_pages)'
    BY <1>4, <1>8, <1>9
  <1>12. QED BY <1>10, <1>11, StillRunning

\* other pages are on the protected list
LEMMA ProtectedLedger ==
  ASSUME NEW x, NEW G, Ledger(x, G), NEW Q, Q \subseteq Int, NEW K,
         Split(x.mapped, Typed(x), ToSet(x.cached), Q, K)
  PROVE  Ledger([x EXCEPT !.protected = Q], K)
  <1>1. PICK y : y = [x EXCEPT !.protected = Q]
    OBVIOUS
  <1>2. x \in Pcbs /\ Measured(x) /\ CacheFits(x) /\ x.mapped \subseteq Usable /\ x.total = Cardinality(x.mapped)
    BY DEF Ledger
  <1>3. /\ y \in Pcbs /\ y.mapped = x.mapped /\ y.total = x.total /\ y.failed = x.failed
        /\ TableFields(y) = TableFields(x) /\ Cache(y) = Cache(x) /\ y.protected = Q
    BY <1>1, <1>2, ProtectedEffect
  <1>4. Measured(y) /\ Typed(y) = Typed(x)
    BY <1>2, <1>3, TableSame
  <1>5. y.cached = x.cached /\ y.uncached = x.uncached
    BY <1>3 DEF Cache
  <1>6. CacheFits(y)
    BY <1>2, <1>5 DEF CacheFits
  <1>7. Split(y.mapped, Typed(y), ToSet(y.cached), y.protected, K)
    BY <1>3, <1>4, <1>5
  <1>8. QED BY <1>1, <1>2, <1>3, <1>4, <1>6, <1>7 DEF Ledger

\* all but the protected list, and what is mapped for it, is the same
SameBut(x, y) ==
  /\ TableFields(y) = TableFields(x) /\ Areas(y) = Areas(x) /\ Homes(y) = Homes(x)
  /\ y.failed = x.failed

\* nothing but the protected list, what is mapped and the count changes
LEMMA ProtectedKept ==
  ASSUME NEW x, NEW full, Kept(x, full), NEW y, Ledger(y, Own(x)), SameBut(x, y)
  PROVE  Kept(y, full) /\ TableNow(y) = TableNow(x)
  <1>1. /\ Whole(x, {}) /\ Clean(x) /\ Laid(x, full) /\ x.failed = FALSE /\ x.deleted = FALSE
        /\ Split(Own(x) \cup {}, {x.cached_pages_base}, DirtyRun(x), SegmentRun(x), {}) /\ x.stack_base \in Typed(x)
    BY DEF Kept, Whole
  <1>2. /\ y.memory_base = x.memory_base /\ y.heap_base = x.heap_base /\ y.heap_size = x.heap_size
        /\ y.stack_base = x.stack_base /\ y.deleted = x.deleted /\ y.failed = x.failed
        /\ y.dirty_vector_base = x.dirty_vector_base /\ y.segment_vector_base = x.segment_vector_base
        /\ y.cached_pages_base = x.cached_pages_base
    BY DEF SameBut, TableFields, Areas, Homes
  <1>3. Typed(y) = Typed(x) /\ TablePages(y) = TablePages(x) /\ \A p : Now(y, p) = Now(x, p)
    BY TableSame DEF SameBut
  <1>4. Own(y) = Own(x) /\ DirtyRun(y) = DirtyRun(x) /\ SegmentRun(y) = SegmentRun(x)
    BY <1>2, <1>3 DEF Own, DirtyRun, SegmentRun
  <1>5. Whole(y, {})
    <2>1. Own(x) \cup {} = Own(x)
      OBVIOUS
    <2>2. QED BY <1>1, <1>2, <1>3, <1>4, <2>1 DEF Whole
  <1>6. Clean(y) /\ SameAreas(x, y)
    BY <1>1, <1>2, <1>3 DEF Clean, SameAreas
  <1>7. Laid(y, full)
    BY <1>1, <1>6, LaidSame
  <1>8. QED BY <1>1, <1>2, <1>5, <1>6, <1>7 DEF Kept, TableNow

\* a page of guardian entries is mapped
LEMMA MapProtectedKeeps ==
  ASSUME PagesInv, MapProtected
  PROVE  PagesInv'
  <1>1. Kept(m, m.heap_pages) /\ gc = Off /\ m \in Pcbs
    BY Running DEF MapProtected
  <1>2. PICK t : t \in MMap(m, 1) /\ m' = [t[1] EXCEPT !.protected = @ \cup {t[2]}]
    BY DEF MapProtected
  <1>3. PICK x, z, p, y, Q : x = m /\ z = t[1] /\ p = t[2] /\ y = m' /\ Q = z.protected \cup {p}
    OBVIOUS
  <1>4. y = [z EXCEPT !.protected = Q]
    BY <1>2, <1>3
  <1>5. PICK G : G = Own(x)
    OBVIOUS
  <1>6. Ledger(x, G)
    <2>1. Own(x) \cup {} = Own(x)
      OBVIOUS
    <2>2. QED BY <1>1, <1>3, <1>5, <2>1 DEF Kept, Whole
  <1>7. z \in Pcbs /\ SameUses(x, z) /\ z.failed = x.failed /\ p \in Nat
    BY <1>1, <1>2, <1>3, MMapEffect
  <1>8. Ledger(z, G \cup {p}) /\ p \notin G
    <2>1. 1 \in Nat \ {0} /\ t \in MMap(x, 1)
      BY <1>2, <1>3
    <2>2. Ledger(z, G \cup Run(p, 1)) /\ Run(p, 1) \cap G = {}
      BY <1>3, <1>6, <2>1, MMapLedger
    <2>3. Run(p, 1) = {p}
      BY <1>7, RunIn
    <2>4. QED BY <2>2, <2>3
  <1>9. Q \subseteq Int
    BY <1>3, <1>7 DEF Pcbs
  <1>10. Split(z.mapped, Typed(z), ToSet(z.cached), Q, G)
    BY <1>3, <1>8 DEF Ledger, Split
  <1>11. Ledger(y, G)
    BY <1>4, <1>8, <1>9, <1>10, ProtectedLedger
  <1>12. SameBut(x, y) /\ Areas(y) = Areas(x)
    BY <1>4, <1>7, <1>9, ProtectedEffect DEF SameBut, SameUses
  <1>13. Kept(x, x.heap_pages) /\ Ledger(y, Own(x))
    BY <1>1, <1>3, <1>5, <1>11
  <1>14. Kept(y, x.heap_pages)
    BY <1>12, <1>13, ProtectedKept
  <1>15. y.heap_pages = x.heap_pages
    BY <1>12 DEF Areas
  <1>16. gc' = Off
    BY <1>1 DEF MapProtected
  <1>17. Kept(y, y.heap_pages)
    BY <1>14, <1>15
  <1>18. QED BY <1>3, <1>16, <1>17, StillRunning

\* the stack overflows: its pages become objects, and others the stack
LEMMA StackOverflowKeeps ==
  ASSUME PagesInv, StackOverflow
  PROVE  PagesInv'
  <1>1. Kept(m, m.heap_pages) /\ gc = Off /\ m \in Pcbs
    BY Running DEF StackOverflow
  <1>2. PICK x, w, v, full : x = m /\ w = Objects(0, FALSE) /\ v = SetType(x, x.stack_base, StackPages, w) /\ full = m.heap_pages
    OBVIOUS
  <1>3. PICK t : t \in MMapTyped(v, StackPages, MainStack) /\ m' = [t[1] EXCEPT !.stack_base = t[2]]
    BY <1>2 DEF StackOverflow
  <1>4. w \in Words /\ w.type = "objects" /\ w.type # "hole"
    <2>1. 0 \in Int
      OBVIOUS
    <2>2. QED BY <1>2, <2>1, WordsAre
  <1>5. Whole(x, {}) /\ Clean(x) /\ Laid(x, full) /\ x.failed = FALSE /\ x.deleted = FALSE /\ x \in Pcbs
    BY <1>1, <1>2 DEF Kept
  <1>6. StackPages \in Nat \ {0} /\ StackPages \in Int /\ x.stack_base \in Int
    BY <1>5, PagesAssumption DEF Pcbs
  <1>7. PICK R, G : R = Run(x.stack_base, StackPages) /\ G = Own(x)
    OBVIOUS
  <1>8. R = OfType(x, "mainstack") /\ R \subseteq Typed(x) /\ R \subseteq Covered(x)
    <2>1. R = OfType(x, "mainstack")
      BY <1>5, <1>7 DEF Laid
    <2>2. R \subseteq Typed(x)
      BY <2>1, TypedIs DEF OfType
    <2>3. Typed(x) \subseteq Covered(x)
      BY TypedIs
    <2>4. QED BY <2>1, <2>2, <2>3
  <1>9. /\ Ledger(x, G) /\ Split(G, {x.cached_pages_base}, DirtyRun(x), SegmentRun(x), {}) /\ G \cap R = {}
    <2>1. Own(x) \cup {} = G
      BY <1>7
    <2>2. Ledger(x, G) /\ Split(G, {x.cached_pages_base}, DirtyRun(x), SegmentRun(x), {})
      BY <1>5, <2>1 DEF Whole
    <2>3. QED BY <1>8, <2>2 DEF Ledger, Split
  <1>10. /\ Ledger(v, G) /\ SameMemory(x, v) /\ v.failed = x.failed /\ v \in Pcbs
         /\ \A p : Now(v, p) = IF p \in R THEN Dirtied(w, Now(x, p)) ELSE Now(x, p)
    <2>1. May(x, G, Run(x.stack_base, StackPages))
      BY <1>7, <1>8 DEF May
    <2>2. Becomes(x, v, G, x.stack_base, StackPages, w)
      BY <1>2, <1>4, <1>6, <1>9, <2>1, SetTypeLedger
    <2>3. G \ R = G
      BY <1>9
    <2>4. QED BY <1>7, <2>2, <2>3 DEF Becomes, Ledger
  <1>11. \A d : Dirtied(w, d).type = "objects"
    BY <1>4 DEF Dirtied, Words
  <1>12. \A p : Now(v, p).type = IF p \in R THEN "objects" ELSE Now(x, p).type
    BY <1>10, <1>11
  <1>13. Clean(v)
    <2>1. ASSUME NEW p, Now(v, p).dirty PROVE Now(v, p).type = "objects"
      <3>1. CASE p \in R
        BY <1>12, <3>1
      <3>2. CASE p \notin R
        BY <1>5, <1>10, <2>1, <3>2 DEF Clean
      <3>3. QED BY <3>1, <3>2
    <2>2. QED BY <2>1 DEF Clean
  <1>14. Typed(v) = Typed(x)
    <2>1. \A p \in R : Now(x, p).type # "hole"
      BY <1>8, TypedIs
    <2>2. \A p : Now(v, p).type # "hole" <=> Now(x, p).type # "hole"
      BY <1>12, <2>1
    <2>3. QED BY <2>2, TypedIs
  <1>15. Whole(v, {})
    <2>1. v.stack_base = x.stack_base /\ v.cached_pages_base = x.cached_pages_base
          /\ v.dirty_vector_base = x.dirty_vector_base /\ v.segment_vector_base = x.segment_vector_base
          /\ TablePages(v) = TablePages(x)
      BY <1>10 DEF SameMemory, Areas, Homes, TablePages
    <2>2. Own(v) = G /\ DirtyRun(v) = DirtyRun(x) /\ SegmentRun(v) = SegmentRun(x)
      BY <1>7, <2>1 DEF Own, DirtyRun, SegmentRun
    <2>3. Own(v) \cup {} = G
      BY <2>2
    <2>4. x.stack_base \in Typed(x)
      BY <1>5 DEF Whole
    <2>5. QED BY <1>9, <1>10, <1>14, <2>1, <2>2, <2>3, <2>4 DEF Whole
  <1>16. PICK z, b, y : z = t[1] /\ b = t[2] /\ y = m'
    OBVIOUS
  <1>17. b \in Nat /\ Whole(z, {}) /\ Gained(v, z, b, StackPages, MainStack)
    <2>1. MainStack \in Words /\ MainStack.type # "hole" /\ MainStack.dirty = FALSE
      BY WordsAre
    <2>2. QED BY <1>3, <1>6, <1>13, <1>15, <1>16, <2>1, MMapTypedWhole
  <1>18. PICK N : N = Run(b, StackPages)
    OBVIOUS
  <1>19. /\ Areas(z) = Areas(x) /\ z.failed = x.failed /\ N \cap Typed(x) = {} /\ N \subseteq PageNumber
         /\ \A p : Now(z, p) = IF p \in N THEN MainStack ELSE Now(v, p)
    BY <1>10, <1>14, <1>17, <1>18 DEF Gained, Fresh, SameMemory
  <1>20. \A p \in N : Now(x, p).type = "hole" /\ p \in PageNumber
    BY <1>19, TypedIs
  <1>21. \A p : Now(z, p).type = IF p \in N THEN "mainstack" ELSE IF p \in R THEN "objects" ELSE Now(x, p).type
    <2>1. MainStack.type = "mainstack"
      BY WordsAre
    <2>2. QED BY <1>12, <1>19, <2>1
  <1>22. OfType(z, "mainstack") = N
    <2>1. \A p \in PageNumber : p \in R <=> Now(x, p).type = "mainstack"
      BY <1>8 DEF OfType
    <2>2. \A p \in PageNumber : Now(z, p).type = "mainstack" <=> p \in N
      BY <1>21, <2>1
    <2>3. QED BY <1>20, <2>2 DEF OfType
  <1>23. OfType(z, "mainheap") = OfType(x, "mainheap")
    <2>1. \A p \in R : Now(x, p).type = "mainstack"
      BY <1>8 DEF OfType
    <2>2. \A p : Now(z, p).type = "mainheap" <=> Now(x, p).type = "mainheap"
      BY <1>20, <1>21, <2>1
    <2>3. QED BY <2>2 DEF OfType
  <1>24. Clean(z)
    <2>1. MainStack.dirty = FALSE
      BY WordsAre
    <2>2. QED BY <1>13, <1>19, <2>1 DEF Clean
  <1>25. y = [z EXCEPT !.stack_base = b] /\ z \in Pcbs /\ b \in Int
    BY <1>3, <1>16, <1>17, WholeMeasures
  <1>26. /\ y \in Pcbs /\ y.mapped = z.mapped /\ y.total = z.total /\ y.failed = z.failed /\ y.deleted = z.deleted
         /\ TableFields(y) = TableFields(z) /\ Cache(y) = Cache(z) /\ Homes(y) = Homes(z) /\ y.protected = z.protected
         /\ y.heap_base = z.heap_base /\ y.heap_size = z.heap_size /\ y.stack_base = b
         /\ y.heap_pages = z.heap_pages
    BY <1>25 DEF Pcbs, TableFields, Cache, Homes
  <1>27. Measured(y) /\ Typed(y) = Typed(z) /\ TablePages(y) = TablePages(z) /\ \A p : Now(y, p) = Now(z, p)
    BY <1>17, <1>26, WholeMeasures, TableSame
  <1>28. Whole(y, {})
    <2>1. Own(y) = Own(z) /\ DirtyRun(y) = DirtyRun(z) /\ SegmentRun(y) = SegmentRun(z) /\ y.cached_pages_base = z.cached_pages_base
      BY <1>26, <1>27 DEF Own, DirtyRun, SegmentRun, Homes
    <2>2. PICK K : K = Own(z) \cup {}
      OBVIOUS
    <2>3. Ledger(z, K) /\ Split(K, {z.cached_pages_base}, DirtyRun(z), SegmentRun(z), {})
      BY <1>17, <2>2 DEF Whole
    <2>4. Ledger(y, K)
      BY <1>26, <1>27, <2>3, LedgerSame
    <2>5. y.stack_base \in Typed(y)
      <3>1. b \in N
        BY <1>6, <1>17, <1>18, RunIn
      <3>2. Now(z, b).type # "hole" /\ b \in PageNumber
        BY <1>20, <1>21, <3>1
      <3>3. QED BY <1>26, <1>27, <3>2, TypedIs
    <2>6. QED BY <2>1, <2>2, <2>3, <2>4, <2>5 DEF Whole
  <1>29. Laid(y, full)
    <2>1. OfType(y, "mainheap") = OfType(x, "mainheap") /\ OfType(y, "mainstack") = N
      BY <1>22, <1>23, <1>27 DEF OfType
    <2>2. y.heap_base = x.heap_base /\ y.heap_size = x.heap_size
      BY <1>19, <1>26 DEF Areas
    <2>3. QED BY <1>5, <1>18, <1>26, <2>1, <2>2 DEF Laid
  <1>30. Clean(y)
    BY <1>24, <1>27 DEF Clean
  <1>31. y.heap_pages = full /\ y.failed = FALSE /\ y.deleted = FALSE
    BY <1>2, <1>5, <1>19, <1>26 DEF Areas
  <1>32. Kept(y, y.heap_pages)
    BY <1>28, <1>29, <1>30, <1>31 DEF Kept
  <1>33. gc' = Off
    BY <1>1 DEF StackOverflow
  <1>34. QED BY <1>16, <1>32, <1>33, StillRunning

-----------------------------------------------------------------------------
(* Collections *)

\* y is x but for the entry of p, which holds objects
Retagged(x, y, p) ==
  /\ SameMemory(x, y) /\ y.failed = x.failed
  /\ Now(x, p).type = "objects" /\ Now(y, p).type = "objects"
  /\ \A q : q # p => Now(y, q) = Now(x, q)

\* a page of objects gets another word
LEMMA RetaggedKept ==
  ASSUME NEW x, NEW full, Kept(x, full), NEW y, NEW p, Ledger(y, Own(x)), Retagged(x, y, p)
  PROVE  Kept(y, full) /\ TableNow(y) = TableNow(x) /\ y.heap_pages = x.heap_pages
  <1>1. /\ Whole(x, {}) /\ Clean(x) /\ Laid(x, full) /\ x.failed = FALSE /\ x.deleted = FALSE
        /\ Split(Own(x) \cup {}, {x.cached_pages_base}, DirtyRun(x), SegmentRun(x), {}) /\ x.stack_base \in Typed(x)
    BY DEF Kept, Whole
  <1>2. /\ y.memory_base = x.memory_base /\ y.memory_end = x.memory_end /\ y.heap_base = x.heap_base /\ y.heap_size = x.heap_size
        /\ y.stack_base = x.stack_base /\ y.deleted = x.deleted /\ y.failed = x.failed /\ y.heap_pages = x.heap_pages
        /\ y.dirty_vector_base = x.dirty_vector_base /\ y.segment_vector_base = x.segment_vector_base
        /\ y.cached_pages_base = x.cached_pages_base
    BY DEF Retagged, SameMemory, Areas, Homes
  <1>3. \A q : Now(y, q).type = Now(x, q).type
    BY DEF Retagged
  <1>4. Typed(y) = Typed(x)
    BY <1>3, TypedIs
  <1>5. Own(y) = Own(x) /\ DirtyRun(y) = DirtyRun(x) /\ SegmentRun(y) = SegmentRun(x)
    BY <1>2 DEF Own, DirtyRun, SegmentRun, TablePages
  <1>6. Whole(y, {})
    <2>1. Own(x) \cup {} = Own(x)
      OBVIOUS
    <2>2. QED BY <1>1, <1>2, <1>4, <1>5, <2>1 DEF Whole
  <1>7. Clean(y)
    BY <1>1 DEF Clean, Retagged
  <1>8. Laid(y, full)
    BY <1>1, <1>2, <1>3, LaidSame DEF SameAreas
  <1>9. QED BY <1>1, <1>2, <1>6, <1>7, <1>8 DEF Kept, TableNow

\* while the program runs no page is in hand
LEMMA KeptLedger ==
  ASSUME NEW x, NEW full, Kept(x, full)
  PROVE  /\ Ledger(x, Own(x)) /\ x \in Pcbs /\ Measured(x)
         /\ Own(x) \cap Typed(x) = {} /\ Own(x) \cap x.protected = {} /\ Own(x) \cap ToSet(x.cached) = {}
         /\ Typed(x) \cap x.protected = {} /\ x.protected \subseteq x.mapped
  <1>1. Own(x) \cup {} = Own(x)
    OBVIOUS
  <1>2. Ledger(x, Own(x))
    BY <1>1 DEF Kept, Whole
  <1>3. QED BY <1>2 DEF Ledger, Split

\* the dirty bits of a page are stored
Stored(x, y, p, d) == y = [x EXCEPT !.table[At(x, p)].dirty = d]

\* a page of objects is dirtied, or cleaned
LEMMA DirtyStored ==
  ASSUME NEW x, NEW full, Kept(x, full), NEW p \in Covered(x), Entry(x, p).type = "objects",
         NEW d \in BOOLEAN, NEW y, Stored(x, y, p, d)
  PROVE  /\ Kept(y, full) /\ TableNow(y) = TableNow(x) /\ y.heap_pages = x.heap_pages
         /\ \A q : Now(y, q).type = Now(x, q).type
  <1>2. PICK G : G = Own(x)
    OBVIOUS
  <1>3. /\ Ledger(x, G) /\ x \in Pcbs /\ Measured(x)
    BY <1>2, KeptLedger
  <1> DEFINE e == [i \in DOMAIN x.table |-> [x.table[i] EXCEPT !.dirty = d]]
             S == Run(At(x, p), 1)
  <1>4. p \in PageNumber /\ p \in Int /\ At(x, p) \in Int /\ At(x, p) \in DOMAIN x.table /\ S = {At(x, p)}
    <2>1. p \in PageNumber /\ At(x, p) \in DOMAIN x.table
      BY <1>3, EntryIn
    <2>2. p \in Int /\ At(x, p) \in Int
      BY <1>3, <2>1, PagesAssumption DEF PageNumber, At, Pcbs
    <2>3. QED BY <2>1, <2>2, RunIn
  <1>5. x.table \in [DOMAIN x.table -> Words]
    BY <1>3 DEF Measured
  <1>6. e \in [DOMAIN x.table -> Words]
    <2>1. \A v \in Words : [v EXCEPT !.dirty = d] \in Words
      BY DEF Words
    <2>2. QED BY <1>5, <2>1
  <1>7. y = [x EXCEPT !.table = Written(x, S, e)]
    <2>1. Written(x, S, e) = [x.table EXCEPT ![At(x, p)].dirty = d]
      BY <1>4, <1>5 DEF Written
    <2>2. QED BY <2>1 DEF Stored
  <1>8. PICK T : T = Written(x, S, e)
    OBVIOUS
  <1>9. T \in Tables
    BY <1>3, <1>6, <1>8, WrittenInTables
  <1>10. /\ y \in Pcbs /\ y.mapped = x.mapped /\ y.total = x.total /\ y.failed = x.failed
         /\ Areas(y) = Areas(x) /\ Cache(y) = Cache(x) /\ Homes(y) = Homes(x) /\ y.protected = x.protected
         /\ y.memory_base = x.memory_base /\ y.memory_end = x.memory_end /\ y.table = T
    BY <1>3, <1>7, <1>8, <1>9 DEF Pcbs, Areas, Cache, Homes
  <1>11. /\ Measured(y)
         /\ \A q \in Covered(x) : Now(y, q) = IF q \in Run(p, 1) THEN e[At(x, q)] ELSE Now(x, q)
         /\ \A q : q \notin Covered(x) => Now(y, q) = Hole /\ Now(x, q) = Hole
    <2>1. y.table = Written(x, Run(At(x, p), 1), e) /\ 1 \in Int
      BY <1>8, <1>10
    <2> HIDE DEF e
    <2>2. QED BY <1>3, <1>4, <1>6, <1>10, <2>1, TableWritten
  <1>12. Run(p, 1) = {p}
    BY <1>4, RunIn
  <1>13. Now(x, p).type = "objects" /\ Now(y, p).type = "objects"
    <2>1. Entry(x, p).type = "objects" /\ Now(x, p) = Entry(x, p)
      BY DEF Now
    <2>2. x.table[At(x, p)] \in Words
      BY <1>4, <1>5
    <2>3. Now(y, p) = [x.table[At(x, p)] EXCEPT !.dirty = d]
      BY <1>3, <1>4, <1>11, <1>12
    <2>4. QED BY <2>1, <2>2, <2>3 DEF Entry, Words
  <1>14. \A q : q # p => Now(y, q) = Now(x, q)
    BY <1>11, <1>12
  <1>15. Retagged(x, y, p)
    BY <1>10, <1>13, <1>14 DEF Retagged, SameMemory
  <1>16. Typed(y) = Typed(x)
    <2>1. \A q : Now(y, q).type = Now(x, q).type
      BY <1>13, <1>14
    <2>2. QED BY <2>1, TypedIs
  <1>17. Ledger(y, G)
    BY <1>3, <1>10, <1>11, <1>16, LedgerSame
  <1>18. QED BY <1>2, <1>13, <1>14, <1>15, <1>17, RetaggedKept

\* the write barrier
LEMMA WriteKeeps ==
  ASSUME PagesInv, NEW p \in Covered(m), Write(p)
  PROVE  PagesInv'
  <1>1. Kept(m, m.heap_pages) /\ gc = Off /\ gc' = gc
    BY Running DEF Write
  <1>2. PICK full, x, y : full = m.heap_pages /\ x = m /\ y = m'
    OBVIOUS
  <1>3. Kept(x, full) /\ p \in Covered(x) /\ Entry(x, p).type = "objects"
    BY <1>1, <1>2 DEF Write
  <1>4. Kept(y, full) /\ y.heap_pages = full
    <2>1. Stored(x, y, p, TRUE)
      BY <1>2 DEF Write, Stored
    <2>2. PICK d \in BOOLEAN : Stored(x, y, p, d)
      BY <2>1
    <2>3. QED BY <1>2, <1>3, <2>2, DirtyStored
  <1>5. QED BY <1>1, <1>2, <1>4, StillRunning

-----------------------------------------------------------------------------

\* a collection begins
LEMMA CollectBeginKeeps ==
  ASSUME PagesInv, NEW n \in Nat, CollectBegin(n)
  PROVE  PagesInv'
  <1>1. Kept(m, m.heap_pages) /\ gc = Off /\ m \in Pcbs
    BY Running DEF CollectBegin
  <1>2. PICK x, y : x = m /\ y = m'
    OBVIOUS
  <1>3. y = [x EXCEPT !.heap_pages = << >>]
    BY <1>2 DEF CollectBegin
  <1>4. << >> \in Seq(Int \X Int)
    OBVIOUS
  <1>5. /\ y \in Pcbs /\ y.mapped = x.mapped /\ y.total = x.total /\ y.failed = x.failed /\ y.deleted = x.deleted
        /\ TableFields(y) = TableFields(x) /\ Cache(y) = Cache(x) /\ Homes(y) = Homes(x) /\ y.protected = x.protected
        /\ y.heap_base = x.heap_base /\ y.heap_size = x.heap_size /\ y.stack_base = x.stack_base
        /\ y.heap_pages = << >>
    BY <1>1, <1>2, <1>3, <1>4 DEF Pcbs, TableFields, Cache, Homes
  <1>6. Kept(y, x.heap_pages)
    BY <1>1, <1>2, <1>5, KeptSame
  <1>7. /\ TableNow(y) = TableNow(x) /\ TableNow(x) \in Int \X Int
        /\ DirtyNow(y) = DirtyNow(x) /\ DirtyNow(x) \in Int \X Int
    BY <1>1, <1>2, <1>5 DEF TableNow, DirtyNow, Homes, TableFields, Pcbs
  <1>8. PICK g \in 0 .. MaxGeneration :
          gc' = [on |-> TRUE, gen |-> g, need |-> n, segment_vector |-> TableNow(m), old_heap_pages |-> m.heap_pages,
                 scan |-> "pages", page |-> 0, segment_vec |-> TableNow(m), dirty_vec |-> DirtyNow(m)]
    BY DEF CollectBegin
  <1>9. /\ gc' \in Collections /\ (gc').on = TRUE /\ (gc').old_heap_pages = x.heap_pages /\ (gc').segment_vector = TableNow(x)
        /\ (gc').scan = "pages" /\ (gc').segment_vec = TableNow(x) /\ (gc').dirty_vec = DirtyNow(x)
    <2>1. x.heap_pages \in Seq(Int \X Int) /\ 0 \in Int
      BY <1>1, <1>2 DEF Pcbs
    <2>2. PICK u, d : u = TableNow(x) /\ d = DirtyNow(x) /\ u \in Int \X Int /\ d \in Int \X Int
      BY <1>7
    <2>3. gc' = [on |-> TRUE, gen |-> g, need |-> n, segment_vector |-> u, old_heap_pages |-> x.heap_pages,
                 scan |-> "pages", page |-> 0, segment_vec |-> u, dirty_vec |-> d]
      BY <1>2, <1>8, <2>2
    <2>4. QED BY <2>1, <2>2, <2>3 DEF Collections
  <1>10. Collecting(gc, m)'
    <2>1. Scanning(gc', y)
      BY <1>7, <1>9 DEF Scanning
    <2>2. QED BY <1>2, <1>5, <1>7, <1>9, <2>1 DEF Collecting
  <1>11. FullNow' = x.heap_pages
    BY <1>9 DEF FullNow
  <1>12. Kept(m, FullNow)'
    BY <1>2, <1>6, <1>11
  <1>13. QED BY <1>10, <1>12 DEF PagesInv

\* a collection runs
LEMMA InCollection ==
  ASSUME PagesInv, gc.on
  PROVE  Kept(m, gc.old_heap_pages) /\ Collecting(gc, m)
  <1>1. gc # Off
    BY DEF Off
  <1>2. QED BY <1>1 DEF PagesInv, FullNow

\* and does so after a step
LEMMA StillCollecting ==
  ASSUME NEW full, Kept(m', full), (gc').old_heap_pages = full, Collecting(gc', m')
  PROVE  PagesInv'
  <1>1. (gc').on = TRUE
    BY DEF Collecting, Collections
  <1>2. FullNow' = full
    BY <1>1 DEF FullNow
  <1>3. Kept(m, FullNow)' /\ Collecting(gc, m)'
    BY <1>2
  <1>4. QED BY <1>3 DEF PagesInv

\* generations are numbers
LEMMA GenerationNext ==
  ASSUME NEW g \in Collections PROVE NextOf(g.gen) \in Int /\ g.need \in Nat
  <1>1. g.gen \in 0 .. 1 /\ g.need \in Nat
    BY DEF Collections, MaxGeneration
  <1>2. QED BY <1>1 DEF NextOf, MaxGeneration

\* the collector maps pages, and reads where the table is again
LEMMA GcMapKeeps ==
  ASSUME PagesInv, NEW n \in Requests, GcMap(n)
  PROVE  PagesInv'
  <1>1. PICK full : full = gc.old_heap_pages
    OBVIOUS
  <1>2. Kept(m, full) /\ Collecting(gc, m) /\ gc \in Collections
    BY <1>1, InCollection DEF GcMap, Collecting
  <1>3. PICK w : w = Objects(NextOf(gc.gen), TRUE)
    OBVIOUS
  <1>4. w \in Words /\ w.type = "objects" /\ w.type # "hole" /\ w.dirty = FALSE
    BY <1>2, <1>3, GenerationNext, WordsAre
  <1>5. PICK t : /\ t \in MMapTyped(m, n, w) /\ m' = t[1]
                 /\ gc' = [gc EXCEPT !.segment_vector = TableNow(t[1]),
                                     !.segment_vec = IF gc.scan = "page" THEN TableNow(t[1]) ELSE @]
    BY <1>3 DEF GcMap
  <1>6. n \in Nat \ {0} /\ Whole(m, {}) /\ Clean(m)
    BY <1>2, Sizes DEF Kept
  <1>7. t[2] \in Nat /\ Whole(t[1], {}) /\ Gained(m, t[1], t[2], n, w)
    BY <1>4, <1>5, <1>6, MMapTypedWhole
  <1>8. PICK z, v : z = t[1] /\ v = TableNow(z)
    OBVIOUS
  <1>9. Kept(z, full) /\ z.heap_pages = << >> /\ z \in Pcbs
    <2>1. Kept(z, full)
      BY <1>2, <1>4, <1>7, <1>8, GainedObjects
    <2>2. z.heap_pages = m.heap_pages
      BY <1>7, <1>8 DEF Gained, Areas
    <2>3. QED BY <1>2, <2>1, <2>2, KeptLedger DEF Collecting
  <1>10. v \in Int \X Int
    BY <1>8, <1>9 DEF TableNow, Pcbs
  <1>11. PICK u : /\ gc' = [gc EXCEPT !.segment_vector = v, !.segment_vec = u] /\ u \in Int \X Int
                  /\ gc.scan = "page" => u = v
    <2>1. gc' = [gc EXCEPT !.segment_vector = v, !.segment_vec = IF gc.scan = "page" THEN v ELSE gc.segment_vec]
      BY <1>5, <1>8
    <2>2. gc.segment_vec \in Int \X Int
      BY <1>2 DEF Collections
    <2>3. QED BY <1>10, <2>1, <2>2
  <1>12. /\ gc' \in Collections /\ (gc').segment_vector = v /\ (gc').old_heap_pages = full
         /\ (gc').scan = gc.scan /\ (gc').page = gc.page /\ (gc').segment_vec = u
    BY <1>1, <1>2, <1>10, <1>11 DEF Collections
  <1>13. Collecting(gc', m')
    <2>1. gc.scan = "page" \/ gc.scan = "over"
      BY <1>2 DEF GcMap, Collections
    <2>2. gc.scan = "page" => Now(z, gc.page).type = "objects"
      <3>1. gc.scan = "page" => Now(m, gc.page).type = "objects"
        BY <1>2 DEF Collecting, Scanning
      <3>2. \A q : Now(z, q) = IF q \in Run(t[2], n) THEN w ELSE Now(m, q)
        BY <1>7, <1>8 DEF Gained
      <3>3. QED BY <1>4, <3>1, <3>2
    <2>3. Scanning(gc', z)
      BY <1>8, <1>11, <1>12, <2>1, <2>2 DEF Scanning
    <2>4. QED BY <1>5, <1>8, <1>9, <1>12, <2>3 DEF Collecting
  <1>14. Kept(m', full)
    BY <1>5, <1>8, <1>9
  <1>15. QED BY <1>12, <1>13, <1>14, StillCollecting

\* reading again where the tables are
LEMMA ReadAgainScans ==
  ASSUME NEW g \in Collections, NEW x \in Pcbs
  PROVE  LET h == ReadAgain(g, x) IN
         /\ h \in Collections /\ h.segment_vector = g.segment_vector /\ h.old_heap_pages = g.old_heap_pages
         /\ h.segment_vec = TableNow(x) /\ h.dirty_vec = DirtyNow(x)
  <1>1. PICK u, d : u = TableNow(x) /\ d = DirtyNow(x)
    OBVIOUS
  <1>2. u \in Int \X Int /\ d \in Int \X Int
    BY <1>1 DEF TableNow, DirtyNow, Pcbs
  <1>3. PICK h : h = [g EXCEPT !.segment_vec = u, !.dirty_vec = d]
    OBVIOUS
  <1>4. h \in Collections /\ h.segment_vector = g.segment_vector /\ h.old_heap_pages = g.old_heap_pages
        /\ h.segment_vec = u /\ h.dirty_vec = d
    BY <1>2, <1>3 DEF Collections
  <1>5. ReadAgain(g, x) = h
    BY <1>1, <1>3 DEF ReadAgain
  <1>6. QED BY <1>1, <1>4, <1>5

\* the scan of a dirty page begins
LEMMA ScanPageKeeps ==
  ASSUME PagesInv, NEW p \in Covered(m), ScanPage(p)
  PROVE  PagesInv'
  <1>1. PICK full, x : full = gc.old_heap_pages /\ x = m
    OBVIOUS
  <1>2. Kept(x, full) /\ Collecting(gc, x) /\ gc \in Collections /\ m' = x
    BY <1>1, InCollection DEF ScanPage, Collecting
  <1>3. x \in Pcbs /\ Clean(x)
    BY <1>2, KeptLedger DEF Kept
  <1>4. p \in Covered(x) /\ Now(x, p).type = "objects" /\ p \in Int
    <2>1. p \in Covered(x) /\ Entry(x, p).dirty /\ p \in PageNumber
      BY <1>1 DEF ScanPage, Covered
    <2>2. p \in Int
      BY <2>1, PagesAssumption DEF PageNumber
    <2>3. QED BY <1>3, <2>1, <2>2 DEF Clean, Now
  <1>5. PICK h : h = ReadAgain(gc, x)
    OBVIOUS
  <1>6. /\ h \in Collections /\ h.segment_vector = TableNow(x) /\ h.old_heap_pages = full
        /\ h.segment_vec = TableNow(x)
    BY <1>1, <1>2, <1>3, <1>5, ReadAgainScans DEF Collecting
  <1>7. gc' = [h EXCEPT !.scan = "page", !.page = p]
    BY <1>1, <1>5 DEF ScanPage
  <1>8. /\ gc' \in Collections /\ (gc').segment_vector = TableNow(x) /\ (gc').old_heap_pages = full
        /\ (gc').segment_vec = TableNow(x) /\ (gc').scan = "page" /\ (gc').page = p
    <2>1. PICK v : v = TableNow(x) /\ h.segment_vector = v /\ h.segment_vec = v
      BY <1>6
    <2>2. QED BY <1>4, <1>6, <1>7, <2>1 DEF Collections
  <1>9. Collecting(gc', m')
    BY <1>2, <1>4, <1>8 DEF Collecting, Scanning
  <1>10. Kept(m', full)
    BY <1>2
  <1>11. QED BY <1>8, <1>9, <1>10, StillCollecting

\* the dirty bits of the page are stored where the table is, and the scan goes on
LEMMA PageScannedKeeps ==
  ASSUME PagesInv, PageScanned
  PROVE  PagesInv'
  <1>1. PICK full, x, y, p : full = gc.old_heap_pages /\ x = m /\ y = m' /\ p = gc.page
    OBVIOUS
  <1>2. Kept(x, full) /\ Collecting(gc, x) /\ gc \in Collections /\ gc.scan = "page"
    BY <1>1, InCollection DEF PageScanned, Collecting
  <1>3. x \in Pcbs /\ x.failed = FALSE
    BY <1>2, KeptLedger DEF Kept
  <1>4. p \in Covered(x) /\ Entry(x, p).type = "objects"
    <2>1. Now(x, p).type = "objects"
      BY <1>1, <1>2 DEF Collecting, Scanning
    <2>2. Hole.type = "hole"
      BY DEF Hole, Word
    <2>3. QED BY <2>1, <2>2 DEF Now
  <1>5. PICK g, h : g = ReadAgain(gc, x) /\ h = ReadAgain(g, x)
    OBVIOUS
  <1>6. /\ g \in Collections /\ g.dirty_vec = DirtyNow(x) /\ g.segment_vector = gc.segment_vector
        /\ g.old_heap_pages = full
    BY <1>1, <1>2, <1>3, <1>5, ReadAgainScans
  <1>7. /\ h \in Collections /\ h.segment_vector = TableNow(x) /\ h.old_heap_pages = full
        /\ h.segment_vec = TableNow(x) /\ h.dirty_vec = DirtyNow(x)
    BY <1>2, <1>3, <1>5, <1>6, ReadAgainScans DEF Collecting
  <1>8. PICK d \in BOOLEAN :
          y = [x EXCEPT !.table[At(x, p)].dirty = d, !.failed = @ \/ g.dirty_vec # DirtyNow(x)]
    BY <1>1, <1>5 DEF PageScanned
  <1>9. Stored(x, y, p, d)
    <2>1. (x.failed \/ g.dirty_vec # DirtyNow(x)) = FALSE
      BY <1>3, <1>6
    <2>2. PICK T : T = [x.table EXCEPT ![At(x, p)].dirty = d]
      OBVIOUS
    <2>3. y = [x EXCEPT !.table = T, !.failed = FALSE]
      BY <1>8, <2>1, <2>2
    <2>4. [x EXCEPT !.table = T, !.failed = FALSE] = [x EXCEPT !.table = T]
      BY <1>3 DEF Pcbs
    <2>5. QED BY <2>2, <2>3, <2>4 DEF Stored
  <1>10. Kept(y, full) /\ TableNow(y) = TableNow(x) /\ y.heap_pages = x.heap_pages
    BY <1>2, <1>4, <1>8, <1>9, DirtyStored
  <1>11. DirtyNow(y) = DirtyNow(x)
    BY <1>3, <1>9 DEF DirtyNow, Pcbs, Stored
  <1>12. gc' = [h EXCEPT !.scan = "pages"]
    BY <1>1, <1>5 DEF PageScanned
  <1>13. /\ gc' \in Collections /\ (gc').segment_vector = TableNow(x) /\ (gc').old_heap_pages = full
         /\ (gc').segment_vec = TableNow(x) /\ (gc').dirty_vec = DirtyNow(x) /\ (gc').scan = "pages"
    <2>1. PICK v, w : v = TableNow(x) /\ w = DirtyNow(x) /\ h.segment_vector = v /\ h.segment_vec = v /\ h.dirty_vec = w
      BY <1>7
    <2>2. QED BY <1>7, <1>12, <2>1 DEF Collections
  <1>14. Scanning(gc', y)
    BY <1>10, <1>11, <1>13 DEF Scanning
  <1>15. Collecting(gc', m')
    BY <1>1, <1>2, <1>10, <1>13, <1>14 DEF Collecting
  <1>16. Kept(m', full)
    BY <1>1, <1>10
  <1>17. QED BY <1>13, <1>15, <1>16, StillCollecting

\* the scan ends
LEMMA ScanEndKeeps ==
  ASSUME PagesInv, ScanEnd
  PROVE  PagesInv'
  <1>1. PICK full, x : full = gc.old_heap_pages /\ x = m
    OBVIOUS
  <1>2. Kept(x, full) /\ Collecting(gc, x) /\ gc \in Collections /\ m' = x
    BY <1>1, InCollection DEF ScanEnd, Collecting
  <1>3. gc' = [gc EXCEPT !.scan = "over"]
    BY DEF ScanEnd
  <1>4. /\ gc' \in Collections /\ (gc').segment_vector = gc.segment_vector /\ (gc').old_heap_pages = full
        /\ (gc').scan = "over"
    BY <1>1, <1>2, <1>3 DEF Collections
  <1>5. Collecting(gc', m')
    BY <1>2, <1>4 DEF Collecting, Scanning
  <1>6. Kept(m', full)
    BY <1>2
  <1>7. QED BY <1>4, <1>5, <1>6, StillCollecting

\* the collector keeps a page of large objects
LEMMA GcRetagKeeps ==
  ASSUME PagesInv, NEW p \in Covered(m), GcRetag(p)
  PROVE  PagesInv'
  <1>1. PICK full, w, x, y, G : full = gc.old_heap_pages /\ w = Objects(NextOf(gc.gen), TRUE) /\ x = m /\ y = m' /\ G = Own(m)
    OBVIOUS
  <1>2. Kept(x, full) /\ Collecting(gc, x) /\ gc \in Collections
    BY <1>1, InCollection DEF GcRetag, Collecting
  <1>3. w \in Words /\ w.type = "objects" /\ w.type # "hole" /\ w.dirty = FALSE
    BY <1>1, <1>2, GenerationNext, WordsAre
  <1>4. y = SetType(x, p, 1, w) /\ gc' = gc /\ Entry(x, p).type = "objects"
    BY <1>1 DEF GcRetag, Collectable
  <1>5. Ledger(x, G) /\ x \in Pcbs /\ G \cap Typed(x) = {}
    BY <1>1, <1>2, KeptLedger
  <1>6. p \in Int /\ 1 \in Int /\ Run(p, 1) = {p} /\ p \in Covered(x) /\ p \in PageNumber
    <2>1. p \in Covered(x)
      BY <1>1
    <2>2. p \in PageNumber
      BY <2>1 DEF Covered
    <2>3. p \in Int
      BY <2>2, PagesAssumption DEF PageNumber
    <2>4. QED BY <2>1, <2>2, <2>3, RunIn
  <1>7. Now(x, p).type = "objects" /\ p \in Typed(x)
    <2>1. Now(x, p).type = "objects"
      BY <1>4, <1>6 DEF Now
    <2>2. QED BY <1>6, <2>1, TypedIs
  <1>8. May(x, G, Run(p, 1))
    BY <1>6, <1>7 DEF May
  <1>9. Becomes(x, y, G, p, 1, w)
    BY <1>3, <1>4, <1>5, <1>6, <1>8, SetTypeLedger
  <1>10. G \ Run(p, 1) = G
    BY <1>5, <1>6, <1>7
  <1>11. /\ Ledger(y, G) /\ SameMemory(x, y) /\ y.failed = x.failed
         /\ \A q : Now(y, q) = IF q \in Run(p, 1) THEN Dirtied(w, Now(x, q)) ELSE Now(x, q)
    BY <1>9, <1>10 DEF Becomes
  <1>12. Now(y, p).type = "objects"
    BY <1>3, <1>6, <1>11 DEF Dirtied, Words
  <1>13. Retagged(x, y, p)
    BY <1>6, <1>7, <1>11, <1>12 DEF Retagged
  <1>14. Kept(y, full) /\ TableNow(y) = TableNow(x) /\ y.heap_pages = x.heap_pages
    BY <1>1, <1>2, <1>11, <1>13, RetaggedKept
  <1>15. Collecting(gc', m') /\ (gc').old_heap_pages = full /\ Kept(m', full)
    <2>1. gc.scan # "pages" /\ Scanning(gc, x)
      BY <1>1, <1>2 DEF GcRetag, Collecting
    <2>2. gc.scan = "page" => Now(y, gc.page).type = "objects"
      BY <1>13, <2>1 DEF Scanning, Retagged
    <2>3. Scanning(gc, y)
      BY <1>14, <2>1, <2>2 DEF Scanning
    <2>4. QED BY <1>1, <1>2, <1>4, <1>14, <2>3 DEF Collecting
  <1>16. QED BY <1>15, StillCollecting

\* the collector puts the guardian entries of a page elsewhere, or drops them
LEMMA GcProtectedKeeps ==
  ASSUME PagesInv, NEW p \in m.protected, GcProtected(p)
  PROVE  PagesInv'
  <1>1. PICK full, x, y, G : full = gc.old_heap_pages /\ x = m /\ y = m' /\ G = Own(m)
    OBVIOUS
  <1>2. Kept(x, full) /\ Collecting(gc, x) /\ gc' = gc
    BY <1>1, InCollection DEF GcProtected
  <1>3. Ledger(x, G) /\ x \in Pcbs /\ p \in x.protected /\ p \in Int
    <2>1. Ledger(x, G) /\ x \in Pcbs
      BY <1>1, <1>2, KeptLedger
    <2>2. QED BY <1>1, <2>1 DEF Pcbs
  <1>4. ASSUME NEW z, SameUses(x, z), z.failed = x.failed, z \in Pcbs,
               NEW Q, Q \subseteq Int, y = [MUnmap(z, p, 1) EXCEPT !.protected = Q],
               NEW K, Ledger(z, K), Split(z.mapped, Typed(z), ToSet(z.cached), Q, G \cup {p}), p \notin G
        PROVE  Ledger(y, G) /\ SameBut(x, y) /\ y.heap_pages = x.heap_pages
    <2>1. PICK v : v = [z EXCEPT !.protected = Q]
      OBVIOUS
    <2>2. /\ v \in Pcbs /\ v.mapped = z.mapped /\ v.total = z.total /\ v.failed = z.failed
          /\ TableFields(v) = TableFields(z) /\ Areas(v) = Areas(z) /\ Cache(v) = Cache(z) /\ Homes(v) = Homes(z)
      BY <1>4, <2>1, ProtectedEffect
    <2>3. PICK H : H = G \cup {p}
      OBVIOUS
    <2>4. Ledger(v, H)
      BY <1>4, <2>1, <2>3, ProtectedLedger
    <2>5. Run(p, 1) = {p} /\ 1 \in Nat /\ 1 \in Int
      BY <1>3, RunIn
    <2>6. y = MUnmap(v, p, 1)
      <3>1. PICK M, T, F : M = z.mapped \ Run(p, 1) /\ T = z.total - 1 /\ F = (z.failed \/ ~(Run(p, 1) \subseteq z.mapped))
        OBVIOUS
      <3>2. y = [[z EXCEPT !.mapped = M, !.total = T, !.failed = F] EXCEPT !.protected = Q]
        BY <1>4, <3>1 DEF MUnmap, Pcbs
      <3>3. MUnmap(v, p, 1) = [v EXCEPT !.mapped = M, !.total = T, !.failed = F]
        BY <2>2, <3>1 DEF MUnmap, Pcbs
      <3>4. QED BY <1>4, <2>1, <3>2, <3>3 DEF Pcbs
    <2>7. Ledger(y, H \ Run(p, 1)) /\ y.failed = v.failed
      <3>1. Run(p, 1) \subseteq H
        BY <2>3, <2>5
      <3>2. QED BY <1>3, <2>4, <2>5, <2>6, <3>1, MUnmapLedger
    <2>8. H \ Run(p, 1) = G
      BY <1>4, <2>3, <2>5
    <2>9. SameUses(v, y)
      BY <1>3, <2>2, <2>5, <2>6, MUnmapEffect
    <2>10. SameBut(x, y) /\ y.heap_pages = x.heap_pages
      BY <1>4, <2>2, <2>7, <2>9 DEF SameBut, SameUses, Areas
    <2>11. QED BY <2>7, <2>8, <2>10
  <1>5. Ledger(y, G) /\ SameBut(x, y) /\ y.heap_pages = x.heap_pages
    <2>1. CASE y = [MUnmap(x, p, 1) EXCEPT !.protected = @ \ {p}]
      <3>1. PICK Q : Q = x.protected \ {p}
        OBVIOUS
      <3>2. MUnmap(x, p, 1).protected = x.protected
        BY <1>3, MUnmapEffect DEF SameUses
      <3>3. y = [MUnmap(x, p, 1) EXCEPT !.protected = Q]
        BY <2>1, <3>1, <3>2
      <3>4. Q \subseteq Int /\ SameUses(x, x)
        BY <1>3, <3>1 DEF Pcbs, SameUses
      <3>5. Split(x.mapped, Typed(x), ToSet(x.cached), Q, G \cup {p}) /\ p \notin G
        BY <1>3, <3>1 DEF Ledger, Split
      <3>6. QED BY <1>3, <1>4, <3>3, <3>4, <3>5
    <2>2. ASSUME NEW t \in MMap(m, 1), y = [MUnmap(t[1], p, 1) EXCEPT !.protected = (@ \ {p}) \cup {t[2]}]
          PROVE  Ledger(y, G) /\ SameBut(x, y) /\ y.heap_pages = x.heap_pages
      <3>1. PICK z, q, Q : z = t[1] /\ q = t[2] /\ Q = (x.protected \ {p}) \cup {q}
        OBVIOUS
      <3>2. t \in MMap(x, 1) /\ 1 \in Nat \ {0}
        BY <1>1, <2>2
      <3>3. z \in Pcbs /\ SameUses(x, z) /\ z.failed = x.failed /\ q \in Nat
        BY <1>3, <3>1, <3>2, MMapEffect
      <3>4. Ledger(z, G \cup {q}) /\ q \notin G
        <4>1. Ledger(z, G \cup Run(q, 1)) /\ Run(q, 1) \cap G = {}
          BY <1>3, <3>1, <3>2, MMapLedger
        <4>2. Run(q, 1) = {q}
          BY <3>3, RunIn
        <4>3. QED BY <4>1, <4>2
      <3>5. z.protected = x.protected
        BY <3>3 DEF SameUses
      <3>6. MUnmap(z, p, 1).protected = x.protected
        BY <1>3, <3>3, <3>5, MUnmapEffect DEF SameUses
      <3>7. y = [MUnmap(z, p, 1) EXCEPT !.protected = Q]
        BY <2>2, <3>1, <3>6
      <3>8. Q \subseteq Int
        <4>1. x.protected \subseteq Int
          BY <1>3 DEF Pcbs
        <4>2. q \in Int
          BY <3>3
        <4>3. QED BY <3>1, <4>1, <4>2
      <3>9. p \notin G
        BY <1>3 DEF Ledger, Split
      <3>10. Split(z.mapped, Typed(z), ToSet(z.cached), Q, G \cup {p})
        BY <1>3, <3>1, <3>4, <3>5, <3>9 DEF Ledger, Split
      <3>11. PICK K : K = G \cup {q}
        OBVIOUS
      <3>12. Ledger(z, K)
        BY <3>4, <3>11
      <3>13. QED BY <1>4, <3>3, <3>7, <3>8, <3>9, <3>10, <3>12
    <2>3. QED BY <1>1, <2>1, <2>2 DEF GcProtected
  <1>6. Kept(y, full) /\ TableNow(y) = TableNow(x)
    BY <1>1, <1>2, <1>5, ProtectedKept
  <1>7. Collecting(gc', m') /\ (gc').old_heap_pages = full /\ Kept(m', full)
    <2>1. Scanning(gc, y)
      BY DEF GcProtected, Scanning
    <2>2. QED BY <1>1, <1>2, <1>5, <1>6, <2>1 DEF Collecting
  <1>8. QED BY <1>7, StillCollecting

\* fix_new_pages
LEMMA FixedNewKept ==
  ASSUME NEW x, NEW full, Kept(x, full)
  PROVE  Kept(FixedNew(x), full) /\ Areas(FixedNew(x)) = Areas(x)
  <1> DEFINE e == [i \in DOMAIN x.table |-> [x.table[i] EXCEPT !.new = FALSE]]
             b == x.memory_base * SegmentPages
             n == TablePages(x) * SegmentPages
  <1>1. Ledger(x, Own(x)) /\ x \in Pcbs /\ Measured(x)
    BY KeptLedger
  <1>2. x.table \in [0 .. n - 1 -> Words] /\ x.table \in [DOMAIN x.table -> Words]
    BY <1>1 DEF Measured
  <1>3. e \in [DOMAIN x.table -> Words]
    <2>1. \A d \in Words : [d EXCEPT !.new = FALSE] \in Words
      BY DEF Words
    <2>2. QED BY <1>2, <2>1
  <1>4. b \in Int /\ n \in Int /\ At(x, b) = 0 /\ n = x.memory_end * SegmentPages - b
    <2>1. x.memory_base \in Nat /\ x.memory_end \in Nat /\ SegmentPages \in Nat
      BY <1>1, PagesAssumption DEF Pcbs
    <2>2. b \in Int /\ x.memory_end * SegmentPages \in Int
      BY <2>1, Products
    <2>3. n = x.memory_end * SegmentPages - b
      BY <2>1, Products DEF TablePages
    <2>4. At(x, b) = b - b
      BY DEF At
    <2> HIDE DEF b, n
    <2>5. QED BY <2>2, <2>3, <2>4
  <1>5. DOMAIN x.table = 0 .. n - 1
    BY <1>2
  <1> HIDE DEF b, n
  <1>6. Run(At(x, b), n) = DOMAIN x.table
    <2>1. \A i \in Int : i \in Run(At(x, b), n) <=> i \in 0 .. n - 1
      BY <1>4, RunIn
    <2>2. Run(At(x, b), n) \subseteq Int /\ 0 .. n - 1 \subseteq Int
      BY <1>4, RunIn
    <2>3. QED BY <1>5, <2>1, <2>2
  <1>7. PICK T, y : T = Written(x, Run(At(x, b), n), e) /\ y = FixedNew(x)
    OBVIOUS
  <1>8. y = [x EXCEPT !.table = T]
    <2>1. T = [i \in DOMAIN x.table |-> [x.table[i] EXCEPT !.new = FALSE]]
      BY <1>6, <1>7 DEF Written
    <2>2. QED BY <1>7, <2>1 DEF FixedNew
  <1>9. T \in Tables
    <2> HIDE DEF e
    <2>1. QED BY <1>1, <1>3, <1>7, WrittenInTables
  <1>10. /\ y \in Pcbs /\ y.mapped = x.mapped /\ y.total = x.total /\ y.failed = x.failed
         /\ Areas(y) = Areas(x) /\ Cache(y) = Cache(x) /\ Homes(y) = Homes(x) /\ y.protected = x.protected
         /\ y.memory_base = x.memory_base /\ y.memory_end = x.memory_end /\ y.table = T
    BY <1>1, <1>8, <1>9 DEF Pcbs, Areas, Cache, Homes
  <1>11. /\ Measured(y) /\ TablePages(y) = TablePages(x)
         /\ \A p \in Covered(x) : Now(y, p) = IF p \in Run(b, n) THEN e[At(x, p)] ELSE Now(x, p)
         /\ \A p : p \notin Covered(x) => Now(y, p) = Hole /\ Now(x, p) = Hole
    <2> HIDE DEF e
    <2>1. y.table = Written(x, Run(At(x, b), n), e)
      BY <1>7, <1>10
    <2>2. QED BY <1>1, <1>3, <1>4, <1>10, <2>1, TableWritten
  <1>12. ASSUME NEW p PROVE Now(y, p).type = Now(x, p).type /\ Now(y, p).dirty = Now(x, p).dirty
    <2>1. CASE p \in Covered(x) /\ p \in Run(b, n)
      <3>1. At(x, p) \in DOMAIN x.table /\ Now(x, p) = x.table[At(x, p)]
        BY <1>1, <2>1, EntryIn DEF Now, Entry
      <3>2. Now(y, p) = [x.table[At(x, p)] EXCEPT !.new = FALSE]
        BY <1>11, <2>1, <3>1
      <3>3. x.table[At(x, p)] \in Words
        BY <1>2, <3>1
      <3>4. QED BY <3>1, <3>2, <3>3 DEF Words
    <2>2. CASE ~(p \in Covered(x) /\ p \in Run(b, n))
      BY <1>11, <2>2
    <2>3. QED BY <2>1, <2>2
  <1>13. Typed(y) = Typed(x)
    BY <1>12, TypedIs
  <1>14. /\ y.heap_base = x.heap_base /\ y.heap_size = x.heap_size /\ y.stack_base = x.stack_base
         /\ y.deleted = x.deleted
    BY <1>10 DEF Areas
  <1>15. Whole(x, {}) /\ Clean(x) /\ Laid(x, full) /\ x.failed = FALSE /\ x.deleted = FALSE
    BY DEF Kept
  <1>16. Whole(y, {})
    BY <1>10, <1>11, <1>13, <1>14, <1>15, WholeSame
  <1>17. Clean(y)
    BY <1>12, <1>15 DEF Clean
  <1>18. Laid(y, full)
    BY <1>12, <1>14, <1>15, LaidSame DEF SameAreas
  <1>19. QED BY <1>7, <1>10, <1>14, <1>15, <1>16, <1>17, <1>18 DEF Kept

\* of a pcb that has freed pages, none of them the stack's
LEMMA FreedWhole ==
  ASSUME NEW x, Whole(x, {}), Clean(x), NEW y, NEW R, Freed(x, y, Own(x), R), x.stack_base \notin R
  PROVE  Whole(y, {}) /\ Clean(y)
  <1>1. /\ Ledger(y, Own(x)) /\ Areas(y) = Areas(x) /\ Homes(y) = Homes(x)
        /\ y.memory_base = x.memory_base /\ y.memory_end = x.memory_end
        /\ \A p : Now(y, p) = IF p \in R THEN Hole ELSE Now(x, p)
    BY DEF Freed
  <1>2. y.stack_base = x.stack_base /\ y.dirty_vector_base = x.dirty_vector_base
        /\ y.segment_vector_base = x.segment_vector_base /\ y.cached_pages_base = x.cached_pages_base
    BY <1>1 DEF Areas, Homes
  <1>3. Own(y) = Own(x) /\ DirtyRun(y) = DirtyRun(x) /\ SegmentRun(y) = SegmentRun(x)
    BY <1>1, <1>2 DEF Own, DirtyRun, SegmentRun, TablePages
  <1>4. y.stack_base \in Typed(y)
    BY <1>2, FreedTyped DEF Whole
  <1>5. Own(x) \cup {} = Own(x)
    OBVIOUS
  <1>6. Whole(y, {})
    BY <1>1, <1>2, <1>3, <1>4, <1>5 DEF Whole
  <1>7. Hole.dirty = FALSE
    BY DEF Hole, Word
  <1>8. Clean(y)
    BY <1>1, <1>7 DEF Clean
  <1>9. QED BY <1>6, <1>8

\* pages of objects are freed
LEMMA FreedObjects ==
  ASSUME NEW x, NEW full, Kept(x, full), NEW y, NEW R, Freed(x, y, Own(x), R), R \subseteq OfType(x, "objects")
  PROVE  Kept(y, full) /\ Areas(y) = Areas(x)
  <1>1. Whole(x, {}) /\ Clean(x) /\ Laid(x, full) /\ x.failed = FALSE /\ x.deleted = FALSE
    BY DEF Kept
  <1>2. \A p \in R : Now(x, p).type = "objects"
    BY DEF OfType
  <1>3. x.stack_base \notin R
    <2>1. StackPages \in Nat \ {0} /\ x.stack_base \in Int
      BY <1>1, PagesAssumption, WholeMeasures DEF Pcbs
    <2>2. x.stack_base \in Run(x.stack_base, StackPages)
      BY <2>1, RunIn
    <2>3. Now(x, x.stack_base).type = "mainstack"
      BY <1>1, <2>2 DEF Laid, OfType
    <2>4. QED BY <1>2, <2>3
  <1>4. Whole(y, {}) /\ Clean(y)
    BY <1>1, <1>3, FreedWhole
  <1>5. Areas(y) = Areas(x) /\ y.failed = x.failed /\ \A p : Now(y, p) = IF p \in R THEN Hole ELSE Now(x, p)
    BY DEF Freed
  <1>6. y.heap_base = x.heap_base /\ y.heap_size = x.heap_size /\ y.stack_base = x.stack_base /\ y.deleted = x.deleted
    BY <1>5 DEF Areas
  <1>7. SameAreas(x, y)
    <2>1. Hole.type = "hole"
      BY DEF Hole, Word
    <2>2. \A p, t : t \in {"mainheap", "mainstack"} => (Now(y, p).type = t <=> Now(x, p).type = t)
      BY <1>2, <1>5, <2>1
    <2>3. QED BY <1>6, <2>2 DEF SameAreas
  <1>8. Laid(y, full)
    BY <1>1, <1>7, LaidSame
  <1>9. QED BY <1>1, <1>4, <1>5, <1>6, <1>8 DEF Kept

\* the pages of s as areas
Single(s) == [i \in DOMAIN s |-> <<s[i], 1>>]

\* single pages as areas
LEMMA SinglesAre ==
  ASSUME NEW s \in Seq(PageNumber), Once(s)
  PROVE  Areal(Single(s)) /\ AllRuns(Single(s)) = ToSet(s)
  <1>1. PICK r, n : r = Single(s) /\ n = Len(s)
    OBVIOUS
  <1>2. n \in Nat /\ DOMAIN s = 1 .. n /\ \A i \in 1 .. n : s[i] \in PageNumber /\ s[i] \in Int
    <2>1. PageNumber \subseteq Int
      BY PagesAssumption DEF PageNumber
    <2>2. n \in Nat /\ DOMAIN s = 1 .. n
      BY <1>1
    <2>3. \A i \in 1 .. n : s[i] \in PageNumber
      BY <1>1
    <2>4. QED BY <2>1, <2>2, <2>3
  <1>3. DOMAIN r = 1 .. n /\ \A i \in 1 .. n : r[i] = <<s[i], 1>>
    BY <1>1, <1>2 DEF Single
  <1>4. r \in Seq(Int \X Nat) /\ Len(r) = n
    BY <1>1, <1>2 DEF Single
  <1>5. \A i \in 1 .. n : Run(r[i][1], r[i][2]) = {s[i]}
    <2> TAKE i \in 1 .. n
    <2>1. r[i][1] = s[i] /\ r[i][2] = 1
      BY <1>3
    <2>2. QED BY <1>2, <2>1, RunIn
  <1>6. Areal(r)
    <2>1. \A i, j \in 1 .. n : i # j => s[i] # s[j]
      BY <1>1 DEF Once
    <2>2. \A i, j \in 1 .. n : i # j => Run(r[i][1], r[i][2]) \cap Run(r[j][1], r[j][2]) = {}
      <3> TAKE i, j \in 1 .. n
      <3> HAVE i # j
      <3>1. Run(r[i][1], r[i][2]) = {s[i]} /\ Run(r[j][1], r[j][2]) = {s[j]} /\ s[i] # s[j]
        BY <1>5, <2>1
      <3>2. QED BY <3>1
    <2>3. QED BY <1>4, <2>2 DEF Areal
  <1>7. AllRuns(r) = ToSet(s)
    <2>1. AllRuns(r) = UNION {Run(r[i][1], r[i][2]) : i \in 1 .. n}
      BY <1>4 DEF AllRuns, Runs
    <2>2. ToSet(s) = {s[i] : i \in 1 .. n}
      BY <1>2 DEF ToSet
    <2>3. \A p \in AllRuns(r) : p \in ToSet(s)
      <3> TAKE p \in AllRuns(r)
      <3>1. PICK i \in 1 .. n : p \in Run(r[i][1], r[i][2])
        BY <2>1
      <3>2. p = s[i]
        BY <1>5, <3>1
      <3>3. QED BY <2>2, <3>2
    <2>4. \A p \in ToSet(s) : p \in AllRuns(r)
      <3> TAKE p \in ToSet(s)
      <3>1. PICK i \in 1 .. n : p = s[i]
        BY <2>2
      <3>2. p \in Run(r[i][1], r[i][2])
        BY <1>5, <3>1
      <3>3. QED BY <2>1, <3>2
    <2>5. QED BY <2>3, <2>4
  <1>8. QED BY <1>1, <1>6, <1>7

\* deallocate_unused_pages
LEMMA DeallocatedKept ==
  ASSUME NEW x, NEW full, Kept(x, full)
  PROVE  Kept(Deallocated(x), full) /\ Areas(Deallocated(x)) = Areas(x)
  <1>1. PICK S, s : S = {p \in Covered(x) : Collectable(Entry(x, p))} /\ s = InOrder(S)
    OBVIOUS
  <1>2. S \subseteq PageNumber /\ S \subseteq OfType(x, "objects")
    BY <1>1 DEF Covered, Collectable, OfType, Now
  <1>3. s \in Seq(PageNumber) /\ ToSet(s) = S /\ Once(s)
    BY <1>1, <1>2, InOrderHolds
  <1>4. Areal(Single(s)) /\ AllRuns(Single(s)) = S
    BY <1>3, SinglesAre
  <1>5. Ledger(x, Own(x))
    BY KeptLedger
  <1>6. S \subseteq Typed(x)
    BY <1>2, TypedIs DEF OfType
  <1>7. PICK r, G : r = Single(s) /\ G = Own(x)
    OBVIOUS
  <1>8. Freed(x, UnmapSegments(x, r), G, Runs(r, Len(r)))
    <2>1. Ledger(x, G) /\ Areal(r) /\ Runs(r, Len(r)) \subseteq Typed(x)
      BY <1>4, <1>5, <1>6, <1>7 DEF AllRuns
    <2>2. QED BY <2>1, UnmapSegmentsFree
  <1>9. Freed(x, UnmapSegments(x, r), Own(x), S)
    BY <1>4, <1>7, <1>8 DEF AllRuns
  <1>10. Deallocated(x) = UnmapSegments(x, r)
    BY <1>1, <1>7 DEF Deallocated, Single
  <1>11. QED BY <1>2, <1>9, <1>10, FreedObjects

\* the nurseries that were full are freed
LEMMA OldNurseriesKept ==
  ASSUME NEW x, Kept(x, gc.old_heap_pages), NEW y, y = OldNurseries(x)
  PROVE  Kept(y, << >>) /\ y.used = 0 /\ y.heap_pages = x.heap_pages
  <1>1. PICK full, v, R : full = gc.old_heap_pages /\ v = [x EXCEPT !.used = 0] /\ R = AllRuns(full)
    OBVIOUS
  <1>2. Kept(x, full) /\ x \in Pcbs
    BY <1>1, KeptLedger
  <1>3. /\ v \in Pcbs /\ v.mapped = x.mapped /\ v.total = x.total /\ v.failed = x.failed /\ v.deleted = x.deleted
        /\ TableFields(v) = TableFields(x) /\ Cache(v) = Cache(x) /\ Homes(v) = Homes(x) /\ v.protected = x.protected
        /\ v.heap_base = x.heap_base /\ v.heap_size = x.heap_size /\ v.stack_base = x.stack_base
        /\ v.used = 0 /\ v.heap_pages = x.heap_pages
    <2>1. PICK u : u = 0
      OBVIOUS
    <2>2. v = [x EXCEPT !.used = u] /\ u \in Int
      BY <1>1, <2>1
    <2>3. v.used = u
      BY <1>2, <2>2 DEF Pcbs
    <2>4. QED BY <1>2, <2>1, <2>2, <2>3 DEF Pcbs, TableFields, Cache, Homes
  <1>4. Kept(v, full)
    BY <1>2, <1>3, KeptSame
  <1>5. Whole(v, {}) /\ Clean(v) /\ Laid(v, full) /\ v.failed = FALSE /\ v.deleted = FALSE
    BY <1>4 DEF Kept
  <1>6. /\ Areal(full) /\ Run(v.heap_base, v.heap_size) \cap R = {} /\ v.heap_size \in Nat
        /\ OfType(v, "mainheap") = Run(v.heap_base, v.heap_size) \cup R
        /\ OfType(v, "mainstack") = Run(v.stack_base, StackPages)
    BY <1>1, <1>5 DEF Laid, Fresh
  <1>7. \A p \in R : p \in PageNumber /\ Now(v, p).type = "mainheap"
    BY <1>6 DEF OfType
  <1>8. PICK G : G = Own(v)
    OBVIOUS
  <1>9. Freed(v, y, G, R)
    <2>1. Ledger(v, G)
      BY <1>4, <1>8, KeptLedger
    <2>2. R \subseteq Typed(v)
      BY <1>7, TypedIs
    <2>3. Runs(full, Len(full)) \subseteq Typed(v)
      BY <1>1, <2>2 DEF AllRuns
    <2>4. Freed(v, UnmapSegments(v, full), G, Runs(full, Len(full)))
      BY <1>6, <2>1, <2>3, UnmapSegmentsFree
    <2>5. y = UnmapSegments(v, full)
      BY <1>1 DEF OldNurseries
    <2>6. QED BY <1>1, <2>4, <2>5 DEF AllRuns
  <1>10. \A p : Now(y, p) = IF p \in R THEN Hole ELSE Now(v, p)
    BY <1>9 DEF Freed
  <1>11. Areas(y) = Areas(v) /\ y.failed = v.failed
    BY <1>9 DEF Freed
  <1>12. /\ y.heap_base = v.heap_base /\ y.heap_size = v.heap_size /\ y.stack_base = v.stack_base
         /\ y.deleted = v.deleted /\ y.used = v.used /\ y.heap_pages = v.heap_pages
    BY <1>11 DEF Areas
  <1>13. v.stack_base \notin R
    <2>1. StackPages \in Nat \ {0} /\ v.stack_base \in Int
      BY <1>3, PagesAssumption DEF Pcbs
    <2>2. v.stack_base \in Run(v.stack_base, StackPages)
      BY <2>1, RunIn
    <2>3. Now(v, v.stack_base).type = "mainstack"
      BY <1>6, <2>2 DEF OfType
    <2>4. QED BY <1>7, <2>3
  <1>14. Whole(y, {}) /\ Clean(y)
    BY <1>5, <1>8, <1>9, <1>13, FreedWhole
  <1>15. Laid(y, << >>)
    <2>1. Hole.type = "hole"
      BY DEF Hole, Word
    <2>2. OfType(y, "mainstack") = OfType(v, "mainstack")
      <3>1. \A p : Now(y, p).type = "mainstack" <=> Now(v, p).type = "mainstack"
        BY <1>7, <1>10, <2>1
      <3>2. QED BY <3>1 DEF OfType
    <2>3. OfType(y, "mainheap") = OfType(v, "mainheap") \ R
      <3>1. \A p : Now(y, p).type = "mainheap" <=> Now(v, p).type = "mainheap" /\ p \notin R
        BY <1>10, <2>1
      <3>2. QED BY <3>1 DEF OfType
    <2>4. OfType(y, "mainheap") = Run(y.heap_base, y.heap_size)
      BY <1>6, <1>12, <2>3
    <2>5. Areal(<< >>) /\ AllRuns(<< >>) = {}
      BY NoAreas
    <2>6. QED BY <1>6, <1>12, <2>2, <2>4, <2>5 DEF Laid, Fresh
  <1>16. QED BY <1>3, <1>5, <1>11, <1>12, <1>14, <1>15 DEF Kept

\* there is room for what is needed
LEMMA NurseryKept ==
  ASSUME NEW x, Kept(x, << >>), x.used = 0, gc.need \in Nat, NEW y \in Nursery(x)
  PROVE  Kept(y, << >>) /\ y.used = 0 /\ y.heap_pages = x.heap_pages /\ Fits(y, gc.need)
  <1>1. /\ Whole(x, {}) /\ Clean(x) /\ Laid(x, << >>) /\ x.failed = FALSE /\ x.deleted = FALSE
        /\ x \in Pcbs /\ Ledger(x, Own(x))
    BY KeptLedger DEF Kept
  <1>2. PICK need : need = gc.need
    OBVIOUS
  <1>3. need \in Nat /\ HeapSize \in Nat /\ Margin \in Nat \ {0} /\ x.heap_size \in Nat /\ x.heap_base \in Int
    BY <1>1, <1>2, PagesAssumption DEF Pcbs, Laid
  <1>4. CASE ~(x.heap_size - Margin <= need \/ x.heap_size < HeapSize)
    <2>1. y = x
      BY <1>2, <1>4 DEF Nursery
    <2>2. x.used + need < x.heap_size
      BY <1>3, <1>4
    <2>3. QED BY <1>2, <2>1, <2>2 DEF Fits
  <1>5. CASE x.heap_size - Margin <= need \/ x.heap_size < HeapSize
    <2>1. PICK size, v : size = Larger(need, HeapSize) + Margin /\ v = UnmapSegment(x, x.heap_base, x.heap_size)
      OBVIOUS
    <2>2. PICK t : t \in MMapTyped(v, size, MainHeap) /\ y = [t[1] EXCEPT !.heap_base = t[2], !.heap_size = size]
      BY <1>2, <1>5, <2>1 DEF Nursery
    <2>3. size \in Nat \ {0} /\ need < size
      <3>1. PICK k : k = Larger(need, HeapSize)
        OBVIOUS
      <3>2. k \in Nat /\ need <= k
        BY <1>3, <3>1 DEF Larger
      <3>3. size = k + Margin
        BY <2>1, <3>1
      <3>4. QED BY <1>3, <3>2, <3>3
    <2>4. PICK R, G : R = Run(x.heap_base, x.heap_size) /\ G = Own(x)
      OBVIOUS
    <2>5. OfType(x, "mainheap") = R /\ OfType(x, "mainstack") = Run(x.stack_base, StackPages)
      BY <1>1, <2>4, NoAreas DEF Laid
    <2>6. \A p \in R : p \in PageNumber /\ Now(x, p).type = "mainheap"
      BY <2>5 DEF OfType
    <2>7. Freed(x, v, G, R)
      <3>1. Run(x.heap_base, x.heap_size) \subseteq Typed(x)
        BY <2>4, <2>6, TypedIs
      <3>2. Ledger(x, G)
        BY <1>1, <2>4
      <3>3. Freed(x, UnmapSegment(x, x.heap_base, x.heap_size), G, Run(x.heap_base, x.heap_size))
        BY <1>3, <3>1, <3>2, UnmapSegmentLedger
      <3>4. QED BY <2>1, <2>4, <3>3
    <2>8. x.stack_base \notin R
      <3>1. StackPages \in Nat \ {0} /\ x.stack_base \in Int
        BY <1>1, PagesAssumption DEF Pcbs
      <3>2. x.stack_base \in Run(x.stack_base, StackPages)
        BY <3>1, RunIn
      <3>3. Now(x, x.stack_base).type = "mainstack"
        BY <2>5, <3>2 DEF OfType
      <3>4. QED BY <2>6, <3>3
    <2>9. Whole(v, {}) /\ Clean(v)
      BY <1>1, <2>4, <2>7, <2>8, FreedWhole
    <2>10. /\ Areas(v) = Areas(x) /\ v.failed = FALSE
           /\ \A p : Now(v, p) = IF p \in R THEN Hole ELSE Now(x, p)
      BY <1>1, <2>7 DEF Freed
    <2>11. v.deleted = FALSE
      BY <1>1, <2>10 DEF Areas
    <2>12. OfType(v, "mainheap") = {} /\ OfType(v, "mainstack") = OfType(x, "mainstack")
      <3>1. Hole.type = "hole"
        BY DEF Hole, Word
      <3>2. \A p \in PageNumber : Now(v, p).type # "mainheap"
        BY <2>5, <2>10, <3>1 DEF OfType
      <3>3. \A p : Now(v, p).type = "mainstack" <=> Now(x, p).type = "mainstack"
        BY <2>6, <2>10, <3>1
      <3>4. QED BY <3>2, <3>3 DEF OfType
    <2>13. PICK z, b : z = t[1] /\ b = t[2]
      OBVIOUS
    <2>14. b \in Nat /\ Whole(z, {}) /\ Gained(v, z, b, size, MainHeap)
      <3>1. MainHeap \in Words /\ MainHeap.type # "hole" /\ MainHeap.dirty = FALSE
        BY WordsAre
      <3>2. QED BY <2>2, <2>3, <2>9, <2>13, <3>1, MMapTypedWhole
    <2>15. /\ Clean(z) /\ z.failed = FALSE /\ z.deleted = FALSE /\ Areas(z) = Areas(v)
           /\ OfType(z, "mainheap") = Run(b, size) \cup OfType(v, "mainheap")
           /\ OfType(z, "mainstack") = OfType(v, "mainstack")
      <3>1. b \in Int /\ size \in Nat
        BY <2>3, <2>14
      <3>2. QED BY <2>9, <2>10, <2>11, <2>14, <3>1, GainedNursery
    <2>16. y = [z EXCEPT !.heap_base = b, !.heap_size = size]
      BY <2>2, <2>13
    <2>17. z \in Pcbs /\ b \in Int /\ size \in Int
      BY <2>3, <2>14, WholeMeasures
    <2>18. /\ y \in Pcbs /\ y.mapped = z.mapped /\ y.total = z.total /\ y.failed = z.failed /\ y.deleted = z.deleted
           /\ TableFields(y) = TableFields(z) /\ Cache(y) = Cache(z) /\ Homes(y) = Homes(z) /\ y.protected = z.protected
           /\ y.heap_base = b /\ y.heap_size = size /\ y.stack_base = z.stack_base
           /\ y.used = z.used /\ y.heap_pages = z.heap_pages
      BY <2>16, <2>17 DEF Pcbs, TableFields, Cache, Homes
    <2>19. Measured(y) /\ Typed(y) = Typed(z) /\ TablePages(y) = TablePages(z) /\ \A p : Now(y, p) = Now(z, p)
      BY <2>14, <2>18, WholeMeasures, TableSame
    <2>20. Whole(y, {})
      BY <2>14, <2>18, <2>19, WholeSame
    <2>21. Clean(y)
      BY <2>15, <2>19 DEF Clean
    <2>22. z.stack_base = x.stack_base /\ z.used = 0 /\ z.heap_pages = x.heap_pages
      BY <2>10, <2>15 DEF Areas
    <2>23. Laid(y, << >>)
      <3>1. OfType(y, "mainheap") = OfType(z, "mainheap") /\ OfType(y, "mainstack") = OfType(z, "mainstack")
        BY <2>19 DEF OfType
      <3>2. OfType(y, "mainheap") = Run(y.heap_base, y.heap_size) /\ OfType(y, "mainstack") = Run(y.stack_base, StackPages)
        BY <2>5, <2>12, <2>15, <2>18, <2>22, <3>1
      <3>3. y.heap_size \in Nat
        BY <2>3, <2>18
      <3>4. QED BY <3>2, <3>3, NoAreas DEF Laid, Fresh
    <2>24. Fits(y, need)
      BY <1>3, <2>3, <2>18, <2>22 DEF Fits
    <2>25. QED BY <1>2, <2>15, <2>18, <2>20, <2>21, <2>22, <2>23, <2>24 DEF Kept
  <1>6. QED BY <1>4, <1>5

\* a collection ends: pages that were not kept and the full nurseries are
\* freed, and the last nursery is used again or replaced
LEMMA CollectEndKeeps ==
  ASSUME PagesInv, CollectEnd
  PROVE  PagesInv'
  <1>1. PICK full : full = gc.old_heap_pages
    OBVIOUS
  <1>2. Kept(m, full) /\ Collecting(gc, m) /\ gc' = Off
    BY <1>1, InCollection DEF CollectEnd
  <1>3. gc.need \in Nat /\ m.heap_pages = << >>
    BY <1>2, GenerationNext DEF Collecting
  <1>4. PICK d, f, o : d = Deallocated(m) /\ f = FixedNew(d) /\ o = OldNurseries(f)
    OBVIOUS
  <1>5. PICK x \in Nursery(o) : m' = [x EXCEPT !.failed = @ \/ ~Fits(x, gc.need), !.used = gc.need]
    BY <1>4 DEF CollectEnd
  <1>6. Kept(d, full) /\ Areas(d) = Areas(m)
    BY <1>2, <1>4, DeallocatedKept
  <1>7. Kept(f, full) /\ Areas(f) = Areas(d)
    BY <1>4, <1>6, FixedNewKept
  <1>8. Kept(f, gc.old_heap_pages) /\ f.heap_pages = << >>
    BY <1>1, <1>3, <1>6, <1>7 DEF Areas
  <1>9. Kept(o, << >>) /\ o.used = 0 /\ o.heap_pages = << >>
    BY <1>4, <1>8, OldNurseriesKept
  <1>10. Kept(x, << >>) /\ x.heap_pages = << >> /\ Fits(x, gc.need)
    BY <1>3, <1>9, NurseryKept
  <1>11. PICK y, u : y = m' /\ u = gc.need
    OBVIOUS
  <1>12. x \in Pcbs /\ x.failed = FALSE
    BY <1>10, WholeMeasures DEF Kept
  <1>13. y = [x EXCEPT !.failed = FALSE, !.used = u] /\ u \in Int
    <2>1. (x.failed \/ ~Fits(x, gc.need)) = FALSE
      BY <1>10, <1>12
    <2>2. u \in Int
      BY <1>3, <1>11
    <2>3. y = [x EXCEPT !.failed = x.failed \/ ~Fits(x, gc.need), !.used = gc.need]
      BY Zenon, <1>5, <1>11
    <2>4. y = [x EXCEPT !.failed = FALSE, !.used = gc.need]
      BY Zenon, <2>1, <2>3
    <2>5. QED BY <1>11, <2>2, <2>4
  <1>14. /\ y \in Pcbs /\ y.mapped = x.mapped /\ y.total = x.total /\ y.failed = x.failed /\ y.deleted = x.deleted
         /\ TableFields(y) = TableFields(x) /\ Cache(y) = Cache(x) /\ Homes(y) = Homes(x) /\ y.protected = x.protected
         /\ y.heap_base = x.heap_base /\ y.heap_size = x.heap_size /\ y.stack_base = x.stack_base
         /\ y.heap_pages = x.heap_pages
    BY <1>12, <1>13 DEF Pcbs, TableFields, Cache, Homes
  <1>15. Kept(y, << >>)
    BY <1>10, <1>14, KeptSame
  <1>16. Kept(y, y.heap_pages)
    BY <1>10, <1>14, <1>15
  <1>17. QED BY <1>2, <1>11, <1>16, StillRunning

-----------------------------------------------------------------------------
(* The end *)

\* the pcb of which nothing is known yet, as ik_make_pcb clears it
LEMMA BlankIs ==
  ASSUME NEW up \in BOOLEAN
  PROVE  LET y == [Blank EXCEPT !.upwards = up] IN
         /\ y \in Pcbs /\ y.mapped = {} /\ y.total = 0 /\ y.failed = FALSE /\ y.deleted = FALSE
         /\ y.cached = << >> /\ y.uncached = CacheSize /\ y.protected = {} /\ y.heap_pages = << >>
         /\ y.heap_size = HeapSize /\ y.memory_base = 0 /\ y.memory_end = 0 /\ y.table = << >>
  <1>1. << >> \in Tables
    <2>1. << >> \in [0 .. 0 - 1 -> Words]
      OBVIOUS
    <2>2. QED BY <2>1 DEF Tables
  <1>2. << >> \in Seq(Int) /\ << >> \in Seq(Int \X Int)
    OBVIOUS
  <1>3. CacheSize \in Nat /\ HeapSize \in Int
    BY PagesAssumption
  <1>4. PICK e, y : e = << >> /\ y = [Blank EXCEPT !.upwards = up]
    OBVIOUS
  <1>5. e \in Tables /\ e \in Seq(Int) /\ e \in Seq(Int \X Int)
    BY <1>1, <1>2, <1>4
  <1>6. Blank = [mapped |-> {}, total |-> 0, failed |-> FALSE, deleted |-> FALSE, upwards |-> TRUE,
                 memory_base |-> 0, memory_end |-> 0, table |-> e,
                 dirty_vector_base |-> 0, segment_vector_base |-> 0,
                 cached |-> e, uncached |-> CacheSize, cached_pages_base |-> 0,
                 heap_base |-> 0, heap_size |-> HeapSize, used |-> 0, heap_pages |-> e,
                 stack_base |-> 0, protected |-> {}]
    BY Zenon, <1>4 DEF Blank
  <1>7. y = [mapped |-> {}, total |-> 0, failed |-> FALSE, deleted |-> FALSE, upwards |-> up,
             memory_base |-> 0, memory_end |-> 0, table |-> e,
             dirty_vector_base |-> 0, segment_vector_base |-> 0,
             cached |-> e, uncached |-> CacheSize, cached_pages_base |-> 0,
             heap_base |-> 0, heap_size |-> HeapSize, used |-> 0, heap_pages |-> e,
             stack_base |-> 0, protected |-> {}]
    BY <1>4, <1>6
  <1>8. y \in Pcbs
    BY <1>3, <1>5, <1>7 DEF Pcbs
  <1>9. QED BY <1>4, <1>7, <1>8

\* the process is over
LEMMA DeletedIs ==
  ASSUME NEW x \in Pcbs, x.mapped = {}, x.total = 0, x.failed = FALSE, CacheFits(x)
  PROVE  Gone([x EXCEPT !.deleted = TRUE])
  <1>1. PICK y : y = [x EXCEPT !.deleted = TRUE]
    OBVIOUS
  <1>2. /\ y \in Pcbs /\ y.mapped = x.mapped /\ y.total = x.total /\ y.failed = x.failed /\ y.deleted = TRUE
        /\ y.cached = x.cached /\ y.uncached = x.uncached
    BY <1>1 DEF Pcbs
  <1>3. CacheFits(y)
    BY <1>2 DEF CacheFits
  <1>4. QED BY <1>1, <1>2, <1>3 DEF Gone

\* the program exits for want of memory
LEMMA OutOfMemoryKeeps ==
  ASSUME OutOfMemory
  PROVE  PagesInv'
  <1>1. PICK x : x = [Blank EXCEPT !.upwards = TRUE]
    OBVIOUS
  <1>2. x \in Pcbs /\ x.mapped = {} /\ x.total = 0 /\ x.failed = FALSE /\ x.cached = << >> /\ x.uncached = CacheSize
    <2>1. TRUE \in BOOLEAN
      OBVIOUS
    <2>2. QED BY <1>1, <2>1, BlankIs
  <1>3. CacheFits(x)
    <2>1. CacheSize \in Nat
      BY PagesAssumption
    <2>2. Len(x.cached) = 0 /\ 1 .. 0 = {}
      BY <1>2
    <2>3. QED BY <1>2, <2>1, <2>2 DEF CacheFits
  <1>4. Blank = x
    BY <1>1 DEF Blank
  <1>5. m' = [x EXCEPT !.deleted = TRUE] /\ gc' = Off
    BY <1>4 DEF OutOfMemory
  <1>6. Gone(m')
    BY <1>2, <1>3, <1>5, DeletedIs
  <1>7. QED BY <1>5, <1>6 DEF PagesInv

\* pages are given back in two steps
LEMMA UnmappedMore ==
  ASSUME NEW x, NEW y, NEW z, NEW R, NEW Q, NEW W, Unmapped(x, y, R), Unmapped(y, z, Q), W = R \cup Q
  PROVE  Unmapped(x, z, W)
  <1>1. SameUses(x, z)
    BY SameUsesTransitive DEF Unmapped
  <1>2. z.mapped = x.mapped \ W
    BY DEF Unmapped
  <1>3. QED BY <1>1, <1>2 DEF Unmapped

\* pages that may be mapped are pages
LEMMA UsablePages ==
  Usable \subseteq PageNumber /\ Usable \subseteq Int
  <1> DEFINE U == SegmentPages * Segments
  <1>1. U \in Nat
    BY PagesAssumption, Products
  <1>2. Usable = 1 .. U - 2 /\ PageNumber = 0 .. U - 1
    BY DEF Usable, PageNumber
  <1> HIDE DEF U
  <1>3. QED BY <1>1, <1>2

\* the pages of S are unmapped in the order of addresses
LEMMA UnmapSet ==
  ASSUME NEW x, Counted(x), NEW S, S \subseteq x.mapped
  PROVE  Unmapped(x, UnmapEach(x, InOrder(S)), S)
  <1>1. PICK s : s = InOrder(S)
    OBVIOUS
  <1>2. S \subseteq PageNumber /\ PageNumber \subseteq Int
    <2>1. x.mapped \subseteq Usable
      BY DEF Counted
    <2>2. PageNumber \subseteq Int
      BY DEF PageNumber
    <2>3. QED BY <2>1, <2>2, UsablePages
  <1>3. s \in Seq(PageNumber) /\ ToSet(s) = S /\ Once(s)
    <2>1. InOrder(S) \in Seq(PageNumber) /\ ToSet(InOrder(S)) = S /\ Once(InOrder(S))
      BY <1>2, InOrderHolds
    <2>2. QED BY <1>1, <2>1
  <1>4. s \in Seq(Int)
    <2>1. Len(s) \in Nat /\ \A i \in 1 .. Len(s) : s[i] \in PageNumber
      BY <1>3
    <2>2. \A i \in 1 .. Len(s) : s[i] \in Int
      BY <1>2, <2>1
    <2>3. s = [i \in 1 .. Len(s) |-> s[i]]
      BY <1>3
    <2>4. QED BY <2>1, <2>2, <2>3
  <1>5. QED BY <1>1, <1>3, <1>4, UnmapEachCounted

\* the program exits: ik_delete_pcb gives all pages back
LEMMA DeleteKeeps ==
  ASSUME PagesInv, Delete
  PROVE  PagesInv'
  <1>1. Kept(m, m.heap_pages) /\ gc = Off /\ m \in Pcbs
    BY Running DEF Delete
  <1>2. PICK x : x = m
    OBVIOUS
  <1>3. PICK c, k, d, s, C, P, T : /\ c = x.cached_pages_base /\ k = TablePages(x)
                                   /\ d = x.dirty_vector_base /\ s = x.segment_vector_base
                                   /\ C = ToSet(x.cached) /\ P = x.protected /\ T = Typed(x)
    OBVIOUS
  <1>4. PICK y1, y2, y3, y4, y5, y6 :
          /\ y1 = UnmapEach(x, x.cached) /\ y2 = MUnmap(y1, c, 1)
          /\ y3 = UnmapEach(y2, InOrder(P)) /\ y4 = UnmapEach(y3, InOrder(T))
          /\ y5 = MUnmap(y4, d, k) /\ y6 = MUnmap(y5, s, k)
    OBVIOUS
  <1>5. m' = [y6 EXCEPT !.deleted = TRUE] /\ gc' = Off
    BY <1>1, <1>2, <1>3, <1>4 DEF Delete
  <1>6. /\ x \in Pcbs /\ CacheFits(x) /\ Counted(x) /\ x.failed = FALSE
        /\ Split(x.mapped, T, C, P, Own(x))
        /\ Split(Own(x), {c}, Run(d, k), Run(s, k), {})
    <2>1. Own(x) \cup {} = Own(x)
      OBVIOUS
    <2>2. Ledger(x, Own(x)) /\ Split(Own(x), {x.cached_pages_base}, DirtyRun(x), SegmentRun(x), {}) /\ x.failed = FALSE
      BY <1>1, <1>2, <2>1 DEF Kept, Whole
    <2>3. QED BY <1>3, <2>2 DEF Ledger, Counted, DirtyRun, SegmentRun
  <1>7. c \in Int /\ d \in Int /\ s \in Int /\ k \in Nat /\ 1 \in Nat /\ Run(c, 1) = {c}
    <2>1. Whole(x, {})
      BY <1>1, <1>2 DEF Kept
    <2>2. c \in Int /\ d \in Int /\ s \in Int /\ k \in Nat \ {0}
      BY <1>3, <2>1, WholeMeasures
    <2>3. QED BY <2>2, RunIn
  <1>8. PICK M : M = x.mapped
    OBVIOUS
  <1>9. /\ Split(M, T, C, P, Own(x)) /\ Own(x) = ({c} \cup Run(d, k)) \cup Run(s, k)
        /\ c \notin Run(d, k) /\ c \notin Run(s, k) /\ Run(d, k) \cap Run(s, k) = {}
    BY <1>6, <1>8 DEF Split
  <1>10. PICK D, S : D = Run(d, k) /\ S = Run(s, k)
    OBVIOUS
  <1>11. /\ M = ((((C \cup {c}) \cup P) \cup T) \cup D) \cup S
         /\ c \notin C /\ P \cap (C \cup {c}) = {} /\ T \cap ((C \cup {c}) \cup P) = {}
         /\ D \cap (((C \cup {c}) \cup P) \cup T) = {} /\ S \cap ((((C \cup {c}) \cup P) \cup T) \cup D) = {}
    BY <1>9, <1>10 DEF Split
  <1>12. PICK R2, R3, R4, R5, R6 : /\ R2 = C \cup {c} /\ R3 = R2 \cup P /\ R4 = R3 \cup T
                                   /\ R5 = R4 \cup D /\ R6 = R5 \cup S
    OBVIOUS
  <1>13. /\ C \subseteq M /\ c \in M \ C /\ P \subseteq M \ R2 /\ T \subseteq M \ R3 /\ D \subseteq M \ R4
         /\ S \subseteq M \ R5 /\ M = R6
    BY <1>11, <1>12
  <1>14. Unmapped(x, y1, C)
    <2>1. x.cached \in Seq(Int) /\ Once(x.cached)
      BY <1>6 DEF Pcbs, CacheFits, Once
    <2>2. ToSet(x.cached) \subseteq x.mapped
      BY <1>3, <1>8, <1>13
    <2>3. QED BY <1>3, <1>4, <1>6, <2>1, <2>2, UnmapEachCounted
  <1>15. Unmapped(x, y2, R2)
    <2>1. Counted(y1) /\ y1.mapped = M \ C
      BY <1>8, <1>14 DEF Unmapped
    <2>2. Run(c, 1) \subseteq y1.mapped
      BY <1>7, <1>13, <2>1
    <2>3. Unmapped(y1, y2, Run(c, 1))
      BY <1>4, <1>7, <2>1, <2>2, MUnmapCounted
    <2>4. R2 = C \cup Run(c, 1)
      BY <1>7, <1>12
    <2>5. QED BY <1>14, <2>3, <2>4, UnmappedMore
  <1>16. Unmapped(x, y3, R3)
    <2>1. Counted(y2) /\ y2.mapped = M \ R2
      BY <1>8, <1>15 DEF Unmapped
    <2>2. P \subseteq y2.mapped
      BY <1>13, <2>1
    <2>3. Unmapped(y2, y3, P)
      BY <1>4, <2>1, <2>2, UnmapSet
    <2>4. QED BY <1>12, <1>15, <2>3, UnmappedMore
  <1>17. Unmapped(x, y4, R4)
    <2>1. Counted(y3) /\ y3.mapped = M \ R3
      BY <1>8, <1>16 DEF Unmapped
    <2>2. T \subseteq y3.mapped
      BY <1>13, <2>1
    <2>3. Unmapped(y3, y4, T)
      BY <1>4, <2>1, <2>2, UnmapSet
    <2>4. QED BY <1>12, <1>16, <2>3, UnmappedMore
  <1>18. Unmapped(x, y5, R5)
    <2>1. Counted(y4) /\ y4.mapped = M \ R4
      BY <1>8, <1>17 DEF Unmapped
    <2>2. Run(d, k) \subseteq y4.mapped
      BY <1>10, <1>13, <2>1
    <2>3. Unmapped(y4, y5, Run(d, k))
      BY <1>4, <1>7, <2>1, <2>2, MUnmapCounted
    <2>4. QED BY <1>10, <1>12, <1>17, <2>3, UnmappedMore
  <1>19. Unmapped(x, y6, R6)
    <2>1. Counted(y5) /\ y5.mapped = M \ R5
      BY <1>8, <1>18 DEF Unmapped
    <2>2. Run(s, k) \subseteq y5.mapped
      BY <1>10, <1>13, <2>1
    <2>3. Unmapped(y5, y6, Run(s, k))
      BY <1>4, <1>7, <2>1, <2>2, MUnmapCounted
    <2>4. QED BY <1>10, <1>12, <1>18, <2>3, UnmappedMore
  <1>20. y6 \in Pcbs /\ y6.mapped = {} /\ y6.total = 0 /\ y6.failed = FALSE
    <2>1. y6 \in Pcbs /\ y6.total = Cardinality(y6.mapped) /\ y6.mapped = M \ R6 /\ y6.failed = x.failed
      BY <1>8, <1>19 DEF Unmapped, Counted
    <2>2. y6.mapped = {}
      BY <1>13, <2>1
    <2>3. Cardinality({}) = 0
      BY FS_EmptySet
    <2>4. QED BY <1>6, <2>1, <2>2, <2>3
  <1>21. CacheFits(y6)
    <2>1. y6.cached = x.cached /\ y6.uncached = x.uncached
      BY <1>19 DEF Unmapped, SameUses, Cache
    <2>2. QED BY <1>6, <2>1 DEF CacheFits
  <1>22. Gone(m')
    BY <1>5, <1>20, <1>21, DeletedIs
  <1>23. QED BY <1>5, <1>22 DEF PagesInv

\* every step keeps the invariant
LEMMA PagesStep ==
  ASSUME PagesInv, PagesNext
  PROVE  PagesInv'
  <1>1. ASSUME NEW n \in Requests, Alloc(n) PROVE PagesInv'
    BY <1>1, AllocKeeps
  <1>2. ASSUME NEW n \in Requests, NewNursery(n) PROVE PagesInv'
    BY <1>2, NewNurseryKeeps
  <1>3. ASSUME NEW n \in Requests, MapObjects(n) PROVE PagesInv'
    BY <1>3, MapObjectsKeeps
  <1>4. ASSUME NEW n \in Requests, GcMap(n) PROVE PagesInv'
    BY <1>4, GcMapKeeps
  <1>5. ASSUME NEW n \in Requests, CollectBegin(n) PROVE PagesInv'
    <2>1. n \in Nat
      BY Sizes
    <2>2. QED BY <1>5, <2>1, CollectBeginKeeps
  <1>6. ASSUME CollectBegin(0) PROVE PagesInv'
    <2>1. 0 \in Nat
      OBVIOUS
    <2>2. QED BY <1>6, <2>1, CollectBeginKeeps
  <1>7. ASSUME MapProtected PROVE PagesInv'
    BY <1>7, MapProtectedKeeps
  <1>8. ASSUME StackOverflow PROVE PagesInv'
    BY <1>8, StackOverflowKeeps
  <1>9. ASSUME NEW p \in Covered(m), Write(p) PROVE PagesInv'
    BY <1>9, WriteKeeps
  <1>10. ASSUME NEW p \in Covered(m), GcRetag(p) PROVE PagesInv'
    BY <1>10, GcRetagKeeps
  <1>11. ASSUME NEW p \in m.protected, GcProtected(p) PROVE PagesInv'
    BY <1>11, GcProtectedKeeps
  <1>12. ASSUME CollectEnd PROVE PagesInv'
    BY <1>12, CollectEndKeeps
  <1>13. ASSUME Delete PROVE PagesInv'
    BY <1>13, DeleteKeeps
  <1>14. ASSUME OutOfMemory PROVE PagesInv'
    BY <1>14, OutOfMemoryKeeps
  <1>15. ASSUME UNCHANGED pvars PROVE PagesInv'
    BY <1>15 DEF pvars, PagesInv, FullNow
  <1>16. ASSUME NEW p \in Covered(m), ScanPage(p) PROVE PagesInv'
    BY <1>16, ScanPageKeeps
  <1>17. ASSUME PageScanned PROVE PagesInv'
    BY <1>17, PageScannedKeeps
  <1>18. ASSUME ScanEnd PROVE PagesInv'
    BY <1>18, ScanEndKeeps
  <1>19. QED BY <1>1, <1>2, <1>3, <1>4, <1>5, <1>6, <1>7, <1>8, <1>9, <1>10, <1>11, <1>12, <1>13, <1>14, <1>15,
              <1>16, <1>17, <1>18 DEF PagesNext

\* and so does one that changes nothing
LEMMA PagesStutter ==
  ASSUME PagesInv, UNCHANGED pvars
  PROVE  PagesInv'
  BY DEF pvars, PagesInv, FullNow

-----------------------------------------------------------------------------
(* The start *)

\* pages are mapped for something
LEMMA MappedFor ==
  ASSUME NEW x, NEW G, Ledger(x, G), NEW n \in Nat \ {0}, NEW t \in MMap(x, n)
  PROVE  /\ t[1] \in Pcbs /\ t[2] \in Nat /\ Run(t[2], n) \subseteq Usable
         /\ Fresh(Run(t[2], n), G) /\ Ledger(t[1], G \cup Run(t[2], n))
         /\ SameUses(x, t[1]) /\ t[1].failed = x.failed
  <1>1. x \in Pcbs
    BY DEF Ledger
  <1>2. /\ t[1] \in Pcbs /\ SameUses(x, t[1]) /\ t[2] \in Nat /\ Run(t[2], n) \subseteq Usable
        /\ t[1].failed = x.failed
    BY <1>1, MMapEffect
  <1>3. Ledger(t[1], G \cup Run(t[2], n)) /\ Run(t[2], n) \cap G = {}
    BY MMapLedger
  <1>4. QED BY <1>2, <1>3 DEF Fresh

\* the memory, the tables and the cache are the same
SameBooks(x, y) ==
  /\ y.mapped = x.mapped /\ y.total = x.total /\ y.failed = x.failed /\ y.protected = x.protected
  /\ TableFields(y) = TableFields(x) /\ Cache(y) = Cache(x)

\* the same accounts
LEMMA SameBooksLedger ==
  ASSUME NEW x, NEW G, Ledger(x, G), NEW y \in Pcbs, SameBooks(x, y)
  PROVE  Ledger(y, G)
  <1>1. Measured(y) /\ Typed(y) = Typed(x)
    BY TableSame DEF SameBooks, Ledger
  <1>2. QED BY <1>1, LedgerSame DEF SameBooks

\* the heap, the stack and the first page of the cache are mapped, and there are no tables yet
HeapRun(x) == Run(x.heap_base, HeapSize)

\* the pages of the first stack
StackRun(x) == Run(x.stack_base, StackPages)

\* the first heap, the first stack and the page of the cache are mapped
Placed(x) ==
  /\ Ledger(x, (HeapRun(x) \cup StackRun(x)) \cup {x.cached_pages_base})
  /\ HeapRun(x) \cap StackRun(x) = {}
  /\ x.cached_pages_base \notin HeapRun(x) /\ x.cached_pages_base \notin StackRun(x)
  /\ HeapRun(x) \subseteq Usable /\ StackRun(x) \subseteq Usable
  /\ x.heap_base \in Nat /\ x.stack_base \in Nat
  /\ x.heap_size = HeapSize /\ x.heap_pages = << >> /\ x.failed = FALSE /\ x.deleted = FALSE
  /\ Typed(x) = {}

\* nothing is mapped
LEMMA BlankLedger ==
  ASSUME NEW up \in BOOLEAN
  PROVE  Ledger([Blank EXCEPT !.upwards = up], {}) /\ Typed([Blank EXCEPT !.upwards = up]) = {}
  <1>1. PICK y : y = [Blank EXCEPT !.upwards = up]
    OBVIOUS
  <1>2. /\ y \in Pcbs /\ y.mapped = {} /\ y.total = 0
        /\ y.cached = << >> /\ y.uncached = CacheSize /\ y.protected = {}
        /\ y.memory_base = 0 /\ y.memory_end = 0 /\ y.table = << >>
    BY <1>1, BlankIs
  <1>3. SegmentPages \in Nat /\ Segments \in Nat /\ CacheSize \in Nat /\ 0 * SegmentPages = 0
    BY PagesAssumption
  <1>4. TablePages(y) = 0
    BY <1>2 DEF TablePages
  <1>5. Measured(y)
    <2>1. << >> \in [0 .. 0 - 1 -> Words]
      OBVIOUS
    <2>2. TablePages(y) * SegmentPages = 0
      BY <1>3, <1>4
    <2>3. QED BY <1>2, <1>3, <2>1, <2>2 DEF Measured
  <1>6. Covered(y) = {}
    <2>1. Covered(y) = {p \in PageNumber : y.memory_base * SegmentPages <= p /\ p < y.memory_end * SegmentPages}
      BY <1>2, CoveredIs
    <2>2. \A p \in PageNumber : ~(0 <= p /\ p < 0)
      <3>1. PageNumber \subseteq Int
        BY DEF PageNumber
      <3>2. QED BY <3>1
    <2>3. QED BY <1>2, <1>3, <2>1, <2>2
  <1>7. Typed(y) = {}
    BY <1>6, TypedIs
  <1>8. Len(y.cached) = 0 /\ ToSet(y.cached) = {} /\ 1 .. 0 = {}
    <2>1. Len(<< >>) = 0 /\ DOMAIN << >> = {} /\ 1 .. 0 = {}
      OBVIOUS
    <2>2. QED BY <1>2, <2>1 DEF ToSet
  <1>9. CacheFits(y)
    BY <1>2, <1>3, <1>8 DEF CacheFits
  <1>10. Cardinality({}) = 0
    BY FS_EmptySet
  <1>11. QED BY <1>1, <1>2, <1>5, <1>7, <1>8, <1>9, <1>10 DEF Ledger, Split

\* ik_make_pcb maps the first heap, the first stack and the page of the cache
LEMMA FirstPlaced ==
  ASSUME NEW up \in BOOLEAN, NEW h \in MMap([Blank EXCEPT !.upwards = up], HeapSize),
         NEW s \in MMap([h[1] EXCEPT !.heap_base = h[2]], StackPages),
         NEW c \in MMap([s[1] EXCEPT !.stack_base = s[2]], 1)
  PROVE  Placed([c[1] EXCEPT !.cached_pages_base = c[2]])
  <1>1. HeapSize \in Nat \ {0} /\ StackPages \in Nat \ {0} /\ 1 \in Nat \ {0}
    BY PagesAssumption
  <1>2. PICK x0, x1, x2, x3 : /\ x0 = [Blank EXCEPT !.upwards = up] /\ x1 = [h[1] EXCEPT !.heap_base = h[2]]
                              /\ x2 = [s[1] EXCEPT !.stack_base = s[2]] /\ x3 = [c[1] EXCEPT !.cached_pages_base = c[2]]
    OBVIOUS
  <1>3. PICK y1, y2, y3, b1, b2, b3 : y1 = h[1] /\ b1 = h[2] /\ y2 = s[1] /\ b2 = s[2] /\ y3 = c[1] /\ b3 = c[2]
    OBVIOUS
  <1>4. PICK E, H, S : E = {} /\ H = Run(b1, HeapSize) /\ S = Run(b2, StackPages)
    OBVIOUS
  <1>5. x0.failed = FALSE /\ x0.deleted = FALSE /\ x0.heap_pages = << >> /\ x0.heap_size = HeapSize
    BY <1>2, BlankIs
  <1>6. Ledger(x0, E) /\ Typed(x0) = {}
    BY <1>2, <1>4, BlankLedger
  <1>7. h \in MMap(x0, HeapSize) /\ s \in MMap(x1, StackPages) /\ c \in MMap(x2, 1)
    BY <1>2
  <1>8. /\ y1 \in Pcbs /\ b1 \in Nat /\ H \subseteq Usable /\ Ledger(y1, E \cup H)
        /\ SameUses(x0, y1) /\ y1.failed = x0.failed
    BY <1>1, <1>3, <1>4, <1>6, <1>7, MappedFor
  <1>9. Ledger(y1, H)
    BY <1>4, <1>8
  <1>10. /\ x1 \in Pcbs /\ SameBooks(y1, x1) /\ x1.heap_base = b1 /\ x1.heap_size = y1.heap_size
         /\ x1.heap_pages = y1.heap_pages /\ x1.deleted = y1.deleted
    <2>1. x1 = [y1 EXCEPT !.heap_base = b1] /\ b1 \in Int
      BY <1>2, <1>3, <1>8
    <2>2. QED BY <1>8, <2>1 DEF Pcbs, SameBooks, TableFields, Cache
  <1>11. Ledger(x1, H)
    BY <1>9, <1>10, SameBooksLedger
  <1>12. /\ y2 \in Pcbs /\ b2 \in Nat /\ S \subseteq Usable /\ Ledger(y2, H \cup S) /\ S \cap H = {}
         /\ SameUses(x1, y2) /\ y2.failed = x1.failed
    <2>1. /\ s[1] \in Pcbs /\ s[2] \in Nat /\ Run(s[2], StackPages) \subseteq Usable
          /\ Fresh(Run(s[2], StackPages), H) /\ Ledger(s[1], H \cup Run(s[2], StackPages))
          /\ SameUses(x1, s[1]) /\ s[1].failed = x1.failed
      BY <1>1, <1>7, <1>11, MappedFor
    <2>2. S = Run(s[2], StackPages) /\ y2 = s[1] /\ b2 = s[2]
      BY <1>3, <1>4
    <2>3. QED BY <2>1, <2>2 DEF Fresh
  <1>13. PICK K : K = H \cup S
    OBVIOUS
  <1>14. /\ x2 \in Pcbs /\ SameBooks(y2, x2) /\ x2.stack_base = b2 /\ x2.heap_base = y2.heap_base
         /\ x2.heap_size = y2.heap_size /\ x2.heap_pages = y2.heap_pages /\ x2.deleted = y2.deleted
    <2>1. x2 = [y2 EXCEPT !.stack_base = b2] /\ b2 \in Int
      BY <1>2, <1>3, <1>12
    <2>2. QED BY <1>12, <2>1 DEF Pcbs, SameBooks, TableFields, Cache
  <1>15. Ledger(x2, K)
    BY <1>12, <1>13, <1>14, SameBooksLedger
  <1>16. /\ y3 \in Pcbs /\ b3 \in Nat /\ Ledger(y3, K \cup {b3}) /\ b3 \notin K
         /\ SameUses(x2, y3) /\ y3.failed = x2.failed
    <2>1. /\ y3 \in Pcbs /\ b3 \in Nat /\ Ledger(y3, K \cup Run(b3, 1)) /\ Fresh(Run(b3, 1), K)
          /\ SameUses(x2, y3) /\ y3.failed = x2.failed
      BY <1>1, <1>3, <1>7, <1>15, MappedFor
    <2>2. Run(b3, 1) = {b3}
      BY <2>1, RunIn
    <2>3. QED BY <2>1, <2>2 DEF Fresh
  <1>17. /\ x3 \in Pcbs /\ SameBooks(y3, x3) /\ x3.cached_pages_base = b3 /\ Areas(x3) = Areas(y3)
    <2>1. x3 = [y3 EXCEPT !.cached_pages_base = b3] /\ b3 \in Int
      BY <1>2, <1>3, <1>16
    <2>2. QED BY <1>16, <2>1 DEF Pcbs, SameBooks, TableFields, Cache, Areas
  <1>18. PICK L : L = K \cup {b3}
    OBVIOUS
  <1>19. Ledger(x3, L)
    BY <1>16, <1>17, <1>18, SameBooksLedger
  <1>20. /\ x3.heap_base = b1 /\ x3.stack_base = b2 /\ x3.heap_size = HeapSize /\ x3.heap_pages = << >>
         /\ x3.deleted = FALSE /\ x3.failed = FALSE
    BY <1>5, <1>8, <1>10, <1>12, <1>14, <1>16, <1>17 DEF SameUses, SameBooks, Areas
  <1>21. HeapRun(x3) = H /\ StackRun(x3) = S
    BY <1>4, <1>20 DEF HeapRun, StackRun
  <1>22. Typed(x3) = {}
    <2>1. Typed(y1) = {} /\ Typed(x1) = Typed(y1)
      BY <1>6, <1>8, <1>10, TableSame DEF SameUses, SameBooks
    <2>2. Typed(y2) = {} /\ Typed(x2) = Typed(y2)
      BY <1>12, <1>14, <2>1, TableSame DEF SameUses, SameBooks
    <2>3. Typed(y3) = {} /\ Typed(x3) = Typed(y3)
      BY <1>16, <1>17, <2>2, TableSame DEF SameUses, SameBooks
    <2>4. QED BY <2>3
  <1>23. Placed(x3)
    BY <1>8, <1>12, <1>13, <1>16, <1>17, <1>18, <1>19, <1>20, <1>21, <1>22 DEF Placed
  <1>24. QED BY <1>2, <1>23

\* the first tables reach from the page before the lower area to the one after the higher
LEMMA FirstReach ==
  ASSUME NEW a \in Nat, NEW k \in Nat \ {0}, NEW b \in Nat, NEW n \in Nat \ {0}, a + k <= b,
         Run(a, k) \subseteq Usable, Run(b, n) \subseteq Usable
  PROVE  LET lo == SegmentIndex(a - 1)
             hi == SegmentAbove(b + n + 1)
         IN /\ lo \in Nat /\ hi \in Nat /\ lo < hi /\ hi <= Segments
            /\ lo * SegmentPages <= a /\ b + n <= hi * SegmentPages
  <1> DEFINE U == SegmentPages * Segments
             low == a - 1
             high == b + n + 1
             up == high + SegmentPages - 1
             lo == SegmentIndex(low)
             hi == SegmentAbove(high)
  <1>1. SegmentPages \in Nat \ {0} /\ Segments \in Nat
    BY PagesAssumption
  <1>2. U \in Nat
    BY <1>1, Products
  <1>3. a \in Usable /\ b + n - 1 \in Usable
    BY RunIn
  <1>4. low \in Nat /\ high \in Nat /\ high <= U /\ low < high /\ up \in Nat
    <2>1. Usable = 1 .. U - 2
      BY DEF Usable
    <2> HIDE DEF U
    <2>2. QED BY <1>1, <1>2, <1>3, <2>1
  <1>5. lo = low \div SegmentPages /\ hi = up \div SegmentPages
    BY DEF SegmentIndex, SegmentAbove
  <1>6. a = low + 1 /\ b + n + 1 = high
    BY <1>4
  <1> HIDE DEF lo, hi, low, high
  <1>7. lo \in Nat /\ lo * SegmentPages <= low
    BY <1>1, <1>4, <1>5, Division
  <1>8. hi \in Nat /\ up < hi * SegmentPages + SegmentPages
    <2> HIDE DEF up
    <2>1. up \div SegmentPages \in Nat /\ up < (up \div SegmentPages) * SegmentPages + SegmentPages
      BY <1>1, <1>4, Division
    <2>2. QED BY <1>5, <2>1
  <1>9. lo * SegmentPages \in Int /\ hi * SegmentPages \in Int
    BY <1>1, <1>7, <1>8, Products
  <1>10. high <= hi * SegmentPages
    BY <1>1, <1>4, <1>8, <1>9
  <1>11. lo < hi
    <2>1. hi <= lo => hi * SegmentPages <= lo * SegmentPages
      BY <1>1, <1>7, <1>8, Products
    <2>2. QED BY <1>4, <1>7, <1>8, <1>9, <1>10, <2>1
  <1>12. hi <= Segments
    <2> DEFINE V == (Segments + 1) * SegmentPages
    <2>1. V = U + SegmentPages
      <3>1. (Segments + 1) * SegmentPages = Segments * SegmentPages + 1 * SegmentPages
        BY <1>1, Products
      <3>2. Segments * SegmentPages = SegmentPages * Segments /\ 1 * SegmentPages = SegmentPages
        BY <1>1
      <3>3. QED BY <3>1, <3>2
    <2> HIDE DEF V, U
    <2>2. up < V
      BY <1>1, <1>2, <1>4, <2>1
    <2>3. hi < Segments + 1
      <3> HIDE DEF up
      <3>1. up < (Segments + 1) * SegmentPages
        BY <2>2 DEF V
      <3>2. QED BY <1>1, <1>4, <1>5, <3>1, Division
    <2>4. QED BY <1>1, <1>8, <2>3
  <1>13. lo * SegmentPages <= a /\ b + n <= hi * SegmentPages
    BY <1>4, <1>6, <1>7, <1>9, <1>10
  <1>14. QED BY <1>7, <1>8, <1>11, <1>12, <1>13 DEF lo, hi, low, high

\* where the first tables begin and end
FirstLow(x) ==
  SegmentIndex(IF x.heap_base < x.stack_base THEN x.heap_base - 1 ELSE x.stack_base - 1)

\* the segment after the last of the heap and the stack
FirstHigh(x) ==
  SegmentAbove(IF x.heap_base < x.stack_base THEN x.stack_base + StackPages + 1 ELSE x.heap_base + HeapSize + 1)

\* the pages of segments lo to hi - 1
Between(lo, hi) == {p \in PageNumber : lo * SegmentPages <= p /\ p < hi * SegmentPages}

\* a run of them
LEMMA RunBetween ==
  ASSUME NEW b \in Nat, NEW n \in Nat, Run(b, n) \subseteq Usable, NEW lo \in Nat, NEW hi \in Nat,
         lo * SegmentPages <= b, b + n <= hi * SegmentPages
  PROVE  Run(b, n) \subseteq Between(lo, hi)
  <1>1. PICK u, v : u = lo * SegmentPages /\ v = hi * SegmentPages
    OBVIOUS
  <1>2. u \in Int /\ v \in Int /\ u <= b /\ b + n <= v
    <2>1. SegmentPages \in Nat
      BY PagesAssumption
    <2>2. QED BY <1>1, <2>1, Products
  <1>3. \A p \in Run(b, n) : p \in PageNumber /\ p \in Int /\ b <= p /\ p < b + n
    BY UsablePages, RunIn
  <1>4. \A p \in Run(b, n) : u <= p /\ p < v
    BY <1>2, <1>3
  <1>5. QED BY <1>1, <1>3, <1>4 DEF Between

\* the first tables are for the first heap and the first stack
LEMMA FirstCover ==
  ASSUME NEW x, Placed(x)
  PROVE  LET lo == FirstLow(x)
             hi == FirstHigh(x)
         IN /\ lo \in Nat /\ hi \in Nat /\ lo < hi /\ hi <= Segments
            /\ HeapRun(x) \subseteq Between(lo, hi) /\ StackRun(x) \subseteq Between(lo, hi)
  <1>1. PICK a, b, lo, hi : a = x.heap_base /\ b = x.stack_base /\ lo = FirstLow(x) /\ hi = FirstHigh(x)
    OBVIOUS
  <1>2. /\ a \in Nat /\ b \in Nat /\ Run(a, HeapSize) \cap Run(b, StackPages) = {}
        /\ Run(a, HeapSize) \subseteq Usable /\ Run(b, StackPages) \subseteq Usable
    BY <1>1 DEF Placed, HeapRun, StackRun
  <1>3. HeapSize \in Nat \ {0} /\ StackPages \in Nat \ {0} /\ SegmentPages \in Nat \ {0}
    BY PagesAssumption
  <1>4. a \in Run(a, HeapSize) /\ b \in Run(b, StackPages)
    BY <1>2, <1>3, RunIn
  <1>5. (a < b => a + HeapSize <= b) /\ (~(a < b) => b + StackPages <= a)
    <2>1. b \notin Run(a, HeapSize) /\ a \notin Run(b, StackPages)
      BY <1>2, <1>4
    <2>2. ~(a <= b /\ b < a + HeapSize) /\ ~(b <= a /\ a < b + StackPages)
      BY <1>2, <1>3, <2>1, RunIn
    <2>3. QED BY <1>2, <1>3, <2>2
  <1>6. /\ lo \in Nat /\ hi \in Nat /\ lo < hi /\ hi <= Segments
        /\ lo * SegmentPages <= a /\ a + HeapSize <= hi * SegmentPages
        /\ lo * SegmentPages <= b /\ b + StackPages <= hi * SegmentPages
    <2>1. CASE a < b
      <3>1. lo = SegmentIndex(a - 1) /\ hi = SegmentAbove(b + StackPages + 1)
        BY <1>1, <2>1 DEF FirstLow, FirstHigh
      <3>2. /\ lo \in Nat /\ hi \in Nat /\ lo < hi /\ hi <= Segments
            /\ lo * SegmentPages <= a /\ b + StackPages <= hi * SegmentPages
        BY <1>2, <1>3, <1>5, <2>1, <3>1, FirstReach
      <3>3. lo * SegmentPages \in Int /\ hi * SegmentPages \in Int
        BY <1>3, <3>2, Products
      <3>4. QED BY <1>2, <1>3, <1>5, <2>1, <3>2, <3>3
    <2>2. CASE ~(a < b)
      <3>1. lo = SegmentIndex(b - 1) /\ hi = SegmentAbove(a + HeapSize + 1)
        BY <1>1, <2>2 DEF FirstLow, FirstHigh
      <3>2. /\ lo \in Nat /\ hi \in Nat /\ lo < hi /\ hi <= Segments
            /\ lo * SegmentPages <= b /\ a + HeapSize <= hi * SegmentPages
        BY <1>2, <1>3, <1>5, <2>2, <3>1, FirstReach
      <3>3. lo * SegmentPages \in Int /\ hi * SegmentPages \in Int
        BY <1>3, <3>2, Products
      <3>4. QED BY <1>2, <1>3, <1>5, <2>2, <3>2, <3>3
    <2>3. QED BY <2>1, <2>2
  <1>7. Run(a, HeapSize) \subseteq Between(lo, hi) /\ Run(b, StackPages) \subseteq Between(lo, hi)
    <2>1. HeapSize \in Nat /\ StackPages \in Nat
      BY <1>3
    <2>2. QED BY <1>2, <1>6, <2>1, RunBetween
  <1>8. QED BY <1>1, <1>6, <1>7 DEF HeapRun, StackRun

\* the tables are there, and empty
Ruled(x, dv, sv, lo, hi) ==
  [x EXCEPT !.dirty_vector_base = dv, !.segment_vector_base = sv, !.memory_base = lo, !.memory_end = hi,
            !.table = [i \in 0 .. (hi - lo) * SegmentPages - 1 |-> Hole]]

\* what Ruled does
IsRuled(x, y, dv, sv, lo, hi) ==
  /\ y \in Pcbs /\ Measured(y) /\ Covered(y) = Between(lo, hi) /\ TablePages(y) = hi - lo
  /\ y.mapped = x.mapped /\ y.total = x.total /\ y.failed = x.failed /\ y.protected = x.protected
  /\ Areas(y) = Areas(x) /\ Cache(y) = Cache(x)
  /\ Homes(y) = <<dv, sv, x.cached_pages_base>>
  /\ \A p : Now(y, p) = Hole

\* it does so
LEMMA RuledEffect ==
  ASSUME NEW x \in Pcbs, NEW dv \in Int, NEW sv \in Int, NEW lo \in Nat, NEW hi \in Nat, lo < hi, hi <= Segments,
         NEW y, y = Ruled(x, dv, sv, lo, hi)
  PROVE  IsRuled(x, y, dv, sv, lo, hi)
  <1>1. PICK T, n : n = (hi - lo) * SegmentPages /\ T = [i \in 0 .. n - 1 |-> Hole]
    OBVIOUS
  <1>2. SegmentPages \in Nat /\ hi - lo \in Nat /\ n \in Nat
    <2>1. SegmentPages \in Nat /\ hi - lo \in Nat
      BY PagesAssumption
    <2>2. PICK k : k = hi - lo
      OBVIOUS
    <2>3. k * SegmentPages \in Nat
      BY <2>1, <2>2, Products
    <2>4. QED BY <1>1, <2>1, <2>2, <2>3
  <1>3. Hole \in Words
    BY DEF Hole, Word, Words
  <1>4. T \in [0 .. n - 1 -> Words] /\ \A i \in 0 .. n - 1 : T[i] = Hole
    BY <1>1, <1>3
  <1>5. T \in Tables
    BY <1>2, <1>4 DEF Tables
  <1>6. y = [x EXCEPT !.dirty_vector_base = dv, !.segment_vector_base = sv, !.memory_base = lo, !.memory_end = hi,
                      !.table = T]
    BY Zenon, <1>1 DEF Ruled
  <1>7. /\ y \in Pcbs /\ y.memory_base = lo /\ y.memory_end = hi /\ y.table = T
        /\ y.mapped = x.mapped /\ y.total = x.total /\ y.failed = x.failed /\ y.protected = x.protected
        /\ Areas(y) = Areas(x) /\ Cache(y) = Cache(x)
        /\ Homes(y) = <<dv, sv, x.cached_pages_base>>
    <2>1. y \in Pcbs
      <3>1. PICK z : z = [x EXCEPT !.dirty_vector_base = dv, !.segment_vector_base = sv]
        OBVIOUS
      <3>2. z \in Pcbs
        BY <3>1 DEF Pcbs
      <3>3. PICK w : w = [z EXCEPT !.memory_base = lo, !.memory_end = hi]
        OBVIOUS
      <3>4. w \in Pcbs
        BY <3>2, <3>3 DEF Pcbs
      <3>5. y = [w EXCEPT !.table = T]
        BY <1>6, <3>1, <3>3
      <3>6. QED BY <1>5, <3>4, <3>5 DEF Pcbs
    <2>2. /\ y.memory_base = lo /\ y.memory_end = hi /\ y.table = T
          /\ y.mapped = x.mapped /\ y.total = x.total /\ y.failed = x.failed /\ y.protected = x.protected
      BY <1>6 DEF Pcbs
    <2>3. Areas(y) = Areas(x) /\ Cache(y) = Cache(x)
      BY <1>6 DEF Pcbs, Areas, Cache
    <2>4. Homes(y) = <<dv, sv, x.cached_pages_base>>
      BY <1>6 DEF Pcbs, Homes
    <2>5. QED BY <2>1, <2>2, <2>3, <2>4
  <1>8. TablePages(y) = hi - lo
    BY <1>7 DEF TablePages
  <1>9. Measured(y)
    <2>1. TablePages(y) * SegmentPages = n
      BY <1>1, <1>8
    <2>2. y.table \in [0 .. TablePages(y) * SegmentPages - 1 -> Words]
      BY <1>4, <1>7, <2>1
    <2>3. QED BY <1>7, <2>2 DEF Measured
  <1>10. Covered(y) = Between(lo, hi)
    BY <1>7, CoveredIs DEF Between
  <1>11. ASSUME NEW p PROVE Now(y, p) = Hole
    <2>1. CASE p \in Covered(y)
      <3>1. At(y, p) \in DOMAIN y.table
        BY <1>7, <1>9, <2>1, EntryIn
      <3>2. DOMAIN y.table = 0 .. n - 1
        BY <1>4, <1>7
      <3>3. Entry(y, p) = Hole
        BY <1>4, <1>7, <3>1, <3>2 DEF Entry
      <3>4. QED BY <2>1, <3>3 DEF Now
    <2>2. CASE p \notin Covered(y)
      BY <2>2 DEF Now
    <2>3. QED BY <2>1, <2>2
  <1>12. QED BY <1>7, <1>8, <1>9, <1>10, <1>11 DEF IsRuled

\* the tables are mapped, and then written
FirstTwo(x, n) ==
  UNION {{[t[1] EXCEPT !.dirty_vector_base = d[2], !.segment_vector_base = t[2]] :
            t \in MMap(d[1], n)} : d \in MMap(x, n)}

\* init_page_table: the first types
Started(u, lo, hi) ==
  SetType(SetType([u EXCEPT !.memory_base = lo, !.memory_end = hi,
                            !.table = [i \in 0 .. (hi - lo) * SegmentPages - 1 |-> Hole]],
                  u.heap_base, HeapSize, MainHeap),
          u.stack_base, StackPages, MainStack)

\* the first tables
LEMMA FirstTablesAre ==
  ASSUME NEW x
  PROVE  FirstTables(x) = {Started(u, FirstLow(x), FirstHigh(x)) : u \in FirstTwo(x, FirstHigh(x) - FirstLow(x))}
  BY DEF FirstTables, Started, FirstTwo, FirstLow, FirstHigh

\* the first tables say of every page what it is
LEMMA FirstTablesKept ==
  ASSUME NEW x, Placed(x), NEW y \in FirstTables(x)
  PROVE  Kept(y, << >>) /\ y.heap_pages = << >>
  <1>1. PICK lo, hi, n : lo = FirstLow(x) /\ hi = FirstHigh(x) /\ n = hi - lo
    OBVIOUS
  <1>2. /\ lo \in Nat /\ hi \in Nat /\ lo < hi /\ hi <= Segments
        /\ HeapRun(x) \subseteq Between(lo, hi) /\ StackRun(x) \subseteq Between(lo, hi)
    BY <1>1, FirstCover
  <1>3. PICK u : u \in FirstTwo(x, n) /\ y = Started(u, lo, hi)
    BY <1>1, FirstTablesAre
  <1>4. PICK d, t :
          /\ d \in MMap(x, n) /\ t \in MMap(d[1], n)
          /\ u = [t[1] EXCEPT !.dirty_vector_base = d[2], !.segment_vector_base = t[2]]
    <2>1. PICK d \in MMap(x, n) :
            u \in {[t[1] EXCEPT !.dirty_vector_base = d[2], !.segment_vector_base = t[2]] : t \in MMap(d[1], n)}
      BY <1>3 DEF FirstTwo
    <2>2. QED BY <2>1
  <1>5. n \in Nat \ {0} /\ HeapSize \in Nat \ {0} /\ StackPages \in Nat \ {0} /\ HeapSize \in Int /\ StackPages \in Int
    BY <1>1, <1>2, PagesAssumption
  <1>6. PICK c, H, S, G : c = x.cached_pages_base /\ H = HeapRun(x) /\ S = StackRun(x) /\ G = (H \cup S) \cup {c}
    OBVIOUS
  <1>7. /\ Ledger(x, G) /\ H \cap S = {} /\ c \notin H /\ c \notin S /\ Typed(x) = {}
        /\ x.heap_base \in Nat /\ x.stack_base \in Nat
        /\ x.heap_size = HeapSize /\ x.heap_pages = << >> /\ x.failed = FALSE /\ x.deleted = FALSE
    BY <1>6 DEF Placed
  <1>8. PICK e, f, dv, sv, D, T : e = d[1] /\ dv = d[2] /\ f = t[1] /\ sv = t[2] /\ D = Run(dv, n) /\ T = Run(sv, n)
    OBVIOUS
  <1>9. PICK G1, G2 : G1 = G \cup D /\ G2 = G1 \cup T
    OBVIOUS
  <1>10. /\ e \in Pcbs /\ dv \in Nat /\ D \cap G = {} /\ Ledger(e, G1) /\ SameUses(x, e) /\ e.failed = x.failed
    <2>1. /\ d[1] \in Pcbs /\ d[2] \in Nat /\ Fresh(Run(d[2], n), G) /\ Ledger(d[1], G \cup Run(d[2], n))
          /\ SameUses(x, d[1]) /\ d[1].failed = x.failed
      BY <1>4, <1>5, <1>7, MappedFor
    <2>2. QED BY <1>8, <1>9, <2>1 DEF Fresh
  <1>11. /\ f \in Pcbs /\ sv \in Nat /\ T \cap G1 = {} /\ Ledger(f, G2) /\ SameUses(e, f) /\ f.failed = e.failed
    <2>1. t \in MMap(e, n)
      BY <1>4, <1>8
    <2>2. /\ t[1] \in Pcbs /\ t[2] \in Nat /\ Fresh(Run(t[2], n), G1) /\ Ledger(t[1], G1 \cup Run(t[2], n))
          /\ SameUses(e, t[1]) /\ t[1].failed = e.failed
      BY <1>5, <1>10, <2>1, MappedFor
    <2>3. QED BY <1>8, <1>9, <2>2 DEF Fresh
  <1>12. SameUses(x, f) /\ f.failed = FALSE /\ Typed(f) = {}
    <2>1. SameUses(x, f)
      BY <1>10, <1>11, SameUsesTransitive
    <2>2. Typed(f) = {}
      BY <1>7, <2>1, SameUsesKeep
    <2>3. QED BY <1>7, <1>10, <1>11, <2>1, <2>2
  <1>13. PICK v : v = Ruled(f, dv, sv, lo, hi)
    OBVIOUS
  <1>14. /\ v \in Pcbs /\ Measured(v) /\ Covered(v) = Between(lo, hi) /\ TablePages(v) = hi - lo
         /\ v.mapped = f.mapped /\ v.total = f.total /\ v.failed = f.failed /\ v.protected = f.protected
         /\ Areas(v) = Areas(f) /\ Cache(v) = Cache(f)
         /\ Homes(v) = <<dv, sv, f.cached_pages_base>>
         /\ \A p : Now(v, p) = Hole
    <2>1. dv \in Int /\ sv \in Int
      BY <1>10, <1>11
    <2>2. f \in Pcbs /\ lo \in Nat /\ hi \in Nat /\ lo < hi /\ hi <= Segments /\ v = Ruled(f, dv, sv, lo, hi)
      BY <1>2, <1>11, <1>13
    <2>3. IsRuled(f, v, dv, sv, lo, hi)
      BY <2>1, <2>2, RuledEffect
    <2>4. QED BY <2>3 DEF IsRuled
  <1>15. y = SetType(SetType(v, x.heap_base, HeapSize, MainHeap), x.stack_base, StackPages, MainStack)
    <2>1. u.heap_base = x.heap_base /\ u.stack_base = x.stack_base
      <3>1. f.heap_base = x.heap_base /\ f.stack_base = x.stack_base
        BY <1>12 DEF SameUses, Areas
      <3>2. u.heap_base = f.heap_base /\ u.stack_base = f.stack_base
        BY <1>4, <1>8, <1>11 DEF Pcbs
      <3>3. QED BY <3>1, <3>2
    <2>2. v = [u EXCEPT !.memory_base = lo, !.memory_end = hi,
                        !.table = [i \in 0 .. (hi - lo) * SegmentPages - 1 |-> Hole]]
      <3>1. PICK E : E = [i \in 0 .. (hi - lo) * SegmentPages - 1 |-> Hole]
        OBVIOUS
      <3>2. u = [f EXCEPT !.dirty_vector_base = dv, !.segment_vector_base = sv]
        BY <1>4, <1>8
      <3>3. v = [f EXCEPT !.dirty_vector_base = dv, !.segment_vector_base = sv, !.memory_base = lo, !.memory_end = hi,
                          !.table = E]
        BY Zenon, <1>13, <3>1 DEF Ruled
      <3>4. v = [u EXCEPT !.memory_base = lo, !.memory_end = hi, !.table = E]
        BY <1>11, <3>2, <3>3 DEF Pcbs
      <3>5. QED BY Zenon, <3>1, <3>4
    <2>3. QED BY Zenon, <1>3, <2>1, <2>2 DEF Started
  <1>16. Hole.type = "hole" /\ Hole.dirty = FALSE
    BY DEF Hole, Word
  <1>17. Typed(v) = {}
    <2>1. \A p : p \notin Typed(v)
      BY <1>14, <1>16, TypedIs
    <2>2. QED BY <2>1
  <1>18. Ledger(v, G2)
    BY <1>11, <1>12, <1>14, <1>17, LedgerSame
  <1>19. PICK w, G3, G4 : w = SetType(v, x.heap_base, HeapSize, MainHeap) /\ G3 = G2 \ H /\ G4 = G3 \ S
    OBVIOUS
  <1>20. H = Run(x.heap_base, HeapSize) /\ S = Run(x.stack_base, StackPages)
         /\ x.heap_base \in Int /\ x.stack_base \in Int
    BY <1>6, <1>7 DEF HeapRun, StackRun
  <1>21. /\ Ledger(w, G3) /\ SameMemory(v, w) /\ Covered(w) = Covered(v) /\ w.failed = v.failed
         /\ \A p : Now(w, p) = IF p \in H THEN Dirtied(MainHeap, Hole) ELSE Hole
    <2>1. May(v, G2, Run(x.heap_base, HeapSize))
      BY <1>2, <1>6, <1>9, <1>14, <1>20 DEF May
    <2>2. MainHeap \in Words /\ MainHeap.type # "hole"
      BY WordsAre
    <2>3. Becomes(v, w, G2, x.heap_base, HeapSize, MainHeap)
      BY <1>5, <1>18, <1>19, <1>20, <2>1, <2>2, SetTypeLedger
    <2>4. QED BY <1>14, <1>19, <1>20, <2>3 DEF Becomes
  <1>22. /\ Ledger(y, G4) /\ SameMemory(w, y) /\ y.failed = w.failed
         /\ \A p : Now(y, p) = IF p \in S THEN Dirtied(MainStack, Now(w, p)) ELSE Now(w, p)
    <2>1. May(w, G3, Run(x.stack_base, StackPages))
      BY <1>2, <1>6, <1>7, <1>9, <1>14, <1>19, <1>20, <1>21 DEF May
    <2>2. MainStack \in Words /\ MainStack.type # "hole"
      BY WordsAre
    <2>3. y = SetType(w, x.stack_base, StackPages, MainStack)
      BY <1>15, <1>19
    <2>4. Becomes(w, y, G3, x.stack_base, StackPages, MainStack)
      BY <1>5, <1>20, <1>21, <2>1, <2>2, <2>3, SetTypeLedger
    <2>5. QED BY <1>19, <1>20, <2>4 DEF Becomes
  <1>23. \A p : /\ p \in S => Now(y, p).type = "mainstack"
                /\ p \in H => Now(y, p).type = "mainheap"
                /\ p \notin H /\ p \notin S => Now(y, p).type = "hole"
                /\ Now(y, p).dirty = FALSE
    <2>1. /\ MainHeap \in Words /\ MainHeap.type = "mainheap" /\ MainStack \in Words /\ MainStack.type = "mainstack"
      BY WordsAre
    <2>2. \A q : \A r \in Words : Dirtied(r, q).type = r.type /\ Dirtied(r, q).dirty = q.dirty
      BY DEF Dirtied, Words
    <2>3. \A p : Now(w, p).dirty = FALSE
      BY <1>16, <1>21, <2>1, <2>2
    <2>4. \A p : Now(y, p).dirty = FALSE
      BY <1>22, <2>1, <2>2, <2>3
    <2>5. \A p \in H : Now(y, p).type = "mainheap"
      BY <1>7, <1>21, <1>22, <2>1, <2>2
    <2>6. \A p \in S : Now(y, p).type = "mainstack"
      BY <1>22, <2>1, <2>2
    <2>7. \A p : p \notin H /\ p \notin S => Now(y, p).type = "hole"
      BY <1>16, <1>21, <1>22
    <2>8. QED BY <2>4, <2>5, <2>6, <2>7
  <1>24. /\ y.heap_base = x.heap_base /\ y.heap_size = HeapSize /\ y.stack_base = x.stack_base
         /\ y.heap_pages = << >> /\ y.deleted = FALSE /\ y.failed = FALSE
         /\ y.dirty_vector_base = dv /\ y.segment_vector_base = sv /\ y.cached_pages_base = c
         /\ TablePages(y) = n
    <2>1. Areas(y) = Areas(x) /\ Homes(y) = <<dv, sv, f.cached_pages_base>> /\ TablePages(y) = TablePages(v)
      BY <1>12, <1>14, <1>21, <1>22 DEF SameMemory, SameUses, TablePages
    <2>2. f.cached_pages_base = c
      BY <1>6, <1>12 DEF SameUses, Homes
    <2>3. y.failed = FALSE
      BY <1>12, <1>14, <1>21, <1>22
    <2>4. QED BY <1>1, <1>7, <1>14, <2>1, <2>2, <2>3 DEF Areas, Homes
  <1>25. DirtyRun(y) = D /\ SegmentRun(y) = T /\ Own(y) = ({c} \cup D) \cup T
    BY <1>8, <1>24 DEF DirtyRun, SegmentRun, Own
  <1>26. G4 = Own(y) /\ Split(Own(y), {c}, D, T, {})
    BY <1>6, <1>7, <1>9, <1>10, <1>11, <1>19, <1>25 DEF Split
  <1>27. \A p : p \in H \cup S => p \in PageNumber
    BY <1>2, <1>6 DEF Between
  <1>28. y.stack_base \in Typed(y)
    <2>1. x.stack_base \in S
      BY <1>5, <1>7, <1>20, RunIn
    <2>2. x.stack_base \in PageNumber /\ Now(y, x.stack_base).type = "mainstack"
      BY <1>23, <1>27, <2>1
    <2>3. QED BY <1>24, <2>2, TypedIs
  <1>29. Whole(y, {})
    <2>1. Own(y) \cup {} = Own(y)
      OBVIOUS
    <2>2. QED BY <1>22, <1>24, <1>25, <1>26, <1>28, <2>1 DEF Whole
  <1>30. Clean(y)
    BY <1>23 DEF Clean
  <1>31. OfType(y, "mainheap") = H /\ OfType(y, "mainstack") = S
    <2>1. \A p : Now(y, p).type = "mainheap" <=> p \in H
      BY <1>7, <1>23
    <2>2. \A p : Now(y, p).type = "mainstack" <=> p \in S
      BY <1>7, <1>23
    <2>3. QED BY <1>27, <2>1, <2>2 DEF OfType
  <1>32. Laid(y, << >>)
    <2>1. Areal(<< >>) /\ AllRuns(<< >>) = {}
      BY NoAreas
    <2>2. HeapSize \in Nat
      BY <1>5
    <2>3. QED BY <1>20, <1>24, <1>31, <2>1, <2>2 DEF Laid, Fresh
  <1>33. QED BY <1>24, <1>29, <1>30, <1>32 DEF Kept

\* the heap, the stack and the cache are mapped, one after the other
FirstHeaps == UNION {MMap([Blank EXCEPT !.upwards = up], HeapSize) : up \in BOOLEAN}
FirstStacks == UNION {MMap([h[1] EXCEPT !.heap_base = h[2]], StackPages) : h \in FirstHeaps}
FirstCaches == UNION {MMap([s[1] EXCEPT !.stack_base = s[2]], 1) : s \in FirstStacks}

\* what ik_make_pcb makes
LEMMA FirstPcbsAre ==
  FirstPcbs = UNION {FirstTables([c[1] EXCEPT !.cached_pages_base = c[2]]) : c \in FirstCaches}
  BY DEF FirstPcbs, FirstCaches, FirstStacks, FirstHeaps

\* the invariant holds at the start
LEMMA PagesStart ==
  ASSUME PagesInit
  PROVE  PagesInv
  <1>1. m \in FirstPcbs /\ gc = Off
    BY DEF PagesInit
  <1>2. PICK x : Placed(x) /\ m \in FirstTables(x)
    <2>1. PICK c \in FirstCaches : m \in FirstTables([c[1] EXCEPT !.cached_pages_base = c[2]])
      BY <1>1, FirstPcbsAre
    <2>2. PICK s \in FirstStacks : c \in MMap([s[1] EXCEPT !.stack_base = s[2]], 1)
      BY DEF FirstCaches
    <2>3. PICK h \in FirstHeaps : s \in MMap([h[1] EXCEPT !.heap_base = h[2]], StackPages)
      BY DEF FirstStacks
    <2>4. PICK up \in BOOLEAN : h \in MMap([Blank EXCEPT !.upwards = up], HeapSize)
      BY DEF FirstHeaps
    <2>5. Placed([c[1] EXCEPT !.cached_pages_base = c[2]])
      BY <2>2, <2>3, <2>4, FirstPlaced
    <2>6. QED BY <2>1, <2>5
  <1>3. Kept(m, << >>) /\ m.heap_pages = << >>
    BY <1>2, FirstTablesKept
  <1>4. FullNow = << >>
    <2>1. gc.on = FALSE
      BY <1>1 DEF Off
    <2>2. QED BY <1>3, <2>1 DEF FullNow
  <1>5. QED BY <1>1, <1>3, <1>4 DEF PagesInv

-----------------------------------------------------------------------------
(* The theorems *)

\* the invariant holds of every behaviour
THEOREM PagesInvariant == PagesSpec => []PagesInv
  <1>1. PagesInit => PagesInv
    BY PagesStart
  <1>2. PagesInv /\ [PagesNext]_pvars => PagesInv'
    BY PagesStep, PagesStutter
  <1>3. QED BY <1>1, <1>2, PTL DEF PagesSpec

\* pages that are shared out are shared out among the six owners
LEMMA OwnersShare ==
  ASSUME NEW M, NEW T, NEW C, NEW c, NEW P, NEW D, NEW S, NEW G,
         Split(M, T, C, P, G), Split(G, c, D, S, {}), NEW own, own = <<T, C, c, P, D, S>>
  PROVE  /\ UNION {own[i] : i \in DOMAIN own} = M
         /\ \A i, j \in DOMAIN own : i # j => own[i] \cap own[j] = {}
  <1>2. DOMAIN own = 1 .. 6 /\ own[1] = T /\ own[2] = C /\ own[3] = c /\ own[4] = P /\ own[5] = D /\ own[6] = S
    OBVIOUS
  <1>3. DOMAIN own = {1, 2, 3, 4, 5, 6}
    BY <1>2
  <1>4. G = (c \cup D) \cup S /\ c \cap D = {} /\ c \cap S = {} /\ D \cap S = {}
    BY DEF Split
  <1>5. /\ M = ((T \cup C) \cup P) \cup G
        /\ T \cap C = {} /\ T \cap P = {} /\ T \cap G = {} /\ C \cap P = {} /\ C \cap G = {} /\ P \cap G = {}
    BY DEF Split
  <1>6. UNION {own[i] : i \in DOMAIN own} = M
    <2>1. \A p : p \in UNION {own[i] : i \in DOMAIN own}
                 <=> p \in T \/ p \in C \/ p \in c \/ p \in P \/ p \in D \/ p \in S
      BY <1>2, <1>3
    <2>2. QED BY <1>4, <1>5, <2>1
  <1>7. \A i, j \in DOMAIN own : i # j => own[i] \cap own[j] = {}
    <2>1. /\ T \cap c = {} /\ T \cap D = {} /\ T \cap S = {}
          /\ C \cap c = {} /\ C \cap D = {} /\ C \cap S = {}
          /\ P \cap c = {} /\ P \cap D = {} /\ P \cap S = {}
      BY <1>4, <1>5
    <2>2. ASSUME NEW i \in {1, 2, 3, 4, 5, 6}, NEW j \in {1, 2, 3, 4, 5, 6}, i # j
          PROVE  own[i] \cap own[j] = {}
      <3>1. CASE i = 1
        BY <1>2, <1>4, <1>5, <2>1, <2>2, <3>1
      <3>2. CASE i = 2
        BY <1>2, <1>4, <1>5, <2>1, <2>2, <3>2
      <3>3. CASE i = 3
        BY <1>2, <1>4, <1>5, <2>1, <2>2, <3>3
      <3>4. CASE i = 4
        BY <1>2, <1>4, <1>5, <2>1, <2>2, <3>4
      <3>5. CASE i = 5
        BY <1>2, <1>4, <1>5, <2>1, <2>2, <3>5
      <3>6. CASE i = 6
        BY <1>2, <1>4, <1>5, <2>1, <2>2, <3>6
      <3>7. QED BY <2>2, <3>1, <3>2, <3>3, <3>4, <3>5, <3>6
    <2>3. QED BY <1>3, <2>2
  <1>8. QED BY <1>6, <1>7

\* what the cache says of its places
LEMMA CacheCounted ==
  ASSUME NEW x \in Pcbs, CacheFits(x)
  PROVE  Len(x.cached) = Cardinality(ToSet(x.cached)) /\ Len(x.cached) + x.uncached = CacheSize
  <1>1. PICK s : s = x.cached
    OBVIOUS
  <1>2. s \in Seq(Int) /\ Once(s)
    BY <1>1 DEF Pcbs, CacheFits, Once
  <1>3. Len(s) = Cardinality(ToSet(s))
    BY <1>2, OnceCounted
  <1>4. QED BY <1>1, <1>3 DEF CacheFits

\* while the program runs every page has one use
LEMMA KeptAccounted ==
  ASSUME NEW full, Kept(m, full)
  PROVE  PagesAccounted
  <1>1. Whole(m, {}) /\ m.deleted = FALSE
    BY DEF Kept
  <1>2. PICK G : G = Own(m) \cup {}
    OBVIOUS
  <1>3. Ledger(m, G) /\ Split(G, {m.cached_pages_base}, DirtyRun(m), SegmentRun(m), {})
    BY <1>1, <1>2 DEF Whole
  <1>4. Split(m.mapped, Typed(m), ToSet(m.cached), m.protected, G)
    BY <1>3 DEF Ledger
  <1>5. PICK M, T, C, c, P, D, S :
          /\ M = m.mapped /\ T = Typed(m) /\ C = ToSet(m.cached) /\ c = {m.cached_pages_base}
          /\ P = m.protected /\ D = DirtyRun(m) /\ S = SegmentRun(m)
    OBVIOUS
  <1>6. PICK own : own = <<T, C, c, P, D, S>>
    OBVIOUS
  <1>7. Split(M, T, C, P, G) /\ Split(G, c, D, S, {})
    BY <1>3, <1>4, <1>5
  <1>8. UNION {own[i] : i \in DOMAIN own} = M /\ \A i, j \in DOMAIN own : i # j => own[i] \cap own[j] = {}
    BY <1>6, <1>7, OwnersShare
  <1>9. own = Owners(m)
    BY <1>1, <1>5, <1>6 DEF Owners, DirtyRun, SegmentRun
  <1>10. Len(m.cached) = Cardinality(ToSet(m.cached)) /\ Len(m.cached) + m.uncached = CacheSize
    BY <1>3, CacheCounted DEF Ledger
  <1>11. m.total = Cardinality(m.mapped)
    BY <1>3 DEF Ledger
  <1>12. UNION {own[i] : i \in DOMAIN own} = m.mapped
    BY <1>5, <1>8
  <1>13. QED
    <2> HIDE DEF Owners
    <2>1. QED BY <1>8, <1>9, <1>10, <1>11, <1>12 DEF PagesAccounted

\* and in the end there is none
LEMMA GoneAccounted ==
  ASSUME Gone(m)
  PROVE  PagesAccounted
  <1>1. m \in Pcbs /\ m.deleted = TRUE /\ m.mapped = {} /\ m.total = 0 /\ CacheFits(m)
    BY DEF Gone
  <1>2. m.total = Cardinality(m.mapped)
    BY <1>1, FS_EmptySet
  <1>3. Owners(m) = << >>
    BY <1>1 DEF Owners
  <1>4. PICK own : own = Owners(m)
    OBVIOUS
  <1>5. DOMAIN own = {}
    BY <1>3, <1>4
  <1>6. UNION {own[i] : i \in DOMAIN own} = m.mapped /\ \A i, j \in DOMAIN own : i # j => own[i] \cap own[j] = {}
    BY <1>1, <1>5
  <1>7. Len(m.cached) = Cardinality(ToSet(m.cached)) /\ Len(m.cached) + m.uncached = CacheSize
    BY <1>1, CacheCounted
  <1>8. QED BY <1>2, <1>4, <1>6, <1>7 DEF PagesAccounted

\* Every page has one use, and the count of pages is right.
THEOREM PagesAreAccounted == PagesSpec => []PagesAccounted
  <1>1. PagesInv => PagesAccounted
    BY KeptAccounted, GoneAccounted DEF PagesInv
  <1>2. QED BY <1>1, PagesInvariant, PTL

\* the nursery and those before it
Heaps == <<<<m.heap_base, m.heap_size>>>> \o m.heap_pages \o (IF gc.on THEN gc.old_heap_pages ELSE << >>)

\* the full nurseries are on the list, or known to the collection
LEMMA HeapsAre ==
  ASSUME Kept(m, FullNow), gc = Off \/ Collecting(gc, m)
  PROVE  Heaps = Before(m.heap_base, m.heap_size, FullNow)
  <1>1. m.heap_pages \in Seq(Int \X Int)
    BY WholeMeasures DEF Kept, Pcbs
  <1>2. PICK b, n, h, f : b = m.heap_base /\ n = m.heap_size /\ h = m.heap_pages /\ f = FullNow
    OBVIOUS
  <1>3. PICK o : o = IF gc.on THEN gc.old_heap_pages ELSE << >>
    OBVIOUS
  <1>4. Heaps = (<<<<b, n>>>> \o h) \o o
    BY <1>2, <1>3 DEF Heaps
  <1>5. h \in Seq(Int \X Int) /\ o \in Seq(Int \X Int) /\ ((h = << >> /\ o = f) \/ (h = f /\ o = << >>))
    <2>1. CASE gc = Off
      <3>1. gc.on = FALSE
        BY <2>1 DEF Off
      <3>2. o = << >> /\ f = h
        BY <1>2, <1>3, <3>1 DEF FullNow
      <3>3. h \in Seq(Int \X Int) /\ << >> \in Seq(Int \X Int)
        BY <1>1, <1>2
      <3>4. QED BY <3>2, <3>3
    <2>2. CASE Collecting(gc, m)
      <3>1. gc.on = TRUE /\ gc.old_heap_pages \in Seq(Int \X Int)
        BY <2>2 DEF Collecting, Collections
      <3>2. h = << >>
        BY <1>2, <2>2 DEF Collecting
      <3>3. o = gc.old_heap_pages /\ f = gc.old_heap_pages
        BY <1>2, <1>3, <3>1 DEF FullNow
      <3>4. o \in Seq(Int \X Int) /\ h \in Seq(Int \X Int)
        BY <1>1, <1>2, <3>1, <3>3
      <3>5. QED BY <3>2, <3>3, <3>4
    <2>3. QED BY <2>1, <2>2
  <1>6. PICK one : one = <<<<b, n>>>>
    OBVIOUS
  <1>7. b \in Int /\ n \in Int
    BY <1>2, WholeMeasures DEF Kept, Laid, Pcbs
  <1>8. one \in Seq(Int \X Int) /\ h \in Seq(Int \X Int) /\ o \in Seq(Int \X Int)
    BY <1>5, <1>6, <1>7
  <1>9. (one \o h) \o o = one \o f
    <2>1. CASE h = << >> /\ o = f
      BY <1>8, <2>1
    <2>2. CASE h = f /\ o = << >>
      <3>1. one \o h \in Seq(Int \X Int)
        BY <1>8
      <3>2. (one \o h) \o << >> = one \o h
        BY <3>1
      <3>3. QED BY <2>2, <3>2
    <2>3. QED BY <1>5, <2>1, <2>2
  <1>10. QED BY <1>2, <1>4, <1>6, <1>9 DEF Before

\* while the program runs the tables are right
LEMMA TablesSay ==
  ASSUME Kept(m, FullNow), gc = Off \/ Collecting(gc, m)
  PROVE  TablesKept
  <1>1. Whole(m, {}) /\ Clean(m) /\ Laid(m, FullNow) /\ m.failed = FALSE
    BY DEF Kept
  <1>2. m \in Pcbs
    BY <1>1, WholeMeasures
  <1>3. PICK x, full : x = m /\ full = Before(m.heap_base, m.heap_size, FullNow)
    OBVIOUS
  <1>4. full = Heaps /\ Areal(full) /\ AllRuns(full) = OfType(x, "mainheap")
    <2>1. PICK b, n, f : b = m.heap_base /\ n = m.heap_size /\ f = FullNow
      OBVIOUS
    <2>2. b \in Int /\ n \in Nat /\ Areal(f) /\ Fresh(Run(b, n), AllRuns(f))
      BY <1>1, <1>2, <2>1 DEF Laid, Pcbs
    <2>3. full = Before(b, n, f) /\ OfType(x, "mainheap") = Run(b, n) \cup AllRuns(f)
      BY <1>1, <1>3, <2>1 DEF Laid
    <2>4. QED BY <1>3, <2>2, <2>3, AreaBefore, HeapsAre
  <1>5. DOMAIN full = 1 .. Len(full)
    BY <1>4 DEF Areal
  <1>6. UNION {Run(full[i][1], full[i][2]) : i \in DOMAIN full} = {p \in Covered(m) : Entry(m, p).type = "mainheap"}
    <2>1. UNION {Run(full[i][1], full[i][2]) : i \in DOMAIN full} = OfType(x, "mainheap")
      BY <1>4, <1>5 DEF AllRuns, Runs
    <2>2. QED BY <1>3, <2>1, TypedIs
  <1>7. Run(m.stack_base, StackPages) = {p \in Covered(m) : Entry(m, p).type = "mainstack"}
    BY <1>1, TypedIs DEF Laid
  <1>8. \A p \in Covered(m) : Entry(m, p).dirty => Entry(m, p).type = "objects"
    BY <1>1 DEF Clean, Now
  <1>9. gc.on => /\ gc.segment_vector = TableNow(m)
                 /\ gc.scan # "over" => gc.segment_vec = TableNow(m)
                 /\ gc.scan = "pages" => gc.dirty_vec = DirtyNow(m)
    BY DEF Off, Collecting, Scanning
  <1>10. \A r : r = full =>
           UNION {Run(r[i][1], r[i][2]) : i \in DOMAIN r} = {p \in Covered(m) : Entry(m, p).type = "mainheap"}
    BY <1>6
  <1>11. UNION {Run(Heaps[i][1], Heaps[i][2]) : i \in DOMAIN Heaps}
           = {p \in Covered(m) : Entry(m, p).type = "mainheap"}
    <2> HIDE DEF Heaps
    <2>1. QED BY <1>4, <1>10
  <1>12. m.failed = FALSE
    BY <1>1
  <1>13. QED BY <1>7, <1>8, <1>9, <1>11, <1>12 DEF TablesKept, Heaps

\* and in the end there are none
LEMMA GoneTables ==
  ASSUME Gone(m), gc = Off
  PROVE  TablesKept
  BY DEF Gone, Off, TablesKept

\* The tables say of every page what it is.
THEOREM TablesAreKept == PagesSpec => []TablesKept
  <1>1. PagesInv => TablesKept
    BY TablesSay, GoneTables DEF PagesInv
  <1>2. QED BY <1>1, PagesInvariant, PTL

=============================================================================
