----------------------------- MODULE Collector -----------------------------
(***************************************************************************)
(* The generational copying collector of the Ikarus runtime                *)
(* (src/src/ikarus-collect.c) together with the mutator operations that    *)
(* bear on it: allocation, the write barrier the compiler emits, weak      *)
(* pairs, and guardian registration.                                       *)
(*                                                                         *)
(* Memory is a set of object addresses, each on one page and one card of   *)
(* that page.  A page has a type, a generation and the "new" bit that      *)
(* marks the pages filled by the collection in progress (segment_vector),  *)
(* and per card the set of generations younger than the page that the card *)
(* may point to (the nibbles of dirty_vector, bit 8>>g read as g).         *)
(* Objects have two pointer fields; one field stands for any number.       *)
(*                                                                         *)
(* A pointer is stored at a location: a field of an object, a root, or an  *)
(* entry of a protected list.  add_object is one step, applied to one      *)
(* location; ik_collect is the sequence of its phases.                     *)
(***************************************************************************)
EXTENDS Integers, FiniteSets

CONSTANTS
  Addr,         \* addresses at which an object can be placed
  Page,         \* page indexes, numbered in address order
  Card,         \* cards of a page
  PageOf,       \* page of an address (page_index)
  CardOf,       \* card of an address within its page
  Root,         \* stack slots, next_k, symbol_table, arg_list, root0, ...
  Entry,        \* slots of the protected lists (ik_ptr_page)
  Object,       \* object identities: what survives a copy
  KindOf,       \* kind of an object: its tag, and what it is used for
  MaxGen,       \* generation_count - 1
  Mask,         \* Mask[g]: the low bits of collection_id that select g
  MaxObjects,   \* bound: objects allocated when the program allocates
  Used,         \* bound: Used[k], the fields of a k the program writes
  Nil, Bwp, Forward,  \* any immediate; bwp_object; forward_ptr
  NoObject      \* no object at this address

Gen == 0 .. MaxGen
CarCdr == {"car", "cdr"}
Field == Addr \X CarCdr
RootLoc == Root \X {"root"}
EntryLoc == Entry \X {"entry"}
Loc == Field \cup RootLoc \cup EntryLoc
Value == Addr \cup {Nil, Bwp, Forward}

\* "pair" and "weak" are pairs; "vector" is a vector of a page or more;
\* "tconc" and "cell" are the pairs of a guardian's queue, which the
\* program reaches only through the guardian.
Kind == {"pair", "weak", "vector", "tconc", "cell"}
UserKind == {"pair", "weak", "vector"}
PageType == {"hole", "mainheap", "pointers", "large", "weak_pairs"}
Scannable == {"pointers", "large", "weak_pairs"}

ASSUME ConstantsAssumption ==
  /\ MaxGen \in Nat
  /\ Page \subseteq Nat
  /\ PageOf \in [Addr -> Page]
  /\ CardOf \in [Addr -> Card]
  /\ {Nil, Bwp, Forward} \cap Addr = {}
  /\ Nil # Forward /\ Bwp # Forward
  /\ Addr \cap Root = {} /\ Addr \cap Entry = {} /\ Root \cap Entry = {}
  /\ NoObject \notin Object
  /\ Mask \in [Gen -> Nat]
  /\ KindOf \in [Object -> Kind]
  /\ MaxObjects \in Nat
  /\ Used \in [UserKind -> SUBSET CarCdr]

VARIABLES
  phase,          \* what ik_collect is doing; "mutator" outside of it
  collect_gen,    \* gc->collect_gen
  collection_id,  \* pcb->collection_id, modulo Mask[MaxGen]+1
  type, gen, new, \* the segment vector: per page
  dirty,          \* the dirty vector: per page and card, a set of generations
  object,         \* per address: the identity of the object placed there
  ref,            \* per location: the value stored there
  scan,           \* pages scan_dirty_pages has still to visit
  page,           \* the page it is visiting ({} or a singleton)
  todo,           \* locations the current phase has still to visit
  queue,          \* fields of the objects moved but not yet scanned (queues[])
  protected,      \* pcb->protected_list, per generation
  pend_hold, pend_final, forward_list  \* lists of handle_guardians

seg_vars == <<type, gen, new>>
mem_vars == <<object, ref>>
guardian_vars == <<protected, pend_hold, pend_final, forward_list>>
gc_vars == <<phase, collect_gen, collection_id, scan, page, todo, queue>>
vars == <<gc_vars, seg_vars, dirty, mem_vars, guardian_vars>>

-----------------------------------------------------------------------------
(* The segment and dirty vectors *)

Allocated(a) == object[a] # NoObject
Car(a) == ref[<<a, "car">>]
Cdr(a) == ref[<<a, "cdr">>]
Fields(a) == {<<a, "car">>, <<a, "cdr">>}
GenOf(a) == gen[PageOf[a]]

DirtyGens == Gen \ {MaxGen}
NoBits == [c \in Card |-> {}]
AllBits == [c \in Card |-> DirtyGens]

\* the nibble a page of generation g contributes to a card pointing to it: the
\* words of generation 0 have none, and the last generation needs none
MetaDirty(g) == {g} \ {0, MaxGen}
\* the bits that make a collection of generation g scan a card
DirtyMask(g) == IF g = MaxGen THEN {} ELSE 0 .. g
\* the bits a card of a page of generation g may carry
CleanupMaskShifted(g) == {h \in Gen : h + 1 < g}    \* wrong: off by one
CleanupMask(g) == {h \in Gen : h < g}

NextGen(g) == IF g = MaxGen THEN g ELSE g + 1

\* t & gen_mask <= collect_gen: the new bit makes a page look older than all
Collected(p) == ~new[p] /\ gen[p] <= collect_gen

Forwarded(a) == Car(a) = Forward

\* is_live
IsLiveUnmoved(x) == x \in Addr => ~Collected(PageOf[x])    \* wrong: what moved is dead
IsLive(x) == x \in Addr => Forwarded(x) \/ ~Collected(PageOf[x])

\* collection_id_to_gen
Selects(id, g) == g = 0 \/ id % (Mask[g] + 1) = Mask[g]
IsCollectGenReversed(id, g) ==    \* wrong: the tests in the opposite order
  Selects(id, g) /\ \A h \in Gen : 0 < h /\ h < g => ~Selects(id, h)
IsCollectGen(id, g) == Selects(id, g) /\ \A h \in Gen : h > g => ~Selects(id, h)

-----------------------------------------------------------------------------
(* Allocation.  Slots are taken in address order: a page of the right type *)
(* with room left, else a hole.                                            *)

Free(a) == ~Allocated(a)
Holes == {p \in Page : type[p] = "hole"}

\* where an object may go: on an open page of type t and generation g, or
\* on a page newly mapped; a large vector has its pages for itself
Room(t, g, fresh) ==
  LET open == IF t = "large" THEN {} ELSE
        {a \in Addr : /\ Free(a)
                      /\ type[PageOf[a]] = t
                      /\ gen[PageOf[a]] = g
                      /\ new[PageOf[a]] = fresh}
  IN  IF open # {} THEN open ELSE {a \in Addr : PageOf[a] \in Holes}

Slot(t, g, fresh) == CHOOSE a \in Room(t, g, fresh) : TRUE

\* the page of a becomes a page of type t (ik_mmap_typed, set_segment_type)
MapPage(a, t, g, fresh) ==
  /\ type' = [type EXCEPT ![PageOf[a]] = t]
  /\ gen' = [gen EXCEPT ![PageOf[a]] = g]
  /\ new' = [new EXCEPT ![PageOf[a]] = fresh]

\* ik_munmap_from_segment of the pages in ps
Unmap(ps) ==
  /\ type' = [p \in Page |-> IF p \in ps THEN "hole" ELSE type[p]]
  /\ gen' = [p \in Page |-> IF p \in ps THEN 0 ELSE gen[p]]
  /\ dirty' = [p \in Page |-> IF p \in ps THEN NoBits ELSE dirty[p]]
  /\ object' = [a \in Addr |-> IF PageOf[a] \in ps THEN NoObject ELSE object[a]]
  /\ ref' = [l \in Loc |-> IF l \in Field /\ PageOf[l[1]] \in ps
                           THEN Nil ELSE ref[l]]

-----------------------------------------------------------------------------
(* The program *)

Handle(r) == ref[<<r, "root">>]
KindAt(a) == KindOf[object[a]]
Instances(k) == {a \in Addr : Allocated(a) /\ KindAt(a) = k}
Handles == ({Handle(r) : r \in Root} \ Instances("cell")) \cup {Nil}
UserHandle(r) == Handle(r) \in Addr /\ KindAt(Handle(r)) \in UserKind

Mutating == phase = "mutator" /\ UNCHANGED gc_vars

\* objects allocated by the program are put in generation 0: weak pairs on
\* pages of their own (ikrt_weak_cons), the rest on the main heap
HeapType(k) == IF k = "weak" THEN "weak_pairs" ELSE "mainheap"

Unused(k) == {o \in Object : KindOf[o] = k /\ \A a \in Addr : object[a] # o}
Fresh(k) == CHOOSE o \in Unused(k) : TRUE

\* allocate an object with these fields and store it at location l
Place(k, u, v, l) ==
  /\ Cardinality({a \in Addr : Allocated(a)}) < MaxObjects
  /\ Room(HeapType(k), 0, FALSE) # {}
  /\ Unused(k) # {}
  /\ LET a == Slot(HeapType(k), 0, FALSE) IN
       /\ MapPage(a, HeapType(k), 0, FALSE)
       /\ object' = [object EXCEPT ![a] = Fresh(k)]
       /\ ref' = [ref EXCEPT ![<<a, "car">>] = u, ![<<a, "cdr">>] = v, ![l] = a]
  /\ UNCHANGED dirty

\* cons, weak-cons, make-vector
Allocate(r) ==
  /\ Mutating
  /\ \E k \in UserKind, u, v \in Handles :
       /\ u # Nil => "car" \in Used[k]
       /\ v # Nil => "cdr" \in Used[k]
       /\ Place(k, u, v, <<r, "root">>)
  /\ UNCHANGED guardian_vars

\* the write barrier: dirty_vector[page_index(addr)] = -1, left out only when
\* the value is an immediate (smart-dirty-vector-set, mem-assign)
StoreUnrecorded(a, f, v) ==    \* wrong: no write barrier
  ref' = [ref EXCEPT ![<<a, f>>] = v] /\ UNCHANGED dirty
Store(a, f, v) ==
  /\ ref' = [ref EXCEPT ![<<a, f>>] = v]
  /\ dirty' = IF v \in Addr THEN [dirty EXCEPT ![PageOf[a]] = AllBits] ELSE dirty

\* set-car!, set-cdr!, vector-set!
SetField(r) ==
  /\ Mutating
  /\ UserHandle(r)
  /\ \E f \in Used[KindAt(Handle(r))], v \in Handles : Store(Handle(r), f, v)
  /\ UNCHANGED <<seg_vars, object, guardian_vars>>

\* car, cdr, vector-ref
Load(r) ==
  /\ Mutating
  /\ \E q \in Root, f \in CarCdr :
       /\ UserHandle(q)
       /\ f \in Used[KindAt(Handle(q))]
       /\ ref' = [ref EXCEPT ![<<r, "root">>] = ref[<<Handle(q), f>>]]
  /\ UNCHANGED <<seg_vars, dirty, object, guardian_vars>>

\* a variable goes out of scope
Drop(r) ==
  /\ Mutating
  /\ ref' = [ref EXCEPT ![<<r, "root">>] = Nil]
  /\ UNCHANGED <<seg_vars, dirty, object, guardian_vars>>

\* make-guardian: (cons #f #f), then (cons x x).  Only a collection may come
\* between the two.
Making == \E r \in Root : Handle(r) \in Instances("cell")

MakeCell(r) ==
  /\ Mutating
  /\ Unused("tconc") # {}    \* bound: the guardians there can be
  /\ Place("cell", Nil, Nil, <<r, "root">>)
  /\ UNCHANGED guardian_vars

MakeTconc(r) ==
  /\ Mutating
  /\ Handle(r) \in Instances("cell")
  /\ Place("tconc", Handle(r), Handle(r), <<r, "root">>)
  /\ UNCHANGED guardian_vars

Registered == UNION {protected[g] : g \in Gen}
NextEntry == CHOOSE e \in Entry \ Registered : TRUE

\* (guardian obj): ikrt_register_guardian_pair of (cons tc obj)
Register(r) ==
  /\ Mutating
  /\ Handle(r) \in Instances("tconc")
  /\ \E e \in Entry \ Registered, v \in Handles :
       /\ e = NextEntry
       /\ Place("cell", Handle(r), v, <<e, "entry">>)
       /\ protected' = [protected EXCEPT ![0] = @ \cup {e}]
  /\ UNCHANGED <<pend_hold, pend_final, forward_list>>

\* (guardian): dequeue.  tc is dirtied by set-car!; the cell gets immediates.
Dequeue(r) ==
  LET tc == Handle(r)
      x == Car(tc)
  IN
  /\ Mutating
  /\ tc \in Instances("tconc")
  /\ x # Cdr(tc) /\ x \in Addr
  /\ \E q \in Root :
       ref' = [ref EXCEPT ![<<tc, "car">>] = Cdr(x), ![<<x, "car">>] = Nil,
                          ![<<x, "cdr">>] = Nil, ![<<q, "root">>] = Car(x)]
  /\ dirty' = [dirty EXCEPT ![PageOf[tc]] = AllBits]
  /\ UNCHANGED <<seg_vars, object, guardian_vars>>

Program ==
  /\ phase = "mutator"
  /\ \E r \in Root :
       \/ MakeTconc(r)
       \/ ~Making /\ (\/ Allocate(r) \/ SetField(r) \/ Load(r) \/ Drop(r)
                      \/ MakeCell(r) \/ Register(r) \/ Dequeue(r))

-----------------------------------------------------------------------------
(* add_object, applied to the value at location l.  What is not collected   *)
(* stays; what has moved is replaced by its copy; a large vector is         *)
(* promoted in place by retagging its page; anything else is copied to a    *)
(* page of the target generation and its fields are queued.  The car of a   *)
(* weak pair is not: collect_loop never scans a weak pair.                  *)

\* the page type of the copy of x
CopyTypeByTag(x) ==    \* wrong: the tag does not tell a weak pair from a pair
  IF KindAt(x) = "vector" THEN "large" ELSE "pointers"
CopyType(x) ==
  IF type[PageOf[x]] = "weak_pairs" THEN "weak_pairs"
  ELSE IF KindAt(x) = "vector" THEN "large"
  ELSE "pointers"

Scanned(a, t) == IF t = "weak_pairs" THEN {<<a, "cdr">>} ELSE Fields(a)

KeepObjectQueued(l, x) ==    \* wrong: gc->queues is not reset
  /\ x \in Addr => ~Forwarded(x) /\ ~Collected(PageOf[x])
  /\ UNCHANGED <<ref, object, seg_vars, queue>>
KeepObject(l, x) ==
  /\ x \in Addr => ~Forwarded(x) /\ ~Collected(PageOf[x])
  /\ UNCHANGED <<ref, object, seg_vars>>
  /\ queue' = queue \ {l}

FollowObject(l, x) ==
  /\ x \in Addr /\ Forwarded(x)
  /\ ref' = [ref EXCEPT ![l] = Cdr(x)]
  /\ queue' = queue \ {l}
  /\ UNCHANGED <<object, seg_vars>>

MustMove(x) == x \in Addr /\ ~Forwarded(x) /\ Collected(PageOf[x])

\* enqueue_large_ptr
RetagObject(l, x) ==
  /\ MustMove(x) /\ type[PageOf[x]] = "large"
  /\ MapPage(x, "large", NextGen(collect_gen), TRUE)
  /\ queue' = (queue \ {l}) \cup Fields(x)
  /\ UNCHANGED <<ref, object>>

CopyObject(l, x) ==
  LET t == CopyType(x)
      g == NextGen(collect_gen)
      y == Slot(t, g, TRUE)
  IN
  /\ MustMove(x) /\ type[PageOf[x]] # "large"
  /\ Room(t, g, TRUE) # {}
  /\ MapPage(y, t, g, TRUE)
  /\ object' = [object EXCEPT ![y] = object[x]]
  /\ ref' = [ref EXCEPT ![<<y, "car">>] = Car(x), ![<<y, "cdr">>] = Cdr(x),
                        ![<<x, "car">>] = Forward, ![<<x, "cdr">>] = y,
                        ![l] = y]
  /\ queue' = (queue \ {l}) \cup Scanned(y, t)

AddObject(l) ==
  LET x == ref[l] IN
  KeepObject(l, x) \/ FollowObject(l, x) \/ RetagObject(l, x) \/ CopyObject(l, x)

-----------------------------------------------------------------------------
(* ik_collect *)

\* ik_collect is called when the main heap is exhausted
StartCollection ==
  /\ phase = "mutator"
  /\ phase' = "scan_dirty_pages"
  /\ \E g \in Gen : IsCollectGen(collection_id, g) /\ collect_gen' = g
  /\ collection_id' = (collection_id + 1) % (Mask[MaxGen] + 1)
  /\ scan' = Page
  /\ UNCHANGED <<page, todo, queue, seg_vars, dirty, mem_vars, guardian_vars>>

\* scan_dirty_pages visits the dirty scannable pages in address order
IsDirty(p, c) == dirty[p][c] \cap DirtyMask(collect_gen) # {}
MustVisit(p) ==
  /\ \E c \in Card : IsDirty(p, c)
  /\ ~Collected(p)
  /\ type[p] \in Scannable

\* the pages after p
After(p) == {q \in scan : q > p}

OnCard(l, p, c) == l \in Field /\ PageOf[l[1]] = p /\ CardOf[l[1]] = c

VisitPage ==
  /\ phase = "scan_dirty_pages" /\ page = {}
  /\ \E p \in scan :
       /\ MustVisit(p)
       /\ \A q \in scan : MustVisit(q) => p <= q
       /\ page' = {p}
       /\ scan' = After(p)
       /\ todo' = {l \in Field : \E c \in Card : OnCard(l, p, c) /\ IsDirty(p, c)}
  /\ UNCHANGED <<phase, collect_gen, collection_id, queue, seg_vars, dirty,
                 mem_vars, guardian_vars>>

\* the nibble of a card after its pointers have been added
NewNibble(p, c) ==
  IF IsDirty(p, c)
  THEN UNION {MetaDirty(GenOf(ref[l])) :
                l \in {m \in Field : OnCard(m, p, c) /\ ref[m] \in Addr}}
  ELSE dirty[p][c]

\* new_d & cleanup_mask[t & gen_mask].  The new bit takes part in the index:
\* a large vector retagged earlier in this scan has an index past the end of
\* the table, and the word read there may be anything.
FinishPage ==
  /\ phase = "scan_dirty_pages" /\ todo = {}
  /\ \E p \in page, m \in SUBSET DirtyGens :
       /\ ~new[p] => m = CleanupMask(gen[p]) \ {MaxGen}
       /\ dirty' = [dirty EXCEPT ![p] = [c \in Card |-> NewNibble(p, c) \cap m]]
  /\ page' = {}
  /\ UNCHANGED <<phase, collect_gen, collection_id, scan, todo, queue,
                 seg_vars, mem_vars, guardian_vars>>

EndScan ==
  /\ phase = "scan_dirty_pages" /\ page = {}
  /\ \A p \in scan : ~MustVisit(p)
  /\ scan' = {}
  /\ phase' = "roots"
  /\ todo' = RootLoc
  /\ UNCHANGED <<collect_gen, collection_id, page, queue, seg_vars, dirty,
                 mem_vars, guardian_vars>>

\* the locations visited directly: dirty cards, roots, guardian lists
VisitLocation ==
  /\ todo # {}
  /\ LET l == CHOOSE m \in todo : TRUE IN
       AddObject(l) /\ todo' = todo \ {l}
  /\ UNCHANGED <<phase, collect_gen, collection_id, scan, page, dirty,
                 guardian_vars>>

EndRoots ==
  /\ phase = "roots" /\ todo = {}
  /\ phase' = "collect_loop"
  /\ UNCHANGED <<collect_gen, collection_id, scan, page, todo, queue, seg_vars,
                 dirty, mem_vars, guardian_vars>>

\* collect_loop, after the roots and after each pass over the guardians
Looping == phase \in {"collect_loop", "final_list", "hold_list"} /\ todo = {}

CollectLoop ==
  /\ Looping
  /\ queue # {}
  /\ AddObject(CHOOSE m \in queue : TRUE)
  /\ UNCHANGED <<phase, collect_gen, collection_id, scan, page, todo, dirty,
                 guardian_vars>>

Traced == Looping /\ queue = {}

\* the registered pair, looked up through its forwarding pointer
PairOf(e) == LET p == ref[<<e, "entry">>] IN IF Forwarded(p) THEN Cdr(p) ELSE p
TconcOf(e) == Car(PairOf(e))
ObjectOf(e) == Cdr(PairOf(e))
EntriesOf(es) == es \X {"entry"}

\* handle_guardians, first loop: sort the lists of the collected generations
SortGuardians ==
  LET es == UNION {protected[g] : g \in 0 .. collect_gen}
      held == {e \in es : IsLive(ObjectOf(e))}
  IN
  /\ phase = "collect_loop" /\ Traced
  /\ phase' = "guardians"
  /\ protected' = [g \in Gen |-> IF g <= collect_gen THEN {} ELSE protected[g]]
  /\ pend_hold' = held
  /\ pend_final' = es \ held
  /\ forward_list' = {}
  /\ UNCHANGED <<collect_gen, collection_id, scan, page, todo, queue, seg_vars,
                 dirty, mem_vars>>

FinalListOnce ==    \* wrong: one turn of the loop only
  IF forward_list = {} THEN {e \in pend_final : IsLive(TconcOf(e))} ELSE {}
FinalList == {e \in pend_final : IsLive(TconcOf(e))}

\* second loop, one turn: pairs whose tconc is live are kept for delivery
FinalGuardians ==
  /\ phase = "guardians"
  /\ FinalList # {}
  /\ phase' = "final_list"
  /\ pend_final' = pend_final \ FinalList
  /\ forward_list' = forward_list \cup FinalList
  /\ todo' = EntriesOf(FinalList)
  /\ UNCHANGED <<collect_gen, collection_id, scan, page, queue, seg_vars, dirty,
                 mem_vars, protected, pend_hold>>

FinalListTraced ==
  /\ phase = "final_list" /\ Traced
  /\ phase' = "guardians"
  /\ UNCHANGED <<collect_gen, collection_id, scan, page, todo, queue, seg_vars,
                 dirty, mem_vars, guardian_vars>>

\* the protected list the pairs kept on hold go to
HoldGenSame == collect_gen    \* wrong: the pairs themselves are promoted
HoldGen == NextGen(collect_gen)

\* last loop: what is left of pend_final is dropped, the live part of
\* pend_hold moves to the list of the next generation
HoldGuardians ==
  LET held == {e \in pend_hold : IsLive(TconcOf(e))} IN
  /\ phase = "guardians"
  /\ FinalList = {}
  /\ phase' = "hold_list"
  /\ pend_final' = {}
  /\ pend_hold' = {}
  /\ protected' = [protected EXCEPT ![HoldGen] = @ \cup held]
  /\ todo' = EntriesOf(held)
  /\ ref' = [l \in Loc |->
               IF l \in EntriesOf((pend_hold \cup pend_final) \ held)
               THEN Nil ELSE ref[l]]
  /\ UNCHANGED <<collect_gen, collection_id, scan, page, queue, seg_vars, dirty,
                 object, forward_list>>

\* fix_weak_pointers: the cars of the weak pairs on new pages
FixedCarUnfollowed(x) ==    \* wrong: a copied referent is taken for a dead one
  IF x \in Addr /\ Collected(PageOf[x]) THEN Bwp ELSE x
FixedCarYoungest(x) ==    \* wrong: only generation 0 is taken to be collected
  IF x \notin Addr THEN x
  ELSE IF Forwarded(x) THEN Cdr(x)
  ELSE IF Collected(PageOf[x]) /\ gen[PageOf[x]] = 0 THEN Bwp
  ELSE x
FixedCar(x) ==
  IF x \notin Addr THEN x
  ELSE IF Forwarded(x) THEN Cdr(x)
  ELSE IF Collected(PageOf[x]) THEN Bwp
  ELSE x

IsWeakCar(l) ==
  /\ l \in Field /\ l[2] = "car"
  /\ type[PageOf[l[1]]] = "weak_pairs"

FixWeakPointers ==
  /\ phase = "hold_list" /\ Traced
  /\ phase' = "deallocate_unused_pages"
  /\ ref' = [l \in Loc |-> IF IsWeakCar(l) /\ new[PageOf[l[1]]]
                           THEN FixedCar(ref[l]) ELSE ref[l]]
  /\ UNCHANGED <<collect_gen, collection_id, scan, page, todo, queue, seg_vars,
                 dirty, object, guardian_vars>>

UnusedPagesYounger ==    \* wrong: < for <=
  {p \in Page : type[p] \in Scannable /\ ~new[p] /\ gen[p] < collect_gen}
UnusedPages == {p \in Page : type[p] \in Scannable /\ Collected(p)}

\* deallocate_unused_pages: dealloc_mask is clear for the main heap and holes
DeallocateUnusedPages ==
  /\ phase = "deallocate_unused_pages"
  /\ phase' = "fix_new_pages"
  /\ Unmap(UnusedPages)
  /\ UNCHANGED <<collect_gen, collection_id, scan, page, todo, queue, new,
                 guardian_vars>>

FixNewPages ==
  /\ phase = "fix_new_pages"
  /\ phase' = "gc_finalize_guardians"
  /\ new' = [p \in Page |-> FALSE]
  /\ UNCHANGED <<collect_gen, collection_id, scan, page, todo, queue, type, gen,
                 dirty, mem_vars, guardian_vars>>

\* what gc_finalize_guardians dirties: the pages it stores to
DirtiedByDelivery(tc, last_pair) ==
  [dirty EXCEPT ![PageOf[tc]] = AllBits, ![PageOf[last_pair]] = AllBits]

\* gc_finalize_guardians, one pair: the object is put at the end of the tconc
\* and the pair becomes the new end of the queue.  Were one of the three not a
\* pair the code would fault, and the model stop.
FinalizeGuardian ==
  /\ phase = "gc_finalize_guardians"
  /\ \E e \in forward_list :
       LET p == ref[<<e, "entry">>]
           tc == Car(p)
           last_pair == Cdr(tc)
       IN
       /\ {p, tc, last_pair} \subseteq Addr
       /\ ref' = [ref EXCEPT ![<<last_pair, "car">>] = Cdr(p),
                             ![<<last_pair, "cdr">>] = p,
                             ![<<p, "car">>] = Nil, ![<<p, "cdr">>] = Nil,
                             ![<<tc, "cdr">>] = p,
                             ![<<e, "entry">>] = Nil]
       /\ dirty' = DirtiedByDelivery(tc, last_pair)
       /\ forward_list' = forward_list \ {e}
  /\ UNCHANGED <<gc_vars, seg_vars, object, protected, pend_hold, pend_final>>

\* allocation_pointer = heap_base; the old heap pages are unmapped
ResetHeap ==
  /\ phase = "gc_finalize_guardians"
  /\ forward_list = {}
  /\ phase' = "mutator"
  /\ Unmap({p \in Page : type[p] = "mainheap"})
  /\ UNCHANGED <<collect_gen, collection_id, scan, page, todo, queue, new,
                 guardian_vars>>

CollectorStep ==
  \/ VisitPage \/ FinishPage \/ EndScan \/ EndRoots
  \/ VisitLocation \/ CollectLoop
  \/ SortGuardians \/ FinalGuardians \/ FinalListTraced \/ HoldGuardians
  \/ FixWeakPointers \/ DeallocateUnusedPages \/ FixNewPages
  \/ FinalizeGuardian \/ ResetHeap

-----------------------------------------------------------------------------

Init ==
  /\ phase = "mutator"
  /\ collect_gen = 0
  /\ collection_id = 0
  /\ type = [p \in Page |-> "hole"]
  /\ gen = [p \in Page |-> 0]
  /\ new = [p \in Page |-> FALSE]
  /\ dirty = [p \in Page |-> NoBits]
  /\ object = [a \in Addr |-> NoObject]
  /\ ref = [l \in Loc |-> Nil]
  /\ scan = {} /\ page = {} /\ todo = {} /\ queue = {}
  /\ protected = [g \in Gen |-> {}]
  /\ pend_hold = {} /\ pend_final = {} /\ forward_list = {}

Next == Program \/ StartCollection \/ CollectorStep

Spec == Init /\ [][Next]_vars /\ WF_vars(CollectorStep)

-----------------------------------------------------------------------------
(* Properties *)

Phase == {"mutator", "scan_dirty_pages", "roots", "collect_loop", "guardians",
          "final_list", "hold_list", "deallocate_unused_pages",
          "fix_new_pages", "gc_finalize_guardians"}

\* Every variable has its type.
TypeOK ==
  /\ phase \in Phase
  /\ collect_gen \in Gen
  /\ collection_id \in Nat
  /\ type \in [Page -> PageType]
  /\ gen \in [Page -> Gen]
  /\ new \in [Page -> BOOLEAN]
  /\ dirty \in [Page -> [Card -> SUBSET Gen]]
  /\ object \in [Addr -> Object \cup {NoObject}]
  /\ ref \in [Loc -> Value]
  /\ scan \in SUBSET Page
  /\ page \in SUBSET Page
  /\ todo \in SUBSET Loc
  /\ queue \in SUBSET Loc
  /\ protected \in [Gen -> SUBSET Entry]
  /\ pend_hold \in SUBSET Entry
  /\ pend_final \in SUBSET Entry
  /\ forward_list \in SUBSET Entry

\* the locations the program or a later collection reads
Held == {l \in Field : Allocated(l[1])} \cup RootLoc \cup EntriesOf(Registered)

\* No pointer dangles: once a collection is over, whatever the program or a
\* later collection can follow leads to an object that is there and was not
\* left behind by a copy, whichever generations were collected.
NoDangling ==
  phase = "mutator" =>
    \A l \in Held : ref[l] \in Addr => Allocated(ref[l]) /\ ~Forwarded(ref[l])

\* The remembered set is complete: between collections a pointer from an
\* object to one of a younger generation has that generation's bit on its
\* card, so each collection that moves the younger object scans the card.
RememberedSet ==
  phase = "mutator" =>
    \A l \in Field :
      LET a == l[1] IN
      Allocated(a) /\ ref[l] \in Addr /\ GenOf(ref[l]) < GenOf(a)
        => GenOf(ref[l]) \in dirty[PageOf[a]][CardOf[a]]

\* An object is never split: all pointers to it lead to its one copy, so eq?
\* means the same before and after a collection.
OneCopy ==
  phase = "mutator" =>
    \A a, b \in Addr : Allocated(a) /\ object[a] = object[b] => a = b

\* A weak pair stays a weak pair, and a strong pair strong, across copies.
WeakPairsApart ==
  \A a \in Addr : Allocated(a) =>
    (type[PageOf[a]] = "weak_pairs" <=> KindAt(a) = "weak")

\* A registered pair is on the protected list of the generation it lives in,
\* so the collection that moves the pair is the one that looks at its entry.
ProtectedGeneration ==
  phase = "mutator" =>
    \A g \in Gen : \A e \in protected[g] : GenOf(ref[<<e, "entry">>]) = g

\* The pages scanned as roots are not collected in the run that scans them.
ScannedPagesNotCollected == \A p \in page : ~new[p]

\* Every collection comes to its end.
CollectionEnds == phase # "mutator" ~> phase = "mutator"

=============================================================================
