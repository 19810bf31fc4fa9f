-------------------------- MODULE CollectorProofs --------------------------
(***************************************************************************)
(* Proofs about Collector, for every heap, every number of generations and *)
(* every choice of slot, object and order of visit: every step of          *)
(* ik_collect and of the program keeps IInv, and from it no pointer        *)
(* dangles, the remembered set is complete, an object has one copy, weak   *)
(* pairs keep their pages, and the pairs a guardian protects are on the    *)
(* list of their generation.  In the second half, the refinement of Heap.  *)
(***************************************************************************)
EXTENDS CollectorHeap, CollectorInvariant, SequenceFacts, TLAPS

-----------------------------------------------------------------------------
(* Types *)

\* Following a field of an address, or reading a root, yields a value.
LEMMA RefValue ==
  ASSUME TypeOK
  PROVE  /\ \A a \in Addr : /\ Car(a) \in Value /\ Cdr(a) \in Value
                            /\ <<a, "car">> \in Loc /\ <<a, "cdr">> \in Loc
         /\ \A r \in Root : Handle(r) \in Value /\ <<r, "root">> \in Loc
         /\ \A l \in Loc : ref[l] \in Value
         /\ \A e \in Entry : <<e, "entry">> \in Loc
  BY DEF TypeOK, Loc, Field, CarCdr, RootLoc, EntryLoc, Car, Cdr, Handle

\* What the program holds in its roots is a value.
LEMMA HandlesValue ==
  ASSUME TypeOK
  PROVE  Handles \subseteq Value
  BY RefValue DEF Handles, Value

\* next_gen stays within the generations.
LEMMA NextGenType ==
  ASSUME NEW g \in Gen
  PROVE  NextGen(g) \in Gen
  BY ConstantsAssumption DEF NextGen, Gen

\* A slot is chosen among the addresses there is room at.
LEMMA SlotType ==
  ASSUME NEW t, NEW g, NEW fresh, Room(t, g, fresh) # {}
  PROVE  /\ Slot(t, g, fresh) \in Room(t, g, fresh)
         /\ Slot(t, g, fresh) \in Addr
  <1>1. Slot(t, g, fresh) \in Room(t, g, fresh)
    BY DEF Slot
  <1>2. Room(t, g, fresh) \subseteq Addr
    BY DEF Room
  <1> QED BY <1>1, <1>2

\* Mapping a page keeps the segment vector well typed.
LEMMA MapPageType ==
  ASSUME TypeOK, NEW a \in Addr, NEW t \in PageType, NEW g \in Gen,
         NEW fresh \in BOOLEAN, MapPage(a, t, g, fresh)
  PROVE  /\ type' \in [Page -> PageType]
         /\ gen' \in [Page -> Gen]
         /\ new' \in [Page -> BOOLEAN]
  BY ConstantsAssumption DEF TypeOK, MapPage

\* Unmapping pages keeps the segment and dirty vectors and memory well typed.
LEMMA UnmapType ==
  ASSUME TypeOK, NEW ps, Unmap(ps)
  PROVE  /\ type' \in [Page -> PageType]
         /\ gen' \in [Page -> Gen]
         /\ dirty' \in [Page -> [Card -> SUBSET Gen]]
         /\ object' \in [Addr -> Object \cup {NoObject}]
         /\ ref' \in [Loc -> Value]
  <1>1. 0 \in Gen /\ "hole" \in PageType /\ Nil \in Value /\ NoBits \in [Card -> SUBSET Gen]
    BY ConstantsAssumption DEF Gen, PageType, Value, NoBits
  <1>2. type' \in [Page -> PageType] /\ gen' \in [Page -> Gen]
    BY <1>1 DEF TypeOK, Unmap
  <1>3. dirty' \in [Page -> [Card -> SUBSET Gen]]
    BY <1>1 DEF TypeOK, Unmap
  <1>4. object' \in [Addr -> Object \cup {NoObject}]
    BY DEF TypeOK, Unmap
  <1>5. ref' \in [Loc -> Value]
    BY <1>1 DEF TypeOK, Unmap
  <1> QED BY <1>2, <1>3, <1>4, <1>5

\* Allocation keeps memory well typed.
LEMMA PlaceType ==
  ASSUME TypeOK, NEW k \in Kind, NEW u \in Value, NEW v \in Value, NEW l \in Loc,
         Place(k, u, v, l)
  PROVE  /\ type' \in [Page -> PageType]
         /\ gen' \in [Page -> Gen]
         /\ new' \in [Page -> BOOLEAN]
         /\ dirty' \in [Page -> [Card -> SUBSET Gen]]
         /\ object' \in [Addr -> Object \cup {NoObject}]
         /\ ref' \in [Loc -> Value]
  <1> DEFINE a == Slot(HeapType(k), 0, FALSE)
  <1>1. a \in Addr
    BY SlotType DEF Place
  <1>2. Fresh(k) \in Object
    BY DEF Place, Fresh, Unused
  <1>3. 0 \in Gen /\ HeapType(k) \in PageType
    BY ConstantsAssumption DEF Gen, HeapType, PageType
  <1>4. MapPage(a, HeapType(k), 0, FALSE)
    BY DEF Place
  <1>5. /\ type' \in [Page -> PageType]
        /\ gen' \in [Page -> Gen]
        /\ new' \in [Page -> BOOLEAN]
    BY <1>1, <1>3, <1>4, MapPageType
  <1>6. object' \in [Addr -> Object \cup {NoObject}]
    BY <1>2 DEF TypeOK, Place
  <1>7. ref' \in [Loc -> Value]
    <2>1. a \in Value
      BY <1>1 DEF Value
    <2>2. ref' = [ref EXCEPT ![<<a, "car">>] = u, ![<<a, "cdr">>] = v, ![l] = a]
      BY DEF Place
    <2> QED BY <2>1, <2>2 DEF TypeOK
  <1>8. dirty' \in [Page -> [Card -> SUBSET Gen]]
    BY DEF Place, TypeOK
  <1> QED BY <1>5, <1>6, <1>7, <1>8

\* add_object keeps memory, the segment vector and the queues well typed.
LEMMA AddObjectType ==
  ASSUME TypeOK, NEW l \in Loc, AddObject(l)
  PROVE  /\ type' \in [Page -> PageType]
         /\ gen' \in [Page -> Gen]
         /\ new' \in [Page -> BOOLEAN]
         /\ object' \in [Addr -> Object \cup {NoObject}]
         /\ ref' \in [Loc -> Value]
         /\ queue' \in SUBSET Loc
  <1> DEFINE x == ref[l]
  <1>1. x \in Value
    BY RefValue
  <1>2. \A a \in Addr : Fields(a) \subseteq Loc
    BY RefValue DEF Fields
  <1>3. NextGen(collect_gen) \in Gen
    BY NextGenType DEF TypeOK
  <1>4. CASE KeepObject(l, x)
    BY <1>4 DEF KeepObject, TypeOK, seg_vars
  <1>5. CASE FollowObject(l, x)
    BY <1>5, RefValue DEF FollowObject, TypeOK, seg_vars
  <1>6. CASE RetagObject(l, x)
    <2>1. x \in Addr /\ "large" \in PageType
      BY <1>6 DEF RetagObject, MustMove, PageType
    <2>2. MapPage(x, "large", NextGen(collect_gen), TRUE)
      BY <1>6 DEF RetagObject
    <2>3. /\ type' \in [Page -> PageType]
          /\ gen' \in [Page -> Gen]
          /\ new' \in [Page -> BOOLEAN]
      BY <1>3, <2>1, <2>2, MapPageType
    <2> QED BY <1>2, <1>6, <2>1, <2>3 DEF RetagObject, TypeOK
  <1>7. CASE CopyObject(l, x)
    <2> DEFINE t == CopyType(x)
               g == NextGen(collect_gen)
               y == Slot(t, g, TRUE)
    <2>1. x \in Addr
      BY <1>7 DEF CopyObject, MustMove
    <2>2. y \in Addr
      BY <1>7, SlotType DEF CopyObject
    <2>3. t \in PageType
      BY DEF CopyType, PageType
    <2>4. /\ type' \in [Page -> PageType]
          /\ gen' \in [Page -> Gen]
          /\ new' \in [Page -> BOOLEAN]
      <3>1. MapPage(y, t, g, TRUE)
        BY <1>7 DEF CopyObject
      <3> QED BY <1>3, <2>2, <2>3, <3>1, MapPageType
    <2>5. object' \in [Addr -> Object \cup {NoObject}]
      BY <1>7, <2>1 DEF CopyObject, TypeOK
    <2>6. ref' \in [Loc -> Value]
      <3>1. {Car(x), Cdr(x), Forward, y} \subseteq Value
        BY <2>1, <2>2, RefValue DEF Value
      <3>2. ref' = [ref EXCEPT ![<<y, "car">>] = Car(x), ![<<y, "cdr">>] = Cdr(x),
                               ![<<x, "car">>] = Forward, ![<<x, "cdr">>] = y,
                               ![l] = y]
        BY <1>7 DEF CopyObject
      <3> QED BY <3>1, <3>2 DEF TypeOK
    <2>7. queue' \in SUBSET Loc
      <3>1. Scanned(y, t) \subseteq Loc
        BY <1>2, <2>2, RefValue DEF Scanned
      <3>2. queue' = (queue \ {l}) \cup Scanned(y, t)
        BY <1>7 DEF CopyObject
      <3> QED BY <3>1, <3>2 DEF TypeOK
    <2> QED BY <2>4, <2>5, <2>6, <2>7
  <1> QED BY <1>4, <1>5, <1>6, <1>7 DEF AddObject

\* What a protected list entry or a location to visit is made of.
LEMMA EntriesType ==
  ASSUME TypeOK, NEW es \in SUBSET Entry
  PROVE  EntriesOf(es) \in SUBSET Loc
  BY DEF EntriesOf, Loc, EntryLoc

\* The program keeps every variable in its type.
LEMMA ProgramType ==
  ASSUME TypeOK, Program
  PROVE  TypeOK'
  <1>1. phase' \in Phase /\ collect_gen' \in Gen /\ collection_id' \in Nat
        /\ scan' \in SUBSET Page /\ page' \in SUBSET Page
        /\ todo' \in SUBSET Loc /\ queue' \in SUBSET Loc
    BY DEF Program, Allocate, SetField, Load, Drop, MakeCell, MakeTconc, Register,
           Dequeue, Mutating, gc_vars, TypeOK
  <1>2. PICK r \in Root : \/ Allocate(r) \/ SetField(r) \/ Load(r) \/ Drop(r)
                          \/ MakeCell(r) \/ MakeTconc(r) \/ Register(r) \/ Dequeue(r)
    BY DEF Program
  <1>3. Handle(r) \in Value /\ Nil \in Value /\ <<r, "root">> \in Loc
    BY RefValue DEF Value
  <1>4. AllBits \in [Card -> SUBSET Gen]
    BY DEF AllBits, DirtyGens
  <1>5. CASE Allocate(r)
    <2>1. PICK k \in UserKind, u \in Handles, v \in Handles : Place(k, u, v, <<r, "root">>)
      BY <1>5 DEF Allocate
    <2>2. k \in Kind /\ u \in Value /\ v \in Value
      BY HandlesValue DEF UserKind, Kind
    <2>3. UNCHANGED guardian_vars
      BY <1>5 DEF Allocate
    <2> QED BY <1>1, <1>3, <2>1, <2>2, <2>3, PlaceType DEF guardian_vars, TypeOK
  <1>6. CASE SetField(r)
    <2>1. PICK f \in Used[KindAt(Handle(r))], v \in Handles : Store(Handle(r), f, v)
      BY <1>6 DEF SetField
    <2>2. v \in Value
      BY HandlesValue
    <2>3. ref' \in [Loc -> Value] /\ dirty' \in [Page -> [Card -> SUBSET Gen]]
      BY <1>4, <2>1, <2>2 DEF Store, TypeOK
    <2>4. UNCHANGED <<seg_vars, object, guardian_vars>>
      BY <1>6 DEF SetField
    <2> QED BY <1>1, <2>3, <2>4 DEF seg_vars, guardian_vars, TypeOK
  <1>7. CASE Load(r)
    <2>1. PICK q \in Root, f \in CarCdr :
            /\ UserHandle(q)
            /\ ref' = [ref EXCEPT ![<<r, "root">>] = ref[<<Handle(q), f>>]]
      BY <1>7 DEF Load
    <2>2. ref[<<Handle(q), f>>] \in Value
      BY <2>1, RefValue DEF UserHandle, CarCdr, Car, Cdr
    <2>3. ref' \in [Loc -> Value]
      BY <2>1, <2>2 DEF TypeOK
    <2>4. UNCHANGED <<seg_vars, dirty, object, guardian_vars>>
      BY <1>7 DEF Load
    <2> QED BY <1>1, <2>3, <2>4 DEF seg_vars, guardian_vars, TypeOK
  <1>8. CASE Drop(r)
    BY <1>1, <1>3, <1>8 DEF Drop, seg_vars, guardian_vars, TypeOK
  <1>9. CASE MakeCell(r)
    <2>1. Place("cell", Nil, Nil, <<r, "root">>) /\ UNCHANGED guardian_vars
      BY <1>9 DEF MakeCell
    <2>2. "cell" \in Kind
      BY DEF Kind
    <2> QED BY <1>1, <1>3, <2>1, <2>2, PlaceType DEF guardian_vars, TypeOK
  <1>10. CASE MakeTconc(r)
    <2>1. Place("tconc", Handle(r), Handle(r), <<r, "root">>) /\ UNCHANGED guardian_vars
      BY <1>10 DEF MakeTconc
    <2>2. "tconc" \in Kind
      BY DEF Kind
    <2> QED BY <1>1, <1>3, <2>1, <2>2, PlaceType DEF guardian_vars, TypeOK
  <1>11. CASE Register(r)
    <2>1. PICK e \in Entry \ Registered, v \in Handles :
            /\ Place("cell", Handle(r), v, <<e, "entry">>)
            /\ protected' = [protected EXCEPT ![0] = @ \cup {e}]
      BY <1>11 DEF Register
    <2>2. "cell" \in Kind /\ v \in Value /\ <<e, "entry">> \in Loc
      BY HandlesValue, RefValue DEF Kind
    <2>3. protected' \in [Gen -> SUBSET Entry]
      BY <2>1, ConstantsAssumption DEF TypeOK, Gen
    <2>4. UNCHANGED <<pend_hold, pend_final, forward_list>>
      BY <1>11 DEF Register
    <2> QED BY <1>1, <1>3, <2>1, <2>2, <2>3, <2>4, PlaceType DEF TypeOK
  <1>12. CASE Dequeue(r)
    <2> DEFINE tc == Handle(r)
               x == Car(tc)
    <2>1. tc \in Addr /\ x \in Addr
      BY <1>12 DEF Dequeue, Instances
    <2>2. Car(x) \in Value /\ Cdr(x) \in Value
      BY <2>1, RefValue
    <2>3. PICK q \in Root :
            ref' = [ref EXCEPT ![<<tc, "car">>] = Cdr(x), ![<<x, "car">>] = Nil,
                               ![<<x, "cdr">>] = Nil, ![<<q, "root">>] = Car(x)]
      BY <1>12 DEF Dequeue
    <2>4. ref' \in [Loc -> Value]
      BY <1>3, <2>2, <2>3 DEF TypeOK
    <2>5. dirty' \in [Page -> [Card -> SUBSET Gen]]
      BY <1>4, <1>12 DEF Dequeue, TypeOK
    <2>6. UNCHANGED <<seg_vars, object, guardian_vars>>
      BY <1>12 DEF Dequeue
    <2> QED BY <1>1, <2>4, <2>5, <2>6 DEF seg_vars, guardian_vars, TypeOK
  <1> QED
    BY <1>2, <1>5, <1>6, <1>7, <1>8, <1>9, <1>10, <1>11, <1>12

\* Every step of a collection keeps every variable in its type.
LEMMA CollectorType ==
  ASSUME TypeOK, CollectorStep
  PROVE  TypeOK'
  <1> USE DEF seg_vars, mem_vars, guardian_vars, gc_vars
  <1>1. CASE VisitPage
    <2>1. scan' \in SUBSET Page /\ page' \in SUBSET Page /\ todo' \in SUBSET Loc
      BY <1>1 DEF VisitPage, After, TypeOK, Loc
    <2> QED BY <1>1, <2>1 DEF VisitPage, TypeOK
  <1>2. CASE FinishPage
    <2>1. PICK p \in page, m \in SUBSET DirtyGens :
            dirty' = [dirty EXCEPT ![p] = [c \in Card |-> NewNibble(p, c) \cap m]]
      BY <1>2 DEF FinishPage
    <2>2. [c \in Card |-> NewNibble(p, c) \cap m] \in [Card -> SUBSET Gen]
      BY DEF DirtyGens
    <2>3. dirty' \in [Page -> [Card -> SUBSET Gen]]
      BY <2>1, <2>2 DEF TypeOK
    <2> QED BY <1>2, <2>3 DEF FinishPage, TypeOK
  <1>3. CASE EndScan
    BY <1>3 DEF EndScan, TypeOK, Phase, Loc
  <1>4. CASE EndRoots
    BY <1>4 DEF EndRoots, TypeOK, Phase
  <1>5. CASE VisitLocation
    <2>1. PICK l \in todo : AddObject(l) /\ todo' = todo \ {l}
      BY <1>5 DEF VisitLocation
    <2>2. l \in Loc /\ todo' \in SUBSET Loc
      BY <2>1 DEF TypeOK
    <2> QED BY <1>5, <2>1, <2>2, AddObjectType DEF VisitLocation, TypeOK
  <1>6. CASE CollectLoop
    <2>1. PICK l \in queue : AddObject(l)
      BY <1>6 DEF CollectLoop
    <2>2. l \in Loc
      BY <2>1 DEF TypeOK
    <2> QED BY <1>6, <2>1, <2>2, AddObjectType DEF CollectLoop, TypeOK
  <1>7. CASE SortGuardians
    <2> DEFINE es == UNION {protected[g] : g \in 0 .. collect_gen}
    <2>1. 0 .. collect_gen \subseteq Gen
      BY ConstantsAssumption DEF Gen, TypeOK
    <2>2. es \in SUBSET Entry
      BY <2>1 DEF TypeOK
    <2>3. pend_hold' \in SUBSET Entry /\ pend_final' \in SUBSET Entry
      BY <1>7, <2>2 DEF SortGuardians
    <2>4. protected' \in [Gen -> SUBSET Entry]
      BY <1>7 DEF SortGuardians, TypeOK
    <2> QED BY <1>7, <2>3, <2>4 DEF SortGuardians, TypeOK, Phase
  <1>8. CASE FinalGuardians
    <2>1. FinalList \in SUBSET Entry
      BY DEF FinalList, TypeOK
    <2>2. EntriesOf(FinalList) \in SUBSET Loc
      BY <2>1, EntriesType
    <2> QED BY <1>8, <2>1, <2>2 DEF FinalGuardians, TypeOK, Phase
  <1>9. CASE FinalListTraced
    BY <1>9 DEF FinalListTraced, TypeOK, Phase
  <1>10. CASE HoldGuardians
    <2> DEFINE held == {e \in pend_hold : IsLive(TconcOf(e))}
    <2>1. held \in SUBSET Entry
      BY DEF TypeOK
    <2>2. todo' \in SUBSET Loc
      BY <1>10, <2>1, EntriesType DEF HoldGuardians
    <2>3. HoldGen \in Gen
      BY NextGenType DEF HoldGen, TypeOK
    <2>4. protected' \in [Gen -> SUBSET Entry]
      BY <1>10, <2>1, <2>3 DEF HoldGuardians, TypeOK
    <2>5. ref' \in [Loc -> Value]
      BY <1>10 DEF HoldGuardians, TypeOK, Value
    <2> QED BY <1>10, <2>2, <2>4, <2>5 DEF HoldGuardians, TypeOK, Phase
  <1>11. CASE FixWeakPointers
    <2>1. \A l \in Loc : FixedCar(ref[l]) \in Value
      BY RefValue DEF FixedCar, Value
    <2>2. ref' \in [Loc -> Value]
      BY <1>11, <2>1 DEF FixWeakPointers, TypeOK
    <2> QED BY <1>11, <2>2 DEF FixWeakPointers, TypeOK, Phase
  <1>12. CASE DeallocateUnusedPages
    <2>1. Unmap(UnusedPages)
      BY <1>12 DEF DeallocateUnusedPages
    <2> QED BY <1>12, <2>1, UnmapType DEF DeallocateUnusedPages, TypeOK, Phase
  <1>13. CASE FixNewPages
    BY <1>13 DEF FixNewPages, TypeOK, Phase
  <1>14. CASE FinalizeGuardian
    <2>1. PICK e \in forward_list :
           LET p == ref[<<e, "entry">>]
               tc == Car(p)
               last_pair == Cdr(tc)
           IN
           /\ {p, tc, last_pair} \subseteq Addr
           /\ ref' = [ref EXCEPT ![<<last_pair, "car">>] = Cdr(p),
                                 ![<<last_pair, "cdr">>] = p,
                                 ![<<p, "car">>] = Nil, ![<<p, "cdr">>] = Nil,
                                 ![<<tc, "cdr">>] = p,
                                 ![<<e, "entry">>] = Nil]
           /\ dirty' = DirtiedByDelivery(tc, last_pair)
           /\ forward_list' = forward_list \ {e}
      BY <1>14 DEF FinalizeGuardian
    <2> DEFINE p == ref[<<e, "entry">>]
    <2>2. p \in Value /\ Cdr(p) \in Value /\ Nil \in Value
      BY <2>1, RefValue DEF Value
    <2>3. ref' \in [Loc -> Value]
      BY <2>1, <2>2 DEF TypeOK
    <2>4. dirty' \in [Page -> [Card -> SUBSET Gen]]
      BY <2>1 DEF DirtiedByDelivery, AllBits, DirtyGens, TypeOK
    <2>5. forward_list' \in SUBSET Entry
      BY <2>1 DEF TypeOK
    <2> QED BY <1>14, <2>3, <2>4, <2>5 DEF FinalizeGuardian, TypeOK
  <1>15. CASE ResetHeap
    <2>1. Unmap({p \in Page : type[p] = "mainheap"})
      BY <1>15 DEF ResetHeap
    <2> QED BY <1>15, <2>1, UnmapType DEF ResetHeap, TypeOK, Phase
  <1> QED
    BY <1>1, <1>2, <1>3, <1>4, <1>5, <1>6, <1>7, <1>8, <1>9, <1>10, <1>11,
       <1>12, <1>13, <1>14, <1>15 DEF CollectorStep

\* Every step keeps every variable in its type.
LEMMA NextType ==
  ASSUME TypeOK, [Next]_vars
  PROVE  TypeOK'
  <1>1. CASE Program
    BY <1>1, ProgramType
  <1>2. CASE StartCollection
    <2>1. collection_id' \in Nat
      BY <1>2, ConstantsAssumption DEF StartCollection, TypeOK, Gen
    <2> QED
      BY <1>2, <2>1
      DEF StartCollection, TypeOK, Phase, seg_vars, mem_vars, guardian_vars
  <1>3. CASE CollectorStep
    BY <1>3, CollectorType
  <1>4. CASE UNCHANGED vars
    BY <1>4 DEF vars, gc_vars, seg_vars, mem_vars, guardian_vars, TypeOK
  <1> QED BY <1>1, <1>2, <1>3, <1>4 DEF Next

\* Every variable has its type in every reachable state.
THEOREM TypeCorrect == Spec => []TypeOK
  <1>1. Init => TypeOK
    BY ConstantsAssumption
    DEF Init, TypeOK, Phase, Gen, PageType, NoBits, Value
  <1> QED BY <1>1, NextType, PTL DEF Spec

-----------------------------------------------------------------------------
(* A visit of a location, add_object's one step, keeps IInv.               *)

(* Locations *)

\* A location is a field, a root or an entry, and only one of the three.
LEMMA LocKinds ==
  /\ Field \subseteq Loc /\ RootLoc \subseteq Loc /\ EntryLoc \subseteq Loc
  /\ \A a \in Addr : <<a, "car">> \in Field /\ <<a, "cdr">> \in Field
  /\ \A l \in Field : /\ l[1] \in Addr /\ l[2] \in CarCdr
                      /\ l = <<l[1], "car">> \/ l = <<l[1], "cdr">>
  /\ \A e : <<e, "entry">> \notin Field /\ <<e, "entry">> \notin RootLoc
  /\ \A r : <<r, "root">> \notin Field /\ <<r, "root">> \notin EntryLoc
  /\ Field \cap RootLoc = {} /\ Field \cap EntryLoc = {} /\ RootLoc \cap EntryLoc = {}
  BY DEF Field, Loc, RootLoc, EntryLoc, CarCdr

\* The fields of an address are locations of that address.
LEMMA FieldsLoc ==
  \A a \in Addr : \A m \in Fields(a) : m \in Field /\ m \in Loc /\ m[1] = a
  BY DEF Fields, Field, Loc, CarCdr

\* The location the collector visits next is not on a page that is left.
LEMMA Visited ==
  ASSUME IInv, NEW l \in todo \cup queue
  PROVE  /\ l \in Loc
         /\ phase \in {"scan_dirty_pages", "roots", "collect_loop", "final_list", "hold_list"}
         /\ ~LeftLoc(l)
         /\ ref[l] # Forward
         /\ ref[l] \in Addr => Allocated(ref[l])
         /\ l \in Field => new[PageOf[l[1]]] \/ CardAhead(l)
         /\ l \in Field /\ ref[l] # Nil => Allocated(l[1])
  <1>1. l \in Loc
    BY DEF IInv, TypeOK
  <1>2. phase \in {"scan_dirty_pages", "roots", "collect_loop", "final_list", "hold_list"}
    BY DEF IInv, TypeOK, Phase, PhaseInv, Settling
  <1>3. ~LeftLoc(l)
    BY <1>2, LocKinds DEF IInv, PhaseInv, LeftLoc, Left, Collected, Settling, EntriesOf, RootLoc
  <1>4. ref[l] # Forward /\ (ref[l] \in Addr => Allocated(ref[l]))
    BY <1>1, <1>3 DEF IInv, ForwardInv, ValidInv
  <1>5. l \in Field => new[PageOf[l[1]]] \/ CardAhead(l)
    BY LocKinds DEF IInv, PhaseInv, EntriesOf
  <1>6. l \in Field /\ ref[l] # Nil => Allocated(l[1])
    BY LocKinds DEF IInv, PagesInv, Car, Cdr, Free
  <1> QED BY <1>1, <1>2, <1>3, <1>4, <1>5, <1>6

-----------------------------------------------------------------------------
(* Visiting a location *)

\* What a visit of l leaves alone.
Visit(l) ==
  /\ l \in todo \cup queue
  /\ AddObject(l)
  /\ todo' = todo \ {l}
  /\ UNCHANGED <<phase, collect_gen, collection_id, scan, page, dirty, guardian_vars>>

\* A visit keeps every variable in its type.
LEMMA VisitType ==
  ASSUME IInv, NEW l, Visit(l)
  PROVE  TypeOK'
  <1>1. l \in Loc
    BY DEF IInv, Visit, TypeOK
  <1> QED BY <1>1, AddObjectType DEF IInv, Visit, guardian_vars, TypeOK

\* A visit that leaves every object where it is, and replaces the value at l.
LEMMA ReplaceInv ==
  ASSUME IInv, NEW l, Visit(l), NEW v,
         UNCHANGED <<object, seg_vars>>,
         ref' = [ref EXCEPT ![l] = v],
         queue' = queue \ {l},
         v # Forward,
         v \in Addr => Allocated(v) /\ ~Left(PageOf[v]),
         v # ref[l] => v \in Addr /\ new[PageOf[v]] /\ ref[l] \in Addr
  PROVE  IInv'
  <1>1. /\ l \in Loc
        /\ phase \in {"scan_dirty_pages", "roots", "collect_loop", "final_list", "hold_list"}
        /\ ~LeftLoc(l)
        /\ ref[l] # Forward
        /\ ref[l] \in Addr => Allocated(ref[l])
        /\ l \in Field => new[PageOf[l[1]]] \/ CardAhead(l)
        /\ l \in Field /\ ref[l] # Nil => Allocated(l[1])
    BY Visited DEF Visit
  <1>2. /\ ref'[l] = v
        /\ \A m \in Loc : m # l => ref'[m] = ref[m]
    BY <1>1 DEF IInv, TypeOK
  <1>3. UNCHANGED <<phase, collect_gen, scan, page, dirty, object, type, gen, new,
                    protected, pend_hold, pend_final, forward_list>>
    BY DEF Visit, guardian_vars, seg_vars
  <1>4. \A p \in Page : (Collected(p) <=> Collected(p)') /\ (Left(p) <=> Left(p)')
    BY <1>3 DEF Collected, Left
  <1>5. TypeOK'
    BY VisitType
  <1>6. \A a \in Addr : PageOf[a] \in Page /\ <<a, "car">> \in Loc /\ <<a, "cdr">> \in Loc
    BY LocKinds, ConstantsAssumption
  <1>7. PagesInv'
    <2>1. \A a \in Addr : Free(a)' => Car(a)' = Nil /\ Cdr(a)' = Nil
      <3> SUFFICES ASSUME NEW a \in Addr, Free(a)' PROVE Car(a)' = Nil /\ Cdr(a)' = Nil
        OBVIOUS
      <3>1. Free(a)
        BY <1>3 DEF Free, Allocated
      <3>2. Car(a) = Nil /\ Cdr(a) = Nil
        BY <3>1 DEF IInv, PagesInv
      <3>3. l \in Field /\ l[1] = a => v = Nil
        BY <1>1, <3>1, <3>2, ConstantsAssumption DEF Free
      <3> QED BY <1>2, <1>6, <3>2, <3>3, LocKinds DEF Car, Cdr
    <2> QED BY <1>3, <2>1 DEF IInv, PagesInv, Allocated
  <1>8. NewInv' /\ UnmappedInv'
    BY <1>3, <1>4 DEF IInv, NewInv, UnmappedInv
  <1>9. PhaseInv'
    BY <1>1, <1>3, <1>4, ConstantsAssumption DEF IInv, Visit, PhaseInv, CardAhead, IsDirty, HoldGen, TypeOK, Settling
  <1>10. \A a \in Addr : Forwarded(a) <=> Forwarded(a)'
    <2> SUFFICES ASSUME NEW a \in Addr, l = <<a, "car">>  PROVE ~Forwarded(a) /\ ~Forwarded(a)'
      BY <1>2, <1>6 DEF Forwarded, Car
    <2> QED BY <1>1, <1>2 DEF Forwarded, Car
  <1>11. ForwardInv'
    <2>1. \A m \in Loc : ref'[m] = Forward => m \in Field /\ m[2] = "car" /\ LeftLoc(m)'
      BY <1>2, <1>4, <1>6, LocKinds DEF IInv, ForwardInv, LeftLoc
    <2>2. \A a \in Addr : Forwarded(a) => Cdr(a)' = Cdr(a)
      <3> SUFFICES ASSUME NEW a \in Addr, Forwarded(a), l = <<a, "cdr">> PROVE FALSE
        BY <1>2, <1>6 DEF Cdr
      <3> QED BY <1>1, <1>6, LocKinds DEF IInv, ForwardInv, Forwarded, Car, LeftLoc
    <2> QED BY <1>3, <1>10, <2>1, <2>2 DEF IInv, ForwardInv
  <1>12. ValidInv'
    BY <1>1, <1>2, <1>3, <1>4, LocKinds DEF IInv, ValidInv, Allocated, Settling
  <1>13. StaleInv'
    <2> SUFFICES ASSUME NEW m \in Loc, Stale(m)', ~LeftLoc(m)' PROVE Pending(m)'
      BY DEF StaleInv
    <2>1. m # l
      BY <1>2, <1>4, ConstantsAssumption DEF Stale
    <2>2. Stale(m) /\ ~LeftLoc(m)
      BY <1>2, <1>4, <2>1, LocKinds, ConstantsAssumption DEF Stale, LeftLoc, IInv, TypeOK
    <2>3. Pending(m)
      BY <2>2 DEF IInv, StaleInv
    <2> QED
      BY <1>3, <2>1, <2>3 DEF Pending, Visit, CardAhead, IsDirty, IsWeakCar, Unsorted
  <1>14. RememberedInv'
    <2> SUFFICES ASSUME NEW m \in Field, ref'[m] \in Addr, GenOf(ref[m])' < GenOf(m[1])',
                        ~Left(PageOf[m[1]])', ~new'[PageOf[m[1]]]
                 PROVE  GenOf(ref[m])' \in dirty'[PageOf[m[1]]][CardOf[m[1]]] \/ CardAhead(m)'
      BY DEF RememberedInv
    <2>1. CASE m = l
      BY <1>1, <1>3, <2>1 DEF CardAhead, IsDirty
    <2>2. CASE m # l
      BY <1>2, <1>3, <1>4, <1>6, <2>2, LocKinds DEF IInv, RememberedInv, GenOf, CardAhead, IsDirty
    <2> QED BY <2>1, <2>2
  <1>15. CopyInv'
    BY <1>3, <1>10 DEF IInv, CopyInv, Allocated
  <1>16. WeakPairsApart'
    BY <1>3 DEF IInv, WeakPairsApart, Allocated, KindAt
  <1>17. \A e \in Entry : /\ <<e, "entry">> \in Loc
                          /\ NotOlder(e) => NotOlder(e)'
                          /\ ref[<<e, "entry">>] = Nil => ref'[<<e, "entry">>] = Nil
    BY <1>2, <1>3, <1>4, LocKinds, ConstantsAssumption DEF NotOlder, EntryLoc, Loc
  <1>18. ListsInv'
    BY <1>3, <1>17 DEF IInv, ListsInv, Registered, HoldGen
  <1>19. EntriesInv'
    <2>1. \A g \in Gen : \A e \in protected[g] :
            LET x == ref[<<e, "entry">>] IN
            /\ x' \in Addr
            /\ \/ GenOf(x)' = g
               \/ /\ NotOlder(e)' /\ phase \in Tracing \ {"deallocate_unused_pages"}
                  /\ g <= collect_gen \/ (g = HoldGen /\ phase = "hold_list")
      <3> SUFFICES ASSUME NEW g \in Gen, NEW e \in protected[g]
                   PROVE  LET x == ref[<<e, "entry">>] IN
                          /\ x' \in Addr
                          /\ \/ GenOf(x)' = g
                             \/ /\ NotOlder(e)' /\ phase \in Tracing \ {"deallocate_unused_pages"}
                                /\ g <= collect_gen \/ (g = HoldGen /\ phase = "hold_list")
        OBVIOUS
      <3> DEFINE d == <<e, "entry">>
      <3>1. e \in Entry
        BY DEF IInv, TypeOK
      <3>2. /\ ref[d] \in Addr
            /\ \/ GenOf(ref[d]) = g
               \/ /\ NotOlder(e) /\ phase \in Tracing \ {"deallocate_unused_pages"}
                  /\ g <= collect_gen \/ (g = HoldGen /\ phase = "hold_list")
        BY DEF IInv, EntriesInv
      <3>3. CASE d # l \/ v = ref[l]
        <4>1. ref'[d] = ref[d]
          BY <1>2, <1>17, <3>1, <3>3
        <4> QED BY <1>3, <1>17, <3>1, <3>2, <4>1 DEF GenOf
      <3>4. CASE d = l /\ v # ref[l]
        <4>1. ref'[d] = v /\ v \in Addr /\ new[PageOf[v]]
          BY <1>2, <3>4
        <4>2. gen[PageOf[v]] = NextGen(collect_gen)
          BY <4>1, <1>6 DEF IInv, NewInv
        <4>3. \/ phase = "hold_list" /\ l \in EntriesOf(protected[HoldGen])
              \/ phase = "final_list" /\ l \in EntriesOf(forward_list)
          BY <3>4, LocKinds DEF Visit, IInv, PhaseInv
        <4>4. phase = "hold_list" /\ e \in protected[HoldGen]
          BY <4>3, <3>1, <3>4 DEF IInv, ListsInv, Registered, EntriesOf
        <4>5. g = HoldGen
          BY <4>4, NextGenType DEF IInv, ListsInv, HoldGen, TypeOK
        <4>6. GenOf(ref[d])' = g
          BY <1>3, <4>1, <4>2, <4>5 DEF GenOf, HoldGen
        <4> QED BY <4>1, <4>6
      <3> QED BY <3>3, <3>4
    <2> QED BY <1>3, <1>17, <2>1 DEF IInv, EntriesInv, TypeOK, HoldGen
  <1> QED BY <1>5, <1>7, <1>8, <1>9, <1>11, <1>12, <1>13, <1>14, <1>15, <1>16,
             <1>18, <1>19 DEF IInv

\* add_object on an immediate, or on an object that is not collected.
LEMMA KeepInv ==
  ASSUME IInv, NEW l, Visit(l), KeepObject(l, ref[l])
  PROVE  IInv'
  <1>1. /\ l \in Loc
        /\ phase \in Tracing \ Settling
        /\ ref[l] # Forward
        /\ ref[l] \in Addr => Allocated(ref[l]) /\ ~Collected(PageOf[ref[l]])
    BY Visited DEF Visit, KeepObject, Tracing, Settling
  <1>2. ref[l] \in Addr => ~Left(PageOf[ref[l]])
    BY <1>1 DEF Left
  <1>3. ref' = [ref EXCEPT ![l] = ref[l]]
    BY <1>1 DEF KeepObject, IInv, TypeOK
  <1> QED BY <1>1, <1>2, <1>3, ReplaceInv DEF KeepObject

\* add_object on an object that has been copied.
LEMMA FollowInv ==
  ASSUME IInv, NEW l, Visit(l), FollowObject(l, ref[l])
  PROVE  IInv'
  <1> DEFINE x == ref[l]
             v == Cdr(x)
  <1>1. l \in Loc /\ phase \in Tracing \ Settling /\ x \in Addr /\ Forwarded(x)
    BY Visited DEF Visit, FollowObject, Tracing, Settling
  <1>2. v \in Addr /\ new[PageOf[v]]
    BY <1>1 DEF IInv, ForwardInv
  <1>3. Allocated(v)
    BY <1>1, <1>2, LocKinds DEF IInv, ValidInv, Cdr
  <1>4. ~Left(PageOf[v])
    BY <1>1, <1>2 DEF Left, Collected
  <1>5. v # Forward
    BY <1>2, ConstantsAssumption
  <1> QED BY <1>1, <1>2, <1>3, <1>4, <1>5, ReplaceInv DEF FollowObject

\* add_object on a large vector, which is promoted where it is.
LEMMA RetagInv ==
  ASSUME IInv, NEW l, Visit(l), RetagObject(l, ref[l])
  PROVE  IInv'
  <1> DEFINE x == ref[l]
             px == PageOf[x]
  <1>1. /\ l \in Loc
        /\ phase \in {"scan_dirty_pages", "roots", "collect_loop", "final_list", "hold_list"}
        /\ ~LeftLoc(l)
        /\ x \in Addr => Allocated(x)
        /\ l \in Field => new[PageOf[l[1]]] \/ CardAhead(l)
    BY Visited DEF Visit
  <1>2. /\ x \in Addr /\ ~Forwarded(x) /\ Collected(px) /\ type[px] = "large"
        /\ px \in Page /\ Allocated(x)
    BY <1>1, ConstantsAssumption DEF RetagObject, MustMove
  <1>3. /\ type' = type
        /\ gen' = [gen EXCEPT ![px] = NextGen(collect_gen)]
        /\ new' = [new EXCEPT ![px] = TRUE]
        /\ queue' = (queue \ {l}) \cup Fields(x)
        /\ UNCHANGED <<ref, object>>
    BY <1>2 DEF RetagObject, MapPage, IInv, TypeOK
  <1>4. UNCHANGED <<phase, collect_gen, scan, page, dirty, protected, pend_hold,
                    pend_final, forward_list>>
    BY DEF Visit, guardian_vars
  <1>5. /\ new'[px] /\ gen'[px] = NextGen(collect_gen)
        /\ \A p \in Page : p = px => ~Collected(p)'
        /\ \A p \in Page : p # px => /\ gen'[p] = gen[p] /\ new'[p] = new[p]
                                     /\ Collected(p)' <=> Collected(p)
    BY <1>2, <1>3, <1>4 DEF IInv, TypeOK, Collected
  <1>6. /\ \A p \in Page : p = px => ~Left(p)'
        /\ \A p \in Page : p # px => (Left(p)' <=> Left(p))
    BY <1>1, <1>2, <1>3, <1>4, <1>5 DEF Left, Settling
  <1>7. \A a \in Addr : PageOf[a] \in Page /\ (Allocated(a)' <=> Allocated(a)) /\ (Forwarded(a)' <=> Forwarded(a))
    BY <1>3, ConstantsAssumption DEF Allocated, Forwarded, Car
  <1>8. \A a \in Addr : a # x /\ PageOf[a] = px => ~Allocated(a) /\ Car(a) = Nil /\ Cdr(a) = Nil
    BY <1>2 DEF IInv, PagesInv, Free
  <1>9. TypeOK'
    BY VisitType
  <1>10. PagesInv'
    BY <1>2, <1>3, <1>5, <1>7 DEF IInv, PagesInv, Free, Allocated, Car, Cdr
  <1>11. NewInv' /\ UnmappedInv'
    BY <1>1, <1>3, <1>4, <1>5 DEF IInv, NewInv, UnmappedInv, Tracing
  <1>12. PhaseInv'
    <2>1. \A m \in queue' : m \in Field /\ new'[PageOf[m[1]]]
      <3>1. \A m \in queue : m \in Field /\ new[PageOf[m[1]]] /\ PageOf[m[1]] \in Page
        BY <1>7, LocKinds DEF IInv, PhaseInv
      <3>2. \A m \in Fields(x) : m \in Field /\ m[1] = x
        BY <1>2, LocKinds DEF Fields
      <3> QED BY <1>3, <1>5, <3>1, <3>2
    <2>2. \A p \in page' : ~Collected(p)' /\ p \notin scan'
      <3>1. \A p \in page : p \in Page /\ ~Collected(p) /\ p \notin scan
        BY DEF IInv, PhaseInv, TypeOK
      <3>2. \A p \in page : p # px
        BY <1>2, <3>1
      <3> QED BY <1>4, <1>5, <3>1, <3>2
    <2>3. \A m \in todo' :
       \/ phase = "scan_dirty_pages" /\ m \in Field /\ PageOf[m[1]] \in page /\ CardAhead(m)'
       \/ phase = "roots" /\ m \in RootLoc
       \/ phase = "final_list" /\ m \in EntriesOf(forward_list)
       \/ phase = "hold_list" /\ m \in EntriesOf(protected[HoldGen])
      BY <1>4 DEF IInv, PhaseInv, Visit, CardAhead, IsDirty
    <2> QED BY <1>1, <1>4, <2>1, <2>2, <2>3 DEF IInv, PhaseInv, HoldGen, Settling
  <1>13. \A m \in Loc : LeftLoc(m)' => LeftLoc(m)
    BY <1>6, <1>7, LocKinds DEF LeftLoc
  <1>14. ForwardInv'
    <2>1. \A m \in Loc : ref[m] = Forward => LeftLoc(m)'
      <3> SUFFICES ASSUME NEW m \in Loc, ref[m] = Forward PROVE LeftLoc(m)'
        OBVIOUS
      <3>1. m \in Field /\ LeftLoc(m) /\ m = <<m[1], "car">> /\ m[1] \in Addr
        BY LocKinds DEF IInv, ForwardInv
      <3>2. PageOf[m[1]] # px
        BY <1>2, <1>8, <3>1, ConstantsAssumption DEF Forwarded, Car
      <3> QED BY <1>6, <1>7, <3>1, <3>2 DEF LeftLoc
    <2> QED BY <1>3, <1>4, <1>5, <1>7, <2>1 DEF IInv, ForwardInv, Cdr
  <1>15. ValidInv'
    BY <1>1, <1>3, <1>4, <1>7 DEF IInv, ValidInv, Settling, Tracing
  <1>16. StaleInv'
    <2> SUFFICES ASSUME NEW m \in Loc, Stale(m)', ~LeftLoc(m)' PROVE Pending(m)'
      BY DEF StaleInv
    <2>1. Stale(m) /\ PageOf[ref[m]] # px
      BY <1>3, <1>6, <1>7 DEF Stale
    <2>2. CASE LeftLoc(m)
      <3>1. m \in Field /\ PageOf[m[1]] = px /\ m[1] \in Addr
        BY <1>6, <1>7, <2>2, LocKinds DEF LeftLoc
      <3>2. ref[m] # Nil
        BY <2>1, ConstantsAssumption DEF Stale
      <3>3. m \in Fields(x)
        BY <1>8, <3>1, <3>2, LocKinds DEF Fields, Car, Cdr
      <3> QED BY <1>3, <3>3 DEF Pending
    <2>3. CASE ~LeftLoc(m)
      <3>1. Pending(m)
        BY <2>1, <2>3 DEF IInv, StaleInv
      <3>2. m # l
        BY <2>1
      <3>3. m \in Field => PageOf[m[1]] # px \/ new'[PageOf[m[1]]]
        BY <1>5
      <3>4. m \in Field /\ new[PageOf[m[1]]] => new'[PageOf[m[1]]]
        BY <1>5, <1>7, LocKinds
      <3> QED BY <1>3, <1>4, <3>1, <3>2, <3>4 DEF Pending, Visit, CardAhead, IsDirty, IsWeakCar, Unsorted
    <2> QED BY <2>2, <2>3
  <1>17. RememberedInv'
    <2> SUFFICES ASSUME NEW m \in Field, ref'[m] \in Addr, GenOf(ref[m])' < GenOf(m[1])',
                        ~Left(PageOf[m[1]])', ~new'[PageOf[m[1]]]
                 PROVE  GenOf(ref[m])' \in dirty'[PageOf[m[1]]][CardOf[m[1]]] \/ CardAhead(m)'
      BY DEF RememberedInv
    <2>1. /\ PageOf[m[1]] # px /\ PageOf[m[1]] \in Page /\ m \in Loc /\ ref'[m] = ref[m]
          /\ GenOf(m[1])' = GenOf(m[1]) /\ ~Left(PageOf[m[1]]) /\ ~new[PageOf[m[1]]]
      BY <1>3, <1>5, <1>6, <1>7, LocKinds DEF GenOf
    <2>2. CASE PageOf[ref[m]] # px
      <3>1. GenOf(ref[m])' = GenOf(ref[m])
        BY <1>3, <1>5, <1>7, <2>1, <2>2 DEF GenOf
      <3> QED BY <1>4, <2>1, <3>1 DEF IInv, RememberedInv, CardAhead, IsDirty
    <2>3. CASE PageOf[ref[m]] = px
      <3>1. Stale(m) /\ ~LeftLoc(m)
        BY <1>1, <1>2, <2>1, <2>3 DEF Stale, LeftLoc, Left, Tracing
      <3>2. Pending(m)
        BY <2>1, <3>1 DEF IInv, StaleInv
      <3>3. CardAhead(m)
        BY <2>1, <3>2, LocKinds DEF Pending, IInv, PhaseInv, EntriesOf
      <3> QED BY <1>4, <3>3 DEF CardAhead, IsDirty
    <2> QED BY <2>2, <2>3
  <1>18. CopyInv'
    BY <1>3, <1>7 DEF IInv, CopyInv
  <1>19. WeakPairsApart'
    BY <1>3, <1>7 DEF IInv, WeakPairsApart, KindAt
  <1>20. \A e \in Entry : NotOlder(e) => NotOlder(e)'
    BY <1>3, <1>5, <1>7 DEF NotOlder
  <1>21. ListsInv'
    BY <1>3, <1>4 DEF IInv, ListsInv, Registered, HoldGen
  <1>22. EntriesInv'
    <2>1. ASSUME NEW g \in Gen, NEW e \in protected[g]
          PROVE  LET y == ref[<<e, "entry">>] IN
                 /\ y \in Addr
                 /\ \/ GenOf(y)' = g
                    \/ /\ NotOlder(e)' /\ phase \in Tracing \ {"deallocate_unused_pages"}
                       /\ g <= collect_gen \/ (g = HoldGen /\ phase = "hold_list")
      <3> DEFINE y == ref[<<e, "entry">>]
      <3>1. e \in Entry
        BY DEF IInv, TypeOK
      <3>2. /\ y \in Addr
            /\ \/ GenOf(y) = g
               \/ /\ NotOlder(e) /\ phase \in Tracing \ {"deallocate_unused_pages"}
                  /\ g <= collect_gen \/ (g = HoldGen /\ phase = "hold_list")
        BY DEF IInv, EntriesInv
      <3>3. CASE PageOf[y] # px
        BY <1>3, <1>5, <1>7, <1>20, <3>1, <3>2, <3>3 DEF GenOf
      <3>4. CASE PageOf[y] = px
        <4>1. NotOlder(e)'
          BY <1>3, <1>5, <3>2, <3>4 DEF NotOlder
        <4>2. GenOf(y) = g => g <= collect_gen
          BY <1>2, <3>4 DEF GenOf, Collected
        <4> QED BY <1>1, <3>2, <4>1, <4>2 DEF Tracing
      <3> QED BY <3>3, <3>4
    <2> QED BY <1>1, <1>3, <1>4, <1>20, <2>1 DEF IInv, EntriesInv, TypeOK, HoldGen, Tracing
  <1> QED BY <1>9, <1>10, <1>11, <1>12, <1>14, <1>15, <1>16, <1>17, <1>18, <1>19,
             <1>21, <1>22 DEF IInv

\* add_object on an object that is copied.
LEMMA CopyObjectInv ==
  ASSUME IInv, NEW l, Visit(l), CopyObject(l, ref[l])
  PROVE  IInv'
  <1> DEFINE t == CopyType(ref[l])
             g == NextGen(collect_gen)
  <1>1. PICK x \in Addr, y \in Addr :
          /\ x = ref[l] /\ y = Slot(t, g, TRUE)
          /\ MustMove(x) /\ type[PageOf[x]] # "large"
          /\ y \in Room(t, g, TRUE)
          /\ MapPage(y, t, g, TRUE)
          /\ object' = [object EXCEPT ![y] = object[x]]
          /\ ref' = [ref EXCEPT ![<<y, "car">>] = Car(x), ![<<y, "cdr">>] = Cdr(x),
                                ![<<x, "car">>] = Forward, ![<<x, "cdr">>] = y,
                                ![l] = y]
          /\ queue' = (queue \ {l}) \cup Scanned(y, t)
    BY SlotType DEF CopyObject, MustMove
  <1>2. /\ l \in Loc
        /\ phase \in {"scan_dirty_pages", "roots", "collect_loop", "final_list", "hold_list"}
        /\ ~LeftLoc(l)
        /\ Allocated(x)
        /\ l \in Field => new[PageOf[l[1]]] \/ CardAhead(l)
        /\ l \in Field => Allocated(l[1])
    BY <1>1, Visited, ConstantsAssumption DEF Visit
  <1>3. UNCHANGED <<phase, collect_gen, scan, page, dirty, protected, pend_hold,
                    pend_final, forward_list>>
    BY DEF Visit, guardian_vars
  <1>4. \A a \in Addr : /\ PageOf[a] \in Page
                        /\ <<a, "car">> \in Field /\ <<a, "cdr">> \in Field
                        /\ <<a, "car">> \in Loc /\ <<a, "cdr">> \in Loc
    BY LocKinds, ConstantsAssumption
  <1>5. /\ Free(y) /\ Car(y) = Nil /\ Cdr(y) = Nil
        /\ type[PageOf[y]] = "hole" \/
           (t # "large" /\ type[PageOf[y]] = t /\ gen[PageOf[y]] = g /\ new[PageOf[y]] = TRUE)
    <2>1. Free(y) /\ (type[PageOf[y]] = "hole" \/
           (t # "large" /\ type[PageOf[y]] = t /\ gen[PageOf[y]] = g /\ new[PageOf[y]] = TRUE))
      BY <1>1 DEF Room, Holes, Free, IInv, PagesInv
    <2> QED BY <2>1 DEF IInv, PagesInv
  <1>6. /\ type' = [type EXCEPT ![PageOf[y]] = t]
        /\ gen' = [gen EXCEPT ![PageOf[y]] = g]
        /\ new' = [new EXCEPT ![PageOf[y]] = TRUE]
    BY <1>1 DEF MapPage
  <1>7. /\ type'[PageOf[y]] = t /\ gen'[PageOf[y]] = g /\ new'[PageOf[y]] = TRUE
        /\ \A p \in Page : p # PageOf[y] =>
             type'[p] = type[p] /\ gen'[p] = gen[p] /\ new'[p] = new[p]
    BY <1>4, <1>6 DEF IInv, TypeOK
  <1>8. \A a \in Addr : Allocated(a) => /\ type'[PageOf[a]] = type[PageOf[a]]
                                        /\ gen'[PageOf[a]] = gen[PageOf[a]]
                                        /\ new'[PageOf[a]] = new[PageOf[a]]
    <2> SUFFICES ASSUME NEW a \in Addr, Allocated(a), PageOf[a] = PageOf[y]
                 PROVE /\ type'[PageOf[a]] = type[PageOf[a]]
                       /\ gen'[PageOf[a]] = gen[PageOf[a]]
                       /\ new'[PageOf[a]] = new[PageOf[a]]
      BY <1>4, <1>7
    <2>1. type[PageOf[a]] # "hole"
      BY DEF IInv, PagesInv
    <2> QED BY <1>5, <1>7, <2>1
  <1>9. \A p \in Page : /\ p = PageOf[y] => ~Collected(p)'
                        /\ p # PageOf[y] => (Collected(p)' <=> Collected(p))
    BY <1>3, <1>7 DEF Collected
  <1>10. \A p \in Page : /\ Left(p)' <=> Collected(p)'
                         /\ Left(p) <=> Collected(p)
    BY <1>2, <1>3 DEF Left, Tracing, Settling
  <1>11. \A a \in Addr : Allocated(a) => (Left(PageOf[a])' <=> Left(PageOf[a]))
    BY <1>3, <1>4, <1>8, <1>10 DEF Collected
  <1>12. /\ ~Forwarded(x) /\ Left(PageOf[x]) /\ PageOf[x] # PageOf[y] /\ x # y
    <2>1. ~Forwarded(x) /\ Collected(PageOf[x])
      BY <1>1 DEF MustMove
    <2>2. PageOf[x] # PageOf[y]
      BY <1>2, <1>5, <2>1 DEF IInv, PagesInv, Collected
    <2> QED BY <1>4, <1>10, <2>1, <2>2
  <1>13. l \notin Fields(x) \cup Fields(y)
    BY <1>2, <1>4, <1>5, <1>12, LocKinds DEF LeftLoc, Fields, Free
  <1>14. /\ ref'[<<y, "car">>] = Car(x) /\ ref'[<<y, "cdr">>] = Cdr(x)
         /\ ref'[<<x, "car">>] = Forward /\ ref'[<<x, "cdr">>] = y
         /\ ref'[l] = y
         /\ \A m \in Loc \ (Fields(x) \cup Fields(y) \cup {l}) : ref'[m] = ref[m]
    <2> DEFINE yc == <<y, "car">>  yd == <<y, "cdr">>  xc == <<x, "car">>  xd == <<x, "cdr">>
    <2>1. yc # yd /\ yc # xc /\ yc # xd /\ yd # xc /\ yd # xd /\ xc # xd
      BY <1>12
    <2>2. l # yc /\ l # yd /\ l # xc /\ l # xd
      BY <1>13 DEF Fields
    <2>3. yc \in Loc /\ yd \in Loc /\ xc \in Loc /\ xd \in Loc /\ l \in Loc
      BY <1>2, <1>4
    <2>4. ref' = [ref EXCEPT ![yc] = Car(x), ![yd] = Cdr(x), ![xc] = Forward, ![xd] = y, ![l] = y]
      BY <1>1
    <2>5. DOMAIN ref = Loc
      BY DEF IInv, TypeOK
    <2> HIDE DEF yc, yd, xc, xd
    <2>6. /\ ref'[yc] = Car(x) /\ ref'[yd] = Cdr(x)
          /\ ref'[xc] = Forward /\ ref'[xd] = y
          /\ ref'[l] = y
          /\ \A m \in Loc : m # yc /\ m # yd /\ m # xc /\ m # xd /\ m # l => ref'[m] = ref[m]
      BY <2>1, <2>2, <2>3, <2>4, <2>5
    <2> USE DEF yc, yd, xc, xd
    <2> QED BY <2>6 DEF Fields
  <1>15. \A a \in Addr : /\ Allocated(a)' <=> Allocated(a) \/ a = y
                         /\ a # y => object'[a] = object[a]
                         /\ a = y => object'[a] = object[x]
    BY <1>1, <1>2 DEF Allocated, IInv, TypeOK
  <1>16. \A a \in Addr : /\ Forwarded(a)' <=> Forwarded(a) \/ a = x
                         /\ a # x /\ a # y /\ <<a, "cdr">> # l => Cdr(a)' = Cdr(a)
    <2> SUFFICES ASSUME NEW a \in Addr
                 PROVE /\ Forwarded(a)' <=> Forwarded(a) \/ a = x
                       /\ a # x /\ a # y /\ <<a, "cdr">> # l => Cdr(a)' = Cdr(a)
      OBVIOUS
    <2>1. CASE a = x
      BY <1>14, <2>1 DEF Forwarded, Car
    <2>2. CASE a = y
      BY <1>5, <1>12, <1>14, <2>2, ConstantsAssumption DEF Forwarded, Car
    <2>3. CASE a # x /\ a # y
      <3>1. /\ <<a, "car">> # l => Car(a)' = Car(a)
            /\ <<a, "cdr">> # l => Cdr(a)' = Cdr(a)
        BY <1>4, <1>14, <2>3 DEF Car, Cdr, Fields
      <3>2. <<a, "car">> = l => Car(a)' = y /\ Car(a) = x
        BY <1>1, <1>14 DEF Car
      <3> QED BY <2>3, <3>1, <3>2, ConstantsAssumption DEF Forwarded
    <2> QED BY <2>1, <2>2, <2>3
  <1>17. t # "hole" /\ t # "mainheap"
    BY DEF CopyType
  <1>18. TypeOK'
    BY VisitType
  <1> HIDE DEF t, g
  <1>19. PagesInv'
    <2>1. \A a \in Addr : Free(a)' => Car(a)' = Nil /\ Cdr(a)' = Nil
      <3> SUFFICES ASSUME NEW a \in Addr, Free(a)' PROVE Car(a)' = Nil /\ Cdr(a)' = Nil
        OBVIOUS
      <3>1. Free(a) /\ a # y
        BY <1>15 DEF Free
      <3>2. a # x /\ (l \in Field => l[1] # a)
        BY <1>2, <3>1 DEF Free
      <3>3. {<<a, "car">>, <<a, "cdr">>} \cap (Fields(x) \cup Fields(y) \cup {l}) = {}
        BY <1>4, <3>1, <3>2 DEF Fields
      <3>4. Car(a) = Nil /\ Cdr(a) = Nil
        BY <3>1 DEF IInv, PagesInv
      <3> QED BY <1>4, <1>14, <3>3, <3>4 DEF Car, Cdr
    <2>2. \A a \in Addr : Allocated(a)' => type'[PageOf[a]] # "hole"
      BY <1>7, <1>8, <1>15, <1>17 DEF IInv, PagesInv
    <2>3. \A p \in Page : type'[p] = "mainheap" => gen'[p] = 0 /\ ~new'[p]
      BY <1>7, <1>17 DEF IInv, PagesInv
    <2>4. \A a, b \in Addr :
       Allocated(a)' /\ Allocated(b)' /\ PageOf[a] = PageOf[b] /\ type'[PageOf[a]] = "large"
         => a = b
      <3>1. t = "large" => \A a \in Addr : PageOf[a] = PageOf[y] => ~Allocated(a)
        BY <1>5 DEF IInv, PagesInv
      <3>2. t # "large" => type'[PageOf[y]] # "large"
        BY <1>7
      <3> QED BY <1>8, <1>15, <3>1, <3>2 DEF IInv, PagesInv
    <2> QED BY <2>1, <2>2, <2>3, <2>4 DEF PagesInv
  <1>20. NewInv' /\ UnmappedInv'
    BY <1>2, <1>3, <1>7 DEF IInv, NewInv, UnmappedInv, Tracing, g
  <1>21. PhaseInv'
    <2>1. \A m \in queue' : m \in Field /\ new'[PageOf[m[1]]]
      <3>1. \A m \in queue : m \in Field /\ new[PageOf[m[1]]] /\ PageOf[m[1]] \in Page
        BY <1>4, LocKinds DEF IInv, PhaseInv
      <3>2. \A m \in Scanned(y, t) : m \in Field /\ m[1] = y
        <4>1. Scanned(y, t) \subseteq Fields(y)
          BY DEF Scanned, Fields
        <4> QED BY <4>1, FieldsLoc
      <3> QED BY <1>1, <1>7, <3>1, <3>2 DEF t
    <2>2. \A p \in page' : ~Collected(p)' /\ p \notin scan'
      <3>1. \A p \in page : p \in Page /\ ~Collected(p) /\ p \notin scan
        BY DEF IInv, PhaseInv, TypeOK
      <3> QED BY <1>3, <1>9, <3>1
    <2>3. \A m \in todo' :
       \/ phase = "scan_dirty_pages" /\ m \in Field /\ PageOf[m[1]] \in page /\ CardAhead(m)'
       \/ phase = "roots" /\ m \in RootLoc
       \/ phase = "final_list" /\ m \in EntriesOf(forward_list)
       \/ phase = "hold_list" /\ m \in EntriesOf(protected[HoldGen])
      BY <1>3 DEF IInv, PhaseInv, Visit, CardAhead, IsDirty
    <2> QED BY <1>2, <1>3, <2>1, <2>2, <2>3 DEF IInv, PhaseInv, HoldGen, Settling
  \* an unchanged pointer is on the same side of the left pages as before
  <1>22. \A m \in Field : Allocated(m[1]) => (LeftLoc(m)' <=> LeftLoc(m))
    BY <1>11, LocKinds DEF LeftLoc
  <1>23. /\ ref[<<x, "cdr">>] # Forward /\ Cdr(x) # Forward /\ Car(x) # Forward
         /\ Car(x) \in Addr => Allocated(Car(x))
         /\ Cdr(x) \in Addr => Allocated(Cdr(x))
    <2>1. Car(x) = ref[<<x, "car">>] /\ Cdr(x) = ref[<<x, "cdr">>]
      BY DEF Car, Cdr
    <2>2. <<x, "cdr">> \in Loc /\ <<x, "car">> \in Loc
      BY <1>4
    <2>3. ref[<<x, "cdr">>] # Forward
      BY <2>2 DEF IInv, ForwardInv
    <2>4. phase \notin Settling
      BY <1>2 DEF Settling
    <2> QED BY <1>12, <2>1, <2>2, <2>3, <2>4 DEF IInv, ValidInv, Forwarded
  <1>24. ForwardInv'
    <2>1. \A m \in Loc : ref'[m] = Forward => m \in Field /\ m[2] = "car" /\ LeftLoc(m)'
      <3> SUFFICES ASSUME NEW m \in Loc, ref'[m] = Forward
                   PROVE  m \in Field /\ m[2] = "car" /\ LeftLoc(m)'
        OBVIOUS
      <3>1. m \notin Fields(y) /\ m # l /\ m # <<x, "cdr">>
        BY <1>14, <1>23, ConstantsAssumption DEF Fields
      <3>2. CASE m = <<x, "car">>
        BY <1>2, <1>4, <1>12, <1>22, <3>2 DEF LeftLoc
      <3>3. CASE m # <<x, "car">>
        <4>1. ref[m] = Forward
          BY <1>14, <3>1, <3>3 DEF Fields
        <4>2. m \in Field /\ m[2] = "car" /\ LeftLoc(m)
          BY <4>1 DEF IInv, ForwardInv
        <4>3. Allocated(m[1])
          <5>1. m[1] \in Addr /\ Car(m[1]) = Forward
            BY <4>1, <4>2, LocKinds DEF Car
          <5> QED BY <5>1, ConstantsAssumption DEF IInv, PagesInv, Free
        <4> QED BY <1>22, <4>2, <4>3
      <3> QED BY <3>2, <3>3
    <2>2. \A a \in Addr : Forwarded(a)' => /\ Cdr(a)' \in Addr /\ new'[PageOf[Cdr(a)']]
                                           /\ type'[PageOf[a]] # "large"
      <3> SUFFICES ASSUME NEW a \in Addr, Forwarded(a)'
                   PROVE  /\ Cdr(a)' \in Addr /\ new'[PageOf[Cdr(a)']]
                          /\ type'[PageOf[a]] # "large"
        OBVIOUS
      <3>1. CASE a = x
        <4>1. Cdr(a)' = y
          BY <1>14, <3>1 DEF Cdr
        <4>2. type'[PageOf[x]] # "large"
          BY <1>1, <1>2, <1>8
        <4> QED BY <1>7, <3>1, <4>1, <4>2
      <3>2. CASE a # x
        <4>1. Forwarded(a)
          BY <1>16, <3>2
        <4>2. LeftLoc(<<a, "car">>) /\ Allocated(a)
          BY <1>4, <4>1, ConstantsAssumption DEF IInv, ForwardInv, PagesInv, Forwarded, Free, Car
        <4>3. <<a, "cdr">> # l /\ a # y
          BY <1>2, <1>4, <1>5, <4>2 DEF LeftLoc, Free
        <4>4. Cdr(a)' = Cdr(a)
          BY <1>16, <3>2, <4>3
        <4>5. Cdr(a) \in Addr /\ new[PageOf[Cdr(a)]] /\ type[PageOf[a]] # "large"
          BY <1>2, <4>1 DEF IInv, ForwardInv, Tracing
        <4>6. new'[PageOf[Cdr(a)]]
          BY <1>4, <1>7, <4>5
        <4> QED BY <1>8, <4>2, <4>4, <4>5, <4>6
      <3> QED BY <3>1, <3>2
    <2> QED BY <2>1, <2>2 DEF ForwardInv
  <1>25. \A m \in Loc : ref'[m] \in Addr => Allocated(ref[m])'
    <2> SUFFICES ASSUME NEW m \in Loc, ref'[m] \in Addr PROVE object'[ref'[m]] # NoObject
      BY DEF Allocated
    <2>1. \A a \in Addr : Allocated(a) \/ a = y => object'[a] # NoObject
      BY <1>15 DEF Allocated
    <2>2. CASE m \in {l, <<x, "cdr">>}
      BY <1>14, <2>1, <2>2
    <2>3. CASE m \in Fields(y)
      BY <1>14, <1>23, <2>1, <2>3 DEF Fields
    <2>4. CASE m = <<x, "car">>
      BY <1>14, <2>4, ConstantsAssumption
    <2>5. CASE m \notin Fields(x) \cup Fields(y) \cup {l}
      <3>1. ref'[m] = ref[m]
        BY <1>14, <2>5
      <3>2. Allocated(ref[m])
        BY <1>2, <3>1 DEF IInv, ValidInv, Settling
      <3> QED BY <2>1, <3>1, <3>2
    <2> QED BY <2>2, <2>3, <2>4, <2>5 DEF Fields
  <1>26. ValidInv'
    BY <1>25 DEF ValidInv
  <1>27. StaleInv'
    <2> SUFFICES ASSUME NEW m \in Loc, Stale(m)', ~LeftLoc(m)' PROVE Pending(m)'
      BY DEF StaleInv
    <2>1. m \notin {l, <<x, "cdr">>, <<x, "car">>}
      <3>1. CASE m \in {l, <<x, "cdr">>}
        BY <1>4, <1>9, <1>10, <1>14, <3>1 DEF Stale
      <3>2. CASE m = <<x, "car">>
        BY <1>14, <3>2, ConstantsAssumption DEF Stale
      <3> QED BY <3>1, <3>2
    <2>2. CASE m \in Fields(y)
      <3>1. m \in Scanned(y, t) => Pending(m)'
        BY <1>1 DEF Pending, t
      <3>2. m \notin Scanned(y, t) => m = <<y, "car">> /\ t = "weak_pairs"
        <4>1. CASE t = "weak_pairs"
          BY <2>2, <4>1 DEF Scanned, Fields
        <4>2. CASE t # "weak_pairs"
          BY <2>2, <4>2 DEF Scanned
        <4> QED BY <4>1, <4>2
      <3>3. m = <<y, "car">> /\ t = "weak_pairs" => m \in Field /\ IsWeakCar(m)' /\ new'[PageOf[m[1]]]
        <4> SUFFICES ASSUME m = <<y, "car">>, t = "weak_pairs"
                     PROVE  m \in Field /\ IsWeakCar(m)' /\ new'[PageOf[m[1]]]
          OBVIOUS
        <4>1. m \in Field /\ m[1] = y /\ m[2] = "car"
          BY <1>4
        <4> QED BY <1>7, <4>1 DEF IsWeakCar
      <3> QED BY <1>2, <1>3, <3>1, <3>2, <3>3 DEF Pending
    <2>3. CASE m \notin Fields(y)
      <3>1. ref'[m] = ref[m]
        BY <1>14, <2>1, <2>3 DEF Fields
      <3>2. ref[m] \in Addr /\ Allocated(ref[m])
        BY <1>2, <3>1 DEF Stale, IInv, ValidInv, Settling
      <3>3. Stale(m)
        BY <1>2, <1>3, <1>8, <3>1, <3>2 DEF Stale, Left, Collected, Settling
      <3>4. m \in Field => Allocated(m[1])
        <4> SUFFICES ASSUME m \in Field PROVE Allocated(m[1])
          OBVIOUS
        <4>1. m[1] \in Addr /\ (ref[m] = Car(m[1]) \/ ref[m] = Cdr(m[1]))
          BY LocKinds DEF Car, Cdr
        <4> QED BY <3>2, <4>1, ConstantsAssumption DEF IInv, PagesInv, Free
      <3>5. ~LeftLoc(m)
        BY <1>22, <3>4 DEF LeftLoc
      <3>6. Pending(m)
        BY <3>3, <3>5 DEF IInv, StaleInv
      <3>7. m \in queue => m \in queue'
        BY <1>1, <2>1
      <3>8. m \in todo => m \in todo'
        BY <2>1 DEF Visit
      <3>9. m \in Field => type'[PageOf[m[1]]] = type[PageOf[m[1]]] /\ new'[PageOf[m[1]]] = new[PageOf[m[1]]]
        BY <1>8, <3>4, LocKinds
      <3> QED BY <1>3, <3>6, <3>7, <3>8, <3>9 DEF Pending, CardAhead, IsDirty, IsWeakCar, Unsorted
    <2> QED BY <2>2, <2>3
  <1>28. RememberedInv'
    <2> SUFFICES ASSUME NEW m \in Field, ref'[m] \in Addr, GenOf(ref[m])' < GenOf(m[1])',
                        ~Left(PageOf[m[1]])', ~new'[PageOf[m[1]]]
                 PROVE  GenOf(ref[m])' \in dirty'[PageOf[m[1]]][CardOf[m[1]]] \/ CardAhead(m)'
      BY DEF RememberedInv
    <2>1. m \in Loc /\ m[1] \in Addr
      BY LocKinds
    <2>2. m \notin Fields(y)
      BY <1>7 DEF Fields
    <2>3. m # <<x, "car">> /\ m # <<x, "cdr">>
      BY <1>2, <1>11, <1>12
    <2>4. CASE m = l
      <3>1. Allocated(m[1]) /\ new'[PageOf[m[1]]] = new[PageOf[m[1]]]
        BY <1>2, <1>8, <2>1, <2>4
      <3> QED BY <1>2, <1>3, <2>4, <3>1 DEF CardAhead, IsDirty
    <2>5. CASE m # l
      <3>1. ref'[m] = ref[m]
        BY <1>14, <2>1, <2>2, <2>3, <2>5 DEF Fields
      <3>2. Allocated(ref[m]) /\ ref[m] \in Addr
        BY <1>2, <2>1, <3>1 DEF IInv, ValidInv, Settling
      <3>3. Allocated(m[1])
        <4>1. m[1] \in Addr /\ (ref[m] = Car(m[1]) \/ ref[m] = Cdr(m[1]))
          BY <2>1, LocKinds DEF Car, Cdr
        <4> QED BY <3>2, <4>1, ConstantsAssumption DEF IInv, PagesInv, Free
      <3>4. /\ GenOf(ref[m])' = GenOf(ref[m]) /\ GenOf(m[1])' = GenOf(m[1])
            /\ ~new[PageOf[m[1]]] /\ ~Left(PageOf[m[1]])
        BY <1>8, <1>11, <2>1, <3>1, <3>2, <3>3 DEF GenOf
      <3> QED BY <1>3, <3>1, <3>2, <3>4 DEF IInv, RememberedInv, CardAhead, IsDirty
    <2> QED BY <2>4, <2>5
  <1>29. CopyInv'
    <2> SUFFICES ASSUME NEW a \in Addr, NEW b \in Addr, Allocated(a)',
                        object'[a] = object'[b], ~Forwarded(a)', ~Forwarded(b)'
                 PROVE  a = b
      BY DEF CopyInv
    <2>1. a # x /\ b # x /\ ~Forwarded(a) /\ ~Forwarded(b)
      BY <1>16
    <2>2. \A c \in Addr : Allocated(c) /\ ~Forwarded(c) /\ object[c] = object[x] => c = x
      BY <1>2, <1>12 DEF IInv, CopyInv
    <2>3. \A c \in Addr : object[c] = object[x] => Allocated(c)
      BY <1>2 DEF Allocated
    <2> QED BY <1>15, <2>1, <2>2, <2>3 DEF IInv, CopyInv
  <1>30. WeakPairsApart'
    <2>1. t = "weak_pairs" <=> KindOf[object[x]] = "weak"
      BY <1>1, <1>2 DEF IInv, WeakPairsApart, CopyType, KindAt, t
    <2>2. \A a \in Addr : Allocated(a) => (type[PageOf[a]] = "weak_pairs" <=> KindOf[object[a]] = "weak")
      BY DEF IInv, WeakPairsApart, KindAt
    <2>3. \A a \in Addr : Allocated(a)' => (type'[PageOf[a]] = "weak_pairs" <=> KindOf[object'[a]] = "weak")
      BY <1>7, <1>8, <1>15, <2>1, <2>2
    <2> QED BY <2>3 DEF WeakPairsApart, KindAt
  <1>31. \A e \in Entry : /\ <<e, "entry">> \in Loc
                          /\ <<e, "entry">> # l => ref'[<<e, "entry">>] = ref[<<e, "entry">>]
    BY <1>4, <1>14, LocKinds DEF EntryLoc, Fields
  <1>32. \A e \in Entry : NotOlder(e) => NotOlder(e)'
    <2> SUFFICES ASSUME NEW e \in Entry, NotOlder(e) PROVE NotOlder(e)'
      OBVIOUS
    <2> DEFINE d == <<e, "entry">>
    <2>1. CASE d = l
      <3>1. ref'[d] = y
        BY <1>14, <2>1
      <3> QED BY <1>7, <3>1 DEF NotOlder
    <2>2. CASE d # l
      <3>1. ref'[d] = ref[d] /\ ref[d] \in Addr
        BY <1>31, <2>2 DEF NotOlder
      <3>2. PageOf[ref[d]] # PageOf[y] \/ new'[PageOf[y]]
        BY <1>7
      <3> QED BY <1>4, <1>7, <1>9, <3>1 DEF NotOlder
    <2> QED BY <2>1, <2>2
  <1>33. ListsInv'
    <2>1. \A e \in Entry : ref[<<e, "entry">>] = Nil => ref'[<<e, "entry">>] = Nil
      BY <1>1, <1>31, ConstantsAssumption
    <2> QED BY <1>3, <2>1 DEF IInv, ListsInv, Registered, HoldGen
  <1>34. EntriesInv'
    <2>1. ASSUME NEW h \in Gen, NEW e \in protected[h]
          PROVE  /\ ref'[<<e, "entry">>] \in Addr
                 /\ \/ GenOf(ref[<<e, "entry">>])' = h
                    \/ /\ NotOlder(e)' /\ phase \in Tracing \ {"deallocate_unused_pages"}
                       /\ h <= collect_gen \/ (h = HoldGen /\ phase = "hold_list")
      <3> DEFINE d == <<e, "entry">>
      <3>1. e \in Entry
        BY DEF IInv, TypeOK
      <3>2. /\ ref[d] \in Addr
            /\ \/ GenOf(ref[d]) = h
               \/ /\ NotOlder(e) /\ phase \in Tracing \ {"deallocate_unused_pages"}
                  /\ h <= collect_gen \/ (h = HoldGen /\ phase = "hold_list")
        BY DEF IInv, EntriesInv
      <3>3. CASE d # l
        <4>1. ref'[d] = ref[d]
          BY <1>31, <3>1, <3>3
        <4>2. Allocated(ref[d])
          BY <1>2, <1>31, <3>1, <3>2 DEF IInv, ValidInv, Settling
        <4>3. GenOf(ref[d])' = GenOf(ref[d])
          BY <1>8, <3>2, <4>1, <4>2 DEF GenOf
        <4> QED BY <1>32, <3>1, <3>2, <4>1, <4>3
      <3>4. CASE d = l
        <4>1. ref'[d] = y
          BY <1>14, <3>4
        <4>2. \/ phase = "hold_list" /\ l \in EntriesOf(protected[HoldGen])
              \/ phase = "final_list" /\ l \in EntriesOf(forward_list)
          BY <3>4, LocKinds DEF Visit, IInv, PhaseInv
        <4>3. phase = "hold_list" /\ e \in protected[HoldGen]
          BY <4>2, <3>1, <3>4 DEF IInv, ListsInv, Registered, EntriesOf
        <4>4. h = HoldGen
          BY <4>3, NextGenType DEF IInv, ListsInv, HoldGen, TypeOK
        <4>5. GenOf(ref[d])' = h
          BY <1>7, <4>1, <4>4 DEF GenOf, HoldGen, g
        <4> QED BY <4>1, <4>5
      <3> QED BY <3>3, <3>4
    <2>2. phase' \in Tracing => \A e \in pend_hold \cup pend_final \cup forward_list : NotOlder(e)'
      BY <1>3, <1>32 DEF IInv, EntriesInv, TypeOK
    <2> QED BY <1>3, <2>1, <2>2 DEF EntriesInv, HoldGen
  <1> QED BY <1>18, <1>19, <1>20, <1>21, <1>24, <1>26, <1>27, <1>28, <1>29, <1>30,
             <1>33, <1>34 DEF IInv

\* Whatever add_object does at a location, IInv holds after.
LEMMA VisitInv ==
  ASSUME IInv, NEW l, Visit(l)
  PROVE  IInv'
  BY KeepInv, FollowInv, RetagInv, CopyObjectInv DEF Visit, AddObject

-----------------------------------------------------------------------------
(* The steps of ik_collect that move nothing *)

\* Every step of ik_collect keeps the type invariant.
LEMMA CollectorTypeInv ==
  ASSUME IInv, CollectorStep
  PROVE  TypeOK'
  BY CollectorType DEF IInv

\* Generations are numbers up to the last.
LEMMA GenNat == \A g \in Gen : g \in Nat /\ g <= MaxGen
  BY ConstantsAssumption DEF Gen

\* A field that holds a pointer belongs to an object.
LEMMA PointerField ==
  ASSUME IInv, NEW m \in Field, ref[m] # Nil
  PROVE  m[1] \in Addr /\ Allocated(m[1]) /\ PageOf[m[1]] \in Page
  <1>1. m[1] \in Addr /\ (ref[m] = Car(m[1]) \/ ref[m] = Cdr(m[1]))
    BY LocKinds DEF Car, Cdr
  <1> QED BY <1>1, ConstantsAssumption DEF IInv, PagesInv, Free

\* scan_dirty_pages cannot pass over a page with a card it has to scan.
LEMMA MustVisitAhead ==
  ASSUME IInv, phase = "scan_dirty_pages", NEW m \in Field, ref[m] \in Addr,
         ~Left(PageOf[m[1]]), IsDirty(PageOf[m[1]], CardOf[m[1]])
  PROVE  MustVisit(PageOf[m[1]])
  <1>1. m[1] \in Addr /\ Allocated(m[1]) /\ PageOf[m[1]] \in Page
    BY PointerField, ConstantsAssumption
  <1>2. ~Collected(PageOf[m[1]])
    BY DEF Left, Tracing
  <1>3. CardOf[m[1]] \in Card
    BY <1>1, ConstantsAssumption
  <1>4. type[PageOf[m[1]]] # "hole"
    BY <1>1 DEF IInv, PagesInv
  <1>5. type[PageOf[m[1]]] # "mainheap"
    BY <1>1, <1>2 DEF IInv, PagesInv, Collected, TypeOK, Gen
  <1>6. type[PageOf[m[1]]] \in PageType
    BY <1>1 DEF IInv, TypeOK
  <1> QED BY <1>2, <1>3, <1>4, <1>5, <1>6 DEF MustVisit, PageType, Scannable

\* scan_dirty_pages comes to a page: none with a card to scan is passed over.
LEMMA VisitPageInv ==
  ASSUME IInv, VisitPage
  PROVE  IInv'
  <1>1. PICK p \in scan :
          /\ MustVisit(p)
          /\ \A q \in scan : MustVisit(q) => p <= q
          /\ page' = {p}
          /\ scan' = After(p)
          /\ todo' = {l \in Field : \E c \in Card : OnCard(l, p, c) /\ IsDirty(p, c)}
    BY DEF VisitPage
  <1>2. /\ phase = "scan_dirty_pages" /\ page = {}
        /\ UNCHANGED <<phase, collect_gen, queue, type, gen, new, dirty, object, ref,
                       protected, pend_hold, pend_final, forward_list>>
    BY DEF VisitPage, seg_vars, mem_vars, guardian_vars
  <1>3. TypeOK'
    BY CollectorTypeInv DEF CollectorStep
  <1>4. todo = {}
    BY <1>2 DEF IInv, PhaseInv
  <1>5. p \in Page /\ ~Collected(p) /\ p \notin scan' /\ scan' \subseteq scan
    BY <1>1, ConstantsAssumption DEF MustVisit, After, IInv, TypeOK
  \* a card ahead of the scan stays ahead, or is visited now
  <1>6. ASSUME NEW m \in Field, CardAhead(m), ref[m] \in Addr, ~Left(PageOf[m[1]])
        PROVE  CardAhead(m)' /\ (PageOf[m[1]] \in scan' \/ m \in todo')
    <2> DEFINE q == PageOf[m[1]]
    <2>1. q \in scan /\ IsDirty(q, CardOf[m[1]]) /\ MustVisit(q)
      BY <1>2, <1>6, MustVisitAhead DEF CardAhead
    <2>2. p \in Nat /\ q \in Nat /\ p <= q
      BY <1>1, <1>5, <2>1, ConstantsAssumption DEF IInv, TypeOK
    <2>3. q = p \/ q \in scan'
      BY <1>1, <2>1, <2>2 DEF After
    <2>4. m[1] \in Addr /\ CardOf[m[1]] \in Card
      BY LocKinds, ConstantsAssumption
    <2>5. q = p => m \in todo'
      BY <1>1, <2>1, <2>4 DEF OnCard
    <2> QED BY <1>1, <1>2, <2>1, <2>3, <2>5 DEF CardAhead, IsDirty
  <1>7. PagesInv' /\ NewInv' /\ UnmappedInv' /\ CopyInv' /\ WeakPairsApart' /\ ListsInv'
    BY <1>2 DEF IInv, PagesInv, NewInv, UnmappedInv, CopyInv, WeakPairsApart, ListsInv,
                Allocated, Free, Car, Cdr, Collected, Forwarded, KindAt, Registered, HoldGen
  <1>8. ForwardInv' /\ ValidInv' /\ EntriesInv'
    BY <1>2 DEF IInv, ForwardInv, ValidInv, EntriesInv, LeftLoc, Left, Collected, Forwarded,
                Car, Cdr, Allocated, NotOlder, GenOf, HoldGen
  <1>9. PhaseInv'
    <2>1. \A m \in todo' : m \in Field /\ PageOf[m[1]] \in page' /\ CardAhead(m)'
      BY <1>1, <1>2 DEF OnCard, CardAhead, IsDirty
    <2> QED BY <1>1, <1>2, <1>5, <2>1 DEF IInv, PhaseInv, Collected, Settling
  <1>10. StaleInv'
    <2> SUFFICES ASSUME NEW m \in Loc, Stale(m)', ~LeftLoc(m)' PROVE Pending(m)'
      BY DEF StaleInv
    <2>1. Stale(m) /\ ~LeftLoc(m)
      BY <1>2 DEF Stale, LeftLoc, Left, Collected
    <2>2. Pending(m)
      BY <2>1 DEF IInv, StaleInv
    <2>3. m \in Field /\ CardAhead(m) => CardAhead(m)' /\ (PageOf[m[1]] \in scan' \/ m \in todo')
      BY <1>6, <2>1 DEF Stale, LeftLoc
    <2> QED BY <1>2, <1>4, <2>2, <2>3 DEF Pending, IsWeakCar, Unsorted
  <1>11. RememberedInv'
    <2> SUFFICES ASSUME NEW m \in Field, ref[m] \in Addr, GenOf(ref[m]) < GenOf(m[1]),
                        ~Left(PageOf[m[1]]), ~new[PageOf[m[1]]]
                 PROVE  GenOf(ref[m]) \in dirty[PageOf[m[1]]][CardOf[m[1]]] \/ CardAhead(m)'
      BY <1>2 DEF RememberedInv, Left, Collected, GenOf
    <2> QED BY <1>6 DEF IInv, RememberedInv
  <1> QED BY <1>3, <1>7, <1>8, <1>9, <1>10, <1>11 DEF IInv

\* scan_dirty_pages ends: no old object leads to what is left but through the weak cars and the lists.
LEMMA EndScanInv ==
  ASSUME IInv, EndScan
  PROVE  IInv'
  <1>1. /\ phase = "scan_dirty_pages" /\ page = {}
        /\ \A p \in scan : ~MustVisit(p)
        /\ scan' = {} /\ phase' = "roots" /\ todo' = RootLoc
        /\ UNCHANGED <<collect_gen, page, queue, type, gen, new, dirty, object, ref,
                       protected, pend_hold, pend_final, forward_list>>
    BY DEF EndScan, seg_vars, mem_vars, guardian_vars
  <1>2. TypeOK'
    BY CollectorTypeInv DEF CollectorStep
  <1>3. todo = {}
    BY <1>1 DEF IInv, PhaseInv
  <1>4. \A m \in Field : ref[m] \in Addr /\ ~Left(PageOf[m[1]]) => ~CardAhead(m)
    BY <1>1, MustVisitAhead DEF CardAhead
  <1>5. \A p : Left(p)' <=> Left(p)
    BY <1>1 DEF Left, Collected, Tracing, Settling
  <1>6. PagesInv' /\ NewInv' /\ UnmappedInv' /\ CopyInv' /\ WeakPairsApart' /\ ListsInv'
    BY <1>1 DEF IInv, PagesInv, NewInv, UnmappedInv, CopyInv, WeakPairsApart, ListsInv, Tracing,
                Allocated, Free, Car, Cdr, Collected, Forwarded, KindAt, Registered, HoldGen
  <1>7. ForwardInv' /\ ValidInv' /\ EntriesInv'
    BY <1>1, <1>5 DEF IInv, ForwardInv, ValidInv, EntriesInv, LeftLoc, Collected, Forwarded,
                Car, Cdr, Allocated, NotOlder, GenOf, HoldGen, Tracing, Settling
  <1>8. PhaseInv'
    BY <1>1 DEF IInv, PhaseInv, Collected, Settling
  <1>9. StaleInv'
    <2> SUFFICES ASSUME NEW m \in Loc, Stale(m)', ~LeftLoc(m)' PROVE Pending(m)'
      BY DEF StaleInv
    <2>1. Stale(m) /\ ~LeftLoc(m)
      BY <1>1, <1>5 DEF Stale, LeftLoc, Left, Collected, Tracing, Settling
    <2>2. Pending(m)
      BY <2>1 DEF IInv, StaleInv
    <2>3. m \in Field => ~CardAhead(m)
      BY <1>4, <2>1 DEF Stale, LeftLoc
    <2> QED BY <1>1, <1>3, <2>2, <2>3 DEF Pending, IsWeakCar, Unsorted
  <1>10. RememberedInv'
    <2> SUFFICES ASSUME NEW m \in Field, ref[m] \in Addr, GenOf(ref[m]) < GenOf(m[1]),
                        ~Left(PageOf[m[1]]), ~new[PageOf[m[1]]]
                 PROVE  GenOf(ref[m]) \in dirty[PageOf[m[1]]][CardOf[m[1]]]
      BY <1>1, <1>5 DEF RememberedInv, GenOf
    <2> QED BY <1>4 DEF IInv, RememberedInv
  <1> QED BY <1>2, <1>6, <1>7, <1>8, <1>9, <1>10 DEF IInv

\* The new dirty word of a page keeps the bits of the younger generations it leads to.
LEMMA FinishPageInv ==
  ASSUME IInv, FinishPage
  PROVE  IInv'
  <1>1. /\ phase = "scan_dirty_pages" /\ todo = {} /\ page' = {}
        /\ UNCHANGED <<phase, collect_gen, scan, todo, queue, type, gen, new, object, ref,
                       protected, pend_hold, pend_final, forward_list>>
    BY DEF FinishPage, seg_vars, mem_vars, guardian_vars
  <1>2. PICK p \in page, w \in SUBSET DirtyGens :
          /\ ~new[p] => w = CleanupMask(gen[p]) \ {MaxGen}
          /\ dirty' = [dirty EXCEPT ![p] = [c \in Card |-> NewNibble(p, c) \cap w]]
    BY DEF FinishPage
  <1>3. TypeOK'
    BY CollectorTypeInv DEF CollectorStep
  <1>4. /\ p \in Page /\ p \notin scan /\ \A q \in page : q = p
        /\ dirty'[p] = [c \in Card |-> NewNibble(p, c) \cap w]
        /\ \A q \in Page : q # p => dirty'[q] = dirty[q]
    BY <1>2 DEF IInv, TypeOK, PhaseInv
  <1>5. PagesInv' /\ NewInv' /\ UnmappedInv' /\ CopyInv' /\ WeakPairsApart' /\ ListsInv'
    BY <1>1 DEF IInv, PagesInv, NewInv, UnmappedInv, CopyInv, WeakPairsApart, ListsInv,
                Allocated, Free, Car, Cdr, Collected, Forwarded, KindAt, Registered, HoldGen
  <1>6. ForwardInv' /\ ValidInv' /\ EntriesInv'
    BY <1>1 DEF IInv, ForwardInv, ValidInv, EntriesInv, LeftLoc, Left, Collected, Forwarded,
                Car, Cdr, Allocated, NotOlder, GenOf, HoldGen
  <1>7. PhaseInv'
    BY <1>1 DEF IInv, PhaseInv, Collected, Settling
  <1>8. \A m \in Field : CardAhead(m) /\ PageOf[m[1]] # p => CardAhead(m)' /\ PageOf[m[1]] \in scan
    <2> SUFFICES ASSUME NEW m \in Field, CardAhead(m), PageOf[m[1]] # p
                 PROVE  CardAhead(m)' /\ PageOf[m[1]] \in scan
      OBVIOUS
    <2>1. PageOf[m[1]] \in scan /\ PageOf[m[1]] \in Page
      BY <1>4 DEF CardAhead, IInv, TypeOK
    <2> QED BY <1>1, <1>4, <2>1 DEF CardAhead, IsDirty
  <1>9. StaleInv'
    <2> SUFFICES ASSUME NEW m \in Loc, Stale(m)', ~LeftLoc(m)' PROVE Pending(m)'
      BY DEF StaleInv
    <2>1. Stale(m) /\ ~LeftLoc(m)
      BY <1>1 DEF Stale, LeftLoc, Left, Collected
    <2>2. Pending(m)
      BY <2>1 DEF IInv, StaleInv
    <2> QED BY <1>1, <1>4, <1>8, <2>2 DEF Pending, IsWeakCar, Unsorted
  <1>10. RememberedInv'
    <2> SUFFICES ASSUME NEW m \in Field, ref[m] \in Addr, GenOf(ref[m]) < GenOf(m[1]),
                        ~Left(PageOf[m[1]]), ~new[PageOf[m[1]]]
                 PROVE  GenOf(ref[m]) \in dirty'[PageOf[m[1]]][CardOf[m[1]]] \/ CardAhead(m)'
      BY <1>1 DEF RememberedInv, Left, Collected, GenOf
    <2> DEFINE a == m[1]
               y == ref[m]
               c == CardOf[m[1]]
    <2>1. a \in Addr /\ PageOf[a] \in Page /\ c \in Card /\ PageOf[y] \in Page
      BY LocKinds, ConstantsAssumption
    <2>2. GenOf(y) \in dirty[PageOf[a]][c] \/ CardAhead(m)
      BY DEF IInv, RememberedInv
    <2>3. CASE PageOf[a] # p
      BY <1>4, <1>8, <2>1, <2>2, <2>3
    <2>4. CASE PageOf[a] = p
      <3>1. GenOf(y) \in Gen /\ GenOf(a) \in Gen
        BY <2>1 DEF GenOf, IInv, TypeOK
      <3>2. GenOf(y) \in w /\ GenOf(y) # MaxGen
        BY <1>2, <2>4, <3>1, ConstantsAssumption DEF CleanupMask, Gen, GenOf
      <3>3. GenOf(y) \in NewNibble(p, c)
        <4>1. CASE IsDirty(p, c)
          <5>1. m \in {n \in Field : OnCard(n, p, c) /\ ref[n] \in Addr}
            BY <2>4 DEF OnCard
          <5>2. GenOf(y) # 0
            <6>1. m \in Loc /\ ~LeftLoc(m) /\ ~new[p] /\ PageOf[a] \in Page
              BY <2>1, <2>4, LocKinds DEF LeftLoc
            <6>2. ~Pending(m)
              BY <1>1, <1>4, <2>4, <6>1, LocKinds DEF Pending, IInv, PhaseInv, EntriesOf
            <6>3. ~Collected(PageOf[y])
              BY <1>1, <6>1, <6>2 DEF IInv, StaleInv, Stale, Left, Tracing
            <6>4. new[PageOf[y]] => GenOf(y) = NextGen(collect_gen)
              BY <2>1 DEF IInv, NewInv, GenOf
            <6>5. GenOf(y) \in Nat /\ collect_gen \in Nat /\ collect_gen <= MaxGen
              BY <3>1, GenNat DEF IInv, TypeOK
            <6> QED
              BY <3>2, <6>3, <6>4, <6>5, ConstantsAssumption DEF Collected, NextGen, GenOf
          <5>3. GenOf(y) \in MetaDirty(GenOf(y))
            BY <3>2, <5>2 DEF MetaDirty
          <5> QED BY <4>1, <5>1, <5>3 DEF NewNibble
        <4>2. CASE ~IsDirty(p, c)
          BY <2>2, <2>4, <4>2 DEF NewNibble, CardAhead
        <4> QED BY <4>1, <4>2
      <3> QED BY <1>4, <2>1, <2>4, <3>2, <3>3
    <2> QED BY <2>3, <2>4
  <1> QED BY <1>3, <1>5, <1>6, <1>7, <1>9, <1>10 DEF IInv

\* A step of handle_guardians, or the end of the roots: the collector goes on
\* tracing, and at most clears entries of the protected lists.
Regroup ==
  /\ phase \in {"roots", "collect_loop", "guardians", "final_list"}
  /\ phase' \in {"collect_loop", "guardians", "final_list", "hold_list"}
  /\ UNCHANGED <<collect_gen, scan, page, queue, type, gen, new, dirty, object>>
  /\ \A l \in Loc : ref'[l] = ref[l] \/ (l \in EntryLoc /\ ref'[l] = Nil)

\* Regroup keeps the part of the invariant that is about memory.
LEMMA RegroupInv ==
  ASSUME IInv, Regroup, TypeOK'
  PROVE  /\ PagesInv' /\ NewInv' /\ UnmappedInv' /\ ForwardInv' /\ ValidInv'
         /\ RememberedInv' /\ CopyInv' /\ WeakPairsApart'
         /\ \A l \in Loc : Stale(l)' => Stale(l) /\ ref'[l] = ref[l]
         /\ \A l \in Loc : LeftLoc(l)' <=> LeftLoc(l)
         /\ \A e \in Entry : NotOlder(e) /\ ref'[<<e, "entry">>] = ref[<<e, "entry">>] => NotOlder(e)'
  <1>1. /\ phase \in {"roots", "collect_loop", "guardians", "final_list"}
        /\ phase' \in {"collect_loop", "guardians", "final_list", "hold_list"}
        /\ UNCHANGED <<collect_gen, type, gen, new, dirty, object>>
        /\ \A l \in Loc : ref'[l] = ref[l] \/ (l \in EntryLoc /\ ref'[l] = Nil)
    BY DEF Regroup
  <1>2. \A l \in Field : ref'[l] = ref[l]
    BY <1>1, LocKinds
  <1>3. \A a \in Addr : Car(a)' = Car(a) /\ Cdr(a)' = Cdr(a)
    BY <1>2, LocKinds DEF Car, Cdr
  <1>4. \A p : (Left(p)' <=> Left(p)) /\ (Collected(p)' <=> Collected(p))
    BY <1>1 DEF Left, Collected, Tracing, Settling
  <1>5. Nil # Forward /\ Nil \notin Addr
    BY ConstantsAssumption
  <1>6. \A l \in Loc : Stale(l)' => Stale(l) /\ ref'[l] = ref[l]
    BY <1>1, <1>4, <1>5 DEF Stale
  <1>7. \A l \in Loc : LeftLoc(l)' <=> LeftLoc(l)
    BY <1>4 DEF LeftLoc
  <1>8. \A e \in Entry : NotOlder(e) /\ ref'[<<e, "entry">>] = ref[<<e, "entry">>] => NotOlder(e)'
    BY <1>1, <1>4 DEF NotOlder
  <1>9. PagesInv' /\ CopyInv' /\ WeakPairsApart'
    BY <1>1, <1>3 DEF IInv, PagesInv, CopyInv, WeakPairsApart, Allocated, Free, Forwarded, KindAt
  <1>10. NewInv' /\ UnmappedInv'
    BY <1>1 DEF IInv, NewInv, UnmappedInv, Tracing
  <1>11. ForwardInv'
    BY <1>1, <1>3, <1>5, <1>7 DEF IInv, ForwardInv, Forwarded, Tracing
  <1>12. ValidInv'
    BY <1>1, <1>5, <1>7 DEF IInv, ValidInv, Allocated, Settling
  <1>13. RememberedInv'
    <2> SUFFICES ASSUME NEW m \in Field, ref[m] \in Addr, GenOf(ref[m]) < GenOf(m[1]),
                        ~Left(PageOf[m[1]]), ~new[PageOf[m[1]]]
                 PROVE  GenOf(ref[m]) \in dirty[PageOf[m[1]]][CardOf[m[1]]]
      BY <1>1, <1>2, <1>4 DEF RememberedInv, GenOf
    <2> QED BY <1>1 DEF IInv, RememberedInv, CardAhead
  <1> QED BY <1>6, <1>7, <1>8, <1>9, <1>10, <1>11, <1>12, <1>13

\* The roots have been visited.
LEMMA EndRootsInv ==
  ASSUME IInv, EndRoots
  PROVE  IInv'
  <1>1. /\ phase = "roots" /\ todo = {} /\ phase' = "collect_loop"
        /\ UNCHANGED <<collect_gen, scan, page, todo, queue, type, gen, new, dirty, object, ref,
                       protected, pend_hold, pend_final, forward_list>>
    BY DEF EndRoots, seg_vars, mem_vars, guardian_vars
  <1>2. TypeOK'
    BY CollectorTypeInv DEF CollectorStep
  <1>3. Regroup
    BY <1>1 DEF Regroup
  <1>4. PhaseInv'
    BY <1>1 DEF IInv, PhaseInv, Collected, Settling
  <1>5. StaleInv'
    <2> SUFFICES ASSUME NEW m \in Loc, Stale(m)', ~LeftLoc(m)' PROVE Pending(m)'
      BY DEF StaleInv
    <2>1. Pending(m)
      BY <1>2, <1>3, RegroupInv DEF IInv, StaleInv
    <2> QED BY <1>1, <2>1 DEF Pending, IsWeakCar, Unsorted, CardAhead
  <1>6. ListsInv'
    BY <1>1 DEF IInv, ListsInv, Registered, HoldGen
  <1>7. EntriesInv'
    BY <1>1 DEF IInv, EntriesInv, NotOlder, Collected, GenOf, HoldGen, Tracing
  <1> QED BY <1>2, <1>3, <1>4, <1>5, <1>6, <1>7, RegroupInv DEF IInv

\* What the pairs to deliver hold has been traced.
LEMMA FinalListTracedInv ==
  ASSUME IInv, FinalListTraced
  PROVE  IInv'
  <1>1. /\ phase = "final_list" /\ todo = {} /\ queue = {} /\ phase' = "guardians"
        /\ UNCHANGED <<collect_gen, scan, page, todo, queue, type, gen, new, dirty, object, ref,
                       protected, pend_hold, pend_final, forward_list>>
    BY DEF FinalListTraced, Traced, Looping, seg_vars, mem_vars, guardian_vars
  <1>2. TypeOK'
    BY CollectorTypeInv DEF CollectorStep
  <1>3. Regroup
    BY <1>1 DEF Regroup
  <1>4. PhaseInv'
    BY <1>1 DEF IInv, PhaseInv, Collected, Settling
  <1>5. StaleInv'
    <2> SUFFICES ASSUME NEW m \in Loc, Stale(m)', ~LeftLoc(m)' PROVE Pending(m)'
      BY DEF StaleInv
    <2>1. Pending(m)
      BY <1>2, <1>3, RegroupInv DEF IInv, StaleInv
    <2> QED BY <1>1, <2>1 DEF Pending, IsWeakCar, Unsorted, CardAhead
  <1>6. ListsInv'
    BY <1>1 DEF IInv, ListsInv, Registered, HoldGen
  <1>7. EntriesInv'
    BY <1>1 DEF IInv, EntriesInv, NotOlder, Collected, GenOf, HoldGen, Tracing
  <1> QED BY <1>2, <1>3, <1>4, <1>5, <1>6, <1>7, RegroupInv DEF IInv

\* The next dirty field, root or entry is visited.
LEMMA VisitLocationInv ==
  ASSUME IInv, VisitLocation
  PROVE  IInv'
  <1> DEFINE l == CHOOSE m \in todo : TRUE
  <1>1. l \in todo
    BY DEF VisitLocation
  <1>2. Visit(l)
    BY <1>1 DEF VisitLocation, Visit
  <1> QED BY <1>2, VisitInv

\* The next queued field is visited.
LEMMA CollectLoopInv ==
  ASSUME IInv, CollectLoop
  PROVE  IInv'
  <1> DEFINE l == CHOOSE m \in queue : TRUE
  <1>1. l \in queue /\ todo = {}
    BY DEF CollectLoop, Looping
  <1>2. Visit(l)
    BY <1>1 DEF CollectLoop, Visit
  <1> QED BY <1>2, VisitInv

\* The lists of the collected generations are sorted into held and final.
LEMMA SortGuardiansInv ==
  ASSUME IInv, SortGuardians
  PROVE  IInv'
  <1> DEFINE es == UNION {protected[g] : g \in 0 .. collect_gen}
  <1>1. /\ phase = "collect_loop" /\ todo = {} /\ queue = {} /\ phase' = "guardians"
        /\ protected' = [g \in Gen |-> IF g <= collect_gen THEN {} ELSE protected[g]]
        /\ UNCHANGED <<collect_gen, scan, page, todo, queue, type, gen, new, dirty, object, ref>>
    BY DEF SortGuardians, Traced, Looping, seg_vars, mem_vars
  <1>2. pend_hold' \cup pend_final' = es /\ pend_hold' \cap pend_final' = {} /\ forward_list' = {}
    BY DEF SortGuardians
  <1>3. TypeOK'
    BY CollectorTypeInv DEF CollectorStep
  <1>4. Regroup
    BY <1>1 DEF Regroup
  <1>5. pend_hold = {} /\ pend_final = {} /\ forward_list = {}
    BY <1>1 DEF IInv, ListsInv
  <1>6. 0 .. collect_gen \subseteq Gen /\ collect_gen \in Nat
    BY ConstantsAssumption DEF IInv, TypeOK, Gen
  <1>7. PhaseInv'
    BY <1>1 DEF IInv, PhaseInv, Collected, Settling
  <1>8. Unsorted' = es
    <2>1. \A g \in 0 .. collect_gen : protected'[g] = {}
      BY <1>1, <1>6
    <2> QED BY <1>1, <1>2, <2>1 DEF Unsorted
  <1>9. StaleInv'
    <2> SUFFICES ASSUME NEW m \in Loc, Stale(m)', ~LeftLoc(m)' PROVE Pending(m)'
      BY DEF StaleInv
    <2>1. Pending(m)
      BY <1>3, <1>4, RegroupInv DEF IInv, StaleInv
    <2>2. Unsorted = es
      BY <1>5 DEF Unsorted
    <2>3. EntriesOf(Unsorted)' = EntriesOf(Unsorted)
      BY <1>8, <2>2 DEF EntriesOf
    <2> QED BY <1>1, <2>1, <2>3 DEF Pending, IsWeakCar, CardAhead
  <1>10. ListsInv'
    <2>1. \A g \in Gen : protected'[g] = IF g <= collect_gen THEN {} ELSE protected[g]
      BY <1>1
    <2>2. \A e \in Registered' : e \in Registered /\ e \notin es
      <3> SUFFICES ASSUME NEW g \in Gen, NEW e \in protected'[g]
                   PROVE  e \in Registered /\ e \notin es
        BY DEF Registered
      <3>1. e \in protected[g] /\ ~(g <= collect_gen)
        BY <2>1
      <3>2. \A h \in 0 .. collect_gen : h \in Gen /\ h # g
        BY <1>6, <3>1
      <3> QED BY <3>1, <3>2 DEF Registered, IInv, ListsInv
    <2>3. \A e \in Entry : e \notin Registered' \cup es => e \notin Registered
      <3> SUFFICES ASSUME NEW g \in Gen, NEW e \in protected[g], e \notin Registered', e \notin es
                   PROVE  FALSE
        BY DEF Registered
      <3>1. g <= collect_gen
        BY <2>1 DEF Registered
      <3>2. g \in 0 .. collect_gen
        BY <1>6, <3>1 DEF Gen
      <3> QED BY <3>2
    <2>4. \A g, h \in Gen : g # h => protected'[g] \cap protected'[h] = {}
      BY <2>1 DEF IInv, ListsInv
    <2> QED BY <1>1, <1>2, <1>5, <2>1, <2>2, <2>3, <2>4 DEF IInv, ListsInv
  <1>11. EntriesInv'
    <2>1. \A e \in es : NotOlder(e)
      <3> SUFFICES ASSUME NEW g \in 0 .. collect_gen, NEW e \in protected[g] PROVE NotOlder(e)
        OBVIOUS
      <3>1. g \in Gen /\ g <= collect_gen
        BY <1>6
      <3>2. ref[<<e, "entry">>] \in Addr /\ (GenOf(ref[<<e, "entry">>]) = g \/ NotOlder(e))
        BY <3>1 DEF IInv, EntriesInv
      <3> QED BY <3>1, <3>2 DEF NotOlder, Collected, GenOf
    <2>2. \A e \in es : NotOlder(e)'
      BY <1>1, <2>1 DEF NotOlder, Collected
    <2>3. \A g \in Gen : \A e \in protected'[g] :
             e \in protected[g] /\ g \notin 0 .. collect_gen /\ ~(g <= collect_gen)
      BY <1>1
    <2>4. \A g \in Gen : \A e \in protected'[g] :
            ref[<<e, "entry">>] \in Addr /\ GenOf(ref[<<e, "entry">>]) = g
      BY <1>1, <2>3 DEF IInv, EntriesInv
    <2> QED BY <1>1, <1>2, <2>2, <2>4 DEF EntriesInv, GenOf
  <1> QED BY <1>3, <1>4, <1>7, <1>9, <1>10, <1>11, RegroupInv DEF IInv

\* The pairs with a dead object and a live guardian are put on the forward list.
LEMMA FinalGuardiansInv ==
  ASSUME IInv, FinalGuardians
  PROVE  IInv'
  <1>1. /\ phase = "guardians" /\ phase' = "final_list"
        /\ FinalList \subseteq pend_final
        /\ pend_final' = pend_final \ FinalList
        /\ forward_list' = forward_list \cup FinalList
        /\ todo' = EntriesOf(FinalList)
        /\ UNCHANGED <<collect_gen, scan, page, queue, type, gen, new, dirty, object, ref,
                       protected, pend_hold>>
    BY DEF FinalGuardians, FinalList, seg_vars, mem_vars
  <1>2. TypeOK'
    BY CollectorTypeInv DEF CollectorStep
  <1>3. Regroup
    BY <1>1 DEF Regroup
  <1>4. todo = {} /\ queue = {}
    BY <1>1 DEF IInv, PhaseInv
  <1>5. PhaseInv'
    <2>1. todo' \subseteq EntriesOf(forward_list)'
      BY <1>1 DEF EntriesOf
    <2> QED BY <1>1, <1>4, <2>1 DEF IInv, PhaseInv, Collected, Settling
  <1>6. StaleInv'
    <2> SUFFICES ASSUME NEW m \in Loc, Stale(m)', ~LeftLoc(m)' PROVE Pending(m)'
      BY DEF StaleInv
    <2>1. Pending(m)
      BY <1>2, <1>3, RegroupInv DEF IInv, StaleInv
    <2>2. EntriesOf(Unsorted) \subseteq EntriesOf(Unsorted)' \cup todo'
      BY <1>1 DEF EntriesOf, Unsorted
    <2> QED BY <1>1, <1>4, <2>1, <2>2 DEF Pending, IsWeakCar, CardAhead
  <1>7. ListsInv'
    BY <1>1 DEF IInv, ListsInv, Registered, HoldGen
  <1>8. EntriesInv'
    BY <1>1 DEF IInv, EntriesInv, NotOlder, Collected, GenOf, HoldGen, Tracing
  <1> QED BY <1>2, <1>3, <1>5, <1>6, <1>7, <1>8, RegroupInv DEF IInv

\* The pairs on hold go to the list of the target generation, the others are dropped.
LEMMA HoldGuardiansInv ==
  ASSUME IInv, HoldGuardians
  PROVE  IInv'
  <1> DEFINE held == {e \in pend_hold : IsLive(TconcOf(e))}
             dropped == (pend_hold \cup pend_final) \ held
  <1>1. /\ phase = "guardians" /\ phase' = "hold_list"
        /\ pend_final' = {} /\ pend_hold' = {}
        /\ protected' = [protected EXCEPT ![HoldGen] = @ \cup held]
        /\ todo' = EntriesOf(held)
        /\ ref' = [l \in Loc |-> IF l \in EntriesOf(dropped) THEN Nil ELSE ref[l]]
        /\ UNCHANGED <<collect_gen, scan, page, queue, type, gen, new, dirty, object,
                       forward_list>>
    BY DEF HoldGuardians, seg_vars
  <1>2. TypeOK'
    BY CollectorTypeInv DEF CollectorStep
  <1>3. held \subseteq pend_hold /\ dropped \subseteq pend_hold \cup pend_final /\ held \cap dropped = {}
    OBVIOUS
  <1>4. HoldGen \in Gen /\ HoldGen' = HoldGen
    BY <1>1, NextGenType DEF HoldGen, IInv, TypeOK
  <1>5. /\ protected'[HoldGen] = protected[HoldGen] \cup held
        /\ \A g \in Gen : g # HoldGen => protected'[g] = protected[g]
    BY <1>1, <1>4 DEF IInv, TypeOK
  <1>6. pend_hold \cup pend_final \subseteq Entry
    BY DEF IInv, TypeOK
  <1> HIDE DEF held, dropped
  <1>7. Regroup
    BY <1>1, <1>3, <1>6 DEF Regroup, EntriesOf, EntryLoc
  <1>8. todo = {} /\ queue = {}
    BY <1>1 DEF IInv, PhaseInv
  <1>9. \A e \in Entry : ref'[<<e, "entry">>] = IF e \in dropped THEN Nil ELSE ref[<<e, "entry">>]
    BY <1>1 DEF EntriesOf, EntryLoc, Loc
  <1>10. PhaseInv'
    <2>1. todo' \subseteq EntriesOf(protected[HoldGen])'
      BY <1>1, <1>4, <1>5 DEF EntriesOf
    <2> QED BY <1>1, <1>4, <1>8, <2>1 DEF IInv, PhaseInv, Collected, Settling
  <1>11. \A g \in Gen : g <= collect_gen => protected[g] = {}
    BY <1>1 DEF IInv, ListsInv
  <1>12. StaleInv'
    <2> SUFFICES ASSUME NEW m \in Loc, Stale(m)', ~LeftLoc(m)' PROVE Pending(m)'
      BY DEF StaleInv
    <2>1. Pending(m) /\ ref'[m] \in Addr
      BY <1>2, <1>7, RegroupInv DEF IInv, StaleInv, Stale
    <2>2. m \notin EntriesOf(dropped)
      BY <1>1, <2>1, ConstantsAssumption
    <2>3. Unsorted = pend_hold \cup pend_final
      <3>1. \A g \in 0 .. collect_gen : protected[g] = {}
        BY <1>11, ConstantsAssumption DEF IInv, TypeOK, Gen
      <3> QED BY <3>1 DEF Unsorted
    <2>4. m \in EntriesOf(Unsorted) => m \in todo'
      BY <1>1, <2>2, <2>3 DEF EntriesOf, dropped
    <2> QED BY <1>1, <1>8, <2>1, <2>4 DEF Pending, IsWeakCar, CardAhead
  <1>13. ListsInv'
    <2>1. Registered' = Registered \cup held
      BY <1>4, <1>5 DEF Registered
    <2>2. \A e \in Entry : e \notin Registered' \cup forward_list' => ref'[<<e, "entry">>] = Nil
      BY <1>1, <1>9, <2>1 DEF IInv, ListsInv, dropped
    <2>3. Registered' \cap forward_list' = {}
      BY <1>1, <1>3, <2>1 DEF IInv, ListsInv
    <2>4. \A g, h \in Gen : g # h => protected'[g] \cap protected'[h] = {}
      <3>1. \A g \in Gen : protected[g] \cap held = {}
        BY <1>3 DEF IInv, ListsInv, Registered
      <3> QED BY <1>4, <1>5, <3>1 DEF IInv, ListsInv
    <2>5. \A g \in Gen : g <= collect_gen /\ g # HoldGen => protected'[g] = {}
      BY <1>5, <1>11
    <2> QED BY <1>1, <1>4, <2>2, <2>3, <2>4, <2>5 DEF ListsInv
  <1>14. EntriesInv'
    <2>1. \A e \in forward_list : e \notin dropped
      BY <1>3 DEF IInv, ListsInv
    <2>2. \A e \in held \cup forward_list : NotOlder(e)'
      <3> SUFFICES ASSUME NEW e \in held \cup forward_list PROVE NotOlder(e)'
        OBVIOUS
      <3>1. e \in Entry /\ NotOlder(e) /\ e \notin dropped
        BY <1>1, <1>3, <1>6, <2>1 DEF IInv, EntriesInv, Tracing, TypeOK
      <3> QED BY <1>1, <1>9, <3>1 DEF NotOlder, Collected
    <2>3. ASSUME NEW g \in Gen, NEW e \in protected[g]
          PROVE  ref'[<<e, "entry">>] \in Addr /\ GenOf(ref[<<e, "entry">>])' = g
      <3>1. e \in Entry /\ e \notin dropped
        BY <1>3 DEF IInv, TypeOK, ListsInv, Registered
      <3>2. ref[<<e, "entry">>] \in Addr /\ GenOf(ref[<<e, "entry">>]) = g
        BY <1>1, <1>11 DEF IInv, EntriesInv
      <3> QED BY <1>1, <1>9, <3>1, <3>2 DEF GenOf
    <2>4. \A e \in held : ref'[<<e, "entry">>] \in Addr
      BY <2>2 DEF NotOlder
    <2>5. \A g \in Gen : \A e \in protected'[g] : e \in protected[g] \/ (g = HoldGen /\ e \in held)
      BY <1>5
    <2> QED BY <1>1, <1>4, <2>2, <2>3, <2>4, <2>5 DEF EntriesInv, Tracing
  <1> QED BY <1>2, <1>7, <1>10, <1>12, <1>13, <1>14, RegroupInv DEF IInv

\* After fix_weak_pointers no weak car leads to a page that is left.
LEMMA FixWeakPointersInv ==
  ASSUME IInv, FixWeakPointers
  PROVE  IInv'
  <1> DEFINE Fixed(l) == IsWeakCar(l) /\ new[PageOf[l[1]]]
  <1>1. /\ phase = "hold_list" /\ phase' = "deallocate_unused_pages"
        /\ todo = {} /\ queue = {}
        /\ ref' = [l \in Loc |-> IF Fixed(l) THEN FixedCar(ref[l]) ELSE ref[l]]
        /\ UNCHANGED <<collect_gen, scan, page, todo, queue, type, gen, new, dirty, object,
                       protected, pend_hold, pend_final, forward_list>>
    BY DEF FixWeakPointers, Traced, Looping, seg_vars, guardian_vars
  <1>2. TypeOK'
    BY CollectorTypeInv DEF CollectorStep
  <1>3. \A p : (Left(p)' <=> Left(p)) /\ (Collected(p)' <=> Collected(p)) /\ (Left(p) <=> Collected(p))
    BY <1>1 DEF Left, Collected, Tracing, Settling
  \* what replaces the car of a weak pair is live or no pointer at all
  <1>4. ASSUME NEW l \in Loc, Fixed(l)
        PROVE  /\ l \in Field /\ ~LeftLoc(l)
               /\ ref[l] # Forward /\ ref'[l] # Forward
               /\ ref[l] = Nil => ref'[l] = Nil
               /\ ref'[l] \in Addr => Allocated(ref'[l]) /\ ~Left(PageOf[ref'[l]])
    <2> DEFINE x == ref[l]
    <2>1. l \in Field /\ ~LeftLoc(l)
      BY <1>3, <1>4 DEF IsWeakCar, LeftLoc, Collected
    <2>2. x # Forward /\ (x \in Addr => Allocated(x))
      BY <1>1, <2>1 DEF IInv, ForwardInv, ValidInv, Settling
    <2>3. ref'[l] = FixedCar(x)
      BY <1>1, <1>4
    <2>4. CASE x \notin Addr
      BY <2>1, <2>2, <2>3, <2>4 DEF FixedCar
    <2>5. CASE x \in Addr /\ Forwarded(x)
      <3>1. Cdr(x) \in Addr /\ new[PageOf[Cdr(x)]]
        BY <1>1, <2>5 DEF IInv, ForwardInv, Tracing
      <3>2. Allocated(Cdr(x))
        BY <1>1, <2>5, <3>1, LocKinds DEF IInv, ValidInv, Settling, Cdr
      <3>3. ref'[l] = Cdr(x)
        BY <2>3, <2>5 DEF FixedCar
      <3>4. ~Left(PageOf[Cdr(x)])
        BY <1>3, <3>1 DEF Collected
      <3> QED BY <2>1, <2>2, <2>5, <3>1, <3>2, <3>3, <3>4, ConstantsAssumption
    <2>6. CASE x \in Addr /\ ~Forwarded(x) /\ Collected(PageOf[x])
      <3>1. ref'[l] = Bwp
        BY <2>3, <2>6 DEF FixedCar
      <3> QED BY <2>1, <2>2, <2>6, <3>1, ConstantsAssumption
    <2>7. CASE x \in Addr /\ ~Forwarded(x) /\ ~Collected(PageOf[x])
      <3>1. ref'[l] = x
        BY <2>3, <2>7 DEF FixedCar
      <3> QED BY <1>3, <2>1, <2>2, <2>7, <3>1, ConstantsAssumption
    <2> QED BY <2>4, <2>5, <2>6, <2>7
  <1>5. \A l \in Loc : ~Fixed(l) => ref'[l] = ref[l]
    BY <1>1
  <1>6. \A l \in Loc : LeftLoc(l)' <=> LeftLoc(l)
    BY <1>3 DEF LeftLoc
  <1> HIDE DEF Fixed
  <1>7. \A l \in Loc : (ref[l] = Nil => ref'[l] = Nil) /\ (ref[l] = Forward <=> ref'[l] = Forward)
    BY <1>4, <1>5
  <1>8. \A a \in Addr : /\ <<a, "car">> \in Loc /\ <<a, "cdr">> \in Loc
                        /\ Car(a) = Nil => Car(a)' = Nil
                        /\ Forwarded(a)' <=> Forwarded(a)
                        /\ Cdr(a)' = Cdr(a)
    <2> SUFFICES ASSUME NEW a \in Addr
                 PROVE  /\ <<a, "car">> \in Loc /\ <<a, "cdr">> \in Loc
                        /\ Car(a) = Nil => Car(a)' = Nil
                        /\ Forwarded(a)' <=> Forwarded(a)
                        /\ Cdr(a)' = Cdr(a)
      OBVIOUS
    <2>1. <<a, "car">> \in Loc /\ <<a, "cdr">> \in Loc
      BY LocKinds
    <2>2. ~Fixed(<<a, "cdr">>)
      BY DEF Fixed, IsWeakCar
    <2> QED BY <1>5, <1>7, <2>1, <2>2 DEF Car, Cdr, Forwarded
  <1>9. PagesInv' /\ CopyInv' /\ WeakPairsApart'
    BY <1>1, <1>8 DEF IInv, PagesInv, CopyInv, WeakPairsApart, Allocated, Free, KindAt
  <1>10. NewInv' /\ UnmappedInv'
    BY <1>1 DEF IInv, NewInv, UnmappedInv, Tracing
  <1>11. ForwardInv'
    BY <1>1, <1>6, <1>7, <1>8 DEF IInv, ForwardInv, Tracing
  <1>12. ValidInv'
    BY <1>1, <1>4, <1>5 DEF IInv, ValidInv, Allocated, Settling
  <1>13. PhaseInv'
    BY <1>1 DEF IInv, PhaseInv, Collected
  \* nothing is left to visit, so nothing is stale but the weak cars
  <1>14. \A l \in Loc : Stale(l) /\ ~LeftLoc(l) => Fixed(l)
    <2> SUFFICES ASSUME NEW l \in Loc, Stale(l), ~LeftLoc(l) PROVE Fixed(l)
      OBVIOUS
    <2>1. Pending(l)
      BY DEF IInv, StaleInv
    <2> QED BY <1>1, <2>1 DEF Pending, CardAhead, Fixed
  <1>15. StaleInv'
    <2> SUFFICES ASSUME NEW l \in Loc, Stale(l)', ~LeftLoc(l)' PROVE FALSE
      BY DEF StaleInv
    <2>1. CASE Fixed(l)
      <3>1. \A p : p = PageOf[ref'[l]] => (Left(p)' <=> Left(p))
        BY <1>3
      <3> QED BY <1>3, <1>4, <2>1, <3>1 DEF Stale
    <2>2. CASE ~Fixed(l)
      <3>1. Stale(l) /\ ~LeftLoc(l)
        BY <1>3, <1>5, <1>6, <2>2 DEF Stale
      <3> QED BY <1>14, <2>2, <3>1
    <2> QED BY <2>1, <2>2
  <1>16. RememberedInv'
    <2> SUFFICES ASSUME NEW m \in Field, ref'[m] \in Addr, GenOf(ref[m])' < GenOf(m[1])',
                        ~Left(PageOf[m[1]])', ~new[PageOf[m[1]]]
                 PROVE  GenOf(ref[m])' \in dirty[PageOf[m[1]]][CardOf[m[1]]]
      BY <1>1 DEF RememberedInv
    <2>1. ref'[m] = ref[m]
      BY <1>5, LocKinds DEF Fixed
    <2>2. ~Left(PageOf[m[1]])
      BY <1>3
    <2> QED BY <1>1, <2>1, <2>2 DEF IInv, RememberedInv, GenOf, CardAhead
  <1>17. \A e \in Entry : <<e, "entry">> \in Loc /\ ref'[<<e, "entry">>] = ref[<<e, "entry">>]
    BY <1>5, LocKinds DEF Fixed, IsWeakCar, EntryLoc, Loc
  <1>18. ListsInv'
    BY <1>1, <1>17 DEF IInv, ListsInv, Registered
  <1>19. EntriesInv'
    <2>1. \A e \in forward_list : NotOlder(e)'
      BY <1>1, <1>17 DEF IInv, EntriesInv, NotOlder, Collected, Tracing, TypeOK
    <2>2. pend_hold = {} /\ pend_final = {}
      BY <1>1 DEF IInv, ListsInv
    <2>3. ASSUME NEW g \in Gen, NEW e \in protected[g]
          PROVE  ref'[<<e, "entry">>] \in Addr /\ GenOf(ref[<<e, "entry">>])' = g
      <3> DEFINE l == <<e, "entry">>
                 x == ref[<<e, "entry">>]
      <3>1. e \in Entry /\ l \in Loc /\ x \in Addr /\ ref'[l] = x
        BY <1>17 DEF IInv, TypeOK, EntriesInv
      <3>2. \/ GenOf(x) = g
            \/ /\ NotOlder(e)
               /\ g <= collect_gen \/ g = HoldGen
        BY DEF IInv, EntriesInv
      <3>3. g = HoldGen \/ ~(g <= collect_gen)
        BY <1>1 DEF IInv, ListsInv
      <3>4. NotOlder(e) => GenOf(x) = HoldGen
        <4>1. l \notin Field
          BY LocKinds
        <4>2. ~Stale(l)
          BY <1>14, <3>1, <4>1 DEF LeftLoc, Fixed, IsWeakCar
        <4>3. ~Collected(PageOf[x])
          BY <1>3, <3>1, <4>2 DEF Stale
        <4> QED BY <3>1, <4>3, ConstantsAssumption DEF NotOlder, IInv, NewInv, HoldGen, GenOf
      <3>5. GenOf(x) = g
        BY <3>2, <3>3, <3>4
      <3> QED BY <1>1, <3>1, <3>5 DEF GenOf
    <2> QED BY <1>1, <2>1, <2>2, <2>3 DEF EntriesInv
  <1> QED BY <1>2, <1>9, <1>10, <1>11, <1>12, <1>13, <1>15, <1>16, <1>18, <1>19 DEF IInv

\* Pages are unmapped once nothing outside the pages that are left leads to
\* them; what else is left stays so.
LEMMA UnmapInv ==
  ASSUME IInv, NEW ps \in SUBSET Page, Unmap(ps), TypeOK',
         UNCHANGED <<new, page, scan>>, phase # "scan_dirty_pages", phase' # "scan_dirty_pages",
         \A p \in ps : Left(p) /\ ~new[p],
         \A p \in Page \ ps : type[p] # "hole" => (Left(p)' <=> Left(p)),
         \A l \in Loc : ~Stale(l) \/ LeftLoc(l),
         phase' \notin Tracing
  PROVE  /\ PagesInv' /\ ForwardInv' /\ ValidInv' /\ StaleInv' /\ RememberedInv'
         /\ CopyInv' /\ WeakPairsApart'
         /\ \A p \in Page : p \notin ps => type'[p] = type[p] /\ gen'[p] = gen[p]
         /\ \A l \in Loc : l \notin Field => /\ ref'[l] = ref[l]
                                             /\ ref[l] \in Addr => PageOf[ref[l]] \in Page \ ps
  <1>1. /\ \A p \in Page : type'[p] = IF p \in ps THEN "hole" ELSE type[p]
        /\ \A p \in Page : gen'[p] = IF p \in ps THEN 0 ELSE gen[p]
        /\ \A p \in Page : p \notin ps => dirty'[p] = dirty[p]
        /\ \A a \in Addr : object'[a] = IF PageOf[a] \in ps THEN NoObject ELSE object[a]
        /\ \A l \in Loc : ref'[l] = IF l \in Field /\ PageOf[l[1]] \in ps THEN Nil ELSE ref[l]
        /\ new' = new
    BY DEF Unmap
  <1>2. \A a \in Addr : PageOf[a] \in Page /\ <<a, "car">> \in Loc /\ <<a, "cdr">> \in Loc
    BY LocKinds, ConstantsAssumption
  <1>3. \A a \in Addr : /\ Allocated(a)' <=> Allocated(a) /\ PageOf[a] \notin ps
                        /\ PageOf[a] \in ps => Car(a)' = Nil /\ Cdr(a)' = Nil
                        /\ PageOf[a] \notin ps => /\ Car(a)' = Car(a) /\ Cdr(a)' = Cdr(a)
                                                  /\ object'[a] = object[a]
    BY <1>1, <1>2, LocKinds DEF Allocated, Car, Cdr
  <1>4. Nil # Forward /\ Nil \notin Addr
    BY ConstantsAssumption
  <1>5. ASSUME NEW m \in Field, ref'[m] # Nil
        PROVE  /\ m[1] \in Addr /\ Allocated(m[1]) /\ PageOf[m[1]] \in Page \ ps
               /\ ref'[m] = ref[m] /\ ref[m] # Nil
               /\ LeftLoc(m)' <=> LeftLoc(m)
    <2>1. PageOf[m[1]] \notin ps /\ ref'[m] = ref[m]
      BY <1>1, <1>5, LocKinds
    <2>2. m[1] \in Addr /\ Allocated(m[1]) /\ PageOf[m[1]] \in Page
      BY <1>5, <2>1, PointerField
    <2>3. type[PageOf[m[1]]] # "hole"
      BY <2>2 DEF IInv, PagesInv
    <2>4. \A p \in Page : p = PageOf[m[1]] => (Left(p)' <=> Left(p))
      BY <2>1, <2>3
    <2> QED BY <1>5, <2>1, <2>2, <2>4 DEF LeftLoc
  \* a pointer that is kept leads to a page that is kept
  <1>6. ASSUME NEW l \in Loc, ref'[l] \in Addr, ~LeftLoc(l)
        PROVE  ref'[l] = ref[l] /\ ~Left(PageOf[ref[l]]) /\ PageOf[ref[l]] \in Page \ ps
    <2>1. ref'[l] = ref[l]
      BY <1>1, <1>4, <1>6
    <2>2. ~Left(PageOf[ref[l]])
      BY <1>6, <2>1 DEF Stale
    <2> QED BY <1>2, <1>6, <2>1, <2>2
  <1>7. PagesInv'
    <2>1. \A a \in Addr : Free(a)' => Car(a)' = Nil /\ Cdr(a)' = Nil
      BY <1>3 DEF IInv, PagesInv, Free
    <2>2. \A a \in Addr : Allocated(a)' => type'[PageOf[a]] # "hole"
      BY <1>1, <1>2, <1>3 DEF IInv, PagesInv
    <2>3. \A p \in Page : type'[p] = "mainheap" => gen'[p] = 0 /\ ~new'[p]
      BY <1>1 DEF IInv, PagesInv
    <2>4. \A a, b \in Addr : /\ Allocated(a)' /\ Allocated(b)' /\ PageOf[a] = PageOf[b]
                             /\ type'[PageOf[a]] = "large"
                             => a = b
      BY <1>1, <1>2, <1>3 DEF IInv, PagesInv
    <2> QED BY <2>1, <2>2, <2>3, <2>4 DEF PagesInv
  <1>8. ForwardInv'
    <2>1. \A l \in Loc : ref'[l] = Forward => l \in Field /\ l[2] = "car" /\ LeftLoc(l)'
      <3> SUFFICES ASSUME NEW l \in Loc, ref'[l] = Forward
                   PROVE  l \in Field /\ l[2] = "car" /\ LeftLoc(l)'
        OBVIOUS
      <3>1. ref[l] = Forward
        BY <1>1, <1>4
      <3>2. l \in Field /\ l[2] = "car" /\ LeftLoc(l)
        BY <3>1 DEF IInv, ForwardInv
      <3> QED BY <1>4, <1>5, <3>2
    <2> QED BY <2>1 DEF ForwardInv
  <1>9. ASSUME NEW l \in Loc, ref'[l] \in Addr, ~LeftLoc(l)' PROVE ~LeftLoc(l)
    <2>1. CASE l \in Field
      BY <1>4, <1>5, <1>9, <2>1
    <2>2. CASE l \notin Field
      BY <2>2 DEF LeftLoc
    <2> QED BY <2>1, <2>2
  <1>10. StaleInv'
    <2> SUFFICES ASSUME NEW l \in Loc, Stale(l)', ~LeftLoc(l)' PROVE FALSE
      BY DEF StaleInv
    <2> DEFINE x == ref[l]
    <2>1. ref'[l] = x /\ x \in Addr /\ ~LeftLoc(l) /\ ~Left(PageOf[x]) /\ PageOf[x] \in Page \ ps
      BY <1>6, <1>9 DEF Stale
    <2>2. phase' \in Settling /\ type'[PageOf[x]] = "mainheap"
      BY <2>1 DEF Stale, Left
    <2>3. type[PageOf[x]] # "hole"
      BY <1>1, <2>1, <2>2
    <2>4. \A p \in Page : p = PageOf[x] => (Left(p)' <=> Left(p))
      BY <2>1, <2>3
    <2> QED BY <2>1, <2>2, <2>4 DEF Left
  <1>11. RememberedInv'
    <2> SUFFICES ASSUME NEW m \in Field, ref'[m] \in Addr, GenOf(ref[m])' < GenOf(m[1])',
                        ~Left(PageOf[m[1]])', ~new'[PageOf[m[1]]]
                 PROVE  GenOf(ref[m])' \in dirty'[PageOf[m[1]]][CardOf[m[1]]]
      BY DEF RememberedInv
    <2>1. m \in Loc /\ PageOf[m[1]] \in Page \ ps /\ ref'[m] = ref[m]
      BY <1>4, <1>5, LocKinds
    <2>2. ~LeftLoc(m)'
      BY DEF LeftLoc
    <2>3. ~LeftLoc(m)
      BY <1>9, <2>1, <2>2
    <2>4. PageOf[ref[m]] \in Page \ ps
      BY <1>6, <2>1, <2>3
    <2>5. GenOf(ref[m])' = GenOf(ref[m]) /\ GenOf(m[1])' = GenOf(m[1])
      BY <1>1, <2>1, <2>4 DEF GenOf
    <2>6. ~Left(PageOf[m[1]]) /\ ~new[PageOf[m[1]]]
      BY <1>1, <2>3 DEF LeftLoc
    <2>7. GenOf(ref[m]) \in dirty[PageOf[m[1]]][CardOf[m[1]]]
      BY <2>1, <2>5, <2>6 DEF IInv, RememberedInv, CardAhead
    <2> QED BY <1>1, <2>1, <2>5, <2>7
  <1>12. CopyInv'
    <2> SUFFICES ASSUME NEW a \in Addr, NEW b \in Addr, Allocated(a)',
                        object'[a] = object'[b], ~Forwarded(a)', ~Forwarded(b)'
                 PROVE  a = b
      BY DEF CopyInv
    <2>1. Allocated(a) /\ Allocated(b) /\ PageOf[a] \notin ps /\ PageOf[b] \notin ps
      BY <1>3 DEF Allocated
    <2>2. object[a] = object[b] /\ ~Forwarded(a) /\ ~Forwarded(b)
      BY <1>3, <2>1 DEF Forwarded
    <2> QED BY <2>1, <2>2 DEF IInv, CopyInv
  <1>13. WeakPairsApart'
    BY <1>1, <1>2, <1>3 DEF IInv, WeakPairsApart, KindAt
  <1>14. ValidInv'
    <2> SUFFICES ASSUME NEW l \in Loc, ref'[l] \in Addr, phase' \in Settling => ~LeftLoc(l)'
                 PROVE  Allocated(ref[l])'
      BY DEF ValidInv
    <2>1. ~LeftLoc(l)'
      BY DEF LeftLoc, Left
    <2>2. ref'[l] = ref[l] /\ ~LeftLoc(l) /\ PageOf[ref[l]] \in Page \ ps
      BY <1>6, <1>9, <2>1
    <2>3. Allocated(ref[l])
      BY <2>2 DEF IInv, ValidInv
    <2>4. \A x \in Addr : x = ref'[l] => Allocated(x)'
      BY <1>3, <2>2, <2>3
    <2> QED BY <2>4 DEF Allocated
  <1>15. \A l \in Loc : l \notin Field => /\ ref'[l] = ref[l]
                                          /\ ref[l] \in Addr => PageOf[ref[l]] \in Page \ ps
    BY <1>1, <1>6 DEF LeftLoc
  <1> QED BY <1>1, <1>7, <1>8, <1>10, <1>11, <1>12, <1>13, <1>14, <1>15

\* The pages that are left, but for the main heap, are unmapped.
LEMMA DeallocateUnusedPagesInv ==
  ASSUME IInv, DeallocateUnusedPages
  PROVE  IInv'
  <1>1. /\ phase = "deallocate_unused_pages" /\ phase' = "fix_new_pages"
        /\ Unmap(UnusedPages)
        /\ UNCHANGED <<collect_gen, scan, page, todo, queue, new,
                       protected, pend_hold, pend_final, forward_list>>
    BY DEF DeallocateUnusedPages, guardian_vars
  <1>2. TypeOK'
    BY CollectorTypeInv DEF CollectorStep
  <1>3. todo = {} /\ queue = {}
    BY <1>1 DEF IInv, PhaseInv
  <1>4. \A p : Left(p) <=> Collected(p)
    BY <1>1 DEF Left, Tracing, Settling
  <1>5. UnusedPages \in SUBSET Page /\ \A p \in UnusedPages : Left(p) /\ ~new[p]
    BY <1>4 DEF UnusedPages, Collected
  <1>6. ASSUME NEW p \in Page \ UnusedPages, type[p] # "hole"
        PROVE  Left(p)' <=> Left(p)
    <2>1. type'[p] = type[p]
      BY <1>1 DEF Unmap
    <2>2. Left(p)' <=> type[p] = "mainheap"
      BY <1>1, <2>1 DEF Left, Tracing, Settling
    <2>3. type[p] = "mainheap" => Collected(p)
      BY DEF IInv, PagesInv, Collected, TypeOK, Gen
    <2>4. type[p] # "mainheap" => ~Collected(p)
      BY <1>6 DEF UnusedPages, Scannable, PageType, IInv, TypeOK
    <2> QED BY <1>4, <2>2, <2>3, <2>4
  <1>7. \A l \in Loc : ~Stale(l) \/ LeftLoc(l)
    BY <1>1, <1>3 DEF IInv, StaleInv, Pending, CardAhead
  <1>8. phase' \notin Tracing
    BY <1>1 DEF Tracing
  <1>9. /\ PagesInv' /\ ForwardInv' /\ ValidInv' /\ StaleInv' /\ RememberedInv'
        /\ CopyInv' /\ WeakPairsApart'
        /\ \A p \in Page : p \notin UnusedPages => type'[p] = type[p] /\ gen'[p] = gen[p]
        /\ \A l \in Loc : l \notin Field => /\ ref'[l] = ref[l]
                                            /\ ref[l] \in Addr => PageOf[ref[l]] \in Page \ UnusedPages
    BY <1>1, <1>2, <1>5, <1>6, <1>7, <1>8, UnmapInv
  <1>10. NewInv'
    BY <1>1, <1>5, <1>9 DEF IInv, NewInv
  <1>11. UnmappedInv'
    <2> SUFFICES ASSUME NEW p \in Page, type'[p] \in Scannable, Collected(p)' PROVE FALSE
      BY DEF UnmappedInv
    <2>1. p \notin UnusedPages
      BY <1>1 DEF Unmap, Scannable
    <2> QED BY <1>1, <1>9, <2>1 DEF UnusedPages, Collected
  <1>12. PhaseInv'
    BY <1>1, <1>3 DEF IInv, PhaseInv
  <1>13. \A e \in Entry : /\ <<e, "entry">> \in Loc
                          /\ ref'[<<e, "entry">>] = ref[<<e, "entry">>]
                          /\ ref[<<e, "entry">>] \in Addr => GenOf(ref[<<e, "entry">>])' = GenOf(ref[<<e, "entry">>])
    <2>1. \A e \in Entry : <<e, "entry">> \in Loc /\ <<e, "entry">> \notin Field
      BY LocKinds DEF EntryLoc, Loc
    <2> QED BY <1>9, <2>1 DEF GenOf
  <1>14. ListsInv'
    BY <1>1, <1>13 DEF IInv, ListsInv, Registered
  <1>15. EntriesInv'
    BY <1>1, <1>8, <1>13 DEF IInv, EntriesInv, TypeOK
  <1> QED BY <1>2, <1>9, <1>10, <1>11, <1>12, <1>14, <1>15 DEF IInv

\* The old main heap is unmapped, and the collection is over.
LEMMA ResetHeapInv ==
  ASSUME IInv, ResetHeap
  PROVE  IInv'
  <1> DEFINE ps == {p \in Page : type[p] = "mainheap"}
  <1>1. /\ phase = "gc_finalize_guardians" /\ phase' = "mutator" /\ forward_list = {}
        /\ Unmap(ps)
        /\ UNCHANGED <<collect_gen, scan, page, todo, queue, new,
                       protected, pend_hold, pend_final, forward_list>>
    BY DEF ResetHeap, guardian_vars
  <1>2. TypeOK'
    BY CollectorTypeInv DEF CollectorStep
  <1>3. todo = {} /\ queue = {} /\ \A p \in Page : ~new[p]
    BY <1>1 DEF IInv, PhaseInv, NewInv, Tracing, Settling
  <1>4. \A p \in Page : (Left(p) <=> p \in ps) /\ ~Left(p)'
    BY <1>1 DEF Left, Tracing, Settling
  <1>5. \A l \in Loc : ~Stale(l) \/ LeftLoc(l)
    <2> SUFFICES ASSUME NEW l \in Loc, Pending(l) PROVE FALSE
      BY DEF IInv, StaleInv
    <2>1. l \in Field /\ new[PageOf[l[1]]] /\ PageOf[l[1]] \in Page
      BY <1>1, <1>3, LocKinds, ConstantsAssumption DEF Pending, CardAhead
    <2> QED BY <1>3, <2>1
  <1>6. phase' \notin Tracing
    BY <1>1 DEF Tracing
  <1>7. /\ ps \in SUBSET Page
        /\ \A p \in ps : Left(p) /\ ~new[p]
        /\ \A p \in Page \ ps : Left(p)' <=> Left(p)
    BY <1>3, <1>4
  <1> HIDE DEF ps
  <1>8. /\ PagesInv' /\ ForwardInv' /\ ValidInv' /\ StaleInv' /\ RememberedInv'
        /\ CopyInv' /\ WeakPairsApart'
        /\ \A p \in Page : p \notin ps => type'[p] = type[p] /\ gen'[p] = gen[p]
        /\ \A l \in Loc : l \notin Field => /\ ref'[l] = ref[l]
                                            /\ ref[l] \in Addr => PageOf[ref[l]] \in Page \ ps
    BY <1>1, <1>2, <1>5, <1>6, <1>7, UnmapInv
  <1>9. NewInv' /\ UnmappedInv'
    BY <1>1, <1>3 DEF NewInv, UnmappedInv
  <1>10. PhaseInv'
    BY <1>1, <1>3 DEF IInv, PhaseInv
  <1>11. \A e \in Entry : /\ ref'[<<e, "entry">>] = ref[<<e, "entry">>]
                          /\ ref[<<e, "entry">>] \in Addr => GenOf(ref[<<e, "entry">>])' = GenOf(ref[<<e, "entry">>])
    <2>1. \A e \in Entry : <<e, "entry">> \in Loc /\ <<e, "entry">> \notin Field
      BY LocKinds DEF EntryLoc, Loc
    <2> QED BY <1>8, <2>1 DEF GenOf
  <1>12. ListsInv'
    BY <1>1, <1>11 DEF IInv, ListsInv, Registered
  <1>13. EntriesInv'
    BY <1>1, <1>6, <1>11 DEF IInv, EntriesInv, TypeOK, Tracing
  <1> QED BY <1>2, <1>8, <1>9, <1>10, <1>12, <1>13 DEF IInv

\* The new bits are cleared: new pages lead to nothing younger than themselves.
LEMMA FixNewPagesInv ==
  ASSUME IInv, FixNewPages
  PROVE  IInv'
  <1>1. /\ phase = "fix_new_pages" /\ phase' = "gc_finalize_guardians"
        /\ \A p \in Page : ~new'[p]
        /\ UNCHANGED <<collect_gen, scan, page, todo, queue, type, gen, dirty, object, ref,
                       protected, pend_hold, pend_final, forward_list>>
    BY DEF FixNewPages, mem_vars, guardian_vars
  <1>2. TypeOK'
    BY CollectorTypeInv DEF CollectorStep
  <1>3. todo = {} /\ queue = {}
    BY <1>1 DEF IInv, PhaseInv, Settling
  <1>4. \A p : Left(p)' <=> Left(p)
    BY <1>1 DEF Left, Tracing, Settling
  <1>5. \A l \in Loc : Stale(l) => LeftLoc(l)
    BY <1>1, <1>3 DEF IInv, StaleInv, Pending, CardAhead
  <1>6. PagesInv' /\ NewInv' /\ UnmappedInv' /\ PhaseInv' /\ CopyInv' /\ WeakPairsApart' /\ ListsInv'
    BY <1>1 DEF IInv, PagesInv, NewInv, UnmappedInv, PhaseInv, CopyInv, WeakPairsApart, ListsInv,
                Allocated, Free, Car, Cdr, Forwarded, KindAt, Registered, Settling
  <1>7. ForwardInv' /\ ValidInv' /\ EntriesInv'
    BY <1>1, <1>4 DEF IInv, ForwardInv, ValidInv, EntriesInv, LeftLoc, Allocated, GenOf,
                      Tracing, Settling
  <1>8. StaleInv'
    BY <1>1, <1>4, <1>5 DEF StaleInv, Stale, LeftLoc
  <1>9. RememberedInv'
    <2> SUFFICES ASSUME NEW m \in Field, ref[m] \in Addr, GenOf(ref[m]) < GenOf(m[1]),
                        ~Left(PageOf[m[1]])
                 PROVE  GenOf(ref[m]) \in dirty[PageOf[m[1]]][CardOf[m[1]]]
      BY <1>1, <1>4 DEF RememberedInv, GenOf
    <2>1. CASE ~new[PageOf[m[1]]]
      BY <1>1, <2>1 DEF IInv, RememberedInv, CardAhead
    <2>2. CASE new[PageOf[m[1]]]
      <3> DEFINE q == PageOf[ref[m]]
      <3>1. q \in Page /\ PageOf[m[1]] \in Page /\ m \in Loc /\ ~LeftLoc(m)
        BY LocKinds, ConstantsAssumption DEF LeftLoc
      <3>2. Allocated(ref[m]) /\ ~Left(q)
        BY <1>5, <3>1 DEF IInv, ValidInv, Stale
      <3>3. type[q] \in Scannable
        BY <1>1, <3>1, <3>2 DEF IInv, PagesInv, TypeOK, PageType, Scannable, Left, Tracing, Settling
      <3>4. ~Collected(q)
        BY <1>1, <3>1, <3>3 DEF IInv, UnmappedInv
      <3>5. /\ gen[PageOf[m[1]]] = NextGen(collect_gen)
            /\ new[q] => gen[q] = NextGen(collect_gen)
        BY <2>2, <3>1 DEF IInv, NewInv
      <3>6. gen[q] \in Nat /\ collect_gen \in Nat
        BY <3>1, GenNat DEF IInv, TypeOK
      <3>7. gen[q] >= NextGen(collect_gen)
        BY <3>4, <3>5, <3>6, ConstantsAssumption DEF Collected, NextGen
      <3>8. gen[q] < NextGen(collect_gen) /\ NextGen(collect_gen) \in Nat
        BY <3>5, NextGenType, GenNat DEF GenOf, IInv, TypeOK
      <3> QED BY <3>6, <3>7, <3>8
    <2> QED BY <2>1, <2>2
  <1> QED BY <1>2, <1>6, <1>7, <1>8, <1>9 DEF IInv

-----------------------------------------------------------------------------
(* The start of a collection *)

\* The remembered set, the roots and the lists cover all that leads to the collected generations.
LEMMA StartCollectionInv ==
  ASSUME IInv, StartCollection
  PROVE  IInv'
  <1>1. /\ phase = "mutator" /\ phase' = "scan_dirty_pages" /\ scan' = Page
        /\ UNCHANGED <<page, todo, queue, type, gen, new, dirty, object, ref,
                       protected, pend_hold, pend_final, forward_list>>
    BY DEF StartCollection, seg_vars, mem_vars, guardian_vars
  <1>2. TypeOK' /\ collect_gen' \in Gen
    BY NextType DEF Next, IInv, TypeOK
  <1>3. todo = {} /\ queue = {} /\ page = {}
    BY <1>1 DEF IInv, PhaseInv
  <1>4. \A p \in Page : ~new[p]
    BY <1>1 DEF IInv, NewInv, Tracing
  <1>5. \A p : ~Left(p)
    BY <1>1 DEF Left, Tracing, Settling
  <1>6. \A p \in Page : Left(p)' <=> gen[p] <= collect_gen'
    BY <1>1, <1>4 DEF Left, Collected, Tracing, Settling
  <1>7. \A l \in Loc : ref[l] # Forward
    BY <1>5 DEF IInv, ForwardInv, LeftLoc
  <1>8. PagesInv' /\ NewInv' /\ UnmappedInv' /\ PhaseInv' /\ CopyInv' /\ WeakPairsApart' /\ ListsInv'
    BY <1>1, <1>3, <1>4 DEF IInv, PagesInv, NewInv, UnmappedInv, PhaseInv, CopyInv,
       WeakPairsApart, ListsInv, Allocated, Free, Car, Cdr, Forwarded, KindAt, Registered, Settling
  <1>9. ForwardInv' /\ ValidInv'
    BY <1>1, <1>7, LocKinds DEF IInv, ForwardInv, ValidInv, Forwarded, Car, Allocated, Settling
  <1>10. \A l \in Field : ref[l] \in Addr /\ GenOf(ref[l]) < GenOf(l[1])
           => GenOf(ref[l]) \in dirty[PageOf[l[1]]][CardOf[l[1]]]
    <2>1. \A l \in Field : ~CardAhead(l) /\ ~new[PageOf[l[1]]]
      BY <1>1, <1>4, LocKinds, ConstantsAssumption DEF CardAhead
    <2> QED BY <1>5, <2>1 DEF IInv, RememberedInv
  <1>11. RememberedInv'
    BY <1>1, <1>10 DEF RememberedInv, GenOf
  <1>12. StaleInv'
    <2> SUFFICES ASSUME NEW l \in Loc, Stale(l)', ~LeftLoc(l)' PROVE Pending(l)'
      BY DEF StaleInv
    <2>1. ref[l] \in Addr /\ PageOf[ref[l]] \in Page /\ gen[PageOf[ref[l]]] <= collect_gen'
      BY <1>1, <1>6, ConstantsAssumption DEF Stale
    <2>2. GenOf(ref[l]) \in Nat /\ collect_gen' \in Nat /\ GenOf(ref[l]) \in Gen
      BY <1>2, <2>1, GenNat DEF GenOf, IInv, TypeOK
    <2>3. CASE l \in RootLoc
      BY <1>1, <2>3 DEF Pending
    <2>4. CASE l \in Field
      <3> DEFINE a == l[1]
      <3>1. a \in Addr /\ PageOf[a] \in Page /\ CardOf[a] \in Card
        BY <2>4, LocKinds, ConstantsAssumption
      <3>2. gen[PageOf[a]] \in Gen /\ ~(gen[PageOf[a]] <= collect_gen')
        BY <1>6, <2>4, <3>1 DEF LeftLoc, IInv, TypeOK
      <3>3. GenOf(ref[l]) < GenOf(a) /\ collect_gen' # MaxGen
        BY <2>1, <2>2, <3>2, GenNat, ConstantsAssumption DEF GenOf
      <3>4. GenOf(ref[l]) \in dirty[PageOf[a]][CardOf[a]]
        BY <1>10, <2>1, <2>4, <3>3
      <3>5. GenOf(ref[l]) \in DirtyMask(collect_gen')
        BY <2>1, <2>2, <3>3 DEF DirtyMask, GenOf
      <3>6. IsDirty(PageOf[a], CardOf[a])'
        BY <1>1, <3>4, <3>5 DEF IsDirty, DirtyMask
      <3> QED BY <1>1, <2>4, <3>1, <3>6 DEF Pending, CardAhead
    <2>5. CASE l \in EntryLoc
      <3>1. PICK e \in Entry : l = <<e, "entry">>
        BY <2>5 DEF EntryLoc
      <3>2. e \in Registered
        BY <1>1, <2>1, <3>1, ConstantsAssumption DEF IInv, ListsInv
      <3>3. PICK g \in Gen : e \in protected[g]
        BY <3>2 DEF Registered
      <3>4. GenOf(ref[l]) = g
        BY <1>1, <3>1, <3>3 DEF IInv, EntriesInv, Tracing
      <3>5. g \in 0 .. collect_gen'
        BY <2>1, <2>2, <3>4 DEF GenOf
      <3>6. e \in Unsorted'
        BY <1>1, <3>3, <3>5 DEF Unsorted
      <3> QED BY <1>1, <3>1, <3>6 DEF Pending, EntriesOf
    <2> QED BY <2>3, <2>4, <2>5 DEF Loc
  <1>13. EntriesInv'
    <2>1. pend_hold = {} /\ pend_final = {} /\ forward_list = {}
      BY <1>1 DEF IInv, ListsInv
    <2>2. \A g \in Gen : \A e \in protected[g] :
            ref[<<e, "entry">>] \in Addr /\ GenOf(ref[<<e, "entry">>]) = g
      BY <1>1 DEF IInv, EntriesInv, Tracing
    <2> QED BY <1>1, <2>1, <2>2 DEF EntriesInv, GenOf
  <1> QED BY <1>2, <1>8, <1>9, <1>11, <1>12, <1>13 DEF IInv

-----------------------------------------------------------------------------
(* When nothing is being moved *)

Settled == phase \in {"mutator", "gc_finalize_guardians"}

\* Outside a copy every pointer that is kept leads to an object that is kept.
LEMMA SettledInv ==
  ASSUME IInv, Settled
  PROVE  /\ todo = {} /\ queue = {} /\ page = {} /\ scan = {}
         /\ \A p \in Page : ~new[p]
         /\ phase = "mutator" => \A p : ~Left(p)
         /\ \A l \in Loc : ~LeftLoc(l) => /\ ref[l] # Forward
                                          /\ ~Stale(l)
                                          /\ ref[l] \in Addr => /\ Allocated(ref[l])
                                                                /\ ~Left(PageOf[ref[l]])
  <1>1. todo = {} /\ queue = {} /\ page = {} /\ scan = {}
    BY DEF Settled, IInv, PhaseInv, Settling
  <1>2. \A p \in Page : ~new[p]
    BY DEF Settled, IInv, NewInv, Tracing
  <1>3. phase = "mutator" => \A p : ~Left(p)
    BY DEF Left, Tracing, Settling
  <1>4. ASSUME NEW l \in Loc, ~LeftLoc(l)
        PROVE  /\ ref[l] # Forward /\ ~Stale(l)
               /\ ref[l] \in Addr => Allocated(ref[l]) /\ ~Left(PageOf[ref[l]])
    <2>1. ref[l] # Forward /\ (ref[l] \in Addr => Allocated(ref[l]))
      BY <1>4 DEF IInv, ForwardInv, ValidInv
    <2>2. ~Pending(l)
      <3>1. l \in Field => PageOf[l[1]] \in Page
        BY LocKinds, ConstantsAssumption
      <3> QED BY <1>1, <1>2, <3>1 DEF Pending, Settled
    <2>3. ~Stale(l)
      BY <1>4, <2>2 DEF IInv, StaleInv
    <2> QED BY <2>1, <2>3 DEF Stale
  <1> QED BY <1>1, <1>2, <1>3, <1>4

\* Storing at the locations ls.  A pointer stored in an object dirties the
\* page; an entry of the forward list is cleared when it is delivered.
Stored(ls) ==
  /\ UNCHANGED <<phase, collect_gen, scan, page, todo, queue, type, gen, new, object,
                 protected, pend_hold, pend_final>>
  /\ \A l \in Loc \ ls : ref'[l] = ref[l]
  /\ \A l \in ls :
       /\ l \in Loc /\ ~LeftLoc(l) /\ ref'[l] # Forward
       /\ l \in Field => Allocated(l[1])
       /\ ref'[l] \in Addr => /\ Allocated(ref'[l]) /\ ~Left(PageOf[ref'[l]])
                              /\ l \in Field => dirty'[PageOf[l[1]]] = AllBits
  /\ \A p \in Page : dirty'[p] = dirty[p] \/ dirty'[p] = AllBits
  /\ forward_list' \subseteq forward_list
  /\ \A e \in Entry : IF e \in forward_list \ forward_list'
                      THEN ref'[<<e, "entry">>] = Nil
                      ELSE <<e, "entry">> \notin ls

\* Storing with a barrier keeps the invariant.
LEMMA StoredInv ==
  ASSUME IInv, Settled, NEW ls, Stored(ls), TypeOK'
  PROVE  IInv'
  <1>1. /\ todo = {} /\ queue = {} /\ page = {} /\ scan = {}
        /\ \A p \in Page : ~new[p]
        /\ \A l \in Loc : ~LeftLoc(l) => /\ ref[l] # Forward
                                         /\ ~Stale(l)
                                         /\ ref[l] \in Addr => /\ Allocated(ref[l])
                                                               /\ ~Left(PageOf[ref[l]])
    BY SettledInv
  <1>2. UNCHANGED <<phase, collect_gen, scan, page, todo, queue, type, gen, new, object,
                    protected, pend_hold, pend_final>>
    BY DEF Stored
  <1>3. \A l \in Loc \ ls : ref'[l] = ref[l]
    BY DEF Stored
  <1>4. \A l \in ls :
          /\ l \in Loc /\ ~LeftLoc(l) /\ ref'[l] # Forward
          /\ l \in Field => Allocated(l[1])
          /\ ref'[l] \in Addr => /\ Allocated(ref'[l]) /\ ~Left(PageOf[ref'[l]])
                                 /\ l \in Field => dirty'[PageOf[l[1]]] = AllBits
    BY DEF Stored
  <1>5. \A p \in Page : dirty'[p] = dirty[p] \/ dirty'[p] = AllBits
    BY DEF Stored
  <1>6. \A p : Left(p)' <=> Left(p)
    BY <1>2 DEF Left, Collected
  <1>7. \A l : LeftLoc(l)' <=> LeftLoc(l)
    BY <1>6 DEF LeftLoc
  <1>8. \A l \in Loc : ref'[l] = Forward => ref[l] = Forward
    BY <1>3, <1>4
  <1>9. ASSUME NEW l \in Loc, ref'[l] \in Addr, ~LeftLoc(l)
        PROVE  Allocated(ref'[l]) /\ ~Left(PageOf[ref'[l]])
    BY <1>1, <1>3, <1>4, <1>9
  <1>10. PagesInv'
    <2>1. \A a \in Addr : Free(a)' => Car(a)' = Nil /\ Cdr(a)' = Nil
      <3> SUFFICES ASSUME NEW a \in Addr, Free(a)' PROVE Car(a)' = Nil /\ Cdr(a)' = Nil
        OBVIOUS
      <3>1. Free(a)
        BY <1>2 DEF Free, Allocated
      <3>2. <<a, "car">> \in Loc \ ls /\ <<a, "cdr">> \in Loc \ ls
        <4>1. \A l \in ls : l \in Field => l[1] # a
          BY <1>4, <3>1 DEF Free
        <4> QED BY <4>1, LocKinds
      <3> QED BY <1>3, <3>1, <3>2 DEF IInv, PagesInv, Car, Cdr
    <2> QED BY <1>2, <2>1 DEF IInv, PagesInv, Allocated
  <1>11. NewInv' /\ UnmappedInv' /\ PhaseInv' /\ WeakPairsApart'
    BY <1>1, <1>2 DEF IInv, NewInv, UnmappedInv, PhaseInv, WeakPairsApart, Collected,
                      Allocated, KindAt
  <1>12. ForwardInv'
    <2>1. \A l \in Loc : ref'[l] = Forward => l \in Field /\ l[2] = "car" /\ LeftLoc(l)'
      BY <1>7, <1>8 DEF IInv, ForwardInv
    <2>2. phase' \notin Tracing
      BY <1>2 DEF Settled, Tracing
    <2> QED BY <2>1, <2>2 DEF ForwardInv
  <1>13. ValidInv'
    <2> SUFFICES ASSUME NEW l \in Loc, ref'[l] \in Addr, phase' \in Settling => ~LeftLoc(l)'
                 PROVE  Allocated(ref[l])'
      BY DEF ValidInv
    <2>1. ~LeftLoc(l)
      BY <1>2, <1>7 DEF LeftLoc, Left, Tracing, Settling, Settled
    <2>2. \A x : x = ref'[l] => (Allocated(x)' <=> Allocated(x))
      BY <1>2 DEF Allocated
    <2> QED BY <1>9, <2>1, <2>2 DEF Allocated
  <1>14. StaleInv'
    <2> SUFFICES ASSUME NEW l \in Loc, Stale(l)', ~LeftLoc(l)' PROVE FALSE
      BY DEF StaleInv
    <2>1. \A p : p = PageOf[ref'[l]] => (Left(p)' <=> Left(p))
      BY <1>6
    <2> QED BY <1>7, <1>9, <2>1 DEF Stale
  <1>15. RememberedInv'
    <2> SUFFICES ASSUME NEW m \in Field, ref'[m] \in Addr, GenOf(ref[m])' < GenOf(m[1])',
                        ~Left(PageOf[m[1]])'
                 PROVE  GenOf(ref[m])' \in dirty'[PageOf[m[1]]][CardOf[m[1]]]
      BY DEF RememberedInv
    <2> DEFINE p == PageOf[m[1]]
               c == CardOf[m[1]]
    <2>1. p \in Page /\ c \in Card /\ PageOf[ref'[m]] \in Page /\ m \in Loc
      BY LocKinds, ConstantsAssumption
    <2>2. GenOf(ref[m])' \in Gen /\ GenOf(m[1])' \in Gen
      BY <1>2, <2>1 DEF GenOf, IInv, TypeOK
    <2>3. GenOf(ref[m])' \in DirtyGens
      BY <2>2, GenNat, ConstantsAssumption DEF DirtyGens
    <2>4. CASE dirty'[p] = AllBits
      BY <2>1, <2>3, <2>4 DEF AllBits
    <2>5. CASE dirty'[p] = dirty[p] /\ m \notin ls
      <3>1. ref'[m] = ref[m]
        BY <1>3, <2>1, <2>5
      <3>2. GenOf(ref[m])' = GenOf(ref[m]) /\ GenOf(m[1])' = GenOf(m[1]) /\ ~Left(p) /\ ~new[p]
        BY <1>1, <1>2, <1>6, <2>1, <3>1 DEF GenOf
      <3>3. GenOf(ref[m]) \in dirty[p][c]
        BY <3>1, <3>2 DEF IInv, RememberedInv, CardAhead, Settled
      <3> QED BY <2>5, <3>2, <3>3
    <2> QED BY <1>4, <1>5, <2>1, <2>4, <2>5
  <1>16. CopyInv'
    <2> SUFFICES ASSUME NEW a \in Addr, NEW b \in Addr, Allocated(a), object[a] = object[b],
                        ~Forwarded(a)', ~Forwarded(b)'
                 PROVE  a = b
      BY <1>2 DEF CopyInv, Allocated
    <2>1. \A d \in Addr : Forwarded(d) => Forwarded(d)'
      <3> SUFFICES ASSUME NEW d \in Addr, Forwarded(d) PROVE Forwarded(d)'
        OBVIOUS
      <3>1. <<d, "car">> \in Loc /\ ref[<<d, "car">>] = Forward
        BY LocKinds DEF Forwarded, Car
      <3>2. LeftLoc(<<d, "car">>)
        BY <1>1, <3>1
      <3>3. <<d, "car">> \notin ls
        BY <1>4, <3>2
      <3> QED BY <1>3, <3>1, <3>3 DEF Forwarded, Car
    <2> QED BY <2>1 DEF IInv, CopyInv
  <1>17. \A e \in Entry : /\ <<e, "entry">> \in Loc
                          /\ IF e \in forward_list \ forward_list'
                             THEN ref'[<<e, "entry">>] = Nil
                             ELSE ref'[<<e, "entry">>] = ref[<<e, "entry">>]
    BY <1>3, LocKinds DEF Stored, EntryLoc, Loc
  <1>18. ListsInv'
    BY <1>2, <1>17 DEF IInv, ListsInv, Registered, Stored, Settled
  <1>19. EntriesInv'
    <2>1. \A g \in Gen : \A e \in protected[g] :
            ref[<<e, "entry">>] \in Addr /\ GenOf(ref[<<e, "entry">>]) = g
      BY DEF IInv, EntriesInv, Tracing, Settled
    <2>2. \A g \in Gen : \A e \in protected[g] : e \in Entry /\ e \notin forward_list
      BY DEF IInv, TypeOK, ListsInv, Registered
    <2>3. \A g \in Gen : \A e \in protected[g] : ref'[<<e, "entry">>] = ref[<<e, "entry">>]
      BY <1>17, <2>2
    <2> QED BY <1>2, <2>1, <2>3 DEF EntriesInv, GenOf, Tracing, Settled
  <1> QED BY <1>10, <1>11, <1>12, <1>13, <1>14, <1>15, <1>16, <1>18, <1>19 DEF IInv

-----------------------------------------------------------------------------
(* Delivery *)

\* Delivery of a guarded object is a barriered store.
LEMMA FinalizeGuardianInv ==
  ASSUME IInv, FinalizeGuardian
  PROVE  IInv'
  <1>1. PICK e \in forward_list :
          LET p == ref[<<e, "entry">>]
              tc == Car(p)
              last_pair == Cdr(tc)
          IN
          /\ {p, tc, last_pair} \subseteq Addr
          /\ ref' = [ref EXCEPT ![<<last_pair, "car">>] = Cdr(p),
                                ![<<last_pair, "cdr">>] = p,
                                ![<<p, "car">>] = Nil, ![<<p, "cdr">>] = Nil,
                                ![<<tc, "cdr">>] = p,
                                ![<<e, "entry">>] = Nil]
          /\ dirty' = DirtiedByDelivery(tc, last_pair)
          /\ forward_list' = forward_list \ {e}
    BY DEF FinalizeGuardian
  <1> DEFINE d == <<e, "entry">>
             p == ref[d]
             tc == Car(p)
             last_pair == Cdr(tc)
             ls == Fields(last_pair) \cup Fields(p) \cup {<<tc, "cdr">>, d}
  <1>2. /\ phase = "gc_finalize_guardians"
        /\ UNCHANGED <<phase, collect_gen, scan, page, todo, queue, type, gen, new, object,
                       protected, pend_hold, pend_final>>
    BY DEF FinalizeGuardian, gc_vars, seg_vars
  <1>3. TypeOK'
    BY CollectorTypeInv DEF CollectorStep
  <1>4. Settled
    BY <1>2 DEF Settled
  <1>5. \A l \in Loc : ~LeftLoc(l) =>
          ref[l] # Forward /\ (ref[l] \in Addr => Allocated(ref[l]) /\ ~Left(PageOf[ref[l]]))
    BY <1>4, SettledInv
  <1>6. p \in Addr /\ tc \in Addr /\ last_pair \in Addr
    BY <1>1
  <1>7. d \in Loc /\ d \notin Field /\ d \in EntryLoc
    BY LocKinds DEF IInv, TypeOK, EntryLoc, Loc
  <1>8. Allocated(p) /\ ~Left(PageOf[p])
    BY <1>5, <1>6, <1>7 DEF LeftLoc
  <1>9. \A a \in Addr : /\ <<a, "car">> \in Loc /\ <<a, "cdr">> \in Loc
                        /\ ~Left(PageOf[a]) => ~LeftLoc(<<a, "car">>) /\ ~LeftLoc(<<a, "cdr">>)
    BY LocKinds DEF LeftLoc
  <1>10. Allocated(tc) /\ ~Left(PageOf[tc])
    BY <1>5, <1>6, <1>8, <1>9 DEF Car
  <1>11. Allocated(last_pair) /\ ~Left(PageOf[last_pair])
    BY <1>5, <1>6, <1>9, <1>10 DEF Cdr
  <1>12. Cdr(p) # Forward /\ (Cdr(p) \in Addr => Allocated(Cdr(p)) /\ ~Left(PageOf[Cdr(p)]))
    BY <1>5, <1>6, <1>8, <1>9 DEF Cdr
  <1>13. PageOf[tc] \in Page /\ PageOf[last_pair] \in Page /\ PageOf[p] \in Page
    BY <1>6, ConstantsAssumption
  <1>14. /\ dirty'[PageOf[tc]] = AllBits
         /\ dirty'[PageOf[last_pair]] = AllBits
         /\ \A q \in Page : dirty'[q] = dirty[q] \/ dirty'[q] = AllBits
    BY <1>1, <1>13 DEF DirtiedByDelivery, IInv, TypeOK
  <1> HIDE DEF p, tc, last_pair
  <1>15. ref' = [ref EXCEPT ![<<last_pair, "car">>] = Cdr(p),
                            ![<<last_pair, "cdr">>] = p,
                            ![<<p, "car">>] = Nil, ![<<p, "cdr">>] = Nil,
                            ![<<tc, "cdr">>] = p,
                            ![d] = Nil]
    BY <1>1 DEF p, tc, last_pair
  <1>16. /\ \A l \in Loc : l \notin ls => ref'[l] = ref[l]
         /\ ref'[d] = Nil
         /\ \A l \in ls : /\ ref'[l] \in {Nil, p, Cdr(p)}
                          /\ ref'[l] = Nil \/ l \in Fields(last_pair) \cup Fields(tc)
    <2>1. DOMAIN ref = Loc /\ d \in Loc
      BY <1>7 DEF IInv, TypeOK
    <2>2. \A l \in Loc : l \notin ls => ref'[l] = ref[l]
      BY <1>15, <2>1 DEF Fields
    <2>3. \A a \in Addr : Fields(a) \subseteq Loc /\ d \notin Fields(a)
      BY <1>7, <1>9, LocKinds DEF Fields
    <2>4. ref'[d] = Nil
      BY <1>15, <2>1
    <2>5. ASSUME NEW l \in ls
          PROVE  /\ ref'[l] \in {Nil, p, Cdr(p)}
                 /\ ref'[l] = Nil \/ l \in Fields(last_pair) \cup Fields(tc)
      <3>1. CASE l \in Fields(last_pair)
        <4>1. <<last_pair, "car">> \in Loc /\ <<last_pair, "cdr">> \in Loc
          BY <1>6, <1>9
        <4>2. l \in {<<last_pair, "car">>, <<last_pair, "cdr">>}
          BY <3>1 DEF Fields
        <4>3. ref'[l] \in {Nil, p, Cdr(p)}
          BY <1>15, <2>1, <4>1, <4>2
        <4>4. QED BY <3>1, <4>3
      <3>2. CASE l = <<tc, "cdr">>
        <4>1. <<tc, "cdr">> \in Loc
          BY <1>6, <1>9
        <4>2. ref'[l] \in {Nil, p}
          BY <1>15, <2>1, <3>2, <4>1
        <4>3. l \in Fields(tc)
          BY <3>2 DEF Fields
        <4>4. QED BY <4>2, <4>3
      <3>3. CASE l \in Fields(p) /\ l \notin Fields(last_pair) /\ l # <<tc, "cdr">>
        <4>1. <<p, "car">> \in Loc /\ <<p, "cdr">> \in Loc
          BY <1>6, <1>9
        <4>2. l \in {<<p, "car">>, <<p, "cdr">>}
          BY <3>3 DEF Fields
        <4>3. ref'[l] = Nil
          BY <1>15, <2>1, <3>3, <4>1, <4>2
        <4>4. QED BY <4>3
      <3>4. CASE l = d
        BY <2>4, <3>4
      <3>5. QED BY <3>1, <3>2, <3>3, <3>4
    <2>6. QED BY <2>2, <2>4, <2>5
  <1>17. \A l \in ls : /\ l \in Loc
                       /\ l \in Field => l[1] \in {p, tc, last_pair}
                       /\ l \in Field \/ l = d
    BY <1>6, <1>7, <1>9, LocKinds DEF Fields
  <1>18. \A l \in ls : ~LeftLoc(l) /\ (l \in Field => Allocated(l[1]))
    BY <1>7, <1>8, <1>10, <1>11, <1>17 DEF LeftLoc
  <1>19. \A l \in ls : /\ ref'[l] # Forward
                       /\ ref'[l] \in Addr => Allocated(ref'[l]) /\ ~Left(PageOf[ref'[l]])
    BY <1>6, <1>8, <1>12, <1>16, ConstantsAssumption
  <1>20. \A l \in ls : ref'[l] \in Addr /\ l \in Field => dirty'[PageOf[l[1]]] = AllBits
    <2>1. \A l \in Fields(last_pair) : l[1] = last_pair
      BY DEF Fields
    <2>2. \A l \in Fields(tc) : l[1] = tc
      BY DEF Fields
    <2> QED BY <1>14, <1>16, <2>1, <2>2, ConstantsAssumption
  <1>21. \A x \in Entry : IF x \in forward_list \ forward_list'
                          THEN ref'[<<x, "entry">>] = Nil
                          ELSE <<x, "entry">> \notin ls
    <2>1. \A x \in Entry : <<x, "entry">> \notin Field
      BY LocKinds
    <2>2. forward_list' = forward_list \ {e}
      BY <1>1
    <2> QED BY <1>16, <1>17, <2>1, <2>2
  <1>22. forward_list' \subseteq forward_list
    BY <1>1
  <1> HIDE DEF ls, d
  <1>23. Stored(ls)
    BY <1>2, <1>14, <1>16, <1>17, <1>18, <1>19, <1>20, <1>21, <1>22 DEF Stored
  <1> QED BY <1>3, <1>4, <1>23, StoredInv

\* Every step of ik_collect preserves the invariant.
LEMMA CollectorStepInv ==
  ASSUME IInv, CollectorStep
  PROVE  IInv'
  BY VisitPageInv, FinishPageInv, EndScanInv, EndRootsInv, VisitLocationInv, CollectLoopInv,
     SortGuardiansInv, FinalGuardiansInv, FinalListTracedInv, HoldGuardiansInv,
     FixWeakPointersInv, DeallocateUnusedPagesInv, FixNewPagesInv, FinalizeGuardianInv,
     ResetHeapInv DEF CollectorStep

-----------------------------------------------------------------------------
(* The program *)

\* What the program holds is live.
LEMMA ProgramValue ==
  ASSUME IInv, phase = "mutator"
  PROVE  /\ \A l \in Loc : ref[l] # Forward /\ (ref[l] \in Addr => Allocated(ref[l]))
         /\ \A v \in Handles : v # Forward /\ (v \in Addr => Allocated(v))
         /\ \A p : ~Left(p)
         /\ \A l : ~LeftLoc(l)
  <1>1. \A p : ~Left(p)
    BY DEF Left, Tracing, Settling
  <1>2. \A l : ~LeftLoc(l)
    BY <1>1 DEF LeftLoc
  <1>3. \A l \in Loc : ref[l] # Forward /\ (ref[l] \in Addr => Allocated(ref[l]))
    BY <1>2, SettledInv DEF Settled
  <1>4. \A v \in Handles : v # Forward /\ (v \in Addr => Allocated(v))
    <2> SUFFICES ASSUME NEW v \in Handles PROVE v # Forward /\ (v \in Addr => Allocated(v))
      OBVIOUS
    <2>1. v = Nil \/ \E r \in Root : <<r, "root">> \in Loc /\ v = ref[<<r, "root">>]
      BY DEF Handles, Handle, Loc, RootLoc
    <2> QED BY <1>3, <2>1, ConstantsAssumption
  <1> QED BY <1>1, <1>2, <1>3, <1>4

\* set-car!, set-cdr! and vector-set! are barriered stores.
LEMMA SetFieldInv ==
  ASSUME IInv, NEW r \in Root, SetField(r), TypeOK'
  PROVE  IInv'
  <1>1. PICK f \in Used[KindAt(Handle(r))], v \in Handles : Store(Handle(r), f, v)
    BY DEF SetField
  <1> DEFINE a == Handle(r)
  <1>2. /\ phase = "mutator"
        /\ UNCHANGED <<phase, collect_gen, scan, page, todo, queue, type, gen, new, object,
                       protected, pend_hold, pend_final, forward_list>>
    BY DEF SetField, Mutating, gc_vars, seg_vars, guardian_vars
  <1>3. /\ \A l \in Loc : ref[l] # Forward /\ (ref[l] \in Addr => Allocated(ref[l]))
        /\ v # Forward /\ (v \in Addr => Allocated(v))
        /\ (\A p : ~Left(p)) /\ (\A l : ~LeftLoc(l))
    BY <1>2, ProgramValue
  <1>4. f \in CarCdr
    BY ConstantsAssumption DEF SetField, UserHandle
  <1>5. /\ a \in Addr /\ Allocated(a) /\ PageOf[a] \in Page
        /\ <<a, f>> \in Loc /\ <<a, f>> \in Field
    <2>1. a \in Addr /\ <<r, "root">> \in Loc
      BY DEF SetField, UserHandle, Loc, RootLoc
    <2> QED BY <1>3, <1>4, <2>1, ConstantsAssumption DEF Handle, Loc, Field
  <1> HIDE DEF a
  <1>6. /\ ref' = [ref EXCEPT ![<<a, f>>] = v]
        /\ dirty' = IF v \in Addr THEN [dirty EXCEPT ![PageOf[a]] = AllBits] ELSE dirty
    BY <1>1 DEF Store, a
  <1>7. /\ ref'[<<a, f>>] = v
        /\ \A l \in Loc \ {<<a, f>>} : ref'[l] = ref[l]
        /\ v \in Addr => dirty'[PageOf[a]] = AllBits
        /\ \A p \in Page : dirty'[p] = dirty[p] \/ dirty'[p] = AllBits
    BY <1>5, <1>6 DEF IInv, TypeOK
  <1>8. \A e \in Entry : <<e, "entry">> # <<a, f>>
    BY <1>5, LocKinds
  <1>9. Stored({<<a, f>>})
    BY <1>2, <1>3, <1>5, <1>7, <1>8 DEF Stored
  <1> QED BY <1>2, <1>9, StoredInv DEF Settled

\* Storing in a root needs no barrier.
LEMMA RootStoredInv ==
  ASSUME IInv, NEW r \in Root, NEW v, v # Forward, v \in Addr => Allocated(v), TypeOK',
         phase = "mutator", ref' = [ref EXCEPT ![<<r, "root">>] = v],
         UNCHANGED <<gc_vars, seg_vars, dirty, object, guardian_vars>>
  PROVE  IInv'
  <1> DEFINE l == <<r, "root">>
  <1>1. UNCHANGED <<phase, collect_gen, scan, page, todo, queue, type, gen, new, dirty, object,
                    protected, pend_hold, pend_final, forward_list>>
    BY DEF gc_vars, seg_vars, guardian_vars
  <1>2. l \in Loc /\ l \notin Field /\ \A e \in Entry : <<e, "entry">> # l
    BY LocKinds DEF Loc, RootLoc
  <1>3. ref'[l] = v /\ \A m \in Loc \ {l} : ref'[m] = ref[m]
    BY <1>2 DEF IInv, TypeOK
  <1>4. (\A p : ~Left(p)) /\ (\A m : ~LeftLoc(m))
    BY ProgramValue
  <1> HIDE DEF l
  <1>5. Stored({l})
    BY <1>1, <1>2, <1>3, <1>4 DEF Stored
  <1> QED BY <1>5, StoredInv DEF Settled

\* car, cdr and vector-ref store in a root.
LEMMA LoadInv ==
  ASSUME IInv, NEW r \in Root, Load(r), TypeOK'
  PROVE  IInv'
  <1>1. PICK q \in Root, f \in CarCdr :
          /\ UserHandle(q)
          /\ ref' = [ref EXCEPT ![<<r, "root">>] = ref[<<Handle(q), f>>]]
    BY DEF Load
  <1>2. phase = "mutator" /\ UNCHANGED <<gc_vars, seg_vars, dirty, object, guardian_vars>>
    BY DEF Load, Mutating
  <1>3. <<Handle(q), f>> \in Loc
    BY <1>1 DEF UserHandle, Loc, Field
  <1>4. ref[<<Handle(q), f>>] # Forward
        /\ (ref[<<Handle(q), f>>] \in Addr => Allocated(ref[<<Handle(q), f>>]))
    BY <1>2, <1>3, ProgramValue
  <1> QED BY <1>1, <1>2, <1>4, RootStoredInv

\* A variable that goes out of scope is a root cleared.
LEMMA DropInv ==
  ASSUME IInv, NEW r \in Root, Drop(r), TypeOK'
  PROVE  IInv'
  <1>1. /\ phase = "mutator" /\ ref' = [ref EXCEPT ![<<r, "root">>] = Nil]
        /\ UNCHANGED <<gc_vars, seg_vars, dirty, object, guardian_vars>>
    BY DEF Drop, Mutating
  <1>2. Nil # Forward /\ Nil \notin Addr
    BY ConstantsAssumption
  <1> QED BY <1>1, <1>2, RootStoredInv

\* Taking an object from a guardian is a barriered store.
LEMMA DequeueInv ==
  ASSUME IInv, NEW r \in Root, Dequeue(r), TypeOK'
  PROVE  IInv'
  <1> DEFINE tc == Handle(r)
             x == Car(tc)
  <1>1. PICK q \in Root :
          ref' = [ref EXCEPT ![<<tc, "car">>] = Cdr(x), ![<<x, "car">>] = Nil,
                             ![<<x, "cdr">>] = Nil, ![<<q, "root">>] = Car(x)]
    BY DEF Dequeue
  <1>2. /\ phase = "mutator"
        /\ UNCHANGED <<phase, collect_gen, scan, page, todo, queue, type, gen, new, object,
                       protected, pend_hold, pend_final, forward_list>>
        /\ dirty' = [dirty EXCEPT ![PageOf[tc]] = AllBits]
    BY DEF Dequeue, Mutating, gc_vars, seg_vars, guardian_vars
  <1>3. tc \in Addr /\ x \in Addr
    BY DEF Dequeue, Instances
  <1>4. /\ \A l \in Loc : ref[l] # Forward /\ (ref[l] \in Addr => Allocated(ref[l]))
        /\ (\A p : ~Left(p)) /\ (\A l : ~LeftLoc(l))
    BY <1>2, ProgramValue
  <1>5. \A a \in Addr : <<a, "car">> \in Loc /\ <<a, "cdr">> \in Loc
    BY LocKinds
  <1>6. <<r, "root">> \in Loc /\ <<q, "root">> \in Loc /\ <<q, "root">> \notin Field
    BY LocKinds DEF Loc, RootLoc
  <1>7. Allocated(tc) /\ PageOf[tc] \in Page
    BY <1>3, <1>4, <1>6, ConstantsAssumption DEF Handle
  <1>8. Allocated(x)
    BY <1>3, <1>4, <1>5 DEF Car
  <1>9. /\ Car(x) # Forward /\ (Car(x) \in Addr => Allocated(Car(x)))
        /\ Cdr(x) # Forward /\ (Cdr(x) \in Addr => Allocated(Cdr(x)))
    BY <1>3, <1>4, <1>5 DEF Car, Cdr
  <1> HIDE DEF tc, x
  <1> DEFINE ls == {<<tc, "car">>, <<x, "car">>, <<x, "cdr">>, <<q, "root">>}
  <1>10. /\ dirty'[PageOf[tc]] = AllBits
         /\ \A p \in Page : dirty'[p] = dirty[p] \/ dirty'[p] = AllBits
    BY <1>2, <1>7 DEF IInv, TypeOK
  <1>11. /\ \A l \in Loc \ ls : ref'[l] = ref[l]
         /\ \A l \in ls : ref'[l] \in {Nil, Car(x), Cdr(x)}
         /\ \A l \in ls : ref'[l] = Nil \/ l = <<tc, "car">> \/ l \notin Field
    <2>1. /\ <<tc, "car">> \in Loc /\ <<x, "car">> \in Loc /\ <<x, "cdr">> \in Loc
          /\ <<q, "root">> # <<x, "car">> /\ <<q, "root">> # <<x, "cdr">>
          /\ <<q, "root">> # <<tc, "car">> /\ <<x, "cdr">> # <<x, "car">>
      BY <1>3, <1>5
    <2>2. /\ ref'[<<q, "root">>] = Car(x)
          /\ ref'[<<x, "car">>] = Nil /\ ref'[<<x, "cdr">>] = Nil
          /\ ref'[<<tc, "car">>] \in {Nil, Cdr(x)}
      BY <1>1, <1>6, <2>1 DEF IInv, TypeOK
    <2>3. \A l \in Loc \ ls : ref'[l] = ref[l]
      BY <1>1 DEF IInv, TypeOK
    <2> QED BY <1>6, <2>2, <2>3
  <1>12. \A l \in ls : l \in Loc /\ (l \in Field => Allocated(l[1]))
    <2>1. <<tc, "car">>[1] = tc /\ <<x, "car">>[1] = x /\ <<x, "cdr">>[1] = x
      OBVIOUS
    <2> QED BY <1>3, <1>5, <1>6, <1>7, <1>8, <2>1
  <1>13. \A l \in ls : /\ ref'[l] # Forward
                       /\ ref'[l] \in Addr => Allocated(ref'[l])
                       /\ ref'[l] \in Addr /\ l \in Field => l = <<tc, "car">>
    BY <1>9, <1>11, ConstantsAssumption
  <1>14. \A l \in ls : ref'[l] \in Addr /\ l \in Field => dirty'[PageOf[l[1]]] = AllBits
    <2>1. <<tc, "car">>[1] = tc
      OBVIOUS
    <2> QED BY <1>10, <1>13, <2>1
  <1>15. \A e \in Entry : <<e, "entry">> \notin ls
    OBVIOUS
  <1> HIDE DEF ls
  <1>16. Stored(ls)
    BY <1>2, <1>4, <1>10, <1>11, <1>12, <1>13, <1>14, <1>15 DEF Stored
  <1> QED BY <1>2, <1>16, StoredInv DEF Settled

\* A new object goes to a free address, on a page that is or becomes one of
\* generation 0; the objects already there stay as they were.
LEMMA PlaceInv ==
  ASSUME IInv, NEW k \in Kind, NEW u, NEW v, NEW l \in Loc, l \notin Field, Place(k, u, v, l),
         phase = "mutator", UNCHANGED gc_vars, TypeOK',
         u # Forward, u \in Addr => Allocated(u),
         v # Forward, v \in Addr => Allocated(v)
  PROVE  /\ PagesInv' /\ NewInv' /\ UnmappedInv' /\ PhaseInv' /\ ForwardInv' /\ ValidInv'
         /\ StaleInv' /\ RememberedInv' /\ CopyInv' /\ WeakPairsApart'
         /\ ref'[l] \in Addr /\ GenOf(ref[l])' = 0
         /\ \A m \in Loc : m \notin Field /\ m # l =>
              /\ ref'[m] = ref[m]
              /\ ref[m] \in Addr => GenOf(ref[m])' = GenOf(ref[m])
  <1> DEFINE t == HeapType(k)
             a == Slot(t, 0, FALSE)
             o == Fresh(k)
  <1>1. /\ Room(t, 0, FALSE) # {} /\ Unused(k) # {}
        /\ type' = [type EXCEPT ![PageOf[a]] = t]
        /\ gen' = [gen EXCEPT ![PageOf[a]] = 0]
        /\ new' = [new EXCEPT ![PageOf[a]] = FALSE]
        /\ object' = [object EXCEPT ![a] = o]
        /\ ref' = [ref EXCEPT ![<<a, "car">>] = u, ![<<a, "cdr">>] = v, ![l] = a]
        /\ dirty' = dirty
    BY DEF Place, MapPage
  <1>2. UNCHANGED <<phase, collect_gen, scan, page, todo, queue>>
    BY DEF gc_vars
  <1>3. a \in Addr /\ a \in Room(t, 0, FALSE) /\ PageOf[a] \in Page
    BY <1>1, SlotType, ConstantsAssumption
  <1>4. o \in Object /\ KindOf[o] = k /\ o # NoObject /\ \A b \in Addr : object[b] # o
    <2>1. o \in Unused(k)
      BY <1>1 DEF Fresh
    <2> QED BY <2>1, ConstantsAssumption DEF Unused
  <1>5. t \in {"weak_pairs", "mainheap"} /\ (t = "weak_pairs" <=> k = "weak")
    BY DEF HeapType
  <1> HIDE DEF t, a, o
  <1>6. /\ \A m \in Loc : ref[m] # Forward /\ (ref[m] \in Addr => Allocated(ref[m]))
        /\ (\A p : ~Left(p)) /\ (\A m : ~LeftLoc(m)) /\ (\A p \in Page : ~new[p])
    BY ProgramValue, SettledInv DEF Settled
  \* the page of a was a hole, or is already such a page
  <1>7. /\ Free(a)
        /\ \A b \in Addr : Allocated(b) /\ PageOf[b] = PageOf[a] => type[PageOf[a]] = t /\ gen[PageOf[a]] = 0
    <2>1. CASE type[PageOf[a]] = "hole"
      BY <1>3, <2>1 DEF IInv, PagesInv, Free
    <2>2. CASE type[PageOf[a]] # "hole"
      <3>1. Free(a) /\ type[PageOf[a]] = t /\ gen[PageOf[a]] = 0
        BY <1>3, <1>5, <2>2 DEF Room, Holes
      <3> QED BY <3>1
    <2> QED BY <2>1, <2>2
  <1>8. /\ type'[PageOf[a]] = t /\ gen'[PageOf[a]] = 0
        /\ \A p \in Page : ~new'[p]
        /\ \A p \in Page : p # PageOf[a] => type'[p] = type[p] /\ gen'[p] = gen[p]
    BY <1>1, <1>3, <1>6 DEF IInv, TypeOK
  <1>9. \A b \in Addr : Allocated(b) => /\ PageOf[b] \in Page /\ b # a
                                        /\ type'[PageOf[b]] = type[PageOf[b]]
                                        /\ gen'[PageOf[b]] = gen[PageOf[b]]
    BY <1>7, <1>8, ConstantsAssumption DEF Free
  <1>10. object'[a] = o /\ \A b \in Addr : b # a => object'[b] = object[b]
    BY <1>1, <1>3 DEF IInv, TypeOK
  <1>11. \A b \in Addr : Allocated(b)' <=> Allocated(b) \/ b = a
    BY <1>4, <1>10 DEF Allocated
  <1>12. <<a, "car">> \in Field /\ <<a, "cdr">> \in Field /\ <<a, "car">> \in Loc /\ <<a, "cdr">> \in Loc
    BY <1>3, LocKinds
  <1>13. /\ ref'[<<a, "car">>] = u /\ ref'[<<a, "cdr">>] = v /\ ref'[l] = a
         /\ \A m \in Loc : m # <<a, "car">> /\ m # <<a, "cdr">> /\ m # l => ref'[m] = ref[m]
    BY <1>1, <1>12 DEF IInv, TypeOK
  <1>14. \A m \in Field : m[1] # a => m \in Loc /\ ref'[m] = ref[m]
    <2>1. \A m \in Field : m[1] # a => m # <<a, "car">> /\ m # <<a, "cdr">> /\ m # l /\ m \in Loc
      BY LocKinds
    <2> QED BY <1>13, <2>1
  <1>15. \A m \in Field : m[1] = a => ref'[m] \in {u, v}
    BY <1>13, LocKinds
  <1>16. \A m \in Loc : ref'[m] # Forward /\ (ref'[m] \in Addr => Allocated(ref'[m]) \/ ref'[m] = a)
    BY <1>3, <1>6, <1>13, ConstantsAssumption
  <1>17. \A p : ~Left(p)'
    BY <1>2 DEF Left, Tracing, Settling
  <1>18. PagesInv'
    <2>1. \A b \in Addr : Free(b)' => Car(b)' = Nil /\ Cdr(b)' = Nil
      <3> SUFFICES ASSUME NEW b \in Addr, Free(b)' PROVE Car(b)' = Nil /\ Cdr(b)' = Nil
        OBVIOUS
      <3>1. Free(b) /\ b # a
        BY <1>11 DEF Free
      <3>2. /\ <<b, "car">> \in Field /\ <<b, "car">>[1] # a
            /\ <<b, "cdr">> \in Field /\ <<b, "cdr">>[1] # a
        BY <3>1, LocKinds
      <3>3. ref'[<<b, "car">>] = ref[<<b, "car">>] /\ ref'[<<b, "cdr">>] = ref[<<b, "cdr">>]
        BY <1>14, <3>2
      <3> QED BY <3>1, <3>3 DEF IInv, PagesInv, Car, Cdr
    <2>2. \A b \in Addr : Allocated(b)' => type'[PageOf[b]] # "hole"
      BY <1>5, <1>8, <1>9, <1>11 DEF IInv, PagesInv
    <2>3. \A p \in Page : type'[p] = "mainheap" => gen'[p] = 0 /\ ~new'[p]
      BY <1>8 DEF IInv, PagesInv
    <2>4. ASSUME NEW b \in Addr, NEW c \in Addr, Allocated(b)', Allocated(c)', PageOf[b] = PageOf[c],
                 type'[PageOf[b]] = "large"
          PROVE  b = c
      <3>1. PageOf[b] # PageOf[a]
        BY <1>5, <1>8, <2>4
      <3>2. Allocated(b) /\ Allocated(c) /\ type[PageOf[b]] = "large"
        BY <1>9, <1>11, <2>4, <3>1
      <3> QED BY <2>4, <3>2 DEF IInv, PagesInv
    <2> QED BY <2>1, <2>2, <2>3, <2>4 DEF PagesInv
  <1>19. NewInv' /\ UnmappedInv'
    BY <1>2, <1>8 DEF NewInv, UnmappedInv
  <1>20. PhaseInv'
    <2>1. todo = {} /\ queue = {} /\ page = {} /\ scan = {}
      BY SettledInv DEF Settled
    <2> QED BY <1>2, <2>1 DEF PhaseInv
  <1>21. ForwardInv'
    BY <1>2, <1>16 DEF ForwardInv, Tracing
  <1>22. ValidInv'
    <2> SUFFICES ASSUME NEW m \in Loc, ref'[m] \in Addr PROVE Allocated(ref[m])'
      BY DEF ValidInv
    <2>1. \A x \in Addr : x = ref'[m] => Allocated(x)'
      BY <1>11, <1>16
    <2> QED BY <2>1 DEF Allocated
  <1>23. StaleInv'
    <2>1. \A m \in Loc : ~Stale(m)'
      <3> SUFFICES ASSUME NEW m \in Loc PROVE ~Stale(m)'
        OBVIOUS
      <3>1. \A p : p = PageOf[ref'[m]] => ~Left(p)'
        BY <1>17
      <3> QED BY <3>1 DEF Stale
    <2> QED BY <2>1 DEF StaleInv
  <1>24. RememberedInv'
    <2> SUFFICES ASSUME NEW m \in Field, ref'[m] \in Addr, GenOf(ref[m])' < GenOf(m[1])'
                 PROVE  GenOf(ref[m])' \in dirty[PageOf[m[1]]][CardOf[m[1]]]
      BY <1>1 DEF RememberedInv
    <2>1. m[1] # a
      <3>1. GenOf(ref[m])' \in Nat
        BY GenNat, ConstantsAssumption DEF GenOf, TypeOK
      <3> QED BY <1>8, <3>1 DEF GenOf
    <2>2. m \in Loc /\ ref'[m] = ref[m]
      BY <1>14, <2>1
    <2>3. Allocated(ref[m]) /\ Allocated(m[1]) /\ m[1] \in Addr
      BY <1>6, <2>2, PointerField, ConstantsAssumption
    <2>4. GenOf(ref[m])' = GenOf(ref[m]) /\ GenOf(m[1])' = GenOf(m[1])
      BY <1>9, <2>2, <2>3 DEF GenOf
    <2>5. ~Left(PageOf[m[1]]) /\ ~new[PageOf[m[1]]] /\ ~CardAhead(m)
      BY <1>6, <2>3, ConstantsAssumption DEF CardAhead
    <2> QED BY <2>2, <2>4, <2>5 DEF IInv, RememberedInv
  <1>25. CopyInv'
    <2> SUFFICES ASSUME NEW b \in Addr, NEW c \in Addr, Allocated(b)', object'[b] = object'[c]
                 PROVE  b = c
      BY DEF CopyInv
    <2>1. \A x \in Addr : ~Forwarded(x)
      BY <1>6, LocKinds DEF Forwarded, Car
    <2> QED BY <1>4, <1>10, <1>11, <2>1 DEF IInv, CopyInv
  <1>26. WeakPairsApart'
    <2>1. \A b \in Addr : Allocated(b) => (type[PageOf[b]] = "weak_pairs" <=> KindOf[object[b]] = "weak")
      BY DEF IInv, WeakPairsApart, KindAt
    <2>2. \A b \in Addr : Allocated(b)' => (type'[PageOf[b]] = "weak_pairs" <=> KindOf[object'[b]] = "weak")
      BY <1>4, <1>5, <1>8, <1>9, <1>10, <1>11, <2>1
    <2> QED BY <2>2 DEF WeakPairsApart, KindAt
  <1>27. ref'[l] \in Addr /\ GenOf(ref[l])' = 0
    BY <1>3, <1>8, <1>13 DEF GenOf
  <1>28. \A m \in Loc : m \notin Field /\ m # l =>
           /\ ref'[m] = ref[m]
           /\ ref[m] \in Addr => GenOf(ref[m])' = GenOf(ref[m])
    BY <1>6, <1>9, <1>12, <1>13 DEF GenOf
  <1> QED BY <1>18, <1>19, <1>20, <1>21, <1>22, <1>23, <1>24, <1>25, <1>26, <1>27, <1>28

\* An object stored in a root leaves the guardian lists alone.
LEMMA RootPlacedInv ==
  ASSUME IInv, NEW k \in Kind, NEW u, NEW v, NEW r \in Root, Place(k, u, v, <<r, "root">>),
         phase = "mutator", UNCHANGED <<gc_vars, guardian_vars>>, TypeOK',
         u # Forward, u \in Addr => Allocated(u),
         v # Forward, v \in Addr => Allocated(v)
  PROVE  IInv'
  <1> DEFINE l == <<r, "root">>
  <1>1. l \in Loc /\ l \notin Field
    BY LocKinds DEF Loc, RootLoc
  <1>2. /\ PagesInv' /\ NewInv' /\ UnmappedInv' /\ PhaseInv' /\ ForwardInv' /\ ValidInv'
        /\ StaleInv' /\ RememberedInv' /\ CopyInv' /\ WeakPairsApart'
        /\ \A m \in Loc : m \notin Field /\ m # l =>
             ref'[m] = ref[m] /\ (ref[m] \in Addr => GenOf(ref[m])' = GenOf(ref[m]))
    BY <1>1, PlaceInv
  <1>3. UNCHANGED <<phase, collect_gen, protected, pend_hold, pend_final, forward_list>>
    BY DEF gc_vars, guardian_vars
  <1>4. \A e \in Entry : <<e, "entry">> \in Loc /\ <<e, "entry">> \notin Field /\ <<e, "entry">> # l
    BY LocKinds DEF EntryLoc, Loc
  <1> HIDE DEF l
  <1>5. \A e \in Entry : /\ ref'[<<e, "entry">>] = ref[<<e, "entry">>]
                         /\ ref[<<e, "entry">>] \in Addr => GenOf(ref[<<e, "entry">>])' = GenOf(ref[<<e, "entry">>])
    BY <1>2, <1>4
  <1>6. ListsInv'
    BY <1>3, <1>5 DEF IInv, ListsInv, Registered, HoldGen
  <1>7. EntriesInv'
    BY <1>3, <1>5 DEF IInv, EntriesInv, Tracing, TypeOK
  <1> QED BY <1>2, <1>6, <1>7 DEF IInv

\* cons, weak-cons and make-vector.
LEMMA AllocateInv ==
  ASSUME IInv, NEW r \in Root, Allocate(r), TypeOK'
  PROVE  IInv'
  <1>1. PICK k \in UserKind, u \in Handles, v \in Handles : Place(k, u, v, <<r, "root">>)
    BY DEF Allocate
  <1>2. phase = "mutator" /\ UNCHANGED <<gc_vars, guardian_vars>> /\ k \in Kind
    BY DEF Allocate, Mutating, UserKind, Kind
  <1>3. u # Forward /\ (u \in Addr => Allocated(u)) /\ v # Forward /\ (v \in Addr => Allocated(v))
    BY <1>2, ProgramValue
  <1> QED BY <1>1, <1>2, <1>3, RootPlacedInv

\* make-guardian, its first cons.
LEMMA MakeCellInv ==
  ASSUME IInv, NEW r \in Root, MakeCell(r), TypeOK'
  PROVE  IInv'
  <1>1. /\ Place("cell", Nil, Nil, <<r, "root">>) /\ phase = "mutator"
        /\ UNCHANGED <<gc_vars, guardian_vars>> /\ "cell" \in Kind
    BY DEF MakeCell, Mutating, Kind
  <1>2. Nil # Forward /\ Nil \notin Addr
    BY ConstantsAssumption
  <1> QED BY <1>1, <1>2, RootPlacedInv

\* make-guardian, its second cons.
LEMMA MakeTconcInv ==
  ASSUME IInv, NEW r \in Root, MakeTconc(r), TypeOK'
  PROVE  IInv'
  <1>1. /\ Place("tconc", Handle(r), Handle(r), <<r, "root">>) /\ phase = "mutator"
        /\ UNCHANGED <<gc_vars, guardian_vars>> /\ "tconc" \in Kind
    BY DEF MakeTconc, Mutating, Kind
  <1>2. Handle(r) # Forward /\ (Handle(r) \in Addr => Allocated(Handle(r)))
    BY <1>1, ProgramValue DEF Handle, Loc, RootLoc
  <1> QED BY <1>1, <1>2, RootPlacedInv

\* A pair is registered on the list of generation 0, where it was allocated.
LEMMA RegisterInv ==
  ASSUME IInv, NEW r \in Root, Register(r), TypeOK'
  PROVE  IInv'
  <1>1. PICK e \in Entry \ Registered, v \in Handles :
          /\ Place("cell", Handle(r), v, <<e, "entry">>)
          /\ protected' = [protected EXCEPT ![0] = @ \cup {e}]
    BY DEF Register
  <1>2. /\ phase = "mutator" /\ UNCHANGED gc_vars
        /\ UNCHANGED <<phase, collect_gen, pend_hold, pend_final, forward_list>>
        /\ "cell" \in Kind
    BY DEF Register, Mutating, Kind, gc_vars
  <1>3. /\ Handle(r) # Forward /\ (Handle(r) \in Addr => Allocated(Handle(r)))
        /\ v # Forward /\ (v \in Addr => Allocated(v))
    BY <1>2, ProgramValue DEF Handle, Loc, RootLoc
  <1> DEFINE l == <<e, "entry">>
  <1>4. l \in Loc /\ l \notin Field
    BY LocKinds DEF Loc, EntryLoc
  <1>5. /\ PagesInv' /\ NewInv' /\ UnmappedInv' /\ PhaseInv' /\ ForwardInv' /\ ValidInv'
        /\ StaleInv' /\ RememberedInv' /\ CopyInv' /\ WeakPairsApart'
        /\ ref'[l] \in Addr /\ GenOf(ref[l])' = 0
        /\ \A m \in Loc : m \notin Field /\ m # l =>
             ref'[m] = ref[m] /\ (ref[m] \in Addr => GenOf(ref[m])' = GenOf(ref[m]))
    BY <1>1, <1>2, <1>3, <1>4, PlaceInv
  <1>6. \A x \in Entry : x # e =>
          /\ ref'[<<x, "entry">>] = ref[<<x, "entry">>]
          /\ ref[<<x, "entry">>] \in Addr => GenOf(ref[<<x, "entry">>])' = GenOf(ref[<<x, "entry">>])
    <2>1. \A x \in Entry : x # e => <<x, "entry">> # l
      OBVIOUS
    <2>2. \A x \in Entry : <<x, "entry">> \in Loc /\ <<x, "entry">> \notin Field
      BY LocKinds DEF EntryLoc, Loc
    <2> QED BY <1>5, <2>1, <2>2
  <1>7. 0 \in Gen
    BY ConstantsAssumption DEF Gen
  <1>8. /\ protected'[0] = protected[0] \cup {e}
        /\ \A g \in Gen : g # 0 => protected'[g] = protected[g]
    BY <1>1, <1>7 DEF IInv, TypeOK
  <1>9. pend_hold = {} /\ pend_final = {} /\ forward_list = {}
    BY <1>2 DEF IInv, ListsInv
  <1>10. \A g \in Gen : e \notin protected[g]
    BY DEF Registered
  <1>11. ListsInv'
    <2>1. Registered' = Registered \cup {e}
      BY <1>7, <1>8 DEF Registered
    <2>2. \A g, h \in Gen : g # h => protected'[g] \cap protected'[h] = {}
      BY <1>8, <1>10 DEF IInv, ListsInv
    <2> QED BY <1>2, <1>6, <1>9, <2>1, <2>2 DEF IInv, ListsInv
  <1>12. EntriesInv'
    <2>1. \A g \in Gen : \A x \in protected[g] :
            x \in Entry /\ x # e /\ ref[<<x, "entry">>] \in Addr /\ GenOf(ref[<<x, "entry">>]) = g
      BY <1>2, <1>10 DEF IInv, EntriesInv, Tracing, TypeOK
    <2>2. \A g \in Gen : \A x \in protected[g] :
            ref'[<<x, "entry">>] \in Addr /\ GenOf(ref[<<x, "entry">>])' = g
      BY <1>6, <2>1
    <2>3. \A g \in Gen : \A x \in protected'[g] : x \in protected[g] \/ (x = e /\ g = 0)
      BY <1>8
    <2> QED BY <1>2, <1>5, <1>9, <2>2, <2>3 DEF EntriesInv, Tracing
  <1> QED BY <1>5, <1>11, <1>12 DEF IInv

\* Every step of the program preserves the invariant.
LEMMA ProgramInv ==
  ASSUME IInv, Program
  PROVE  IInv'
  <1>1. TypeOK'
    BY NextType DEF Next, IInv
  <1> QED BY <1>1, AllocateInv, SetFieldInv, LoadInv, DropInv, MakeCellInv, MakeTconcInv,
             RegisterInv, DequeueInv DEF Program

-----------------------------------------------------------------------------
(* The theorems *)

\* The invariant holds of the empty heap.
LEMMA InitInv == Init => IInv
  <1> SUFFICES ASSUME Init PROVE IInv
    OBVIOUS
  <1>1. TypeOK
    BY ConstantsAssumption DEF Init, TypeOK, Phase, Gen, PageType, NoBits, Value
  <1>2. \A l \in Loc : ref[l] = Nil
    BY DEF Init
  <1>3. \A a \in Addr : /\ ~Allocated(a) /\ Car(a) = Nil /\ Cdr(a) = Nil
                        /\ <<a, "car">> \in Loc /\ <<a, "cdr">> \in Loc
    BY <1>2, LocKinds DEF Init, Allocated, Car, Cdr
  <1>4. Nil # Forward /\ Nil \notin Addr
    BY ConstantsAssumption
  <1>5. PagesInv /\ CopyInv /\ WeakPairsApart
    BY <1>3 DEF Init, PagesInv, CopyInv, WeakPairsApart
  <1>6. NewInv /\ UnmappedInv /\ PhaseInv
    BY DEF Init, NewInv, UnmappedInv, PhaseInv
  <1>7. ForwardInv /\ ValidInv /\ StaleInv
    BY <1>2, <1>4 DEF Init, ForwardInv, ValidInv, StaleInv, Stale, Tracing
  <1>8. RememberedInv
    BY <1>2, <1>4, LocKinds DEF RememberedInv
  <1>9. \A g \in Gen : protected[g] = {}
    BY DEF Init
  <1>10. Registered = {}
    BY <1>9 DEF Registered
  <1>11. \A e \in Entry : ref[<<e, "entry">>] = Nil
    BY <1>2 DEF Loc, EntryLoc
  <1>12. ListsInv /\ EntriesInv
    BY <1>9, <1>10, <1>11 DEF Init, ListsInv, EntriesInv, Tracing
  <1> QED BY <1>1, <1>5, <1>6, <1>7, <1>8, <1>12 DEF IInv

\* IInv holds in every reachable state, in the middle of a collection too.
THEOREM InductiveInvariant == Spec => []IInv
  <1>1. IInv /\ [Next]_vars => IInv'
    <2> SUFFICES ASSUME IInv, [Next]_vars PROVE IInv'
      OBVIOUS
    <2>1. CASE Program
      BY <2>1, ProgramInv
    <2>2. CASE StartCollection
      BY <2>2, StartCollectionInv
    <2>3. CASE CollectorStep
      BY <2>3, CollectorStepInv
    <2>4. CASE UNCHANGED vars
      <3>1. UNCHANGED <<phase, collect_gen, scan, page, todo, queue, type, gen, new, dirty, object,
                        ref, protected, pend_hold, pend_final, forward_list>>
        BY <2>4 DEF vars, gc_vars, seg_vars, mem_vars, guardian_vars
      <3>2. TypeOK'
        BY NextType DEF IInv
      <3>3. PagesInv' /\ NewInv' /\ UnmappedInv' /\ PhaseInv' /\ CopyInv' /\ WeakPairsApart' /\ ListsInv'
        BY <3>1 DEF IInv, PagesInv, NewInv, UnmappedInv, PhaseInv, CopyInv, WeakPairsApart,
                    ListsInv, CardAhead, IsDirty, Allocated, Free, Car, Cdr, Collected, Forwarded,
                    KindAt, Registered, HoldGen
      <3>4. ForwardInv'
        BY <3>1 DEF IInv, ForwardInv, LeftLoc, Left, Collected, Forwarded, Car, Cdr
      <3>5. ValidInv'
        BY <3>1 DEF IInv, ValidInv, LeftLoc, Left, Collected, Allocated
      <3>6. StaleInv'
        <4>1. \A l : /\ Stale(l) <=> Stale(l)'
                     /\ LeftLoc(l) <=> LeftLoc(l)'
          BY <3>1 DEF Stale, LeftLoc, Left, Collected
        <4>2. Unsorted' = Unsorted /\ \A l : CardAhead(l) <=> CardAhead(l)'
          BY <3>1 DEF Unsorted, CardAhead, IsDirty
        <4>3. \A l : Pending(l) <=> Pending(l)'
          BY <3>1, <4>2 DEF Pending, IsWeakCar
        <4>4. QED BY <4>1, <4>3 DEF IInv, StaleInv
      <3>7. RememberedInv'
        BY <3>1 DEF IInv, RememberedInv, Left, Collected, GenOf, CardAhead, IsDirty
      <3>8. EntriesInv'
        <4>1. /\ \A e : NotOlder(e) <=> NotOlder(e)'
              /\ \A x : GenOf(x)' = GenOf(x)
              /\ HoldGen' = HoldGen
          BY <3>1 DEF NotOlder, GenOf, HoldGen, Collected
        <4>2. QED BY <3>1, <4>1 DEF IInv, EntriesInv
      <3> QED BY <3>2, <3>3, <3>4, <3>5, <3>6, <3>7, <3>8 DEF IInv
    <2> QED BY <2>1, <2>2, <2>3, <2>4 DEF Next
  <1> QED BY <1>1, InitInv, PTL DEF Spec

\* No pointer the program can follow leads to freed memory or to the remains
\* of a copied object.
THEOREM PointersValid == Spec => []NoDangling
  <1>1. IInv => NoDangling
    <2> SUFFICES ASSUME IInv, phase = "mutator", NEW l \in Held, ref[l] \in Addr
                 PROVE  Allocated(ref[l]) /\ ~Forwarded(ref[l])
      BY DEF NoDangling
    <2>1. l \in Loc
      BY DEF Held, EntriesOf, Registered, EntryLoc, Loc, IInv, TypeOK
    <2>2. <<ref[l], "car">> \in Loc
      BY LocKinds
    <2> QED BY <2>1, <2>2, ProgramValue DEF Forwarded, Car
  <1> QED BY <1>1, InductiveInvariant, PTL

\* The card of every pointer to a younger object carries its generation.
THEOREM RememberedSetComplete == Spec => []RememberedSet
  <1>1. IInv => RememberedSet
    <2> SUFFICES ASSUME IInv, phase = "mutator", NEW l \in Field, ref[l] \in Addr,
                        GenOf(ref[l]) < GenOf(l[1])
                 PROVE  GenOf(ref[l]) \in dirty[PageOf[l[1]]][CardOf[l[1]]]
      BY DEF RememberedSet
    <2>1. ~Left(PageOf[l[1]]) /\ ~new[PageOf[l[1]]]
      BY SettledInv, LocKinds, ConstantsAssumption DEF Settled
    <2> QED BY <2>1 DEF IInv, RememberedInv, CardAhead
  <1> QED BY <1>1, InductiveInvariant, PTL

\* A collection leaves one copy of every object.
THEOREM ObjectsNotSplit == Spec => []OneCopy
  <1>1. IInv => OneCopy
    <2> SUFFICES ASSUME IInv, phase = "mutator", NEW a \in Addr, NEW b \in Addr,
                        Allocated(a), object[a] = object[b]
                 PROVE  a = b
      BY DEF OneCopy
    <2>1. \A x \in Addr : <<x, "car">> \in Loc
      BY LocKinds
    <2>2. ~Forwarded(a) /\ ~Forwarded(b)
      BY <2>1, ProgramValue DEF Forwarded, Car
    <2> QED BY <2>2 DEF IInv, CopyInv
  <1> QED BY <1>1, InductiveInvariant, PTL

\* Weak pairs, and only weak pairs, are on weak-pair pages at every moment.
THEOREM WeakPairsKept == Spec => []WeakPairsApart
  <1>1. IInv => WeakPairsApart
    BY DEF IInv
  <1> QED BY <1>1, InductiveInvariant, PTL

\* Every registered pair is on the list of the generation it lives in.
THEOREM EntriesOnTheirList == Spec => []ProtectedGeneration
  <1>1. IInv => ProtectedGeneration
    BY DEF IInv, EntriesInv, ProtectedGeneration, Tracing
  <1> QED BY <1>1, InductiveInvariant, PTL

-----------------------------------------------------------------------------
(* Reachability: Reach finds the least set that holds what one starts from   *)
(* and what its members lead to.                                             *)

\* R holds the nodes in S, and what its nodes lead to
ReachClosed(S, next, R) ==
  /\ R \subseteq DOMAIN next
  /\ S \cap DOMAIN next \subseteq R
  /\ \A x \in R : next[x] \cap DOMAIN next \subseteq R

\* what the nodes in T lead to
More(next, T) == (UNION {next[x] : x \in T}) \cap DOMAIN next

\* adding to a set of nodes what they lead to comes to an end
LEMMA AddingFalls ==
  ASSUME NEW next, NEW U, U = DOMAIN next, IsFiniteSet(U),
         NEW D, D = {T \in SUBSET U : ~(More(next, T) \subseteq T)},
         NEW add, add = [T \in D |-> T \cup More(next, T)]
  PROVE  Falls(D, SUBSET U, add)
  <1>1. ASSUME NEW T \in D
        PROVE  T \in SUBSET U /\ ~(More(next, T) \subseteq T) /\ More(next, T) \subseteq U
    <2>1. T \in SUBSET U /\ ~(More(next, T) \subseteq T)
      OBVIOUS
    <2>2. More(next, T) \subseteq DOMAIN next
      BY DEF More
    <2>3. QED BY <2>1, <2>2
  <1>2. D \subseteq SUBSET U /\ add \in [D -> SUBSET U]
    BY <1>1
  <1>3. ASSUME NEW S \in SUBSET D, S # {} PROVE \E T \in S : add[T] \notin S
    <2> DEFINE N == {Cardinality(T) : T \in S}
               b == Cardinality(U)
    <2>1. b \in Nat /\ \A T \in S : Cardinality(T) \in Nat /\ Cardinality(T) <= b /\ IsFiniteSet(T)
      BY <1>1, FS_Subset, FS_CardinalityType
    <2>2. N \subseteq 0 .. b /\ N # {}
      BY <1>3, <2>1
    <2>3. PICK n \in N : \A m \in N : m <= n
      <3> HIDE DEF N, b
      <3>1. QED BY <2>1, <2>2, GreatestNumber
    <2>4. PICK T \in S : n = Cardinality(T)
      BY <2>3
    <2>5. ASSUME add[T] \in S PROVE FALSE
      <3>1. T \in D
        BY <1>3
      <3>2. add[T] = T \cup More(next, T)
        BY <3>1
      <3>3. PICK T2 \in S : T2 = T \cup More(next, T)
        BY <2>5, <3>2
      <3>4. T \in SUBSET T2 /\ T # T2 /\ IsFiniteSet(T2)
        BY <1>1, <2>1, <3>1, <3>3
      <3>5. Cardinality(T) <= Cardinality(T2) /\ Cardinality(T) # Cardinality(T2)
        BY <3>4, FS_Subset
      <3>6. Cardinality(T2) \in N
        BY <3>3
      <3>7. Cardinality(T2) <= Cardinality(T)
        BY <2>3, <2>4, <3>6
      <3>8. QED BY <2>1, <3>3, <3>5, <3>7
    <2>6. QED BY <2>5
  <1>4. QED BY <1>2, <1>3 DEF Falls, Grounded

\* what Close computes: g closes every set
ClosesBy(next, g) ==
  /\ g \in [SUBSET DOMAIN next -> SUBSET DOMAIN next]
  /\ \A T \in SUBSET DOMAIN next :
       g[T] = IF More(next, T) \subseteq T THEN T ELSE g[T \cup More(next, T)]

\* it closes some way, and Reach is what it comes to
LEMMA ReachUnfolds ==
  ASSUME NEW S, NEW next, IsFiniteSet(DOMAIN next)
  PROVE  \E g : ClosesBy(next, g) /\ Reach(S, next) = g[S \cap DOMAIN next]
  <1> DEFINE U == DOMAIN next
             E == SUBSET U
             D == {T \in E : ~(More(next, T) \subseteq T)}
             add == [T \in D |-> T \cup More(next, T)]
             base == [T \in E |-> T]
             step == [T \in D |-> [o \in E |-> o]]
             F(h) == [T \in E |-> IF More(next, T) \subseteq T THEN T ELSE h[T \cup More(next, T)]]
             c == CHOOSE h : h = F(h)
  <1>1. Falls(D, E, add)
    <2> HIDE DEF add, D
    <2>1. QED BY AddingFalls DEF add, D
  <1>2. base \in [E -> E] /\ step \in [D -> [E -> E]]
    OBVIOUS
  <1>3. PICK g \in [E -> E] : Along(D, E, add, base, step, g)
    <2> HIDE DEF D, E, add, base, step
    <2>1. QED BY <1>1, <1>2, AlongExists
  <1>4. ASSUME NEW T \in E
        PROVE  g[T] = IF More(next, T) \subseteq T THEN T ELSE g[T \cup More(next, T)]
    <2>1. g[T] = IF T \in D THEN step[T][g[add[T]]] ELSE base[T]
      BY <1>3 DEF Along
    <2>2. CASE T \in D
      <3>1. add[T] = T \cup More(next, T) /\ ~(More(next, T) \subseteq T)
        BY <2>2
      <3>2. add[T] \in E
        BY <1>1, <2>2 DEF Falls
      <3>3. g[add[T]] \in E
        BY <1>3, <3>2
      <3>4. step[T][g[add[T]]] = g[add[T]]
        <4> DEFINE o == g[add[T]]
        <4> HIDE DEF o
        <4>1. o \in E /\ step[T][o] = o
          BY <2>2, <3>3 DEF o
        <4>2. QED BY <4>1 DEF o
      <3>5. g[T] = g[add[T]]
        BY <2>1, <2>2, <3>4
      <3>6. QED BY <3>1, <3>5
    <2>3. CASE T \notin D
      BY <2>1, <2>3
    <2>4. QED BY <2>2, <2>3
  <1>5. g = F(g)
    <2>1. \A T \in E : g[T] = F(g)[T]
      BY <1>4
    <2>2. QED BY <1>3, <2>1
  <1>6. c = F(c)
    BY <1>5
  <1>7. Reach(S, next) = c[S \cap U]
    BY Zenon DEF Reach, More
  <1>8. \A T \in E : c[T] = IF More(next, T) \subseteq T THEN T ELSE c[T \cup More(next, T)]
    <2> HIDE DEF c
    <2>1. \A T \in E : F(c)[T] = IF More(next, T) \subseteq T THEN T ELSE c[T \cup More(next, T)]
      OBVIOUS
    <2>2. QED BY <1>6, <2>1
  <1>9. \A T \in E : c[T] = g[T]
    <2> HIDE DEF c
    <2>1. \A T \in E \ D : c[T] = g[T]
      BY <1>4, <1>8
    <2>2. \A T \in E \cap D : c[add[T]] = g[add[T]] => c[T] = g[T]
      <3>1. \A T \in D : add[T] = T \cup More(next, T) /\ ~(More(next, T) \subseteq T) /\ T \in E
        OBVIOUS
      <3>2. QED BY <1>4, <1>8, <3>1
    <2>3. E \subseteq E /\ \A T \in E \cap D : add[T] \in E
      BY <1>1 DEF Falls
    <2> HIDE DEF E, D, add
    <2>4. QED BY <1>1, <2>1, <2>2, <2>3, AlongUnique
  <1>10. c[S \cap U] = g[S \cap U]
    BY <1>9
  <1>11. ClosesBy(next, g)
    BY <1>3, <1>4 DEF ClosesBy
  <1>12. QED BY <1>7, <1>10, <1>11

\* Reach is whole, and the least set that is
LEMMA ReachIsLeast ==
  ASSUME NEW S, NEW next, IsFiniteSet(DOMAIN next)
  PROVE  /\ ReachClosed(S, next, Reach(S, next))
         /\ \A R : ReachClosed(S, next, R) => Reach(S, next) \subseteq R
  <1> DEFINE U == DOMAIN next
             D == {T \in SUBSET U : ~(More(next, T) \subseteq T)}
             add == [T \in D |-> T \cup More(next, T)]
  <1>1. PICK g : ClosesBy(next, g) /\ Reach(S, next) = g[S \cap U]
    BY ReachUnfolds
  <1>2. Falls(D, SUBSET U, add)
    <2> HIDE DEF add, D
    <2>1. QED BY AddingFalls DEF add, D
  <1>3. ASSUME NEW T \in SUBSET U
        PROVE  g[T] = IF T \in D THEN g[add[T]] ELSE T
    <2>1. g[T] = IF More(next, T) \subseteq T THEN T ELSE g[T \cup More(next, T)]
      BY <1>1 DEF ClosesBy
    <2>2. T \in D => add[T] = T \cup More(next, T)
      OBVIOUS
    <2>3. QED BY <2>1, <2>2
  <1>4. \A T \in D : add[T] = T \cup More(next, T) /\ T \in SUBSET U
    OBVIOUS
  <1>5. add \in [D -> SUBSET U] /\ Grounded(D, add)
    BY <1>2 DEF Falls
  <1>6. ASSUME NEW R, ReachClosed(S, next, R),
               NEW T \in SUBSET U, T \subseteq R
        PROVE  g[T] \subseteq R
    <2> DEFINE B == {X \in D : X \subseteq R /\ ~(g[X] \subseteq R)}
    <2>1. ASSUME B # {} PROVE FALSE
      <3>1. PICK X \in B : add[X] \notin B
        <4>1. B \in SUBSET D
          OBVIOUS
        <4> HIDE DEF B, D, add
        <4>2. QED BY <1>5, <2>1, <4>1 DEF Grounded
      <3>2. X \in D /\ X \subseteq R /\ ~(g[X] \subseteq R)
        BY <3>1
      <3>3. add[X] \subseteq R
        <4>1. X \subseteq R
          BY <3>2
        <4>2. ASSUME NEW x \in X PROVE next[x] \cap DOMAIN next \subseteq R
          BY <1>6, <4>1 DEF ReachClosed
        <4>3. More(next, X) \subseteq R
          <5> HIDE DEF B
          <5>1. QED BY <4>2 DEF More
        <4>4. QED BY <1>4, <3>2, <4>1, <4>3
      <3>4. g[X] = g[add[X]] /\ add[X] \in SUBSET U
        BY <1>3, <1>4, <1>5, <3>2
      <3>5. ~(g[add[X]] \subseteq R)
        BY <3>2, <3>4
      <3>6. add[X] \notin D
        BY <3>1, <3>3, <3>5
      <3>7. g[add[X]] = add[X]
        BY <1>3, <3>4, <3>6
      <3>8. QED BY <3>3, <3>5, <3>7
    <2>2. CASE T \in D
      BY <1>6, <2>1, <2>2
    <2>3. CASE T \notin D
      BY <1>3, <1>6, <2>3
    <2>4. QED BY <2>2, <2>3
  <1>7. ASSUME NEW T \in SUBSET U
        PROVE  T \subseteq g[T] /\ g[T] \in SUBSET U /\ g[T] \notin D
    <2> DEFINE Ok(X) == X \subseteq g[X] /\ g[X] \in SUBSET U /\ g[X] \notin D
               B == {X \in D : ~Ok(X)}
    <2>1. ASSUME B # {} PROVE FALSE
      <3>1. PICK X \in B : add[X] \notin B
        <4>1. B \in SUBSET D
          OBVIOUS
        <4> HIDE DEF B, D, add
        <4>2. QED BY <1>5, <2>1, <4>1 DEF Grounded
      <3>2. X \in D /\ ~Ok(X)
        BY <3>1
      <3>3. X \subseteq add[X]
        BY <1>4, <3>2
      <3>4. g[X] = g[add[X]] /\ add[X] \in SUBSET U
        BY <1>3, <1>4, <1>5, <3>2
      <3>5. Ok(add[X])
        <4>1. CASE add[X] \in D
          BY <3>1, <4>1
        <4>2. CASE add[X] \notin D
          <5>1. g[add[X]] = add[X]
            BY <1>3, <3>4, <4>2
          <5>2. QED BY <3>4, <4>2, <5>1
        <4>3. QED BY <4>1, <4>2
      <3>6. QED BY <3>2, <3>3, <3>4, <3>5
    <2>2. CASE T \in D
      BY <2>1, <2>2
    <2>3. CASE T \notin D
      BY <1>3, <2>3
    <2>4. QED BY <2>2, <2>3
  <1> DEFINE V == Reach(S, next)
             S0 == S \cap U
  <1>8. S0 \subseteq V /\ V \in SUBSET U /\ V \notin D
    <2>1. S0 \in SUBSET U /\ V = g[S0]
      BY <1>1
    <2> HIDE DEF V, D, S0
    <2>2. QED BY <1>7, <2>1
  <1>9. ReachClosed(S, next, V)
    <2> HIDE DEF V
    <2>1. More(next, V) \subseteq V
      BY <1>8
    <2>2. ASSUME NEW x \in V PROVE next[x] \cap DOMAIN next \subseteq V
      BY <2>1 DEF More
    <2>3. S \cap DOMAIN next \subseteq V /\ V \subseteq DOMAIN next
      BY <1>8
    <2>4. QED BY <2>2, <2>3 DEF ReachClosed
  <1>10. ASSUME NEW R, ReachClosed(S, next, R) PROVE V \subseteq R
    <2>1. S \cap U \subseteq R
      BY <1>10 DEF ReachClosed
    <2>2. QED BY <1>1, <1>6, <1>10, <2>1
  <1>11. QED BY <1>9, <1>10

-----------------------------------------------------------------------------
(* The collector implements Heap, of programs that make no guardians: there  *)
(* the view of a heap is that of the objects in reach, and what is to be     *)
(* shown of a step is that it keeps an object for everything it leaves in    *)
(* reach.                                                                    *)

\* the program makes no guardians
NoGuardians == \A o \in Object : KindOf[o] \notin {"tconc", "cell"}

\* then no entry is ever in use, and a forwarding pointer leads to the copy
NothingGuarded ==
  /\ \A g \in Gen : protected[g] = {}
  /\ pend_hold = {} /\ pend_final = {} /\ forward_list = {}

\* a forwarding pointer leads to a copy of the object (add_object_proc)
CopiesSame == phase \in Tracing => \A a \in Addr : Forwarded(a) => object[Cdr(a)] = object[a]

\* the locations the program reads, if it can get to R
Sources(R) == RootLoc \cup {l \in Field : l[1] \in R}

\* R has everything the program can get to
WholeReach(R) ==
  /\ R \subseteq Addr
  /\ \A l \in Sources(R) : ref[l] \in Addr => Now(ref[l]) \in R

\* an object that has not moved, and is not to be lost
Staying(a) ==
  /\ a \in Addr /\ Allocated(a) /\ ~Forwarded(a)
  /\ phase \in Settling \cup {"deallocate_unused_pages"} => ~Left(PageOf[a])

\* what there is to know of Reachable
ReachFact ==
  /\ WholeReach(Reachable)
  /\ \A R : WholeReach(R) => Reachable \subseteq R
  /\ \A a \in Reachable : Staying(a)

\* no object is a cell or a tconc
LEMMA NoCells ==
  ASSUME IInv, NoGuardians, NEW a \in Addr
  PROVE  ~Is(a, "cell") /\ ~Is(a, "tconc")
  BY DEF Is, Allocated, KindAt, NoGuardians, IInv, TypeOK

\* with nothing guarded no list has an entry
LEMMA NoEntries ==
  ASSUME NothingGuarded
  PROVE  Registered = {} /\ Lists = {}
  BY DEF NothingGuarded, Registered, Lists

\* the phases in which nothing that can be reached is forwarded
Calm == phase \in Settling \cup {"deallocate_unused_pages", "mutator"}

\* where an object is now, it stays
LEMMA NowStaying ==
  ASSUME IInv, NEW R, \A a \in R : Staying(a), NEW l \in Sources(R), ref[l] \in Addr
  PROVE  /\ l \in Loc /\ Allocated(ref[l])
         /\ Staying(Now(ref[l]))
         /\ Calm => Now(ref[l]) = ref[l] /\ ~Left(PageOf[ref[l]])
  <1> DEFINE x == ref[l]
  <1>1. l \in Loc /\ (phase \in Settling \cup {"deallocate_unused_pages"} => ~LeftLoc(l))
    BY LocKinds DEF Sources, Staying, LeftLoc
  <1>2. Allocated(x) /\ <<x, "car">> \in Loc /\ <<x, "cdr">> \in Loc
    BY <1>1, LocKinds DEF IInv, ValidInv
  <1>3. Forwarded(x) => LeftLoc(<<x, "car">>) /\ Left(PageOf[x])
    BY <1>2, ConstantsAssumption DEF IInv, ForwardInv, Forwarded, Car, LeftLoc
  <1>4. CASE Calm
    <2>1. ~Left(PageOf[x])
      <3>1. CASE phase = "mutator"
        BY <3>1, ProgramValue
      <3>2. CASE phase \in {"fix_new_pages", "deallocate_unused_pages"}
        <4>1. todo = {} /\ queue = {}
          BY <3>2 DEF IInv, PhaseInv, Settling
        <4>2. ~Pending(l)
          BY <3>2, <4>1 DEF Pending, CardAhead
        <4>3. ~Stale(l)
          BY <1>1, <3>2, <4>2 DEF IInv, StaleInv, Settling
        <4>4. QED BY <4>3 DEF Stale
      <3>3. CASE phase = "gc_finalize_guardians"
        BY <1>1, <3>3, SettledInv DEF Settled, Settling
      <3>4. QED BY <1>4, <3>1, <3>2, <3>3 DEF Calm, Settling
    <2>2. ~Forwarded(x)
      BY <1>3, <2>1
    <2>3. QED BY <1>1, <1>2, <2>1, <2>2 DEF Staying, Now
  <1>5. CASE phase \in Tracing \ {"deallocate_unused_pages"}
    <2>1. ~Calm /\ phase \notin Settling \cup {"deallocate_unused_pages"}
      BY <1>5 DEF Calm, Tracing, Settling
    <2>2. CASE ~Forwarded(x)
      BY <1>1, <1>2, <2>1, <2>2 DEF Staying, Now
    <2>3. CASE Forwarded(x)
      <3> DEFINE y == Cdr(x)
      <3>1. y \in Addr /\ new[PageOf[y]]
        BY <1>5, <2>3 DEF IInv, ForwardInv
      <3>2. ref[<<x, "cdr">>] = y
        BY DEF Cdr
      <3>4. Allocated(y)
        BY <1>2, <2>1, <3>1, <3>2 DEF IInv, ValidInv
      <3>5. ~Left(PageOf[y])
        BY <2>1, <3>1 DEF Left, Collected
      <3>6. <<y, "car">> \in Loc /\ ~LeftLoc(<<y, "car">>)
        BY <3>1, <3>5, LocKinds DEF LeftLoc
      <3>7. ~Forwarded(y)
        BY <3>6 DEF IInv, ForwardInv, Forwarded, Car
      <3>8. Now(x) = y
        BY <2>3 DEF Now
      <3> HIDE DEF y
      <3>9. QED BY <1>1, <1>2, <2>1, <3>1, <3>4, <3>7, <3>8 DEF Staying
    <2>4. QED BY <2>2, <2>3
  <1>6. phase \in Phase
    BY DEF IInv, TypeOK
  <1>7. QED BY <1>4, <1>5, <1>6 DEF Phase, Tracing, Settling, Calm

\* What the program can reach is the least set that has everything it can get
\* to, and all of it stays.
LEMMA ReachKnown ==
  ASSUME IInv, NoGuardians
  PROVE  ReachFact
  <1> DEFINE S == {Now(x) : x \in {Handle(r) : r \in Root} \cap Addr}
             next == [a \in Addr |-> Successors(a)]
             G == {a \in Addr : Staying(a)}
  <1>1. \A a \in Addr : next[a] = {Now(x) : x \in {Car(a), Cdr(a)} \cap Addr}
    BY NoCells DEF Successors
  <1>2. DOMAIN next = Addr /\ IsFiniteSet(DOMAIN next)
    BY HeapAssumption
  <1>3. /\ \A r \in Root : <<r, "root">> \in RootLoc /\ Handle(r) = ref[<<r, "root">>]
        /\ \A l \in RootLoc : \E r \in Root : ref[l] = Handle(r)
    BY DEF Handle, RootLoc
  <1>4. /\ \A a \in Addr : /\ <<a, "car">> \in Field /\ Car(a) = ref[<<a, "car">>]
                           /\ <<a, "cdr">> \in Field /\ Cdr(a) = ref[<<a, "cdr">>]
        /\ \A l \in Field : l[1] \in Addr /\ (ref[l] = Car(l[1]) \/ ref[l] = Cdr(l[1]))
    BY LocKinds DEF Car, Cdr
  <1>5. S \cap DOMAIN next = S /\ S \subseteq G
    <2>1. ASSUME NEW r \in Root, Handle(r) \in Addr
          PROVE  Staying(Now(Handle(r)))
      <3> DEFINE l == <<r, "root">>
      <3>1. l \in Sources({}) /\ ref[l] \in Addr /\ \A a \in {} : Staying(a)
        BY <1>3, <2>1 DEF Sources
      <3> HIDE DEF l
      <3>2. Staying(Now(ref[l]))
        BY <3>1, NowStaying
      <3>3. QED BY <1>3, <3>2 DEF l
    <2>2. QED BY <2>1 DEF Staying
  <1>6. \A a \in G : next[a] \subseteq G
    <2>1. ASSUME NEW a \in G, NEW l \in Field, l[1] = a, ref[l] \in Addr
          PROVE  Now(ref[l]) \in G
      <3>1. l \in Sources(G) /\ \A b \in G : Staying(b)
        BY <2>1 DEF Sources
      <3>2. Staying(Now(ref[l]))
        BY <2>1, <3>1, NowStaying
      <3>3. QED BY <3>2 DEF Staying
    <2>2. ASSUME NEW a \in G PROVE next[a] \subseteq G
      <3>1. Car(a) \in Addr => Now(Car(a)) \in G
        BY <1>4, <2>1
      <3>2. Cdr(a) \in Addr => Now(Cdr(a)) \in G
        BY <1>4, <2>1
      <3>3. QED BY <1>1, <3>1, <3>2
    <2>3. QED BY <2>2
  <1>7. Reachable = Reach(S, next)
    BY DEF Reachable
  <1>8. /\ ReachClosed(S, next, Reachable)
        /\ \A R : ReachClosed(S, next, R) => Reachable \subseteq R
    <2> HIDE DEF S, next
    <2>1. QED BY <1>2, <1>7, ReachIsLeast
  <1>9. Reachable \subseteq G
    <2>1. ReachClosed(S, next, G)
      BY <1>5, <1>6 DEF ReachClosed
    <2>2. QED BY <1>8, <2>1
  <1>10. WholeReach(Reachable)
    <2>1. S \subseteq Reachable
      BY <1>5, <1>8 DEF ReachClosed
    <2>2. ASSUME NEW r \in Root, Handle(r) \in Addr PROVE Now(Handle(r)) \in Reachable
      BY <2>1, <2>2
    <2>3. ASSUME NEW a \in Reachable, NEW x \in {Car(a), Cdr(a)}, x \in Addr
          PROVE  Now(x) \in Reachable
      <3>1. a \in Addr /\ a \in G
        BY <1>9
      <3>2. Now(x) \in next[a]
        BY <1>1, <2>3, <3>1
      <3>3. Now(x) \in DOMAIN next
        BY <1>6, <3>1, <3>2
      <3>4. next[a] \cap DOMAIN next \subseteq Reachable
        BY <1>8 DEF ReachClosed
      <3>5. QED BY <3>2, <3>3, <3>4
    <2>4. Reachable \subseteq Addr
      BY <1>9
    <2>5. ASSUME NEW l \in Sources(Reachable), ref[l] \in Addr PROVE Now(ref[l]) \in Reachable
      <3>1. CASE l \in RootLoc
        BY <1>3, <2>2, <2>5, <3>1
      <3>2. CASE l \in Field /\ l[1] \in Reachable
        BY <1>4, <2>3, <2>5, <3>2
      <3>3. QED BY <3>1, <3>2 DEF Sources
    <2>6. QED BY <2>4, <2>5 DEF WholeReach
  <1>11. ASSUME NEW R, WholeReach(R) PROVE Reachable \subseteq R
    <2>1. R \subseteq Addr /\ \A l \in Sources(R) : ref[l] \in Addr => Now(ref[l]) \in R
      BY <1>11 DEF WholeReach
    <2>2. S \subseteq R
      <3>1. ASSUME NEW r \in Root, Handle(r) \in Addr PROVE Now(Handle(r)) \in R
        BY <1>3, <2>1, <3>1 DEF Sources
      <3>2. QED BY <3>1
    <2>3. ASSUME NEW a \in R PROVE next[a] \subseteq R
      <3>1. /\ <<a, "car">> \in Sources(R) /\ <<a, "cdr">> \in Sources(R) /\ a \in Addr
        BY <1>4, <2>1 DEF Sources
      <3>2. /\ Car(a) \in Addr => Now(Car(a)) \in R
            /\ Cdr(a) \in Addr => Now(Cdr(a)) \in R
        BY <1>4, <2>1, <3>1
      <3>3. QED BY <1>1, <3>1, <3>2
    <2>4. ReachClosed(S, next, R)
      BY <1>2, <2>1, <2>2, <2>3 DEF ReachClosed
    <2>5. QED BY <1>8, <2>4
  <1>12. QED BY <1>9, <1>10, <1>11 DEF ReachFact

-----------------------------------------------------------------------------
(* The view of a heap without guardians *)

\* what a variable or a field of a heap may hold
Content == Object \cup Value

\* heaps without guardians
Heaps ==
  [root : [Root -> Content], field : [Object -> [car : Content, cdr : Content]],
   tqueue : [{t \in Object : KindOf[t] = "tconc"} -> {<< >>}],
   registered : {{}}, condemned : {{}}]

\* the objects in reach
Reached == {object[a] : a \in Reachable}

\* g has the program's variables, and the fields of everything in reach
Agrees(g) ==
  /\ g.root = [r \in Root |-> ValueOf(Handle(r))]
  /\ \A a \in Reachable : g.field[object[a]] = [car |-> ValueOf(Car(a)), cdr |-> ValueOf(Cdr(a))]
  /\ g.registered = {} /\ g.condemned = {}

\* the view is all that can be reached in a heap that agrees
ViewFact ==
  /\ HeapView \in Heaps
  /\ Agrees(HeapView)
  /\ \A g : Agrees(g) => Promise!Retained(g) = Reached /\ Promise!Becomes(HeapView, g)

\* R holds the objects in the variables of h, and those in the fields of the
\* objects it holds, but for the cars of those in W
WholeHeap(h, W, R) ==
  /\ R \subseteq Object
  /\ \A r \in Root : h.root[r] \in Object => h.root[r] \in R
  /\ \A o \in R : /\ h.field[o].car \in Object => h.field[o].car \in R \/ o \in W
                  /\ h.field[o].cdr \in Object => h.field[o].cdr \in R

\* Heap means the same by what is reached
LEMMA PromiseReach ==
  ASSUME NEW S, NEW next
  PROVE  Promise!Reach(S, next) = Reach(S, next)
  BY Zenon DEF Promise!Reach, Reach

\* What Heap retains is the least set that holds what it refers to.
LEMMA RetainedIsLeast ==
  ASSUME NoGuardians, NEW h
  PROVE  /\ WholeHeap(h, {}, Promise!Retained(h))
         /\ \A R : WholeHeap(h, {}, R) => Promise!Retained(h) \subseteq R
  <1> DEFINE S == {h.root[r] : r \in Root}
             next == [o \in Object |-> {h.field[o].car, h.field[o].cdr}]
  <1>1. Promise!Tconcs = {}
    BY DEF NoGuardians, Promise!Tconcs
  <1>2. Promise!Retained(h) = Promise!Reach(S, next)
    BY <1>1 DEF Promise!Retained, Promise!Variables
  <1>3. DOMAIN next = Object /\ IsFiniteSet(DOMAIN next)
    BY HeapAssumption
  <1>4. ASSUME NEW R PROVE ReachClosed(S, next, R) <=> WholeHeap(h, {}, R)
    BY DEF ReachClosed, WholeHeap
  <1> HIDE DEF S, next
  <1>5. Promise!Retained(h) = Reach(S, next)
    BY <1>2, PromiseReach
  <1>6. QED BY <1>3, <1>4, <1>5, ReachIsLeast

\* and what is reached strongly, the least that holds what it refers to but for weak cars
LEMMA StrongIsLeast ==
  ASSUME NoGuardians, NEW h
  PROVE  \A R : WholeHeap(h, Promise!Weaks, R) => Promise!StrongWith(h, {}) \subseteq R
  <1> DEFINE S == {h.root[r] : r \in Root}
             next == [o \in Object |-> IF o \in Promise!Weaks THEN {h.field[o].cdr}
                                       ELSE {h.field[o].car, h.field[o].cdr}]
  <1>1. Promise!Tconcs = {}
    BY DEF NoGuardians, Promise!Tconcs
  <1>2. Promise!StrongWith(h, {}) = Promise!Reach(S, next)
    BY <1>1 DEF Promise!StrongWith, Promise!Variables
  <1>3. DOMAIN next = Object /\ IsFiniteSet(DOMAIN next)
    BY HeapAssumption
  <1>4. ASSUME NEW R, WholeHeap(h, Promise!Weaks, R) PROVE ReachClosed(S, next, R)
    BY <1>4 DEF ReachClosed, WholeHeap
  <1> HIDE DEF S, next
  <1>5. Promise!StrongWith(h, {}) = Reach(S, next)
    BY <1>2, PromiseReach
  <1>6. QED BY <1>3, <1>4, <1>5, ReachIsLeast

\* what the program reads is an immediate, or the object where it is now
LEMMA ValueKnown ==
  ASSUME IInv, NoGuardians, CopiesSame, NEW l \in Sources(Reachable)
  PROVE  /\ ValueOf(ref[l]) \in Content
         /\ ref[l] \in Addr => /\ ValueOf(ref[l]) = object[Now(ref[l])]
                               /\ ValueOf(ref[l]) = object[ref[l]]
                               /\ ValueOf(ref[l]) \in Object
                               /\ Now(ref[l]) \in Reachable
         /\ ref[l] \notin Addr => ValueOf(ref[l]) = ref[l] /\ ValueOf(ref[l]) \notin Object
  <1>1. ReachFact
    BY ReachKnown
  <1>2. l \in Loc /\ ref[l] \in Value
    <2>1. l \in Loc
      BY LocKinds DEF Sources
    <2>2. QED BY <2>1, RefValue DEF IInv
  <1>3. CASE ref[l] \in Addr
    <2>1. /\ Allocated(ref[l])
          /\ Calm => Now(ref[l]) = ref[l]
      BY <1>1, <1>3, NowStaying DEF ReachFact
    <2>2. ValueOf(ref[l]) = object[ref[l]] /\ object[ref[l]] \in Object
      BY <1>3, <2>1, NoCells DEF ValueOf, Allocated, IInv, TypeOK
    <2>3. object[Now(ref[l])] = object[ref[l]]
      <3>1. phase \in Tracing \/ Calm
        BY DEF Calm, Tracing, Settling, IInv, TypeOK, Phase
      <3>2. QED BY <1>3, <2>1, <3>1 DEF CopiesSame, Now
    <2>4. Now(ref[l]) \in Reachable
      BY <1>1, <1>3 DEF ReachFact, WholeReach
    <2>5. QED BY <1>3, <2>2, <2>3, <2>4 DEF Content
  <1>4. CASE ref[l] \notin Addr
    BY <1>2, <1>4, HeapAssumption DEF ValueOf, Content, Value
  <1>5. QED BY <1>3, <1>4

\* an object is in reach at one address
LEMMA ReachedOnce ==
  ASSUME IInv, NoGuardians
  PROVE  /\ \A a \in Reachable : object[a] \in Object /\ a \in Addr /\ Staying(a)
         /\ \A a, b \in Reachable : object[a] = object[b] => a = b
  <1>1. ReachFact
    BY ReachKnown
  <1>2. \A a \in Reachable : a \in Addr /\ Allocated(a) /\ ~Forwarded(a) /\ Staying(a)
    BY <1>1 DEF ReachFact, Staying
  <1>3. QED BY <1>2 DEF IInv, CopyInv, TypeOK, Allocated

\* the roots, and the fields of the objects in reach
LEMMA SourcesAre ==
  ASSUME NEW R, R \subseteq Addr
  PROVE  /\ \A r \in Root : <<r, "root">> \in Sources(R) /\ Handle(r) = ref[<<r, "root">>]
         /\ \A a \in R : /\ <<a, "car">> \in Sources(R) /\ Car(a) = ref[<<a, "car">>]
                         /\ <<a, "cdr">> \in Sources(R) /\ Cdr(a) = ref[<<a, "cdr">>]
         /\ \A l \in Sources(R) : \/ \E r \in Root : l = <<r, "root">>
                                  \/ \E a \in R : l = <<a, "car">> \/ l = <<a, "cdr">>
  <1>1. \A l \in Field : l = <<l[1], "car">> \/ l = <<l[1], "cdr">>
    BY LocKinds
  <1>2. QED BY <1>1, LocKinds DEF Sources, Handle, Car, Cdr, RootLoc

\* what is retained of a heap that agrees are the objects in reach
LEMMA RetainedReached ==
  ASSUME IInv, NoGuardians, CopiesSame, NEW g, Agrees(g)
  PROVE  Promise!Retained(g) = Reached
  <1>1. ReachFact
    BY ReachKnown
  <1>2. Reachable \subseteq Addr
    BY <1>1 DEF ReachFact, WholeReach
  <1>3. /\ \A r \in Root : g.root[r] = ValueOf(ref[<<r, "root">>])
        /\ \A a \in Reachable : /\ g.field[object[a]].car = ValueOf(ref[<<a, "car">>])
                                /\ g.field[object[a]].cdr = ValueOf(ref[<<a, "cdr">>])
    <2>1. \A r \in Root : g.root[r] = ValueOf(ref[<<r, "root">>])
      BY DEF Agrees, Handle
    <2>2. ASSUME NEW a \in Reachable
          PROVE  /\ g.field[object[a]].car = ValueOf(ref[<<a, "car">>])
                 /\ g.field[object[a]].cdr = ValueOf(ref[<<a, "cdr">>])
      <3>1. g.field[object[a]] = [car |-> ValueOf(Car(a)), cdr |-> ValueOf(Cdr(a))]
        BY DEF Agrees
      <3>2. QED BY <3>1 DEF Car, Cdr
    <2>3. QED BY <2>1, <2>2
  <1>4. \A l \in Sources(Reachable) : ValueOf(ref[l]) \in Object =>
          /\ ref[l] \in Addr /\ Now(ref[l]) \in Reachable
          /\ ValueOf(ref[l]) = object[Now(ref[l])]
    BY ValueKnown
  <1>5. /\ \A r \in Root : <<r, "root">> \in Sources(Reachable)
        /\ \A a \in Reachable : /\ <<a, "car">> \in Sources(Reachable)
                                /\ <<a, "cdr">> \in Sources(Reachable)
    BY <1>2, SourcesAre
  <1>6. WholeHeap(g, {}, Reached)
    <2>1. Reached \subseteq Object
      BY ReachedOnce DEF Reached
    <2>2. \A l \in Sources(Reachable) : ValueOf(ref[l]) \in Object => ValueOf(ref[l]) \in Reached
      BY <1>4 DEF Reached
    <2>3. \A r \in Root : g.root[r] \in Object => g.root[r] \in Reached
      BY <1>3, <1>5, <2>2
    <2>4. ASSUME NEW a \in Reachable
          PROVE  /\ g.field[object[a]].car \in Object => g.field[object[a]].car \in Reached
                 /\ g.field[object[a]].cdr \in Object => g.field[object[a]].cdr \in Reached
      BY <1>3, <1>5, <2>2
    <2>5. \A o \in Reached : /\ g.field[o].car \in Object => g.field[o].car \in Reached
                             /\ g.field[o].cdr \in Object => g.field[o].cdr \in Reached
      BY <2>4 DEF Reached
    <2>6. QED BY <2>1, <2>3, <2>5 DEF WholeHeap
  <1>7. ASSUME NEW R, WholeHeap(g, {}, R) PROVE Reached \subseteq R
    <2> DEFINE T == {a \in Reachable : object[a] \in R}
    <2>1. /\ \A r \in Root : g.root[r] \in Object => g.root[r] \in R
          /\ \A o \in R : /\ g.field[o].car \in Object => g.field[o].car \in R
                          /\ g.field[o].cdr \in Object => g.field[o].cdr \in R
      BY <1>7 DEF WholeHeap
    <2>2. ASSUME NEW l \in Sources(T), ref[l] \in Addr PROVE Now(ref[l]) \in T
      <3>1. l \in Sources(Reachable)
        BY <2>2 DEF Sources
      <3>2. ValueOf(ref[l]) = object[Now(ref[l])] /\ ValueOf(ref[l]) \in Object /\ Now(ref[l]) \in Reachable
        BY <2>2, <3>1, ValueKnown
      <3>3. ValueOf(ref[l]) \in R
        <4>1. T \subseteq Addr
          BY <1>2
        <4>2. CASE \E r \in Root : l = <<r, "root">>
          BY <1>3, <2>1, <3>2, <4>2
        <4>3. CASE \E a \in T : l = <<a, "car">> \/ l = <<a, "cdr">>
          BY <1>3, <2>1, <3>2, <4>3
        <4> HIDE DEF T
        <4>4. QED BY <4>1, <4>2, <4>3, SourcesAre
      <3>4. QED BY <3>2, <3>3
    <2>3. T \subseteq Addr
      BY <1>2
    <2>4. WholeReach(T)
      BY <2>2, <2>3 DEF WholeReach
    <2>5. Reachable \subseteq T
      BY <1>1, <2>4 DEF ReachFact
    <2>6. QED BY <2>5 DEF Reached
  <1>8. WholeHeap(g, {}, Promise!Retained(g)) /\ Promise!Retained(g) \subseteq Reached
    BY <1>6, RetainedIsLeast
  <1>9. Reached \subseteq Promise!Retained(g)
    BY <1>7, <1>8
  <1>10. QED BY <1>8, <1>9

\* the view, object by object
LEMMA ViewIs ==
  ASSUME IInv, NoGuardians, NothingGuarded
  PROVE  /\ HeapView.root = [r \in Root |-> ValueOf(Handle(r))]
         /\ HeapView.registered = {} /\ HeapView.condemned = {}
         /\ HeapView.tqueue = [o \in {t \in Object : KindOf[t] = "tconc"} |-> << >>]
         /\ HeapView = [root |-> HeapView.root, field |-> HeapView.field,
                        tqueue |-> HeapView.tqueue, registered |-> HeapView.registered,
                        condemned |-> HeapView.condemned]
         /\ HeapView.field = [o \in Object |-> HeapView.field[o]]
         /\ \A a \in Reachable :
              HeapView.field[object[a]] = [car |-> ValueOf(Car(a)), cdr |-> ValueOf(Cdr(a))]
         /\ \A o \in Object : o \notin Reached => HeapView.field[o] = [car |-> Nil, cdr |-> Nil]
  <1> DEFINE at(o) == {a \in Reachable : object[a] = o}
             fields == [o \in Object |->
                IF at(o) = {} \/ KindOf[o] \in {"tconc", "cell"}
                THEN [car |-> Nil, cdr |-> Nil]
                ELSE LET a == CHOOSE b \in at(o) : TRUE
                     IN  [car |-> ValueOf(Car(a)), cdr |-> ValueOf(Cdr(a))]]
             queues == [o \in {t \in Object : KindOf[t] = "tconc"} |->
                IF at(o) = {} THEN <<>> ELSE Chain(CHOOSE b \in at(o) : TRUE)]
  <1>1. Reachable \in SUBSET Addr
    BY ReachKnown DEF ReachFact, WholeReach
  <1>2. HeapView = [root |-> [r \in Root |-> ValueOf(Handle(r))],
                    field |-> fields,
                    tqueue |-> queues,
                    registered |-> {c \in {Registration(e) : e \in Registered \cup pend_hold \cup pend_final} : at(c[2]) # {}},
                    condemned |-> {c \in {Registration(e) : e \in forward_list} : at(c[2]) # {}}]
    BY <1>1, Zenon DEF HeapView, View
  <1>3. Registered \cup pend_hold \cup pend_final = {} /\ forward_list = {}
    BY NoEntries DEF NothingGuarded
  <1>4. queues = [o \in {t \in Object : KindOf[t] = "tconc"} |-> << >>]
    BY DEF NoGuardians
  <1>5. ASSUME NEW a \in Reachable
        PROVE  fields[object[a]] = [car |-> ValueOf(Car(a)), cdr |-> ValueOf(Cdr(a))]
    <2>1. object[a] \in Object /\ at(object[a]) = {a}
      BY ReachedOnce
    <2>2. KindOf[object[a]] \notin {"tconc", "cell"}
      BY <2>1 DEF NoGuardians
    <2>3. (CHOOSE b \in at(object[a]) : TRUE) = a
      BY <2>1
    <2> HIDE DEF at
    <2>4. QED BY <2>1, <2>2, <2>3
  <1>6. \A o \in Object : o \notin Reached => fields[o] = [car |-> Nil, cdr |-> Nil]
    BY DEF Reached
  <1>7. fields = [o \in Object |-> fields[o]]
    OBVIOUS
  <1>8. /\ HeapView.registered = {} /\ HeapView.condemned = {}
    BY <1>2, <1>3
  <1>9. /\ HeapView.root = [r \in Root |-> ValueOf(Handle(r))]
        /\ HeapView.field = fields /\ HeapView.tqueue = queues
        /\ HeapView = [root |-> HeapView.root, field |-> HeapView.field,
                        tqueue |-> HeapView.tqueue, registered |-> HeapView.registered,
                        condemned |-> HeapView.condemned]
    <2> HIDE DEF fields, queues
    <2>1. QED BY <1>2
  <1> HIDE DEF fields, queues
  <1>10. QED BY <1>4, <1>5, <1>6, <1>7, <1>8, <1>9

\* The view is a heap, it agrees, and it is what any heap that agrees becomes.
LEMMA ViewKnown ==
  ASSUME IInv, NoGuardians, NothingGuarded, CopiesSame
  PROVE  ViewFact
  <1>1. Agrees(HeapView)
    BY ViewIs DEF Agrees
  <1>2. ReachFact
    BY ReachKnown
  <1>3. Reachable \subseteq Addr
    BY <1>2 DEF ReachFact, WholeReach
  <1>4. /\ \A r \in Root : ValueOf(Handle(r)) \in Content
        /\ \A a \in Reachable : ValueOf(Car(a)) \in Content /\ ValueOf(Cdr(a)) \in Content
    <2>1. \A l \in Sources(Reachable) : ValueOf(ref[l]) \in Content
      BY ValueKnown
    <2>2. QED BY <1>3, <2>1, SourcesAre
  <1>5. \A o \in Object : HeapView.field[o] \in [car : Content, cdr : Content]
    <2>1. Nil \in Content
      BY DEF Content, Value
    <2>2. ASSUME NEW a \in Reachable
          PROVE  HeapView.field[object[a]] \in [car : Content, cdr : Content]
      <3>1. HeapView.field[object[a]] = [car |-> ValueOf(Car(a)), cdr |-> ValueOf(Cdr(a))]
        BY ViewIs
      <3>2. QED BY <1>4, <3>1
    <2>3. ASSUME NEW o \in Object, o \notin Reached
          PROVE  HeapView.field[o] \in [car : Content, cdr : Content]
      BY <2>1, <2>3, ViewIs
    <2>4. QED BY <2>2, <2>3 DEF Reached
  <1>6. HeapView \in Heaps
    <2>1. HeapView.field \in [Object -> [car : Content, cdr : Content]]
      BY <1>5, ViewIs
    <2>2. HeapView.root \in [Root -> Content]
      <3>1. HeapView.root = [r \in Root |-> ValueOf(Handle(r))]
        BY ViewIs
      <3>2. QED BY <1>4, <3>1
    <2>3. HeapView.tqueue \in [{t \in Object : KindOf[t] = "tconc"} -> {<< >>}]
      BY ViewIs
    <2>4. HeapView.registered \in {{}} /\ HeapView.condemned \in {{}}
      BY ViewIs
    <2>5. HeapView = [root |-> HeapView.root, field |-> HeapView.field,
                      tqueue |-> HeapView.tqueue, registered |-> HeapView.registered,
                      condemned |-> HeapView.condemned]
      BY ViewIs
    <2>6. QED BY <2>1, <2>2, <2>3, <2>4, <2>5 DEF Heaps
  <1>7. ASSUME NEW g, Agrees(g)
        PROVE  Promise!Retained(g) = Reached /\ Promise!Becomes(HeapView, g)
    <2>1. Promise!Retained(g) = Reached
      BY <1>7, RetainedReached
    <2>2. g.root = HeapView.root /\ g.registered = {} /\ g.condemned = {}
      BY <1>7, ViewIs DEF Agrees
    <2>3. HeapView.field = [o \in Object |-> IF o \in Reached THEN g.field[o] ELSE Promise!Blank]
      <3>1. ASSUME NEW a \in Reachable PROVE HeapView.field[object[a]] = g.field[object[a]]
        <4>1. HeapView.field[object[a]] = [car |-> ValueOf(Car(a)), cdr |-> ValueOf(Cdr(a))]
          BY ViewIs
        <4>2. g.field[object[a]] = [car |-> ValueOf(Car(a)), cdr |-> ValueOf(Cdr(a))]
          BY <1>7 DEF Agrees
        <4>3. QED BY <4>1, <4>2
      <3>2. \A o \in Object : HeapView.field[o] = IF o \in Reached THEN g.field[o] ELSE Promise!Blank
        BY <3>1, ViewIs DEF Reached, Promise!Blank
      <3>3. HeapView.field = [o \in Object |-> HeapView.field[o]]
        BY ViewIs
      <3>4. QED BY <3>2, <3>3
    <2>4. Promise!Tconcs = {} /\ {t \in Object : KindOf[t] = "tconc"} = {}
      BY DEF Promise!Tconcs, NoGuardians
    <2>5. HeapView.tqueue = [o \in Promise!Tconcs |-> IF o \in Reached THEN g.tqueue[o] ELSE << >>]
      BY <2>4, ViewIs
    <2>6. /\ HeapView.registered = {c \in g.registered : c[2] \in Reached}
          /\ HeapView.condemned = {c \in g.condemned : c[2] \in Reached}
      BY <2>2, ViewIs
    <2>7. HeapView = [root |-> g.root,
                      field |-> [o \in Object |-> IF o \in Reached THEN g.field[o] ELSE Promise!Blank],
                      tqueue |-> [o \in Promise!Tconcs |-> IF o \in Reached THEN g.tqueue[o] ELSE << >>],
                      registered |-> {c \in g.registered : c[2] \in Reached},
                      condemned |-> {c \in g.condemned : c[2] \in Reached}]
      <3>1. HeapView = [root |-> HeapView.root, field |-> HeapView.field,
                        tqueue |-> HeapView.tqueue, registered |-> HeapView.registered,
                        condemned |-> HeapView.condemned]
        BY ViewIs
      <3>2. QED BY <2>2, <2>3, <2>5, <2>6, <3>1
    <2>8. QED BY <2>1, <2>2, <2>7, Zenon DEF Promise!Becomes
  <1>8. QED BY <1>1, <1>6, <1>7 DEF ViewFact

-----------------------------------------------------------------------------
(* Steps *)

\* the object a value leads to, and where it is now
At(objects, x) == IF x \in Addr THEN objects[x] ELSE x
Where(refs, x) == IF x \in Addr /\ refs[<<x, "car">>] = Forward THEN refs[<<x, "cdr">>] ELSE x

\* all that is known of a state
Known == IInv /\ NothingGuarded /\ CopiesSame /\ ReachFact /\ ViewFact

\* ValueOf and Now are these
LEMMA AtWhere ==
  /\ NoGuardians /\ TypeOK => \A x : ValueOf(x) = At(object, x)
  /\ \A x : Now(x) = Where(ref, x)
  <1>1. ASSUME NoGuardians, TypeOK, NEW x PROVE ValueOf(x) = At(object, x)
    BY <1>1 DEF ValueOf, At, Is, NoGuardians, KindAt, Allocated, TypeOK
  <1>2. \A x : Now(x) = Where(ref, x)
    BY DEF Now, Where, Forwarded, Car, Cdr
  <1>3. QED BY <1>1, <1>2

\* the same after a step
LEMMA AtWhereAfter ==
  /\ NoGuardians /\ TypeOK' => \A x : ValueOf(x)' = At(object', x)
  /\ \A x : Now(x)' = Where(ref', x)
  <1>1. ASSUME NoGuardians, TypeOK', NEW x PROVE ValueOf(x)' = At(object', x)
    BY <1>1 DEF ValueOf, At, Is, NoGuardians, KindAt, Allocated, TypeOK
  <1>2. \A x : Now(x)' = Where(ref', x)
    BY DEF Now, Where, Forwarded, Car, Cdr
  <1>3. QED BY <1>1, <1>2

\* the heap a state is seen as
LEMMA ViewBefore ==
  ASSUME NoGuardians, Known
  PROVE  /\ HeapView \in Heaps
         /\ HeapView.root = [r \in Root |-> At(object, ref[<<r, "root">>])]
         /\ \A a \in Reachable :
              HeapView.field[object[a]] = [car |-> At(object, ref[<<a, "car">>]),
                                           cdr |-> At(object, ref[<<a, "cdr">>])]
         /\ HeapView.registered = {} /\ HeapView.condemned = {}
         /\ Promise!Retained(HeapView) = Reached
         /\ Promise!Becomes(HeapView, HeapView)
  <1>1. \A x : ValueOf(x) = At(object, x)
    BY AtWhere DEF Known, IInv
  <1>2. Agrees(HeapView) /\ HeapView \in Heaps
    BY DEF Known, ViewFact
  <1>3. HeapView.root = [r \in Root |-> At(object, ref[<<r, "root">>])]
    <2>1. HeapView.root = [r \in Root |-> ValueOf(Handle(r))]
      BY <1>2 DEF Agrees
    <2>2. \A r \in Root : ValueOf(Handle(r)) = At(object, ref[<<r, "root">>])
      BY <1>1 DEF Handle
    <2>3. QED BY <2>1, <2>2
  <1>4. ASSUME NEW a \in Reachable
        PROVE  HeapView.field[object[a]] = [car |-> At(object, ref[<<a, "car">>]),
                                            cdr |-> At(object, ref[<<a, "cdr">>])]
    <2>1. HeapView.field[object[a]] = [car |-> ValueOf(Car(a)), cdr |-> ValueOf(Cdr(a))]
      BY <1>2 DEF Agrees
    <2>2. QED BY <1>1, <2>1 DEF Car, Cdr
  <1>5. HeapView.registered = {} /\ HeapView.condemned = {}
    BY <1>2 DEF Agrees
  <1>6. Promise!Retained(HeapView) = Reached /\ Promise!Becomes(HeapView, HeapView)
    BY <1>2 DEF Known, ViewFact
  <1>7. QED BY <1>2, <1>3, <1>4, <1>5, <1>6

\* what there is in reach
LEMMA ReachBefore ==
  ASSUME NoGuardians, Known
  PROVE  /\ Reachable \in SUBSET Addr
         /\ \A a \in Reachable : object[a] \in Object /\ Staying(a)
         /\ \A a, b \in Reachable : object[a] = object[b] => a = b
         /\ \A l \in Sources(Reachable) : ref[l] \in Addr =>
              /\ Where(ref, ref[l]) \in Reachable
              /\ At(object, ref[l]) = object[Where(ref, ref[l])]
              /\ Calm => Where(ref, ref[l]) = ref[l] /\ ~Left(PageOf[ref[l]])
              /\ Allocated(ref[l])
         /\ \A l \in Sources(Reachable) : l \in Loc
         /\ \A l \in Sources(Reachable) : ref[l] \notin Addr => At(object, ref[l]) \notin Object
  <1>1. ReachFact /\ IInv /\ CopiesSame
    BY DEF Known
  <1>2. \A l \in Sources(Reachable) : ref[l] \in Addr =>
              /\ Now(ref[l]) \in Reachable
              /\ ValueOf(ref[l]) = object[Now(ref[l])]
              /\ Calm => Now(ref[l]) = ref[l] /\ ~Left(PageOf[ref[l]])
              /\ Allocated(ref[l])
    <2>1. ASSUME NEW l \in Sources(Reachable), ref[l] \in Addr
          PROVE  /\ Now(ref[l]) \in Reachable
                 /\ ValueOf(ref[l]) = object[Now(ref[l])]
      BY <1>1, <2>1, ValueKnown
    <2>2. ASSUME NEW l \in Sources(Reachable), ref[l] \in Addr
          PROVE  /\ Calm => Now(ref[l]) = ref[l] /\ ~Left(PageOf[ref[l]])
                 /\ Allocated(ref[l])
      <3>1. \A a \in Reachable : Staying(a)
        BY <1>1 DEF ReachFact
      <3>2. QED BY <1>1, <2>2, <3>1, NowStaying
    <2>3. QED BY <2>1, <2>2
  <1>3. \A l \in Sources(Reachable) : ref[l] \in Addr =>
              /\ Where(ref, ref[l]) \in Reachable
              /\ At(object, ref[l]) = object[Where(ref, ref[l])]
              /\ Calm => Where(ref, ref[l]) = ref[l] /\ ~Left(PageOf[ref[l]])
              /\ Allocated(ref[l])
    <2>1. \A x : Now(x) = Where(ref, x) /\ ValueOf(x) = At(object, x)
      BY <1>1, AtWhere DEF IInv
    <2>2. QED BY <1>2, <2>1
  <1>4. /\ \A a \in Reachable : object[a] \in Object /\ Staying(a)
        /\ \A a, b \in Reachable : object[a] = object[b] => a = b
    BY <1>1, ReachedOnce
  <1>5. Reachable \in SUBSET Addr
    BY <1>1 DEF ReachFact, WholeReach
  <1>6. \A l \in Sources(Reachable) : l \in Loc
    BY LocKinds DEF Sources
  <1>7. ASSUME NEW l \in Sources(Reachable), ref[l] \notin Addr PROVE At(object, ref[l]) \notin Object
    <2>1. ValueOf(ref[l]) \notin Object
      BY <1>1, <1>7, ValueKnown
    <2>2. \A x : ValueOf(x) = At(object, x)
      BY <1>1, AtWhere DEF IInv
    <2>3. QED BY <2>1, <2>2
  <1>8. QED BY <1>3, <1>4, <1>5, <1>6, <1>7

\* After a step the heap is seen as g, if g has what the program can get to,
\* which is in T.
LEMMA ViewAfter ==
  ASSUME NoGuardians, Known', NEW T \in SUBSET Addr, NEW g,
         \A l \in Sources(T) : ref'[l] \in Addr => Where(ref', ref'[l]) \in T,
         g.root = [r \in Root |-> At(object', ref'[<<r, "root">>])],
         \A a \in T : g.field[object'[a]] = [car |-> At(object', ref'[<<a, "car">>]),
                                             cdr |-> At(object', ref'[<<a, "cdr">>])],
         g.registered = {} /\ g.condemned = {}
  PROVE  Promise!Becomes(HeapView', g)
  <1>1. \A x : ValueOf(x)' = At(object', x) /\ Now(x)' = Where(ref', x)
    BY AtWhereAfter DEF Known, IInv
  <1>2. Reachable' \subseteq T
    <2>1. \A l \in Sources(T) : ref'[l] \in Addr => Now(ref[l])' \in T
      BY <1>1 DEF Now, Where, Forwarded, Car, Cdr
    <2>2. WholeReach(T)'
      BY <2>1 DEF WholeReach, Sources
    <2>3. \A R : WholeReach(R)' => Reachable' \subseteq R
      BY DEF Known, ReachFact
    <2>4. QED BY <2>2, <2>3
  <1>3. g.root = [r \in Root |-> ValueOf(Handle(r))']
    <2>1. \A r \in Root : ValueOf(Handle(r))' = At(object', ref'[<<r, "root">>])
      BY DEF Known, IInv, TypeOK, NoGuardians, ValueOf, At, Is, KindAt, Allocated, Handle
    <2>2. QED BY <2>1
  <1>4. ASSUME NEW a \in Reachable'
        PROVE  g.field[object'[a]] = [car |-> ValueOf(Car(a))', cdr |-> ValueOf(Cdr(a))']
    <2>1. /\ ValueOf(Car(a))' = At(object', ref'[<<a, "car">>])
          /\ ValueOf(Cdr(a))' = At(object', ref'[<<a, "cdr">>])
      BY DEF Known, IInv, TypeOK, NoGuardians, ValueOf, At, Is, KindAt, Allocated, Car, Cdr
    <2>2. QED BY <1>2, <2>1
  <1>5. Agrees(g)'
    BY <1>3, <1>4 DEF Agrees
  <1>6. \A h : Agrees(h)' => Promise!Becomes(HeapView', h)
    BY DEF Known, ViewFact
  <1>7. QED BY <1>5, <1>6

\* and as it was before, if T has only what it had then
LEMMA Unseen ==
  ASSUME NoGuardians, Known, Known', NEW T \in SUBSET Addr,
         \A l \in Sources(T) : ref'[l] \in Addr => Where(ref', ref'[l]) \in T,
         \A r \in Root : At(object', ref'[<<r, "root">>]) = At(object, ref[<<r, "root">>]),
         \A b \in T : \E a \in Reachable :
           /\ object'[b] = object[a]
           /\ At(object', ref'[<<b, "car">>]) = At(object, ref[<<a, "car">>])
           /\ At(object', ref'[<<b, "cdr">>]) = At(object, ref[<<a, "cdr">>])
  PROVE  HeapView' = HeapView
  <1>1. PICK g : g = HeapView
    OBVIOUS
  <1>2. /\ HeapView.root = [r \in Root |-> At(object, ref[<<r, "root">>])]
        /\ \A a \in Reachable :
             HeapView.field[object[a]] = [car |-> At(object, ref[<<a, "car">>]),
                                          cdr |-> At(object, ref[<<a, "cdr">>])]
        /\ HeapView.registered = {} /\ HeapView.condemned = {}
        /\ Promise!Becomes(HeapView, HeapView)
    BY ViewBefore
  <1>3. g.root = [r \in Root |-> At(object', ref'[<<r, "root">>])]
    <2>1. HeapView.root = [r \in Root |-> At(object, ref[<<r, "root">>])]
      BY <1>2
    <2>2. QED BY <1>1, <2>1
  <1>4. ASSUME NEW b \in T
        PROVE  g.field[object'[b]] = [car |-> At(object', ref'[<<b, "car">>]),
                                      cdr |-> At(object', ref'[<<b, "cdr">>])]
    <2>1. PICK a \in Reachable :
           /\ object'[b] = object[a]
           /\ At(object', ref'[<<b, "car">>]) = At(object, ref[<<a, "car">>])
           /\ At(object', ref'[<<b, "cdr">>]) = At(object, ref[<<a, "cdr">>])
      OBVIOUS
    <2>2. HeapView.field[object[a]] = [car |-> At(object, ref[<<a, "car">>]),
                                       cdr |-> At(object, ref[<<a, "cdr">>])]
      BY <1>2
    <2>3. QED BY <1>1, <2>1, <2>2
  <1>5. g.registered = {} /\ g.condemned = {}
    BY <1>1, <1>2
  <1>6. Promise!Becomes(HeapView', g)
    BY <1>3, <1>4, <1>5, ViewAfter
  <1>7. Promise!Becomes(HeapView, g)
    BY <1>1, <1>2
  <1>8. ASSUME NEW k, NEW h, Promise!Becomes(k, g), Promise!Becomes(h, g) PROVE k = h
    BY <1>8 DEF Promise!Becomes
  <1>9. QED BY <1>6, <1>7, <1>8

\* a step that stores nothing changes nothing the program can see
LEMMA UnseenUnchanged ==
  ASSUME NoGuardians, Known, Known', UNCHANGED <<ref, object>>
  PROVE  HeapView' = HeapView
  <1>1. PICK T : T = Reachable
    OBVIOUS
  <1>2. T \in SUBSET Addr /\ \A l \in Sources(T) : ref[l] \in Addr => Where(ref, ref[l]) \in T
    BY <1>1, ReachBefore
  <1>3. \A l \in Sources(T) : ref'[l] \in Addr => Where(ref', ref'[l]) \in T
    BY <1>2
  <1>4. QED BY <1>1, <1>2, <1>3, Unseen

\* what add_object stores when it follows a forwarding pointer
LEMMA FollowStores ==
  ASSUME IInv, NEW l, Visit(l), FollowObject(l, ref[l])
  PROVE  \E x, y \in Addr :
           /\ x = ref[l] /\ Forwarded(x) /\ y = Cdr(x) /\ phase \in Tracing /\ phase' = phase
           /\ object' = object
           /\ \A m \in Loc : ref'[m] = IF m = l THEN y ELSE ref[m]
           /\ \A z \in Addr : Where(ref', z) = Where(ref, z)
           /\ \A z \in Addr : ref'[<<z, "car">>] = Forward => Forwarded(z) /\ ref'[<<z, "cdr">>] = Cdr(z)
           /\ Where(ref, x) = y /\ Where(ref, y) = y
  <1> DEFINE x == ref[l]
             y == Cdr(x)
  <1>1. /\ l \in Loc /\ ~LeftLoc(l) /\ phase \in Tracing \ Settling /\ x \in Addr /\ Forwarded(x)
        /\ ref' = [ref EXCEPT ![l] = y] /\ object' = object /\ phase' = phase
    BY Visited DEF Visit, FollowObject, Tracing, Settling
  <1>2. y \in Addr /\ new[PageOf[y]]
    BY <1>1 DEF IInv, ForwardInv
  <1>3. ~Left(PageOf[y])
    BY <1>1, <1>2 DEF Left, Collected
  <1>4. y # Forward /\ x # Forward
    BY <1>1, <1>2, ConstantsAssumption
  <1>5. \A m \in Loc : ref'[m] = IF m = l THEN y ELSE ref[m]
    BY <1>1 DEF IInv, TypeOK
  <1>6. ASSUME NEW z \in Addr
        PROVE  /\ ref'[<<z, "car">>] = Forward <=> ref[<<z, "car">>] = Forward
               /\ ref[<<z, "car">>] = Forward => ref'[<<z, "cdr">>] = ref[<<z, "cdr">>]
    <2>1. <<z, "car">> \in Loc /\ <<z, "cdr">> \in Loc /\ <<z, "car">> \in Field /\ <<z, "cdr">> \in Field
      BY LocKinds
    <2>2. ref'[<<z, "car">>] = Forward <=> ref[<<z, "car">>] = Forward
      BY <1>4, <1>5, <2>1
    <2>3. ref[<<z, "car">>] = Forward => LeftLoc(<<z, "car">>)
      BY <2>1 DEF IInv, ForwardInv
    <2>4. LeftLoc(<<z, "car">>) => LeftLoc(<<z, "cdr">>)
      BY <2>1 DEF LeftLoc
    <2>5. QED BY <1>1, <1>5, <2>1, <2>2, <2>3, <2>4
  <1>7. \A z \in Addr : Where(ref', z) = Where(ref, z)
    BY <1>6 DEF Where
  <1>8. Where(ref, x) = y
    BY <1>1 DEF Where, Forwarded, Car, Cdr
  <1>9. Where(ref, y) = y
    <2>1. <<y, "car">> \in Loc /\ ~LeftLoc(<<y, "car">>)
      BY <1>2, <1>3, LocKinds DEF LeftLoc
    <2>2. QED BY <2>1 DEF IInv, ForwardInv, Where
  <1>10. \A z \in Addr : ref'[<<z, "car">>] = Forward => Forwarded(z) /\ ref'[<<z, "cdr">>] = Cdr(z)
    BY <1>6 DEF Forwarded, Car, Cdr
  <1> HIDE DEF x, y
  <1>11. QED BY <1>1, <1>2, <1>5, <1>7, <1>8, <1>9, <1>10 DEF x, y

\* and when it copies
LEMMA CopyStores ==
  ASSUME IInv, NEW l, Visit(l), CopyObject(l, ref[l])
  PROVE  \E x, y \in Addr :
           /\ x = ref[l] /\ x # y /\ Allocated(x) /\ ~Forwarded(x) /\ Free(y) /\ Left(PageOf[x])
           /\ phase \in Tracing /\ phase' = phase
           /\ l \in Loc /\ ~LeftLoc(l) /\ l \notin Fields(x) \cup Fields(y)
           /\ \A a \in Addr : object'[a] = IF a = y THEN object[x] ELSE object[a]
           /\ ref'[<<y, "car">>] = Car(x) /\ ref'[<<y, "cdr">>] = Cdr(x)
           /\ ref'[<<x, "car">>] = Forward /\ ref'[<<x, "cdr">>] = y
           /\ ref'[l] = y
           /\ \A m \in Loc \ (Fields(x) \cup Fields(y) \cup {l}) : ref'[m] = ref[m]
  <1> DEFINE t == CopyType(ref[l])
             g == NextGen(collect_gen)
  <1>1. PICK x \in Addr, y \in Addr :
          /\ x = ref[l] /\ y = Slot(t, g, TRUE)
          /\ MustMove(x)
          /\ y \in Room(t, g, TRUE)
          /\ object' = [object EXCEPT ![y] = object[x]]
          /\ ref' = [ref EXCEPT ![<<y, "car">>] = Car(x), ![<<y, "cdr">>] = Cdr(x),
                                ![<<x, "car">>] = Forward, ![<<x, "cdr">>] = y,
                                ![l] = y]
    BY SlotType DEF CopyObject, MustMove
  <1>2. /\ l \in Loc
        /\ phase \in {"scan_dirty_pages", "roots", "collect_loop", "final_list", "hold_list"}
        /\ ~LeftLoc(l)
        /\ Allocated(x)
        /\ l \in Field => Allocated(l[1])
    BY <1>1, Visited, ConstantsAssumption DEF Visit
  <1>3. phase \in Tracing /\ phase' = phase
    BY <1>2 DEF Visit, Tracing
  <1>4. Free(y)
    BY <1>1 DEF Room, Holes, Free, IInv, PagesInv
  <1>5. ~Forwarded(x) /\ Left(PageOf[x]) /\ x # y
    BY <1>1, <1>2, <1>3, <1>4 DEF MustMove, Left, Free
  <1>6. \A a \in Addr : /\ <<a, "car">> \in Field /\ <<a, "cdr">> \in Field
                        /\ <<a, "car">> \in Loc /\ <<a, "cdr">> \in Loc
    BY LocKinds
  <1>7. l \notin Fields(x) \cup Fields(y)
    BY <1>2, <1>4, <1>5, <1>6, LocKinds DEF LeftLoc, Fields, Free
  <1>8. /\ ref'[<<y, "car">>] = Car(x) /\ ref'[<<y, "cdr">>] = Cdr(x)
        /\ ref'[<<x, "car">>] = Forward /\ ref'[<<x, "cdr">>] = y
        /\ ref'[l] = y
        /\ \A m \in Loc \ (Fields(x) \cup Fields(y) \cup {l}) : ref'[m] = ref[m]
    BY <1>1, <1>2, <1>5, <1>6, <1>7 DEF IInv, TypeOK, Fields
  <1>9. \A a \in Addr : object'[a] = IF a = y THEN object[x] ELSE object[a]
    BY <1>1 DEF IInv, TypeOK
  <1>10. QED BY <1>1, <1>2, <1>3, <1>4, <1>5, <1>7, <1>8, <1>9

\* Where objects are after a copy: at y, instead of at x.
LEMMA CopyMoves ==
  ASSUME IInv, NEW l, Visit(l), CopyObject(l, ref[l])
  PROVE  \E x, y \in Addr :
           /\ x = ref[l] /\ x # y /\ Allocated(x) /\ ~Forwarded(x) /\ Free(y) /\ l \in Loc
           /\ phase \in Tracing /\ phase' = phase
           /\ \A a \in Addr : object'[a] = IF a = y THEN object[x] ELSE object[a]
           /\ Where(ref, x) = x /\ Where(ref', y) = y
           /\ \A z \in Addr : Allocated(z) =>
                Where(ref', z) = IF Where(ref, z) = x THEN y ELSE Where(ref, z)
           /\ \A a \in Addr : ref'[<<a, "car">>] = Forward /\ a # x =>
                Forwarded(a) /\ ref'[<<a, "cdr">>] = Cdr(a)
           /\ ref'[<<x, "cdr">>] = y
           /\ \A m \in Loc : \A b \in Addr :
                b # x /\ m \in Fields(b) =>
                  ref'[m] = IF m = l THEN y
                            ELSE IF m = <<y, "car">> THEN ref[<<x, "car">>]
                            ELSE IF m = <<y, "cdr">> THEN ref[<<x, "cdr">>]
                            ELSE ref[m]
           /\ \A m \in Loc : m \notin Field => ref'[m] = IF m = l THEN y ELSE ref[m]
           /\ l \notin Fields(y)
  <1>1. PICK x \in Addr, y \in Addr :
           /\ x = ref[l] /\ x # y /\ Allocated(x) /\ ~Forwarded(x) /\ Free(y) /\ Left(PageOf[x])
           /\ phase \in Tracing /\ phase' = phase
           /\ l \in Loc /\ ~LeftLoc(l) /\ l \notin Fields(x) \cup Fields(y)
           /\ \A a \in Addr : object'[a] = IF a = y THEN object[x] ELSE object[a]
           /\ ref'[<<y, "car">>] = Car(x) /\ ref'[<<y, "cdr">>] = Cdr(x)
           /\ ref'[<<x, "car">>] = Forward /\ ref'[<<x, "cdr">>] = y
           /\ ref'[l] = y
           /\ \A m \in Loc \ (Fields(x) \cup Fields(y) \cup {l}) : ref'[m] = ref[m]
    BY CopyStores
  <1>2. \A a \in Addr : /\ <<a, "car">> \in Field /\ <<a, "cdr">> \in Field
                        /\ <<a, "car">> \in Loc /\ <<a, "cdr">> \in Loc
    BY LocKinds
  <1>3. x # Forward /\ y # Forward /\ Car(x) # Forward /\ Nil # Forward
    BY <1>1, ConstantsAssumption DEF Forwarded
  <1>4. Car(y) = Nil
    BY <1>1 DEF IInv, PagesInv
  <1>5. ASSUME NEW a \in Addr, a # x
        PROVE  /\ ref'[<<a, "car">>] = Forward <=> Forwarded(a)
               /\ Forwarded(a) => ref'[<<a, "cdr">>] = Cdr(a) /\ a # y
    <2>1. CASE a = y
      BY <1>1, <1>3, <1>4, <2>1 DEF Forwarded
    <2>2. CASE a # y
      <3>1. <<a, "car">> \notin Fields(x) \cup Fields(y) /\ <<a, "cdr">> \notin Fields(x) \cup Fields(y)
        BY <1>5, <2>2 DEF Fields
      <3>2. ref'[<<a, "car">>] = IF l = <<a, "car">> THEN y ELSE ref[<<a, "car">>]
        BY <1>1, <1>2, <3>1
      <3>3. ref'[<<a, "car">>] = Forward <=> Forwarded(a)
        BY <1>1, <1>3, <3>2 DEF Forwarded, Car
      <3>4. Forwarded(a) => LeftLoc(<<a, "car">>)
        BY <1>2 DEF IInv, ForwardInv, Forwarded, Car
      <3>5. LeftLoc(<<a, "car">>) => LeftLoc(<<a, "cdr">>)
        BY <1>2 DEF LeftLoc
      <3>6. Forwarded(a) => ref'[<<a, "cdr">>] = ref[<<a, "cdr">>]
        BY <1>1, <1>2, <3>1, <3>4, <3>5
      <3>7. QED BY <2>2, <3>3, <3>6 DEF Cdr
    <2>3. QED BY <2>1, <2>2
  <1>6. Where(ref, x) = x /\ Where(ref', y) = y
    BY <1>1, <1>3 DEF Where, Forwarded, Car
  <1>7. ASSUME NEW z \in Addr, Allocated(z)
        PROVE  Where(ref', z) = IF Where(ref, z) = x THEN y ELSE Where(ref, z)
    <2>1. CASE z = x
      BY <1>1, <1>6, <2>1 DEF Where
    <2>2. CASE z # x /\ Forwarded(z)
      <3>1. Where(ref, z) = Cdr(z) /\ Where(ref', z) = Cdr(z)
        BY <1>5, <2>2 DEF Where, Forwarded, Car, Cdr
      <3>2. Cdr(z) \in Addr /\ new[PageOf[Cdr(z)]]
        BY <1>1, <2>2 DEF IInv, ForwardInv
      <3>3. ~Left(PageOf[Cdr(z)])
        BY <1>1, <3>2 DEF Left, Collected, Tracing, Settling
      <3>4. Cdr(z) # x
        BY <1>1, <3>3
      <3>5. QED BY <3>1, <3>4
    <2>3. CASE z # x /\ ~Forwarded(z)
      BY <1>5, <2>3 DEF Where, Forwarded, Car
    <2>4. QED BY <2>1, <2>2, <2>3
  <1>8. ASSUME NEW m \in Loc, NEW b \in Addr, b # x, m \in Fields(b)
        PROVE  ref'[m] = IF m = l THEN y
                         ELSE IF m = <<y, "car">> THEN ref[<<x, "car">>]
                         ELSE IF m = <<y, "cdr">> THEN ref[<<x, "cdr">>]
                         ELSE ref[m]
    <2>1. m \notin Fields(x)
      BY <1>8 DEF Fields
    <2>2. CASE m \in Fields(y)
      BY <1>1, <2>2 DEF Fields, Car, Cdr
    <2>3. CASE m \notin Fields(y)
      <3>1. m # <<y, "car">> /\ m # <<y, "cdr">>
        BY <2>3 DEF Fields
      <3>2. QED BY <1>1, <2>1, <2>3, <3>1
    <2>4. QED BY <2>2, <2>3
  <1>9. ASSUME NEW m \in Loc, m \notin Field PROVE ref'[m] = IF m = l THEN y ELSE ref[m]
    BY <1>1, <1>2, <1>9 DEF Fields
  <1>10. QED BY <1>1, <1>5, <1>6, <1>7, <1>8, <1>9

\* what VisitLocation and CollectLoop do
LEMMA VisitsAre ==
  ASSUME IInv, VisitLocation \/ CollectLoop
  PROVE  \E l : Visit(l)
  <1>1. CASE VisitLocation
    <2> DEFINE l == CHOOSE m \in todo : TRUE
    <2>1. l \in todo /\ AddObject(l) /\ todo' = todo \ {l}
      BY <1>1 DEF VisitLocation
    <2>2. Visit(l)
      BY <1>1, <2>1 DEF VisitLocation, Visit
    <2>3. QED BY <2>2
  <1>2. CASE CollectLoop
    <2> DEFINE l == CHOOSE m \in queue : TRUE
    <2>1. l \in queue /\ AddObject(l) /\ todo = {} /\ todo' = todo
      BY <1>2 DEF CollectLoop, Looping
    <2>2. todo' = todo \ {l}
      BY <2>1
    <2>3. Visit(l)
      BY <1>2, <2>1, <2>2 DEF CollectLoop, Visit
    <2>4. QED BY <2>3
  <1>3. QED BY <1>1, <1>2

\* with no guardians nothing is registered
LEMMA NoRegistering ==
  ASSUME IInv, NoGuardians, NEW r \in Root
  PROVE  ~MakeCell(r) /\ ~MakeTconc(r) /\ ~Register(r) /\ ~Dequeue(r)
  <1>1. Unused("tconc") = {}
    BY DEF Unused, NoGuardians
  <1>2. Instances("cell") = {} /\ Instances("tconc") = {}
    BY DEF Instances, Allocated, KindAt, NoGuardians, IInv, TypeOK
  <1>3. QED BY <1>1, <1>2 DEF MakeCell, MakeTconc, Register, Dequeue

\* No step of a program without guardians comes to guard anything.
LEMMA GuardedAfter ==
  ASSUME IInv, NoGuardians, NothingGuarded, Next
  PROVE  NothingGuarded'
  <1>1. CASE Program
    <2>1. UNCHANGED guardian_vars
      BY <1>1, NoRegistering DEF Program, Allocate, SetField, Load, Drop
    <2>2. QED BY <2>1 DEF guardian_vars, NothingGuarded
  <1>2. CASE StartCollection
    BY <1>2 DEF StartCollection, guardian_vars, NothingGuarded
  <1>3. CASE VisitPage \/ FinishPage \/ EndScan \/ EndRoots \/ VisitLocation \/ CollectLoop
             \/ FinalListTraced \/ FixWeakPointers \/ DeallocateUnusedPages \/ FixNewPages \/ ResetHeap
    <2>1. UNCHANGED guardian_vars
      BY <1>3 DEF VisitPage, FinishPage, EndScan, EndRoots, VisitLocation, CollectLoop,
                  FinalListTraced, FixWeakPointers, DeallocateUnusedPages, FixNewPages, ResetHeap
    <2>2. QED BY <2>1 DEF guardian_vars, NothingGuarded
  <1>4. CASE SortGuardians
    <2>1. UNION {protected[g] : g \in 0 .. collect_gen} = {}
      <3>1. \A g \in 0 .. collect_gen : g \in Gen
        BY GenNat, ConstantsAssumption DEF IInv, TypeOK, Gen
      <3>2. QED BY <3>1 DEF NothingGuarded
    <2>2. pend_hold' = {} /\ pend_final' = {} /\ forward_list' = {}
      BY <1>4, <2>1 DEF SortGuardians
    <2>3. \A g \in Gen : protected'[g] = {}
      BY <1>4 DEF SortGuardians, NothingGuarded
    <2>4. QED BY <2>2, <2>3 DEF NothingGuarded
  <1>5. CASE FinalGuardians \/ FinalizeGuardian
    BY <1>5 DEF FinalGuardians, FinalizeGuardian, FinalList, NothingGuarded
  <1>6. CASE HoldGuardians
    <2>1. pend_hold' = {} /\ pend_final' = {} /\ forward_list' = {}
      BY <1>6 DEF HoldGuardians, NothingGuarded
    <2>2. protected' = [protected EXCEPT ![HoldGen] = @ \cup {e \in pend_hold : IsLive(TconcOf(e))}]
      BY <1>6 DEF HoldGuardians
    <2>3. \A g \in Gen : protected'[g] = {}
      BY <2>2 DEF NothingGuarded, IInv, TypeOK
    <2>4. QED BY <2>1, <2>3 DEF NothingGuarded
  <1>7. QED BY <1>1, <1>2, <1>3, <1>4, <1>5, <1>6 DEF Next, CollectorStep

\* holding the guardians of an empty list stores nothing
LEMMA NothingHeld ==
  ASSUME IInv, NothingGuarded, HoldGuardians
  PROVE  ref' = ref /\ object' = object
  <1> DEFINE held == {e \in pend_hold : IsLive(TconcOf(e))}
  <1>1. EntriesOf((pend_hold \cup pend_final) \ held) = {}
    BY DEF EntriesOf, NothingGuarded
  <1>2. ref' = [l \in Loc |-> IF l \in EntriesOf((pend_hold \cup pend_final) \ held) THEN Nil ELSE ref[l]]
    BY DEF HoldGuardians
  <1>3. ref' = [l \in Loc |-> ref[l]]
    BY <1>1, <1>2
  <1>4. object' = object
    BY DEF HoldGuardians
  <1>5. QED BY <1>3, <1>4 DEF IInv, TypeOK

\* what fix_weak_pointers stores
LEMMA FixStores ==
  ASSUME IInv, FixWeakPointers
  PROVE  /\ phase = "hold_list" /\ phase' = "deallocate_unused_pages" /\ object' = object
         /\ todo = {} /\ queue = {}
         /\ \A l \in Loc : ref'[l] = IF IsWeakCar(l) /\ new[PageOf[l[1]]] THEN FixedCar(ref[l]) ELSE ref[l]
         /\ \A a \in Addr : /\ ref'[<<a, "car">>] = Forward <=> Forwarded(a)
                            /\ ref'[<<a, "cdr">>] = Cdr(a)
         /\ \A z : Where(ref', z) = Where(ref, z)
  <1>1. /\ phase = "hold_list" /\ phase' = "deallocate_unused_pages" /\ object' = object
        /\ todo = {} /\ queue = {}
        /\ \A l \in Loc : ref'[l] = IF IsWeakCar(l) /\ new[PageOf[l[1]]] THEN FixedCar(ref[l]) ELSE ref[l]
    BY DEF FixWeakPointers, Traced, Looping
  <1>2. \A a \in Addr : /\ <<a, "car">> \in Field /\ <<a, "cdr">> \in Field
                        /\ <<a, "car">> \in Loc /\ <<a, "cdr">> \in Loc
    BY LocKinds
  <1>3. ASSUME NEW a \in Addr
        PROVE  ref'[<<a, "cdr">>] = Cdr(a)
    BY <1>1, <1>2 DEF IsWeakCar, Cdr
  <1>4. ASSUME NEW a \in Addr
        PROVE  ref'[<<a, "car">>] = Forward <=> Forwarded(a)
    <2>1. CASE IsWeakCar(<<a, "car">>) /\ new[PageOf[a]]
      <3>1. ~LeftLoc(<<a, "car">>)
        BY <1>1, <2>1 DEF LeftLoc, Left, Collected, Settling
      <3>2. ~Forwarded(a)
        BY <1>2, <3>1 DEF IInv, ForwardInv, Forwarded, Car
      <3>3. ref'[<<a, "car">>] = FixedCar(Car(a))
        BY <1>1, <1>2, <2>1 DEF Car
      <3>4. FixedCar(Car(a)) # Forward
        <4>1. CASE Car(a) \notin Addr
          BY <3>2, <4>1 DEF FixedCar, Forwarded
        <4>2. CASE Car(a) \in Addr /\ Forwarded(Car(a))
          <5>1. Cdr(Car(a)) \in Addr
            BY <1>1, <4>2 DEF IInv, ForwardInv, Tracing
          <5>2. QED BY <4>2, <5>1, ConstantsAssumption DEF FixedCar
        <4>3. CASE Car(a) \in Addr /\ ~Forwarded(Car(a))
          BY <4>3, ConstantsAssumption DEF FixedCar
        <4>4. QED BY <4>1, <4>2, <4>3
      <3>5. QED BY <3>2, <3>3, <3>4
    <2>2. CASE ~(IsWeakCar(<<a, "car">>) /\ new[PageOf[a]])
      BY <1>1, <1>2, <2>2 DEF Forwarded, Car
    <2>3. QED BY <2>1, <2>2
  <1>5. \A z : Where(ref', z) = Where(ref, z)
    BY <1>3, <1>4 DEF Where, Forwarded, Car, Cdr
  <1>6. QED BY <1>1, <1>3, <1>4, <1>5

\* Every step leaves forwarding pointers leading to copies of the object.
LEMMA SameAfter ==
  ASSUME IInv, NoGuardians, NothingGuarded, CopiesSame, Next
  PROVE  CopiesSame'
  <1>1. CASE Program
    BY <1>1, NoRegistering DEF Program, Allocate, SetField, Load, Drop, Mutating, gc_vars, CopiesSame, Tracing
  <1>2. CASE StartCollection
    <2>1. UNCHANGED <<ref, object>> /\ phase = "mutator"
      BY <1>2 DEF StartCollection, mem_vars
    <2>2. \A a \in Addr : ~Forwarded(a)
      BY <2>1, ProgramValue, LocKinds DEF Forwarded, Car
    <2>3. QED BY <2>1, <2>2 DEF CopiesSame, Forwarded, Car
  <1>3. CASE VisitPage \/ FinishPage \/ EndScan \/ EndRoots \/ FinalListTraced \/ SortGuardians
             \/ FinalGuardians \/ HoldGuardians
    <2>1. UNCHANGED <<ref, object>> /\ phase \in Tracing
      BY <1>3, NothingHeld DEF VisitPage, FinishPage, EndScan, EndRoots, FinalListTraced, SortGuardians,
                  FinalGuardians, HoldGuardians, mem_vars, Tracing
    <2>2. QED BY <2>1 DEF CopiesSame, Forwarded, Car, Cdr
  <1>4. CASE VisitLocation \/ CollectLoop
    <2>1. PICK l : Visit(l)
      BY <1>4, VisitsAre
    <2>2. CASE KeepObject(l, ref[l]) \/ RetagObject(l, ref[l])
      <3>1. UNCHANGED <<ref, object>> /\ phase' = phase
        BY <2>1, <2>2 DEF KeepObject, RetagObject, Visit
      <3>2. QED BY <3>1 DEF CopiesSame, Forwarded, Car, Cdr
    <2>3. CASE FollowObject(l, ref[l])
      <3>1. /\ phase \in Tracing /\ phase' = phase /\ object' = object
            /\ \A z \in Addr : ref'[<<z, "car">>] = Forward => Forwarded(z) /\ ref'[<<z, "cdr">>] = Cdr(z)
        BY <2>1, <2>3, FollowStores
      <3>2. QED BY <3>1 DEF CopiesSame, Forwarded, Car, Cdr
    <2>4. CASE CopyObject(l, ref[l])
      <3>1. PICK x \in Addr, y \in Addr :
           /\ x # y /\ Allocated(x) /\ Free(y)
           /\ phase \in Tracing /\ phase' = phase
           /\ \A a \in Addr : object'[a] = IF a = y THEN object[x] ELSE object[a]
           /\ \A a \in Addr : ref'[<<a, "car">>] = Forward /\ a # x =>
                Forwarded(a) /\ ref'[<<a, "cdr">>] = Cdr(a)
           /\ ref'[<<x, "cdr">>] = y
        BY <2>1, <2>4, CopyMoves
      <3>2. ASSUME NEW a \in Addr, ref'[<<a, "car">>] = Forward
            PROVE  object'[ref'[<<a, "cdr">>]] = object'[a]
        <4>1. CASE a = x
          BY <3>1, <4>1
        <4>2. CASE a # x
          <5>1. Forwarded(a) /\ ref'[<<a, "cdr">>] = Cdr(a)
            BY <3>1, <3>2, <4>2
          <5>2. Cdr(a) \in Addr /\ object[Cdr(a)] = object[a] /\ phase \notin Settling
            BY <3>1, <5>1 DEF CopiesSame, IInv, ForwardInv, Tracing, Settling
          <5>3. Allocated(Cdr(a))
            BY <5>2, LocKinds DEF IInv, ValidInv, Cdr
          <5>4. a # y /\ Cdr(a) # y
            BY <3>1, <5>2, <5>3 DEF Free, Allocated
          <5>5. QED BY <3>1, <5>1, <5>2, <5>4
        <4>3. QED BY <4>1, <4>2
      <3>3. QED BY <3>1, <3>2 DEF CopiesSame, Forwarded, Car, Cdr
    <2>5. QED BY <2>1, <2>2, <2>3, <2>4 DEF Visit, AddObject
  <1>5. CASE FixWeakPointers
    <2>1. /\ phase = "hold_list" /\ object' = object
          /\ \A a \in Addr : /\ ref'[<<a, "car">>] = Forward <=> Forwarded(a)
                             /\ ref'[<<a, "cdr">>] = Cdr(a)
      BY <1>5, FixStores
    <2>2. QED BY <2>1 DEF CopiesSame, Forwarded, Car, Cdr, Tracing
  <1>6. CASE DeallocateUnusedPages \/ FixNewPages \/ FinalizeGuardian \/ ResetHeap
    BY <1>6 DEF DeallocateUnusedPages, FixNewPages, FinalizeGuardian, ResetHeap, gc_vars, CopiesSame, Tracing
  <1>7. QED BY <1>1, <1>2, <1>3, <1>4, <1>5, <1>6 DEF Next, CollectorStep

\* the program does not see add_object follow a forwarding pointer
LEMMA FollowUnseen ==
  ASSUME NoGuardians, Known, Known', NEW l, Visit(l), FollowObject(l, ref[l])
  PROVE  HeapView' = HeapView
  <1>1. PICK x \in Addr, y \in Addr :
           /\ x = ref[l] /\ Forwarded(x) /\ y = Cdr(x) /\ phase \in Tracing
           /\ object' = object
           /\ \A m \in Loc : ref'[m] = IF m = l THEN y ELSE ref[m]
           /\ \A z \in Addr : Where(ref', z) = Where(ref, z)
           /\ Where(ref, x) = y /\ Where(ref, y) = y
    BY FollowStores DEF Known
  <1>2. PICK T : T = Reachable
    OBVIOUS
  <1>3. /\ T \in SUBSET Addr
        /\ \A m \in Sources(T) : m \in Loc /\ (ref[m] \in Addr => Where(ref, ref[m]) \in T)
    BY <1>2, ReachBefore
  <1>4. ASSUME NEW m \in Sources(T), ref'[m] \in Addr PROVE Where(ref', ref'[m]) \in T
    <2>1. CASE m = l
      BY <1>1, <1>3, <2>1
    <2>2. CASE m # l
      BY <1>1, <1>3, <1>4, <2>2
    <2>3. QED BY <2>1, <2>2
  <1>5. object[y] = object[x]
    BY <1>1 DEF Known, CopiesSame
  <1>6. \A m \in Loc : At(object', ref'[m]) = At(object, ref[m])
    BY <1>1, <1>5 DEF At
  <1>7. \A r \in Root : <<r, "root">> \in Loc
    BY LocKinds DEF RootLoc
  <1>8. \A a \in Addr : <<a, "car">> \in Loc /\ <<a, "cdr">> \in Loc
    BY LocKinds
  <1>9. QED BY <1>1, <1>2, <1>3, <1>4, <1>6, <1>7, <1>8, Unseen

\* nor make a copy
LEMMA CopyUnseen ==
  ASSUME NoGuardians, Known, Known', NEW l, Visit(l), CopyObject(l, ref[l])
  PROVE  HeapView' = HeapView
  <1>1. PICK x \in Addr, y \in Addr :
           /\ x = ref[l] /\ x # y /\ Allocated(x) /\ ~Forwarded(x) /\ Free(y) /\ l \in Loc
           /\ \A a \in Addr : object'[a] = IF a = y THEN object[x] ELSE object[a]
           /\ Where(ref, x) = x /\ Where(ref', y) = y
           /\ \A z \in Addr : Allocated(z) =>
                Where(ref', z) = IF Where(ref, z) = x THEN y ELSE Where(ref, z)
           /\ \A m \in Loc : \A b \in Addr :
                b # x /\ m \in Fields(b) =>
                  ref'[m] = IF m = l THEN y
                            ELSE IF m = <<y, "car">> THEN ref[<<x, "car">>]
                            ELSE IF m = <<y, "cdr">> THEN ref[<<x, "cdr">>]
                            ELSE ref[m]
           /\ \A m \in Loc : m \notin Field => ref'[m] = IF m = l THEN y ELSE ref[m]
           /\ l \notin Fields(y)
    BY CopyMoves DEF Known
  <1>2. PICK G : G = Reachable
    OBVIOUS
  <1>3. /\ G \in SUBSET Addr
        /\ \A a \in G : Allocated(a)
        /\ \A m \in Sources(G) : m \in Loc /\ (ref[m] \in Addr => Allocated(ref[m]) /\ Where(ref, ref[m]) \in G)
    BY <1>2, ReachBefore DEF Staying
  <1>4. \A a \in G : a # y
    BY <1>1, <1>3 DEF Free
  <1> DEFINE to(a) == IF a = x THEN y ELSE a
             from(b) == IF b = y THEN x ELSE b
             T == {to(a) : a \in G}
  <1>5. T \in SUBSET Addr
    BY <1>3
  <1>6. \A b \in T : from(b) \in G /\ b # x /\ b \in Addr /\ object'[b] = object[from(b)]
    BY <1>1, <1>3, <1>4
  <1>7. \A a \in Addr : <<a, "car">> \in Loc /\ <<a, "cdr">> \in Loc /\ <<a, "car">> \in Fields(a) /\ <<a, "cdr">> \in Fields(a)
    BY LocKinds DEF Fields
  \* the location whose value m now has
  <1> DEFINE same(m, k) == k \in Sources(G) /\ (ref'[m] = ref[k] \/ (ref[k] = x /\ ref'[m] = y))
  <1>8. ASSUME NEW r \in Root PROVE same(<<r, "root">>, <<r, "root">>)
    <2>1. <<r, "root">> \in Loc /\ <<r, "root">> \notin Field /\ <<r, "root">> \in Sources(G)
      BY LocKinds DEF RootLoc, Sources
    <2>2. QED BY <1>1, <2>1
  <1>9. ASSUME NEW b \in T
        PROVE  /\ same(<<b, "car">>, <<from(b), "car">>)
               /\ same(<<b, "cdr">>, <<from(b), "cdr">>)
    <2>1. from(b) \in G /\ b # x /\ b \in Addr /\ from(b) \in Addr
      BY <1>3, <1>6
    <2>2. <<from(b), "car">> \in Sources(G) /\ <<from(b), "cdr">> \in Sources(G)
      BY <1>3, <2>1, SourcesAre
    <2>3. CASE b = y
      <3>1. /\ ref'[<<y, "car">>] = ref[<<x, "car">>]
            /\ ref'[<<y, "cdr">>] = ref[<<x, "cdr">>]
        <4>1. l # <<y, "car">> /\ l # <<y, "cdr">>
          BY <1>1, <1>7
        <4>2. QED BY <1>1, <1>7, <4>1
      <3>2. QED BY <2>2, <2>3, <3>1
    <2>4. CASE b # y
      <3>1. /\ ref'[<<b, "car">>] = IF <<b, "car">> = l THEN y ELSE ref[<<b, "car">>]
            /\ ref'[<<b, "cdr">>] = IF <<b, "cdr">> = l THEN y ELSE ref[<<b, "cdr">>]
        <4>1. <<b, "car">> # <<y, "car">> /\ <<b, "car">> # <<y, "cdr">> /\ <<b, "cdr">> # <<y, "car">> /\ <<b, "cdr">> # <<y, "cdr">>
          BY <2>4
        <4>2. QED BY <1>1, <1>7, <2>1, <4>1
      <3>2. QED BY <1>1, <2>2, <2>4, <3>1
    <2>5. QED BY <2>3, <2>4
  <1>10. ASSUME NEW m, NEW k, same(m, k)
         PROVE  /\ ref'[m] \in Addr => Where(ref', ref'[m]) \in T
                /\ At(object', ref'[m]) = At(object, ref[k])
    <2>1. CASE ref[k] = x /\ ref'[m] = y
      <3>1. x \in G
        BY <1>1, <1>3, <1>10, <2>1
      <3>2. y \in T
        BY <3>1
      <3>3. QED BY <1>1, <2>1, <3>2 DEF At
    <2>2. CASE ref'[m] = ref[k]
      <3>1. CASE ref[k] \in Addr
        <4>1. Allocated(ref[k]) /\ Where(ref, ref[k]) \in G
          BY <1>3, <1>10, <3>1
        <4>2. Where(ref', ref[k]) = to(Where(ref, ref[k]))
          BY <1>1, <3>1, <4>1
        <4>3. ref[k] # y
          BY <1>1, <4>1 DEF Free
        <4>4. At(object', ref[k]) = At(object, ref[k])
          BY <1>1, <3>1, <4>3 DEF At
        <4>5. QED BY <2>2, <4>1, <4>2, <4>4
      <3>2. CASE ref[k] \notin Addr
        BY <2>2, <3>2 DEF At
      <3>3. QED BY <3>1, <3>2
    <2>3. QED BY <1>10, <2>1, <2>2
  <1> HIDE DEF same, T
  <1>11. ASSUME NEW m \in Sources(T), ref'[m] \in Addr PROVE Where(ref', ref'[m]) \in T
    <2>1. CASE \E r \in Root : m = <<r, "root">>
      BY <1>8, <1>10, <1>11, <2>1
    <2>2. CASE \E b \in T : m = <<b, "car">> \/ m = <<b, "cdr">>
      BY <1>9, <1>10, <1>11, <2>2
    <2>3. QED BY <1>5, <2>1, <2>2, SourcesAre
  <1>12. \A r \in Root : At(object', ref'[<<r, "root">>]) = At(object, ref[<<r, "root">>])
    BY <1>8, <1>10
  <1>13. ASSUME NEW b \in T
         PROVE  \E a \in Reachable :
           /\ object'[b] = object[a]
           /\ At(object', ref'[<<b, "car">>]) = At(object, ref[<<a, "car">>])
           /\ At(object', ref'[<<b, "cdr">>]) = At(object, ref[<<a, "cdr">>])
    BY <1>2, <1>6, <1>9, <1>10
  <1>14. QED BY <1>5, <1>11, <1>12, <1>13, Unseen

\* nor pages that are left being unmapped
LEMMA UnmapUnseen ==
  ASSUME NoGuardians, Known, Known', NEW ps, Unmap(ps), \A p \in ps : Left(p),
         phase \in {"deallocate_unused_pages", "gc_finalize_guardians"}
  PROVE  HeapView' = HeapView
  <1>1. PICK T : T = Reachable
    OBVIOUS
  <1>2. Calm /\ phase \in Settling \cup {"deallocate_unused_pages"}
    BY DEF Calm, Settling
  <1>3. /\ T \in SUBSET Addr
        /\ \A a \in T : ~Left(PageOf[a])
        /\ \A m \in Sources(T) : m \in Loc
        /\ \A m \in Sources(T) : ref[m] \in Addr => Where(ref, ref[m]) \in T /\ ~Left(PageOf[ref[m]])
    BY <1>1, <1>2, ReachBefore DEF Staying
  <1>4. \A a \in Addr : /\ <<a, "car">> \in Field /\ <<a, "cdr">> \in Field
                        /\ <<a, "car">> \in Loc /\ <<a, "cdr">> \in Loc
    BY LocKinds
  <1>5. ASSUME NEW a \in Addr, ~Left(PageOf[a])
        PROVE  /\ object'[a] = object[a]
               /\ ref'[<<a, "car">>] = ref[<<a, "car">>] /\ ref'[<<a, "cdr">>] = ref[<<a, "cdr">>]
    <2>1. PageOf[a] \notin ps
      BY <1>5
    <2>2. QED BY <1>4, <2>1 DEF Unmap
  <1>6. \A m \in Sources(T) : ref'[m] = ref[m]
    <2>1. ASSUME NEW r \in Root PROVE ref'[<<r, "root">>] = ref[<<r, "root">>]
      <3>1. <<r, "root">> \in Loc /\ <<r, "root">> \notin Field
        BY LocKinds DEF RootLoc
      <3>2. QED BY <3>1 DEF Unmap
    <2>2. ASSUME NEW a \in T
          PROVE  ref'[<<a, "car">>] = ref[<<a, "car">>] /\ ref'[<<a, "cdr">>] = ref[<<a, "cdr">>]
      BY <1>3, <1>5
    <2>3. \A m \in Sources(T) : \/ \E r \in Root : m = <<r, "root">>
                                \/ \E a \in T : m = <<a, "car">> \/ m = <<a, "cdr">>
      BY <1>3, SourcesAre
    <2>4. QED BY <2>1, <2>2, <2>3
  <1>7. \A m \in Sources(T) : ref'[m] \in Addr => Where(ref', ref'[m]) \in T
    BY <1>3, <1>5, <1>6 DEF Where
  <1>8. \A m \in Sources(T) : At(object', ref'[m]) = At(object, ref[m])
    BY <1>3, <1>5, <1>6 DEF At
  <1>9. \A r \in Root : <<r, "root">> \in Sources(T)
    BY <1>3, SourcesAre
  <1>10. \A a \in T : <<a, "car">> \in Sources(T) /\ <<a, "cdr">> \in Sources(T) /\ object'[a] = object[a]
    BY <1>3, <1>5, SourcesAre
  <1>11. \A b \in T : \E a \in Reachable :
           /\ object'[b] = object[a]
           /\ At(object', ref'[<<b, "car">>]) = At(object, ref[<<a, "car">>])
           /\ At(object', ref'[<<b, "cdr">>]) = At(object, ref[<<a, "cdr">>])
    BY <1>1, <1>8, <1>10
  <1>12. \A r \in Root : At(object', ref'[<<r, "root">>]) = At(object, ref[<<r, "root">>])
    BY <1>8, <1>9
  <1>13. QED BY <1>3, <1>7, <1>11, <1>12, Unseen

\* A step of the collector that breaks no weak pointer is not seen.
LEMMA CollectorUnseen ==
  ASSUME NoGuardians, Known, Known', StartCollection \/ (CollectorStep /\ ~FixWeakPointers)
  PROVE  HeapView' = HeapView
  <1>1. CASE StartCollection \/ VisitPage \/ FinishPage \/ EndScan \/ EndRoots \/ FinalListTraced
             \/ SortGuardians \/ FinalGuardians \/ FixNewPages
    <2>1. UNCHANGED <<ref, object>>
      BY <1>1 DEF StartCollection, VisitPage, FinishPage, EndScan, EndRoots, FinalListTraced,
                  SortGuardians, FinalGuardians, FixNewPages, mem_vars
    <2>2. QED BY <2>1, UnseenUnchanged
  <1>2. CASE HoldGuardians
    <2>1. UNCHANGED <<ref, object>>
      BY <1>2, NothingHeld DEF Known
    <2>2. QED BY <2>1, UnseenUnchanged
  <1>3. CASE VisitLocation \/ CollectLoop
    <2>1. PICK l : Visit(l)
      BY <1>3, VisitsAre DEF Known
    <2>2. CASE KeepObject(l, ref[l]) \/ RetagObject(l, ref[l])
      <3>1. UNCHANGED <<ref, object>>
        BY <2>2 DEF KeepObject, RetagObject
      <3>2. QED BY <3>1, UnseenUnchanged
    <2>3. QED BY <2>1, <2>2, FollowUnseen, CopyUnseen DEF Visit, AddObject
  <1>4. CASE DeallocateUnusedPages
    <2>1. phase = "deallocate_unused_pages" /\ Unmap(UnusedPages)
      BY <1>4 DEF DeallocateUnusedPages
    <2>2. \A p \in UnusedPages : Left(p)
      BY <2>1 DEF UnusedPages, Left, Tracing
    <2>3. QED BY <2>1, <2>2, UnmapUnseen
  <1>5. CASE FinalizeGuardian
    BY <1>5 DEF FinalizeGuardian, Known, NothingGuarded
  <1>6. CASE ResetHeap
    <2> DEFINE ps == {p \in Page : type[p] = "mainheap"}
    <2>1. phase = "gc_finalize_guardians" /\ Unmap(ps)
      BY <1>6 DEF ResetHeap
    <2>2. \A p \in ps : Left(p)
      BY <2>1 DEF Left, Settling
    <2> HIDE DEF ps
    <2>3. QED BY <2>1, <2>2, UnmapUnseen
  <1>7. QED BY <1>1, <1>2, <1>3, <1>4, <1>5, <1>6 DEF CollectorStep

\* Fixing the weak pointers breaks those whose object the program cannot
\* reach but through weak pairs.
LEMMA FixSeen ==
  ASSUME NoGuardians, Known, Known', FixWeakPointers
  PROVE  Promise!BreakWeakPairs(HeapView, HeapView')
  <1>1. PICK G : G = Reachable
    OBVIOUS
  <1>2. PICK h : h = HeapView
    OBVIOUS
  <1> DEFINE broken(b) == /\ IsWeakCar(<<b, "car">>) /\ new[PageOf[b]] /\ Car(b) \in Addr
                          /\ ~Forwarded(Car(b)) /\ Collected(PageOf[Car(b)])
  <1>3. PICK T : T = {a \in G : ~Left(PageOf[a])}
    OBVIOUS
  <1>4. PICK W : W = {object[a] : a \in {b \in G : broken(b)}}
    OBVIOUS
  <1>5. /\ G \in SUBSET Addr /\ T \in SUBSET Addr /\ T \subseteq G
        /\ \A a \in G : object[a] \in Object /\ Allocated(a) /\ ~Forwarded(a)
        /\ \A a, b \in G : object[a] = object[b] => a = b
        /\ \A m \in Sources(G) : m \in Loc
        /\ \A m \in Sources(G) : ref[m] \in Addr =>
              /\ Where(ref, ref[m]) \in G
              /\ At(object, ref[m]) = object[Where(ref, ref[m])]
              /\ Allocated(ref[m])
        /\ \A m \in Sources(G) : ref[m] \notin Addr => At(object, ref[m]) \notin Object
    BY <1>1, <1>3, ReachBefore DEF Staying
  <1>6. /\ phase = "hold_list" /\ object' = object
        /\ todo = {} /\ queue = {}
        /\ \A l \in Loc : ref'[l] = IF IsWeakCar(l) /\ new[PageOf[l[1]]] THEN FixedCar(ref[l]) ELSE ref[l]
        /\ \A z : Where(ref', z) = Where(ref, z)
    BY FixStores DEF Known
  <1>7. \A a \in Addr : /\ <<a, "car">> \in Field /\ <<a, "cdr">> \in Field
                        /\ <<a, "car">> \in Loc /\ <<a, "cdr">> \in Loc
                        /\ ~IsWeakCar(<<a, "cdr">>)
    BY LocKinds DEF IsWeakCar
  <1>8. \A p : Left(p) <=> Collected(p)
    BY <1>6 DEF Left, Tracing, Settling
  <1>9. \A x \in Addr : Forwarded(x) => Left(PageOf[x])
    BY <1>7 DEF Known, IInv, ForwardInv, LeftLoc, Forwarded, Car
  <1>10. Sources(T) \subseteq Sources(G)
    BY <1>5 DEF Sources
  \* what is not such a car leads to what is not left
  <1>11. ASSUME NEW m \in Sources(T), ~(IsWeakCar(m) /\ new[PageOf[m[1]]]), ref[m] \in Addr
         PROVE  ref[m] \in T /\ Where(ref, ref[m]) = ref[m]
    <2>1. ~LeftLoc(m) /\ m \in Loc /\ m \notin EntryLoc
      BY <1>3, <1>5, <1>10, LocKinds DEF Sources, LeftLoc
    <2>2. ~Pending(m)
      <3>1. m \notin EntriesOf(Unsorted)
        <4>1. Unsorted \subseteq Entry
          <5>1. \A g \in 0 .. collect_gen : g \in Gen
            BY GenNat, ConstantsAssumption DEF Known, IInv, TypeOK, Gen
          <5>2. QED BY <5>1 DEF Unsorted, Known, IInv, TypeOK
        <4>2. QED BY <2>1, <4>1 DEF EntriesOf, EntryLoc
      <3>2. QED BY <1>6, <1>11, <3>1 DEF Pending, CardAhead
    <2>3. ~Stale(m)
      BY <2>1, <2>2 DEF Known, IInv, StaleInv
    <2>4. ~Left(PageOf[ref[m]])
      BY <1>11, <2>3 DEF Stale
    <2>5. ~Forwarded(ref[m])
      BY <1>9, <1>11, <2>4
    <2>6. Where(ref, ref[m]) = ref[m]
      BY <2>5 DEF Where, Forwarded, Car
    <2>7. ref[m] \in G
      BY <1>5, <1>10, <1>11, <2>6
    <2>8. QED BY <1>3, <2>4, <2>6, <2>7
  \* and what is, is followed, broken or left alone
  <1>12. ASSUME NEW a \in T, IsWeakCar(<<a, "car">>), new[PageOf[a]]
         PROVE  /\ ref'[<<a, "car">>] \in Addr => Where(ref, ref'[<<a, "car">>]) \in T
                /\ At(object, ref'[<<a, "car">>]) = IF broken(a) THEN Bwp ELSE At(object, ref[<<a, "car">>])
    <2> DEFINE m == <<a, "car">>
               x == ref[<<a, "car">>]
    <2>1. m \in Sources(T) /\ m \in Sources(G) /\ x = Car(a) /\ a \in Addr
      BY <1>5, <1>7, <1>10, <1>12 DEF Sources, Car
    <2>2. ref'[m] = FixedCar(x)
      BY <1>6, <1>7, <1>12, <2>1
    <2>3. CASE x \notin Addr
      BY <2>1, <2>2, <2>3 DEF FixedCar
    <2>4. CASE x \in Addr /\ Forwarded(x)
      <3>1. FixedCar(x) = Cdr(x) /\ Where(ref, x) = Cdr(x)
        BY <2>4 DEF FixedCar, Where, Forwarded, Car, Cdr
      <3>2. Cdr(x) \in G /\ At(object, x) = object[Cdr(x)]
        BY <1>5, <2>1, <2>4, <3>1
      <3>3. new[PageOf[Cdr(x)]]
        BY <1>6, <2>4 DEF Known, IInv, ForwardInv, Tracing
      <3>4. ~Left(PageOf[Cdr(x)]) /\ ~Forwarded(Cdr(x)) /\ Cdr(x) \in Addr
        BY <1>5, <1>8, <3>2, <3>3 DEF Collected
      <3>5. Cdr(x) \in T /\ Where(ref, Cdr(x)) = Cdr(x)
        BY <1>3, <3>2, <3>4 DEF Where, Forwarded, Car
      <3>6. At(object, Cdr(x)) = At(object, x)
        BY <3>2, <3>4 DEF At
      <3>7. ~broken(a)
        BY <2>1, <2>4
      <3>8. QED BY <2>2, <3>1, <3>5, <3>6, <3>7
    <2>5. CASE x \in Addr /\ ~Forwarded(x) /\ Collected(PageOf[x])
      <3>1. ref'[m] = Bwp /\ Bwp \notin Addr /\ broken(a)
        BY <1>12, <2>1, <2>2, <2>5, ConstantsAssumption DEF FixedCar
      <3>2. QED BY <3>1 DEF At
    <2>6. CASE x \in Addr /\ ~Forwarded(x) /\ ~Collected(PageOf[x])
      <3>1. ref'[m] = x /\ ~broken(a) /\ Where(ref, x) = x
        BY <2>1, <2>2, <2>6 DEF FixedCar, Where, Forwarded, Car
      <3>2. x \in T
        BY <1>3, <1>5, <1>8, <2>1, <2>6, <3>1
      <3>3. QED BY <3>1, <3>2
    <2>7. QED BY <2>3, <2>4, <2>5, <2>6
  <1>13. ASSUME NEW m \in Sources(T), ref'[m] \in Addr PROVE Where(ref', ref'[m]) \in T
    <2>1. CASE IsWeakCar(m) /\ new[PageOf[m[1]]]
      <3>1. m \in Field /\ m[2] = "car"
        BY <2>1 DEF IsWeakCar
      <3>2. m[1] \in T /\ m = <<m[1], "car">>
        BY <3>1, LocKinds DEF Sources
      <3>3. QED BY <1>6, <1>12, <1>13, <2>1, <3>2
    <2>2. CASE ~(IsWeakCar(m) /\ new[PageOf[m[1]]])
      <3>1. ref'[m] = ref[m]
        BY <1>5, <1>6, <1>10, <2>2
      <3>2. QED BY <1>6, <1>11, <1>13, <2>2, <3>1
    <2>3. QED BY <2>1, <2>2
  <1>14. ASSUME NEW r \in Root PROVE ref'[<<r, "root">>] = ref[<<r, "root">>] /\ <<r, "root">> \in Sources(T)
    <2>1. <<r, "root">> \in Loc /\ <<r, "root">> \notin Field /\ <<r, "root">> \in RootLoc
      BY LocKinds DEF RootLoc
    <2>2. ~IsWeakCar(<<r, "root">>)
      BY <2>1 DEF IsWeakCar
    <2>3. QED BY <1>6, <2>1, <2>2 DEF Sources
  <1>15. ASSUME NEW a \in T
         PROVE  /\ At(object, ref'[<<a, "car">>]) = IF broken(a) THEN Bwp ELSE At(object, ref[<<a, "car">>])
                /\ At(object, ref'[<<a, "cdr">>]) = At(object, ref[<<a, "cdr">>])
    <2>1. a \in Addr
      BY <1>5
    <2>2. ref'[<<a, "cdr">>] = ref[<<a, "cdr">>]
      BY <1>6, <1>7, <2>1
    <2>3. CASE IsWeakCar(<<a, "car">>) /\ new[PageOf[a]]
      BY <1>12, <2>2, <2>3
    <2>4. CASE ~(IsWeakCar(<<a, "car">>) /\ new[PageOf[a]])
      <3>1. ref'[<<a, "car">>] = ref[<<a, "car">>]
        BY <1>6, <1>7, <2>1, <2>4
      <3>2. QED BY <2>2, <2>4, <3>1
    <2>5. QED BY <2>3, <2>4
  <1>16. \A a \in G : object[a] \in W <=> broken(a)
    <2> HIDE DEF broken
    <2>1. QED BY <1>4, <1>5
  <1>17. /\ h \in Heaps
         /\ h.root = [r \in Root |-> At(object, ref[<<r, "root">>])]
         /\ \A a \in G : h.field[object[a]] = [car |-> At(object, ref[<<a, "car">>]),
                                               cdr |-> At(object, ref[<<a, "cdr">>])]
         /\ h.registered = {} /\ h.condemned = {}
    <2>1. /\ HeapView \in Heaps
          /\ HeapView.root = [r \in Root |-> At(object, ref[<<r, "root">>])]
          /\ \A a \in Reachable :
              HeapView.field[object[a]] = [car |-> At(object, ref[<<a, "car">>]),
                                           cdr |-> At(object, ref[<<a, "cdr">>])]
          /\ HeapView.registered = {} /\ HeapView.condemned = {}
      BY ViewBefore
    <2>2. QED BY <1>1, <1>2, <2>1
  <1>18. PICK fields : fields = [o \in Object |-> IF o \in W THEN [h.field[o] EXCEPT !.car = Bwp] ELSE h.field[o]]
    OBVIOUS
  <1>19. PICK g : g = [h EXCEPT !.field = fields]
    OBVIOUS
  <1>20. /\ g.root = h.root /\ g.field = fields /\ g.registered = {} /\ g.condemned = {}
         /\ DOMAIN h.field = Object
    BY <1>17, <1>19 DEF Heaps
  <1>21. Promise!Becomes(HeapView', g)
    <2>1. g.root = [r \in Root |-> At(object', ref'[<<r, "root">>])]
      BY <1>6, <1>14, <1>17, <1>20
    <2>2. ASSUME NEW a \in T
          PROVE  g.field[object'[a]] = [car |-> At(object', ref'[<<a, "car">>]),
                                        cdr |-> At(object', ref'[<<a, "cdr">>])]
      <3>1. a \in G /\ object[a] \in Object
        BY <1>5
      <3>2. h.field[object[a]] = [car |-> At(object, ref[<<a, "car">>]),
                                  cdr |-> At(object, ref[<<a, "cdr">>])]
        BY <1>17, <3>1
      <3>3. g.field[object[a]] = IF broken(a) THEN [h.field[object[a]] EXCEPT !.car = Bwp]
                                 ELSE h.field[object[a]]
        <4> HIDE DEF broken
        <4>1. QED BY <1>16, <1>18, <1>20, <3>1
      <3> HIDE DEF broken
      <3>4. g.field[object[a]] = [car |-> At(object, ref'[<<a, "car">>]),
                                  cdr |-> At(object, ref'[<<a, "cdr">>])]
        <4>1. CASE broken(a)
          <5>1. g.field[object[a]] = [car |-> Bwp, cdr |-> At(object, ref[<<a, "cdr">>])]
            BY <3>2, <3>3, <4>1
          <5>2. QED BY <1>15, <4>1, <5>1
        <4>2. CASE ~broken(a)
          BY <1>15, <3>2, <3>3, <4>2
        <4>3. QED BY <4>1, <4>2
      <3>5. QED BY <1>6, <3>4
    <2>3. QED BY <1>5, <1>13, <1>20, <2>1, <2>2, ViewAfter
  \* what is broken is out of the program's strong reach
  <1>22. PICK R : R = {object[b] : b \in T}
    OBVIOUS
  <1>23. ASSUME NEW m \in Sources(T), ~(IsWeakCar(m) /\ new[PageOf[m[1]]]), At(object, ref[m]) \in Object
         PROVE  At(object, ref[m]) \in R
    <2>1. ref[m] \in Addr
      BY <1>5, <1>10, <1>23
    <2>2. QED BY <1>11, <1>22, <1>23, <2>1 DEF At
  <1>24. \A a \in G : IsWeakCar(<<a, "car">>) <=> object[a] \in Promise!Weaks
    BY <1>5, <1>7 DEF Known, IInv, WeakPairsApart, IsWeakCar, KindAt, Promise!Weaks
  <1>25. WholeHeap(h, Promise!Weaks, R)
    <2>1. R \subseteq Object
      BY <1>5, <1>22
    <2>2. ASSUME NEW r \in Root, h.root[r] \in Object PROVE h.root[r] \in R
      <3>1. h.root[r] = At(object, ref[<<r, "root">>])
        BY <1>17
      <3>2. ~IsWeakCar(<<r, "root">>)
        BY LocKinds DEF IsWeakCar
      <3>3. QED BY <1>14, <1>23, <2>2, <3>1, <3>2
    <2>3. ASSUME NEW a \in T
          PROVE  /\ h.field[object[a]].car \in Object => h.field[object[a]].car \in R \/ object[a] \in Promise!Weaks
                 /\ h.field[object[a]].cdr \in Object => h.field[object[a]].cdr \in R
      <3>1. a \in G /\ a \in Addr
        BY <1>5
      <3>2. h.field[object[a]].car = At(object, ref[<<a, "car">>]) /\ h.field[object[a]].cdr = At(object, ref[<<a, "cdr">>])
        <4>1. h.field[object[a]] = [car |-> At(object, ref[<<a, "car">>]), cdr |-> At(object, ref[<<a, "cdr">>])]
          BY <1>17, <3>1
        <4>2. QED BY <4>1
      <3>3. <<a, "car">> \in Sources(T) /\ <<a, "cdr">> \in Sources(T)
        BY <1>7, <3>1 DEF Sources
      <3>4. QED BY <1>7, <1>23, <1>24, <3>1, <3>2, <3>3
    <2>4. \A o \in R : /\ h.field[o].car \in Object => h.field[o].car \in R \/ o \in Promise!Weaks
                       /\ h.field[o].cdr \in Object => h.field[o].cdr \in R
      BY <1>22, <2>3
    <2>5. QED BY <2>1, <2>2, <2>4 DEF WholeHeap
  <1>26. Promise!StrongWith(h, h.condemned) \subseteq R
    <2>1. Promise!StrongWith(h, {}) \subseteq R
      BY <1>25, StrongIsLeast
    <2>2. QED BY <1>17, <2>1
  <1>27. ASSUME NEW a \in G, broken(a)
         PROVE  /\ object[a] \in Promise!Weaks
                /\ h.field[object[a]].car \in Object \ Promise!StrongWith(h, h.condemned)
    <2>1. object[a] \in Promise!Weaks
      BY <1>24, <1>27
    <2> DEFINE x == Car(a)
    <2>2. x \in Addr /\ ~Forwarded(x) /\ Left(PageOf[x]) /\ x = ref[<<a, "car">>]
      BY <1>8, <1>27 DEF Car
    <2>3. <<a, "car">> \in Sources(G)
      BY <1>5, <1>7 DEF Sources
    <2>4. Allocated(x) /\ h.field[object[a]].car = object[x]
      <3>1. h.field[object[a]] = [car |-> At(object, ref[<<a, "car">>]), cdr |-> At(object, ref[<<a, "cdr">>])]
        BY <1>17
      <3>2. h.field[object[a]].car = At(object, ref[<<a, "car">>])
        BY <3>1
      <3>3. Allocated(x)
        BY <1>5, <2>2, <2>3
      <3>4. QED BY <2>2, <3>2, <3>3 DEF At
    <2>5. object[x] \in Object
      BY <2>2, <2>4 DEF Allocated, Known, IInv, TypeOK
    <2>6. object[x] \notin R
      <3>1. ASSUME NEW b \in T, object[b] = object[x] PROVE FALSE
        <4>1. b = x
          BY <1>5, <2>2, <2>4, <3>1 DEF Known, IInv, CopyInv
        <4>2. QED BY <1>3, <2>2, <4>1
      <3>2. QED BY <1>22, <3>1
    <2>7. QED BY <1>26, <2>1, <2>4, <2>5, <2>6
  <1>28. PICK loose : loose = {o \in Promise!Weaks : h.field[o].car \in Object \ Promise!StrongWith(h, h.condemned)}
    OBVIOUS
  <1>29. W \in SUBSET loose
    <2> HIDE DEF broken
    <2>1. QED BY <1>4, <1>27, <1>28
  <1>30. g = [h EXCEPT !.field = [o \in Object |-> IF o \in W THEN [@[o] EXCEPT !.car = Bwp] ELSE @[o]]]
    BY <1>18, <1>19, <1>20
  <1>31. Promise!BreakWeakPairs(h, HeapView')
    BY <1>21, <1>28, <1>29, <1>30 DEF Promise!BreakWeakPairs
  <1>32. QED BY <1>2, <1>31

-----------------------------------------------------------------------------
(* What the program does, it does to the heap. *)

\* Between collections a pointer leads to the object itself.
LEMMA ProgramBefore ==
  ASSUME NoGuardians, Known, phase = "mutator"
  PROVE  /\ Reachable \in SUBSET Addr
         /\ \A a \in Reachable : object[a] \in Object /\ Allocated(a)
         /\ \A a, b \in Reachable : object[a] = object[b] => a = b
         /\ \A l \in Sources(Reachable) : ref[l] \in Addr => ref[l] \in Reachable
         /\ \A v \in Handles : /\ v \in Addr => v \in Reachable
                               /\ v # Forward
                               /\ At(object, v) \in Promise!Handles(HeapView)
         /\ \A r \in Root : /\ HeapView.root[r] = At(object, Handle(r))
                            /\ Handle(r) \in Addr => Handle(r) \in Reachable
                            /\ UserHandle(r) => HeapView.root[r] \in Promise!Data
  <1>1. Calm
    BY DEF Calm
  <1>2. /\ Reachable \in SUBSET Addr
        /\ \A a \in Reachable : object[a] \in Object /\ Staying(a)
        /\ \A a, b \in Reachable : object[a] = object[b] => a = b
        /\ \A l \in Sources(Reachable) : ref[l] \in Addr => ref[l] \in Reachable
    <2>1. /\ Reachable \in SUBSET Addr
          /\ \A a \in Reachable : object[a] \in Object /\ Staying(a)
          /\ \A a, b \in Reachable : object[a] = object[b] => a = b
          /\ \A l \in Sources(Reachable) : ref[l] \in Addr =>
               Where(ref, ref[l]) \in Reachable /\ (Calm => Where(ref, ref[l]) = ref[l])
      BY ReachBefore
    <2>2. QED BY <1>1, <2>1
  <1>3. \A a \in Reachable : Allocated(a)
    BY <1>2 DEF Staying
  <1>4. \A r \in Root : HeapView.root[r] = At(object, Handle(r))
    <2>1. HeapView.root = [r \in Root |-> At(object, ref[<<r, "root">>])]
      BY ViewBefore
    <2>2. QED BY <2>1 DEF Handle
  <1>5. \A r \in Root : Handle(r) \in Addr => Handle(r) \in Reachable
    <2>1. \A r \in Root : <<r, "root">> \in Sources(Reachable)
      BY <1>2, SourcesAre
    <2>2. QED BY <1>2, <2>1 DEF Handle
  <1>6. ASSUME NEW r \in Root, UserHandle(r) PROVE HeapView.root[r] \in Promise!Data
    <2>1. Handle(r) \in Reachable /\ Handle(r) \in Addr
      BY <1>5, <1>6 DEF UserHandle
    <2>2. HeapView.root[r] = object[Handle(r)] /\ object[Handle(r)] \in Object
      BY <1>2, <1>4, <2>1 DEF At
    <2>3. QED BY <1>6, <2>2 DEF UserHandle, KindAt, UserKind, Promise!Data
  <1>7. ASSUME NEW v \in Handles
        PROVE  /\ v \in Addr => v \in Reachable
               /\ v # Forward
               /\ At(object, v) \in Promise!Handles(HeapView)
    <2>1. CASE v = Nil
      BY <2>1, ConstantsAssumption DEF At, Promise!Handles
    <2>2. CASE \E r \in Root : v = Handle(r)
      <3>1. PICK r \in Root : v = Handle(r)
        BY <2>2
      <3>2. At(object, v) = HeapView.root[r]
        BY <1>4, <3>1
      <3>3. v # Forward
        BY <1>7, ProgramValue DEF Known
      <3>4. QED BY <1>5, <3>1, <3>2, <3>3 DEF Promise!Handles, Promise!Variables
    <2>3. QED BY <2>1, <2>2 DEF Handles
  <1>8. QED BY <1>2, <1>3, <1>4, <1>5, <1>6, <1>7

\* and after the step too
LEMMA ProgramAfter ==
  ASSUME NoGuardians, Known', phase' = "mutator", NEW T \in SUBSET Addr, NEW g,
         \A r \in Root : ref'[<<r, "root">>] \in Addr => ref'[<<r, "root">>] \in T,
         \A a \in T : /\ ref'[<<a, "car">>] \in Addr => ref'[<<a, "car">>] \in T
                      /\ ref'[<<a, "cdr">>] \in Addr => ref'[<<a, "cdr">>] \in T,
         g.root = [r \in Root |-> At(object', ref'[<<r, "root">>])],
         \A a \in T : g.field[object'[a]] = [car |-> At(object', ref'[<<a, "car">>]),
                                             cdr |-> At(object', ref'[<<a, "cdr">>])],
         g.registered = {} /\ g.condemned = {}
  PROVE  Promise!Becomes(HeapView', g)
  <1>1. \A z \in Addr : Where(ref', z) = z
    <2>1. \A l \in Loc : ref'[l] # Forward
      BY DEF Known, IInv, ForwardInv, LeftLoc, Left, Tracing, Settling
    <2>2. QED BY <2>1, LocKinds DEF Where
  <1>2. \A l \in Sources(T) : \/ \E r \in Root : l = <<r, "root">>
                              \/ \E a \in T : l = <<a, "car">> \/ l = <<a, "cdr">>
    BY SourcesAre
  <1>3. \A l \in Sources(T) : ref'[l] \in Addr => Where(ref', ref'[l]) \in T
    <2>1. ASSUME NEW l \in Sources(T), ref'[l] \in Addr
          PROVE  Where(ref', ref'[l]) \in T
      <3>1. Where(ref', ref'[l]) = ref'[l]
        BY <1>1, <2>1
      <3>2. CASE \E r \in Root : l = <<r, "root">>
        <4>1. PICK r \in Root : l = <<r, "root">>
          BY <3>2
        <4>2. ref'[l] \in T
          BY <2>1, <4>1
        <4>3. QED BY <3>1, <4>2
      <3>3. CASE \E a \in T : l = <<a, "car">> \/ l = <<a, "cdr">>
        <4>1. PICK a \in T : l = <<a, "car">> \/ l = <<a, "cdr">>
          BY <3>3
        <4>2. ref'[l] \in T
          BY <2>1, <4>1
        <4>3. QED BY <3>1, <4>2
      <3>4. QED BY <1>2, <3>2, <3>3
    <2>2. QED BY <2>1
  <1>4. QED BY <1>3, ViewAfter

\* the locations
LEMMA LocsApart ==
  /\ \A r \in Root : <<r, "root">> \in Loc
  /\ \A a \in Addr : <<a, "car">> \in Loc /\ <<a, "cdr">> \in Loc
  BY LocKinds DEF RootLoc

\* A variable that is dropped in memory is dropped from the heap.
LEMMA DropSeen ==
  ASSUME NoGuardians, Known, Known', NEW r \in Root, Drop(r)
  PROVE  Promise!Drop(HeapView, HeapView', r)
  <1>1. PICK h : h = HeapView
    OBVIOUS
  <1>2. PICK T : T = Reachable
    OBVIOUS
  <1>3. phase = "mutator" /\ phase' = "mutator" /\ object' = object
    BY DEF Drop, Mutating, gc_vars
  <1>4. \A m \in Loc : ref'[m] = IF m = <<r, "root">> THEN Nil ELSE ref[m]
    BY DEF Drop, Known, IInv, TypeOK
  <1>5. /\ T \in SUBSET Addr
        /\ \A l \in Sources(T) : ref[l] \in Addr => ref[l] \in T
    BY <1>2, <1>3, ProgramBefore
  <1>6. /\ h \in Heaps
        /\ h.root = [q \in Root |-> At(object, ref[<<q, "root">>])]
        /\ \A a \in T : h.field[object[a]] = [car |-> At(object, ref[<<a, "car">>]),
                                              cdr |-> At(object, ref[<<a, "cdr">>])]
        /\ h.registered = {} /\ h.condemned = {}
    BY <1>1, <1>2, ViewBefore
  <1>7. PICK g : g = [h EXCEPT !.root[r] = Nil]
    OBVIOUS
  <1>8. /\ g.root = [h.root EXCEPT ![r] = Nil] /\ g.field = h.field
        /\ g.registered = {} /\ g.condemned = {}
    BY <1>6, <1>7 DEF Heaps
  <1>9. /\ \A q \in Root : <<q, "root">> \in Sources(T)
        /\ \A a \in T : <<a, "car">> \in Sources(T) /\ <<a, "cdr">> \in Sources(T)
    BY <1>5, SourcesAre
  <1>10. \A a \in T : /\ ref'[<<a, "car">>] = ref[<<a, "car">>]
                      /\ ref'[<<a, "cdr">>] = ref[<<a, "cdr">>]
    BY <1>4, <1>5, LocsApart
  <1>11. \A q \in Root : ref'[<<q, "root">>] = IF q = r THEN Nil ELSE ref[<<q, "root">>]
    BY <1>4, LocsApart
  <1>12. g.root = [q \in Root |-> At(object', ref'[<<q, "root">>])]
    <2>1. At(object, Nil) = Nil
      BY ConstantsAssumption DEF At
    <2>2. \A q \in Root : At(object', ref'[<<q, "root">>]) =
                            IF q = r THEN Nil ELSE At(object, ref[<<q, "root">>])
      BY <1>3, <1>11, <2>1
    <2>3. g.root = [q \in Root |-> IF q = r THEN Nil ELSE At(object, ref[<<q, "root">>])]
      BY <1>6, <1>8
    <2>4. QED BY <2>2, <2>3
  <1>13. \A q \in Root : ref'[<<q, "root">>] \in Addr => ref'[<<q, "root">>] \in T
    BY <1>5, <1>9, <1>11, ConstantsAssumption
  <1>14. \A a \in T : /\ ref'[<<a, "car">>] \in Addr => ref'[<<a, "car">>] \in T
                      /\ ref'[<<a, "cdr">>] \in Addr => ref'[<<a, "cdr">>] \in T
    BY <1>5, <1>9, <1>10
  <1>15. \A a \in T : g.field[object'[a]] = [car |-> At(object', ref'[<<a, "car">>]),
                                             cdr |-> At(object', ref'[<<a, "cdr">>])]
    BY <1>3, <1>6, <1>8, <1>10
  <1>16. Promise!Becomes(HeapView', g)
    BY <1>3, <1>5, <1>8, <1>12, <1>13, <1>14, <1>15, ProgramAfter
  <1>17. QED BY <1>1, <1>7, <1>16 DEF Promise!Drop

\* car, cdr: what is read is what the heap has in that field.
LEMMA LoadSeen ==
  ASSUME NoGuardians, Known, Known', NEW r \in Root, Load(r)
  PROVE  Promise!Load(HeapView, HeapView', r)
  <1>1. PICK h : h = HeapView
    OBVIOUS
  <1>2. PICK T : T = Reachable
    OBVIOUS
  <1>3. phase = "mutator" /\ phase' = "mutator" /\ object' = object
    BY DEF Load, Mutating, gc_vars
  <1>4. PICK s \in Root, f \in CarCdr :
          /\ UserHandle(s)
          /\ ref' = [ref EXCEPT ![<<r, "root">>] = ref[<<Handle(s), f>>]]
    BY DEF Load
  <1>5. PICK b : b = Handle(s)
    OBVIOUS
  <1>6. PICK x : x = ref[<<b, f>>]
    OBVIOUS
  <1>7. \A m \in Loc : ref'[m] = IF m = <<r, "root">> THEN x ELSE ref[m]
    BY <1>4, <1>5, <1>6 DEF Known, IInv, TypeOK
  <1>8. /\ T \in SUBSET Addr
        /\ \A l \in Sources(T) : ref[l] \in Addr => ref[l] \in T
        /\ b \in T
        /\ h.root[s] = At(object, b) /\ h.root[s] \in Promise!Data
    <2>1. b \in Addr
      BY <1>4, <1>5 DEF UserHandle
    <2>2. QED BY <1>1, <1>2, <1>3, <1>4, <1>5, <2>1, ProgramBefore
  <1>9. /\ h \in Heaps
        /\ h.root = [q \in Root |-> At(object, ref[<<q, "root">>])]
        /\ \A a \in T : h.field[object[a]] = [car |-> At(object, ref[<<a, "car">>]),
                                              cdr |-> At(object, ref[<<a, "cdr">>])]
        /\ h.registered = {} /\ h.condemned = {}
    BY <1>1, <1>2, ViewBefore
  <1>10. /\ \A q \in Root : <<q, "root">> \in Sources(T)
         /\ \A a \in T : <<a, "car">> \in Sources(T) /\ <<a, "cdr">> \in Sources(T)
    BY <1>8, SourcesAre
  <1>11. x \in Addr => x \in T
    BY <1>6, <1>8, <1>10 DEF CarCdr
  <1>12. h.field[h.root[s]][f] = At(object, x)
    <2>1. h.root[s] = object[b]
      BY <1>8 DEF At
    <2>2. h.field[object[b]] = [car |-> At(object, ref[<<b, "car">>]), cdr |-> At(object, ref[<<b, "cdr">>])]
      BY <1>8, <1>9
    <2>3. CASE f = "car"
      <3>1. h.field[object[b]][f] = At(object, ref[<<b, "car">>])
        BY <2>2, <2>3
      <3>2. QED BY <1>6, <2>1, <2>3, <3>1
    <2>4. CASE f = "cdr"
      <3>1. h.field[object[b]][f] = At(object, ref[<<b, "cdr">>])
        BY <2>2, <2>4
      <3>2. QED BY <1>6, <2>1, <2>4, <3>1
    <2>5. QED BY <2>3, <2>4 DEF CarCdr
  <1>13. PICK g : g = [h EXCEPT !.root[r] = h.field[h.root[s]][f]]
    OBVIOUS
  <1>14. /\ g.root = [h.root EXCEPT ![r] = At(object, x)] /\ g.field = h.field
         /\ g.registered = {} /\ g.condemned = {}
    BY <1>9, <1>12, <1>13 DEF Heaps
  <1>15. \A a \in T : /\ ref'[<<a, "car">>] = ref[<<a, "car">>]
                      /\ ref'[<<a, "cdr">>] = ref[<<a, "cdr">>]
    BY <1>7, <1>8, LocsApart
  <1>16. \A q \in Root : ref'[<<q, "root">>] = IF q = r THEN x ELSE ref[<<q, "root">>]
    BY <1>7, LocsApart
  <1>17. g.root = [q \in Root |-> At(object', ref'[<<q, "root">>])]
    <2>1. \A q \in Root : At(object', ref'[<<q, "root">>]) =
                            IF q = r THEN At(object, x) ELSE At(object, ref[<<q, "root">>])
      BY <1>3, <1>16
    <2>2. g.root = [q \in Root |-> IF q = r THEN At(object, x) ELSE At(object, ref[<<q, "root">>])]
      BY <1>9, <1>14
    <2>3. QED BY <2>1, <2>2
  <1>18. \A q \in Root : ref'[<<q, "root">>] \in Addr => ref'[<<q, "root">>] \in T
    BY <1>8, <1>10, <1>11, <1>16
  <1>19. \A a \in T : /\ ref'[<<a, "car">>] \in Addr => ref'[<<a, "car">>] \in T
                      /\ ref'[<<a, "cdr">>] \in Addr => ref'[<<a, "cdr">>] \in T
    BY <1>8, <1>10, <1>15
  <1>20. \A a \in T : g.field[object'[a]] = [car |-> At(object', ref'[<<a, "car">>]),
                                             cdr |-> At(object', ref'[<<a, "cdr">>])]
    BY <1>3, <1>9, <1>14, <1>15
  <1>21. Promise!Becomes(HeapView', g)
    <2>1. phase' = "mutator" /\ T \in SUBSET Addr /\ g.registered = {} /\ g.condemned = {}
      BY <1>3, <1>8, <1>14
    <2>2. QED BY <1>17, <1>18, <1>19, <1>20, <2>1, ProgramAfter
  <1>22. f \in {"car", "cdr"}
    BY DEF CarCdr
  <1>23. Promise!Load(h, HeapView', r)
    BY <1>8, <1>13, <1>21, <1>22 DEF Promise!Load
  <1>24. QED BY <1>1, <1>23

\* set-car!, set-cdr!, vector-set!: what is stored is stored in the heap.
LEMMA SetFieldSeen ==
  ASSUME NoGuardians, Known, Known', NEW r \in Root, SetField(r)
  PROVE  Promise!SetField(HeapView, HeapView', r)
  <1>1. PICK h : h = HeapView
    OBVIOUS
  <1>2. PICK T : T = Reachable
    OBVIOUS
  <1>3. phase = "mutator" /\ phase' = "mutator" /\ object' = object
    BY DEF SetField, Mutating, gc_vars
  <1>4. PICK b : b = Handle(r)
    OBVIOUS
  <1>5. PICK f \in CarCdr, v \in Handles : ref' = [ref EXCEPT ![<<b, f>>] = v]
    <2>1. KindAt(b) \in UserKind /\ \E f \in Used[KindAt(b)], v \in Handles : Store(b, f, v)
      BY <1>4 DEF SetField, UserHandle
    <2>2. Used[KindAt(b)] \subseteq CarCdr
      BY <2>1, ConstantsAssumption
    <2>3. QED BY <2>1, <2>2 DEF Store
  <1>6. /\ T \in SUBSET Addr
        /\ \A l \in Sources(T) : ref[l] \in Addr => ref[l] \in T
        /\ \A a, c \in T : object[a] = object[c] => a = c
        /\ \A a \in T : object[a] \in Object
        /\ b \in T /\ UserHandle(r)
        /\ h.root[r] = At(object, b) /\ h.root[r] \in Promise!Data
        /\ v \in Addr => v \in T
        /\ At(object, v) \in Promise!Handles(h)
    <2>1. b \in Addr /\ UserHandle(r)
      BY <1>4 DEF UserHandle, SetField
    <2>2. QED BY <1>1, <1>2, <1>3, <1>4, <1>5, <2>1, ProgramBefore
  <1>7. \A m \in Loc : ref'[m] = IF m = <<b, f>> THEN v ELSE ref[m]
    BY <1>5 DEF Known, IInv, TypeOK
  <1>8. /\ h \in Heaps
        /\ h.root = [q \in Root |-> At(object, ref[<<q, "root">>])]
        /\ \A a \in T : h.field[object[a]] = [car |-> At(object, ref[<<a, "car">>]),
                                              cdr |-> At(object, ref[<<a, "cdr">>])]
        /\ h.registered = {} /\ h.condemned = {}
    BY <1>1, <1>2, ViewBefore
  <1>9. /\ \A q \in Root : <<q, "root">> \in Sources(T)
        /\ \A a \in T : <<a, "car">> \in Sources(T) /\ <<a, "cdr">> \in Sources(T)
    BY <1>6, SourcesAre
  <1>10. PICK o \in Object : o = object[b] /\ o = h.root[r]
    BY <1>6 DEF At
  <1>11. PICK w : w = At(object, v)
    OBVIOUS
  <1>12. PICK g : g = [h EXCEPT !.field[h.root[r]][f] = w]
    OBVIOUS
  <1>13. /\ g.root = h.root /\ g.field = [h.field EXCEPT ![o][f] = w]
         /\ g.registered = {} /\ g.condemned = {}
         /\ DOMAIN h.field = Object
    BY <1>8, <1>10, <1>12 DEF Heaps
  <1>14. \A q \in Root : ref'[<<q, "root">>] = ref[<<q, "root">>]
    <2>1. \A q \in Root : <<q, "root">> # <<b, f>>
      BY DEF CarCdr
    <2>2. QED BY <1>7, <2>1, LocsApart
  <1>15. ASSUME NEW a \in T
         PROVE  /\ ref'[<<a, "car">>] = IF a = b /\ f = "car" THEN v ELSE ref[<<a, "car">>]
                /\ ref'[<<a, "cdr">>] = IF a = b /\ f = "cdr" THEN v ELSE ref[<<a, "cdr">>]
    BY <1>6, <1>7, LocsApart DEF CarCdr
  <1>16. g.root = [q \in Root |-> At(object', ref'[<<q, "root">>])]
    BY <1>3, <1>8, <1>13, <1>14
  <1>17. \A q \in Root : ref'[<<q, "root">>] \in Addr => ref'[<<q, "root">>] \in T
    BY <1>6, <1>9, <1>14
  <1>18. \A a \in T : /\ ref'[<<a, "car">>] \in Addr => ref'[<<a, "car">>] \in T
                      /\ ref'[<<a, "cdr">>] \in Addr => ref'[<<a, "cdr">>] \in T
    BY <1>6, <1>9, <1>15
  <1>19. ASSUME NEW a \in T
         PROVE  g.field[object'[a]] = [car |-> At(object', ref'[<<a, "car">>]),
                                       cdr |-> At(object', ref'[<<a, "cdr">>])]
    <2>1. h.field[object[a]] = [car |-> At(object, ref[<<a, "car">>]),
                                cdr |-> At(object, ref[<<a, "cdr">>])]
      BY <1>8
    <2>2. object[a] \in Object
      BY <1>6
    <2>3. CASE a = b
      <3>1. g.field[object[a]] = [h.field[object[a]] EXCEPT ![f] = w]
        BY <1>10, <1>13, <2>2, <2>3
      <3>2. CASE f = "car"
        <4>1. g.field[object[a]] = [car |-> w, cdr |-> At(object, ref[<<a, "cdr">>])]
          BY <2>1, <3>1, <3>2
        <4>2. QED BY <1>3, <1>11, <1>15, <2>3, <3>2, <4>1
      <3>3. CASE f = "cdr"
        <4>1. g.field[object[a]] = [car |-> At(object, ref[<<a, "car">>]), cdr |-> w]
          BY <2>1, <3>1, <3>3
        <4>2. QED BY <1>3, <1>11, <1>15, <2>3, <3>3, <4>1
      <3>4. QED BY <3>2, <3>3 DEF CarCdr
    <2>4. CASE a # b
      <3>1. object[a] # o
        BY <1>6, <1>10, <2>4
      <3>2. g.field[object[a]] = h.field[object[a]]
        BY <1>13, <2>2, <3>1
      <3>3. QED BY <1>3, <1>15, <2>1, <2>4, <3>2
    <2>5. QED BY <2>3, <2>4
  <1>20. Promise!Becomes(HeapView', g)
    <2>1. phase' = "mutator" /\ T \in SUBSET Addr /\ g.registered = {} /\ g.condemned = {}
      BY <1>3, <1>6, <1>13
    <2>2. \A a \in T : g.field[object'[a]] = [car |-> At(object', ref'[<<a, "car">>]),
                                              cdr |-> At(object', ref'[<<a, "cdr">>])]
      BY <1>19
    <2>3. QED BY <1>16, <1>17, <1>18, <2>1, <2>2, ProgramAfter
  <1>21. f \in {"car", "cdr"} /\ w \in Promise!Handles(h)
    BY <1>6, <1>11 DEF CarCdr
  <1>22. Promise!SetField(h, HeapView', r)
    BY <1>6, <1>12, <1>20, <1>21 DEF Promise!SetField
  <1>23. QED BY <1>1, <1>22

\* cons, weak-cons, make-vector: what is placed in memory is an object the heap
\* does not retain.
LEMMA AllocateSeen ==
  ASSUME NoGuardians, Known, Known', NEW r \in Root, Allocate(r)
  PROVE  Promise!Allocate(HeapView, HeapView', r)
  <1>1. PICK h : h = HeapView
    OBVIOUS
  <1>2. PICK G : G = Reachable
    OBVIOUS
  <1>3. phase = "mutator" /\ phase' = "mutator"
    BY DEF Allocate, Mutating, gc_vars
  <1>4. PICK k \in UserKind, u \in Handles, v \in Handles : Place(k, u, v, <<r, "root">>)
    BY DEF Allocate
  <1>5. PICK a : a = Slot(HeapType(k), 0, FALSE)
    OBVIOUS
  <1>6. PICK o : o = Fresh(k)
    OBVIOUS
  <1>7. /\ a \in Addr /\ Free(a)
        /\ o \in Object /\ KindOf[o] = k /\ \A b \in Addr : object[b] # o
        /\ object' = [object EXCEPT ![a] = o]
        /\ ref' = [ref EXCEPT ![<<a, "car">>] = u, ![<<a, "cdr">>] = v, ![<<r, "root">>] = a]
    <2>1. a \in Addr /\ a \in Room(HeapType(k), 0, FALSE)
      BY <1>4, <1>5, SlotType DEF Place
    <2>2. Free(a)
      BY <2>1 DEF Room, Holes, Free, Known, IInv, PagesInv
    <2>3. o \in Unused(k)
      BY <1>4, <1>6 DEF Place, Fresh
    <2>4. QED BY <1>4, <1>5, <1>6, <2>1, <2>2, <2>3 DEF Place, Unused
  <1>8. /\ G \in SUBSET Addr
        /\ \A b \in G : object[b] \in Object /\ Allocated(b)
        /\ \A l \in Sources(G) : ref[l] \in Addr => ref[l] \in G
        /\ u \in Addr => u \in G
        /\ v \in Addr => v \in G
        /\ At(object, u) \in Promise!Handles(h) /\ At(object, v) \in Promise!Handles(h)
    BY <1>1, <1>2, <1>3, <1>4, ProgramBefore
  <1>9. PICK T : T = G \cup {a}
    OBVIOUS
  <1>10. /\ h \in Heaps
         /\ h.root = [q \in Root |-> At(object, ref[<<q, "root">>])]
         /\ \A b \in G : h.field[object[b]] = [car |-> At(object, ref[<<b, "car">>]),
                                               cdr |-> At(object, ref[<<b, "cdr">>])]
         /\ h.registered = {} /\ h.condemned = {}
         /\ Promise!Retained(h) = Reached
    BY <1>1, <1>2, ViewBefore
  <1>11. /\ \A q \in Root : <<q, "root">> \in Sources(G)
         /\ \A b \in G : <<b, "car">> \in Sources(G) /\ <<b, "cdr">> \in Sources(G)
    BY <1>8, SourcesAre
  <1>12. /\ a \notin G /\ T \in SUBSET Addr
         /\ \A b \in G : object[b] # o
    BY <1>7, <1>8, <1>9 DEF Free
  <1>13. \A b \in Addr : object'[b] = IF b = a THEN o ELSE object[b]
    BY <1>7 DEF Known, IInv, TypeOK
  <1>14. /\ \A q \in Root : ref'[<<q, "root">>] = IF q = r THEN a ELSE ref[<<q, "root">>]
         /\ \A b \in Addr : /\ ref'[<<b, "car">>] = IF b = a THEN u ELSE ref[<<b, "car">>]
                            /\ ref'[<<b, "cdr">>] = IF b = a THEN v ELSE ref[<<b, "cdr">>]
    BY <1>7, LocsApart DEF Known, IInv, TypeOK
  <1>15. PICK cu : cu = At(object, u)
    OBVIOUS
  <1>16. PICK cv : cv = At(object, v)
    OBVIOUS
  <1>17. At(object', u) = cu /\ At(object', v) = cv /\ At(object', a) = o
    BY <1>7, <1>8, <1>12, <1>13, <1>15, <1>16 DEF At
  <1>18. \A l \in Sources(G) : At(object', ref[l]) = At(object, ref[l])
    BY <1>8, <1>12, <1>13 DEF At
  <1>19. PICK g : g = [h EXCEPT !.root[r] = o, !.field[o] = [car |-> cu, cdr |-> cv]]
    OBVIOUS
  <1>20. /\ g.root = [h.root EXCEPT ![r] = o]
         /\ g.field = [h.field EXCEPT ![o] = [car |-> cu, cdr |-> cv]]
         /\ g.registered = {} /\ g.condemned = {}
         /\ DOMAIN h.field = Object
    BY <1>10, <1>19 DEF Heaps
  <1>21. g.root = [q \in Root |-> At(object', ref'[<<q, "root">>])]
    <2>1. \A q \in Root : At(object', ref'[<<q, "root">>]) = IF q = r THEN o ELSE At(object, ref[<<q, "root">>])
      BY <1>11, <1>14, <1>17, <1>18
    <2>2. QED BY <1>10, <1>20, <2>1
  <1>22. ASSUME NEW b \in T
         PROVE  g.field[object'[b]] = [car |-> At(object', ref'[<<b, "car">>]),
                                       cdr |-> At(object', ref'[<<b, "cdr">>])]
    <2>1. CASE b = a
      <3>1. g.field[object'[b]] = [car |-> cu, cdr |-> cv]
        BY <1>7, <1>13, <1>20, <2>1
      <3>2. QED BY <1>7, <1>14, <1>17, <2>1, <3>1
    <2>2. CASE b \in G
      <3>1. object'[b] = object[b] /\ object[b] # o /\ object[b] \in Object /\ b # a /\ b \in Addr
        BY <1>8, <1>12, <1>13, <2>2
      <3>2. g.field[object[b]] = h.field[object[b]]
        BY <1>20, <3>1
      <3>3. h.field[object[b]] = [car |-> At(object, ref[<<b, "car">>]),
                                  cdr |-> At(object, ref[<<b, "cdr">>])]
        BY <1>10, <2>2
      <3>4. At(object', ref'[<<b, "car">>]) = At(object, ref[<<b, "car">>]) /\ At(object', ref'[<<b, "cdr">>]) = At(object, ref[<<b, "cdr">>])
        BY <1>11, <1>14, <1>18, <2>2, <3>1
      <3>5. QED BY <3>1, <3>2, <3>3, <3>4
    <2>3. QED BY <1>9, <2>1, <2>2
  <1>23. \A q \in Root : ref'[<<q, "root">>] \in Addr => ref'[<<q, "root">>] \in T
    BY <1>8, <1>9, <1>11, <1>14
  <1>24. \A b \in T : /\ ref'[<<b, "car">>] \in Addr => ref'[<<b, "car">>] \in T
                      /\ ref'[<<b, "cdr">>] \in Addr => ref'[<<b, "cdr">>] \in T
    <2>1. ASSUME NEW b \in T
          PROVE  /\ ref'[<<b, "car">>] \in Addr => ref'[<<b, "car">>] \in T
                 /\ ref'[<<b, "cdr">>] \in Addr => ref'[<<b, "cdr">>] \in T
      <3>1. CASE b = a
        <4>1. ref'[<<b, "car">>] = u /\ ref'[<<b, "cdr">>] = v
          BY <1>7, <1>14, <3>1
        <4>2. QED BY <1>8, <1>9, <4>1
      <3>2. CASE b \in G /\ b # a
        <4>1. ref'[<<b, "car">>] = ref[<<b, "car">>] /\ ref'[<<b, "cdr">>] = ref[<<b, "cdr">>]
          BY <1>8, <1>14, <3>2
        <4>2. QED BY <1>8, <1>9, <1>11, <3>2, <4>1
      <3>3. QED BY <1>9, <3>1, <3>2
    <2>2. QED BY <2>1
  <1>25. Promise!Becomes(HeapView', g)
    <2>1. phase' = "mutator" /\ T \in SUBSET Addr /\ g.registered = {} /\ g.condemned = {}
      BY <1>3, <1>12, <1>20
    <2>2. QED BY <1>21, <1>22, <1>23, <1>24, <2>1, ProgramAfter
  <1>26. o \in Promise!Data \ Promise!Retained(h)
    <2>1. o \in Promise!Data
      BY <1>7 DEF Promise!Data, UserKind
    <2>2. o \notin Reached
      BY <1>2, <1>12 DEF Reached
    <2>3. QED BY <1>10, <2>1, <2>2
  <1>27. cu \in Promise!Handles(h) /\ cv \in Promise!Handles(h)
    BY <1>8, <1>15, <1>16
  <1>28. Promise!Allocate(h, HeapView', r)
    BY <1>19, <1>25, <1>26, <1>27 DEF Promise!Allocate
  <1>29. QED BY <1>1, <1>28

\* The empty heap is seen as one.
LEMMA HeapInit ==
  ASSUME NoGuardians, Init, Known
  PROVE  Promise!Init
  <1>1. PICK g : g = [root |-> [r \in Root |-> Nil], field |-> [o \in Object |-> Promise!Blank],
                      tqueue |-> [o \in Promise!Tconcs |-> << >>],
                      registered |-> {}, condemned |-> {}]
    OBVIOUS
  <1>2. Reachable = {}
    <2>1. \A l \in RootLoc : ref[l] = Nil /\ Nil \notin Addr
      BY LocKinds, ConstantsAssumption DEF Init
    <2>2. WholeReach({})
      BY <2>1 DEF WholeReach, Sources
    <2>3. QED BY <2>2 DEF Known, ReachFact
  <1>3. Reached = {}
    BY <1>2 DEF Reached
  <1>4. HeapView.root = [r \in Root |-> Nil]
    <2>1. \A r \in Root : At(object, ref[<<r, "root">>]) = Nil
      BY LocsApart, ConstantsAssumption DEF At, Init
    <2>2. HeapView.root = [r \in Root |-> At(object, ref[<<r, "root">>])]
      BY ViewBefore
    <2>3. QED BY <2>1, <2>2
  <1>5. Promise!Tconcs = {} /\ {t \in Object : KindOf[t] = "tconc"} = {}
    BY DEF Promise!Tconcs, NoGuardians
  <1>6. IInv /\ NothingGuarded
    BY DEF Known
  <1>7. /\ HeapView.registered = {} /\ HeapView.condemned = {}
        /\ HeapView.tqueue = [o \in {t \in Object : KindOf[t] = "tconc"} |-> << >>]
        /\ HeapView = [root |-> HeapView.root, field |-> HeapView.field,
                       tqueue |-> HeapView.tqueue, registered |-> HeapView.registered,
                       condemned |-> HeapView.condemned]
    BY <1>6, ViewIs
  <1>8. HeapView.field = [o \in Object |-> Promise!Blank]
    <2>1. \A o \in Object : HeapView.field[o] = Promise!Blank
      BY <1>3, <1>6, ViewIs DEF Promise!Blank
    <2>2. HeapView.field = [o \in Object |-> HeapView.field[o]]
      BY <1>6, ViewIs
    <2>3. QED BY <2>1, <2>2
  <1>9. HeapView.tqueue = [o \in Promise!Tconcs |-> << >>]
    BY <1>7 DEF Promise!Tconcs
  <1>10. QED BY <1>4, <1>7, <1>8, <1>9 DEF Promise!Init

\* Every step is one of the heap's, or leaves it as it was.
LEMMA StepSeen ==
  ASSUME NoGuardians, Known, Known', [Next]_vars
  PROVE  [Promise!Next]_HeapView
  <1>1. CASE Program
    <2>1. PICK r \in Root : Allocate(r) \/ SetField(r) \/ Load(r) \/ Drop(r)
      BY <1>1, NoRegistering DEF Program, Known
    <2>2. Promise!Program(HeapView, HeapView')
      BY <2>1, AllocateSeen, SetFieldSeen, LoadSeen, DropSeen DEF Promise!Program
    <2>3. QED BY <2>2 DEF Promise!Next
  <1>2. CASE StartCollection
    BY <1>2, CollectorUnseen
  <1>3. CASE CollectorStep
    <2>1. CASE FixWeakPointers
      <3>1. Promise!Collector(HeapView, HeapView')
        BY <2>1, FixSeen DEF Promise!Collector
      <3>2. QED BY <3>1 DEF Promise!Next
    <2>2. CASE ~FixWeakPointers
      BY <1>3, <2>2, CollectorUnseen
    <2>3. QED BY <2>1, <2>2
  <1>4. CASE UNCHANGED vars
    <2>1. UNCHANGED <<ref, object>>
      BY <1>4 DEF vars, mem_vars
    <2>2. QED BY <2>1, UnseenUnchanged
  <1>5. QED BY <1>1, <1>2, <1>3, <1>4 DEF Next

\* There is nothing to know of a state but that it satisfies these.
LEMMA AllKnown ==
  ASSUME NoGuardians, IInv, NothingGuarded, CopiesSame
  PROVE  Known
  BY ReachKnown, ViewKnown DEF Known

\* The program cannot tell the collector from a heap that only ever breaks weak
\* pointers to what it cannot reach otherwise: whatever the heap, the roots, the
\* generations and the order of visits, in the middle of a collection too
\* (ik_collect and every pass of it; the stores, loads and allocations of compiled
\* code between).  Of programs that make no guardians.
THEOREM CollectorImplementsHeap == NoGuardians => (Spec => ImplementsHeap)
  <1> SUFFICES ASSUME NoGuardians PROVE Spec => ImplementsHeap
    OBVIOUS
  <1>1. Init => NothingGuarded /\ CopiesSame
    BY DEF Init, NothingGuarded, CopiesSame, Tracing
  <1>2. IInv /\ NothingGuarded /\ CopiesSame /\ [Next]_vars => NothingGuarded' /\ CopiesSame'
    <2>1. ASSUME IInv, NothingGuarded, CopiesSame, Next PROVE NothingGuarded' /\ CopiesSame'
      BY <2>1, GuardedAfter, SameAfter
    <2>2. ASSUME NothingGuarded, CopiesSame, UNCHANGED vars PROVE NothingGuarded' /\ CopiesSame'
      BY <2>2 DEF vars, gc_vars, seg_vars, mem_vars, guardian_vars, NothingGuarded, CopiesSame,
                  Forwarded, Car, Cdr
    <2>3. QED BY <2>1, <2>2
  <1>3. IInv /\ NothingGuarded /\ CopiesSame => Known
    BY AllKnown
  <1>4. Init /\ Known => Promise!Init
    BY HeapInit
  <1>5. Known /\ Known' /\ [Next]_vars => [Promise!Next]_HeapView
    BY StepSeen
  <1>6. QED BY <1>1, <1>2, <1>3, <1>4, <1>5, InductiveInvariant, PTL DEF Spec, ImplementsHeap, Promise!Spec

=============================================================================
