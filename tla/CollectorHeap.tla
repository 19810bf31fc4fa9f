--------------------------- MODULE CollectorHeap ---------------------------
(***************************************************************************)
(* The collector implements Heap.  An address stands for the object placed *)
(* there, before and after the copy; an object's fields are those of its   *)
(* current copy; a guardian's queue is the chain of cells from the car of  *)
(* its tconc to the cdr.                                                   *)
(***************************************************************************)
EXTENDS Collector, Sequences, Reachability

\* memory is finite, and what is not an address is not an object
ASSUME HeapAssumption ==
  /\ IsFiniteSet(Addr) /\ IsFiniteSet(Object)
  /\ {Nil, Bwp, Forward} \cap Object = {}

\* where the object at x is now
Now(x) == IF x \in Addr /\ Forwarded(x) THEN Cdr(x) ELSE x

\* Cells are not visible to the program; a dangling pointer would be NoObject,
\* which is no value of Heap's.
Is(a, k) == Allocated(a) /\ KindAt(a) = k
ValueOf(x) ==
  IF x \notin Addr THEN x
  ELSE IF Is(x, "cell") THEN Nil ELSE object[x]

\* the objects between the head and the end of the queue of the tconc at a
Chain(a) ==
  LET end == Now(Cdr(a))
      From[x \in Value, n \in 0 .. Cardinality(Addr)] ==
        IF n = 0 \/ x = end \/ x \notin Addr THEN <<>>
        ELSE <<ValueOf(Car(x))>> \o From[Now(Cdr(x)), n - 1]
  IN  From[Now(Car(a)), Cardinality(Addr)]

Registration(e) ==
  LET p == PairOf(e) IN <<e, object[Car(p)], ValueOf(Cdr(p))>>

Lists == Registered \cup pend_hold \cup pend_final \cup forward_list

\* addresses the program can get to: from its roots, through the current
\* copies of objects, and from a guardian to what it guards
Successors(a) ==
  LET guarded == IF ~Is(a, "tconc") THEN {}
                 ELSE {ObjectOf(e) : e \in {d \in Lists : Now(TconcOf(d)) = a}}
  IN  {Now(x) : x \in ({Car(a), Cdr(a)} \cup guarded) \cap Addr}

Reachable ==
  Reach({Now(x) : x \in {Handle(r) : r \in Root} \cap Addr}, [a \in Addr |-> Successors(a)])

\* the heap made of the objects at the addresses in reach
View[reach \in SUBSET Addr] ==
  LET at(o) == {a \in reach : object[a] = o}
      visible(es) == {c \in {Registration(e) : e \in es} : at(c[2]) # {}}
  IN
  [root |-> [r \in Root |-> ValueOf(Handle(r))],
   field |-> [o \in Object |->
                IF at(o) = {} \/ KindOf[o] \in {"tconc", "cell"}
                THEN [car |-> Nil, cdr |-> Nil]
                ELSE LET a == CHOOSE b \in at(o) : TRUE
                     IN  [car |-> ValueOf(Car(a)), cdr |-> ValueOf(Cdr(a))]],
   tqueue |-> [o \in {t \in Object : KindOf[t] = "tconc"} |->
                IF at(o) = {} THEN <<>> ELSE Chain(CHOOSE b \in at(o) : TRUE)],
   registered |-> visible(Registered \cup pend_hold \cup pend_final),
   condemned |-> visible(forward_list)]

HeapView == View[Reachable]

Promise == INSTANCE Heap WITH heap <- HeapView

\* The program cannot tell the collector from a heap that only ever breaks
\* weak pointers to, and delivers, what it can no longer reach.
ImplementsHeap == Promise!Spec

-----------------------------------------------------------------------------
(* Storage is reclaimed *)

StrongSuccessors(a) ==
  (IF Is(a, "weak") THEN {Cdr(a)} ELSE {Car(a), Cdr(a)}) \cap Addr

StronglyReachable == Reach({Handle(r) : r \in Root}, [a \in Addr |-> StrongSuccessors(a)])

Garbage(o) ==
  /\ phase = "mutator"
  /\ \E a \in Addr : object[a] = o /\ a \notin StronglyReachable

\* A program that goes on allocating goes on being interrupted by ik_collect.
FairSpec == Spec /\ WF_vars(StartCollection)

\* No object stays garbage for ever, in whatever generation it was when the
\* program lost it and whatever dead objects point to it.
Reclaimed == \A o \in Object : Garbage(o) ~> phase = "mutator" /\ ~Garbage(o)
=============================================================================
