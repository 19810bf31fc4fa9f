---------------------------- MODULE MCCollector ----------------------------
(* Small instances of Collector for TLC. *)
EXTENDS CollectorHeap, CollectorInvariant, TLC

CONSTANTS
  Pages, Slots, Cards,                     \* pages; slots and cards on a page
  PairObjects, WeakObjects, VectorObjects, TconcObjects, CellObjects,
  PairFields, WeakFields, VectorFields     \* the fields of each the program uses

MCPage == 1 .. Pages
MCAddr == MCPage \X (1 .. Slots)
MCPageOf == [a \in MCAddr |-> a[1]]
MCCard == 1 .. Cards
MCCardOf == [a \in MCAddr |-> IF a[2] <= Cards THEN a[2] ELSE Cards]
ObjectsOf == [pair |-> PairObjects, weak |-> WeakObjects, vector |-> VectorObjects,
              tconc |-> TconcObjects, cell |-> CellObjects]
MCObject == UNION {ObjectsOf[k] : k \in DOMAIN ObjectsOf}
MCKindOf == [o \in MCObject |-> CHOOSE k \in DOMAIN ObjectsOf : o \in ObjectsOf[k]]
MCUsed == [pair |-> PairFields, weak |-> WeakFields, vector |-> VectorFields]

\* the code's masks are 3, 15, 63, 255; these keep the pattern with a period of 2
MCMask == [g \in Gen |-> 2^g - 1]

\* Objects of a kind are interchangeable: Fresh takes any unused one, and the
\* identity of an object takes no part in where it is placed or when it moves.
MCSymmetry == UNION {Permutations(ObjectsOf[k]) : k \in DOMAIN ObjectsOf}
=============================================================================
