SPECIFICATION Spec
CONSTANTS
  Pages = 4
  Slots = 1
  Cards = 1
  PairObjects = {p1}
  WeakObjects = {w1}
  VectorObjects = {}
  TconcObjects = {}
  CellObjects = {}
  PairFields = {"cdr"}
  WeakFields = {"car"}
  VectorFields = {}
  Addr <- MCAddr
  Page <- MCPage
  Card <- MCCard
  PageOf <- MCPageOf
  CardOf <- MCCardOf
  Root = {r1, r2}
  Entry = {}
  Object <- MCObject
  KindOf <- MCKindOf
  MaxGen = 2
  Mask <- MCMask
  MaxObjects = 2
  Used <- MCUsed
  Nil = Nil
  Bwp = Bwp
  Forward = Forward
  NoObject = NoObject
INVARIANTS
  IInv
  OneCopy
  WeakPairsApart
PROPERTIES
  ImplementsHeap
