SPECIFICATION Spec
CONSTANTS
  Pages = 3
  Slots = 6
  Cards = 1
  PairObjects = {}
  WeakObjects = {}
  VectorObjects = {}
  TconcObjects = {t1, t2}
  CellObjects = {c1, c2, c3, c4}
  PairFields = {}
  WeakFields = {}
  VectorFields = {}
  Addr <- MCAddr
  Page <- MCPage
  Card <- MCCard
  PageOf <- MCPageOf
  CardOf <- MCCardOf
  Root = {r1, r2}
  Entry = {e1, e2}
  Object <- MCObject
  KindOf <- MCKindOf
  MaxGen = 0
  Mask <- MCMask
  MaxObjects = 6
  Used <- MCUsed
  Nil = Nil
  Bwp = Bwp
  Forward = Forward
  NoObject = NoObject
PROPERTIES
  ImplementsHeap
SYMMETRY MCSymmetry
