SPECIFICATION Spec
CONSTANTS
  Pages = 8
  Slots = 1
  Cards = 1
  PairObjects = {}
  WeakObjects = {w1}
  VectorObjects = {}
  TconcObjects = {t1}
  CellObjects = {c1, c2}
  PairFields = {}
  WeakFields = {"car"}
  VectorFields = {}
  Addr <- MCAddr
  Page <- MCPage
  Card <- MCCard
  PageOf <- MCPageOf
  CardOf <- MCCardOf
  Root = {r1, r2}
  Entry = {e1}
  Object <- MCObject
  KindOf <- MCKindOf
  MaxGen = 0
  Mask <- MCMask
  MaxObjects = 4
  Used <- MCUsed
  Nil = Nil
  Bwp = Bwp
  Forward = Forward
  NoObject = NoObject
PROPERTIES
  ImplementsHeap
SYMMETRY MCSymmetry
