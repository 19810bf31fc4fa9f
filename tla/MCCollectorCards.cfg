SPECIFICATION Spec
CONSTANTS
  Pages = 5
  Slots = 2
  Cards = 2
  PairObjects = {p1, p2}
  WeakObjects = {}
  VectorObjects = {v1}
  TconcObjects = {}
  CellObjects = {}
  PairFields = {"cdr"}
  WeakFields = {}
  VectorFields = {}
  Addr <- MCAddr
  Page <- MCPage
  Card <- MCCard
  PageOf <- MCPageOf
  CardOf <- MCCardOf
  Root = {r1, r2}
  Entry = {}
  Object <- MCObject
  KindOf <- MCKindOf
  MaxGen = 2
  Mask <- MCMask
  MaxObjects = 3
  Used <- MCUsed
  Nil = Nil
  Bwp = Bwp
  Forward = Forward
  NoObject = NoObject
INVARIANTS
  NoDangling
  RememberedSet
SYMMETRY MCSymmetry
