SPECIFICATION Spec
CONSTANTS
  Pages = 4
  Slots = 1
  Cards = 1
  PairObjects = {p1}
  WeakObjects = {}
  VectorObjects = {v1}
  TconcObjects = {}
  CellObjects = {}
  PairFields = {"cdr"}
  WeakFields = {}
  VectorFields = {"cdr"}
  Addr <- MCAddr
  Page <- MCPage
  Card <- MCCard
  PageOf <- MCPageOf
  CardOf <- MCCardOf
  Root = {r1, r2}
  Entry = {}
  Object <- MCObject
  KindOf <- MCKindOf
  MaxGen = 2
  Mask <- MCMask
  MaxObjects = 2
  Used <- MCUsed
  Nil = Nil
  Bwp = Bwp
  Forward = Forward
  NoObject = NoObject
INVARIANTS
  ScannedPagesNotCollected
