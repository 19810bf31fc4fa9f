SPECIFICATION MCSpec
\* the model ends where code would use what was freed
CHECK_DEADLOCK FALSE
CONSTANTS
  Units = {"code"}
  Codes = {1, 2}
  Starts = {0, 7}
  SegmentPages = 6
  Segments = 4
  HeapSize = 2
  HeapExt = 1
  StackPages = 1
  Margin = 1
  CacheSize = 2
  Requests = {1, 2}
  MaxMapped = 3
  MaxPageOps = 5
  Names = {"a", "b", "c"}
  Hash <- MCHash
  MaxSymbols = 3
  CBuckets = 1
  FirstLength = 4
  Keys = {k1, k2, k3}
  FirstSize = 1
  LastSize = 2
  TopGen = 1
  Shapes <- MCShapes
  Texts = {1, 2}
  CodeSizes = {1, 3, 4, 5}
  CodePage = 4
  MarksSize = 3
  Readings = 2
  MaxGensyms = 3
  Callbacks = {"callback"}
  OutSize = 3
  InSize = 4
  Widths <- MCWidths
  TextLength = 7
  PutSizes = {1, 4}
  MaxPut = 5
  MaxPortOps = 4
  Library = {"a", "b", "c", "d", "e"}
  File <- MCFile
  MaxImports = 4
  HeapRoom = 6
  Small = 2
  Sizes = {1, 2, 4, 7}
  KeySize = 1
  MaxCollections = 4
INVARIANTS
  VerifyCode
