-------------------------------- MODULE Fasl --------------------------------
(***************************************************************************)
(* Writing and reading compiled code and data (src/src/ikarus-fasl.c,      *)
(* src/scheme/ikarus.fasl.write.ss, ikarus.fasl.ss).                       *)
(*                                                                         *)
(* fasl-write counts the references to every object, then writes the graph *)
(* in one pass: an object with several is given a mark (">" m) where it is *)
(* first met and named by it ("<" m) afterwards.  The reader fills in the  *)
(* objects as it reads them, so a mark must be set before anything that is *)
(* read names it; and it relocates code while the graph is unfinished.     *)
(*                                                                         *)
(* The graphs are given by their kinds of objects.  A file is a sequence   *)
(* of tokens; a boot file, which C reads, may hold several objects, and so *)
(* does the port that the Scheme reader is given.                          *)
(***************************************************************************)
EXTENDS Integers, Sequences, FiniteSets, SequencesExt, FiniteSetsExt

CONSTANTS
  Shapes,      \* sequences of kinds: the objects of a graph, of which 1 is the root;
               \* "empty" stands for a vector of no elements
  Texts,       \* what a string may hold
  CodeSizes,   \* sizes of code objects
  CodePage,    \* the size of a page
  MarksSize,   \* marks_size of the C reader
  Readings     \* how many times the file is read

VARIABLES
  graph,       \* the objects that are written
  tokens,      \* the file, or empty
  reader,      \* "C" or "Scheme"
  loaded,      \* the reader: see ReaderInit
  results      \* what each reading returned

avars == <<graph, tokens, reader, loaded, results>>

\* An object has a kind, what it refers to, and data: of a string its text, of code its
\* size.  at is the address of code.  What an object refers to is another, or:
Immediate == 0
Unset == -1      \* not yet read
Object(kind, kids, data, at) == [kind |-> kind, kids |-> kids, data |-> data, at |-> at]

-----------------------------------------------------------------------------
(* Graphs *)

\* what fields of an object may refer to
OfKind(shape, kinds) == {i \in 1 .. Len(shape) : shape[i] \in kinds}
KidsOf(shape, kind) ==
  LET any == {Immediate} \cup 1 .. Len(shape)
      string == OfKind(shape, {"string"})
  IN CASE kind = "pair" -> any \X any
       [] kind = "vector" -> any \X any
       [] kind \in {"empty", "string"} -> {<< >>}
       [] kind = "symbol" -> {<<s>> : s \in string}
       [] kind = "gensym" -> string \X string
       [] kind = "rtd" -> string \X OfKind(shape, {"gensym"}) \X OfKind(shape, {"symbol"})
       [] kind = "code" -> (any \ OfKind(shape, {"code", "procedure"})) \X OfKind(shape, {"vector", "empty"})
       [] kind = "procedure" -> {<<c>> : c \in OfKind(shape, {"code"})}
DataOf(kind) == IF kind = "string" THEN Texts ELSE IF kind = "code" THEN CodeSizes ELSE {0}
ObjectsOf(shape, kind) ==
  {Object(IF kind = "empty" THEN "vector" ELSE kind, k, d, 0) : k \in KidsOf(shape, kind), d \in DataOf(kind)}

\* where a graph refers to an object
References(g, x) == {<<y, i>> \in (DOMAIN g) \X (1 .. 3) : i \in DOMAIN g[y].kids /\ g[y].kids[i] = x}

\* make-graph: the references to an object beyond the first, one of them to the root
Counts(g) == [x \in DOMAIN g |-> Cardinality(References(g, x)) + (IF x = 1 THEN 1 ELSE 0) - 1]

RECURSIVE ReachedFrom(_, _)
ReachedFrom(g, seen) ==
  LET next == seen \cup ((UNION {ToSet(g[y].kids) : y \in seen}) \ {Immediate})
  IN IF next = seen THEN seen ELSE ReachedFrom(g, next)

\* every object is reachable; names are unique, a reloc vector belongs to one code object
\* and the annotation of code leads to no code
Sound(g) ==
  /\ ReachedFrom(g, {1}) = DOMAIN g
  /\ \A x, y \in DOMAIN g :
       x # y /\ g[x].kind = g[y].kind =>
         /\ g[x].kind = "symbol" => g[g[x].kids[1]].data # g[g[y].kids[1]].data
         /\ g[x].kind = "gensym" => g[g[x].kids[2]].data # g[g[y].kids[2]].data
         /\ g[x].kind = "rtd" => g[x].kids[2] # g[y].kids[2]
  /\ \A x \in DOMAIN g : g[x].kind = "code" =>
       /\ Counts(g)[g[x].kids[2]] = 0
       /\ g[x].kids[1] # Immediate =>
            \A y \in ReachedFrom(g, {g[x].kids[1]}) : g[y].kind \notin {"code", "procedure"}

Graphs(shape) ==
  LET All == FoldLeft(LAMBDA gs, kind : {Append(g, o) : g \in gs, o \in ObjectsOf(shape, kind)}, {<< >>}, shape)
  IN {g \in All : Sound(g)}

-----------------------------------------------------------------------------
(* fasl-write *)

Token(tag, n) == [tag |-> tag, n |-> n]
Put(s, tag, n) == [s EXCEPT !.out = Append(@, Token(tag, n))]

RECURSIVE CountUnsharedCdrs(_, _)
CountUnsharedCdrs(g, x) ==
  IF x # Immediate /\ g[x].kind = "pair" /\ Counts(g)[x] = 0 THEN 1 + CountUnsharedCdrs(g, g[x].kids[2]) ELSE 0

RECURSIVE WriteObject(_, _, _)
WriteAll(g, xs, s) == FoldLeft(LAMBDA t, x : WriteObject(g, x, t), s, xs)

\* the cars of n pairs and the last cdr: write-pairs
RECURSIVE ListOfPairs(_, _, _)
ListOfPairs(g, x, n) ==
  IF n = 0 THEN g[x].kids ELSE <<g[x].kids[1]>> \o ListOfPairs(g, g[x].kids[2], n - 1)

DoWrite(g, x, s) ==
  LET o == g[x]
      n == CountUnsharedCdrs(g, o.kids[2])
  IN CASE o.kind = "pair" -> WriteAll(g, ListOfPairs(g, x, n), IF n = 0 THEN Put(s, "P", 0) ELSE Put(s, "l", n))
       [] o.kind = "vector" -> WriteAll(g, o.kids, Put(s, "V", Len(o.kids)))
       [] o.kind = "string" -> Put(s, "s", o.data)
       [] o.kind = "symbol" -> WriteAll(g, o.kids, Put(s, "M", 0))
       [] o.kind = "gensym" -> WriteAll(g, o.kids, Put(s, "G", 0))
       [] o.kind = "rtd" -> WriteAll(g, SubSeq(o.kids, 3, 3), Put(WriteAll(g, SubSeq(o.kids, 1, 2), Put(s, "R", 0)), "n", 1))
       [] o.kind = "code" -> WriteAll(g, o.kids, Put(s, "x", o.data))
       [] o.kind = "procedure" -> WriteAll(g, o.kids, Put(s, "Q", 0))

\* fasl-write-object
WriteObject(g, x, s) ==
  CASE x = Immediate -> Put(s, "N", 0)
    [] x # Immediate /\ s.h[x] = 0 -> DoWrite(g, x, s)
    [] x # Immediate /\ s.h[x] > 0 -> DoWrite(g, x, Put([s EXCEPT !.h[x] = -s.m, !.m = @ + 1], ">", s.m))
    [] x # Immediate /\ s.h[x] < 0 -> Put(s, "<", -s.h[x])

FaslWrite(g) == WriteObject(g, 1, [out |-> << >>, h |-> Counts(g), m |-> 1]).out

-----------------------------------------------------------------------------
(* Reading an object *)

\* in: the tokens left; heap: every object made; marks, and whether C has a table of them;
\* val: what was read last; err: why the process exits; ap, ep: code_ap and code_ep; mapped: where the pages
\* that the next code is mapped on start
ReaderInit ==
  [in |-> << >>, heap |-> << >>, marks |-> << >>, table |-> FALSE, val |-> Immediate, err |-> "none",
   ap |-> 0, ep |-> 0, mapped |-> CodePage]

SetMark(s, m, v) == IF m = 0 THEN s ELSE [s EXCEPT !.marks = [k \in DOMAIN @ \cup {m} |-> IF k = m THEN v ELSE @[k]]]
Made(s, o) == [s EXCEPT !.heap = Append(@, o), !.val = Len(s.heap) + 1]
Giving(s, v) == [s EXCEPT !.val = v]
Fail(s, e) == [s EXCEPT !.err = e]

\* the mark is set before what the object refers to is read
Begin(s, o, m) == LET r == Made(s, o) IN SetMark(r, m, r.val)

\* alloc_code, and ikrt_make_code for the Scheme reader
Regions(size) == (size + CodePage - 1) \div CodePage
Mapped(s, size) == [s EXCEPT !.val = s.mapped, !.mapped = @ + CodePage * Regions(size)]
AllocCode(s, size) ==
  CASE reader = "C" /\ s.ap + size <= s.ep -> [s EXCEPT !.val = s.ap, !.ap = @ + size]
    [] reader = "C" /\ s.ap + size > s.ep /\ size < CodePage /\ CodePage - size > s.ep - s.ap ->
         [Mapped(s, size) EXCEPT !.ap = s.mapped + size, !.ep = s.mapped + CodePage]
    [] OTHER -> Mapped(s, size)

\* ik_relocate_code: the words of the code are those its reloc vector names by now
Relocate(s, c) == [s EXCEPT !.heap[c].kids = @ \o s.heap[@[2]].kids]

Strings(s, text) == {i \in DOMAIN s.heap : s.heap[i].kind = "string" /\ s.heap[i].data = text}
\* the symbols, gensyms or rtds that have a name: kid k is a string of that text, or is
\* the very object
SymbolsOf(s, text) == {i \in DOMAIN s.heap : s.heap[i].kind = "symbol" /\ s.heap[i].kids[1] \in Strings(s, text)}
GensymsOf(s, text) == {i \in DOMAIN s.heap : s.heap[i].kind = "gensym" /\ s.heap[i].kids[2] \in Strings(s, text)}
RtdsOf(s, gensym) == {i \in DOMAIN s.heap : s.heap[i].kind = "rtd" /\ s.heap[i].kids[2] = gensym}
\* the one there is, or a new one
OneOf(s, there, o, m) == LET r == IF there # {} THEN Giving(s, Min(there)) ELSE Made(s, o) IN SetMark(r, m, r.val)

RECURSIVE ReadObject(_)
ReadInto(s, id, i) == LET r == ReadObject(s) IN [r EXCEPT !.heap[id].kids[i] = r.val]
ReadKids(s, id, places) == Giving(FoldLeft(LAMBDA r, i : ReadInto(r, id, i), s, places), id)
UpTo(n) == [i \in 1 .. n |-> i]

ReadPairs(s, n, m) ==
  LET first == Len(s.heap) + 1
      pairs == [i \in 0 .. n |-> Object("pair", <<Unset, IF i < n THEN first + i + 1 ELSE Unset>>, 0, 0)]
      made == [s EXCEPT !.heap = @ \o [i \in 1 .. n + 1 |-> pairs[i - 1]]]
      cars == FoldLeft(LAMBDA r, i : ReadInto(r, first + i - 1, 1), SetMark(made, m, first), UpTo(n + 1))
  IN Giving(ReadInto(cars, first + n, 2), first)

ReadVectorLate(s, n, m) ==    \* wrong: the vector is named by what it holds
  LET r == Made(s, Object("vector", [i \in 1 .. n |-> Unset], 0, 0))
  IN SetMark(ReadKids(r, r.val, UpTo(n)), m, r.val)
ReadVector(s, n, m) ==
  LET r == Begin(s, Object("vector", [i \in 1 .. n |-> Unset], 0, 0), m)
  IN ReadKids(r, r.val, UpTo(n))

ReadSymbol(s, m) ==
  LET r == ReadObject(s)
  IN IF r.err # "none" THEN r
     ELSE OneOf(r, SymbolsOf(r, r.heap[r.val].data), Object("symbol", <<r.val>>, 0, 0), m)
ReadGensym(s, m) ==
  LET pretty == ReadObject(s)
      r == ReadObject(pretty)
  IN IF r.err # "none" THEN r
     ELSE OneOf(r, GensymsOf(r, r.heap[r.val].data), Object("gensym", <<pretty.val, r.val>>, 0, 0), m)
\* the rtd that is the value of the gensym, if it has one
ReadRtd(s, m) ==
  LET name == ReadObject(s)
      symb == ReadObject(name)
      field == ReadObject([symb EXCEPT !.in = Tail(@)])   \* n, which is 1
  IN IF field.err # "none" THEN field
     ELSE OneOf(field, RtdsOf(field, symb.val), Object("rtd", <<name.val, symb.val, field.val>>, 0, 0), m)

\* the code of 'x': C reads the annotation before it makes the object and sets its mark,
\* Scheme after
ReadCode(s, size, codeMark, closureMark) ==
  LET annotation == ReadObject(s)
      inC == AllocCode(annotation, size)
      c == IF reader = "C" THEN Begin(inC, Object("code", <<annotation.val, Unset>>, size, inC.val), codeMark)
           ELSE LET r == AllocCode(s, size)
                    o == Begin(r, Object("code", <<Unset, Unset>>, size, r.val), codeMark)
                IN Giving(ReadInto(o, o.val, 1), o.val)
      closed == IF closureMark = 0 THEN c ELSE Giving(Begin(c, Object("procedure", <<c.val>>, 0, 0), closureMark), c.val)
      r == ReadInto(closed, c.val, 2)
  IN IF r.err # "none" THEN r ELSE Giving(Relocate(r, c.val), c.val)

\* 'Q' in C: the closure is made and marked first
ReadProcedureC(s, m) ==
  LET r == Begin(s, Object("procedure", <<Unset>>, 0, 0), m) IN ReadKids(r, r.val, <<1>>)
\* read-procedure, in Scheme: the closure is made once there is code to close
ReadProcedureScheme(s, m) ==
  LET t == Head(s.in)
      rest == [s EXCEPT !.in = Tail(@)]
      codeMark == IF t.tag = ">" THEN t.n ELSE 0
      code == IF t.tag = ">" THEN [rest EXCEPT !.in = Tail(@)] ELSE rest
      size == IF t.tag = ">" THEN Head(rest.in).n ELSE t.n
      r == ReadCode(code, size, codeMark, m)
  IN CASE t.tag = "<" -> Begin(rest, Object("procedure", <<s.marks[t.n]>>, 0, 0), m)
       [] t.tag # "<" /\ m # 0 /\ r.err = "none" -> Giving(r, r.marks[m])
       [] OTHER -> Made(r, Object("procedure", <<r.val>>, 0, 0))

ReadKind(s, t, m) ==
  CASE t.tag = "N" -> Giving(s, Immediate)
    [] t.tag = "P" -> ReadPairs(s, 0, m)
    [] t.tag = "l" -> ReadPairs(s, t.n, m)
    [] t.tag = "V" -> ReadVector(s, t.n, m)
    [] t.tag = "s" -> Begin(s, Object("string", << >>, t.n, 0), m)
    [] t.tag = "M" -> ReadSymbol(s, m)
    [] t.tag = "G" -> ReadGensym(s, m)
    [] t.tag = "R" -> ReadRtd(s, m)
    [] t.tag = "x" -> ReadCode(s, t.n, m, 0)
    [] t.tag = "Q" -> IF reader = "C" THEN ReadProcedureC(s, m) ELSE ReadProcedureScheme(s, m)

\* an object that gets a mark, which is not yet used; the first makes the table of C, and
\* only those that come later are looked for in it
ReadMarked(s, m, kind) ==
  CASE reader = "C" /\ s.table /\ m >= MarksSize -> Fail(s, "mark too big")
    [] m \in DOMAIN s.marks -> Fail(s, "mark already set")
    [] OTHER -> ReadKind([s EXCEPT !.table = TRUE], kind, m)
\* the object that has a mark
ReadMark(s, m) == IF m \in DOMAIN s.marks THEN Giving(s, s.marks[m]) ELSE Fail(s, "uninitialized mark")

\* do_read, read and read/mark
ReadObject(s) ==
  LET t == Head(s.in)
      rest == [s EXCEPT !.in = Tail(@)]
  IN CASE s.err # "none" -> s
       [] s.err = "none" /\ t.tag = ">" -> ReadMarked([rest EXCEPT !.in = Tail(@)], t.n, Head(rest.in))
       [] s.err = "none" /\ t.tag = "<" -> ReadMark(rest, t.n)
       [] OTHER -> ReadKind(rest, t, 0)

-----------------------------------------------------------------------------
(* Behaviour *)

FaslInit ==
  /\ \E shape \in Shapes : graph \in Graphs(shape)
  /\ reader \in {"C", "Scheme"}
  /\ tokens = << >> /\ loaded = ReaderInit /\ results = << >>

FaslWriteFile ==
  /\ tokens = << >>
  /\ tokens' = FaslWrite(graph)
  /\ UNCHANGED <<graph, reader, loaded, results>>

\* one round of ik_fasl_load, or a call of fasl-read: marks and the rest of the page of
\* code are forgotten, symbols and what was read stay
FaslRead ==
  /\ tokens # << >> /\ loaded.err = "none" /\ Len(results) < Readings
  /\ loaded' = ReadObject([loaded EXCEPT !.in = tokens, !.marks = << >>, !.table = FALSE, !.ap = 0, !.ep = 0])
  /\ results' = IF loaded'.err = "none" THEN Append(results, loaded'.val) ELSE results
  /\ UNCHANGED <<graph, tokens, reader>>

FaslNext == FaslWriteFile \/ FaslRead
FaslSpec == FaslInit /\ [][FaslNext]_avars

-----------------------------------------------------------------------------
(* Properties *)

\* the text of the names of symbols, gensyms and rtds
NameIn(g, x) ==
  CASE g[x].kind = "symbol" -> g[g[x].kids[1]].data
    [] g[x].kind = "gensym" -> g[g[x].kids[2]].data
    [] g[x].kind = "rtd" -> g[g[g[x].kids[2]].kids[2]].data

\* f maps the objects of the graph that x leads to to those v leads to, one to one;
\* symbols, gensyms and rtds by name.  The words of code are those of its reloc vector.
RECURSIVE Match(_, _, _)
Match(f, x, v) ==
  LET g == graph
      heap == loaded.heap
      more == [y \in DOMAIN f \cup {x} |-> IF y = x THEN v ELSE f[y]]
      kids == IF g[x].kind = "code" THEN g[x].kids \o g[g[x].kids[2]].kids ELSE g[x].kids
  IN CASE 0 \in DOMAIN f -> f
       [] x = Immediate /\ v = Immediate -> f
       [] x # Immediate /\ x \in DOMAIN f /\ f[x] = v -> f
       [] /\ x # Immediate /\ x \notin DOMAIN f /\ v \in DOMAIN heap /\ v \notin {f[y] : y \in DOMAIN f}
          /\ heap[v].kind = g[x].kind ->
            CASE g[x].kind \in {"symbol", "gensym", "rtd"} /\ NameIn(g, x) = NameIn(heap, v) -> more
              [] /\ g[x].kind \notin {"symbol", "gensym", "rtd"}
                 /\ heap[v].data = g[x].data /\ Len(heap[v].kids) = Len(kids) ->
                   FoldLeft(LAMBDA h, i : Match(h, kids[i], heap[v].kids[i]), more, UpTo(Len(kids)))
              [] OTHER -> [y \in {0} |-> 0]
       [] OTHER -> [y \in {0} |-> 0]
Same(v) == 0 \notin DOMAIN Match(<< >>, 1, v)

CodeObjects(heap) == {i \in DOMAIN heap : heap[i].kind = "code"}
CodeApart(heap) ==
  /\ \A c, d \in CodeObjects(heap) : c # d =>
       heap[c].at + heap[c].data <= heap[d].at \/ heap[d].at + heap[d].data <= heap[c].at
  /\ \A c \in CodeObjects(heap) : heap[c].data < CodePage =>
       heap[c].at \div CodePage = (heap[c].at + heap[c].data - 1) \div CodePage

\* What is read has the sharing and the cycles of what was written, also in the words of
\* its code, whichever reader reads it and however often; no name is given to two
\* symbols, gensyms or rtds; no two code objects overlap and none crosses from one page
\* to another without need.  The C reader gives up on a graph with more shared objects
\* than its table of marks has room for, and only then.
FaslReadBack ==
  /\ \A i \in DOMAIN results : Same(results[i])
  /\ \A i, j \in DOMAIN loaded.heap :
       i # j /\ loaded.heap[i].kind = loaded.heap[j].kind /\ loaded.heap[i].kind \in {"symbol", "gensym", "rtd"}
         => NameIn(loaded.heap, i) # NameIn(loaded.heap, j)
  /\ CodeApart(loaded.heap)
  /\ loaded.err # "none" =>
       /\ reader = "C" /\ loaded.err = "mark too big"
       /\ Cardinality({x \in DOMAIN graph : Counts(graph)[x] > 0}) >= MarksSize

=============================================================================
