-------------------------------- MODULE Code --------------------------------
(***************************************************************************)
(* Code objects in the collector (src/src/ikarus-collect.c, add_code_entry,*)
(* relocate_new_code and scan_dirty_code_page; ikarus-runtime.c,           *)
(* ikrt_make_code and the two setters).                                    *)
(*                                                                         *)
(* Code objects are packed on pages of code.  Each refers to its reloc     *)
(* vector, to its annotation and, at the places the vector names, to       *)
(* objects.  When a page of code is older than what is collected, its      *)
(* dirty word alone says whether its objects are followed.  The collector  *)
(* computes that word from whole segment words, not from their dirty       *)
(* nibble, so the model keeps segment words nibble by nibble: a nibble is  *)
(* the set of its bits, a word a function of the place of the nibble.      *)
(*                                                                         *)
(* A behaviour follows the code objects that share a page.  Which          *)
(* generation a collection takes is left open; Collector has the counter   *)
(* that decides it.                                                        *)
(***************************************************************************)
EXTENDS Integers, FiniteSets

CONSTANTS
  Codes,       \* code objects, natural numbers in the order of their places
  Starts       \* the cards that packed code objects may start in; what lies on the page
               \* before the first only adds bits to the dirty word

VARIABLES
  large,       \* the one code object of the page is larger than a page
  pageGen,     \* the generation in the segment word of the page
  pageDirty,   \* its dirty word: bits by card
  start,       \* the card each code object starts in
  vec,         \* the generation of its reloc vector
  obj,         \* the generation and the type of an object the vector names
  annotation,  \* the generation of the annotation, or None
  lost         \* what code refers to and a collection has not followed, and where that code starts

cvars == <<large, pageGen, pageDirty, start, vec, obj, annotation, lost>>

Generation == 0 .. 4
CodeCard == 0 .. 7     \* cards_per_page
ASSUME CodeAssumption == Starts \subseteq CodeCard
None == 9              \* the annotation is immediate: #f
NoObj == [gen |-> 9, type |-> "none"]   \* the vector is still empty
ObjectTypes == {"pointers", "data"}
Packings == {s \in [Codes -> Starts] : \A c, d \in Codes : c < d => s[c] < s[d]}

-----------------------------------------------------------------------------
(* Segment words *)

AllBitsOf == 0 .. 3
BitsIn(n) == {b \in AllBitsOf : (n \div 2^b) % 2 = 1}

\* the dirty nibble of next_gen_tag
MetaDirtyOf(g) == IF g \in 1 .. 3 THEN {3 - g} ELSE {}
\* the segment word of a page: the generation with the new bit, the dirty
\* nibble, the type, scannable and dealloc
SegmentWord(g, new, type) ==
  [n \in CodeCard |->
     CASE n = 0 -> BitsIn(g) \cup (IF new THEN {3} ELSE {})
       [] n = 1 -> MetaDirtyOf(g)
       [] n = 2 -> BitsIn(IF type = "pointers" THEN 3 ELSE 4)
       [] n = 3 -> IF type = "pointers" THEN {0} ELSE {}
       [] n = 4 -> {0}
       [] OTHER -> {}]

\* the nibble of card k of a word shifted by j cards; what leaves it is gone
NibbleAt(w, j, k) == IF k < j THEN {} ELSE w[k - j]

\* dirty_mask and cleanup_mask, the same for every card
DirtyBits(g) == IF g = 4 THEN {} ELSE 3 - g .. 3
CleanupBits(g) == 4 - g .. 3

\* what a collection of generation g makes of an object of generation h
NextGeneration(g) == IF g = 4 THEN 4 ELSE g + 1
MovedTo(h, g) == IF h <= g THEN NextGeneration(g) ELSE h
WordAfter(h, g, type) == SegmentWord(MovedTo(h, g), h <= g, type)

-----------------------------------------------------------------------------
(* The program *)

\* ikrt_make_code: at the start of a page of its own, of generation 0; the reloc
\* vector is the empty one, an old constant, and the annotation is #f
CodeInit ==
  /\ large \in {b \in BOOLEAN : b => Cardinality(Codes) = 1}
  /\ pageGen = 0
  /\ pageDirty = [k \in CodeCard |-> {}]
  /\ start = [c \in Codes |-> 0]
  /\ \E g \in {3, 4} : vec = [c \in Codes |-> g]
  /\ obj = [c \in Codes |-> NoObj]
  /\ annotation = [c \in Codes |-> None]
  /\ lost = {}

SetRelocUnrecorded(c) ==    \* wrong: the page is not marked
  /\ obj[c] = NoObj
  /\ \E g \in Generation, t \in ObjectTypes :
      /\ vec' = [vec EXCEPT ![c] = 0]
      /\ obj' = [obj EXCEPT ![c] = [gen |-> g, type |-> t]]
      /\ UNCHANGED <<large, pageGen, pageDirty, start, annotation, lost>>

\* ikrt_set_code_reloc_vector, with a vector that has just been made.  The
\* assembler and the fasl reader call either setter once for a code object.
SetReloc(c) ==
  /\ obj[c] = NoObj
  /\ \E g \in Generation, t \in ObjectTypes :
      /\ vec' = [vec EXCEPT ![c] = 0]
      /\ obj' = [obj EXCEPT ![c] = [gen |-> g, type |-> t]]
      /\ pageDirty' = [k \in CodeCard |-> AllBitsOf]
      /\ UNCHANGED <<large, pageGen, start, annotation, lost>>

\* ikrt_set_code_annotation, with an object that has just been made
Annotate(c) ==
  /\ annotation[c] = None
  /\ annotation' = [annotation EXCEPT ![c] = 0]
  /\ pageDirty' = [k \in CodeCard |-> AllBitsOf]
  /\ UNCHANGED <<large, pageGen, start, vec, obj, lost>>

-----------------------------------------------------------------------------
(* Collection of the generations up to g *)

\* relocate_new_code: vector, annotation and named objects are followed
RelocateCode(g) ==
  /\ vec' = [c \in Codes |-> MovedTo(vec[c], g)]
  /\ obj' = [c \in Codes |-> [obj[c] EXCEPT !.gen = MovedTo(@, g)]]
  /\ annotation' = [c \in Codes |-> IF annotation[c] = None THEN None ELSE MovedTo(annotation[c], g)]
  /\ UNCHANGED lost

\* add_code_entry: small code objects are copied and packed anew on pages just
\* mapped, whose dirty word is empty; the pages of a large one are retagged
MoveCode(g) ==
  /\ pageGen <= g
  /\ pageGen' = NextGeneration(g)
  /\ RelocateCode(g)
  /\ IF large THEN UNCHANGED <<start, pageDirty>>
     ELSE /\ start' \in Packings
          /\ pageDirty' = [k \in CodeCard |-> {}]
  /\ UNCHANGED large

Referenced(g) == \E k \in CodeCard : pageDirty[k] \cap DirtyBits(g) # {}

\* the nibble of card k that scan_dirty_code_page computes from the vector of c and the
\* object it names; the annotation is not part of it
CodeNibble(c, g, k) ==
  NibbleAt(WordAfter(vec[c], g, "pointers"), start[c], k)
    \cup (IF obj[c] = NoObj THEN {}
          ELSE NibbleAt(WordAfter(obj[c].gen, g, obj[c].type), start[c], k))

\* scan_dirty_code_page, on a page that scan_dirty_pages finds dirty
ScanCode(g) ==
  /\ pageGen > g
  /\ Referenced(g)
  /\ RelocateCode(g)
  /\ pageDirty' = [k \in CodeCard |-> (UNION {CodeNibble(c, g, k) : c \in Codes}) \cap CleanupBits(pageGen)]
  /\ UNCHANGED <<large, pageGen, start>>

\* scan_dirty_pages passes the page by: what it alone refers to is freed
PassCode(g) ==
  /\ pageGen > g
  /\ ~Referenced(g)
  /\ lost' = {<<"vector", start[c]>> : c \in {c \in Codes : vec[c] <= g}}
             \cup {<<"object", start[c]>> : c \in {c \in Codes : obj[c].gen <= g}}
             \cup {<<"annotation", start[c]>> : c \in {c \in Codes : annotation[c] <= g}}
  /\ UNCHANGED <<large, pageGen, pageDirty, start, vec, obj, annotation>>

\* nothing is said of a program that uses what was freed
CodeNext ==
  /\ lost = {}
  /\ \/ \E c \in Codes : SetReloc(c) \/ Annotate(c)
     \/ \E g \in Generation : MoveCode(g) \/ ScanCode(g) \/ PassCode(g)

CodeSpec == CodeInit /\ [][CodeNext]_cvars

-----------------------------------------------------------------------------
(* Properties *)

\* A collection that does not look at a page of code frees neither the reloc
\* vector of a code object on it nor an object in its code, whatever the
\* collection before left in the dirty word (scan_dirty_code_page), with two
\* exceptions: annotations, which have no part in the word, and code that starts in
\* the last card, whose dirty nibble the shift has thrown away.
CodeFollowed == \A l \in lost : l[1] = "annotation" \/ l[2] = 7

\* verify_code: a page of code that refers to a younger reloc vector is dirty
VerifyCode ==
  \A c \in Codes : vec[c] < pageGen => \E k \in CodeCard : pageDirty[k] # {}

=============================================================================
