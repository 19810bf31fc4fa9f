----------------------------- MODULE RuntimeProofs -----------------------------
(* Proofs about parts of the run time that share no state: pages of code,    *)
(* the hooks that run after a collection, libraries, and winders.            *)
EXTENDS Code, Hooks, Libraries, Winders, SequenceFacts, SequenceTheorems, TLAPS

--------------------------------------------------------------------------------
(* Proof that a collection which passes a page of code by frees nothing that *)
(* code on it needs, but annotations and what code in the last card needs.   *)
(*                                                                           *)
(* The dirty word of a page need not have the bit of each younger object at  *)
(* the card of the code that refers to it: scan_dirty_code_page shifts whole *)
(* segment words.  What holds is that for every younger object of every code *)
(* object some card has a bit at least as high as that object's (Recorded);  *)
(* the shift can lose it for the last card alone.                            *)

AnyGen == Generation \cup {None}

CodeType ==
  /\ large \in BOOLEAN
  /\ pageGen \in Generation
  /\ pageDirty \in [CodeCard -> SUBSET AllBitsOf]
  /\ start \in [Codes -> CodeCard]
  /\ vec \in [Codes -> Generation]
  /\ obj \in [Codes -> [gen : AnyGen, type : ObjectTypes \cup {"none"}]]
  /\ \A c \in Codes : obj[c].gen # None => obj[c].type \in ObjectTypes
  /\ annotation \in [Codes -> AnyGen]

\* a collection of generation h or older finds the page dirty
RecordedIn(dirty, h) == \E k \in CodeCard : \E b \in dirty[k] : b >= 3 - h
\* what is younger than the page is recorded, but for code in the last card
Recorded(dirty, page, from, h) == h < page /\ from # 7 => RecordedIn(dirty, h)

RecordedInv ==
  \A c \in Codes : /\ Recorded(pageDirty, pageGen, start[c], vec[c])
                   /\ Recorded(pageDirty, pageGen, start[c], obj[c].gen)

CodeInv == CodeType /\ RecordedInv /\ CodeFollowed

-----------------------------------------------------------------------------
(* Generations and bits *)

\* an object that a collection moves is of the next generation, or older
LEMMA MovedFacts ==
  ASSUME NEW g \in Generation, NEW h \in AnyGen
  PROVE  /\ MovedTo(h, g) \in AnyGen
         /\ h \in Generation => MovedTo(h, g) \in Generation
         /\ h = None <=> MovedTo(h, g) = None
         /\ MovedTo(h, g) >= NextGeneration(g)
         /\ MovedTo(h, g) # 0
         /\ NextGeneration(g) \in Generation
  BY DEF Generation, AnyGen, None, MovedTo, NextGeneration

\* a page where every bit is set records everything
LEMMA AllRecorded ==
  ASSUME NEW dirty, dirty = [k \in CodeCard |-> AllBitsOf], NEW h \in AnyGen
  PROVE  RecordedIn(dirty, h)
  <1>1. 0 \in CodeCard /\ 3 \in dirty[0]
    BY DEF CodeCard, AllBitsOf
  <1>2. 3 >= 3 - h
    BY DEF AnyGen, Generation, None
  <1>3. QED BY <1>1, <1>2 DEF RecordedIn

\* the dirty nibble of the segment word of a page that is younger than another
LEMMA MetaDirtyFacts ==
  ASSUME NEW h \in AnyGen, NEW g \in Generation, NEW page \in Generation, NEW t \in ObjectTypes,
         NEW w, w = MovedTo(h, g), w < page
  PROVE  3 - w \in WordAfter(h, g, t)[1] \cap CleanupBits(page)
  <1>1. w \in 1 .. 3 /\ w \in Generation
    BY MovedFacts DEF AnyGen, Generation, None
  <1>2. 1 \in CodeCard
    BY DEF CodeCard
  <1>3. WordAfter(h, g, t) = SegmentWord(w, h <= g, t)
    BY DEF WordAfter
  <1>4. \A new : SegmentWord(w, new, t)[1] = MetaDirtyOf(w)
    BY <1>2 DEF SegmentWord
  <1>5. WordAfter(h, g, t)[1] = MetaDirtyOf(w)
    BY <1>3, <1>4
  <1>6. 3 - w \in MetaDirtyOf(w)
    BY <1>1 DEF MetaDirtyOf
  <1>7. 3 - w \in CleanupBits(page)
    BY <1>1 DEF CleanupBits, Generation
  <1>8. QED BY <1>5, <1>6, <1>7

\* the shift puts the dirty nibble at the card after the one that the code starts in
LEMMA ShiftedNibble ==
  ASSUME NEW s \in CodeCard, s # 7, NEW word
  PROVE  s + 1 \in CodeCard /\ NibbleAt(word, s, s + 1) = word[1]
  <1>1. s + 1 \in CodeCard /\ s \in Int /\ s + 1 - s = 1
    BY DEF CodeCard
  <1>2. ASSUME NEW k \in Int, k = s + 1 PROVE NibbleAt(word, s, k) = word[k - s]
    BY <1>1, <1>2 DEF NibbleAt
  <1>3. s + 1 \in Int
    BY <1>1
  <1>4. NibbleAt(word, s, s + 1) = word[(s + 1) - s]
    BY <1>2, <1>3
  <1>5. QED BY <1>1, <1>4

-----------------------------------------------------------------------------
(* Steps *)

\* what scan_dirty_code_page finds at card k
FoundAt(g, k) == UNION {CodeNibble(c, g, k) : c \in Codes}

\* the invariant holds before the first code object is made
LEMMA CodeInitSound == CodeInit => CodeInv
  <1> SUFFICES ASSUME CodeInit PROVE CodeInv
    OBVIOUS
  <1>1. CodeType
    BY DEF CodeInit, CodeType, Generation, CodeCard, AllBitsOf, AnyGen, None, NoObj
  <1>2. pageGen = 0 /\ (\A c \in Codes : ~(vec[c] < pageGen)) /\ \A c \in Codes : ~(obj[c].gen < pageGen)
    BY DEF CodeInit, NoObj
  <1>3. RecordedInv
    BY <1>2 DEF RecordedInv, Recorded
  <1>4. CodeFollowed
    BY DEF CodeInit, CodeFollowed
  <1>5. QED BY <1>1, <1>3, <1>4 DEF CodeInv

\* a setter marks every card
LEMMA SetterSound ==
  ASSUME CodeInv, NEW c \in Codes, SetReloc(c) \/ Annotate(c)
  PROVE  CodeInv'
  <1>1. /\ pageDirty' = [k \in CodeCard |-> AllBitsOf]
        /\ large' = large /\ pageGen' = pageGen /\ start' = start /\ lost' = lost
    BY DEF SetReloc, Annotate
  <1>2. CodeType'
    <2>1. CASE SetReloc(c)
      <3>1. PICK g \in Generation, t \in ObjectTypes :
              /\ vec' = [vec EXCEPT ![c] = 0]
              /\ obj' = [obj EXCEPT ![c] = [gen |-> g, type |-> t]]
        BY <2>1 DEF SetReloc
      <3>2. annotation' = annotation
        BY <2>1 DEF SetReloc
      <3>3. vec' \in [Codes -> Generation]
        BY <3>1 DEF CodeInv, CodeType, Generation
      <3>4. obj' \in [Codes -> [gen : AnyGen, type : ObjectTypes \cup {"none"}]]
        BY <3>1 DEF CodeInv, CodeType, AnyGen
      <3>5. \A d \in Codes : obj'[d].gen # None => obj'[d].type \in ObjectTypes
        BY <3>1 DEF CodeInv, CodeType
      <3>6. pageDirty' \in [CodeCard -> SUBSET AllBitsOf]
        BY <1>1
      <3>7. QED BY <1>1, <3>2, <3>3, <3>4, <3>5, <3>6 DEF CodeInv, CodeType
    <2>2. CASE Annotate(c)
      <3>1. annotation' = [annotation EXCEPT ![c] = 0] /\ vec' = vec /\ obj' = obj
        BY <2>2 DEF Annotate
      <3>2. annotation' \in [Codes -> AnyGen]
        BY <3>1 DEF CodeInv, CodeType, AnyGen, Generation
      <3>3. pageDirty' \in [CodeCard -> SUBSET AllBitsOf]
        BY <1>1
      <3>4. QED BY <1>1, <3>1, <3>2, <3>3 DEF CodeInv, CodeType
    <2>3. QED BY <2>1, <2>2
  <1>3. RecordedInv'
    <2>1. ASSUME NEW d \in Codes PROVE vec'[d] \in AnyGen /\ obj'[d].gen \in AnyGen
      BY <1>2 DEF CodeType, AnyGen
    <2>2. QED BY <1>1, <2>1, AllRecorded DEF RecordedInv, Recorded
  <1>4. CodeFollowed'
    BY <1>1 DEF CodeInv, CodeFollowed
  <1>5. QED BY <1>2, <1>3, <1>4 DEF CodeInv

\* what relocate_new_code makes of the generations
LEMMA RelocateSound ==
  ASSUME CodeInv, NEW g \in Generation, RelocateCode(g)
  PROVE  /\ vec' \in [Codes -> Generation]
         /\ obj' \in [Codes -> [gen : AnyGen, type : ObjectTypes \cup {"none"}]]
         /\ \A c \in Codes : /\ vec'[c] = MovedTo(vec[c], g)
                             /\ obj'[c].gen = MovedTo(obj[c].gen, g)
                             /\ obj'[c].type = obj[c].type
                             /\ obj'[c].gen # None => obj'[c].type \in ObjectTypes
         /\ annotation' \in [Codes -> AnyGen]
         /\ lost' = lost
  <1>1. ASSUME NEW c \in Codes
        PROVE  /\ vec[c] \in Generation /\ vec[c] \in AnyGen
               /\ obj[c] \in [gen : AnyGen, type : ObjectTypes \cup {"none"}]
               /\ obj[c].gen \in AnyGen /\ annotation[c] \in AnyGen
               /\ obj[c].gen # None => obj[c].type \in ObjectTypes
    BY DEF CodeInv, CodeType, AnyGen
  <1>2. ASSUME NEW c \in Codes
        PROVE  /\ MovedTo(vec[c], g) \in Generation
               /\ MovedTo(obj[c].gen, g) \in AnyGen
               /\ obj[c].gen = None <=> MovedTo(obj[c].gen, g) = None
               /\ MovedTo(annotation[c], g) \in AnyGen
    BY <1>1, MovedFacts
  <1>3. /\ vec' = [c \in Codes |-> MovedTo(vec[c], g)]
        /\ obj' = [c \in Codes |-> [obj[c] EXCEPT !.gen = MovedTo(obj[c].gen, g)]]
        /\ annotation' = [c \in Codes |-> IF annotation[c] = None THEN None
                                          ELSE MovedTo(annotation[c], g)]
        /\ lost' = lost
    BY DEF RelocateCode
  <1>4. vec' \in [Codes -> Generation]
    BY <1>2, <1>3
  <1>5. ASSUME NEW c \in Codes
        PROVE  /\ obj'[c] \in [gen : AnyGen, type : ObjectTypes \cup {"none"}]
               /\ obj'[c].gen = MovedTo(obj[c].gen, g) /\ obj'[c].type = obj[c].type
    <2>1. obj'[c] = [obj[c] EXCEPT !.gen = MovedTo(obj[c].gen, g)]
      BY <1>3
    <2>2. QED BY <1>1, <1>2, <2>1
  <1>6. obj' \in [Codes -> [gen : AnyGen, type : ObjectTypes \cup {"none"}]]
    BY <1>3, <1>5
  <1>7. annotation' \in [Codes -> AnyGen]
    BY <1>2, <1>3 DEF AnyGen
  <1>8. QED BY <1>1, <1>2, <1>3, <1>4, <1>5, <1>6, <1>7

\* code that is copied refers to nothing that is younger
LEMMA MoveCodeSound ==
  ASSUME CodeInv, NEW g \in Generation, MoveCode(g)
  PROVE  CodeInv'
  <1>1. RelocateCode(g) /\ pageGen' = NextGeneration(g) /\ large' = large
    BY DEF MoveCode
  <1>2. start' \in [Codes -> CodeCard] /\ pageDirty' \in [CodeCard -> SUBSET AllBitsOf]
    <2>1. CASE large
      BY <2>1 DEF MoveCode, CodeInv, CodeType
    <2>2. CASE ~large
      <3>1. start' \in Packings /\ pageDirty' = [k \in CodeCard |-> {}]
        BY <2>2 DEF MoveCode
      <3>2. QED BY <3>1, CodeAssumption DEF Packings
    <2>3. QED BY <2>1, <2>2
  <1>3. ASSUME NEW c \in Codes
        PROVE  ~(vec'[c] < pageGen') /\ ~(obj'[c].gen < pageGen')
    <2>1. vec'[c] = MovedTo(vec[c], g) /\ obj'[c].gen = MovedTo(obj[c].gen, g)
      BY <1>1, RelocateSound
    <2>2. vec[c] \in AnyGen /\ obj[c].gen \in AnyGen
      BY DEF CodeInv, CodeType, AnyGen
    <2>3. MovedTo(vec[c], g) >= NextGeneration(g) /\ MovedTo(obj[c].gen, g) >= NextGeneration(g)
          /\ MovedTo(vec[c], g) \in Int /\ MovedTo(obj[c].gen, g) \in Int /\ NextGeneration(g) \in Int
      BY <2>2, MovedFacts DEF AnyGen, Generation, None
    <2>4. QED BY <1>1, <2>1, <2>3
  <1>4. RecordedInv'
    BY <1>3 DEF RecordedInv, Recorded
  <1>5. CodeType'
    <2>1. pageGen' \in Generation
      BY <1>1 DEF NextGeneration, Generation
    <2>2. QED BY <1>1, <1>2, <2>1, RelocateSound DEF CodeInv, CodeType
  <1>6. CodeFollowed'
    BY <1>1, RelocateSound DEF CodeInv, CodeFollowed
  <1>7. QED BY <1>4, <1>5, <1>6 DEF CodeInv

\* the word that scan_dirty_code_page leaves records what is still younger
LEMMA ScanCodeSound ==
  ASSUME CodeInv, NEW g \in Generation, ScanCode(g)
  PROVE  CodeInv'
  <1>1. /\ RelocateCode(g) /\ pageGen' = pageGen /\ large' = large /\ start' = start
        /\ pageDirty' = [k \in CodeCard |->
                           FoundAt(g, k) \cap CleanupBits(pageGen)]
    BY DEF ScanCode, FoundAt
  <1>2. pageGen \in Generation
    BY DEF CodeInv, CodeType
  <1>3. pageDirty' \in [CodeCard -> SUBSET AllBitsOf]
    <2>1. CleanupBits(pageGen) \subseteq AllBitsOf
      BY <1>2 DEF CleanupBits, AllBitsOf, Generation
    <2>2. pageDirty' = [k \in CodeCard |-> FoundAt(g, k) \cap CleanupBits(pageGen)]
      BY <1>1
    <2>3. QED BY <2>1, <2>2
  <1>4. ASSUME NEW c \in Codes
        PROVE  /\ vec'[c] = MovedTo(vec[c], g) /\ obj'[c].gen = MovedTo(obj[c].gen, g)
               /\ start'[c] = start[c] /\ start[c] \in CodeCard
               /\ vec[c] \in AnyGen /\ obj[c].gen \in AnyGen
               /\ obj[c].gen # None => obj[c].type \in ObjectTypes
    BY <1>1, RelocateSound DEF CodeInv, CodeType, AnyGen
  <1>5. ASSUME NEW c \in Codes, start[c] # 7, NEW h \in AnyGen, NEW t \in ObjectTypes,
               NEW w, w = MovedTo(h, g), w < pageGen,
               NibbleAt(WordAfter(h, g, t), start[c], start[c] + 1)
                 \subseteq CodeNibble(c, g, start[c] + 1)
        PROVE  RecordedIn(pageDirty', w)
    <2>1. 3 - w \in WordAfter(h, g, t)[1] \cap CleanupBits(pageGen)
      BY <1>2, <1>5, MetaDirtyFacts
    <2>2. start[c] + 1 \in CodeCard
          /\ NibbleAt(WordAfter(h, g, t), start[c], start[c] + 1) = WordAfter(h, g, t)[1]
      BY <1>4, <1>5, ShiftedNibble
    <2>3. 3 - w \in CodeNibble(c, g, start[c] + 1)
      BY <1>5, <2>1, <2>2
    <2>4. 3 - w \in pageDirty'[start[c] + 1]
      <3>1. 3 - w \in FoundAt(g, start[c] + 1)
        BY <2>3, Zenon DEF FoundAt
      <3>2. QED BY <1>1, <2>1, <2>2, <3>1
    <2>5. 3 - w >= 3 - w
      BY <1>5, MovedFacts DEF AnyGen, Generation, None
    <2>6. QED BY <2>2, <2>4, <2>5 DEF RecordedIn
  <1>6. RecordedInv'
    <2> SUFFICES ASSUME NEW c \in Codes
                 PROVE  /\ Recorded(pageDirty', pageGen', start'[c], vec'[c])
                        /\ Recorded(pageDirty', pageGen', start'[c], obj'[c].gen)
      BY DEF RecordedInv
    <2>1. ASSUME vec'[c] < pageGen, start[c] # 7 PROVE RecordedIn(pageDirty', vec'[c])
      <3>1. NibbleAt(WordAfter(vec[c], g, "pointers"), start[c], start[c] + 1)
              \subseteq CodeNibble(c, g, start[c] + 1)
        BY DEF CodeNibble
      <3>2. "pointers" \in ObjectTypes
        BY DEF ObjectTypes
      <3>3. QED BY <1>4, <1>5, <2>1, <3>1, <3>2
    <2>2. ASSUME obj'[c].gen < pageGen, start[c] # 7 PROVE RecordedIn(pageDirty', obj'[c].gen)
      <3>1. obj'[c].gen # None
        BY <1>2, <2>2 DEF Generation, None
      <3>2. obj[c].gen # None
        BY <1>4, <3>1, MovedFacts
      <3>3. obj[c] # NoObj /\ obj[c].type \in ObjectTypes
        BY <1>4, <3>2 DEF NoObj, None
      <3>4. NibbleAt(WordAfter(obj[c].gen, g, obj[c].type), start[c], start[c] + 1)
              \subseteq CodeNibble(c, g, start[c] + 1)
        BY <3>3 DEF CodeNibble
      <3>5. QED BY <1>4, <1>5, <2>2, <3>3, <3>4
    <2>3. QED BY <1>1, <1>4, <2>1, <2>2 DEF Recorded
  <1>7. CodeType'
    BY <1>1, <1>3, RelocateSound DEF CodeInv, CodeType
  <1>8. CodeFollowed'
    BY <1>1, RelocateSound DEF CodeInv, CodeFollowed
  <1>9. QED BY <1>6, <1>7, <1>8 DEF CodeInv

\* what a page that is passed by refers to is recorded, so there is none of it
LEMMA PassCodeSound ==
  ASSUME CodeInv, NEW g \in Generation, PassCode(g)
  PROVE  CodeInv'
  <1>1. /\ pageGen > g /\ ~Referenced(g)
        /\ lost' = {<<"vector", start[c]>> : c \in {c \in Codes : vec[c] <= g}}
                   \cup {<<"object", start[c]>> : c \in {c \in Codes : obj[c].gen <= g}}
                   \cup {<<"annotation", start[c]>> : c \in {c \in Codes : annotation[c] <= g}}
        /\ UNCHANGED <<large, pageGen, pageDirty, start, vec, obj, annotation>>
    BY DEF PassCode
  <1>2. pageGen \in Generation /\ pageDirty \in [CodeCard -> SUBSET AllBitsOf]
    BY DEF CodeInv, CodeType
  <1>3. ASSUME NEW h \in AnyGen, h <= g PROVE ~RecordedIn(pageDirty, h)
    <2> SUFFICES ASSUME NEW k \in CodeCard, NEW b \in pageDirty[k], b >= 3 - h PROVE FALSE
      BY DEF RecordedIn
    <2>1. b \in 0 .. 3
      BY <1>2 DEF AllBitsOf
    <2>2. g # 4
      BY <1>1, <1>2 DEF Generation
    <2>3. b \in DirtyBits(g)
      BY <1>3, <2>1, <2>2 DEF DirtyBits, Generation, AnyGen, None
    <2>4. QED BY <1>1, <2>3 DEF Referenced
  <1>4. ASSUME NEW c \in Codes, vec[c] <= g \/ obj[c].gen <= g PROVE start[c] = 7
    <2>1. vec[c] \in AnyGen /\ obj[c].gen \in AnyGen
      BY DEF CodeInv, CodeType, AnyGen
    <2>2. Recorded(pageDirty, pageGen, start[c], vec[c])
          /\ Recorded(pageDirty, pageGen, start[c], obj[c].gen)
      BY DEF CodeInv, RecordedInv
    <2>3. (vec[c] <= g => vec[c] < pageGen) /\ (obj[c].gen <= g => obj[c].gen < pageGen)
      BY <1>1, <1>2, <2>1 DEF AnyGen, Generation, None
    <2>4. QED BY <1>3, <1>4, <2>1, <2>2, <2>3 DEF Recorded
  <1>5. CodeFollowed'
    <2> SUFFICES ASSUME NEW l \in lost' PROVE l[1] = "annotation" \/ l[2] = 7
      BY DEF CodeFollowed
    <2>1. PICK c \in Codes : \/ l = <<"vector", start[c]>> /\ vec[c] <= g
                             \/ l = <<"object", start[c]>> /\ obj[c].gen <= g
                             \/ l = <<"annotation", start[c]>>
      BY <1>1
    <2>2. QED BY <1>4, <2>1
  <1>6. QED BY <1>1, <1>5 DEF CodeInv, CodeType, RecordedInv

-----------------------------------------------------------------------------
(* The theorem *)

\* A collection that passes a page of code by frees neither the reloc vector
\* of a code object on it nor an object in its code, unless the code starts in
\* the last card of the page.
THEOREM CodeIsFollowed == CodeSpec => []CodeFollowed
  <1>1. CodeInit => CodeInv
    BY CodeInitSound
  <1>2. CodeInv /\ [CodeNext]_cvars => CodeInv'
    <2> SUFFICES ASSUME CodeInv, [CodeNext]_cvars PROVE CodeInv'
      OBVIOUS
    <2>1. CASE \E c \in Codes : SetReloc(c) \/ Annotate(c)
      BY <2>1, SetterSound
    <2>2. CASE \E g \in Generation : MoveCode(g)
      BY <2>2, MoveCodeSound
    <2>3. CASE \E g \in Generation : ScanCode(g)
      BY <2>3, ScanCodeSound
    <2>4. CASE \E g \in Generation : PassCode(g)
      BY <2>4, PassCodeSound
    <2>5. CASE UNCHANGED cvars
      BY <2>5 DEF cvars, CodeInv, CodeType, RecordedInv, CodeFollowed
    <2>6. QED BY <2>1, <2>2, <2>3, <2>4, <2>5 DEF CodeNext
  <1>3. CodeInv => CodeFollowed
    BY DEF CodeInv
  <1>4. QED BY <1>1, <1>2, <1>3, PTL DEF CodeSpec

--------------------------------------------------------------------------------
(* Proof that do-overflow leaves the room it was called for, and that the    *)
(* hooks have then seen the last collection.                                 *)
(*                                                                           *)
(* The room is only looked at when a call returns.  A call without hooks     *)
(* returns right after its collection (ReturnInv).  One with hooks returns   *)
(* when the key it noted is the key there is: a key is numbered by the       *)
(* collections before it was made, so a collection since the hooks began     *)
(* leaves none, or one with a greater number (KeyInv).                       *)

HookPlace == {"collect", "return", "key", "hooks", "key after"}
OverflowCall == [n : Nat, at : HookPlace, key : Int, round : Nat]

HooksType ==
  /\ room \in Int /\ collectKey \in Int /\ collections \in Nat
  /\ calls \in Seq(OverflowCall)

\* only the innermost call is about to return, with the room of its collection
ReturnInv ==
  \A i \in DOMAIN calls : calls[i].at = "return" => i = Len(calls) /\ room >= calls[i].n

\* the number of the key there is, and of the key each call has noted
KeyInv ==
  /\ collectKey <= collections
  /\ \A i \in DOMAIN calls : calls[i].at \in {"hooks", "key after"} =>
       /\ calls[i].key <= calls[i].round /\ calls[i].round <= collections
       /\ collectKey # NoKey /\ calls[i].round # collections => collectKey > calls[i].round

HooksInv == HooksType /\ ReturnInv /\ KeyInv /\ RoomKept

-----------------------------------------------------------------------------

\* the assumption, as it is used
LEMMA HooksConstants ==
  /\ HeapRoom \in Nat /\ Small \in Nat /\ KeySize \in Nat /\ Sizes \subseteq Nat
  /\ Small < HeapRoom /\ KeySize <= Small
  BY HooksAssumption DEF HooksAssumption

\* what is at the top and below it
LEMMA TopAndOuter ==
  ASSUME HooksType, calls # << >>
  PROVE  /\ Len(calls) \in DOMAIN calls /\ Call \in OverflowCall
         /\ Outer \in Seq(OverflowCall) /\ Len(Outer) = Len(calls) - 1
         /\ \A i \in DOMAIN Outer : i \in DOMAIN calls /\ i < Len(calls) /\ Outer[i] = calls[i]
  <1> DEFINE n == Len(calls)
  <1>1. calls \in Seq(OverflowCall) /\ n \in Nat /\ n > 0
    BY DEF HooksType
  <1>2. n \in DOMAIN calls /\ calls[n] \in OverflowCall
    BY <1>1
  <1>3. \A i \in 1 .. n - 1 : calls[i] \in OverflowCall
    BY <1>1
  <1>4. /\ Outer \in Seq(OverflowCall) /\ Len(Outer) = n - 1
        /\ \A i \in 1 .. n - 1 : Outer[i] = calls[i]
    <2> DEFINE m == n - 1
    <2>1. m \in Int /\ m >= 0 /\ m - 1 + 1 = m /\ \A i \in 1 .. m : 1 + i - 1 = i
      BY <1>1
    <2>2. /\ SubSeq(calls, 1, m) \in Seq(OverflowCall)
          /\ Len(SubSeq(calls, 1, m)) = IF 1 <= m THEN m - 1 + 1 ELSE 0
          /\ \A i \in 1 .. m - 1 + 1 : SubSeq(calls, 1, m)[i] = calls[1 + i - 1]
      BY <1>3, <2>1, SubSeqProperties
    <2>3. Outer = SubSeq(calls, 1, m)
      BY DEF Outer
    <2>4. QED BY <2>1, <2>2, <2>3 DEF Outer
  <1>5. \A i \in DOMAIN Outer : i \in DOMAIN calls /\ i < n /\ Outer[i] = calls[i]
    BY <1>1, <1>4
  <1>6. QED BY <1>2, <1>4, <1>5 DEF Call

\* the first states
LEMMA HooksInitInv == HooksInit => HooksInv
  <1> SUFFICES ASSUME HooksInit PROVE HooksInv
    OBVIOUS
  <1>1. HooksType
    BY HooksConstants DEF HooksInit, HooksType, NoKey
  <1>2. ReturnInv
    BY DEF HooksInit, ReturnInv
  <1>3. KeyInv
    BY DEF HooksInit, KeyInv, NoKey
  <1>4. RoomKept
    BY HooksConstants DEF HooksInit, RoomKept
  <1>5. QED BY <1>1, <1>2, <1>3, <1>4 DEF HooksInv

\* a call begins: what is below it is not about to return
LEMMA OverflowInv ==
  ASSUME HooksInv, NEW n \in Nat, Overflow(n),
         \A i \in DOMAIN calls : calls[i].at # "return",
         UNCHANGED <<room, collectKey, collections, misled, missed>>
  PROVE  HooksInv'
  <1> DEFINE c == [n |-> n, at |-> "collect", key |-> NoKey, round |-> 0]
  <1>1. c \in OverflowCall /\ c.at = "collect"
    BY DEF OverflowCall, HookPlace, NoKey
  <1>2. calls \in Seq(OverflowCall) /\ calls' = Append(calls, c)
    BY DEF Overflow, HooksInv, HooksType
  <1> HIDE DEF c
  <1>3. /\ calls' \in Seq(OverflowCall) /\ Len(calls') = Len(calls) + 1
        /\ \A i \in DOMAIN calls' : calls'[i] = IF i = Len(calls') THEN c ELSE calls[i]
        /\ \A i \in DOMAIN calls' : i # Len(calls') => i \in DOMAIN calls
    BY <1>1, <1>2, AppendProperties
  <1>4. HooksType'
    BY <1>3 DEF HooksInv, HooksType
  <1>5. ReturnInv'
    BY <1>1, <1>3 DEF ReturnInv
  <1>6. KeyInv'
    BY <1>1, <1>3 DEF HooksInv, KeyInv
  <1>7. RoomKept'
    BY DEF HooksInv, RoomKept
  <1>8. QED BY <1>4, <1>5, <1>6, <1>7 DEF HooksInv

\* the innermost call goes on as c
LEMMA GoesOn ==
  ASSUME HooksInv, calls # << >>, NEW c \in OverflowCall, calls' = Append(Outer, c)
  PROVE  /\ calls' \in Seq(OverflowCall)
         /\ \A i \in DOMAIN calls' : calls'[i] = IF i = Len(calls') THEN c ELSE calls[i]
         /\ \A i \in DOMAIN calls' : i # Len(calls') => i \in DOMAIN calls /\ calls[i].at # "return"
  <1>1. /\ Outer \in Seq(OverflowCall) /\ Len(Outer) = Len(calls) - 1
        /\ \A i \in DOMAIN Outer : i \in DOMAIN calls /\ i < Len(calls) /\ Outer[i] = calls[i]
    BY TopAndOuter DEF HooksInv
  <1>2. /\ calls' \in Seq(OverflowCall) /\ Len(calls') = Len(Outer) + 1
        /\ \A i \in DOMAIN calls' : i # Len(calls') => i \in DOMAIN Outer /\ calls'[i] = Outer[i]
        /\ calls'[Len(calls')] = c
    BY <1>1, AppendProperties
  <1>3. QED BY <1>1, <1>2 DEF HooksInv, ReturnInv

\* it keeps the invariant if it keeps what it says of keys and room
LEMMA GoOnInv ==
  ASSUME HooksInv, calls # << >>, NEW c \in OverflowCall, calls' = Append(Outer, c),
         room' \in Int, collectKey' \in Int, collections' \in Nat, RoomKept', KeyInv',
         c.at = "return" => room' >= c.n
  PROVE  HooksInv'
  <1>1. HooksType'
    BY GoesOn DEF HooksType
  <1>2. ReturnInv'
    BY GoesOn DEF ReturnInv
  <1>3. QED BY <1>1, <1>2 DEF HooksInv

\* the innermost call returns
LEMMA ReturnsInv ==
  ASSUME HooksInv, calls # << >>, OverflowReturns, UNCHANGED <<collectKey, collections>>, RoomKept'
  PROVE  HooksInv'
  <1>1. /\ Call.n \in Nat /\ room' = room - Call.n /\ calls' \in Seq(OverflowCall)
        /\ \A i \in DOMAIN calls' : i \in DOMAIN calls /\ i < Len(calls) /\ calls'[i] = calls[i]
    BY TopAndOuter DEF HooksInv, OverflowReturns, OverflowCall
  <1>2. HooksType'
    BY <1>1 DEF HooksInv, HooksType
  <1>3. ReturnInv'
    BY <1>1 DEF HooksInv, ReturnInv
  <1>4. KeyInv'
    BY <1>1 DEF HooksInv, KeyInv
  <1>5. QED BY <1>2, <1>3, <1>4 DEF HooksInv

\* a collection keeps the keys in order: there is none, and the next will be greater
LEMMA CollectedInv ==
  ASSUME HooksInv, calls # << >>, NEW c \in OverflowCall, calls' = Append(Outer, c),
         Collected(c.n), c.at \in {"return", "key"}, UNCHANGED <<misled, missed>>
  PROVE  HooksInv'
  <1>1. c.n \in Nat
    BY DEF OverflowCall
  <1>2. room' \in Int /\ room' >= c.n /\ room' >= 0
    BY <1>1, HooksConstants DEF Collected, NewRoom
  <1>3. collections' = collections + 1 /\ collectKey' = NoKey
    BY DEF Collected
  <1>4. collectKey' \in Int /\ collections' \in Nat
    BY <1>3 DEF HooksInv, HooksType, NoKey
  <1>5. RoomKept'
    <2>1. ~missed'
      BY DEF HooksInv, RoomKept
    <2>2. room' >= -Small
      BY <1>2, HooksConstants
    <2>3. QED BY <2>1, <2>2 DEF RoomKept
  <1>6. KeyInv'
    <2>1. \A i \in DOMAIN calls' : calls'[i].at \in {"hooks", "key after"} =>
            i \in DOMAIN calls /\ calls'[i] = calls[i]
      BY GoesOn
    <2>2. \A i \in DOMAIN calls : calls[i] \in OverflowCall
      BY DEF HooksInv, HooksType
    <2>3. \A i \in DOMAIN calls : calls[i].at \in {"hooks", "key after"} =>
            calls[i].key <= calls[i].round /\ calls[i].round <= collections /\ calls[i].round \in Nat
      BY <2>2 DEF HooksInv, KeyInv, OverflowCall
    <2>4. collectKey' <= collections' /\ \A r \in Nat : r <= collections => r <= collections'
      BY <1>3 DEF HooksInv, HooksType, NoKey
    <2>5. QED BY <1>3, <2>1, <2>3, <2>4 DEF KeyInv
  <1>7. QED BY <1>2, <1>4, <1>5, <1>6, GoOnInv

\* nothing but the place of the innermost call, and what it notes, changes
LEMMA PlaceInv ==
  ASSUME HooksInv, calls # << >>, NEW c \in OverflowCall, calls' = Append(Outer, c),
         c.at # "return", UNCHANGED <<room, collectKey, collections, misled, missed>>,
         c.at \in {"hooks", "key after"} =>
           /\ c.key <= c.round /\ c.round <= collections
           /\ collectKey # NoKey /\ c.round # collections => collectKey > c.round
  PROVE  HooksInv'
  <1>1. room' \in Int /\ collectKey' \in Int /\ collections' \in Nat
    BY DEF HooksInv, HooksType
  <1>2. RoomKept'
    BY DEF HooksInv, RoomKept
  <1>3. KeyInv'
    <2>1. \A i \in DOMAIN calls' : calls'[i] = c \/ (i \in DOMAIN calls /\ calls'[i] = calls[i])
      BY GoesOn
    <2>2. collectKey' <= collections'
      BY DEF HooksInv, KeyInv
    <2>3. ASSUME NEW i \in DOMAIN calls', calls'[i].at \in {"hooks", "key after"}
          PROVE  /\ calls'[i].key <= calls'[i].round /\ calls'[i].round <= collections'
                 /\ collectKey' # NoKey /\ calls'[i].round # collections' => collectKey' > calls'[i].round
      <3>1. CASE calls'[i] = c
        BY <2>3, <3>1
      <3>2. CASE i \in DOMAIN calls /\ calls'[i] = calls[i]
        BY <2>3, <3>2 DEF HooksInv, KeyInv
      <3>3. QED BY <2>1, <3>1, <3>2
    <2>4. QED BY <2>2, <2>3 DEF KeyInv
  <1>4. QED BY <1>1, <1>2, <1>3, GoOnInv

\* every step keeps the invariant
LEMMA HooksNextInv == HooksInv /\ [HooksNext]_gvars => HooksInv'
  <1> SUFFICES ASSUME HooksInv, [HooksNext]_gvars PROVE HooksInv'
    OBVIOUS
  <1>0. calls = << >> \/ InCall("hooks") \/ InCall("key") \/ InCall("key after")
          => \A i \in DOMAIN calls : calls[i].at # "return"
    <2>1. CASE calls = << >>
      BY <2>1
    <2>2. CASE InCall("hooks") \/ InCall("key") \/ InCall("key after")
      BY <2>2 DEF InCall, Call, HooksInv, ReturnInv
    <2>3. QED BY <2>1, <2>2
  <1>1. ASSUME NEW n \in Sizes, Allocate(n) PROVE HooksInv'
    <2>1. /\ n \in Nat
          /\ \A i \in DOMAIN calls : calls[i].at # "return"
          /\ UNCHANGED <<collectKey, collections, misled, missed>>
      <3>1. calls = << >> \/ InCall("hooks")
        BY <1>1 DEF Allocate
      <3>2. \A i \in DOMAIN calls : calls[i].at # "return"
        BY <1>0, <3>1
      <3>3. QED BY <1>1, <3>2, HooksConstants DEF Allocate
    <2>2. CASE RoomFor(n) /\ room' = room - n /\ UNCHANGED calls
      <3>1. UNCHANGED <<calls, collectKey, collections, misled, missed>>
        BY <1>1, <2>2 DEF Allocate
      <3>2. room' \in Int /\ room' >= -Small
        BY <2>1, <2>2, HooksConstants DEF RoomFor, HooksInv, HooksType
      <3>3. HooksType'
        BY <3>1, <3>2 DEF HooksInv, HooksType
      <3>4. ReturnInv'
        BY <2>1, <3>1 DEF ReturnInv
      <3>5. KeyInv'
        BY <3>1 DEF HooksInv, KeyInv
      <3>6. RoomKept'
        BY <3>1, <3>2 DEF HooksInv, RoomKept
      <3>7. QED BY <3>3, <3>4, <3>5, <3>6 DEF HooksInv
    <2>3. CASE Overflow(n) /\ UNCHANGED room
      BY <2>1, <2>3, OverflowInv
    <2>4. QED BY <1>1, <2>2, <2>3 DEF Allocate
  <1>2. CASE CollectNow
    <2>1. calls = << >> \/ InCall("hooks")
      BY <1>2 DEF CollectNow
    <2>2. \A i \in DOMAIN calls : calls[i].at # "return"
      BY <1>0, <2>1
    <2>3. Small \in Nat /\ Overflow(Small) /\ UNCHANGED <<room, collectKey, collections, misled, missed>>
      BY <1>2, HooksConstants DEF CollectNow
    <2>4. QED BY <2>2, <2>3, OverflowInv
  <1>3. CASE SetHooks
    <2>1. UNCHANGED <<room, collectKey, calls, collections, misled, missed>>
      BY <1>3 DEF SetHooks
    <2>2. QED BY <2>1 DEF HooksInv, HooksType, ReturnInv, KeyInv, RoomKept
  <1>4. CASE Escape
    <2>1. calls' = << >> /\ UNCHANGED <<room, collectKey, collections, misled, missed>>
      BY <1>4 DEF Escape
    <2>2. HooksType'
      BY <2>1 DEF HooksInv, HooksType
    <2>3. ReturnInv' /\ KeyInv'
      <3>1. \A i \in DOMAIN calls' : FALSE
        BY <2>1
      <3>2. collectKey' <= collections'
        BY <2>1 DEF HooksInv, KeyInv
      <3>3. QED BY <3>1, <3>2 DEF ReturnInv, KeyInv
    <2>4. RoomKept'
      BY <2>1 DEF HooksInv, RoomKept
    <2>5. QED BY <2>2, <2>3, <2>4 DEF HooksInv
  <1>5. CASE Collect
    <2> DEFINE c == [Call EXCEPT !.at = IF HooksOn THEN "key" ELSE "return"]
    <2>1. calls # << >> /\ Call \in OverflowCall
      BY <1>5, TopAndOuter DEF Collect, InCall, HooksInv
    <2>2. c \in OverflowCall /\ c.at \in {"return", "key"} /\ c.n = Call.n
      BY <2>1 DEF OverflowCall, HookPlace
    <2>3. calls' = Append(Outer, c) /\ Collected(Call.n) /\ UNCHANGED <<misled, missed>>
      BY <1>5 DEF Collect
    <2> HIDE DEF c
    <2>4. QED BY <2>1, <2>2, <2>3, CollectedInv
  <1>6. CASE ReturnNow
    <2>1. calls # << >> /\ OverflowReturns /\ UNCHANGED <<collectKey, collections, misled, missed>>
      BY <1>6 DEF ReturnNow, InCall
    <2>2. Call.n \in Nat /\ room \in Int /\ room >= Call.n
      BY <1>6, <2>1, TopAndOuter DEF ReturnNow, InCall, Call, OverflowCall, HooksInv, HooksType, ReturnInv
    <2>3. room' >= -Small
      BY <2>1, <2>2, HooksConstants DEF OverflowReturns
    <2>4. RoomKept'
      BY <2>1, <2>3 DEF HooksInv, RoomKept
    <2>5. QED BY <2>1, <2>4, ReturnsInv
  <1>7. CASE MakeKey
    <2>1. \A i \in DOMAIN calls : calls[i].at # "return"
      BY <1>0, <1>7 DEF MakeKey
    <2>2. CASE RoomFor(KeySize) /\ room' = room - KeySize /\ collectKey' = collections /\ UNCHANGED calls
      <3>1. UNCHANGED <<calls, collections, misled, missed>>
        BY <1>7, <2>2 DEF MakeKey
      <3>2. room' \in Int /\ room' >= -Small
        BY <2>2, HooksConstants DEF RoomFor, HooksInv, HooksType
      <3>3. HooksType'
        BY <2>2, <3>1, <3>2 DEF HooksInv, HooksType
      <3>4. ReturnInv'
        BY <2>1, <3>1 DEF ReturnInv
      <3>5. KeyInv'
        <4>1. \A i \in DOMAIN calls : calls[i] \in OverflowCall
          BY DEF HooksInv, HooksType
        <4>2. \A i \in DOMAIN calls : calls[i].at \in {"hooks", "key after"} =>
                /\ calls[i].key <= calls[i].round /\ calls[i].round <= collections
                /\ calls[i].round \in Nat
          BY <4>1 DEF HooksInv, KeyInv, OverflowCall
        <4>3. collections \in Nat /\ collectKey' = collections
          BY <2>2 DEF HooksInv, HooksType
        <4>4. calls' = calls /\ collections' = collections
          BY <3>1
        <4>5. collectKey' <= collections'
          BY <4>3, <4>4
        <4>6. \A r \in Nat : r <= collections /\ r # collections => collectKey' > r
          BY <4>3
        <4>7. QED BY <4>2, <4>4, <4>5, <4>6 DEF KeyInv
      <3>6. RoomKept'
        BY <3>1, <3>2 DEF HooksInv, RoomKept
      <3>7. QED BY <3>3, <3>4, <3>5, <3>6 DEF HooksInv
    <2>3. CASE Overflow(KeySize) /\ UNCHANGED <<room, collectKey>>
      <3>1. KeySize \in Nat /\ UNCHANGED <<room, collectKey, collections, misled, missed>>
        BY <1>7, <2>3, HooksConstants DEF MakeKey
      <3>2. QED BY <2>1, <2>3, <3>1, OverflowInv
    <2>4. QED BY <1>7, <2>2, <2>3 DEF MakeKey
  <1>8. CASE StartHooks
    <2> DEFINE c == [Call EXCEPT !.at = "hooks", !.key = collectKey, !.round = collections]
    <2>1. calls # << >> /\ Call \in OverflowCall /\ collectKey \in Int /\ collections \in Nat
      BY <1>8, TopAndOuter DEF StartHooks, InCall, HooksInv, HooksType
    <2>2. c \in OverflowCall /\ c.at = "hooks" /\ c.key = collectKey /\ c.round = collections
      BY <2>1 DEF OverflowCall, HookPlace
    <2>3. calls' = Append(Outer, c) /\ UNCHANGED <<room, collectKey, collections, misled, missed>>
      BY <1>8 DEF StartHooks
    <2> HIDE DEF c
    <2>4. collectKey <= collections
      BY DEF HooksInv, KeyInv
    <2>5. c.at # "return" /\ c.key <= c.round /\ c.round <= collections /\ c.round = collections
      BY <2>1, <2>2, <2>4
    <2>6. QED BY <2>1, <2>2, <2>3, <2>5, PlaceInv
  \* what a call has noted when its hooks return, or it looks at the key again
  <1>9. InCall("hooks") \/ InCall("key after") =>
          /\ calls # << >> /\ Call \in OverflowCall
          /\ Call.key <= Call.round /\ Call.round <= collections
          /\ collectKey # NoKey /\ Call.round # collections => collectKey > Call.round
    BY TopAndOuter DEF InCall, Call, HooksInv, KeyInv
  <1>10. ASSUME NEW at \in {"key", "key after"}, InCall("hooks") \/ InCall("key after"), GoOn(at),
                UNCHANGED <<room, collectKey, collections, misled, missed>>
         PROVE HooksInv'
    <2> DEFINE c == [Call EXCEPT !.at = at]
    <2>1. c \in OverflowCall /\ c.at = at /\ c.key = Call.key /\ c.round = Call.round
      BY <1>9, <1>10 DEF OverflowCall, HookPlace
    <2>2. calls' = Append(Outer, c)
      BY <1>10 DEF GoOn
    <2> HIDE DEF c
    <2>3. QED BY <1>9, <1>10, <2>1, <2>2, PlaceInv
  <1>11. CASE HooksReturn
    BY <1>10, <1>11 DEF HooksReturn
  <1>12. CASE RunAgain
    BY <1>10, <1>12 DEF RunAgain
  <1>13. CASE CheckRoom
    <2>1. calls # << >> /\ Call \in OverflowCall /\ Call.n \in Nat /\ room \in Int
      BY <1>9, <1>13 DEF CheckRoom, OverflowCall, HooksInv, HooksType
    <2>2. Call.round = collections
      <3>1. Call.key = collectKey /\ collectKey # NoKey
        BY <1>13 DEF CheckRoom, SameKey
      <3>2. Call.round \in Nat /\ collectKey \in Int /\ Call.key <= Call.round
        BY <1>9, <1>13, <2>1 DEF CheckRoom, OverflowCall, HooksInv, HooksType
      <3>3. Call.round # collections => collectKey > Call.round
        BY <1>9, <1>13, <3>1 DEF CheckRoom
      <3>4. QED BY <3>1, <3>2, <3>3
    <2>3. CASE Enough(Call.n) /\ OverflowReturns /\ misled' = (misled \/ (room < 0))
               /\ missed' = (missed \/ Call.round # collections) /\ UNCHANGED <<collectKey, collections>>
      <3>1. ~missed'
        BY <2>2, <2>3 DEF HooksInv, RoomKept
      <3>2. ~misled' => ~(room < 0)
        BY <2>3
      <3>3. room' = room - Call.n /\ (room < 0 \/ room >= Call.n)
        BY <2>3 DEF Enough, OverflowReturns
      <3>4. ~(room < 0) => room' >= -Small
        BY <2>1, <3>3, HooksConstants
      <3>5. RoomKept'
        BY <3>1, <3>2, <3>4 DEF RoomKept
      <3>6. QED BY <2>1, <2>3, <3>5, ReturnsInv
    <2>4. CASE Collected(Call.n) /\ GoOn("key") /\ UNCHANGED <<misled, missed>>
      <3> DEFINE c == [Call EXCEPT !.at = "key"]
      <3>1. c \in OverflowCall /\ c.at = "key" /\ c.n = Call.n
        BY <2>1 DEF OverflowCall, HookPlace
      <3>2. calls' = Append(Outer, c)
        BY <2>4 DEF GoOn
      <3> HIDE DEF c
      <3>3. QED BY <2>1, <2>4, <3>1, <3>2, CollectedInv
    <2>5. QED BY <1>13, <2>3, <2>4 DEF CheckRoom
  <1>14. CASE UNCHANGED gvars
    <2>1. UNCHANGED <<room, collectKey, calls, collections, misled, missed>>
      BY <1>14 DEF gvars
    <2>2. QED BY <2>1 DEF HooksInv, HooksType, ReturnInv, KeyInv, RoomKept
  <1>15. QED
    BY <1>1, <1>2, <1>3, <1>4, <1>5, <1>6, <1>7, <1>8, <1>11, <1>12, <1>13, <1>14 DEF HooksNext

\* However hooks allocate, collect and escape: when do-overflow returns there is the
\* room it was called for, but for what ik_collect_check takes for room by mistake, and
\* the hooks have seen the last collection (do-post-gc).
THEOREM HooksLeaveRoom == HooksSpec => []RoomKept
  <1>1. HooksInv => RoomKept
    BY DEF HooksInv
  <1>2. QED BY <1>1, HooksInitInv, HooksNextInv, PTL DEF HooksSpec

--------------------------------------------------------------------------------
(* Proof that libraries are invoked in order.                                *)
(*                                                                           *)
(* A call of invoke-library or visit-library leaves what is still to be      *)
(* invoked for the library in its todo; what is gone from there has returned *)
(* or is the call above (NeedsIn).  The first call for a library finds the   *)
(* state it was made with and leaves another for ever, so only that call     *)
(* runs the code (EnteredIn, StartsInv); a call above it for the same        *)
(* library finds Circular or Unreturned and raises.  What a file has found   *)
(* is installed (FindIn), and so is all that is in reach of that.            *)

States == {ToInvoke, Circular, Unreturned, Invoked}
CallRecord ==
  [do : {"find", "load", "import", "evaluate", "invoke", "visit", "invoking", "visiting"},
   lib : Library, todo : Seq(Library), was : States]
Entered == {"invoke", "invoking"}

LibrariesType ==
  /\ collection \subseteq Library
  /\ invokeState \in [Library -> States] /\ visitState \in [Library -> States]
  /\ stack \in Seq(CallRecord)
  /\ starts \in [Library -> Nat]

\* what a file names and is not installed is still to be found
NamedBy(f) == IF f.do = "load" THEN Requires(f.lib) ELSE ToSet(File[f.lib].imp)
FindIn(s, installed) ==
  \A i \in 1 .. Len(s) : s[i].do \in {"find", "load"} =>
    NamedBy(s[i]) \subseteq ToSet(s[i].todo) \cup installed

\* what a library refers to and has not returned is still to be invoked, or is the call
\* above; the innermost call may wait for one of those in waited
Refers(f) == IF f.do = "visit" THEN ToSet(File[f.lib].vis) ELSE ToSet(File[f.lib].inv)
NeedsIn(s, returned, waited) ==
  \A i \in 1 .. Len(s) : s[i].do \in {"invoke", "visit"} =>
    \A m \in Refers(s[i]) :
      \/ m \in ToSet(s[i].todo) \cup returned
      \/ i < Len(s) /\ s[i + 1].do \in Entered /\ s[i + 1].lib = m
      \/ i = Len(s) /\ m \in waited

\* the call that runs the code of its library, or will
First(f) == f.do = "invoking" \/ (f.do = "invoke" /\ f.was = ToInvoke)

\* libraries with a call have been entered and have not returned, the call that runs the
\* code is the first, and one that visits has invoked what the transformers refer to
EnteredIn(s, state, returned, started) ==
  \A i \in 1 .. Len(s) :
    /\ s[i].do \in Entered => s[i].lib \notin returned /\ state[s[i].lib] # ToInvoke
    /\ First(s[i]) => \A j \in 1 .. i - 1 : s[j].do \in Entered => s[j].lib # s[i].lib
    /\ s[i].do = "invoke" /\ s[i].was = ToInvoke => started[s[i].lib] = 0
    /\ s[i].do = "visiting" => ToSet(File[s[i].lib].vis) \subseteq returned

StartsInv ==
  \A l \in Library :
    /\ invokeState[l] = ToInvoke => starts[l] = 0
    /\ starts[l] <= 1
    /\ starts[l] = 1 => ToSet(File[l].inv) \subseteq finished
    /\ invokeState[l] = Invoked <=> l \in finished

VisitsInv ==
  \A l \in Library :
    visitState[l] \in {Unreturned, Invoked} => ToSet(File[l].vis) \subseteq finished

ClosedInv == \A l \in collection : Requires(l) \subseteq collection

LibrariesInv ==
  /\ LibrariesType
  /\ FindIn(stack, collection) /\ NeedsIn(stack, finished, {})
  /\ EnteredIn(stack, invokeState, finished, starts)
  /\ StartsInv /\ VisitsInv /\ ClosedInv

-----------------------------------------------------------------------------
(* Sequences *)

\* the first n calls
LEMMA FirstCalls ==
  ASSUME NEW S, NEW s \in Seq(S), NEW n \in 0 .. Len(s)
  PROVE  /\ SubSeq(s, 1, n) \in Seq(S) /\ Len(SubSeq(s, 1, n)) = n
         /\ \A i \in 1 .. n : SubSeq(s, 1, n)[i] = s[i]
  <1>1. n \in Int /\ n >= 0 /\ n - 1 + 1 = n /\ Len(s) \in Nat /\ n <= Len(s)
        /\ \A i \in 1 .. n : 1 + i - 1 = i
    OBVIOUS
  <1>2. \A i \in 1 .. n : s[i] \in S
    BY <1>1
  <1>3. /\ SubSeq(s, 1, n) \in Seq(S)
        /\ Len(SubSeq(s, 1, n)) = IF 1 <= n THEN n - 1 + 1 ELSE 0
        /\ \A i \in 1 .. n - 1 + 1 : SubSeq(s, 1, n)[i] = s[1 + i - 1]
    BY <1>1, <1>2, SubSeqProperties
  <1>4. QED BY <1>1, <1>3

\* one call more
LEMMA OneMore ==
  ASSUME NEW S, NEW s \in Seq(S), NEW f \in S
  PROVE  /\ Append(s, f) \in Seq(S) /\ Len(Append(s, f)) = Len(s) + 1
         /\ \A i \in 1 .. Len(s) : Append(s, f)[i] = s[i]
         /\ Append(s, f)[Len(s) + 1] = f
  OBVIOUS

\* what is left of a list without its head
LEMMA WithoutHead ==
  ASSUME NEW S, NEW t \in Seq(S), t # << >>
  PROVE  /\ Head(t) \in S /\ Tail(t) \in Seq(S)
         /\ ToSet(t) = ToSet(Tail(t)) \cup {Head(t)}
  <1>1. /\ Head(t) = t[1] /\ Len(t) \in Nat /\ Len(t) >= 1 /\ Tail(t) \in Seq(S)
        /\ Len(Tail(t)) = Len(t) - 1 /\ DOMAIN t = 1 .. Len(t)
        /\ DOMAIN Tail(t) = 1 .. Len(t) - 1
        /\ \A i \in 1 .. Len(t) - 1 : Tail(t)[i] = t[i + 1]
    OBVIOUS
  <1>2. \A i \in DOMAIN t : t[i] = Head(t) \/ \E j \in DOMAIN Tail(t) : t[i] = Tail(t)[j]
    <2> SUFFICES ASSUME NEW i \in DOMAIN t, i # 1
                 PROVE  \E j \in DOMAIN Tail(t) : t[i] = Tail(t)[j]
      BY <1>1
    <2>1. i - 1 \in 1 .. Len(t) - 1 /\ (i - 1) + 1 = i
      BY <1>1
    <2>2. QED BY <1>1, <2>1
  <1>3. \A j \in DOMAIN Tail(t) : \E i \in DOMAIN t : t[i] = Tail(t)[j]
    <2> TAKE j \in DOMAIN Tail(t)
    <2>1. j + 1 \in DOMAIN t /\ t[j + 1] = Tail(t)[j]
      BY <1>1
    <2>2. QED BY <2>1
  <1>4. Head(t) \in S
    BY <1>1
  <1>5. 1 \in DOMAIN t
    BY <1>1
  <1>6. \A x \in ToSet(t) : x \in ToSet(Tail(t)) \cup {Head(t)}
    BY <1>2 DEF ToSet
  <1>7. \A x \in ToSet(Tail(t)) : x \in ToSet(t)
    BY <1>3 DEF ToSet
  <1>8. Head(t) \in ToSet(t)
    BY <1>1, <1>5 DEF ToSet
  <1>9. QED BY <1>1, <1>4, <1>6, <1>7, <1>8

\* nothing is left in an empty list
LEMMA NothingLeft == ToSet(<< >>) = {}
  <1>1. DOMAIN << >> = {}
    OBVIOUS
  <1>2. QED BY <1>1 DEF ToSet

-----------------------------------------------------------------------------
(* The calls, when some end and when one is made *)

\* calls of the innermost files end, and more is installed
LEMMA FindPrefix ==
  ASSUME NEW s \in Seq(CallRecord), NEW n \in 0 .. Len(s), NEW c, NEW d, c \subseteq d,
         FindIn(s, c)
  PROVE  FindIn(SubSeq(s, 1, n), d)
  <1>1. \A i \in 1 .. n : SubSeq(s, 1, n)[i] = s[i] /\ i \in 1 .. Len(s)
    BY FirstCalls
  <1>2. Len(SubSeq(s, 1, n)) = n
    BY FirstCalls
  <1>3. QED BY <1>1, <1>2 DEF FindIn

\* a call is made
LEMMA FindAppend ==
  ASSUME NEW s \in Seq(CallRecord), NEW f \in CallRecord, NEW c, FindIn(s, c),
         f.do \in {"find", "load"} => NamedBy(f) \subseteq ToSet(f.todo) \cup c
  PROVE  FindIn(Append(s, f), c)
  <1> DEFINE t == Append(s, f)
  <1>1. /\ Len(t) = Len(s) + 1 /\ Len(s) \in Nat
        /\ \A i \in 1 .. Len(s) : t[i] = s[i]
        /\ t[Len(s) + 1] = f
    BY OneMore
  <1>2. ASSUME NEW i \in 1 .. Len(t), t[i].do \in {"find", "load"}
        PROVE  NamedBy(t[i]) \subseteq ToSet(t[i].todo) \cup c
    <2>1. CASE i \in 1 .. Len(s)
      BY <1>1, <1>2, <2>1 DEF FindIn
    <2>2. CASE i = Len(s) + 1
      BY <1>1, <1>2, <2>2
    <2>3. QED BY <1>1, <2>1, <2>2
  <1>3. QED BY <1>2 DEF FindIn

\* the calls down to one that needs nothing
LEMMA NeedsPrefix ==
  ASSUME NEW s \in Seq(CallRecord), NEW n \in 0 .. Len(s), NEW r, NEW q, NEW w,
         NeedsIn(s, r, w), r \subseteq q,
         n > 0 => s[n].do \notin {"invoke", "visit"}
  PROVE  NeedsIn(SubSeq(s, 1, n), q, {})
  <1> DEFINE t == SubSeq(s, 1, n)
  <1>1. Len(t) = n /\ n \in Nat /\ n <= Len(s) /\ \A i \in 1 .. n : t[i] = s[i]
    BY FirstCalls
  <1> HIDE DEF t
  <1>2. ASSUME NEW i \in 1 .. n, t[i].do \in {"invoke", "visit"},
               NEW m \in Refers(t[i])
        PROVE  \/ m \in ToSet(t[i].todo) \cup q
               \/ i < n /\ t[i + 1].do \in Entered /\ t[i + 1].lib = m
    <2>1. i # n /\ i \in 1 .. Len(s) /\ t[i] = s[i]
      BY <1>1, <1>2
    <2>2. i < n /\ i # Len(s) /\ i + 1 \in 1 .. n
      BY <1>1, <2>1
    <2>3. t[i + 1] = s[i + 1]
      BY <1>1, <2>2
    <2>4. \/ m \in ToSet(s[i].todo) \cup r
          \/ s[i + 1].do \in Entered /\ s[i + 1].lib = m
      BY <1>2, <2>1, <2>2 DEF NeedsIn
    <2>5. QED BY <2>1, <2>2, <2>3, <2>4
  <1>3. NeedsIn(t, q, {})
    BY <1>1, <1>2 DEF NeedsIn
  <1>4. QED BY <1>3 DEF t

\* without the innermost call, the one below waits for it
LEMMA NeedsOuter ==
  ASSUME NEW s \in Seq(CallRecord), s # << >>, NEW r, NEW w, NEW v,
         NeedsIn(s, r, w),
         s[Len(s)].do \in Entered => s[Len(s)].lib \in v
  PROVE  NeedsIn(SubSeq(s, 1, Len(s) - 1), r, v)
  <1> DEFINE n == Len(s) - 1
             t == SubSeq(s, 1, n)
  <1>0. n \in 0 .. Len(s) /\ n + 1 = Len(s)
    OBVIOUS
  <1>1. Len(t) = n /\ n \in Nat /\ \A i \in 1 .. n : t[i] = s[i]
    BY <1>0, FirstCalls
  <1> HIDE DEF t, n
  <1>2. ASSUME NEW i \in 1 .. n, t[i].do \in {"invoke", "visit"},
               NEW m \in Refers(t[i])
        PROVE  \/ m \in ToSet(t[i].todo) \cup r
               \/ i < n /\ t[i + 1].do \in Entered /\ t[i + 1].lib = m
               \/ i = n /\ m \in v
    <2>1. i \in 1 .. Len(s) /\ i # Len(s) /\ t[i] = s[i]
      BY <1>0, <1>1
    <2>2. \/ m \in ToSet(s[i].todo) \cup r
          \/ s[i + 1].do \in Entered /\ s[i + 1].lib = m
      BY <1>2, <2>1 DEF NeedsIn
    <2>3. CASE i = n
      BY <1>0, <2>1, <2>2, <2>3
    <2>4. CASE i # n
      <3>1. i < n /\ i + 1 \in 1 .. n
        BY <1>1, <2>4
      <3>2. t[i + 1] = s[i + 1]
        BY <1>1, <3>1
      <3>3. QED BY <2>1, <2>2, <3>1, <3>2
    <2>5. QED BY <2>3, <2>4
  <1>3. NeedsIn(t, r, v)
    BY <1>1, <1>2 DEF NeedsIn
  <1>4. QED BY <1>3 DEF t, n

\* what the innermost call waits for is the call made, or has returned
LEMMA NeedsAppend ==
  ASSUME NEW s \in Seq(CallRecord), NEW f \in CallRecord, NEW r, NEW w, NEW v,
         NeedsIn(s, r, w),
         \A m \in w : m \in r \/ (f.do \in Entered /\ f.lib = m),
         f.do \in {"invoke", "visit"} =>
           \A m \in Refers(f) : m \in ToSet(f.todo) \cup r \cup v
  PROVE  NeedsIn(Append(s, f), r, v)
  <1> DEFINE t == Append(s, f)
  <1>1. /\ Len(t) = Len(s) + 1 /\ Len(s) \in Nat
        /\ \A i \in 1 .. Len(s) : t[i] = s[i]
        /\ t[Len(s) + 1] = f
    BY OneMore
  <1> HIDE DEF t
  <1>2. ASSUME NEW i \in 1 .. Len(t), t[i].do \in {"invoke", "visit"},
               NEW m \in Refers(t[i])
        PROVE  \/ m \in ToSet(t[i].todo) \cup r
               \/ i < Len(t) /\ t[i + 1].do \in Entered /\ t[i + 1].lib = m
               \/ i = Len(t) /\ m \in v
    <2>1. CASE i = Len(t)
      BY <1>1, <1>2, <2>1
    <2>2. CASE i = Len(s)
      <3>1. i < Len(t) /\ t[i + 1] = f /\ t[i] = s[i] /\ ~(i < Len(s)) /\ i \in 1 .. Len(s)
        BY <1>1, <2>2
      <3>2. m \in ToSet(s[i].todo) \cup r \/ m \in w
        BY <1>2, <3>1 DEF NeedsIn
      <3>3. QED BY <3>1, <3>2
    <2>3. CASE i < Len(s)
      <3>1. i < Len(t) /\ i \in 1 .. Len(s) /\ i + 1 \in 1 .. Len(s) /\ i # Len(s)
        BY <1>1, <2>3
      <3>2. t[i] = s[i] /\ t[i + 1] = s[i + 1]
        BY <1>1, <3>1
      <3>3. \/ m \in ToSet(s[i].todo) \cup r
            \/ s[i + 1].do \in Entered /\ s[i + 1].lib = m
        BY <1>2, <3>1, <3>2 DEF NeedsIn
      <3>4. QED BY <3>1, <3>2, <3>3
    <2>4. QED BY <1>1, <2>1, <2>2, <2>3
  <1>3. NeedsIn(t, r, v)
    BY <1>2 DEF NeedsIn
  <1>4. QED BY <1>3 DEF t

\* what a call waits for has returned
LEMMA NeedsReturned ==
  ASSUME NEW s \in Seq(CallRecord), NEW r, NEW q, NEW w, NeedsIn(s, r, w),
         r \subseteq q, w \subseteq q
  PROVE  NeedsIn(s, q, {})
  BY DEF NeedsIn

\* calls that end
LEMMA EnteredPrefix ==
  ASSUME NEW s \in Seq(CallRecord), NEW n \in 0 .. Len(s), NEW a, NEW r, NEW st,
         EnteredIn(s, a, r, st)
  PROVE  EnteredIn(SubSeq(s, 1, n), a, r, st)
  <1> DEFINE t == SubSeq(s, 1, n)
  <1>1. Len(t) = n
    BY FirstCalls
  <1>2. \A i \in 1 .. n : t[i] = s[i] /\ i \in 1 .. Len(s)
    BY FirstCalls
  <1>3. \A i \in 1 .. n : \A j \in 1 .. i - 1 : j \in 1 .. n
    OBVIOUS
  <1> HIDE DEF t
  <1>4. EnteredIn(t, a, r, st)
    BY <1>1, <1>2, <1>3 DEF EnteredIn
  <1>5. QED BY <1>4 DEF t

\* a call of a library that has not returned
LEMMA EnteredAppend ==
  ASSUME NEW s \in Seq(CallRecord), NEW f \in CallRecord, NEW a, NEW r, NEW st,
         EnteredIn(s, a, r, st),
         f.do \in Entered => f.lib \notin r /\ a[f.lib] # ToInvoke,
         First(f) => \A j \in 1 .. Len(s) : s[j].do \in Entered => s[j].lib # f.lib,
         f.do = "invoke" /\ f.was = ToInvoke => st[f.lib] = 0,
         f.do = "visiting" => ToSet(File[f.lib].vis) \subseteq r
  PROVE  EnteredIn(Append(s, f), a, r, st)
  <1> DEFINE t == Append(s, f)
  <1>1. /\ Len(t) = Len(s) + 1 /\ Len(s) \in Nat
        /\ \A i \in 1 .. Len(s) : t[i] = s[i]
        /\ t[Len(s) + 1] = f
    BY OneMore
  <1> HIDE DEF t
  <1>2. ASSUME NEW i \in 1 .. Len(t)
        PROVE
    /\ t[i].do \in Entered => t[i].lib \notin r /\ a[t[i].lib] # ToInvoke
    /\ First(t[i]) => \A j \in 1 .. i - 1 : t[j].do \in Entered => t[j].lib # t[i].lib
    /\ t[i].do = "invoke" /\ t[i].was = ToInvoke => st[t[i].lib] = 0
    /\ t[i].do = "visiting" => ToSet(File[t[i].lib].vis) \subseteq r
    <2>1. CASE i = Len(t)
      <3>1. t[i] = f /\ \A j \in 1 .. i - 1 : j \in 1 .. Len(s) /\ t[j] = s[j]
        BY <1>1, <2>1
      <3>2. QED BY <3>1
    <2>2. CASE i # Len(t)
      <3>1. i \in 1 .. Len(s) /\ t[i] = s[i] /\ \A j \in 1 .. i - 1 : t[j] = s[j]
        BY <1>1, <2>2
      <3>2. QED BY <3>1 DEF EnteredIn
    <2>3. QED BY <2>1, <2>2
  <1>3. EnteredIn(t, a, r, st)
    BY <1>2 DEF EnteredIn
  <1>4. QED BY <1>3 DEF t

\* only for a library not entered before does the state matter
LEMMA EnteredState ==
  ASSUME NEW s \in Seq(CallRecord), NEW a, NEW b, NEW r, NEW st, EnteredIn(s, a, r, st),
         \A l \in Library : a[l] # ToInvoke => b[l] # ToInvoke
  PROVE  EnteredIn(s, b, r, st)
  <1>1. \A i \in 1 .. Len(s) : s[i] \in CallRecord
    OBVIOUS
  <1>2. \A i \in 1 .. Len(s) : s[i].lib \in Library
    BY <1>1 DEF CallRecord
  <1>3. QED BY <1>2 DEF EnteredIn

-----------------------------------------------------------------------------
(* The steps *)

\* the invariant of a stack of calls s
CallsIn(s, waited) ==
  /\ s \in Seq(CallRecord)
  /\ FindIn(s, collection) /\ NeedsIn(s, finished, waited)
  /\ EnteredIn(s, invokeState, finished, starts)

\* the elements of two lists
LEMMA ListsJoined ==
  ASSUME NEW S, NEW a \in Seq(S), NEW b \in Seq(S)
  PROVE  a \o b \in Seq(S) /\ ToSet(a \o b) = ToSet(a) \cup ToSet(b)
  <1>1. /\ a \o b \in Seq(S) /\ DOMAIN (a \o b) = 1 .. Len(a) + Len(b)
        /\ DOMAIN a = 1 .. Len(a) /\ DOMAIN b = 1 .. Len(b)
        /\ Len(a) \in Nat /\ Len(b) \in Nat
    OBVIOUS
  <1>2. \A i \in DOMAIN a : i \in DOMAIN (a \o b) /\ (a \o b)[i] = a[i]
    OBVIOUS
  <1>3. \A i \in DOMAIN b : i + Len(a) \in DOMAIN (a \o b) /\ (a \o b)[i + Len(a)] = b[i]
    OBVIOUS
  <1>4. \A i \in DOMAIN (a \o b) :
          (a \o b)[i] \in ToSet(a) \/ (a \o b)[i] \in ToSet(b)
    <2> TAKE i \in DOMAIN (a \o b)
    <2>1. CASE i \in DOMAIN a
      BY <1>2, <2>1 DEF ToSet
    <2>2. CASE i \notin DOMAIN a
      <3>1. i - Len(a) \in DOMAIN b /\ i = (i - Len(a)) + Len(a)
        BY <1>1, <2>2
      <3>2. (a \o b)[i] = b[i - Len(a)]
        BY <1>3, <3>1
      <3>3. QED BY <3>1, <3>2 DEF ToSet
    <2>3. QED BY <2>1, <2>2
  <1>5. \A x \in ToSet(a) : x \in ToSet(a \o b)
    BY <1>2 DEF ToSet
  <1>6. \A x \in ToSet(b) : x \in ToSet(a \o b)
    BY <1>3 DEF ToSet
  <1>7. \A x \in ToSet(a \o b) : x \in ToSet(a) \cup ToSet(b)
    BY <1>4 DEF ToSet
  <1>8. QED BY <1>1, <1>5, <1>6, <1>7

\* what expanding a file collects
LEMMA FileLists ==
  ASSUME NEW l \in Library
  PROVE  /\ File[l].imp \in Seq(Library) /\ File[l].vis \in Seq(Library)
         /\ File[l].inv \in Seq(Library) /\ File[l].guard \in Seq(Library)
         /\ ToSet(File[l].imp) \subseteq Requires(l)
  BY LibrariesAssumption DEF LibrariesAssumption, Requires

\* the calls that find a library
LEMMA FileCalls ==
  ASSUME NEW l \in Library, NEW f \in {Source(l), Compiled(l)}
  PROVE  /\ f \in CallRecord /\ f.do \in {"find", "load"} /\ f.lib = l
         /\ NamedBy(f) \subseteq ToSet(f.todo)
  <1>1. CASE f = Source(l)
    <2>1. f.do = "find" /\ f.lib = l /\ f.todo = File[l].imp /\ f.was = ToInvoke
      BY <1>1 DEF Source, Frame
    <2>2. f \in CallRecord
      BY <1>1, FileLists DEF Source, Frame, CallRecord, States
    <2>3. QED BY <2>1, <2>2 DEF NamedBy
  <1>2. CASE f = Compiled(l)
    <2> DEFINE d == File[l].imp \o File[l].vis
               e == d \o File[l].inv
               g == e \o File[l].guard
    <2>1. d \in Seq(Library) /\ ToSet(d) = ToSet(File[l].imp) \cup ToSet(File[l].vis)
      BY FileLists, ListsJoined
    <2> HIDE DEF d
    <2>2. e \in Seq(Library) /\ ToSet(e) = ToSet(d) \cup ToSet(File[l].inv)
      BY <2>1, FileLists, ListsJoined
    <2> HIDE DEF e
    <2>3. g \in Seq(Library) /\ ToSet(g) = ToSet(e) \cup ToSet(File[l].guard)
      BY <2>2, FileLists, ListsJoined
    <2> HIDE DEF g
    <2>4. f = Frame("load", l, g, ToInvoke)
      BY <1>2 DEF Compiled, d, e, g
    <2>5. f.do = "load" /\ f.lib = l /\ f.todo = g /\ f \in CallRecord
      BY <2>3, <2>4 DEF Frame, CallRecord, States
    <2>6. QED BY <2>1, <2>2, <2>3, <2>5 DEF NamedBy, Requires
  <1>3. QED BY <1>1, <1>2

\* what a file refers to is installed with what it imports
LEMMA FoundInReach ==
  ASSUME LibrariesInv, NEW l \in Library, ToSet(File[l].imp) \subseteq collection
  PROVE  Requires(l) \subseteq collection
  <1>1. collection \in SUBSET Library
    BY DEF LibrariesInv, LibrariesType
  <1>2. Closed(collection)
    BY <1>1, FileLists DEF LibrariesInv, ClosedInv, Closed
  <1>3. InReach[l] \subseteq collection
    BY <1>1, <1>2 DEF InReach
  <1>4. QED BY <1>3, ReferencesAssumption DEF ReferencesAssumption

\* the invariant of the calls after a step that changes only them and the visits
LEMMA OnlyVisits ==
  ASSUME LibrariesInv, CallsIn(stack', {}), visitState' \in [Library -> States], VisitsInv',
         UNCHANGED <<collection, invokeState, starts, finished>>
  PROVE  LibrariesInv'
  <1>1. LibrariesType'
    BY DEF LibrariesInv, LibrariesType, CallsIn
  <1>2. /\ FindIn(stack, collection)' /\ NeedsIn(stack, finished, {})'
        /\ EnteredIn(stack, invokeState, finished, starts)'
    BY DEF CallsIn
  <1>3. StartsInv' /\ ClosedInv'
    BY DEF LibrariesInv, StartsInv, ClosedInv
  <1>4. QED BY <1>1, <1>2, <1>3 DEF LibrariesInv

\* and after one that changes only them
LEMMA OnlyCalls ==
  ASSUME LibrariesInv, CallsIn(stack', {}),
         UNCHANGED <<collection, invokeState, visitState, starts, finished>>
  PROVE  LibrariesInv'
  <1>1. visitState' \in [Library -> States] /\ VisitsInv'
    BY DEF LibrariesInv, LibrariesType, VisitsInv
  <1>2. QED BY <1>1, OnlyVisits

\* the call at the top, and those below it
LEMMA TopCall ==
  ASSUME LibrariesInv, stack # << >>
  PROVE  /\ Top \in CallRecord /\ Len(stack) \in 1 .. Len(stack)
         /\ \A w : (Top.do \in Entered => Top.lib \in w) => CallsIn(Caller, w)
         /\ Len(Caller) = Len(stack) - 1
         /\ \A i \in 1 .. Len(stack) - 1 : Caller[i] = stack[i]
  <1>1. stack \in Seq(CallRecord) /\ FindIn(stack, collection)
        /\ NeedsIn(stack, finished, {}) /\ EnteredIn(stack, invokeState, finished, starts)
    BY DEF LibrariesInv, LibrariesType
  <1>2. Len(stack) \in 1 .. Len(stack) /\ Len(stack) - 1 \in 0 .. Len(stack)
    BY <1>1
  <1>3. Top \in CallRecord
    BY <1>1, <1>2 DEF Top
  <1>4. /\ Caller \in Seq(CallRecord) /\ Len(Caller) = Len(stack) - 1
        /\ \A i \in 1 .. Len(stack) - 1 : Caller[i] = stack[i]
    BY <1>1, <1>2, FirstCalls DEF Caller
  <1>5. FindIn(Caller, collection)
    BY <1>1, <1>2, FindPrefix DEF Caller
  <1>6. EnteredIn(Caller, invokeState, finished, starts)
    BY <1>1, <1>2, EnteredPrefix DEF Caller
  <1>7. ASSUME NEW w, Top.do \in Entered => Top.lib \in w
        PROVE  NeedsIn(Caller, finished, w)
    BY <1>1, <1>7, NeedsOuter DEF Caller, Top
  <1>8. QED BY <1>2, <1>3, <1>4, <1>5, <1>6, <1>7 DEF CallsIn

\* an error ends calls
LEMMA Raised ==
  ASSUME NEW s, NEW w, CallsIn(s, w), RaiseFrom(s)
  PROVE  CallsIn(stack', {})
  <1>1. PICK n \in 0 .. Len(s) : /\ n > 0 => s[n].do \in Running
                                 /\ stack' = SubSeq(s, 1, n)
    BY DEF RaiseFrom
  <1>2. s \in Seq(CallRecord)
    BY DEF CallsIn
  <1>3. stack' \in Seq(CallRecord)
    BY <1>1, <1>2, FirstCalls
  <1>4. FindIn(stack', collection)
    BY <1>1, <1>2, FindPrefix DEF CallsIn
  <1>5. n > 0 => s[n].do \notin {"invoke", "visit"}
    BY <1>1 DEF Running
  <1>6. NeedsIn(stack', finished, {})
    BY <1>1, <1>2, <1>5, NeedsPrefix DEF CallsIn
  <1>7. EnteredIn(stack', invokeState, finished, starts)
    BY <1>1, <1>2, EnteredPrefix DEF CallsIn
  <1>8. QED BY <1>3, <1>4, <1>6, <1>7 DEF CallsIn

\* a call that enters no library
LEMMA OtherCall ==
  ASSUME NEW s, CallsIn(s, {}), NEW f \in CallRecord, f.do \notin Entered,
         f.do \in {"find", "load"} => NamedBy(f) \subseteq ToSet(f.todo) \cup collection,
         f.do = "visit" => Refers(f) \subseteq ToSet(f.todo),
         f.do = "visiting" => ToSet(File[f.lib].vis) \subseteq finished
  PROVE  CallsIn(Append(s, f), {})
  <1>1. s \in Seq(CallRecord)
    BY DEF CallsIn
  <1>2. Append(s, f) \in Seq(CallRecord)
    BY <1>1, OneMore
  <1>3. FindIn(Append(s, f), collection)
    BY <1>1, FindAppend DEF CallsIn
  <1>4. NeedsIn(Append(s, f), finished, {})
    BY <1>1, NeedsAppend DEF CallsIn, Entered
  <1>5. ~First(f) /\ f.do # "invoke"
    BY DEF First, Entered
  <1>6. EnteredIn(Append(s, f), invokeState, finished, starts)
    BY <1>1, <1>5, EnteredAppend DEF CallsIn
  <1>7. QED BY <1>2, <1>3, <1>4, <1>6 DEF CallsIn

\* invoke-library, called for what the innermost call waits for
LEMMA EnterInvokeInv ==
  ASSUME LibrariesInv, NEW l \in Library, NEW s, NEW w, CallsIn(s, w), w \subseteq {l},
         EnterInvoke(s, l), UNCHANGED <<collection, visitState, starts, finished>>
  PROVE  LibrariesInv'
  <1>0. s \in Seq(CallRecord) /\ FindIn(s, collection) /\ NeedsIn(s, finished, w)
        /\ EnteredIn(s, invokeState, finished, starts)
    BY DEF CallsIn
  <1>1. CASE invokeState[l] = Invoked
    <2>1. stack' = s /\ UNCHANGED invokeState
      BY <1>1 DEF EnterInvoke
    <2>2. l \in finished
      BY <1>1 DEF LibrariesInv, StartsInv
    <2>3. NeedsIn(s, finished, {})
      BY <1>0, <2>2, NeedsReturned
    <2>4. CallsIn(stack', {})
      BY <1>0, <2>1, <2>3 DEF CallsIn
    <2>5. QED BY <2>1, <2>4, OnlyCalls DEF LibrariesInv, LibrariesType
  <1>2. CASE invokeState[l] # Invoked
    <2> DEFINE f == Frame("invoke", l, File[l].inv, invokeState[l])
    <2>1. /\ invokeState' = [invokeState EXCEPT ![l] = Circular]
          /\ stack' = Append(s, f)
      BY <1>2 DEF EnterInvoke
    <2>2. invokeState \in [Library -> States]
      BY DEF LibrariesInv, LibrariesType
    <2>3. f \in CallRecord /\ f.do = "invoke" /\ f.lib = l /\ f.todo = File[l].inv
          /\ f.was = invokeState[l]
      BY <2>2, FileLists DEF CallRecord, Frame
    <2> HIDE DEF f
    <2>4. \A k \in Library : k # l => invokeState'[k] = invokeState[k]
      BY <2>1, <2>2
    <2>5. invokeState'[l] = Circular /\ invokeState' \in [Library -> States]
      BY <2>1, <2>2 DEF States
    <2>6. Circular # ToInvoke /\ Circular # Invoked
      BY DEF Circular, ToInvoke, Invoked
    <2>7. LibrariesType'
      BY <1>0, <2>1, <2>3, <2>5, OneMore DEF LibrariesInv, LibrariesType
    <2>8. FindIn(stack', collection)
      BY <1>0, <2>1, <2>3, FindAppend
    <2>9. NeedsIn(stack', finished, {})
      BY <1>0, <2>1, <2>3, NeedsAppend DEF Entered, Refers
    <2>10. EnteredIn(s, invokeState', finished, starts)
      BY <1>0, <2>4, <2>5, <2>6, EnteredState
    <2>11. First(f) => \A j \in 1 .. Len(s) : s[j].do \in Entered => s[j].lib # f.lib
      BY <1>0, <2>3 DEF First, EnteredIn
    <2>12. l \notin finished
      BY <1>2 DEF LibrariesInv, StartsInv
    <2>13. f.do = "invoke" /\ f.was = ToInvoke => starts[f.lib] = 0
      BY <2>3 DEF LibrariesInv, StartsInv
    <2>14. EnteredIn(stack', invokeState', finished, starts)
      BY <1>0, <2>1, <2>3, <2>5, <2>6, <2>10, <2>11, <2>12, <2>13, EnteredAppend
    <2>15. StartsInv'
      <3> SUFFICES ASSUME NEW k \in Library
                   PROVE  /\ invokeState'[k] = ToInvoke => starts[k] = 0
                          /\ starts[k] <= 1
                          /\ starts[k] = 1 => ToSet(File[k].inv) \subseteq finished
                          /\ invokeState'[k] = Invoked <=> k \in finished
        BY DEF StartsInv
      <3>1. /\ invokeState[k] = ToInvoke => starts[k] = 0
            /\ starts[k] <= 1
            /\ starts[k] = 1 => ToSet(File[k].inv) \subseteq finished
            /\ invokeState[k] = Invoked <=> k \in finished
        BY DEF LibrariesInv, StartsInv
      <3>2. CASE k = l
        BY <2>5, <2>6, <2>12, <3>1, <3>2
      <3>3. CASE k # l
        BY <2>4, <3>1, <3>3
      <3>4. QED BY <3>2, <3>3
    <2>16. VisitsInv' /\ ClosedInv'
      BY DEF LibrariesInv, VisitsInv, ClosedInv
    <2>17. QED BY <2>7, <2>8, <2>9, <2>14, <2>15, <2>16 DEF LibrariesInv
  <1>3. QED BY <1>1, <1>2

\* visit-library
LEMMA EnterVisitInv ==
  ASSUME LibrariesInv, NEW l \in Library, EnterVisit(stack, l),
         UNCHANGED <<collection, invokeState, starts, finished>>
  PROVE  LibrariesInv'
  <1>0. CallsIn(stack, {}) /\ visitState \in [Library -> States]
    BY DEF LibrariesInv, LibrariesType, CallsIn
  <1>1. CASE visitState[l] = Invoked
    <2>1. stack' = stack /\ visitState' = visitState
      BY <1>1 DEF EnterVisit
    <2>2. QED BY <1>0, <2>1, OnlyCalls
  <1>2. CASE visitState[l] # Invoked
    <2> DEFINE f == Frame("visit", l, File[l].vis, visitState[l])
    <2>1. /\ visitState' = [visitState EXCEPT ![l] = Circular]
          /\ stack' = Append(stack, f)
      BY <1>2 DEF EnterVisit
    <2>2. f \in CallRecord /\ f.do = "visit" /\ f.lib = l /\ f.todo = File[l].vis
      BY <1>0, FileLists DEF CallRecord, Frame
    <2> HIDE DEF f
    <2>3. CallsIn(stack', {})
      BY <1>0, <2>1, <2>2, OtherCall DEF Entered, Refers
    <2>4. /\ visitState' \in [Library -> States] /\ visitState'[l] = Circular
          /\ \A k \in Library : k # l => visitState'[k] = visitState[k]
      BY <1>0, <2>1 DEF States
    <2>5. Circular \notin {Unreturned, Invoked}
      BY DEF Circular, Unreturned, Invoked
    <2>6. VisitsInv'
      <3> SUFFICES ASSUME NEW k \in Library, visitState'[k] \in {Unreturned, Invoked}
                   PROVE  ToSet(File[k].vis) \subseteq finished
        BY DEF VisitsInv
      <3>1. k # l
        BY <2>4, <2>5
      <3>2. QED BY <2>4, <3>1 DEF LibrariesInv, VisitsInv
    <2>7. QED BY <2>3, <2>4, <2>6, OnlyVisits
  <1>3. QED BY <1>1, <1>2

\* find-library-by-name
LEMMA FindExternalInv ==
  ASSUME LibrariesInv, NEW l \in Library, FindExternal(l),
         UNCHANGED <<collection, invokeState, visitState, starts, finished>>
  PROVE  LibrariesInv'
  <1>0. CallsIn(stack, {})
    BY DEF LibrariesInv, LibrariesType, CallsIn
  <1>1. CASE RaiseFrom(stack)
    <2>1. CallsIn(stack', {})
      BY <1>0, <1>1, Raised
    <2>2. QED BY <2>1, OnlyCalls
  <1>2. ASSUME NEW f \in {Source(l), Compiled(l)}, stack' = Append(stack, f)
        PROVE  LibrariesInv'
    <2>1. f \in CallRecord /\ f.do \in {"find", "load"} /\ NamedBy(f) \subseteq ToSet(f.todo)
      BY <1>2, FileCalls
    <2>2. CallsIn(stack', {})
      BY <1>0, <1>2, <2>1, OtherCall DEF Entered
    <2>3. QED BY <2>2, OnlyCalls
  <1>3. QED BY <1>1, <1>2 DEF FindExternal

\* the first states
LEMMA LibrariesInitInv == LibrariesInit => LibrariesInv
  <1> SUFFICES ASSUME LibrariesInit PROVE LibrariesInv
    OBVIOUS
  <1>1. LibrariesType
    BY DEF LibrariesInit, LibrariesType, States
  <1>2. \A i \in 1 .. Len(stack) : FALSE
    BY DEF LibrariesInit
  <1>3. FindIn(stack, collection) /\ NeedsIn(stack, finished, {})
        /\ EnteredIn(stack, invokeState, finished, starts)
    BY <1>2 DEF FindIn, NeedsIn, EnteredIn
  <1>4. StartsInv
    BY DEF LibrariesInit, StartsInv, ToInvoke, Invoked
  <1>5. VisitsInv /\ ClosedInv
    BY DEF LibrariesInit, VisitsInv, ClosedInv, ToInvoke, Unreturned, Invoked
  <1>6. QED BY <1>1, <1>3, <1>4, <1>5 DEF LibrariesInv

\* the libraries that a file names
LEMMA FindImportInv == LibrariesInv /\ FindImport => LibrariesInv'
  <1> SUFFICES ASSUME LibrariesInv, FindImport PROVE LibrariesInv'
    OBVIOUS
  <1> DEFINE f == [Top EXCEPT !.todo = Tail(@)]
  <1>0. /\ stack # << >> /\ Top.do \in {"find", "load"} /\ Top.todo # << >>
        /\ UNCHANGED <<collection, invokeState, visitState, starts, finished>>
    BY DEF FindImport, AtCall
  <1>1. Top \in CallRecord /\ CallsIn(Caller, {}) /\ Len(stack) \in 1 .. Len(stack)
    BY <1>0, TopCall DEF Entered
  <1>2. Top.todo \in Seq(Library)
    BY <1>1 DEF CallRecord
  <1>3. /\ Head(Top.todo) \in Library /\ Tail(Top.todo) \in Seq(Library)
        /\ ToSet(Top.todo) = ToSet(Tail(Top.todo)) \cup {Head(Top.todo)}
    BY <1>0, <1>2, WithoutHead
  <1>5. CASE Head(Top.todo) \in collection
    <2>1. stack' = Append(Caller, f)
      BY <1>5 DEF FindImport
    <2>2. f \in CallRecord /\ f.do = Top.do /\ f.lib = Top.lib /\ f.todo = Tail(Top.todo)
      BY <1>0, <1>1, <1>3 DEF CallRecord
    <2>3. NamedBy(Top) \subseteq ToSet(Top.todo) \cup collection
      BY <1>0, <1>1 DEF LibrariesInv, FindIn, Top
    <2> HIDE DEF f
    <2>4. NamedBy(f) = NamedBy(Top)
      BY <2>2 DEF NamedBy
    <2>5. NamedBy(f) \subseteq ToSet(f.todo) \cup collection
      BY <1>3, <1>5, <2>2, <2>3, <2>4
    <2>6. CallsIn(stack', {})
      BY <1>0, <1>1, <2>1, <2>2, <2>5, OtherCall DEF Entered
    <2>7. QED BY <1>0, <2>6, OnlyCalls
  <1>6. CASE Head(Top.todo) \notin collection
    <2>1. FindExternal(Head(Top.todo))
      BY <1>6 DEF FindImport
    <2>2. QED BY <1>0, <1>3, <2>1, FindExternalInv
  <1>7. QED BY <1>5, <1>6

\* a compiled file that will not do
LEMMA StaleInv == LibrariesInv /\ Stale => LibrariesInv'
  <1> SUFFICES ASSUME LibrariesInv, Stale PROVE LibrariesInv'
    OBVIOUS
  <1> DEFINE f == Source(Top.lib)
  <1>1. /\ stack # << >> /\ Top.do = "load" /\ stack' = Append(Caller, f)
        /\ UNCHANGED <<collection, invokeState, visitState, starts, finished>>
    BY DEF Stale, AtCall
  <1>2. Top \in CallRecord /\ CallsIn(Caller, {})
    BY <1>1, TopCall DEF Entered
  <1>3. Top.lib \in Library
    BY <1>2 DEF CallRecord
  <1>4. f \in CallRecord /\ f.do \in {"find", "load"} /\ NamedBy(f) \subseteq ToSet(f.todo)
    BY <1>3, FileCalls
  <1> HIDE DEF f
  <1>5. CallsIn(stack', {})
    BY <1>1, <1>2, <1>4, OtherCall DEF Entered
  <1>6. QED BY <1>1, <1>5, OnlyCalls

\* when a file has found all it names, all it refers to is installed
LEMMA AllFound ==
  ASSUME LibrariesInv, stack # << >>, Top.do \in {"find", "load"}, Top.todo = << >>
  PROVE  Requires(Top.lib) \subseteq collection
  <1>1. Top \in CallRecord /\ Len(stack) \in 1 .. Len(stack)
    BY TopCall
  <1>2. Top.lib \in Library
    BY <1>1 DEF CallRecord
  <1>3. NamedBy(Top) \subseteq collection
    BY <1>1, NothingLeft DEF LibrariesInv, FindIn, Top
  <1>4. CASE Top.do = "load"
    BY <1>3, <1>4 DEF NamedBy
  <1>5. CASE Top.do = "find"
    <2>1. ToSet(File[Top.lib].imp) \subseteq collection
      BY <1>3, <1>5 DEF NamedBy
    <2>2. QED BY <1>2, <2>1, FoundInReach
  <1>6. QED BY <1>4, <1>5

\* install-library
LEMMA InstallInv == LibrariesInv /\ Install => LibrariesInv'
  <1> SUFFICES ASSUME LibrariesInv, Install PROVE LibrariesInv'
    OBVIOUS
  <1>0. /\ stack # << >> /\ Top.do \in {"find", "load"} /\ Top.todo = << >>
        /\ UNCHANGED <<invokeState, visitState, starts, finished>>
    BY DEF Install, AtCall
  <1>1. Top \in CallRecord /\ CallsIn(Caller, {})
    BY <1>0, TopCall DEF Entered
  <1>3. CASE RaiseFrom(stack) /\ UNCHANGED collection
    <2>1. CallsIn(stack, {})
      BY DEF LibrariesInv, LibrariesType, CallsIn
    <2>2. CallsIn(stack', {})
      BY <1>3, <2>1, Raised
    <2>3. QED BY <1>0, <1>3, <2>2, OnlyCalls
  <1>4. CASE collection' = collection \cup {Top.lib} /\ stack' = Caller
    <2>1. Top.lib \in Library
      BY <1>1 DEF CallRecord
    <2>2. LibrariesType'
      BY <1>0, <1>1, <1>4, <2>1 DEF LibrariesInv, LibrariesType, CallsIn
    <2>3. FindIn(stack, collection)'
      BY <1>1, <1>4 DEF CallsIn, FindIn
    <2>4. NeedsIn(stack, finished, {})' /\ EnteredIn(stack, invokeState, finished, starts)'
      BY <1>0, <1>1, <1>4 DEF CallsIn
    <2>5. StartsInv' /\ VisitsInv'
      BY <1>0 DEF LibrariesInv, StartsInv, VisitsInv
    <2>6. Requires(Top.lib) \subseteq collection
      BY <1>0, AllFound
    <2>7. ClosedInv'
      BY <1>4, <2>6 DEF LibrariesInv, ClosedInv
    <2>8. QED BY <2>2, <2>3, <2>4, <2>5, <2>7 DEF LibrariesInv
  <1>5. QED BY <1>3, <1>4 DEF Install

\* the libraries that one needs
LEMMA InvokeRequiredInv == LibrariesInv /\ InvokeRequired => LibrariesInv'
  <1> SUFFICES ASSUME LibrariesInv, InvokeRequired PROVE LibrariesInv'
    OBVIOUS
  <1> DEFINE f == [Top EXCEPT !.todo = Tail(@)]
             w == {Head(Top.todo)}
  <1>0. /\ stack # << >> /\ Top.do \in {"invoke", "visit"} /\ Top.todo # << >>
        /\ UNCHANGED <<collection, visitState, starts, finished>>
        /\ EnterInvoke(Append(Caller, f), Head(Top.todo))
    BY DEF InvokeRequired, AtCall
  <1>1. /\ Top \in CallRecord /\ Len(stack) \in 1 .. Len(stack)
        /\ Top.do \in Entered => CallsIn(Caller, {Top.lib})
        /\ Top.do \notin Entered => CallsIn(Caller, {})
        /\ Len(Caller) = Len(stack) - 1
        /\ \A i \in 1 .. Len(stack) - 1 : Caller[i] = stack[i]
    BY <1>0, TopCall
  <1>2. Top.todo \in Seq(Library)
    BY <1>1 DEF CallRecord
  <1>3. /\ Head(Top.todo) \in Library /\ Tail(Top.todo) \in Seq(Library)
        /\ ToSet(Top.todo) = ToSet(Tail(Top.todo)) \cup w
    BY <1>0, <1>2, WithoutHead
  <1>4. /\ f \in CallRecord /\ f.do = Top.do /\ f.lib = Top.lib /\ f.was = Top.was
        /\ f.todo = Tail(Top.todo)
    BY <1>1, <1>3 DEF CallRecord
  <1> DEFINE s == Append(Caller, f)
  <1> HIDE DEF f
  <1>5. PICK v : CallsIn(Caller, v) /\ \A m \in v : f.do \in Entered /\ f.lib = m
    BY <1>1, <1>4
  <1>6. \A m \in Refers(f) : m \in ToSet(f.todo) \cup finished \cup w
    <2>1. \A m \in Refers(Top) : m \in ToSet(Top.todo) \cup finished
      BY <1>0, <1>1 DEF LibrariesInv, NeedsIn, Top
    <2>2. Refers(f) = Refers(Top)
      BY <1>4 DEF Refers
    <2>3. QED BY <1>3, <1>4, <2>1, <2>2
  <1>7. /\ f.do \in Entered => f.lib \notin finished /\ invokeState[f.lib] # ToInvoke
        /\ f.do = "invoke" /\ f.was = ToInvoke => starts[f.lib] = 0
    BY <1>1, <1>4 DEF LibrariesInv, EnteredIn, Top
  <1>8. First(f) => \A j \in 1 .. Len(Caller) : Caller[j].do \in Entered => Caller[j].lib # f.lib
    <2>1. First(f) => First(Top)
      BY <1>4 DEF First
    <2>2. First(Top) =>
            \A j \in 1 .. Len(stack) - 1 : stack[j].do \in Entered => stack[j].lib # Top.lib
      BY <1>1 DEF LibrariesInv, EnteredIn, Top
    <2>3. QED BY <1>1, <1>4, <2>1, <2>2
  <1>9. CallsIn(s, w)
    <2>0. Caller \in Seq(CallRecord)
      BY <1>5 DEF CallsIn
    <2>1. s \in Seq(CallRecord)
      BY <1>4, <2>0, OneMore
    <2>2. f.do \notin {"find", "load", "visiting"}
      BY <1>0, <1>4
    <2>3. FindIn(s, collection)
      BY <1>4, <1>5, <2>0, <2>2, FindAppend DEF CallsIn
    <2>4. NeedsIn(s, finished, w)
      <3> HIDE DEF w
      <3>1. QED BY <1>4, <1>5, <1>6, <2>0, NeedsAppend DEF CallsIn
    <2>5. EnteredIn(s, invokeState, finished, starts)
      BY <1>4, <1>5, <1>7, <1>8, <2>0, <2>2, EnteredAppend DEF CallsIn
    <2>6. QED BY <2>1, <2>3, <2>4, <2>5 DEF CallsIn
  <1>10. EnterInvoke(s, Head(Top.todo))
    BY <1>0 DEF f
  <1> HIDE DEF s
  <1>11. QED BY <1>0, <1>3, <1>9, <1>10, EnterInvokeInv

\* the code of a library, when all it needs has returned
LEMMA InvokeCodeInv == LibrariesInv /\ InvokeCode => LibrariesInv'
  <1> SUFFICES ASSUME LibrariesInv, InvokeCode PROVE LibrariesInv'
    OBVIOUS
  <1> DEFINE l == Top.lib
  <1>0. /\ stack # << >> /\ Top.do = "invoke" /\ Top.todo = << >>
        /\ invokeState' = [invokeState EXCEPT ![l] = Unreturned]
        /\ UNCHANGED <<collection, visitState, finished>>
    BY DEF InvokeCode, AtCall, WhileRunning
  <1>1. /\ Top \in CallRecord /\ Len(stack) \in 1 .. Len(stack) /\ CallsIn(Caller, {l})
        /\ Len(Caller) = Len(stack) - 1
        /\ \A i \in 1 .. Len(stack) - 1 : Caller[i] = stack[i]
    BY <1>0, TopCall
  <1>2. l \in Library
    BY <1>1 DEF CallRecord
  <1>3. /\ invokeState \in [Library -> States] /\ starts \in [Library -> Nat]
        /\ CallsIn(stack, {})
    BY DEF LibrariesInv, LibrariesType, CallsIn
  <1>4. l \notin finished /\ (Top.was = ToInvoke => starts[l] = 0)
    BY <1>0, <1>1 DEF LibrariesInv, EnteredIn, Top, Entered
  <1>5. Unreturned # ToInvoke /\ Unreturned # Invoked /\ Unreturned \in States
    BY DEF Unreturned, ToInvoke, Invoked, States
  <1>6. /\ invokeState' \in [Library -> States] /\ invokeState'[l] = Unreturned
        /\ \A k \in Library : k # l => invokeState'[k] = invokeState[k]
    BY <1>0, <1>2, <1>3, <1>5
  <1>7. \A k \in Library : invokeState[k] # ToInvoke => invokeState'[k] # ToInvoke
    BY <1>5, <1>6
  <1>8. \A k \in Library : invokeState'[k] = Invoked <=> k \in finished
    BY <1>4, <1>5, <1>6 DEF LibrariesInv, StartsInv
  <1>9. VisitsInv' /\ ClosedInv'
    BY <1>0 DEF LibrariesInv, VisitsInv, ClosedInv
  <1> HIDE DEF l
  <1>10. CASE Top.was = ToInvoke
    <2> DEFINE f == [Top EXCEPT !.do = "invoking"]
    <2>1. stack' = Append(Caller, f) /\ starts' = [starts EXCEPT ![l] = @ + 1]
      BY <1>10 DEF InvokeCode, l
    <2>2. f \in CallRecord /\ f.do = "invoking" /\ f.lib = l
      BY <1>1 DEF CallRecord, l
    <2> HIDE DEF f
    <2>3. /\ starts' \in [Library -> Nat] /\ starts'[l] = 1
          /\ \A k \in Library : k # l => starts'[k] = starts[k]
      BY <1>2, <1>3, <1>4, <1>10, <2>1
    <2>4. Caller \in Seq(CallRecord) /\ stack' \in Seq(CallRecord)
      BY <1>1, <2>1, <2>2, OneMore DEF CallsIn
    <2>5. LibrariesType'
      BY <1>0, <1>6, <2>3, <2>4 DEF LibrariesInv, LibrariesType
    <2>6. FindIn(stack', collection)
      BY <1>1, <2>1, <2>2, <2>4, FindAppend DEF CallsIn
    <2>7. NeedsIn(stack', finished, {})
      BY <1>1, <2>1, <2>2, <2>4, NeedsAppend DEF CallsIn, Entered
    <2>8. \A j \in 1 .. Len(Caller) : Caller[j].do \in Entered => Caller[j].lib # l
      <3>1. First(Top)
        BY <1>0, <1>10 DEF First
      <3>2. \A j \in 1 .. Len(stack) - 1 : stack[j].do \in Entered => stack[j].lib # l
        BY <1>1, <3>1 DEF LibrariesInv, EnteredIn, Top, l
      <3>3. QED BY <1>1, <3>2
    <2>9. EnteredIn(Caller, invokeState', finished, starts)
      BY <1>1, <1>7, <2>4, EnteredState DEF CallsIn
    <2>10. EnteredIn(Caller, invokeState', finished, starts')
      <3>1. \A i \in 1 .. Len(Caller) : Caller[i] \in CallRecord
        BY <2>4
      <3>2. \A i \in 1 .. Len(Caller) : Caller[i].lib \in Library
        BY <3>1 DEF CallRecord
      <3>3. \A i \in 1 .. Len(Caller) :
              Caller[i].do = "invoke" => starts'[Caller[i].lib] = starts[Caller[i].lib]
        BY <2>3, <2>8, <3>2 DEF Entered
      <3>4. QED BY <2>9, <3>3 DEF EnteredIn
    <2>11. EnteredIn(stack', invokeState', finished, starts')
      BY <1>4, <1>5, <1>6, <2>1, <2>2, <2>4, <2>8, <2>10, EnteredAppend
    <2>12. ToSet(File[l].inv) \subseteq finished
      <3>1. Refers(Top) = ToSet(File[l].inv)
        BY <1>0 DEF Refers, l
      <3>2. QED BY <1>0, <1>1, <3>1, NothingLeft DEF LibrariesInv, NeedsIn, Top
    <2>13. StartsInv'
      <3> SUFFICES ASSUME NEW k \in Library
                   PROVE  /\ invokeState'[k] = ToInvoke => starts'[k] = 0
                          /\ starts'[k] <= 1
                          /\ starts'[k] = 1 => ToSet(File[k].inv) \subseteq finished
        BY <1>0, <1>8 DEF StartsInv
      <3>1. CASE k = l
        BY <1>5, <1>6, <2>3, <2>12, <3>1
      <3>2. CASE k # l
        <4>1. starts'[k] = starts[k] /\ invokeState'[k] = invokeState[k]
          BY <1>6, <2>3, <3>2
        <4>2. QED BY <4>1 DEF LibrariesInv, StartsInv
      <3>3. QED BY <3>1, <3>2
    <2>14. QED BY <1>0, <1>9, <2>5, <2>6, <2>7, <2>11, <2>13 DEF LibrariesInv
  <1>11. CASE RaiseFrom(stack) /\ UNCHANGED starts
    <2>1. CallsIn(stack', {})
      BY <1>3, <1>11, Raised
    <2>2. LibrariesType'
      BY <1>0, <1>6, <1>11, <2>1 DEF LibrariesInv, LibrariesType, CallsIn
    <2>3. FindIn(stack, collection)' /\ NeedsIn(stack, finished, {})'
      BY <1>0, <2>1 DEF CallsIn
    <2>4. EnteredIn(stack', invokeState', finished, starts)
      BY <1>7, <2>1, EnteredState DEF CallsIn
    <2>5. StartsInv'
      <3>1. \A k \in Library : invokeState'[k] = ToInvoke => invokeState[k] = ToInvoke
        BY <1>7
      <3>2. QED BY <1>0, <1>8, <1>11, <3>1 DEF LibrariesInv, StartsInv
    <2>6. QED BY <1>0, <1>9, <1>11, <2>2, <2>3, <2>4, <2>5 DEF LibrariesInv
  <1>12. QED BY <1>10, <1>11 DEF InvokeCode

\* the code for the expander, when all that it refers to has returned
LEMMA VisitCodeInv == LibrariesInv /\ VisitCode => LibrariesInv'
  <1> SUFFICES ASSUME LibrariesInv, VisitCode PROVE LibrariesInv'
    OBVIOUS
  <1> DEFINE l == Top.lib
  <1>0. /\ stack # << >> /\ Top.do = "visit" /\ Top.todo = << >>
        /\ visitState' = [visitState EXCEPT ![l] = Unreturned]
        /\ UNCHANGED <<collection, invokeState, starts, finished>>
    BY DEF VisitCode, AtCall, WhileRunning
  <1>1. Top \in CallRecord /\ CallsIn(Caller, {}) /\ Len(stack) \in 1 .. Len(stack)
    BY <1>0, TopCall DEF Entered
  <1>2. visitState \in [Library -> States] /\ l \in Library
    BY <1>1 DEF LibrariesInv, LibrariesType, CallRecord
  <1>3. /\ visitState' \in [Library -> States]
        /\ \A k \in Library : k # l => visitState'[k] = visitState[k]
    BY <1>0, <1>2 DEF States
  <1>4. ToSet(File[l].vis) \subseteq finished
    <2>1. Refers(Top) = ToSet(File[l].vis)
      BY <1>0 DEF Refers
    <2>2. QED BY <1>0, <1>1, <2>1, NothingLeft DEF LibrariesInv, NeedsIn, Top
  <1>5. VisitsInv'
    <2> SUFFICES ASSUME NEW k \in Library, visitState'[k] \in {Unreturned, Invoked}
                 PROVE  ToSet(File[k].vis) \subseteq finished
      BY <1>0 DEF VisitsInv
    <2>1. CASE k = l
      BY <1>4, <2>1
    <2>2. CASE k # l
      BY <1>3, <2>2 DEF LibrariesInv, VisitsInv
    <2>3. QED BY <2>1, <2>2
  <1>6. CASE stack' = Append(Caller, [Top EXCEPT !.do = "visiting"])
    <2> DEFINE f == [Top EXCEPT !.do = "visiting"]
    <2>1. f \in CallRecord /\ f.do = "visiting" /\ f.lib = l
      BY <1>1 DEF CallRecord
    <2>2. stack' = Append(Caller, f)
      BY <1>6
    <2> HIDE DEF f
    <2>3. CallsIn(stack', {})
      BY <1>1, <1>4, <2>1, <2>2, OtherCall DEF Entered
    <2>4. QED BY <1>0, <1>3, <1>5, <2>3, OnlyVisits
  <1>7. CASE RaiseFrom(stack)
    <2>1. CallsIn(stack, {})
      BY DEF LibrariesInv, LibrariesType, CallsIn
    <2>2. CallsIn(stack', {})
      BY <1>7, <2>1, Raised
    <2>3. QED BY <1>0, <1>3, <1>5, <2>2, OnlyVisits
  <1>8. QED BY <1>6, <1>7 DEF VisitCode

\* the code returns: no call below is for the same library
LEMMA CodeReturnsInv == LibrariesInv /\ CodeReturns => LibrariesInv'
  <1> SUFFICES ASSUME LibrariesInv, CodeReturns PROVE LibrariesInv'
    OBVIOUS
  <1> DEFINE l == Top.lib
  <1>0. stack # << >> /\ stack' = Caller /\ UNCHANGED <<collection, starts>>
    BY DEF CodeReturns, AtCall
  <1>1. CASE /\ Top.do = "visiting" /\ visitState' = [visitState EXCEPT ![l] = Invoked]
             /\ UNCHANGED <<invokeState, finished>>
    <2>1. CallsIn(stack', {}) /\ Len(stack) \in 1 .. Len(stack) /\ Top \in CallRecord
      BY <1>0, <1>1, TopCall DEF Entered
    <2>2. visitState \in [Library -> States] /\ l \in Library
      BY <2>1 DEF LibrariesInv, LibrariesType, CallRecord
    <2>3. /\ visitState' \in [Library -> States]
          /\ \A k \in Library : k # l => visitState'[k] = visitState[k]
      BY <1>1, <2>2 DEF States
    <2>4. ToSet(File[l].vis) \subseteq finished
      BY <1>1, <2>1 DEF LibrariesInv, EnteredIn, Top
    <2>5. VisitsInv'
      <3> SUFFICES ASSUME NEW k \in Library, visitState'[k] \in {Unreturned, Invoked}
                   PROVE  ToSet(File[k].vis) \subseteq finished
        BY <1>1 DEF VisitsInv
      <3>1. CASE k = l
        BY <2>4, <3>1
      <3>2. CASE k # l
        BY <2>3, <3>2 DEF LibrariesInv, VisitsInv
      <3>3. QED BY <3>1, <3>2
    <2>6. QED BY <1>0, <1>1, <2>1, <2>3, <2>5, OnlyVisits
  <1>2. CASE /\ Top.do = "invoking" /\ invokeState' = [invokeState EXCEPT ![l] = Invoked]
             /\ finished' = finished \cup {l} /\ UNCHANGED visitState
    <2>1. /\ Top \in CallRecord /\ Len(stack) \in 1 .. Len(stack) /\ CallsIn(Caller, {l})
          /\ Len(Caller) = Len(stack) - 1
          /\ \A i \in 1 .. Len(stack) - 1 : Caller[i] = stack[i]
      BY <1>0, TopCall
    <2>2. l \in Library
      BY <2>1 DEF CallRecord
    <2>3. Invoked # ToInvoke /\ Invoked \in States
      BY DEF Invoked, ToInvoke, States
    <2>4. /\ invokeState' \in [Library -> States] /\ invokeState'[l] = Invoked
          /\ \A k \in Library : k # l => invokeState'[k] = invokeState[k]
      BY <1>2, <2>2, <2>3 DEF LibrariesInv, LibrariesType
    <2>5. LibrariesType'
      BY <1>0, <1>2, <2>1, <2>4 DEF LibrariesInv, LibrariesType, CallsIn
    <2>6. FindIn(stack, collection)'
      BY <1>0, <2>1 DEF CallsIn
    <2>7. NeedsIn(Caller, finished', {})
      <3>1. finished \subseteq finished' /\ {l} \subseteq finished'
        BY <1>2
      <3>2. QED BY <2>1, <3>1, NeedsReturned DEF CallsIn
    <2>8. invokeState[l] # ToInvoke
      BY <1>2, <2>1 DEF LibrariesInv, EnteredIn, Top, Entered
    <2>9. \A j \in 1 .. Len(Caller) : Caller[j].do \in Entered => Caller[j].lib # l
      <3>1. First(Top)
        BY <1>2 DEF First
      <3>2. \A j \in 1 .. Len(stack) - 1 : stack[j].do \in Entered => stack[j].lib # l
        BY <2>1, <3>1 DEF LibrariesInv, EnteredIn, Top
      <3>3. QED BY <2>1, <3>2
    <2> HIDE DEF l
    <2>10. EnteredIn(Caller, invokeState', finished, starts)
      <3>1. \A k \in Library : invokeState[k] # ToInvoke => invokeState'[k] # ToInvoke
        BY <2>3, <2>4
      <3>2. QED BY <2>1, <3>1, EnteredState DEF CallsIn
    <2>11. EnteredIn(Caller, invokeState', finished', starts)
      BY <1>2, <2>9, <2>10 DEF EnteredIn
    <2>12. StartsInv'
      <3> SUFFICES ASSUME NEW k \in Library
                   PROVE  /\ invokeState'[k] = ToInvoke => starts[k] = 0
                          /\ starts[k] <= 1
                          /\ starts[k] = 1 => ToSet(File[k].inv) \subseteq finished'
                          /\ invokeState'[k] = Invoked <=> k \in finished'
        BY <1>0 DEF StartsInv
      <3>1. /\ invokeState[k] = ToInvoke => starts[k] = 0
            /\ starts[k] <= 1
            /\ starts[k] = 1 => ToSet(File[k].inv) \subseteq finished
            /\ invokeState[k] = Invoked <=> k \in finished
        BY DEF LibrariesInv, StartsInv
      <3>2. CASE k = l
        BY <1>2, <2>3, <2>4, <3>1, <3>2
      <3>3. CASE k # l
        BY <1>2, <2>4, <3>1, <3>3
      <3>4. QED BY <3>2, <3>3
    <2>13. VisitsInv' /\ ClosedInv'
      BY <1>0, <1>2 DEF LibrariesInv, VisitsInv, ClosedInv
    <2>14. QED BY <1>0, <2>5, <2>6, <2>7, <2>11, <2>12, <2>13 DEF LibrariesInv
  <1>3. QED BY <1>1, <1>2 DEF CodeReturns, AtCall

\* a program or code that imports
LEMMA ImportInv == \A l \in Library : LibrariesInv /\ Import(l) => LibrariesInv'
  <1> SUFFICES ASSUME NEW l \in Library, LibrariesInv, Import(l) PROVE LibrariesInv'
    OBVIOUS
  <1> DEFINE f == Frame("import", l, << >>, ToInvoke)
  <1>1. f \in CallRecord /\ f.do = "import"
    BY DEF CallRecord, Frame, States
  <1>2. /\ stack' = Append(stack, f)
        /\ UNCHANGED <<collection, invokeState, visitState, starts, finished>>
    BY DEF Import
  <1> HIDE DEF f
  <1>3. CallsIn(stack, {})
    BY DEF LibrariesInv, LibrariesType, CallsIn
  <1>4. CallsIn(stack', {})
    BY <1>1, <1>2, <1>3, OtherCall DEF Entered
  <1>5. QED BY <1>2, <1>4, OnlyCalls

\* what it imports is found, and what it evaluates is expanded and run
LEMMA ImportedInv ==
  LibrariesInv /\ (FindImported \/ Expanded \/ Evaluated) => LibrariesInv'
  <1> SUFFICES ASSUME LibrariesInv, FindImported \/ Expanded \/ Evaluated PROVE LibrariesInv'
    OBVIOUS
  <1>1. /\ stack # << >> /\ Top.do \in {"import", "evaluate"}
        /\ UNCHANGED <<collection, invokeState, visitState, starts, finished>>
    BY DEF FindImported, Expanded, Evaluated, AtCall
  <1>2. Top \in CallRecord /\ CallsIn(Caller, {})
    BY <1>1, TopCall DEF Entered
  <1>3. CASE FindImported
    <2>1. Top.lib \in Library
      BY <1>2 DEF CallRecord
    <2>2. QED BY <1>1, <1>3, <2>1, FindExternalInv DEF FindImported
  <1>4. CASE Expanded
    <2> DEFINE f == [Top EXCEPT !.do = "evaluate"]
    <2>1. f \in CallRecord /\ f.do = "evaluate"
      BY <1>2 DEF CallRecord
    <2>2. stack' = Append(Caller, f)
      BY <1>4 DEF Expanded
    <2> HIDE DEF f
    <2>3. CallsIn(stack', {})
      BY <1>2, <2>1, <2>2, OtherCall DEF Entered
    <2>4. QED BY <1>1, <2>3, OnlyCalls
  <1>5. CASE Evaluated
    <2>1. CallsIn(stack', {})
      BY <1>2, <1>5 DEF Evaluated
    <2>2. QED BY <1>1, <2>1, OnlyCalls
  <1>6. QED BY <1>3, <1>4, <1>5

\* an error of code, or of a file
LEMMA LibraryFailsInv == LibrariesInv /\ LibraryFails => LibrariesInv'
  <1> SUFFICES ASSUME LibrariesInv, LibraryFails PROVE LibrariesInv'
    OBVIOUS
  <1>1. /\ stack # << >> /\ RaiseFrom(Caller)
        /\ UNCHANGED <<collection, invokeState, visitState, starts, finished>>
    BY DEF LibraryFails
  <1>2. CallsIn(Caller, {Top.lib})
    BY <1>1, TopCall
  <1>3. CallsIn(stack', {})
    BY <1>1, <1>2, Raised
  <1>4. QED BY <1>1, <1>3, OnlyCalls

\* a macro is used, or code refers to a library that is to be run
LEMMA ReferredInv ==
  \A l \in Library : LibrariesInv /\ (VisitForMacro(l) \/ InvokeReferred(l)) => LibrariesInv'
  <1> SUFFICES ASSUME NEW l \in Library, LibrariesInv, VisitForMacro(l) \/ InvokeReferred(l)
               PROVE  LibrariesInv'
    OBVIOUS
  <1>1. CASE VisitForMacro(l)
    BY <1>1, EnterVisitInv DEF VisitForMacro
  <1>2. CASE InvokeReferred(l)
    <2>1. CallsIn(stack, {}) /\ {} \subseteq {l}
      BY DEF LibrariesInv, LibrariesType, CallsIn
    <2>2. EnterInvoke(stack, l) /\ UNCHANGED <<collection, visitState, starts, finished>>
      BY <1>2 DEF InvokeReferred
    <2>3. QED BY <2>1, <2>2, EnterInvokeInv
  <1>3. QED BY <1>1, <1>2

\* every step
LEMMA LibrariesNextInv == LibrariesInv /\ [LibrariesNext]_lvars => LibrariesInv'
  <1> SUFFICES ASSUME LibrariesInv, [LibrariesNext]_lvars PROVE LibrariesInv'
    OBVIOUS
  <1>1. CASE UNCHANGED lvars
    <2>1. UNCHANGED <<collection, invokeState, visitState, stack, starts, finished>>
      BY <1>1 DEF lvars
    <2>2. CallsIn(stack', {})
      BY <2>1 DEF LibrariesInv, LibrariesType, CallsIn
    <2>3. QED BY <2>1, <2>2, OnlyCalls
  <1>2. QED BY <1>1, FindImportInv, StaleInv, InstallInv, InvokeRequiredInv, InvokeCodeInv,
               VisitCodeInv, CodeReturnsInv, ImportInv, ImportedInv, ReferredInv, LibraryFailsInv
            DEF LibrariesNext

-----------------------------------------------------------------------------

\* Whatever libraries import, and whatever their code and transformers refer to of what
\* that brings in; and whatever fails and is tried again, also from code that is being
\* invoked or expanded: the code of a library starts once at most, after the code of
\* all that it refers to has returned (invoke-library), its macros are set up after the
\* code of all that its transformers refer to has (visit-library), and what an installed
\* library imports and refers to is installed (install-library).
THEOREM LibrariesInOrder == LibrariesSpec => []InvokedInOrder
  <1>1. LibrariesInv => InvokedInOrder
    <2> SUFFICES ASSUME LibrariesInv PROVE InvokedInOrder
      OBVIOUS
    <2>1. (AtCall("find") \/ AtCall("load")) /\ Top.todo = << >> =>
            Requires(Top.lib) \subseteq collection
      BY AllFound DEF AtCall
    <2>2. QED BY <2>1 DEF LibrariesInv, StartsInv, VisitsInv, ClosedInv, InvokedInOrder
  <1>2. QED BY <1>1, LibrariesInitInv, LibrariesNextInv, PTL DEF LibrariesSpec

--------------------------------------------------------------------------------
(* Proof that the winders follow the frames, that in and out alternate and   *)
(* that a throw leaves shared extents alone.                                 *)
(*                                                                           *)
(* A continuation holds frames, whose continuations hold frames, to any      *)
(* depth; the invariant says that they are all in one set F of sound frames. *)
(* The lists of extents are ends of each other because an extent is put on   *)
(* one list only: up[e] is what is below e on every list that e is on.       *)

\* the extents that one frame names
FrameNames(f) ==
  CASE f.at = "body" -> {f.id}
    [] f.at \in {"unwind", "rewind"} -> ToSet(f.ls) \cup ToSet(f.from) \cup ToSet(f.new) \cup f.names
    [] OTHER -> {}

\* the list of extents above r when frame f waits above the code of r
Above(f, r) ==
  CASE f.at = "body" -> <<f.id>> \o r
    [] f.at = "unwind" -> f.ls
    [] f.at = "rewind" -> Tail(f.ls)
    [] OTHER -> r

\* a list that has below each extent what is below it everywhere
Lists(up) == {A \in Seq(Extent) : \A i \in 1 .. Len(A) : SubSeq(A, i + 1, Len(A)) = up[A[i]]}

\* what a frame of do-wind keeps of its throw
Winding(f) ==
  [at |-> f.at, ls |-> f.ls, tail |-> f.tail, new |-> f.new, from |-> f.from,
   k |-> f.k, names |-> f.names, within |-> f.within]
Throwing(f, F, up) ==
  /\ f = Winding(f)
  /\ f.k \in Seq(F) /\ f.new = Extents(f.k) /\ f.names = Names(f.k)
  /\ f.new \in Lists(up) /\ f.from \in Lists(up) /\ f.tail \in Lists(up)
  /\ Ends(f.tail, f.new)
  /\ ToSet(f.new) \cap ToSet(f.from) \subseteq ToSet(f.tail)

\* the extents from ls on are still to be left: those of ls down to the common tail
Leaving(f, ls, up) == ls \in Lists(up) /\ Ends(f.tail, ls) /\ Ends(ls, f.from)
\* the extents above ls are still to be entered
Entering(f, ls, up) == ls \in Lists(up) /\ Ends(f.tail, ls) /\ Ends(ls, f.new)

Sound(f, F, up) ==
  \/ f.at \in {"in", "out"} /\ f = [at |-> f.at]
  \/ f.at = "body" /\ f.id \in Extent /\ f = [at |-> "body", id |-> f.id]
  \/ f.at = "unwind" /\ Throwing(f, F, up) /\ Leaving(f, f.ls, up)
  \/ /\ f.at = "rewind" /\ Throwing(f, F, up)
     /\ f.ls # << >> /\ f.ls \in Lists(up) /\ Ends(f.ls, f.new) /\ Ends(f.tail, Tail(f.ls))

\* the places kept, and the two variables that run
PlacesSound(k, F, up) ==
  /\ k \in [Place -> [k : Seq(F), save : Seq(Int)]]
  /\ \A s \in Place : k[s] # NoPlace => k[s].save \in Lists(up) /\ k[s].save = Extents(k[s].k)
EnteredOn(w) == [e \in Extent |-> IF e \in ToSet(w) THEN 1 ELSE 0]
RunSound(w, fs, en, F, up) ==
  /\ fs \in Seq(F) /\ w \in Lists(up) /\ w = Extents(fs) /\ en = EnteredOn(w)
FramesSound(F, up) == up \in [Extent -> Seq(Extent)] /\ \A f \in F : Sound(f, F, up)

WindersInv ==
  \E F, up : /\ FramesSound(F, up)
             /\ PlacesSound(kept, F, up)
             /\ RunSound(winders, frames, entered, F, up)

-----------------------------------------------------------------------------
(* The list that frames stand for *)

\* the function that Extents is made of
IsFrom(fs, g) ==
  g = [i \in 1 .. Len(fs) + 1 |->
         IF i > Len(fs) THEN << >>
         ELSE CASE fs[i].at = "body" -> <<fs[i].id>> \o g[i + 1]
                [] fs[i].at = "unwind" -> fs[i].ls
                [] fs[i].at = "rewind" -> Tail(fs[i].ls)
                [] OTHER -> g[i + 1]]
\* ... by the places it is defined at
FromAt(fs, g, i) == g[i] = IF i > Len(fs) THEN << >> ELSE Above(fs[i], g[i + 1])

\* a function that is right at each place is that of the frames
LEMMA FromByPlaces ==
  ASSUME NEW F, NEW fs \in Seq(F), NEW g,
         g = [i \in 1 .. Len(fs) + 1 |-> g[i]], \A i \in 1 .. Len(fs) + 1 : FromAt(fs, g, i)
  PROVE  IsFrom(fs, g)
  BY Zenon DEF IsFrom, FromAt, Above

\* and that of the frames is right at each place
LEMMA FromAtPlaces ==
  ASSUME NEW F, NEW fs \in Seq(F), NEW g, IsFrom(fs, g)
  PROVE  \A i \in 1 .. Len(fs) + 1 : FromAt(fs, g, i)
  BY Zenon DEF IsFrom, FromAt, Above

\* there is such a function: one for the frames from m on can be had for every m
LEMMA FromExists ==
  ASSUME NEW F, NEW fs \in Seq(F)
  PROVE  \E g : IsFrom(fs, g)
  <1> DEFINE n == Len(fs) + 1
             Has(m) == \E g : /\ g = [i \in 1 .. n |-> g[i]]
                              /\ \A i \in 1 .. n : i > n - m => FromAt(fs, g, i)
             T == {m \in 0 .. n : ~Has(m)}
  <1>1. n \in Nat /\ n >= 1 /\ Len(fs) \in Nat /\ n = Len(fs) + 1
    OBVIOUS
  <1>2. ASSUME T # {} PROVE FALSE
    <2>1. T \subseteq Nat
      <3> HIDE DEF n, Has
      <3>1. QED BY <1>1
    <2>2. PICK m \in T : \A j \in T : m <= j
      <3> HIDE DEF T
      <3>1. QED BY <1>2, <2>1, LeastNumber
    <2>3. m # 0
      <3>1. Has(0)
        <4> DEFINE g == [i \in 1 .. n |-> << >>]
        <4>1. g = [i \in 1 .. n |-> g[i]]
          OBVIOUS
        <4>2. \A i \in 1 .. n : ~(i > n - 0)
          BY <1>1
        <4>3. \A i \in 1 .. n : i > n - 0 => FromAt(fs, g, i)
          BY <4>2
        <4> HIDE DEF g, n
        <4>4. QED BY <4>1, <4>3
      <3>2. QED BY <3>1
    <2>4. m \in 0 .. n /\ ~Has(m)
      OBVIOUS
    <2>5. m - 1 \in 0 .. n /\ ~(m <= m - 1)
      <3> HIDE DEF n, Has, T
      <3>1. QED BY <2>3, <2>4, <1>1
    <2>6. Has(m - 1)
      <3> HIDE DEF n, Has
      <3>1. m - 1 \notin T
        <4> HIDE DEF T
        <4>1. QED BY <2>2, <2>5
      <3>2. QED BY <2>5, <3>1
    <2>7. PICK h : /\ h = [i \in 1 .. n |-> h[i]]
                   /\ \A i \in 1 .. n : i > n - (m - 1) => FromAt(fs, h, i)
      BY <2>6
    <2> DEFINE p == n - m + 1
               v == IF p > Len(fs) THEN << >> ELSE Above(fs[p], h[p + 1])
               g == [i \in 1 .. n |-> IF i = p THEN v ELSE h[i]]
    <2>8. p \in 1 .. n /\ p = n - (m - 1)
      BY <1>1, <2>3, <2>4
    <2>9. g[p] = v /\ \A i \in 1 .. n : i # p => g[i] = h[i]
      <3> HIDE DEF v, p, n
      <3>1. QED BY <2>8
    <2>10. FromAt(fs, g, p)
      <3>1. p <= Len(fs) => p + 1 \in 1 .. n /\ p + 1 # p
        <4> HIDE DEF p
        <4>1. QED BY <1>1, <2>8
      <3>2. p <= Len(fs) => g[p + 1] = h[p + 1]
        BY <2>9, <3>1
      <3>3. p > Len(fs) \/ p <= Len(fs)
        <4> HIDE DEF p
        <4>1. QED BY <1>1, <2>8
      <3> HIDE DEF g, p, n
      <3>4. QED BY <2>9, <3>2, <3>3 DEF FromAt
    <2>11. ASSUME NEW i \in 1 .. n, i > n - m, i # p PROVE FromAt(fs, g, i)
      <3>1. i > n - (m - 1) /\ i > p
        <4> HIDE DEF n
        <4>1. QED BY <1>1, <2>4, <2>11
      <3>2. FromAt(fs, h, i)
        <4> HIDE DEF n
        <4>1. QED BY <2>7, <3>1
      <3>3. i <= Len(fs) => i + 1 \in 1 .. n /\ i + 1 # p
        <4> HIDE DEF p
        <4>1. QED BY <1>1, <2>8, <3>1
      <3>4. g[i] = h[i] /\ (i <= Len(fs) => g[i + 1] = h[i + 1])
        <4> HIDE DEF p, n, g
        <4>1. QED BY <2>9, <2>11, <3>3
      <3>5. i > Len(fs) \/ i <= Len(fs)
        BY <1>1
      <3> HIDE DEF g, p, n
      <3>6. QED BY <3>2, <3>4, <3>5 DEF FromAt
    <2>12. g = [i \in 1 .. n |-> g[i]]
      <3> HIDE DEF v, p, n
      <3>1. QED OBVIOUS
    <2>13. Has(m)
      <3> HIDE DEF g, p, n, v
      <3>1. QED BY <2>10, <2>11, <2>12
    <2>14. QED BY <2>4, <2>13
  <1>3. Has(n)
    <2>1. n \in 0 .. n
      BY <1>1
    <2> HIDE DEF n, Has
    <2>2. QED BY <1>2, <2>1
  <1>4. PICK g : g = [i \in 1 .. n |-> g[i]] /\ \A i \in 1 .. n : i > n - n => FromAt(fs, g, i)
    BY <1>3
  <1>5. \A i \in 1 .. n : i > n - n
    BY <1>1
  <1>6. IsFrom(fs, g)
    BY <1>4, <1>5, FromByPlaces
  <1>7. QED BY <1>6

\* and only one, of whatever frames these are the end
LEMMA FromUnique ==
  ASSUME NEW F, NEW fs \in Seq(F), NEW gs \in Seq(F), NEW c \in Nat, Len(gs) = Len(fs) + c,
         \A i \in 1 .. Len(fs) : fs[i] = gs[i + c],
         NEW g, IsFrom(fs, g), NEW h, IsFrom(gs, h)
  PROVE  \A i \in 1 .. Len(fs) + 1 : g[i] = h[i + c]
  <1> DEFINE n == Len(fs) + 1
             T == {m \in 0 .. n - 1 : g[n - m] # h[n - m + c]}
  <1>1. n \in Nat /\ n >= 1 /\ Len(fs) \in Nat /\ Len(gs) \in Nat /\ n = Len(fs) + 1
    OBVIOUS
  <1>2. ASSUME T # {} PROVE FALSE
    <2>1. T \subseteq Nat
      <3> HIDE DEF n
      <3>1. QED BY <1>1
    <2>2. PICK m \in T : \A j \in T : m <= j
      <3> HIDE DEF T
      <3>1. QED BY <1>2, <2>1, LeastNumber
    <2> DEFINE p == n - m
    <2>3. p \in 1 .. n /\ p + c \in 1 .. Len(gs) + 1 /\ m \in Int /\ g[p] # h[p + c]
      BY <1>1
    <2>4. FromAt(fs, g, p) /\ FromAt(gs, h, p + c)
      <3> HIDE DEF p
      <3>1. QED BY <2>3, FromAtPlaces
    <2>5. p <= Len(fs)
      <3>1. ASSUME p > Len(fs) PROVE FALSE
        <4>1. p + c > Len(gs)
          <5> HIDE DEF p
          <5>1. QED BY <1>1, <2>3, <3>1
        <4> HIDE DEF p
        <4>2. QED BY <2>3, <2>4, <3>1, <4>1 DEF FromAt
      <3> HIDE DEF p
      <3>2. QED BY <1>1, <2>3, <3>1
    <2>6. ~(p > Len(fs)) /\ ~(p + c > Len(gs)) /\ p \in 1 .. Len(fs) /\ p + 1 + c = p + c + 1
      <3> HIDE DEF p
      <3>1. QED BY <1>1, <2>3, <2>5
    <2>7. g[p] = Above(fs[p], g[p + 1]) /\ h[p + c] = Above(gs[p + c], h[p + c + 1])
      <3> HIDE DEF p
      <3>1. QED BY <2>4, <2>6 DEF FromAt
    <2>8. g[p + 1] = h[p + 1 + c]
      <3>1. m - 1 \in 0 .. n - 1 /\ ~(m <= m - 1) /\ n - (m - 1) = p + 1
        BY <1>1, <2>3, <2>5
      <3>2. m - 1 \notin T
        <4> HIDE DEF T, n
        <4>1. QED BY <2>2, <3>1
      <3>3. g[n - (m - 1)] = h[n - (m - 1) + c]
        <4> HIDE DEF n
        <4>1. QED BY <3>1, <3>2
      <3>4. QED BY <3>1, <3>3
    <2>9. fs[p] = gs[p + c]
      BY <2>6
    <2> HIDE DEF p
    <2>10. QED BY <2>3, <2>6, <2>7, <2>8, <2>9
  <1>3. ASSUME NEW i \in 1 .. n PROVE g[i] = h[i + c]
    <2>1. n - i \in 0 .. n - 1 /\ n - (n - i) = i
      BY <1>1
    <2>2. n - i \notin T
      BY <1>2
    <2>3. g[n - (n - i)] = h[n - (n - i) + c]
      <3> HIDE DEF n
      <3>1. QED BY <2>1, <2>2
    <2>4. QED BY <2>1, <2>3
  <1>4. QED BY <1>3

\* what Extents is
LEMMA ExtentsFrom ==
  ASSUME NEW F, NEW fs \in Seq(F), NEW g, IsFrom(fs, g)
  PROVE  Extents(fs) = g[1]
  <1> DEFINE h == CHOOSE h : IsFrom(fs, h)
  <1>1. IsFrom(fs, h)
    <2>1. QED BY FromExists
  <1>2. Extents(fs) = h[1]
    BY Zenon DEF Extents, IsFrom
  <1>3. Len(fs) \in Nat /\ 1 \in 1 .. Len(fs) + 1 /\ Len(fs) = Len(fs) + 0
        /\ \A i \in 1 .. Len(fs) : fs[i] = fs[i + 0]
    OBVIOUS
  <1> HIDE DEF h
  <1>4. h[1] = g[1 + 0]
    BY <1>1, <1>3, FromUnique
  <1>5. QED BY <1>2, <1>4

\* no frames, no extents
LEMMA ExtentsOfNone == Extents(<< >>) = << >>
  <1>1. << >> \in Seq({}) /\ Len(<< >>) = 0
    OBVIOUS
  <1>2. PICK g : IsFrom(<< >>, g)
    BY <1>1, FromExists
  <1>3. 1 \in 1 .. Len(<< >>) + 1 /\ 1 > Len(<< >>)
    BY <1>1
  <1>4. FromAt(<< >>, g, 1)
    BY <1>1, <1>2, <1>3, FromAtPlaces
  <1>5. g[1] = << >>
    BY <1>3, <1>4 DEF FromAt
  <1>6. QED BY <1>1, <1>2, <1>5, ExtentsFrom

\* a frame above others
LEMMA ExtentsCons ==
  ASSUME NEW F, NEW f \in F, NEW fs \in Seq(F)
  PROVE  Extents(<<f>> \o fs) = Above(f, Extents(fs))
  <1> DEFINE gs == <<f>> \o fs
  <1>1. /\ gs \in Seq(F) /\ Len(gs) = Len(fs) + 1 /\ gs[1] = f
        /\ \A i \in 1 .. Len(fs) : fs[i] = gs[i + 1]
    BY ConsFacts
  <1> HIDE DEF gs
  <1>2. PICK g : IsFrom(fs, g)
    BY FromExists
  <1>3. PICK h : IsFrom(gs, h)
    BY <1>1, FromExists
  <1>4. Len(fs) \in Nat /\ 1 \in 1 .. Len(fs) + 1 /\ 1 \in 1 .. Len(gs) + 1 /\ ~(1 > Len(gs)) /\ 1 \in Nat
    BY <1>1
  <1>5. g[1] = h[1 + 1]
    BY <1>1, <1>2, <1>3, <1>4, FromUnique
  <1>6. FromAt(gs, h, 1)
    BY <1>1, <1>3, <1>4, FromAtPlaces
  <1>7. h[1] = Above(f, h[1 + 1])
    BY <1>1, <1>4, <1>6 DEF FromAt
  <1>8. Extents(gs) = h[1] /\ Extents(fs) = g[1]
    BY <1>1, <1>2, <1>3, ExtentsFrom
  <1>9. QED BY <1>5, <1>7, <1>8 DEF gs

-----------------------------------------------------------------------------
(* Lists of extents *)

\* an end of a list is a list
LEMMA EndOfList ==
  ASSUME NEW up, NEW A \in Lists(up), NEW B \in Seq(Extent), Ends(B, A)
  PROVE  B \in Lists(up)
  <1>1. A \in Seq(Extent) /\ Len(A) \in Nat /\ Len(B) \in Nat /\ Len(B) <= Len(A)
    BY DEF Lists, Ends
  <1>2. ASSUME NEW i \in 1 .. Len(B) PROVE SubSeq(B, i + 1, Len(B)) = up[B[i]]
    <2> DEFINE j == Len(A) - Len(B) + i
               n == Len(B) - i
    <2>1. j \in 1 .. Len(A) /\ B[i] = A[j]
      BY <1>1 DEF Ends
    <2>2. SubSeq(A, j + 1, Len(A)) = up[A[j]]
      BY <2>1 DEF Lists
    <2>3. n \in 0 .. Len(A) /\ n \in 0 .. Len(B) /\ Len(A) - n + 1 = j + 1 /\ Len(B) - n + 1 = i + 1
      <3>1. PICK a \in Nat, b \in Nat : a = Len(A) /\ b = Len(B) /\ b <= a
        BY <1>1
      <3>2. i \in 1 .. b /\ j = a - b + i /\ n = b - i
        BY <3>1
      <3> HIDE DEF j, n
      <3>3. n \in 0 .. a /\ n \in 0 .. b /\ a - n + 1 = j + 1 /\ b - n + 1 = i + 1
        BY <3>1, <3>2
      <3>4. QED BY <3>1, <3>3
    <2>4. /\ SubSeq(A, j + 1, Len(A)) \in Seq(Extent) /\ Len(SubSeq(A, j + 1, Len(A))) = n
          /\ Ends(SubSeq(A, j + 1, Len(A)), A)
      <3> HIDE DEF j, n
      <3>1. n \in 0 .. Len(A) /\ Len(A) - n + 1 = j + 1
        BY <2>3
      <3>2. /\ SubSeq(A, Len(A) - n + 1, Len(A)) \in Seq(Extent)
            /\ Len(SubSeq(A, Len(A) - n + 1, Len(A))) = n
            /\ Ends(SubSeq(A, Len(A) - n + 1, Len(A)), A)
        BY <1>1, <3>1, LastElements
      <3>3. QED BY <3>1, <3>2
    <2>5. /\ SubSeq(B, i + 1, Len(B)) \in Seq(Extent) /\ Len(SubSeq(B, i + 1, Len(B))) = n
          /\ Ends(SubSeq(B, i + 1, Len(B)), B)
      <3> HIDE DEF j, n
      <3>1. n \in 0 .. Len(B) /\ Len(B) - n + 1 = i + 1
        BY <2>3
      <3>2. /\ SubSeq(B, Len(B) - n + 1, Len(B)) \in Seq(Extent)
            /\ Len(SubSeq(B, Len(B) - n + 1, Len(B))) = n
            /\ Ends(SubSeq(B, Len(B) - n + 1, Len(B)), B)
        BY <1>1, <3>1, LastElements
      <3>3. QED BY <3>1, <3>2
    <2> HIDE DEF j, n
    <2>6. Ends(SubSeq(B, i + 1, Len(B)), A)
      BY <1>1, <2>5, EndsTransitive
    <2>7. SubSeq(B, i + 1, Len(B)) = SubSeq(A, j + 1, Len(A))
      BY <1>1, <2>4, <2>5, <2>6, EndsEqual
    <2>8. QED BY <2>1, <2>2, <2>7
  <1>3. QED BY <1>2 DEF Lists

\* an extent that is on two lists ends them alike
LEMMA SharedEnd ==
  ASSUME NEW up, NEW A \in Lists(up), NEW B \in Lists(up),
         NEW i \in 1 .. Len(A), NEW j \in 1 .. Len(B), A[i] = B[j]
  PROVE  Len(A) - i = Len(B) - j /\ SubSeq(A, i, Len(A)) = SubSeq(B, j, Len(B))
  <1>1. A \in Seq(Extent) /\ B \in Seq(Extent) /\ Len(A) \in Nat /\ Len(B) \in Nat
    BY DEF Lists
  <1>2. SubSeq(A, i + 1, Len(A)) = SubSeq(B, j + 1, Len(B))
    BY DEF Lists
  <1>3. Len(SubSeq(A, i + 1, Len(A))) = Len(A) - i /\ Len(SubSeq(B, j + 1, Len(B))) = Len(B) - j
    <2>1. /\ Len(A) - i \in 0 .. Len(A) /\ Len(A) - (Len(A) - i) + 1 = i + 1
          /\ Len(B) - j \in 0 .. Len(B) /\ Len(B) - (Len(B) - j) + 1 = j + 1
      BY <1>1
    <2>2. Len(SubSeq(A, Len(A) - (Len(A) - i) + 1, Len(A))) = Len(A) - i
      BY <1>1, <2>1, LastElements
    <2>3. Len(SubSeq(B, Len(B) - (Len(B) - j) + 1, Len(B))) = Len(B) - j
      BY <1>1, <2>1, LastElements
    <2>4. QED BY <2>1, <2>2, <2>3
  <1>4. Len(A) \in i .. Len(A) /\ Len(B) \in j .. Len(B)
    BY <1>1
  <1>5. SubSeq(A, i, Len(A)) = <<A[i]>> \o SubSeq(A, i + 1, Len(A))
    BY <1>1, <1>4, SubSeqRecursiveFirst
  <1>6. SubSeq(B, j, Len(B)) = <<B[j]>> \o SubSeq(B, j + 1, Len(B))
    BY <1>1, <1>4, SubSeqRecursiveFirst
  <1>7. QED BY <1>2, <1>3, <1>5, <1>6

\* an extent is on a list once
LEMMA ListsInjective ==
  ASSUME NEW up, NEW A \in Lists(up)
  PROVE  IsInjective(A)
  <1>1. A \in Seq(Extent) /\ Len(A) \in Nat /\ DOMAIN A = 1 .. Len(A)
    BY DEF Lists
  <1>2. ASSUME NEW i \in DOMAIN A, NEW j \in DOMAIN A, A[i] = A[j] PROVE i = j
    <2>1. i \in 1 .. Len(A) /\ j \in 1 .. Len(A)
      BY <1>1
    <2>2. Len(A) - i = Len(A) - j
      BY <1>2, <2>1, SharedEnd
    <2>3. QED BY <1>1, <2>1, <2>2
  <1>3. QED BY <1>2 DEF IsInjective

\* the head of a list is not on its tail
LEMMA HeadOnce ==
  ASSUME NEW up, NEW A \in Lists(up), A # << >>
  PROVE  /\ Head(A) \in Extent /\ Tail(A) \in Lists(up)
         /\ ToSet(A) = {Head(A)} \cup ToSet(Tail(A)) /\ Head(A) \notin ToSet(Tail(A))
  <1>1. A \in Seq(Extent) /\ Len(A) \in Nat
    BY DEF Lists
  <1>2. /\ Head(A) \in Extent /\ Head(A) = A[1] /\ Tail(A) \in Seq(Extent)
        /\ Len(Tail(A)) = Len(A) - 1 /\ Len(A) >= 1 /\ DOMAIN A = 1 .. Len(A)
        /\ DOMAIN Tail(A) = 1 .. Len(A) - 1
        /\ \A i \in 1 .. Len(A) - 1 : Tail(A)[i] = A[i + 1]
    BY <1>1
  <1>3. Ends(Tail(A), A)
    BY <1>1, TailEnds
  <1>4. Tail(A) \in Lists(up)
    BY <1>2, <1>3, EndOfList
  <1>5. \A i \in DOMAIN A : A[i] = Head(A) \/ \E j \in DOMAIN Tail(A) : A[i] = Tail(A)[j]
    <2> SUFFICES ASSUME NEW i \in DOMAIN A, i # 1
                 PROVE  \E j \in DOMAIN Tail(A) : A[i] = Tail(A)[j]
      BY <1>2
    <2>1. i - 1 \in 1 .. Len(A) - 1 /\ (i - 1) + 1 = i
      BY <1>2
    <2>2. QED BY <1>2, <2>1
  <1>6. \A j \in DOMAIN Tail(A) : j + 1 \in DOMAIN A /\ j + 1 # 1 /\ A[j + 1] = Tail(A)[j]
    BY <1>2
  <1>7. 1 \in DOMAIN A
    BY <1>2
  <1>8. Head(A) \notin ToSet(Tail(A))
    <2> SUFFICES ASSUME NEW j \in DOMAIN Tail(A), Tail(A)[j] = A[1] PROVE FALSE
      BY <1>2 DEF ToSet
    <2>1. IsInjective(A)
      BY ListsInjective
    <2>2. QED BY <1>6, <1>7, <2>1 DEF IsInjective
  <1>9. \A x \in ToSet(A) : x \in {Head(A)} \cup ToSet(Tail(A))
    BY <1>5 DEF ToSet
  <1>10. \A x \in ToSet(Tail(A)) : x \in ToSet(A)
    BY <1>6 DEF ToSet
  <1>11. Head(A) \in ToSet(A)
    BY <1>2, <1>7 DEF ToSet
  <1>12. QED BY <1>2, <1>4, <1>8, <1>9, <1>10, <1>11

\* common-tail finds an end of both lists, and all that they share
LEMMA CommonTailShared ==
  ASSUME NEW up, NEW A \in Lists(up), NEW B \in Lists(up)
  PROVE  /\ CommonTail(A, B) \in Lists(up)
         /\ Ends(CommonTail(A, B), A) /\ Ends(CommonTail(A, B), B)
         /\ ToSet(A) \cap ToSet(B) \subseteq ToSet(CommonTail(A, B))
  <1> DEFINE m == Min({Len(A), Len(B)})
             endA(n) == SubSeq(A, Len(A) - n + 1, Len(A))
             endB(n) == SubSeq(B, Len(B) - n + 1, Len(B))
             T == {n \in 0 .. m : endA(n) = endB(n)}
             c == Max(T)
  <1>1. A \in Seq(Extent) /\ B \in Seq(Extent) /\ Len(A) \in Nat /\ Len(B) \in Nat
    BY DEF Lists
  <1>2. m \in Nat /\ m <= Len(A) /\ m <= Len(B) /\ (m = Len(A) \/ m = Len(B))
    <2>1. m \in {Len(A), Len(B)} /\ \A y \in {Len(A), Len(B)} : m <= y
      BY <1>1, MinIsLeast
    <2>2. QED BY <1>1, <2>1
  <1>3. CommonTail(A, B) = endA(c)
    BY DEF CommonTail, list_tail
  <1>4. 0 \in T
    <2>1. endA(0) \in Seq(Extent) /\ Len(endA(0)) = 0 /\ endB(0) \in Seq(Extent) /\ Len(endB(0)) = 0
      <3>1. 0 \in 0 .. Len(A) /\ 0 \in 0 .. Len(B)
        BY <1>1
      <3>2. QED BY <1>1, <3>1, LastElements
    <2>2. endA(0) = << >> /\ endB(0) = << >>
      <3> HIDE DEF endA, endB
      <3>1. QED BY <2>1
    <2>3. 0 \in 0 .. m
      <3> HIDE DEF m
      <3>1. QED BY <1>2
    <2> HIDE DEF m, endA, endB
    <2>4. QED BY <2>2, <2>3
  <1>5. c \in T /\ \A n \in T : n <= c
    <2>1. T \subseteq 0 .. m
      OBVIOUS
    <2> HIDE DEF T, m
    <2>2. QED BY <1>2, <1>4, <2>1, MaxIsGreatest
  <1>6. c \in 0 .. m /\ c \in 0 .. Len(A) /\ c \in 0 .. Len(B) /\ endA(c) = endB(c)
    <2>1. c \in 0 .. m /\ endA(c) = endB(c)
      <3> HIDE DEF m, endA, endB, c
      <3>1. QED BY <1>5
    <2>2. c \in 0 .. Len(A) /\ c \in 0 .. Len(B)
      <3> HIDE DEF m, c
      <3>1. QED BY <1>1, <1>2, <2>1
    <2>3. QED BY <2>1, <2>2
  <1>7. endA(c) \in Seq(Extent) /\ Len(endA(c)) = c /\ Ends(endA(c), A)
        /\ \A i \in 1 .. c : endA(c)[i] = A[Len(A) - c + i]
    <2> HIDE DEF c
    <2>1. QED BY <1>1, <1>6, LastElements
  <1>8. Ends(endA(c), B)
    <2>1. Ends(endB(c), B)
      <3> HIDE DEF c
      <3>1. QED BY <1>1, <1>6, LastElements
    <2>2. QED BY <1>6, <2>1
  <1>9. endA(c) \in Lists(up)
    <2>1. \A e \in Seq(Extent) : Ends(e, A) => e \in Lists(up)
      BY EndOfList
    <2>2. endA(c) \in Seq(Extent) /\ Ends(endA(c), A)
      BY <1>7
    <2> HIDE DEF c, endA
    <2>3. QED BY <2>1, <2>2
  <1>10. ASSUME NEW i \in 1 .. Len(A), NEW j \in 1 .. Len(B), A[i] = B[j]
         PROVE  \E a \in 1 .. c : endA(c)[a] = A[i]
    <2> DEFINE n == Len(A) - i + 1
    <2>1. Len(A) - i = Len(B) - j /\ SubSeq(A, i, Len(A)) = SubSeq(B, j, Len(B))
      <3> HIDE DEF m, endA, endB, T, c, n
      <3>1. A[i] = B[j] /\ i \in 1 .. Len(A) /\ j \in 1 .. Len(B) /\ A \in Lists(up) /\ B \in Lists(up)
        BY <1>10
      <3>2. Len(A) - i = Len(B) - j
        BY <3>1, SharedEnd
      <3>3. SubSeq(A, i, Len(A)) = SubSeq(B, j, Len(B))
        BY <3>1, SharedEnd
      <3>4. QED BY <3>2, <3>3
    <2>2. n \in Nat /\ n <= Len(A) /\ n <= Len(B) /\ Len(A) - n + 1 = i /\ Len(B) - n + 1 = j
      BY <1>1, <2>1
    <2>3. endA(n) = endB(n)
      <3> HIDE DEF n
      <3>1. QED BY <2>1, <2>2
    <2>4. n \in 0 .. m
      <3> HIDE DEF m, n
      <3>1. QED BY <1>2, <2>2
    <2>5. n \in T
      <3> HIDE DEF m, n, endA, endB
      <3>1. QED BY <2>3, <2>4
    <2>6. n <= c
      <3> HIDE DEF T, c, n
      <3>1. QED BY <1>5, <2>5
    <2>7. c - n + 1 \in 1 .. c /\ Len(A) - c + (c - n + 1) = i
      <3>1. c \in Nat
        <4> HIDE DEF c
        <4>1. QED BY <1>1, <1>6
      <3>2. n \in Nat /\ n >= 1
        BY <1>1
      <3> HIDE DEF c, n
      <3>3. QED BY <1>1, <2>2, <2>6, <3>1, <3>2
    <2>8. endA(c)[c - n + 1] = A[i]
      <3> HIDE DEF c, n, endA
      <3>1. QED BY <1>7, <2>7
    <2> HIDE DEF c, n, endA
    <2>9. QED BY <2>7, <2>8
  <1>11. ToSet(A) \cap ToSet(B) \subseteq ToSet(endA(c))
    <2> HIDE DEF c, endA
    <2>1. DOMAIN A = 1 .. Len(A) /\ DOMAIN B = 1 .. Len(B) /\ DOMAIN endA(c) = 1 .. c
      BY <1>1, <1>7
    <2>2. QED BY <1>10, <2>1 DEF ToSet
  <1> HIDE DEF c, endA
  <1>12. QED BY <1>3, <1>7, <1>8, <1>9, <1>11

-----------------------------------------------------------------------------
(* Frames *)

\* sound frames stand for a sequence of extents, all through
LEMMA FromType ==
  ASSUME NEW F, NEW up, FramesSound(F, up), NEW fs \in Seq(F), NEW g, IsFrom(fs, g)
  PROVE  \A p \in 1 .. Len(fs) + 1 : g[p] \in Seq(Extent)
  <1>1. Len(fs) \in Nat
    OBVIOUS
  <1> DEFINE R == {m \in 0 .. Len(fs) : g[Len(fs) + 1 - m] \notin Seq(Extent)}
  <1>2. ASSUME R # {} PROVE FALSE
    <2>1. PICK m \in R : \A y \in R : m <= y
      <3>1. R \subseteq Nat
        OBVIOUS
      <3> HIDE DEF R
      <3>2. QED BY <1>2, <3>1, LeastNumber
    <2> DEFINE p == Len(fs) + 1 - m
    <2>2. m \in 0 .. Len(fs) /\ g[p] \notin Seq(Extent)
      OBVIOUS
    <2>3. p \in 1 .. Len(fs) + 1
      BY <1>1, <2>2
    <2>4. FromAt(fs, g, p)
      <3> HIDE DEF p
      <3>1. QED BY <2>3, FromAtPlaces
    <2>5. CASE p > Len(fs)
      <3> HIDE DEF p
      <3>1. g[p] = << >>
        BY <2>4, <2>5 DEF FromAt
      <3>2. QED BY <2>2, <3>1
    <2>6. CASE ~(p > Len(fs))
      <3>1. m - 1 \in 0 .. Len(fs) /\ ~(m <= m - 1) /\ Len(fs) + 1 - (m - 1) = p + 1 /\ p \in 1 .. Len(fs)
        BY <1>1, <2>2, <2>6
      <3>2. m - 1 \notin R
        <4> HIDE DEF R
        <4>1. QED BY <2>1, <3>1
      <3>3. g[p + 1] \in Seq(Extent)
        BY <3>1, <3>2
      <3> HIDE DEF p
      <3>4. g[p] = Above(fs[p], g[p + 1]) /\ fs[p] \in F
        BY <2>4, <2>6, <3>1 DEF FromAt
      <3>5. Sound(fs[p], F, up)
        BY <3>4 DEF FramesSound
      <3>6. CASE fs[p].at = "body"
        <4>1. fs[p].id \in Extent /\ g[p] = <<fs[p].id>> \o g[p + 1]
          BY <3>4, <3>5, <3>6 DEF Above, Sound
        <4>2. QED BY <2>2, <3>3, <4>1, ConsFacts
      <3>7. CASE fs[p].at \in {"in", "out"}
        BY <2>2, <3>3, <3>4, <3>7 DEF Above
      <3>8. CASE fs[p].at = "unwind"
        <4>1. g[p] = fs[p].ls /\ fs[p].ls \in Lists(up)
          BY <3>4, <3>5, <3>8 DEF Above, Sound, Leaving
        <4>2. QED BY <2>2, <4>1 DEF Lists
      <3>9. CASE fs[p].at = "rewind"
        <4>1. g[p] = Tail(fs[p].ls) /\ fs[p].ls \in Lists(up) /\ fs[p].ls # << >>
          BY <3>4, <3>5, <3>9 DEF Above, Sound
        <4>2. Tail(fs[p].ls) \in Lists(up)
          BY <4>1, HeadOnce
        <4>3. QED BY <2>2, <4>1, <4>2 DEF Lists
      <3>10. QED BY <3>5, <3>6, <3>7, <3>8, <3>9 DEF Sound
    <2>7. QED BY <2>5, <2>6
  <1>3. ASSUME NEW p \in 1 .. Len(fs) + 1 PROVE g[p] \in Seq(Extent)
    <2>1. Len(fs) + 1 - p \in 0 .. Len(fs) /\ Len(fs) + 1 - (Len(fs) + 1 - p) = p
      BY <1>1
    <2>2. Len(fs) + 1 - p \notin R
      BY <1>2
    <2>3. g[Len(fs) + 1 - (Len(fs) + 1 - p)] \in Seq(Extent)
      BY <2>1, <2>2
    <2>4. QED BY <2>1, <2>3
  <1>4. QED BY <1>3

\* the extents of frames are extents
LEMMA ExtentsType ==
  ASSUME NEW F, NEW up, FramesSound(F, up), NEW fs \in Seq(F)
  PROVE  Extents(fs) \in Seq(Extent)
  <1>1. PICK g : IsFrom(fs, g)
    BY FromExists
  <1>2. Extents(fs) = g[1] /\ 1 \in 1 .. Len(fs) + 1
    BY <1>1, ExtentsFrom
  <1>3. QED BY <1>1, <1>2, FromType

\* what waits above a throw under way keeps the extents of the throw's frame
LEMMA FromSets ==
  ASSUME NEW F, NEW up, FramesSound(F, up), NEW fs \in Seq(F), NEW g, IsFrom(fs, g),
         NEW i \in 1 .. Len(fs), \A j \in 1 .. i - 1 : fs[j].at \notin {"unwind", "rewind"}
  PROVE  ToSet(g[i]) \subseteq ToSet(g[1])
  <1>1. Len(fs) \in Nat /\ i \in Int /\ i >= 1 /\ i <= Len(fs)
    OBVIOUS
  <1>2. ASSUME NEW p \in 1 .. Len(fs) + 1 PROVE g[p] \in Seq(Extent)
    BY FromType
  <1> DEFINE T == {m \in 1 .. i : ~(ToSet(g[m]) \subseteq ToSet(g[1]))}
  <1>3. ASSUME T # {} PROVE FALSE
    <2>1. PICK m \in T : \A y \in T : m <= y
      <3>1. T \subseteq Nat
        OBVIOUS
      <3> HIDE DEF T
      <3>2. QED BY <1>3, <3>1, LeastNumber
    <2>2. m \in 1 .. i /\ ~(ToSet(g[m]) \subseteq ToSet(g[1]))
      OBVIOUS
    <2>3. m # 1
      BY <2>2
    <2>4. m - 1 \in 1 .. i - 1 /\ m - 1 \in 1 .. i /\ ~(m <= m - 1) /\ m - 1 \in 1 .. Len(fs)
          /\ m - 1 \in 1 .. Len(fs) + 1 /\ ~(m - 1 > Len(fs)) /\ (m - 1) + 1 = m /\ m \in 1 .. Len(fs) + 1
      BY <1>1, <2>2, <2>3
    <2>5. m - 1 \notin T
      <3> HIDE DEF T
      <3>1. QED BY <2>1, <2>4
    <2>6. ToSet(g[m - 1]) \subseteq ToSet(g[1])
      BY <2>4, <2>5
    <2> HIDE DEF T
    <2>7. FromAt(fs, g, m - 1)
      BY <2>4, FromAtPlaces
    <2>8. g[m - 1] = Above(fs[m - 1], g[m])
      BY <2>4, <2>7 DEF FromAt
    <2>9. fs[m - 1].at \notin {"unwind", "rewind"} /\ fs[m - 1] \in F
      BY <2>4
    <2>10. Sound(fs[m - 1], F, up)
      BY <2>9 DEF FramesSound
    <2>11. g[m] \in Seq(Extent)
      BY <1>2, <2>4
    <2>12. CASE fs[m - 1].at = "body"
      <3>1. g[m - 1] = <<fs[m - 1].id>> \o g[m] /\ fs[m - 1].id \in Extent
        BY <2>8, <2>10, <2>12 DEF Above, Sound
      <3>2. g[m - 1] \in Seq(Extent) /\ g[m - 1] # << >> /\ g[m] = Tail(g[m - 1])
        BY <2>11, <3>1, ConsFacts
      <3>3. Ends(g[m], g[m - 1])
        BY <3>2, TailEnds
      <3>4. ToSet(g[m]) \subseteq ToSet(g[m - 1])
        BY <2>11, <3>2, <3>3, EndsHolds
      <3>5. QED BY <2>2, <2>6, <3>4
    <2>13. CASE fs[m - 1].at # "body"
      <3>1. g[m - 1] = g[m]
        BY <2>8, <2>9, <2>13 DEF Above
      <3>2. QED BY <2>2, <2>6, <3>1
    <2>14. QED BY <2>12, <2>13
  <1>4. i \in 1 .. i
    BY <1>1
  <1>5. QED BY <1>3, <1>4

\* so the throw's shared extents are all on the list
LEMMA SharedOnList ==
  ASSUME NEW F, NEW up, FramesSound(F, up), NEW fs \in Seq(F),
         NEW i \in DOMAIN fs, fs[i].at \in {"unwind", "rewind"},
         \A j \in 1 .. i - 1 : fs[j].at \notin {"unwind", "rewind"}
  PROVE  ToSet(fs[i].new) \cap ToSet(fs[i].from) \subseteq ToSet(Extents(fs))
  <1>1. PICK g : IsFrom(fs, g)
    BY FromExists
  <1>2. Extents(fs) = g[1]
    BY <1>1, ExtentsFrom
  <1>3. i \in 1 .. Len(fs) /\ i \in 1 .. Len(fs) + 1 /\ ~(i > Len(fs)) /\ fs[i] \in F
    OBVIOUS
  <1>4. ToSet(g[i]) \subseteq ToSet(g[1])
    BY <1>1, <1>3, FromSets
  <1>5. FromAt(fs, g, i)
    BY <1>1, <1>3, FromAtPlaces
  <1>6. g[i] = Above(fs[i], g[i + 1])
    BY <1>3, <1>5 DEF FromAt
  <1>7. Sound(fs[i], F, up)
    BY <1>3 DEF FramesSound
  <1>8. Throwing(fs[i], F, up)
    BY <1>7 DEF Sound
  <1>9. g[i] \in Lists(up) /\ Ends(fs[i].tail, g[i])
    <2>1. CASE fs[i].at = "unwind"
      <3>1. g[i] = fs[i].ls
        BY <1>6, <2>1 DEF Above
      <3>2. QED BY <1>7, <2>1, <3>1 DEF Sound, Leaving
    <2>2. CASE fs[i].at = "rewind"
      <3>1. g[i] = Tail(fs[i].ls)
        BY <1>6, <2>2 DEF Above
      <3>2. fs[i].ls # << >> /\ fs[i].ls \in Lists(up) /\ Ends(fs[i].tail, Tail(fs[i].ls))
        BY <1>7, <2>2 DEF Sound
      <3>3. QED BY <3>1, <3>2, HeadOnce
    <2>3. QED BY <2>1, <2>2
  <1>10. ToSet(fs[i].tail) \subseteq ToSet(g[i])
    <2>1. fs[i].tail \in Seq(Extent) /\ g[i] \in Seq(Extent)
      BY <1>8, <1>9 DEF Throwing, Lists
    <2>2. QED BY <1>9, <2>1, EndsHolds
  <1>11. ToSet(fs[i].new) \cap ToSet(fs[i].from) \subseteq ToSet(fs[i].tail)
    BY <1>8 DEF Throwing
  <1>12. QED BY <1>2, <1>4, <1>10, <1>11

\* one more frame
LEMMA MoreFrames ==
  ASSUME NEW F, NEW up, FramesSound(F, up), NEW g, Sound(g, F, up)
  PROVE  /\ FramesSound(F \cup {g}, up)
         /\ \A k : PlacesSound(k, F, up) => PlacesSound(k, F \cup {g}, up)
  <1> DEFINE G == F \cup {g}
  <1>1. \A fs \in Seq(F) : fs \in Seq(G)
    BY SeqMonotonic
  <1>2. ASSUME NEW f, Sound(f, F, up) PROVE Sound(f, G, up)
    <2>1. ASSUME Throwing(f, F, up) PROVE Throwing(f, G, up)
      <3> HIDE DEF G
      <3>1. QED BY <1>1, <2>1 DEF Throwing
    <2> HIDE DEF G
    <2>2. QED BY <1>2, <2>1 DEF Sound
  <1>3. FramesSound(G, up)
    <2>1. \A f \in G : Sound(f, F, up)
      BY DEF FramesSound
    <2> HIDE DEF G
    <2>2. QED BY <1>2, <2>1 DEF FramesSound
  <1>4. ASSUME NEW k, PlacesSound(k, F, up) PROVE PlacesSound(k, G, up)
    <2>1. k \in [Place -> [k : Seq(F), save : Seq(Int)]]
      BY <1>4 DEF PlacesSound
    <2> HIDE DEF G
    <2>2. k \in [Place -> [k : Seq(G), save : Seq(Int)]]
      BY <1>1, <2>1
    <2>3. QED BY <1>4, <2>2 DEF PlacesSound
  <1>5. QED BY <1>3, <1>4

\* frames with one more on top are frames
LEMMA FrameOnTop ==
  ASSUME NEW F, NEW g, NEW fs \in Seq(F)
  PROVE  <<g>> \o fs \in Seq(F \cup {g})
  <1> DEFINE G == F \cup {g}
  <1>1. fs \in Seq(G) /\ g \in G
    BY SeqMonotonic
  <1> HIDE DEF G
  <1>2. <<g>> \o fs \in Seq(G)
    BY <1>1, ConsFacts
  <1>3. QED BY <1>2 DEF G

\* a frame on top adds its extent, if it has one, to those below
LEMMA ExtentsOnTop ==
  ASSUME NEW F, NEW g, NEW fs \in Seq(F)
  PROVE  Extents(<<g>> \o fs) = Above(g, Extents(fs))
  <1> DEFINE G == F \cup {g}
  <1>1. fs \in Seq(G) /\ g \in G
    BY SeqMonotonic
  <1> HIDE DEF G
  <1>2. QED BY <1>1, ExtentsCons

\* the innermost frame
LEMMA InnermostFrame ==
  ASSUME NEW F, NEW up, FramesSound(F, up), NEW fs \in Seq(F), fs # << >>
  PROVE  /\ Sound(fs[1], F, up) /\ Tail(fs) \in Seq(F)
         /\ Extents(fs) = Above(fs[1], Extents(Tail(fs)))
  <1>1. fs[1] \in F /\ Tail(fs) \in Seq(F) /\ fs = <<fs[1]>> \o Tail(fs)
    BY HeadBeforeTail
  <1>2. Extents(<<fs[1]>> \o Tail(fs)) = Above(fs[1], Extents(Tail(fs)))
    BY <1>1, ExtentsCons
  <1>3. QED BY <1>1, <1>2 DEF FramesSound

\* an extent is left; one is entered
LEMMA EnteredLess ==
  ASSUME NEW up, NEW A \in Lists(up), A # << >>
  PROVE  [EnteredOn(A) EXCEPT ![Head(A)] = @ + -1] = EnteredOn(Tail(A))
  <1>1. /\ Head(A) \in Extent /\ ToSet(A) = {Head(A)} \cup ToSet(Tail(A))
        /\ Head(A) \notin ToSet(Tail(A))
    BY HeadOnce
  <1>2. 1 + -1 = 0
    OBVIOUS
  <1>3. QED BY <1>1, <1>2 DEF EnteredOn

\* an extent entered on top of a list makes one more of it
LEMMA EnteredMore ==
  ASSUME NEW up, NEW A \in Lists(up), A # << >>
  PROVE  [EnteredOn(Tail(A)) EXCEPT ![Head(A)] = @ + 1] = EnteredOn(A)
  <1>1. /\ Head(A) \in Extent /\ ToSet(A) = {Head(A)} \cup ToSet(Tail(A))
        /\ Head(A) \notin ToSet(Tail(A))
    BY HeadOnce
  <1>2. 0 + 1 = 1
    OBVIOUS
  <1>3. QED BY <1>1, <1>2 DEF EnteredOn

-----------------------------------------------------------------------------
(* do-wind *)

\* from ls on the extents of the place are entered
LEMMA RewindSound ==
  ASSUME NEW F, NEW up, FramesSound(F, up), PlacesSound(kept, F, up),
         NEW f, Throwing(f, F, up), NEW ls, Entering(f, ls, up), NEW rest \in Seq(F),
         Rewind(f, ls, rest), kept' = kept, entered' = EnteredOn(ls)
  PROVE  WindersInv'
  <1>1. /\ f.k \in Seq(F) /\ f.new = Extents(f.k) /\ f.new \in Lists(up)
        /\ ls \in Lists(up) /\ Ends(ls, f.new) /\ Ends(f.tail, ls)
        /\ f.new \in Seq(Extent) /\ ls \in Seq(Extent)
    BY DEF Throwing, Entering, Lists
  <1>2. CASE ls = f.new
    <2>1. frames' = f.k /\ winders' = ls
      BY <1>2 DEF Rewind
    <2>2. RunSound(winders', frames', entered', F, up)
      BY <1>1, <1>2, <2>1 DEF RunSound
    <2>3. QED BY <2>2 DEF WindersInv
  <1>3. CASE ls # f.new
    <2> DEFINE u == list_tail(f.new, Len(f.new) - Len(ls) - 1)
               g == [f EXCEPT !.at = "rewind", !.ls = u]
    <2>1. winders' = ls /\ frames' = <<g>> \o rest
      BY <1>3 DEF Rewind, Rewinding
    <2>2. u \in Seq(Extent) /\ u # << >> /\ Ends(u, f.new) /\ Tail(u) = ls
      <3>1. u = SubSeq(f.new, Len(f.new) - Len(ls) - 1 + 1, Len(f.new))
        BY DEF list_tail
      <3>2. \A v : v = SubSeq(f.new, Len(f.new) - Len(ls) - 1 + 1, Len(f.new)) =>
              v \in Seq(Extent) /\ v # << >> /\ Ends(v, f.new) /\ Tail(v) = ls
        BY <1>1, <1>3, LongerEnd
      <3> HIDE DEF u, g
      <3>3. QED BY <3>1, <3>2
    <2>3. u \in Lists(up)
      <3> HIDE DEF u
      <3>1. QED BY <1>1, <2>2, EndOfList
    <2>4. /\ g.at = "rewind" /\ g.ls = u /\ g.tail = f.tail /\ g.new = f.new /\ g.from = f.from
          /\ g.k = f.k /\ g.names = f.names /\ g.within = f.within
          /\ g = Winding(g)
      <3>1. f = Winding(f) /\ g = [f EXCEPT !.at = "rewind", !.ls = u]
        BY DEF Throwing
      <3> HIDE DEF u, g
      <3>2. g = [Winding(f) EXCEPT !.at = "rewind", !.ls = u]
        BY Zenon, <3>1
      <3>3. g = [at |-> "rewind", ls |-> u, tail |-> f.tail, new |-> f.new, from |-> f.from,
                 k |-> f.k, names |-> f.names, within |-> f.within]
        BY <3>2 DEF Winding
      <3>4. QED BY <3>3 DEF Winding
    <2> HIDE DEF g, u
    <2>5. Throwing(g, F, up)
      BY <2>4 DEF Throwing
    <2>6. Sound(g, F, up)
      BY <1>1, <2>2, <2>3, <2>4, <2>5 DEF Sound
    <2>7. /\ FramesSound(F \cup {g}, up) /\ PlacesSound(kept', F \cup {g}, up)
          /\ frames' \in Seq(F \cup {g}) /\ Extents(frames') = Above(g, Extents(rest))
      <3>1. FramesSound(F \cup {g}, up)
        BY <2>6, MoreFrames
      <3>2. PlacesSound(kept', F \cup {g}, up)
        BY <2>6, MoreFrames
      <3>3. /\ <<g>> \o rest \in Seq(F \cup {g})
            /\ Extents(<<g>> \o rest) = Above(g, Extents(rest))
        BY FrameOnTop, ExtentsOnTop
      <3>4. QED BY <2>1, <3>1, <3>2, <3>3
    <2>8. Above(g, Extents(rest)) = ls
      BY <2>2, <2>4 DEF Above
    <2>9. RunSound(winders', frames', entered', F \cup {g}, up)
      BY <1>1, <2>1, <2>7, <2>8 DEF RunSound
    <2>10. QED BY <2>7, <2>9 DEF WindersInv
  <1>4. QED BY <1>2, <1>3

\* from ls on the extents up to the common tail are left
LEMMA WindSound ==
  ASSUME NEW F, NEW up, FramesSound(F, up), PlacesSound(kept, F, up),
         NEW f, f.at = "unwind", Throwing(f, F, up), NEW ls, Leaving(f, ls, up),
         NEW rest \in Seq(F), Wind(f, ls, rest), kept' = kept, entered = EnteredOn(ls)
  PROVE  WindersInv'
  <1>1. /\ ls \in Lists(up) /\ Ends(f.tail, ls) /\ Ends(ls, f.from)
        /\ ls \in Seq(Extent) /\ f.tail \in Seq(Extent) /\ f.from \in Seq(Extent)
        /\ f.tail \in Lists(up) /\ Ends(f.tail, f.new)
    BY DEF Throwing, Leaving, Lists
  <1>2. CASE ls = f.tail
    <2>1. Rewind(f, ls, rest) /\ entered' = EnteredOn(ls)
      BY <1>2 DEF Wind
    <2>2. Entering(f, ls, up)
      BY <1>1, <1>2, EndsItself DEF Entering
    <2>3. QED BY <2>1, <2>2, RewindSound
  <1>3. CASE ls # f.tail
    <2> DEFINE g == [f EXCEPT !.ls = Tail(ls)]
    <2>1. winders' = Tail(ls) /\ frames' = <<g>> \o rest
          /\ entered' = [EnteredOn(ls) EXCEPT ![Head(ls)] = @ + -1]
      BY <1>3 DEF Wind, Leave, Change
    <2>2. ls # << >> /\ Ends(f.tail, Tail(ls))
      BY <1>1, <1>3, EndsTail
    <2>3. Tail(ls) \in Lists(up) /\ Tail(ls) \in Seq(Extent) /\ Ends(Tail(ls), ls)
      <3>1. Tail(ls) \in Lists(up)
        BY <1>1, <2>2, HeadOnce
      <3>2. Ends(Tail(ls), ls)
        BY <1>1, <2>2, TailEnds
      <3>3. QED BY <3>1, <3>2 DEF Lists
    <2>4. Ends(Tail(ls), f.from)
      BY <1>1, <2>3, EndsTransitive
    <2>5. /\ g.at = "unwind" /\ g.ls = Tail(ls) /\ g.tail = f.tail /\ g.new = f.new
          /\ g.from = f.from /\ g.k = f.k /\ g.names = f.names /\ g.within = f.within
          /\ g = Winding(g)
      <3>1. f = Winding(f) /\ g = [f EXCEPT !.ls = Tail(ls)]
        BY DEF Throwing
      <3> HIDE DEF g
      <3>2. g = [Winding(f) EXCEPT !.ls = Tail(ls)]
        BY Zenon, <3>1
      <3>3. g = [at |-> f.at, ls |-> Tail(ls), tail |-> f.tail, new |-> f.new, from |-> f.from,
                 k |-> f.k, names |-> f.names, within |-> f.within]
        BY <3>2 DEF Winding
      <3>4. QED BY <3>3 DEF Winding
    <2> HIDE DEF g
    <2>6. Throwing(g, F, up)
      BY <2>5 DEF Throwing
    <2>7. Sound(g, F, up)
      BY <2>2, <2>3, <2>4, <2>5, <2>6 DEF Sound, Leaving
    <2>8. /\ FramesSound(F \cup {g}, up) /\ PlacesSound(kept', F \cup {g}, up)
          /\ frames' \in Seq(F \cup {g}) /\ Extents(frames') = Above(g, Extents(rest))
      <3>1. FramesSound(F \cup {g}, up)
        BY <2>7, MoreFrames
      <3>2. PlacesSound(kept', F \cup {g}, up)
        BY <2>7, MoreFrames
      <3>3. /\ <<g>> \o rest \in Seq(F \cup {g})
            /\ Extents(<<g>> \o rest) = Above(g, Extents(rest))
        BY FrameOnTop, ExtentsOnTop
      <3>4. QED BY <2>1, <3>1, <3>2, <3>3
    <2>9. Above(g, Extents(rest)) = Tail(ls)
      BY <2>5 DEF Above
    <2>10. entered' = EnteredOn(Tail(ls))
      BY <1>1, <2>1, <2>2, EnteredLess
    <2>11. RunSound(winders', frames', entered', F \cup {g}, up)
      BY <2>1, <2>3, <2>8, <2>9, <2>10 DEF RunSound
    <2>12. QED BY <2>8, <2>11 DEF WindersInv
  <1>4. QED BY <1>2, <1>3

-----------------------------------------------------------------------------
(* A fresh extent *)

\* the frames that are sound stay so when what is below a fresh extent is
\* settled, but for those that no place and no waiting frame holds any more
LEMMA FreshExtent ==
  ASSUME NEW F, NEW up, FramesSound(F, up), PlacesSound(kept, F, up),
         RunSound(winders, frames, entered, F, up),
         NEW id \in Extent, id \notin UsedExtents,
         NEW H, H = {f \in F : FrameNames(f) \subseteq UsedExtents},
         NEW below, below = [up EXCEPT ![id] = winders]
  PROVE  /\ FramesSound(H, below) /\ PlacesSound(kept, H, below)
         /\ frames \in Seq(H) /\ winders \in Lists(below)
         /\ <<id>> \o winders \in Lists(below)
  <1>1. /\ up \in [Extent -> Seq(Extent)] /\ winders \in Lists(up) /\ winders \in Seq(Extent)
        /\ frames \in Seq(F)
    BY DEF FramesSound, RunSound, Lists
  <1>2. below \in [Extent -> Seq(Extent)] /\ below[id] = winders
        /\ \A e \in Extent : e # id => below[e] = up[e]
    BY <1>1
  <1>3. ASSUME NEW A \in Lists(up), ToSet(A) \subseteq UsedExtents PROVE A \in Lists(below)
    <2>1. A \in Seq(Extent) /\ DOMAIN A = 1 .. Len(A)
      BY DEF Lists
    <2>2. ASSUME NEW i \in 1 .. Len(A) PROVE SubSeq(A, i + 1, Len(A)) = below[A[i]]
      <3>1. A[i] \in ToSet(A) /\ A[i] \in Extent
        BY <2>1 DEF ToSet
      <3>2. A[i] # id
        BY <1>3, <3>1
      <3>3. SubSeq(A, i + 1, Len(A)) = up[A[i]]
        BY DEF Lists
      <3>4. QED BY <1>2, <3>1, <3>2, <3>3
    <2>3. QED BY <2>1, <2>2 DEF Lists
  <1>4. ToSet(winders) \subseteq UsedExtents
    BY DEF UsedExtents
  <1>5. ASSUME NEW fs \in Seq(F), Names(fs) \subseteq UsedExtents PROVE fs \in Seq(H)
    <2>1. ASSUME NEW i \in 1 .. Len(fs) PROVE fs[i] \in H
      <3>1. fs[i] \in F /\ i \in DOMAIN fs
        OBVIOUS
      <3>2. Names(fs) = UNION {FrameNames(fs[j]) : j \in DOMAIN fs}
        BY DEF Names, FrameNames
      <3>3. FrameNames(fs[i]) \subseteq Names(fs)
        BY <3>1, <3>2
      <3>4. QED BY <1>5, <3>1, <3>3
    <2>2. fs = [i \in 1 .. Len(fs) |-> fs[i]] /\ Len(fs) \in Nat
      OBVIOUS
    <2>3. fs \in [1 .. Len(fs) -> H]
      BY <2>1, <2>2
    <2>4. QED BY <2>2, <2>3, SeqDef
  <1>6. ASSUME NEW f \in H PROVE Sound(f, H, below)
    <2>1. Sound(f, F, up) /\ FrameNames(f) \subseteq UsedExtents
      BY DEF FramesSound
    <2>2. ASSUME f.at \in {"unwind", "rewind"}, Throwing(f, F, up), f.ls \in Lists(up)
          PROVE  Throwing(f, H, below) /\ f.ls \in Lists(below)
      <3>1. ToSet(f.ls) \cup ToSet(f.from) \cup ToSet(f.new) \cup f.names \subseteq UsedExtents
        BY <2>1, <2>2 DEF FrameNames
      <3>2. f.k \in Seq(H)
        BY <1>5, <2>2, <3>1 DEF Throwing
      <3>3. f.tail \in Seq(Extent) /\ f.new \in Seq(Extent) /\ Ends(f.tail, f.new)
        BY <2>2 DEF Throwing, Lists
      <3>4. ToSet(f.tail) \subseteq UsedExtents
        BY <3>1, <3>3, EndsHolds
      <3>5. f.new \in Lists(below) /\ f.from \in Lists(below) /\ f.tail \in Lists(below)
            /\ f.ls \in Lists(below)
        BY <1>3, <2>2, <3>1, <3>4 DEF Throwing
      <3>6. QED BY <2>2, <3>2, <3>5 DEF Throwing
    <2>3. CASE f.at \in {"in", "out", "body"}
      BY <2>1, <2>3 DEF Sound
    <2>4. CASE f.at = "unwind"
      <3>1. Throwing(f, F, up) /\ Leaving(f, f.ls, up)
        BY <2>1, <2>4 DEF Sound
      <3>2. Throwing(f, H, below) /\ Leaving(f, f.ls, below)
        BY <2>2, <2>4, <3>1 DEF Leaving
      <3>3. QED BY <2>4, <3>2 DEF Sound
    <2>5. CASE f.at = "rewind"
      <3>1. /\ Throwing(f, F, up) /\ f.ls # << >> /\ f.ls \in Lists(up)
            /\ Ends(f.ls, f.new) /\ Ends(f.tail, Tail(f.ls))
        BY <2>1, <2>5 DEF Sound
      <3>2. Throwing(f, H, below) /\ f.ls \in Lists(below)
        BY <2>2, <2>5, <3>1
      <3>3. QED BY <2>5, <3>1, <3>2 DEF Sound
    <2>6. QED BY <2>1, <2>3, <2>4, <2>5 DEF Sound
  <1>7. FramesSound(H, below)
    BY <1>2, <1>6 DEF FramesSound
  <1>8. PlacesSound(kept, H, below)
    <2>1. kept \in [Place -> [k : Seq(F), save : Seq(Int)]]
      BY DEF PlacesSound
    <2>2. ASSUME NEW s \in Place
          PROVE  Names(kept[s].k) \subseteq UsedExtents /\ ToSet(kept[s].save) \subseteq UsedExtents
      BY DEF UsedExtents
    <2>3. \A s \in Place : kept[s].k \in Seq(H)
      BY <1>5, <2>1, <2>2
    <2>4. kept \in [Place -> [k : Seq(H), save : Seq(Int)]]
      BY <2>1, <2>3
    <2>5. \A s \in Place : kept[s] # NoPlace =>
            kept[s].save \in Lists(below) /\ kept[s].save = Extents(kept[s].k)
      BY <1>3, <2>2 DEF PlacesSound
    <2>6. QED BY <2>4, <2>5 DEF PlacesSound
  <1>9. frames \in Seq(H)
    <2>1. Names(frames) \subseteq UsedExtents
      BY DEF UsedExtents
    <2>2. QED BY <1>1, <1>5, <2>1
  <1>10. winders \in Lists(below)
    BY <1>1, <1>3, <1>4
  <1>11. <<id>> \o winders \in Lists(below)
    <2> DEFINE A == <<id>> \o winders
    <2>1. /\ A \in Seq(Extent) /\ Len(A) = Len(winders) + 1 /\ A[1] = id /\ Tail(A) = winders
          /\ A # << >> /\ \A i \in 1 .. Len(winders) : A[i + 1] = winders[i]
      BY <1>1, ConsFacts
    <2>2. Len(winders) \in Nat
      BY <1>1
    <2> HIDE DEF A
    <2>3. SubSeq(A, 1 + 1, Len(A)) = below[A[1]]
      <3>1. Tail(A) = SubSeq(A, 2, Len(A))
        BY <2>1, TailIsSubSeq
      <3>2. 1 + 1 = 2
        OBVIOUS
      <3>3. QED BY <1>2, <2>1, <3>1, <3>2
    <2>4. ASSUME NEW i \in 1 .. Len(A), i # 1 PROVE SubSeq(A, i + 1, Len(A)) = below[A[i]]
      <3> DEFINE n == Len(A) - i
      <3>1. i - 1 \in 1 .. Len(winders) /\ A[i] = winders[i - 1] /\ (i - 1) + 1 = i
        BY <2>1, <2>2, <2>4
      <3>2. n \in 0 .. Len(A) /\ n \in 0 .. Len(winders) /\ Len(A) - n + 1 = i + 1
            /\ Len(winders) - n + 1 = i
        BY <2>1, <2>2, <2>4
      <3>3. /\ SubSeq(A, i + 1, Len(A)) \in Seq(Extent) /\ Len(SubSeq(A, i + 1, Len(A))) = n
            /\ Ends(SubSeq(A, i + 1, Len(A)), A)
        <4> HIDE DEF n
        <4>1. QED BY <2>1, <3>2, LastElements
      <3>4. /\ SubSeq(winders, i, Len(winders)) \in Seq(Extent)
            /\ Len(SubSeq(winders, i, Len(winders))) = n
            /\ Ends(SubSeq(winders, i, Len(winders)), winders)
        <4> HIDE DEF n
        <4>1. QED BY <1>1, <3>2, LastElements
      <3> HIDE DEF n
      <3>5. Ends(winders, A)
        BY <2>1, TailEnds
      <3>6. Ends(SubSeq(winders, i, Len(winders)), A)
        BY <1>1, <2>1, <3>4, <3>5, EndsTransitive
      <3>7. SubSeq(A, i + 1, Len(A)) = SubSeq(winders, i, Len(winders))
        BY <2>1, <3>3, <3>4, <3>6, EndsEqual
      <3>8. SubSeq(winders, (i - 1) + 1, Len(winders)) = below[winders[i - 1]]
        BY <1>10, <3>1 DEF Lists
      <3>9. QED BY <3>1, <3>7, <3>8
    <2>5. A \in Lists(below)
      BY <2>1, <2>3, <2>4 DEF Lists
    <2>6. QED BY <2>5 DEF A
  <1>12. QED BY <1>7, <1>8, <1>9, <1>10, <1>11

-----------------------------------------------------------------------------
(* The steps *)

\* dynamic-wind, or out returns, or out is called: one frame that names no list
LEMMA PlainFrame ==
  ASSUME NEW F, NEW up, FramesSound(F, up), NEW k, PlacesSound(k, F, up),
         NEW fs \in Seq(F), NEW a \in {"in", "out"},
         NEW w, NEW en, RunSound(w, fs, en, F, up)
  PROVE  \E G : /\ FramesSound(G, up) /\ PlacesSound(k, G, up)
                /\ RunSound(w, <<[at |-> a]>> \o fs, en, G, up)
  <1> DEFINE g == [at |-> a]
  <1>1. g.at = a /\ g = [at |-> g.at]
    OBVIOUS
  <1> HIDE DEF g
  <1>2. Sound(g, F, up) /\ Above(g, Extents(fs)) = Extents(fs)
    BY <1>1 DEF Sound, Above
  <1>3. FramesSound(F \cup {g}, up) /\ PlacesSound(k, F \cup {g}, up)
    BY <1>2, MoreFrames
  <1>4. <<g>> \o fs \in Seq(F \cup {g}) /\ Extents(<<g>> \o fs) = Above(g, Extents(fs))
    BY FrameOnTop, ExtentsOnTop
  <1>5. RunSound(w, <<g>> \o fs, en, F \cup {g}, up)
    BY <1>2, <1>4 DEF RunSound
  <1>6. QED BY <1>3, <1>5 DEF g

\* the invariant holds at the start: no winders, no extents
LEMMA InitSound == WindersInit => WindersInv
  <1> SUFFICES ASSUME WindersInit PROVE WindersInv
    OBVIOUS
  <1> DEFINE up == [e \in Extent |-> << >>]
  <1>1. FramesSound({}, up)
    <2>1. << >> \in Seq(Extent)
      OBVIOUS
    <2>2. QED BY <2>1 DEF FramesSound
  <1> HIDE DEF up
  <1>2. << >> \in Seq({}) /\ << -1 >> \in Seq(Int) /\ << >> \in Seq(Extent)
    OBVIOUS
  <1>3. PlacesSound(kept, {}, up)
    <2>1. NoPlace \in [k : Seq({}), save : Seq(Int)]
      BY <1>2 DEF NoPlace
    <2>2. kept = [s \in Place |-> NoPlace]
      BY DEF WindersInit
    <2>3. QED BY <2>1, <2>2 DEF PlacesSound
  <1>4. << >> \in Lists(up)
    <2>1. \A i \in 1 .. Len(<< >>) : FALSE
      OBVIOUS
    <2>2. QED BY <1>2, <2>1 DEF Lists
  <1>5. ToSet(<< >>) = {}
    <2>1. DOMAIN << >> = {}
      OBVIOUS
    <2>2. QED BY <2>1 DEF ToSet
  <1>6. entered = EnteredOn(<< >>)
    BY <1>5 DEF WindersInit, EnteredOn
  <1>7. RunSound(winders, frames, entered, {}, up)
    BY <1>2, <1>4, <1>6, ExtentsOfNone DEF WindersInit, RunSound
  <1>8. QED BY <1>1, <1>3, <1>7 DEF WindersInv

\* every step keeps the invariant
LEMMA StepSound == WindersInv /\ [WindersNext]_wvars => WindersInv'
  <1> SUFFICES ASSUME WindersInv, [WindersNext]_wvars PROVE WindersInv'
    OBVIOUS
  <1>1. PICK F, up : /\ FramesSound(F, up) /\ PlacesSound(kept, F, up)
                     /\ RunSound(winders, frames, entered, F, up)
    BY DEF WindersInv
  <1>2. /\ frames \in Seq(F) /\ winders \in Lists(up) /\ winders = Extents(frames)
        /\ entered = EnteredOn(winders)
    BY <1>1 DEF RunSound
  <1>3. ASSUME frames # << >>
        PROVE  /\ Sound(frames[1], F, up) /\ Tail(frames) \in Seq(F)
               /\ winders = Above(frames[1], Extents(Tail(frames)))
    BY <1>1, <1>2, <1>3, InnermostFrame
  <1>4. CASE DynamicWind
    <2>1. frames' = <<[at |-> "in"]>> \o frames /\ winders' = winders /\ kept' = kept
          /\ entered' = entered
      BY <1>4 DEF DynamicWind
    <2>2. \E G : /\ FramesSound(G, up) /\ PlacesSound(kept, G, up)
                 /\ RunSound(winders, <<[at |-> "in"]>> \o frames, entered, G, up)
      BY <1>1, <1>2, PlainFrame
    <2>3. QED BY <2>1, <2>2 DEF WindersInv
  <1>5. CASE InReturns
    <2> DEFINE id == Min(FreeExtents)
               g == [at |-> "body", id |-> id]
               H == {f \in F : FrameNames(f) \subseteq UsedExtents}
               below == [up EXCEPT ![id] = winders]
    <2>1. /\ frames # << >> /\ frames[1].at = "in" /\ FreeExtents # {}
          /\ winders' = <<id>> \o winders /\ frames' = <<g>> \o Tail(frames)
          /\ entered' = [entered EXCEPT ![id] = @ + 1] /\ kept' = kept
      BY <1>5 DEF InReturns, Change
    <2>2. id \in Extent /\ id \notin UsedExtents
      <3>1. FreeExtents \subseteq Nat /\ FreeExtents \subseteq Extent
        BY WindersAssumption DEF FreeExtents
      <3>2. id \in FreeExtents
        BY <2>1, <3>1, MinIsLeast
      <3>3. QED BY <3>1, <3>2 DEF FreeExtents
    <2>3. g.at = "body" /\ g.id = id /\ g = [at |-> "body", id |-> g.id]
      OBVIOUS
    <2> HIDE DEF id, g
    <2>4. /\ FramesSound(H, below) /\ PlacesSound(kept, H, below) /\ frames \in Seq(H)
          /\ winders \in Lists(below) /\ <<id>> \o winders \in Lists(below)
      BY <1>1, <2>2, FreshExtent
    <2> HIDE DEF H, below
    <2>5. Sound(g, H, below)
      BY <2>2, <2>3 DEF Sound
    <2>6. FramesSound(H \cup {g}, below) /\ PlacesSound(kept, H \cup {g}, below)
      BY <2>4, <2>5, MoreFrames
    <2>7. Tail(frames) \in Seq(H) /\ winders = Extents(Tail(frames))
      <3>1. winders = Above(frames[1], Extents(Tail(frames)))
        BY <1>3, <2>1
      <3>2. QED BY <2>1, <2>4, <3>1 DEF Above
    <2>8. /\ <<g>> \o Tail(frames) \in Seq(H \cup {g})
          /\ Extents(<<g>> \o Tail(frames)) = Above(g, Extents(Tail(frames)))
      BY <2>7, FrameOnTop, ExtentsOnTop
    <2>9. Extents(frames') = <<id>> \o winders
      BY <2>1, <2>3, <2>7, <2>8 DEF Above
    <2>10. entered' = EnteredOn(<<id>> \o winders)
      <3> DEFINE A == <<id>> \o winders
      <3>1. winders \in Seq(Extent)
        BY <1>2 DEF Lists
      <3>2. A # << >> /\ Head(A) = id /\ Tail(A) = winders
        BY <2>2, <3>1, ConsFacts
      <3> HIDE DEF A
      <3>3. A \in Lists(below)
        BY <2>4 DEF A
      <3>4. [EnteredOn(Tail(A)) EXCEPT ![Head(A)] = @ + 1] = EnteredOn(A)
        BY <3>2, <3>3, EnteredMore
      <3>5. [entered EXCEPT ![id] = @ + 1] = EnteredOn(A)
        BY <1>2, <3>2, <3>4
      <3>6. QED BY <2>1, <3>5 DEF A
    <2>11. RunSound(winders', frames', entered', H \cup {g}, below)
      BY <2>1, <2>4, <2>8, <2>9, <2>10 DEF RunSound
    <2>12. QED BY <2>1, <2>6, <2>11 DEF WindersInv
  <1>6. CASE BodyReturns
    <2>1. /\ frames # << >> /\ frames[1].at = "body" /\ winders' = Tail(winders)
          /\ frames' = <<[at |-> "out"]>> \o Tail(frames)
          /\ entered' = [entered EXCEPT ![frames[1].id] = @ + -1] /\ kept' = kept
      BY <1>6 DEF BodyReturns, Leave, Change
    <2>2. /\ Sound(frames[1], F, up) /\ Tail(frames) \in Seq(F)
          /\ winders = <<frames[1].id>> \o Extents(Tail(frames))
      <3>1. winders = Above(frames[1], Extents(Tail(frames)))
        BY <1>3, <2>1
      <3>2. QED BY <1>3, <2>1, <3>1 DEF Above
    <2>3. winders # << >> /\ Head(winders) = frames[1].id /\ Tail(winders) = Extents(Tail(frames))
      <3> DEFINE r == Extents(Tail(frames))
      <3>1. frames[1].id \in Extent
        BY <2>1, <2>2 DEF Sound
      <3>2. r \in Seq(Extent) /\ winders = <<frames[1].id>> \o r
        BY <1>1, <2>2, ExtentsType
      <3> HIDE DEF r
      <3>3. winders # << >> /\ Head(winders) = frames[1].id /\ Tail(winders) = r
        BY <3>1, <3>2, ConsFacts
      <3>4. QED BY <3>3 DEF r
    <2>4. Tail(winders) \in Lists(up)
      BY <1>2, <2>3, HeadOnce
    <2>5. entered' = EnteredOn(Tail(winders))
      BY <1>2, <2>1, <2>3, EnteredLess
    <2>6. RunSound(winders', Tail(frames), entered', F, up)
      BY <2>1, <2>2, <2>3, <2>4, <2>5 DEF RunSound
    <2>7. \E G : /\ FramesSound(G, up) /\ PlacesSound(kept, G, up)
                 /\ RunSound(winders', <<[at |-> "out"]>> \o Tail(frames), entered', G, up)
      BY <1>1, <2>2, <2>6, PlainFrame
    <2>8. QED BY <2>1, <2>7 DEF WindersInv
  <1>7. CASE OutReturns
    <2>1. /\ frames # << >> /\ frames[1].at = "out" /\ frames' = Tail(frames)
          /\ winders' = winders /\ kept' = kept /\ entered' = entered
      BY <1>7 DEF OutReturns
    <2>2. Tail(frames) \in Seq(F) /\ winders = Extents(Tail(frames))
      <3>1. winders = Above(frames[1], Extents(Tail(frames)))
        BY <1>3, <2>1
      <3>2. QED BY <1>3, <2>1, <3>1 DEF Above
    <2>3. RunSound(winders', frames', entered', F, up)
      BY <1>2, <2>1, <2>2 DEF RunSound
    <2>4. QED BY <1>1, <2>1, <2>3 DEF WindersInv
  <1>8. CASE KeepPlace
    <2>1. PICK s \in Place : kept' = [kept EXCEPT ![s] = [k |-> frames, save |-> winders]]
      BY <1>8 DEF KeepPlace
    <2>2. winders' = winders /\ frames' = frames /\ entered' = entered
      BY <1>8 DEF KeepPlace
    <2>3. kept \in [Place -> [k : Seq(F), save : Seq(Int)]] /\ winders \in Seq(Int)
      <3>1. winders \in Seq(Extent) /\ Extent \subseteq Int
        BY <1>2, WindersAssumption DEF Lists
      <3>2. QED BY <1>1, <3>1, SeqMonotonic DEF PlacesSound
    <2>4. kept' \in [Place -> [k : Seq(F), save : Seq(Int)]]
      BY <1>2, <2>1, <2>3
    <2>5. ASSUME NEW t \in Place, kept'[t] # NoPlace
          PROVE  kept'[t].save \in Lists(up) /\ kept'[t].save = Extents(kept'[t].k)
      <3>1. CASE t = s
        <4>1. kept'[t] = [k |-> frames, save |-> winders]
          BY <2>1, <2>3, <3>1
        <4>2. QED BY <1>2, <4>1
      <3>2. CASE t # s
        <4>1. kept'[t] = kept[t]
          BY <2>1, <2>3, <3>2
        <4>2. QED BY <1>1, <2>5, <4>1 DEF PlacesSound
      <3>3. QED BY <3>1, <3>2
    <2>6. PlacesSound(kept', F, up)
      BY <2>4, <2>5 DEF PlacesSound
    <2>7. QED BY <1>1, <2>2, <2>6 DEF WindersInv
  <1>9. CASE GoToPlace
    <2>1. PICK s \in Place : /\ kept[s] # NoPlace
                             /\ LET new == kept[s].save IN
                                IF new = winders
                                THEN frames' = kept[s].k /\ UNCHANGED <<winders, entered>>
                                ELSE Wind([at |-> "unwind", ls |-> winders,
                                           tail |-> CommonTail(new, winders), new |-> new,
                                           from |-> winders, k |-> kept[s].k,
                                           names |-> Names(kept[s].k),
                                           within |-> Windings(kept[s].k)], winders, frames)
      BY <1>9 DEF GoToPlace
    <2>2. kept' = kept
      BY <1>9 DEF GoToPlace
    <2> DEFINE new == kept[s].save
               k == kept[s].k
               f == [at |-> "unwind", ls |-> winders, tail |-> CommonTail(new, winders), new |-> new,
                     from |-> winders, k |-> k, names |-> Names(k), within |-> Windings(k)]
    <2>3. k \in Seq(F) /\ new \in Lists(up) /\ new = Extents(k)
      BY <1>1, <2>1 DEF PlacesSound
    <2>4. CASE new = winders
      <3>1. frames' = k /\ winders' = winders /\ entered' = entered
        BY <2>1, <2>4
      <3> HIDE DEF new, k, f
      <3>2. RunSound(winders', frames', entered', F, up)
        BY <1>2, <2>3, <2>4, <3>1 DEF RunSound
      <3>3. QED BY <1>1, <2>2, <3>2 DEF WindersInv
    <2>5. CASE new # winders
      <3>1. Wind(f, winders, frames)
        BY <2>1, <2>5
      <3>2. /\ f.at = "unwind" /\ f.ls = winders /\ f.tail = CommonTail(new, winders)
            /\ f.new = new /\ f.from = winders /\ f.k = k /\ f.names = Names(k)
            /\ f = Winding(f)
        BY DEF Winding
      <3> HIDE DEF new, k, f
      <3>3. /\ f.tail \in Lists(up) /\ Ends(f.tail, new) /\ Ends(f.tail, winders)
            /\ ToSet(new) \cap ToSet(winders) \subseteq ToSet(f.tail)
        BY <1>2, <2>3, <3>2, CommonTailShared
      <3>4. Throwing(f, F, up)
        BY <1>2, <2>3, <3>2, <3>3 DEF Throwing
      <3>5. Leaving(f, winders, up)
        <4>1. winders \in Seq(Extent)
          BY <1>2 DEF Lists
        <4>2. QED BY <1>2, <3>2, <3>3, <4>1, EndsItself DEF Leaving
      <3>6. QED BY <1>1, <1>2, <2>2, <3>1, <3>2, <3>4, <3>5, WindSound
    <2>6. QED BY <2>4, <2>5
  <1>10. CASE UnwindReturns
    <2>1. /\ frames # << >> /\ frames[1].at = "unwind" /\ kept' = kept
          /\ Wind(frames[1], frames[1].ls, Tail(frames))
      BY <1>10 DEF UnwindReturns
    <2>2. Sound(frames[1], F, up) /\ Tail(frames) \in Seq(F) /\ winders = frames[1].ls
      <3>1. winders = Above(frames[1], Extents(Tail(frames)))
        BY <1>3, <2>1
      <3>2. QED BY <1>3, <2>1, <3>1 DEF Above
    <2>3. Throwing(frames[1], F, up) /\ Leaving(frames[1], frames[1].ls, up)
      BY <2>1, <2>2 DEF Sound
    <2>4. QED BY <1>1, <1>2, <2>1, <2>2, <2>3, WindSound
  <1>11. CASE RewindReturns
    <2> DEFINE f == frames[1]
    <2>1. /\ frames # << >> /\ f.at = "rewind" /\ kept' = kept
          /\ Rewind(f, f.ls, Tail(frames))
          /\ entered' = [entered EXCEPT ![Head(f.ls)] = @ + 1]
      BY <1>11 DEF RewindReturns, Change
    <2>2. Sound(f, F, up) /\ Tail(frames) \in Seq(F) /\ winders = Tail(f.ls)
      <3>1. winders = Above(f, Extents(Tail(frames)))
        BY <1>3, <2>1
      <3>2. QED BY <1>3, <2>1, <3>1 DEF Above
    <2> HIDE DEF f
    <2>3. /\ Throwing(f, F, up) /\ f.ls # << >> /\ f.ls \in Lists(up) /\ Ends(f.ls, f.new)
          /\ Ends(f.tail, Tail(f.ls))
      BY <2>1, <2>2 DEF Sound
    <2>4. Ends(f.tail, f.ls)
      <3>1. f.tail \in Seq(Extent) /\ f.ls \in Seq(Extent)
        BY <2>3 DEF Throwing, Lists
      <3>2. Tail(f.ls) \in Seq(Extent) /\ Ends(Tail(f.ls), f.ls)
        BY <2>3, <3>1, HeadBeforeTail, TailEnds
      <3>3. QED BY <2>3, <3>1, <3>2, EndsTransitive
    <2>5. Entering(f, f.ls, up)
      BY <2>3, <2>4 DEF Entering
    <2>6. entered' = EnteredOn(f.ls)
      <3>1. [EnteredOn(Tail(f.ls)) EXCEPT ![Head(f.ls)] = @ + 1] = EnteredOn(f.ls)
        BY <2>3, EnteredMore
      <3>2. QED BY <1>2, <2>1, <2>2, <3>1
    <2>7. QED BY <1>1, <2>1, <2>2, <2>3, <2>5, <2>6, RewindSound
  <1>12. CASE UNCHANGED wvars
    <2>1. winders' = winders /\ frames' = frames /\ kept' = kept /\ entered' = entered
      BY <1>12 DEF wvars
    <2>2. QED BY <1>1, <2>1 DEF WindersInv
  <1>13. QED
    BY <1>4, <1>5, <1>6, <1>7, <1>8, <1>9, <1>10, <1>11, <1>12 DEF WindersNext

-----------------------------------------------------------------------------
(* The theorems *)

\* The inductive invariant holds throughout: every frame, however deep in
\* continuations, keeps lists that dynamic-wind, unwind* and rewind* can follow.
THEOREM WindersInductive == WindersSpec => []WindersInv
  <1>1. WindersInit => WindersInv
    BY InitSound
  <1>2. WindersInv /\ [WindersNext]_wvars => WindersInv'
    BY StepSound
  <1>3. QED BY <1>1, <1>2, PTL DEF WindersSpec

\* `winders' is the list of the extents that the running code is in, by what
\* waits for it, after any throws from bodies and from thunks.
THEOREM WindersFollowFrames == WindersSpec => []WindersFollow
  <1>1. WindersInv => WindersFollow
    BY DEF WindersInv, RunSound, WindersFollow
  <1>2. QED BY <1>1, WindersInductive, PTL

\* An extent on the list has been entered once more than left, any other as
\* often, and none is on the list twice.
THEOREM InAndOutAlternate == WindersSpec => []InOutAlternate
  <1>1. ASSUME WindersInv PROVE InOutAlternate
    <2>1. PICK F, up : RunSound(winders, frames, entered, F, up)
      BY <1>1 DEF WindersInv
    <2>2. winders \in Lists(up) /\ entered = EnteredOn(winders)
      BY <2>1 DEF RunSound
    <2>3. \A e \in Extent : entered[e] = IF e \in ToSet(winders) THEN 1 ELSE 0
      BY <2>2 DEF EnteredOn
    <2>4. IsInjective(winders)
      BY <2>2, ListsInjective
    <2>5. QED BY <2>3, <2>4 DEF InOutAlternate
  <1>2. QED BY <1>1, WindersInductive, PTL

\* While a throw runs a thunk, the extents that both of its places are in
\* stay entered.
THEOREM SharedExtentsKept == WindersSpec => []SharedExtentsStay
  <1>1. ASSUME WindersInv PROVE SharedExtentsStay
    <2>1. PICK F, up : FramesSound(F, up) /\ RunSound(winders, frames, entered, F, up)
      BY <1>1 DEF WindersInv
    <2>2. frames \in Seq(F) /\ winders = Extents(frames)
      BY <2>1 DEF RunSound
    <2>3. ASSUME NEW i \in DOMAIN frames, frames[i].at \in {"unwind", "rewind"},
                 \A j \in 1 .. i - 1 : frames[j].at \notin {"unwind", "rewind"}
          PROVE  ToSet(frames[i].new) \cap ToSet(frames[i].from) \subseteq ToSet(winders)
      BY <2>1, <2>2, <2>3, SharedOnList
    <2>4. QED BY <2>3 DEF SharedExtentsStay
  <1>2. QED BY <1>1, WindersInductive, PTL

================================================================================
