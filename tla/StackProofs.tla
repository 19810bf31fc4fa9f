---- MODULE StackProofs ----
(* Proof that the stack of Scheme code is whole frames within its area,      *)
(* whatever calls, overflows, underflows, captures, throws, foreign calls,   *)
(* callbacks and collections do, and that the C stack is that of the foreign *)
(* calls on the chain of continuations: for every size of an area, every set *)
(* of frame sizes, and any number of continuations.                          *)
(*                                                                           *)
(* Split, FirstSystem and Reach of Stack are recursive functions; what they  *)
(* are on the states that occur is proved first: rows of frames, where each  *)
(* one begins where the one before it ends (Framed), and chains of           *)
(* continuations, where every set of them has one that leads out of it       *)
(* (WellLinked).  StackInv is the invariant: FramesMatch alone says nothing  *)
(* of how far the frames of a continuation are from the stack that grows     *)
(* below them, nor WithinArea of the room that a frame below the redline     *)
(* needs for the check at the next procedure's entry.                        *)
EXTENDS Stack, SequenceFacts, FiniteSetTheorems, TLAPS

-----------------------------------------------------------------------------
(* Rows of frames *)

\* the size of the frame at word i of a block
SizeAt(b, i) == IF FrameSize[b[i].rp] = 0 THEN b[i + 1].size ELSE FrameSize[b[i].rp]

FrameAt(b, i, end) ==
  /\ SizeAt(b, i) \in Nat \ {0} /\ i + SizeAt(b, i) <= end /\ 2 * SizeAt(b, i) + 3 <= Redline
  /\ FrameSize[b[i].rp] = 0 => SizeAt(b, i) = Dynamic
  /\ i + SizeAt(b, i) < end => b[i + SizeAt(b, i)].w = "rp"
  /\ \A j \in i + 1 .. i + SizeAt(b, i) - 1 : b[j].w # "rp"

\* words top .. end - 1 of b are frames, each after the other
Framed(b, top, end) ==
  /\ top \in Int /\ end \in Int /\ top <= end
  /\ top < end => b[top].w = "rp"
  /\ \A i \in top .. end - 1 : b[i].w = "rp" => FrameAt(b, i, end)

\* no words are no frames, and they are whole
LEMMA FramedNone ==
  ASSUME NEW b, NEW top \in Int
  PROVE  Framed(b, top, top)
  BY DEF Framed

\* frames are the same elsewhere
LEMMA FramedMoved ==
  ASSUME NEW b, NEW c, NEW top, NEW end, Framed(b, top, end), NEW d \in Int,
         \A j \in top .. end - 1 : c[j + d] = b[j]
  PROVE  Framed(c, top + d, end + d)
  <1>1. top \in Int /\ end \in Int /\ top <= end
    BY DEF Framed
  <1>2. ASSUME NEW i \in top + d .. end + d - 1, c[i].w = "rp"
        PROVE  FrameAt(c, i, end + d)
    <2> DEFINE k == i - d
               n == SizeAt(b, k)
    <2>1. k \in top .. end - 1 /\ k + d = i /\ k \in Int /\ i \in Int
      BY <1>1
    <2>2. c[i] = b[k]
      BY <2>1
    <2>3. FrameAt(b, k, end)
      BY <1>2, <2>1, <2>2 DEF Framed
    <2>4. n \in Nat \ {0} /\ k + n <= end /\ 2 * n + 3 <= Redline /\ (FrameSize[b[k].rp] = 0 => n = Dynamic)
      BY <2>3 DEF FrameAt
    <2>5. SizeAt(c, i) = n
      <3>1. CASE FrameSize[b[k].rp] = 0
        <4>1. n = 3
          BY <2>4, <3>1 DEF Dynamic
        <4>2. k + 1 \in top .. end - 1 /\ (k + 1) + d = i + 1
          BY <2>1, <2>4, <4>1, <1>1
        <4>3. c[i + 1] = b[k + 1]
          BY <4>2
        <4>4. QED BY <2>2, <3>1, <4>3 DEF SizeAt
      <3>2. CASE FrameSize[b[k].rp] # 0
        BY <2>2, <3>2 DEF SizeAt
      <3>3. QED BY <3>1, <3>2
    <2> HIDE DEF k, n
    <2>6. i + n <= end + d
      BY <1>1, <2>1, <2>4
    <2>7. ASSUME i + n < end + d PROVE c[i + n].w = "rp"
      <3>1. k + n \in top .. end - 1 /\ (k + n) + d = i + n
        BY <1>1, <2>1, <2>4, <2>7
      <3>2. b[k + n].w = "rp"
        BY <2>3, <3>1, <1>1 DEF FrameAt, n
      <3>3. QED BY <3>1, <3>2
    <2>8. ASSUME NEW j \in i + 1 .. i + n - 1 PROVE c[j].w # "rp"
      <3>1. j - d \in top .. end - 1 /\ j - d \in k + 1 .. k + n - 1 /\ (j - d) + d = j
        BY <1>1, <2>1, <2>4
      <3>2. b[j - d].w # "rp"
        BY <2>3, <3>1 DEF FrameAt, n
      <3>3. QED BY <3>1, <3>2
    <2>9. QED BY <2>2, <2>4, <2>5, <2>6, <2>7, <2>8 DEF FrameAt
  <1>3. top + d < end + d => c[top + d].w = "rp"
    <2> SUFFICES ASSUME top + d < end + d PROVE c[top + d].w = "rp"
      OBVIOUS
    <2>1. top \in top .. end - 1 /\ top < end
      BY <1>1
    <2>2. QED BY <2>1 DEF Framed
  <1>4. top + d \in Int /\ end + d \in Int /\ top + d <= end + d
    BY <1>1
  <1>5. QED BY <1>2, <1>3, <1>4 DEF Framed

\* what is above the frames may change
LEMMA FramedKept ==
  ASSUME NEW b, NEW c, NEW top, NEW end, Framed(b, top, end),
         \A j \in top .. end - 1 : c[j] = b[j]
  PROVE  Framed(c, top, end)
  <1>1. top \in Int /\ end \in Int
    BY DEF Framed
  <1>2. \A j \in top .. end - 1 : c[j + 0] = b[j]
    BY <1>1
  <1>3. Framed(c, top + 0, end + 0)
    BY <1>2, FramedMoved
  <1>4. QED BY <1>1, <1>3

\* the first frame, and the rest
LEMMA FramedRest ==
  ASSUME NEW b, NEW top, NEW end, Framed(b, top, end), top < end,
         NEW n, n = SizeAt(b, top)
  PROVE  /\ n \in Nat \ {0} /\ top + n <= end /\ 2 * n + 3 <= Redline
         /\ FrameSize[b[top].rp] = 0 => n = Dynamic
         /\ b[top].w = "rp"
         /\ Framed(b, top + n, end)
         /\ Framed(b, top, top + n)
  <1>1. top \in Int /\ end \in Int /\ b[top].w = "rp" /\ top \in top .. end - 1
    BY DEF Framed
  <1>2. FrameAt(b, top, end)
    BY <1>1 DEF Framed
  <1>3. /\ n \in Nat \ {0} /\ top + n <= end /\ 2 * n + 3 <= Redline
        /\ FrameSize[b[top].rp] = 0 => n = Dynamic
        /\ top + n < end => b[top + n].w = "rp"
        /\ \A j \in top + 1 .. top + n - 1 : b[j].w # "rp"
    BY <1>2 DEF FrameAt
  <1>4. Framed(b, top + n, end)
    <2>1. \A i \in top + n .. end - 1 : i \in top .. end - 1
      BY <1>1, <1>3
    <2>2. QED BY <1>1, <1>3, <2>1 DEF Framed
  <1>5. Framed(b, top, top + n)
    <2>1. ASSUME NEW i \in top .. top + n - 1, b[i].w = "rp" PROVE i = top
      BY <1>1, <1>3, <2>1
    <2>2. FrameAt(b, top, top + n)
      BY <1>1, <1>3 DEF FrameAt
    <2>3. QED BY <1>1, <1>3, <2>1, <2>2 DEF Framed
  <1>6. QED BY <1>1, <1>3, <1>4, <1>5

\* a sequence is one of what it holds
LEMMA OfItsElements ==
  ASSUME NEW S, NEW s \in Seq(S)
  PROVE  s \in Seq(ToSet(s))
  <1>1. Len(s) \in Nat /\ DOMAIN s = 1 .. Len(s) /\ s = [i \in 1 .. Len(s) |-> s[i]]
    OBVIOUS
  <1>2. \A i \in 1 .. Len(s) : s[i] \in ToSet(s)
    BY <1>1 DEF ToSet
  <1>3. QED BY <1>1, <1>2, IsASeq

\* the words of a frame
LEMMA FrameWords ==
  ASSUME NEW f \in Frames
  PROVE  /\ f \in Seq(ToSet(f)) /\ Len(f) \in Nat \ {0} /\ 2 * Len(f) + 3 <= Redline
         /\ f[1].w = "rp" /\ f[1].rp \in DOMAIN FrameSize
         /\ IF FrameSize[f[1].rp] = 0 THEN Len(f) = Dynamic /\ f[2].size = Dynamic
            ELSE Len(f) = FrameSize[f[1].rp]
         /\ \A j \in 2 .. Len(f) : f[j].w # "rp"
  <1>1. PICK r \in DOMAIN FrameSize, v \in Value : f = FrameOf(r, v)
    BY DEF Frames
  <1>2. FrameSize[r] \in Nat /\ 2 * FrameSize[r] + 3 <= Redline /\ 2 * Dynamic + 3 <= Redline /\ Redline \in Int
    BY StackAssumption
  <1>3. CASE FrameSize[r] = 0
    <2> DEFINE vs == [i \in 1 .. Dynamic - 2 |-> Val(v)]
               hs == <<Rp(r), [w |-> "size", size |-> Dynamic]>>
    <2>1. f = hs \o vs
      BY <1>1, <1>3 DEF FrameOf
    <2> DEFINE size == [w |-> "size", size |-> Dynamic]
               W == {Rp(r), size, Val(v)}
    <2>2. /\ hs \in Seq(W) /\ Len(hs) = 2 /\ hs[1] = Rp(r) /\ hs[2] = size
          /\ vs \in Seq(W) /\ Len(vs) = 1 /\ vs[1] = Val(v)
      <3> DEFINE x == Rp(r)
                 y == Val(v)
      <3>1. hs = <<x, size>> /\ vs = [i \in 1 .. 1 |-> y]
        BY DEF Dynamic
      <3> HIDE DEF x, y, size, hs, vs
      <3>2. W = {x, size, y}
        BY DEF x, y
      <3> HIDE DEF W
      <3>3. hs \in Seq(W) /\ Len(hs) = 2 /\ hs[1] = x /\ hs[2] = size
        BY <3>1, <3>2
      <3>4. vs \in Seq(W) /\ Len(vs) = 1 /\ vs[1] = y
        BY <3>1, <3>2
      <3>5. QED BY <3>3, <3>4 DEF x, y
    <2> HIDE DEF hs, vs, W, size
    <2>3. /\ f \in Seq(W) /\ Len(f) = 2 + 1
          /\ \A i \in 1 .. 2 + 1 : f[i] = IF i <= 2 THEN hs[i] ELSE vs[i - 2]
      BY <2>1, <2>2, ConcatProperties, SMTT(30)
    <2>4. f \in Seq(W) /\ Len(f) = 3 /\ f[1] = Rp(r) /\ f[2] = size /\ f[3] = Val(v)
      <3>1. f[1] = hs[1] /\ f[2] = hs[2]
        BY <2>3
      <3>2. f[3] = vs[1]
        BY <2>3
      <3>3. f \in Seq(W) /\ Len(f) = 3
        BY <2>3
      <3>4. QED BY <2>2, <3>1, <3>2, <3>3
    <2>5. f \in Seq(ToSet(f))
      BY <2>4, OfItsElements
    <2>6. \A j \in 2 .. 3 : j = 2 \/ j = 3
      OBVIOUS
    <2>7. f[1].w = "rp" /\ f[1].rp = r /\ f[2].size = Dynamic /\ f[2].w # "rp" /\ f[3].w # "rp"
      BY <2>4 DEF Rp, Val, size
    <2>8. QED BY <1>2, <1>3, <2>4, <2>5, <2>6, <2>7 DEF Dynamic
  <1>4. CASE FrameSize[r] # 0
    <2> DEFINE n == FrameSize[r]
               vs == [i \in 1 .. n - 1 |-> Val(v)]
    <2>1. f = <<Rp(r)>> \o vs
      BY <1>1, <1>4 DEF FrameOf
    <2>2. n \in Nat /\ n - 1 \in Nat /\ n >= 1
      BY <1>2, <1>4
    <2>3. vs \in Seq({Val(v)}) /\ Len(vs) = n - 1
      BY <2>2
    <2> DEFINE W == {Rp(r), Val(v)}
    <2>4. vs \in Seq(W) /\ Rp(r) \in W
      BY <2>2
    <2> HIDE DEF vs, W, n
    <2> DEFINE hs == <<Rp(r)>>
    <2>5. hs \in Seq(W) /\ Len(hs) = 1 /\ hs[1] = Rp(r)
      BY <2>4
    <2> HIDE DEF hs
    <2>6. /\ f \in Seq(W) /\ Len(f) = n /\ f[1] = Rp(r)
          /\ \A i \in 1 .. n - 1 : f[i + 1] = vs[i]
      <3>1. f = hs \o vs
        BY <2>1 DEF hs
      <3>2. /\ f \in Seq(W) /\ Len(f) = 1 + (n - 1)
            /\ \A i \in 1 .. 1 + (n - 1) : f[i] = IF i <= 1 THEN hs[i] ELSE vs[i - 1]
        <4>1. /\ hs \o vs \in Seq(W) /\ Len(hs \o vs) = Len(hs) + Len(vs)
              /\ \A i \in 1 .. Len(hs) + Len(vs) :
                   (hs \o vs)[i] = IF i <= Len(hs) THEN hs[i] ELSE vs[i - Len(hs)]
          BY <2>4, <2>5, ConcatProperties
        <4>2. QED BY <2>3, <2>5, <3>1, <4>1
      <3>3. f[1] = Rp(r)
        BY <2>2, <2>5, <3>2
      <3>4. ASSUME NEW i \in 1 .. n - 1 PROVE f[i + 1] = vs[i]
        <4>1. i + 1 \in 1 .. 1 + (n - 1) /\ ~(i + 1 <= 1) /\ (i + 1) - 1 = i
          BY <2>2
        <4>2. QED BY <3>2, <4>1
      <3>5. QED BY <2>2, <3>2, <3>3, <3>4
    <2>7. ASSUME NEW j \in 2 .. n PROVE f[j].w # "rp"
      <3>1. j - 1 \in 1 .. n - 1 /\ (j - 1) + 1 = j
        BY <2>2
      <3>2. f[j] = vs[j - 1]
        BY <2>6, <3>1
      <3>3. f[j] = Val(v)
        BY <3>1, <3>2 DEF vs
      <3>4. QED BY <3>3 DEF Val
    <2>8. f \in Seq(ToSet(f))
      BY <2>6, OfItsElements
    <2>9. f[1].w = "rp" /\ f[1].rp = r
      BY <2>6 DEF Rp
    <2>10. n = FrameSize[r]
      BY DEF n
    <2>11. QED BY <1>2, <1>4, <2>2, <2>6, <2>7, <2>8, <2>9, <2>10
  <1>5. QED BY <1>3, <1>4

\* a frame that is pushed
LEMMA FramedPushed ==
  ASSUME NEW b, NEW top, NEW end, Framed(b, top, end), NEW f \in Frames, NEW n, n = Len(f),
         \A j \in 1 .. n : b[top - n + j - 1] = f[j]
  PROVE  Framed(b, top - n, end)
  <1>1. top \in Int /\ end \in Int /\ top <= end
    BY DEF Framed
  <1>2. /\ n \in Nat \ {0} /\ 2 * n + 3 <= Redline
        /\ f[1].w = "rp" /\ f[1].rp \in DOMAIN FrameSize
        /\ IF FrameSize[f[1].rp] = 0 THEN n = Dynamic /\ f[2].size = Dynamic
           ELSE n = FrameSize[f[1].rp]
        /\ \A j \in 2 .. n : f[j].w # "rp"
    BY FrameWords
  <1> DEFINE at == top - n
  <1>3. at \in Int /\ at + n = top
    BY <1>1, <1>2
  <1>4. b[at] = f[1]
    <2>1. 1 \in 1 .. n /\ top - n + 1 - 1 = at
      BY <1>1, <1>2
    <2>2. QED BY <2>1
  <1>5. SizeAt(b, at) = n
    <2>1. CASE FrameSize[f[1].rp] = 0
      <3>1. n = 3 /\ 2 \in 1 .. n /\ top - n + 2 - 1 = at + 1
        <4>1. n = 3
          BY <1>2, <2>1 DEF Dynamic
        <4>2. top - 3 + 2 - 1 = (top - 3) + 1
          BY <1>1
        <4>3. QED BY <4>1, <4>2
      <3>2. b[at + 1] = f[2]
        BY <3>1
      <3>3. QED BY <1>2, <1>4, <2>1, <3>2 DEF SizeAt
    <2>2. CASE FrameSize[f[1].rp] # 0
      BY <1>2, <1>4, <2>2 DEF SizeAt
    <2>3. QED BY <2>1, <2>2
  <1> HIDE DEF at
  <1>6. ASSUME NEW j \in at + 1 .. at + n - 1 PROVE b[j].w # "rp"
    <2>1. j - at + 1 \in 2 .. n /\ j - at + 1 \in 1 .. n /\ top - n + (j - at + 1) - 1 = j
      BY <1>1, <1>2, <1>3 DEF at
    <2>2. b[j] = f[j - at + 1]
      BY <2>1
    <2>3. QED BY <1>2, <2>1, <2>2
  <1>7. at + n < end => b[at + n].w = "rp"
    BY <1>3 DEF Framed
  <1>8. FrameAt(b, at, end)
    BY <1>1, <1>2, <1>3, <1>4, <1>5, <1>6, <1>7 DEF FrameAt
  <1>9. ASSUME NEW i \in at .. end - 1, b[i].w = "rp" PROVE FrameAt(b, i, end)
    <2>1. CASE i = at
      BY <1>8, <2>1
    <2>2. CASE i # at
      <3>1. i \in top .. end - 1
        <4>1. i \in at + 1 .. at + n - 1 \/ i \in top .. end - 1
          BY <1>1, <1>2, <1>3, <2>2
        <4>2. QED BY <4>1, <1>6, <1>9
      <3>2. QED BY <1>9, <3>1 DEF Framed
    <2>3. QED BY <2>1, <2>2
  <1>10. at \in Int /\ end \in Int /\ at <= end /\ b[at].w = "rp"
    BY <1>1, <1>2, <1>3, <1>4
  <1>11. QED BY <1>9, <1>10 DEF Framed, at

-----------------------------------------------------------------------------
(* Splitting a row of words *)

IsSplit(ws, g) ==
  g = [i \in 1 .. Len(ws) + AreaSize |->
        IF i = Len(ws) + 1 THEN <<>>
        ELSE IF i > Len(ws) \/ ws[i].w # "rp" THEN <<Mismatch>>
        ELSE LET size == framesize(SubSeq(ws, i, Len(ws))) IN
             IF i + size > Len(ws) + 1 THEN <<Mismatch>>
             ELSE <<SubSeq(ws, i, i + size - 1)>> \o g[i + size]]

\* frames end where others begin, or at the end
InFrames(ws, size) ==
  \A i \in 1 .. Len(ws) : ws[i].w = "rp" =>
    /\ size[i] = framesize(SubSeq(ws, i, Len(ws)))
    /\ size[i] \in Nat \ {0} /\ i + size[i] <= Len(ws) + 1
    /\ i + size[i] <= Len(ws) => ws[i + size[i]].w = "rp"

\* the words of frames, as a sequence
LEMMA FramedWords ==
  ASSUME NEW b, NEW top, NEW end, Framed(b, top, end)
  PROVE  \E W : Words(b, top, end) \in Seq(W) /\ Len(Words(b, top, end)) = end - top
  <1> DEFINE n == end - top
             ws == Words(b, top, end)
             W == {b[top + i - 1] : i \in 1 .. n}
  <1>1. n \in Nat
    BY DEF Framed
  <1>2. ws = [i \in 1 .. n |-> b[top + i - 1]]
    BY DEF Words
  <1>3. ws \in Seq(W) /\ Len(ws) = n
    BY <1>1, <1>2
  <1>4. QED BY <1>3

\* the words of whole frames, with the sizes read at their return points, are
\* what InFrames asks: a size is that of the words from its return point on
LEMMA FramedSizes ==
  ASSUME NEW b, NEW top, NEW end, Framed(b, top, end)
  PROVE  /\ InFrames(Words(b, top, end), [i \in 1 .. end - top |-> SizeAt(b, top + i - 1)])
         /\ top < end => Words(b, top, end)[1].w = "rp"
  <1> DEFINE n == end - top
             ws == Words(b, top, end)
             size == [i \in 1 .. n |-> SizeAt(b, top + i - 1)]
  <1>1. n \in Nat /\ top \in Int /\ end \in Int /\ top + n = end
    BY DEF Framed
  <1>2. /\ Len(ws) = n
        /\ \A i \in 1 .. n : ws[i] = b[top + i - 1]
    BY <1>1 DEF Words
  <1>3. PICK W : ws \in Seq(W)
    BY FramedWords
  <1>4. \A i \in 1 .. n : size[i] = SizeAt(b, top + i - 1)
    OBVIOUS
  <1> HIDE DEF ws, size, n
  <1>5. ASSUME NEW i \in 1 .. n, ws[i].w = "rp"
        PROVE  /\ size[i] = framesize(SubSeq(ws, i, n))
               /\ size[i] \in Nat \ {0} /\ i + size[i] <= n + 1
               /\ i + size[i] <= n => ws[i + size[i]].w = "rp"
    <2> DEFINE k == top + i - 1
               m == SizeAt(b, k)
    <2>1. k \in top .. end - 1 /\ k \in Int /\ b[k] = ws[i] /\ i \in Int
      BY <1>1, <1>2
    <2>2. FrameAt(b, k, end)
      BY <1>5, <2>1 DEF Framed
    <2>3. m \in Nat \ {0} /\ k + m <= end /\ (FrameSize[b[k].rp] = 0 => m = 3) /\ (k + m < end => b[k + m].w = "rp")
      BY <2>2 DEF FrameAt, Dynamic
    <2>4. size[i] = m
      BY <1>4
    <2> HIDE DEF m
    <2>5. i + m <= n + 1
      BY <1>1, <2>1, <2>3
    <2> DEFINE q == SubSeq(ws, i, n)
    <2>6. i \in 1 .. n + 1 /\ n \in 0 .. n
      BY <1>1
    <2>7. Len(q) = n - i + 1 /\ \A j \in 1 .. n - i + 1 : q[j] = ws[i + j - 1]
      <3>1. \A j \in i .. n : ws[j] \in W
        BY <1>2, <1>3, ElementOfSeq
      <3>2. i <= n
        BY <1>1
      <3>3. /\ SubSeq(ws, i, n) \in Seq(W)
            /\ Len(SubSeq(ws, i, n)) = IF i <= n THEN n - i + 1 ELSE 0
            /\ \A j \in 1 .. n - i + 1 : SubSeq(ws, i, n)[j] = ws[i + j - 1]
        BY <1>1, <1>3, <2>1, <3>1, SubSeqProperties
      <3>4. QED BY <3>2, <3>3
    <2>8. q[1] = ws[i]
      <3>1. 1 \in 1 .. n - i + 1 /\ i + 1 - 1 = i
        BY <1>1
      <3>2. QED BY <2>7, <3>1
    <2> HIDE DEF q
    <2>9. framesize(q) = m
      <3>1. CASE FrameSize[b[k].rp] = 0
        <4>1. m = 3
          BY <2>3, <3>1
        <4>2. 2 \in 1 .. n - i + 1 /\ i + 2 - 1 = i + 1 /\ i + 1 \in 1 .. n /\ top + (i + 1) - 1 = k + 1
          <5>1. i + 3 <= n + 1
            BY <2>5, <4>1
          <5>2. QED BY <5>1, <1>1, <2>1
        <4>3. q[2] = b[k + 1]
          BY <1>2, <2>7, <4>2
        <4> HIDE DEF k
        <4>4. QED BY <2>1, <2>8, <3>1, <4>3 DEF framesize, SizeAt, m
      <3>2. CASE FrameSize[b[k].rp] # 0
        <4> HIDE DEF k
        <4>1. QED BY <2>1, <2>8, <3>2 DEF framesize, SizeAt, m
      <3>3. QED BY <3>1, <3>2
    <2>10. ASSUME i + m <= n PROVE ws[i + m].w = "rp"
      <3>1. k + m < end /\ i + m \in 1 .. n /\ top + (i + m) - 1 = k + m
        BY <1>1, <2>1, <2>3, <2>10
      <3> HIDE DEF k
      <3>2. QED BY <1>2, <2>3, <3>1
    <2>11. QED BY <2>3, <2>4, <2>5, <2>9, <2>10 DEF q
  <1>6. InFrames(ws, size)
    BY <1>2, <1>5 DEF InFrames
  <1>7. ASSUME top < end PROVE ws[1].w = "rp"
    <2>1. 1 \in 1 .. n /\ top + 1 - 1 = top
      BY <1>1, <1>7
    <2>2. QED BY <1>2, <1>7, <2>1 DEF Framed
  <1>8. QED BY <1>6, <1>7 DEF size, ws, n

\* an area holds a frame of the longest size twice over, above the redline
LEMMA AreaLarge == AreaSize \in Nat /\ AreaSize >= 9 /\ Redline \in Nat /\ Redline >= 9 /\ Redline <= AreaSize
  BY StackAssumption DEF Dynamic

\* there is such a function
LEMMA SplitExists ==
  ASSUME NEW W, NEW ws \in Seq(W), NEW size, InFrames(ws, size)
  PROVE  \E g : IsSplit(ws, g)
  <1> DEFINE n == Len(ws)
             E == 1 .. n + AreaSize
             D == {i \in 1 .. n : ws[i].w = "rp"}
             next == [i \in D |-> i + size[i]]
             part(i) == SubSeq(ws, i, i + size[i] - 1)
             Y == {part(i) : i \in D} \cup {Mismatch}
             V == Seq(Y)
             base == [i \in E |-> IF i = n + 1 THEN <<>> ELSE <<Mismatch>>]
             step == [i \in D |-> [x \in V |-> <<part(i)>> \o x]]
  <1>1. n \in Nat /\ AreaSize \in Nat /\ AreaSize >= 9
    BY AreaLarge
  <1>2. ASSUME NEW i \in D
        PROVE  /\ i \in 1 .. n /\ size[i] = framesize(SubSeq(ws, i, n))
               /\ size[i] \in Nat \ {0} /\ i + size[i] <= n + 1
    <2>1. i \in 1 .. n /\ ws[i].w = "rp"
      OBVIOUS
    <2>2. QED BY <2>1 DEF InFrames
  <1>3. Falls(D, E, next)
    <2>1. D \subseteq E
      BY <1>1
    <2>2. next \in [D -> E]
      <3>1. ASSUME NEW i \in D PROVE i + size[i] \in E
        <4>1. i \in 1 .. n /\ size[i] \in Nat \ {0} /\ i + size[i] <= n + 1
          BY <1>2
        <4>2. QED BY <1>1, <4>1
      <3> HIDE DEF D, E
      <3>2. QED BY <3>1
    <2>3. ASSUME NEW S \in SUBSET D, S # {} PROVE \E i \in S : next[i] \notin S
      <3>1. S \subseteq 0 .. n
        OBVIOUS
      <3> HIDE DEF next, D
      <3>2. PICK i \in S : \A j \in S : j <= i
        <4> HIDE DEF n
        <4>1. QED BY <1>1, <2>3, <3>1, GreatestNumber
      <3>3. i \in D /\ next[i] = i + size[i]
        BY DEF next
      <3>4. i \in 1 .. n /\ size[i] \in Nat \ {0}
        BY <1>2, <3>3
      <3>5. next[i] > i /\ next[i] \in Int
        BY <3>3, <3>4
      <3>6. QED BY <3>2, <3>4, <3>5
    <2> HIDE DEF D, E, next
    <2>4. QED BY <2>1, <2>2, <2>3 DEF Falls, Grounded
  <1>4. base \in [E -> V]
    <2>1. <<>> \in V /\ <<Mismatch>> \in V
      <3>1. Mismatch \in Y
        OBVIOUS
      <3> HIDE DEF Y
      <3>2. QED BY <3>1
    <2> HIDE DEF V, E
    <2>2. QED BY <2>1
  <1>5. step \in [D -> [V -> V]]
    <2>1. ASSUME NEW i \in D, NEW x \in V PROVE <<part(i)>> \o x \in V
      <3> DEFINE p == part(i)
      <3>1. p \in Y
        OBVIOUS
      <3> HIDE DEF p, Y
      <3>2. <<p>> \o x \in Seq(Y)
        BY <3>1, ConsFacts
      <3>3. QED BY <3>2 DEF p
    <2> HIDE DEF V, D, part
    <2>2. QED BY <2>1
  <1>6. PICK g \in [E -> V] : Along(D, E, next, base, step, g)
    <2> HIDE DEF D, E, next, base, step, V
    <2>1. QED BY <1>3, <1>4, <1>5, AlongExists
  <1> DEFINE made(i) ==
        IF i = Len(ws) + 1 THEN <<>>
        ELSE IF i > Len(ws) \/ ws[i].w # "rp" THEN <<Mismatch>>
        ELSE LET z == framesize(SubSeq(ws, i, Len(ws))) IN
             IF i + z > Len(ws) + 1 THEN <<Mismatch>>
             ELSE <<SubSeq(ws, i, i + z - 1)>> \o g[i + z]
  <1>7. ASSUME NEW i \in E PROVE g[i] = made(i)
    <2>1. g[i] = IF i \in D THEN step[i][g[next[i]]] ELSE base[i]
      BY <1>6 DEF Along
    <2>2. i \in Nat /\ i >= 1
      BY <1>1
    <2>3. CASE i = n + 1
      <3>1. i \notin D
        BY <2>3, <1>1
      <3>2. base[i] = << >>
        BY <2>3
      <3> HIDE DEF D, E, base, step, next
      <3>3. QED BY <2>1, <2>3, <3>1, <3>2
    <2>4. CASE i # n + 1 /\ (i > n \/ ws[i].w # "rp")
      <3>1. i \notin D
        BY <2>4, <1>1
      <3>2. base[i] = <<Mismatch>>
        BY <2>4
      <3> HIDE DEF D, E, base, step, next
      <3>3. QED BY <2>1, <2>4, <3>1, <3>2
    <2>5. CASE i # n + 1 /\ ~(i > n \/ ws[i].w # "rp")
      <3>1. i \in D
        BY <2>5, <2>2, <1>1
      <3> DEFINE z == size[i]
      <3>2. z = framesize(SubSeq(ws, i, n)) /\ z \in Nat \ {0} /\ i + z <= n + 1
        BY <1>2, <3>1
      <3>3. next[i] = i + z
        BY <3>1
      <3>4. g[i + z] \in V
        <4>1. i + z \in E
          BY <1>1, <2>2, <3>2
        <4> HIDE DEF E, V
        <4>2. QED BY <1>6, <4>1
      <3>5. step[i][g[next[i]]] = <<SubSeq(ws, i, i + z - 1)>> \o g[i + z]
        <4> DEFINE x == g[next[i]]
        <4>1. x \in V /\ x = g[i + z]
          BY <3>3, <3>4
        <4> HIDE DEF x, V, D, next
        <4>2. step[i][x] = <<part(i)>> \o x
          BY <3>1, <4>1
        <4>3. QED BY <4>1, <4>2 DEF x
      <3>6. ~(i + z > n + 1)
        BY <3>2, <1>1, <2>2
      <3>7. g[i] = <<SubSeq(ws, i, i + z - 1)>> \o g[i + z]
        <4> HIDE DEF D, E, base, step, next, z
        <4>1. QED BY <2>1, <3>1, <3>5
      <3> HIDE DEF D, E, base, step, next, z
      <3>8. QED BY <2>5, <3>2, <3>6, <3>7
    <2>6. QED BY <2>3, <2>4, <2>5
  <1>8. g = [i \in E |-> made(i)]
    <2>1. g = [i \in E |-> g[i]]
      BY <1>6
    <2> HIDE DEF E, made, V
    <2>2. QED BY <2>1, <1>7
  <1>9. IsSplit(ws, g)
    BY <1>8 DEF IsSplit
  <1>10. QED BY <1>9

\* and what it says of a place
LEMMA SplitAt ==
  ASSUME NEW W, NEW ws \in Seq(W), NEW size, InFrames(ws, size), NEW g, IsSplit(ws, g),
         NEW i \in 1 .. Len(ws) + 1
  PROVE  /\ i = Len(ws) + 1 => g[i] = << >>
         /\ i <= Len(ws) /\ ws[i].w = "rp" => g[i] = <<SubSeq(ws, i, i + size[i] - 1)>> \o g[i + size[i]]
  <1>1. Len(ws) \in Nat /\ i \in Nat /\ i \in 1 .. Len(ws) + AreaSize
    BY AreaLarge
  <1>2. g[i] = IF i = Len(ws) + 1 THEN <<>>
               ELSE IF i > Len(ws) \/ ws[i].w # "rp" THEN <<Mismatch>>
               ELSE LET z == framesize(SubSeq(ws, i, Len(ws))) IN
                    IF i + z > Len(ws) + 1 THEN <<Mismatch>>
                    ELSE <<SubSeq(ws, i, i + z - 1)>> \o g[i + z]
    BY <1>1 DEF IsSplit
  <1>3. ASSUME i <= Len(ws), ws[i].w = "rp"
        PROVE  g[i] = <<SubSeq(ws, i, i + size[i] - 1)>> \o g[i + size[i]]
    <2>1. i \in 1 .. Len(ws) /\ i # Len(ws) + 1 /\ ~(i > Len(ws))
      BY <1>1, <1>3
    <2>2. size[i] = framesize(SubSeq(ws, i, Len(ws))) /\ size[i] \in Nat /\ i + size[i] <= Len(ws) + 1
      BY <1>3, <2>1 DEF InFrames
    <2>3. ~(i + size[i] > Len(ws) + 1)
      BY <1>1, <2>2
    <2>4. QED BY <1>2, <1>3, <2>1, <2>2, <2>3
  <1>4. QED BY <1>2, <1>3

\* a frame, and then what follows it
LEMMA SplitFrame ==
  ASSUME NEW W, NEW ws \in Seq(W), NEW size, InFrames(ws, size), NEW g, IsSplit(ws, g),
         NEW i \in 1 .. Len(ws) + 1, i <= Len(ws), ws[i].w = "rp"
  PROVE  g[i] = <<SubSeq(ws, i, i + size[i] - 1)>> \o g[i + size[i]]
  BY SplitAt

\* a row of frames matches up
LEMMA SplitMatches ==
  ASSUME NEW W, NEW ws \in Seq(W), NEW size, InFrames(ws, size), ws # << >> => ws[1].w = "rp"
  PROVE  Matches(Split(ws))
  <1> DEFINE n == Len(ws)
             g == CHOOSE g : IsSplit(ws, g)
             D == {i \in 1 .. n : ws[i].w = "rp"}
             Y == {SubSeq(ws, i, i + size[i] - 1) : i \in D}
             T == {i \in D : g[i] \notin Seq(Y)}
  <1>1. IsSplit(ws, g)
    BY SplitExists
  <1>2. Split(ws) = g[1]
    BY Zenon DEF Split, IsSplit
  <1> HIDE DEF g
  <1>3. n \in Nat
    OBVIOUS
  <1>4. g[n + 1] = << >>
    <2> DEFINE e == n + 1
    <2>1. e \in 1 .. Len(ws) + 1 /\ e = Len(ws) + 1
      BY <1>3
    <2> HIDE DEF e, D, Y, T
    <2>2. g[e] = << >>
      BY <1>1, <2>1, SplitAt
    <2>3. QED BY <2>2 DEF e
  <1>5. ASSUME NEW i \in D
        PROVE  /\ i \in 1 .. n /\ size[i] \in Nat \ {0}
               /\ i + size[i] = n + 1 \/ i + size[i] \in D
               /\ g[i] = <<SubSeq(ws, i, i + size[i] - 1)>> \o g[i + size[i]]
    <2>1. i \in 1 .. n /\ ws[i].w = "rp" /\ i \in 1 .. n + 1 /\ i <= n
      BY <1>3
    <2>2. size[i] \in Nat \ {0} /\ i + size[i] <= n + 1 /\ (i + size[i] <= n => ws[i + size[i]].w = "rp")
      BY <2>1 DEF InFrames
    <2>3. i + size[i] = n + 1 \/ i + size[i] \in D
      BY <1>3, <2>1, <2>2
    <2>4. i \in 1 .. Len(ws) + 1 /\ i <= Len(ws) /\ ws[i].w = "rp"
      BY <2>1
    <2> HIDE DEF D, Y, T, n
    <2>5. g[i] = <<SubSeq(ws, i, i + size[i] - 1)>> \o g[i + size[i]]
      BY <1>1, <2>4, SplitFrame
    <2>6. QED BY <2>1, <2>2, <2>3, <2>5
  <1>6. ASSUME T # {} PROVE FALSE
    <2>1. T \subseteq 0 .. n
      OBVIOUS
    <2>2. PICK i \in T : \A j \in T : j <= i
      <3> HIDE DEF T, n
      <3>1. QED BY <1>3, <1>6, <2>1, GreatestNumber
    <2>3. i \in D /\ g[i] \notin Seq(Y)
      OBVIOUS
    <2> DEFINE p == SubSeq(ws, i, i + size[i] - 1)
               j == i + size[i]
    <2>4. i \in 1 .. n /\ j \in Nat /\ j > i /\ (j = n + 1 \/ j \in D) /\ g[i] = <<p>> \o g[j]
      <3>1. i \in 1 .. n /\ size[i] \in Nat \ {0} /\ (j = n + 1 \/ j \in D) /\ g[i] = <<p>> \o g[j]
        BY <1>5, <2>3
      <3>2. j \in Nat /\ j > i
        <4>1. i \in Nat /\ size[i] \in Nat \ {0} /\ j = i + size[i]
          BY <1>3, <3>1
        <4> HIDE DEF j
        <4>2. QED BY <4>1
      <3>3. QED BY <3>1, <3>2
    <2>5. p \in Y
      BY <2>3
    <2>6. g[j] \in Seq(Y)
      <3>1. CASE j = n + 1
        <4>1. << >> \in Seq(Y)
          <5> HIDE DEF Y
          <5>1. QED OBVIOUS
        <4>2. QED BY <1>4, <3>1, <4>1
      <3>2. CASE j \in D
        <4>1. j \notin T
          <5> HIDE DEF T, j, D, Y
          <5>1. i \in Int /\ j \in Int /\ j > i
            BY <2>4
          <5>2. QED BY <2>2, <5>1
        <4>2. QED BY <3>2, <4>1
      <3>3. QED BY <2>4, <3>1, <3>2
    <2> HIDE DEF p, Y, D, T, j
    <2>7. <<p>> \o g[j] \in Seq(Y)
      BY <2>5, <2>6, ConsFacts
    <2>8. QED BY <2>3, <2>4, <2>7
  <1>7. g[1] \in Seq(Y)
    <2>1. CASE ws = << >>
      <3>1. n + 1 = 1
        BY <2>1
      <3>2. << >> \in Seq(Y)
        <4> HIDE DEF Y
        <4>1. QED OBVIOUS
      <3>3. QED BY <1>4, <3>1, <3>2
    <2>2. CASE ws # << >>
      <3>1. 1 \in D
        BY <2>2
      <3>2. QED BY <1>6, <3>1
    <2>3. QED BY <2>1, <2>2
  <1>8. ASSUME NEW y \in Y PROVE y # Mismatch
    <2>1. PICK i \in D : y = SubSeq(ws, i, i + size[i] - 1)
      OBVIOUS
    <2> DEFINE m == i + size[i] - 1
    <2>2. i \in 1 .. n /\ ws[i].w = "rp" /\ m \in 1 .. n /\ i <= m /\ 1 \in 1 .. m - i + 1 /\ i + 1 - 1 = i
      <3>1. i \in 1 .. n /\ ws[i].w = "rp"
        OBVIOUS
      <3>2. size[i] \in Nat \ {0} /\ i + size[i] <= n + 1
        BY <3>1 DEF InFrames
      <3>3. QED BY <1>3, <3>1, <3>2
    <2>3. \A j \in i .. m : ws[j] \in W
      BY <1>3, <2>2, ElementOfSeq
    <2> HIDE DEF m, D
    <2>4. SubSeq(ws, i, m)[1] = ws[i]
      BY <2>2, <2>3, SubSeqProperties
    <2>5. y[1].w = "rp"
      BY <2>1, <2>2, <2>4 DEF m
    <2>6. Mismatch[1].w = "mismatch"
      BY DEF Mismatch
    <2>7. QED BY <2>5, <2>6
  <1> HIDE DEF Y
  <1>9. \A i \in DOMAIN g[1] : g[1][i] \in Y
    BY <1>7
  <1>10. QED BY <1>2, <1>8, <1>9 DEF Matches

\* frames match up
LEMMA FramedSplit ==
  ASSUME NEW b, NEW top, NEW end, Framed(b, top, end)
  PROVE  Matches(Split(Words(b, top, end)))
  <1> DEFINE ws == Words(b, top, end)
  <1>1. PICK W : ws \in Seq(W) /\ Len(ws) = end - top
    BY FramedWords
  <1>2. /\ InFrames(ws, [i \in 1 .. end - top |-> SizeAt(b, top + i - 1)])
        /\ top < end => ws[1].w = "rp"
    BY FramedSizes
  <1>3. top \in Int /\ end \in Int /\ top <= end
    BY DEF Framed
  <1> HIDE DEF ws
  <1>4. ws # << >> => top < end
    BY <1>1, <1>3
  <1>5. Matches(Split(ws))
    BY <1>1, <1>2, <1>4, SplitMatches
  <1>6. QED BY <1>5 DEF ws

-----------------------------------------------------------------------------
(* Continuations *)

\* the longest frame that the redline leaves room for, and where such a frame
\* begins at the lowest
Longest == (Redline - 3) \div 2
LowBase == Redline - Longest
Block == {<<"area", n>> : n \in Areas} \cup {<<"heap", i>> : i \in Ids}

WellLinked(cs) ==
  /\ DOMAIN cs \subseteq Ids
  /\ \A i \in DOMAIN cs : cs[i].next \in DOMAIN cs \cup {0}
  /\ \A S \in SUBSET DOMAIN cs : S # {} => \E i \in S : cs[i].next \notin S
Records(cs) ==
  \A i \in DOMAIN cs :
    \/ cs[i] \in [tag : {"k"}, block : Block, top : Int, size : Nat \ {0}, next : Int]
    \/ cs[i] \in [tag : {"system"}, top : Int, next : Int]

\* the frames of a continuation are where it says, above the stack
FramesOf(bs, a, fb, k) ==
  /\ k.block \in DOMAIN bs
  /\ Framed(bs[k.block], k.top, k.top + k.size)
  /\ k.block = a => fb <= k.top /\ k.top + k.size <= AreaSize

FirstOf(cs, k) ==
  LET from[i \in DOMAIN cs \cup {0}] ==
        IF i = 0 \/ cs[i].tag = "system" THEN i ELSE from[cs[i].next]
  IN  from[k]
CallsOf(cst) == {i \in DOMAIN cst : cst[i].in = "C"}
CallerOf(cst, i) ==
  LET below == {j \in CallsOf(cst) : j < i} IN IF below = {} THEN 0 ELSE cst[Max(below)].k
CShape(cst) ==
  /\ cst \in Seq([in : {"ik_exec_code", "C"}, k : Int])
  /\ cst # << >> /\ cst[1].in = "ik_exec_code"
  /\ \A i \in 2 .. Len(cst) : cst[i].in = "C" <=> cst[i - 1].in = "ik_exec_code"
Matched(cs, cst, nk) ==
  /\ FirstOf(cs, nk) = CallerOf(cst, Len(cst) + 1)
  /\ \A i \in CallsOf(cst) :
       LET k == cst[i].k IN
       /\ k \in DOMAIN cs /\ cs[k].tag = "system" /\ cs[k].top = i - 1
       /\ FirstOf(cs, cs[k].next) = CallerOf(cst, i)

\* the first system continuation is the same from each
SameFirst(cs, ds) == \A j \in DOMAIN cs \cup {0} : FirstOf(ds, j) = FirstOf(cs, j)
\* and each system continuation is the same
SystemsKept(cs, ds) ==
  DOMAIN cs \subseteq DOMAIN ds /\ \A j \in DOMAIN cs : cs[j].tag = "system" => ds[j] = cs[j]

IsFirst(cs, g) ==
  g = [i \in DOMAIN cs \cup {0} |-> IF i = 0 \/ cs[i].tag = "system" THEN i ELSE g[cs[i].next]]

\* on a chain that ends, the first system continuation of each one is defined
LEMMA FirstExists ==
  ASSUME NEW cs, WellLinked(cs)
  PROVE  \E g : IsFirst(cs, g)
  <1> DEFINE E == DOMAIN cs \cup {0}
             D == {i \in DOMAIN cs : cs[i].tag # "system"}
             next == [i \in D |-> cs[i].next]
             base == [i \in E |-> i]
             step == [i \in D |-> [x \in E |-> x]]
  <1>1. Falls(D, E, next)
    <2>1. D \subseteq E /\ next \in [D -> E]
      BY DEF WellLinked
    <2>2. ASSUME NEW S \in SUBSET D, S # {} PROVE \E i \in S : next[i] \notin S
      <3>1. S \in SUBSET DOMAIN cs
        OBVIOUS
      <3>2. PICK i \in S : cs[i].next \notin S
        BY <2>2, <3>1 DEF WellLinked
      <3>3. QED BY <3>2
    <2> HIDE DEF D, E, next
    <2>3. QED BY <2>1, <2>2 DEF Falls, Grounded
  <1>2. base \in [E -> E] /\ step \in [D -> [E -> E]]
    OBVIOUS
  <1>3. PICK g \in [E -> E] : Along(D, E, next, base, step, g)
    <2> HIDE DEF D, E, next, base, step
    <2>1. QED BY <1>1, <1>2, AlongExists
  <1>4. 0 \notin DOMAIN cs
    BY StackAssumption DEF WellLinked
  <1> DEFINE made(i) == IF i = 0 \/ cs[i].tag = "system" THEN i ELSE g[cs[i].next]
  <1>5. ASSUME NEW i \in E PROVE g[i] = made(i)
    <2>1. g[i] = IF i \in D THEN step[i][g[next[i]]] ELSE base[i]
      BY <1>3 DEF Along
    <2>2. CASE i \in D
      <3>1. next[i] = cs[i].next /\ next[i] \in E /\ i # 0 /\ cs[i].tag # "system"
        BY <2>2, <1>4 DEF WellLinked
      <3> DEFINE x == g[next[i]]
      <3>2. x \in E
        BY <1>3, <3>1
      <3> HIDE DEF E, next, x
      <3>3. step[i][x] = x
        BY <2>2, <3>2
      <3> HIDE DEF step, D, base
      <3>4. QED BY <2>1, <2>2, <3>1, <3>3 DEF x
    <2>3. CASE i \notin D
      <3>1. i = 0 \/ cs[i].tag = "system"
        BY <2>3
      <3>2. base[i] = i
        OBVIOUS
      <3> HIDE DEF D, E, base, step, next
      <3>3. QED BY <2>1, <2>3, <3>1, <3>2
    <2>4. QED BY <2>2, <2>3
  <1>6. g = [i \in E |-> made(i)]
    <2>1. g = [i \in E |-> g[i]]
      BY <1>3
    <2> HIDE DEF E, made
    <2>2. QED BY <2>1, <1>5
  <1>7. IsFirst(cs, g)
    BY <1>6 DEF IsFirst
  <1>8. QED BY <1>7

\* the first system continuation, from one to the next
LEMMA FirstLaws ==
  ASSUME NEW cs, WellLinked(cs), NEW i \in DOMAIN cs \cup {0}
  PROVE  FirstOf(cs, i) = IF i = 0 \/ cs[i].tag = "system" THEN i ELSE FirstOf(cs, cs[i].next)
  <1> DEFINE g == CHOOSE g : IsFirst(cs, g)
  <1>1. IsFirst(cs, g)
    BY FirstExists
  <1>2. \A k : FirstOf(cs, k) = g[k]
    BY Zenon DEF FirstOf, IsFirst
  <1> HIDE DEF g
  <1>3. g[i] = IF i = 0 \/ cs[i].tag = "system" THEN i ELSE g[cs[i].next]
    BY <1>1 DEF IsFirst
  <1>4. QED BY <1>2, <1>3

\* the first one is on the chain, and is a system continuation
LEMMA FirstIsSystem ==
  ASSUME NEW cs, WellLinked(cs), NEW R, R \subseteq DOMAIN cs, \A i \in R : cs[i].next \in R \cup {0},
         NEW k \in R \cup {0}
  PROVE  /\ FirstOf(cs, k) \in R \cup {0}
         /\ FirstOf(cs, k) # 0 => cs[FirstOf(cs, k)].tag = "system"
  <1> DEFINE Good(i) == /\ FirstOf(cs, i) \in R \cup {0}
                        /\ FirstOf(cs, i) # 0 => cs[FirstOf(cs, i)].tag = "system"
             T == {i \in R : ~Good(i)}
  <1>1. Good(0)
    BY FirstLaws
  <1>2. ASSUME T # {} PROVE FALSE
    <2>1. T \in SUBSET DOMAIN cs
      OBVIOUS
    <2>2. PICK i \in T : cs[i].next \notin T
      <3> HIDE DEF T
      <3>1. QED BY <1>2, <2>1 DEF WellLinked
    <2>3. i \in R /\ i \in DOMAIN cs \cup {0} /\ cs[i].next \in R \cup {0} /\ ~Good(i) /\ i # 0
      BY StackAssumption DEF WellLinked
    <2>4. Good(cs[i].next)
      BY <1>1, <2>2, <2>3
    <2>5. FirstOf(cs, i) = IF i = 0 \/ cs[i].tag = "system" THEN i ELSE FirstOf(cs, cs[i].next)
      BY <2>3, FirstLaws
    <2> HIDE DEF T
    <2>6. CASE cs[i].tag = "system"
      BY <2>3, <2>5, <2>6
    <2>7. CASE cs[i].tag # "system"
      <3>1. FirstOf(cs, i) = FirstOf(cs, cs[i].next)
        BY <2>3, <2>5, <2>7
      <3>2. QED BY <2>3, <2>4, <3>1
    <2>8. QED BY <2>6, <2>7
  <1>3. QED BY <1>1, <1>2

\* continuations of which ds says what cs does of what comes next
Alike(cs, ds, R) ==
  /\ R \subseteq DOMAIN cs /\ R \subseteq DOMAIN ds
  /\ \A i \in R :
       /\ cs[i].next \in R \cup {0} /\ ds[i].tag = cs[i].tag
       /\ cs[i].tag # "system" => FirstOf(ds, ds[i].next) = FirstOf(ds, cs[i].next)

\* two chains that are alike from k on have the same first system continuation
LEMMA FirstAgrees ==
  ASSUME NEW cs, WellLinked(cs), NEW ds, WellLinked(ds), NEW R, Alike(cs, ds, R),
         NEW k \in R \cup {0}
  PROVE  FirstOf(ds, k) = FirstOf(cs, k)
  <1> DEFINE T == {i \in R : FirstOf(ds, i) # FirstOf(cs, i)}
  <1>1. FirstOf(ds, 0) = FirstOf(cs, 0)
    <2>1. FirstOf(ds, 0) = 0 /\ FirstOf(cs, 0) = 0
      BY FirstLaws
    <2>2. QED BY <2>1
  <1>2. ASSUME T # {} PROVE FALSE
    <2>1. T \in SUBSET DOMAIN cs
      BY DEF Alike
    <2>2. PICK i \in T : cs[i].next \notin T
      <3> HIDE DEF T
      <3>1. QED BY <1>2, <2>1 DEF WellLinked
    <2>3. /\ i \in R /\ i \in DOMAIN cs \cup {0} /\ i \in DOMAIN ds \cup {0} /\ FirstOf(ds, i) # FirstOf(cs, i)
          /\ cs[i].next \in R \cup {0} /\ ds[i].tag = cs[i].tag
          /\ cs[i].tag # "system" => FirstOf(ds, ds[i].next) = FirstOf(ds, cs[i].next)
      BY DEF Alike
    <2>4. FirstOf(ds, cs[i].next) = FirstOf(cs, cs[i].next)
      BY <1>1, <2>2, <2>3
    <2>5. FirstOf(cs, i) = IF i = 0 \/ cs[i].tag = "system" THEN i ELSE FirstOf(cs, cs[i].next)
      BY <2>3, FirstLaws
    <2>6. FirstOf(ds, i) = IF i = 0 \/ ds[i].tag = "system" THEN i ELSE FirstOf(ds, ds[i].next)
      BY <2>3, FirstLaws
    <2> HIDE DEF T
    <2>7. QED BY <2>3, <2>4, <2>5, <2>6
  <1>3. QED BY <1>1, <1>2

-----------------------------------------------------------------------------
(* What is reachable *)

IsReach(cs, g) ==
  g = [i \in DOMAIN cs \cup {0, -1} |-> IF i <= 0 THEN {} ELSE {i} \cup g[cs[i].next]]

\* on a chain that ends, what is reached from each one is defined
LEMMA ReachExists ==
  ASSUME NEW cs, WellLinked(cs)
  PROVE  \E g : IsReach(cs, g)
  <1> DEFINE D == DOMAIN cs
             E == D \cup {0, -1}
             next == [i \in D |-> cs[i].next]
             V == SUBSET D
             base == [i \in E |-> {}]
             step == [i \in D |-> [x \in V |-> {i} \cup x]]
  <1>1. Falls(D, E, next)
    <2>1. D \subseteq E /\ next \in [D -> E]
      BY DEF WellLinked
    <2>2. ASSUME NEW S \in SUBSET D, S # {} PROVE \E i \in S : next[i] \notin S
      <3>1. PICK i \in S : cs[i].next \notin S
        BY <2>2 DEF WellLinked
      <3>2. QED BY <3>1
    <2> HIDE DEF D, E, next
    <2>3. QED BY <2>1, <2>2 DEF Falls, Grounded
  <1>2. base \in [E -> V] /\ step \in [D -> [V -> V]]
    OBVIOUS
  <1>3. PICK g \in [E -> V] : Along(D, E, next, base, step, g)
    <2> HIDE DEF D, E, next, base, step, V
    <2>1. QED BY <1>1, <1>2, AlongExists
  <1>4. \A i \in D : i \in Nat /\ i > 0
    BY StackAssumption DEF WellLinked
  <1> DEFINE made(i) == IF i <= 0 THEN {} ELSE {i} \cup g[cs[i].next]
  <1>5. ASSUME NEW i \in E PROVE g[i] = made(i)
    <2>1. g[i] = IF i \in D THEN step[i][g[next[i]]] ELSE base[i]
      BY <1>3 DEF Along
    <2>2. CASE i \in D
      <3>1. next[i] = cs[i].next /\ next[i] \in E /\ ~(i <= 0)
        <4>1. next[i] = cs[i].next /\ next[i] \in E
          BY <2>2 DEF WellLinked
        <4>2. QED BY <1>4, <2>2, <4>1
      <3> DEFINE x == g[next[i]]
      <3>2. x \in V
        <4> HIDE DEF E, V, next
        <4>1. QED BY <1>3, <3>1
      <3> HIDE DEF E, next, x, V
      <3>3. step[i][x] = {i} \cup x
        BY <2>2, <3>2
      <3> HIDE DEF step, D, base
      <3>4. QED BY <2>1, <2>2, <3>1, <3>3 DEF x
    <2>3. CASE i \notin D
      <3>1. i <= 0
        BY <2>3
      <3>2. base[i] = {}
        OBVIOUS
      <3> HIDE DEF D, E, base, step, next
      <3>3. QED BY <2>1, <2>3, <3>1, <3>2
    <2>4. QED BY <2>2, <2>3
  <1>6. g = [i \in E |-> made(i)]
    <2>1. g = [i \in E |-> g[i]]
      BY <1>3
    <2> HIDE DEF E, made
    <2>2. QED BY <2>1, <1>5
  <1>7. IsReach(cs, g)
    BY <1>6 DEF IsReach
  <1>8. QED BY <1>7

Closed(cs, R) == R \subseteq DOMAIN cs /\ \A i \in R : cs[i].next \in R \cup {0}

\* what is reached from a continuation leads nowhere else
LEMMA ReachFrom ==
  ASSUME NEW cs, WellLinked(cs), NEW g, IsReach(cs, g), NEW i \in DOMAIN cs
  PROVE  i \in g[i] /\ Closed(cs, g[i])
  <1> DEFINE T == {j \in DOMAIN cs : ~(j \in g[j] /\ Closed(cs, g[j]))}
  <1>1. \A j \in DOMAIN cs : j \in Nat /\ j > 0
    <2>1. DOMAIN cs \subseteq Nat \ {0}
      BY StackAssumption DEF WellLinked
    <2>2. QED BY <2>1
  <1>2. ASSUME T # {} PROVE FALSE
    <2>1. T \in SUBSET DOMAIN cs
      OBVIOUS
    <2>2. PICK j \in T : cs[j].next \notin T
      <3> HIDE DEF T
      <3>1. QED BY <1>2, <2>1 DEF WellLinked
    <2> DEFINE n == cs[j].next
    <2>3. j \in DOMAIN cs /\ ~(j \in g[j] /\ Closed(cs, g[j])) /\ n \in DOMAIN cs \cup {0}
      BY DEF WellLinked
    <2>4. g[j] = {j} \cup g[n]
      <3>1. j \in DOMAIN cs \cup {0, -1} /\ ~(j <= 0)
        BY <1>1, <2>3
      <3>2. QED BY <3>1 DEF IsReach
    <2>5. Closed(cs, g[n]) /\ (n = 0 \/ n \in g[n])
      <3>1. CASE n = 0
        <4>1. g[n] = {}
          <5>1. 0 \in DOMAIN cs \cup {0, -1} /\ 0 <= 0
            OBVIOUS
          <5>2. g[0] = {}
            BY <5>1 DEF IsReach
          <5> HIDE DEF n
          <5>3. QED BY <3>1, <5>2
        <4>2. QED BY <3>1, <4>1 DEF Closed
      <3>2. CASE n \in DOMAIN cs
        BY <2>2, <3>2
      <3>3. QED BY <2>3, <3>1, <3>2
    <2> HIDE DEF T
    <2>6. QED BY <2>3, <2>4, <2>5 DEF Closed
  <1>3. QED BY <1>2

\* what is reached from roots holds the roots, and holds what it leads to
LEMMA ReachFacts ==
  ASSUME NEW cs, WellLinked(cs), NEW roots, roots \subseteq DOMAIN cs \cup {0, -1}
  PROVE  /\ Closed(cs, Reach(cs, roots))
         /\ \A i \in roots : i \in Reach(cs, roots) \cup {0, -1}
  <1> DEFINE g == CHOOSE g : IsReach(cs, g)
             R == UNION {g[i] : i \in roots}
  <1>1. IsReach(cs, g)
    BY ReachExists
  <1>2. Reach(cs, roots) = R
    BY Zenon DEF Reach, IsReach
  <1> HIDE DEF g
  <1>3. \A i \in DOMAIN cs : i \in g[i] /\ Closed(cs, g[i])
    BY <1>1, ReachFrom
  <1>4. g[0] = {} /\ g[-1] = {}
    <2>1. 0 \in DOMAIN cs \cup {0, -1} /\ 0 <= 0 /\ -1 \in DOMAIN cs \cup {0, -1} /\ -1 <= 0
      OBVIOUS
    <2>2. QED BY <1>1, <2>1 DEF IsReach
  <1>5. ASSUME NEW j \in R PROVE j \in DOMAIN cs /\ cs[j].next \in R \cup {0}
    <2>1. PICK i \in roots : j \in g[i]
      OBVIOUS
    <2>2. i \in DOMAIN cs
      BY <1>4, <2>1
    <2>3. j \in DOMAIN cs /\ cs[j].next \in g[i] \cup {0}
      BY <1>3, <2>1, <2>2 DEF Closed
    <2>4. QED BY <2>1, <2>3
  <1>6. ASSUME NEW i \in roots PROVE i \in R \cup {0, -1}
    BY <1>3
  <1> HIDE DEF R
  <1>7. QED BY <1>2, <1>5, <1>6 DEF Closed

-----------------------------------------------------------------------------
(* What a change keeps *)

\* what leads nowhere else is a chain of its own
LEMMA LinkedRest ==
  ASSUME NEW cs, WellLinked(cs), Records(cs), NEW R, Closed(cs, R)
  PROVE  /\ WellLinked(Restrict(cs, R)) /\ Records(Restrict(cs, R))
         /\ DOMAIN Restrict(cs, R) = R
         /\ \A i \in R : Restrict(cs, R)[i] = cs[i]
         /\ \A i \in R \cup {0} : FirstOf(Restrict(cs, R), i) = FirstOf(cs, i)
  <1> DEFINE ds == Restrict(cs, R)
  <1>1. DOMAIN ds = R /\ R \subseteq DOMAIN cs /\ \A i \in R : ds[i] = cs[i] /\ cs[i].next \in R \cup {0}
    BY DEF Restrict, Closed
  <1> HIDE DEF ds
  <1>2. WellLinked(ds)
    <2>1. ASSUME NEW S \in SUBSET R, S # {} PROVE \E i \in S : ds[i].next \notin S
      <3>1. S \in SUBSET DOMAIN cs
        BY <1>1
      <3>2. PICK i \in S : cs[i].next \notin S
        BY <2>1, <3>1 DEF WellLinked
      <3>3. QED BY <1>1, <3>2
    <2>2. R \subseteq Ids
      BY <1>1 DEF WellLinked
    <2>3. QED BY <1>1, <2>1, <2>2 DEF WellLinked
  <1>3. Records(ds)
    BY <1>1 DEF Records
  <1>4. ASSUME NEW k \in R \cup {0} PROVE FirstOf(ds, k) = FirstOf(cs, k)
    <2>1. Alike(cs, ds, R)
      BY <1>1 DEF Alike
    <2>2. QED BY <1>2, <2>1, FirstAgrees
  <1>5. QED BY <1>1, <1>2, <1>3, <1>4 DEF ds

\* one more continuation
LEMMA LinkedMore ==
  ASSUME NEW cs, WellLinked(cs), NEW i \in Ids, i \notin DOMAIN cs, NEW x, x.next \in DOMAIN cs \cup {0}
  PROVE  /\ WellLinked(Also(cs, i, x)) /\ SameFirst(cs, Also(cs, i, x)) /\ SystemsKept(cs, Also(cs, i, x))
  <1> DEFINE ds == Also(cs, i, x)
  <1>1. /\ DOMAIN ds = DOMAIN cs \cup {i} /\ ds[i] = x
        /\ \A j \in DOMAIN cs : ds[j] = cs[j]
    BY DEF Also
  <1> HIDE DEF ds
  <1>2. i # 0
    BY StackAssumption
  <1>3. WellLinked(ds)
    <2>1. ASSUME NEW S \in SUBSET DOMAIN ds, S # {} PROVE \E j \in S : ds[j].next \notin S
      <3>1. CASE S \subseteq DOMAIN cs
        <4>1. PICK j \in S : cs[j].next \notin S
          BY <2>1, <3>1 DEF WellLinked
        <4>2. QED BY <1>1, <3>1, <4>1
      <3>2. CASE S = {i}
        <4>1. x.next # i
          BY <1>2
        <4>2. QED BY <1>1, <3>2, <4>1
      <3>3. CASE i \in S /\ S # {i}
        <4> DEFINE U == S \ {i}
        <4>1. U \in SUBSET DOMAIN cs /\ U # {}
          BY <1>1, <3>3
        <4> HIDE DEF U
        <4>2. PICK j \in U : cs[j].next \notin U
          BY <4>1 DEF WellLinked
        <4>3. j \in DOMAIN cs /\ cs[j].next \in DOMAIN cs \cup {0} /\ j \in S
          BY <4>1 DEF WellLinked, U
        <4>4. ds[j].next # i /\ ds[j].next \notin U
          BY <1>1, <1>2, <4>2, <4>3
        <4>5. QED BY <4>3, <4>4 DEF U
      <3>4. QED BY <1>1, <3>1, <3>2, <3>3
    <2>2. DOMAIN ds \subseteq Ids
      BY <1>1 DEF WellLinked
    <2>3. \A j \in DOMAIN ds : ds[j].next \in DOMAIN ds \cup {0}
      BY <1>1 DEF WellLinked
    <2>4. QED BY <2>1, <2>2, <2>3 DEF WellLinked
  <1>4. ASSUME NEW k \in DOMAIN cs \cup {0} PROVE FirstOf(ds, k) = FirstOf(cs, k)
    <2> DEFINE R == DOMAIN cs
    <2>1. \A j \in R : cs[j].next \in R \cup {0}
      BY DEF WellLinked
    <2>2. Alike(cs, ds, R)
      BY <1>1, <2>1 DEF Alike
    <2> HIDE DEF R
    <2>3. k \in R \cup {0}
      BY DEF R
    <2>4. QED BY <1>3, <2>2, <2>3, FirstAgrees
  <1>5. SameFirst(cs, ds)
    BY <1>4 DEF SameFirst
  <1>6. SystemsKept(cs, ds)
    BY <1>1 DEF SystemsKept
  <1>7. QED BY <1>1, <1>3, <1>5, <1>6 DEF ds

\* the first frame of a continuation becomes one of its own
LEMMA LinkedSplit ==
  ASSUME NEW cs, WellLinked(cs), NEW k \in DOMAIN cs, NEW nk \in Ids, nk \notin DOMAIN cs, cs[k].tag = "k",
         NEW ds, \A j : j \in DOMAIN ds <=> j \in DOMAIN cs \/ j = nk, ds[k].next = nk, ds[k].tag = "k",
         ds[nk].next = cs[k].next, ds[nk].tag = "k",
         \A j \in DOMAIN cs \ {k} : ds[j] = cs[j]
  PROVE  WellLinked(ds) /\ SameFirst(cs, ds) /\ SystemsKept(cs, ds)
  <1>1. nk # 0 /\ \A j \in DOMAIN cs : cs[j].next \in DOMAIN cs \cup {0} /\ cs[j].next # nk
    BY StackAssumption DEF WellLinked
  <1>2. WellLinked(ds)
    <2>1. ASSUME NEW S \in SUBSET DOMAIN ds, S # {} PROVE \E j \in S : ds[j].next \notin S
      <3> DEFINE U == S \ {nk}
      <3>1. CASE U = {}
        <4>1. S = {nk}
          BY <2>1, <3>1
        <4>2. QED BY <1>1, <4>1
      <3>2. CASE U # {}
        <4>1. U \in SUBSET DOMAIN cs
          OBVIOUS
        <4> HIDE DEF U
        <4>2. PICK j \in U : cs[j].next \notin U
          BY <3>2, <4>1 DEF WellLinked
        <4>3. j \in DOMAIN cs /\ j \in S /\ cs[j].next \notin S
          BY <1>1, <4>1, <4>2 DEF U
        <4>4. CASE j # k
          BY <4>3, <4>4
        <4>5. CASE j = k /\ nk \notin S
          BY <4>3, <4>5
        <4>6. CASE j = k /\ nk \in S
          BY <4>3, <4>6
        <4>7. QED BY <4>4, <4>5, <4>6
      <3>3. QED BY <3>1, <3>2
    <2>2. DOMAIN ds \subseteq Ids
      BY DEF WellLinked
    <2>3. ASSUME NEW j \in DOMAIN ds PROVE ds[j].next \in DOMAIN ds \cup {0}
      <3>1. CASE j = k
        BY <3>1
      <3>2. CASE j = nk
        BY <1>1, <3>2
      <3>3. CASE j \in DOMAIN cs \ {k}
        BY <1>1, <3>3
      <3>4. QED BY <3>1, <3>2, <3>3
    <2>4. QED BY <2>1, <2>2, <2>3 DEF WellLinked
  <1>3. FirstOf(ds, nk) = FirstOf(ds, cs[k].next)
    <2>1. FirstOf(ds, nk) = IF nk = 0 \/ ds[nk].tag = "system" THEN nk ELSE FirstOf(ds, ds[nk].next)
      BY <1>2, FirstLaws
    <2>2. QED BY <1>1, <2>1
  <1>4. Alike(cs, ds, DOMAIN cs)
    <2>1. ASSUME NEW j \in DOMAIN cs
          PROVE  /\ ds[j].tag = cs[j].tag
                 /\ FirstOf(ds, ds[j].next) = FirstOf(ds, cs[j].next)
      <3>1. CASE j = k
        BY <1>3, <3>1
      <3>2. CASE j # k
        BY <3>2
      <3>3. QED BY <3>1, <3>2
    <2>2. QED BY <1>1, <2>1 DEF Alike
  <1>5. SameFirst(cs, ds)
    BY <1>2, <1>4, FirstAgrees DEF SameFirst
  <1>6. SystemsKept(cs, ds)
    BY DEF SystemsKept
  <1>7. QED BY <1>2, <1>5, <1>6

\* only sizes and places change
LEMMA LinkedSame ==
  ASSUME NEW cs, WellLinked(cs), NEW ds, DOMAIN ds = DOMAIN cs,
         \A j \in DOMAIN cs : ds[j].next = cs[j].next /\ ds[j].tag = cs[j].tag
  PROVE  WellLinked(ds) /\ SameFirst(cs, ds)
  <1>1. WellLinked(ds)
    <2>1. ASSUME NEW S \in SUBSET DOMAIN ds, S # {} PROVE \E j \in S : ds[j].next \notin S
      <3>1. PICK j \in S : cs[j].next \notin S
        BY <2>1 DEF WellLinked
      <3>2. QED BY <3>1
    <2>2. QED BY <2>1 DEF WellLinked
  <1>2. Alike(cs, ds, DOMAIN cs)
    BY DEF Alike, WellLinked
  <1>3. SameFirst(cs, ds)
    BY <1>1, <1>2, FirstAgrees DEF SameFirst
  <1>4. QED BY <1>1, <1>3

\* the bounds leave a name for one more continuation, or two
LEMMA FreeId ==
  ASSUME NEW D, D \subseteq Ids, NEW n \in Nat \ {0}, Cardinality(D) + n <= Cardinality(Ids)
  PROVE  Free(D) \in Ids /\ Free(D) \notin D
  <1>1. IsFiniteSet(Ids) /\ Ids \subseteq Nat
    BY StackAssumption
  <1>2. IsFiniteSet(D) /\ Cardinality(D) \in Nat /\ Cardinality(Ids) \in Nat
    BY <1>1, FS_Subset, FS_CardinalityType
  <1>3. Ids \ D # {}
    <2>1. ASSUME Ids \ D = {} PROVE FALSE
      <3>1. D = Ids
        BY <2>1
      <3>2. QED BY <1>2, <3>1
    <2>2. QED BY <2>1
  <1> DEFINE T == Ids \ D
  <1>4. T \subseteq Nat /\ T # {}
    BY <1>1, <1>3
  <1>5. \E i \in T : \A j \in T : i <= j
    <2> HIDE DEF T
    <2>1. QED BY <1>4, LeastNumber
  <1>6. Free(D) \in T
    BY <1>5 DEF Free
  <1>7. QED BY <1>6

\* while there is room there are two new names
LEMMA FreeIds ==
  ASSUME NEW D, D \subseteq Ids, NEW n \in Nat, n >= 2, Cardinality(D) + n <= Cardinality(Ids)
  PROVE  /\ Free(D) \in Ids /\ Free(D) \notin D
         /\ Free(D \cup {Free(D)}) \in Ids /\ Free(D \cup {Free(D)}) \notin D \cup {Free(D)}
  <1> DEFINE k == Free(D)
             E == D \cup {k}
  <1>1. IsFiniteSet(D) /\ Cardinality(D) \in Nat /\ Cardinality(Ids) \in Nat
    BY StackAssumption, FS_Subset, FS_CardinalityType
  <1>2. k \in Ids /\ k \notin D
    BY FreeId
  <1>3. Cardinality(E) = Cardinality(D) + 1
    BY <1>1, <1>2, FS_AddElement
  <1>4. E \subseteq Ids /\ 1 \in Nat \ {0} /\ Cardinality(E) + 1 <= Cardinality(Ids)
    BY <1>1, <1>2, <1>3
  <1>5. Free(E) \in Ids /\ Free(E) \notin E
    <2> HIDE DEF E
    <2>1. QED BY <1>4, FreeId
  <1>6. QED BY <1>2, <1>5

-----------------------------------------------------------------------------
(* The C stack *)

\* what is known of a C stack, place by place
LEMMA ShapeFacts ==
  ASSUME NEW cst, CShape(cst)
  PROVE  /\ Len(cst) \in Nat \ {0} /\ DOMAIN cst = 1 .. Len(cst)
         /\ CallsOf(cst) \subseteq 2 .. Len(cst)
         /\ cst \in Seq([in : {"ik_exec_code", "C"}, k : Int])
         /\ \A i \in 1 .. Len(cst) : cst[i].in \in {"ik_exec_code", "C"}
         /\ \A i \in CallsOf(cst) : cst[i - 1].in = "ik_exec_code"
  <1>1. Len(cst) \in Nat \ {0} /\ DOMAIN cst = 1 .. Len(cst) /\ cst \in Seq([in : {"ik_exec_code", "C"}, k : Int])
    BY DEF CShape
  <1>2. ASSUME NEW i \in 1 .. Len(cst) PROVE cst[i].in \in {"ik_exec_code", "C"}
    <2>1. cst[i] \in [in : {"ik_exec_code", "C"}, k : Int]
      BY <1>1, ElementOfSeq
    <2>2. QED BY <2>1
  <1>3. ASSUME NEW i \in CallsOf(cst) PROVE i \in 2 .. Len(cst) /\ cst[i - 1].in = "ik_exec_code"
    <2>1. i \in 1 .. Len(cst) /\ cst[i].in = "C"
      BY <1>1 DEF CallsOf
    <2>2. i # 1
      BY <2>1 DEF CShape
    <2>3. i \in 2 .. Len(cst)
      BY <2>1, <2>2
    <2>4. QED BY <2>1, <2>3 DEF CShape
  <1>4. QED BY <1>1, <1>2, <1>3

\* the last call below i
LEMMA CallerLast ==
  ASSUME NEW cst, NEW i, NEW j \in CallsOf(cst), j < i, CallsOf(cst) \subseteq Nat,
         \A h \in CallsOf(cst) : h < i => h <= j
  PROVE  CallerOf(cst, i) = cst[j].k
  <1> DEFINE B == {h \in CallsOf(cst) : h < i}
  <1>1. j \in B /\ B # {} /\ \A h \in B : j >= h
    OBVIOUS
  <1>2. B \subseteq Nat
    OBVIOUS
  <1> HIDE DEF B
  <1>3. Max(B) \in B /\ \A h \in B : Max(B) >= h
    <2>1. \E x \in B : \A y \in B : x >= y
      BY <1>1
    <2>2. QED BY <2>1 DEF Max
  <1>4. Max(B) = j
    <2> DEFINE m == Max(B)
    <2>1. m \in B /\ m >= j
      BY <1>1, <1>3
    <2> HIDE DEF m
    <2>2. m \in Nat /\ j \in Nat /\ j >= m
      BY <1>1, <1>2, <2>1
    <2>3. m = j
      BY <2>1, <2>2
    <2>4. QED BY <2>3 DEF m
  <1>5. QED BY <1>1, <1>4 DEF CallerOf, B

\* below the first call there is no caller
LEMMA CallerNone ==
  ASSUME NEW cst, NEW i, \A h \in CallsOf(cst) : ~(h < i)
  PROVE  CallerOf(cst, i) = 0
  BY DEF CallerOf

\* the calls below i, when there is one more place below
LEMMA CallerNext ==
  ASSUME NEW cst, CShape(cst), NEW i \in 1 .. Len(cst)
  PROVE  CallerOf(cst, i + 1) = IF cst[i].in = "C" THEN cst[i].k ELSE CallerOf(cst, i)
  <1>1. Len(cst) \in Nat /\ DOMAIN cst = 1 .. Len(cst) /\ CallsOf(cst) \subseteq 2 .. Len(cst)
    BY ShapeFacts
  <1>2. CallsOf(cst) \subseteq Nat
    BY <1>1
  <1>3. CASE cst[i].in = "C"
    <2>1. i \in CallsOf(cst)
      BY <1>1, <1>3 DEF CallsOf
    <2>2. i < i + 1 /\ \A h \in CallsOf(cst) : h < i + 1 => h <= i
      BY <1>2
    <2>3. QED BY <1>2, <1>3, <2>1, <2>2, CallerLast
  <1>4. CASE cst[i].in # "C"
    <2>1. i \notin CallsOf(cst)
      BY <1>4 DEF CallsOf
    <2>2. \A h \in CallsOf(cst) : h < i + 1 <=> h < i
      <3>1. \A h \in CallsOf(cst) : h \in Nat /\ h # i
        BY <1>2, <2>1
      <3>2. QED BY <3>1
    <2>3. {h \in CallsOf(cst) : h < i + 1} = {h \in CallsOf(cst) : h < i}
      BY <2>2
    <2>4. QED BY <1>4, <2>3 DEF CallerOf
  <1>5. QED BY <1>3, <1>4

\* C stacks that are the same below n
LEMMA CallerSame ==
  ASSUME NEW cst, CShape(cst), NEW dst, CShape(dst), NEW n \in Nat, n <= Len(cst), n <= Len(dst),
         \A i \in 1 .. n : dst[i] = cst[i]
  PROVE  /\ \A i \in 1 .. n : i \in CallsOf(dst) <=> i \in CallsOf(cst)
         /\ \A i \in 1 .. n + 1 : CallerOf(dst, i) = CallerOf(cst, i)
  <1>1. /\ Len(cst) \in Nat /\ DOMAIN cst = 1 .. Len(cst) /\ CallsOf(cst) \subseteq 2 .. Len(cst)
        /\ Len(dst) \in Nat /\ DOMAIN dst = 1 .. Len(dst) /\ CallsOf(dst) \subseteq 2 .. Len(dst)
    BY ShapeFacts
  <1>2. ASSUME NEW i \in 1 .. n PROVE i \in CallsOf(dst) <=> i \in CallsOf(cst)
    <2>1. i \in DOMAIN cst /\ i \in DOMAIN dst
      BY <1>1
    <2>2. QED BY <2>1 DEF CallsOf
  <1>3. ASSUME NEW i \in 1 .. n + 1 PROVE CallerOf(dst, i) = CallerOf(cst, i)
    <2> DEFINE B == {h \in CallsOf(cst) : h < i}
    <2>1. {h \in CallsOf(dst) : h < i} = B
      <3>1. ASSUME NEW h, h < i, h \in CallsOf(cst) \/ h \in CallsOf(dst) PROVE h \in 1 .. n
        BY <1>1, <3>1
      <3>2. QED BY <1>2, <3>1
    <2>2. CASE B = {}
      BY <2>1, <2>2 DEF CallerOf
    <2>3. CASE B # {}
      <3>1. B \subseteq 0 .. n
        BY <1>1
      <3>2. PICK j \in B : \A h \in B : h <= j
        <4> HIDE DEF B
        <4>1. QED BY <2>3, <3>1, GreatestNumber
      <3>3. j \in CallsOf(cst) /\ j < i /\ (\A h \in CallsOf(cst) : h < i => h <= j) /\ j \in 1 .. n
        BY <1>1, <3>2
      <3>4. j \in CallsOf(dst) /\ (\A h \in CallsOf(dst) : h < i => h <= j)
        BY <1>2, <2>1, <3>2, <3>3
      <3>5. CallsOf(cst) \subseteq Nat /\ CallsOf(dst) \subseteq Nat
        BY <1>1
      <3> HIDE DEF B
      <3>6. CallerOf(cst, i) = cst[j].k
        BY <3>3, <3>5, CallerLast
      <3>7. CallerOf(dst, i) = dst[j].k
        BY <3>3, <3>4, <3>5, CallerLast
      <3>8. QED BY <3>3, <3>6, <3>7
    <2>4. QED BY <2>2, <2>3
  <1>4. QED BY <1>2, <1>3

\* an activation more
LEMMA ShapePush ==
  ASSUME NEW cst, CShape(cst), NEW x \in [in : {"ik_exec_code", "C"}, k : Int],
         x.in = "C" <=> cst[Len(cst)].in = "ik_exec_code",
         NEW dst, dst = Append(cst, x)
  PROVE  /\ CShape(dst) /\ Len(dst) = Len(cst) + 1 /\ dst[Len(dst)] = x
         /\ \A i \in 1 .. Len(cst) : dst[i] = cst[i]
  <1> DEFINE W == [in : {"ik_exec_code", "C"}, k : Int]
             n == Len(cst)
  <1>1. n \in Nat \ {0} /\ cst \in Seq(W)
    BY ShapeFacts
  <1> HIDE DEF W
  <1>2. x \in W
    BY DEF W
  <1>3. dst \in Seq(W) /\ Len(dst) = n + 1 /\ dst[n + 1] = x /\ \A i \in 1 .. n : dst[i] = cst[i]
    <2>1. /\ Append(cst, x) # << >> /\ Append(cst, x) \in Seq(W)
          /\ Len(Append(cst, x)) = Len(cst) + 1
          /\ \A i \in 1 .. Len(cst) : Append(cst, x)[i] = cst[i]
          /\ Append(cst, x)[Len(cst) + 1] = x
      BY <1>1, <1>2, AppendProperties
    <2>2. QED BY <2>1
  <1>4. ASSUME NEW i \in 2 .. Len(dst) PROVE dst[i].in = "C" <=> dst[i - 1].in = "ik_exec_code"
    <2>1. CASE i = n + 1
      <3>1. i - 1 = n /\ n \in 1 .. n
        BY <1>1, <2>1
      <3>2. QED BY <1>3, <2>1, <3>1
    <2>2. CASE i # n + 1
      <3>1. i \in 2 .. n /\ i \in 1 .. n /\ i - 1 \in 1 .. n
        BY <1>1, <1>3, <2>2
      <3>2. cst[i].in = "C" <=> cst[i - 1].in = "ik_exec_code"
        BY <3>1 DEF CShape
      <3>3. QED BY <1>3, <3>1, <3>2
    <2>3. QED BY <2>1, <2>2
  <1>5. dst[1].in = "ik_exec_code" /\ dst # << >>
    <2>1. 1 \in 1 .. n
      BY <1>1
    <2>2. cst[1].in = "ik_exec_code"
      BY DEF CShape
    <2>3. dst # << >>
      BY <1>1, <1>3
    <2>4. QED BY <1>3, <2>1, <2>2, <2>3
  <1>6. CShape(dst)
    BY <1>3, <1>4, <1>5 DEF CShape, W
  <1>7. QED BY <1>3, <1>6

\* an activation less
LEMMA ShapePop ==
  ASSUME NEW cst, CShape(cst), Len(cst) >= 2, NEW dst, dst = SubSeq(cst, 1, Len(cst) - 1)
  PROVE  /\ CShape(dst) /\ Len(dst) = Len(cst) - 1
         /\ \A i \in 1 .. Len(cst) - 1 : dst[i] = cst[i]
  <1> DEFINE W == [in : {"ik_exec_code", "C"}, k : Int]
             n == Len(cst)
             m == n - 1
  <1>1. n \in Nat \ {0} /\ cst \in Seq(W) /\ m \in Nat \ {0}
    BY ShapeFacts
  <1> HIDE DEF W
  <1>2. \A i \in 1 .. m : cst[i] \in W
    <2>1. \A i \in 1 .. m : i \in 1 .. n
      BY <1>1
    <2>2. QED BY <1>1, <2>1, ElementOfSeq
  <1>3. dst \in Seq(W) /\ Len(dst) = m /\ \A i \in 1 .. m : dst[i] = cst[i]
    <2> HIDE DEF m, n
    <2>1. m \in Int /\ 1 \in Int
      BY <1>1
    <2>2. /\ SubSeq(cst, 1, m) \in Seq(W)
          /\ Len(SubSeq(cst, 1, m)) = IF 1 <= m THEN m - 1 + 1 ELSE 0
          /\ \A i \in 1 .. m - 1 + 1 : SubSeq(cst, 1, m)[i] = cst[1 + i - 1]
      BY <1>1, <1>2, <2>1, SubSeqProperties
    <2>3. dst = SubSeq(cst, 1, m)
      BY DEF m, n
    <2>4. m - 1 + 1 = m /\ 1 <= m /\ \A i \in 1 .. m : 1 + i - 1 = i
      BY <1>1
    <2>5. QED BY <2>2, <2>3, <2>4
  <1>4. ASSUME NEW i \in 2 .. Len(dst) PROVE dst[i].in = "C" <=> dst[i - 1].in = "ik_exec_code"
    <2>1. i \in 2 .. n /\ i \in 1 .. m /\ i - 1 \in 1 .. m
      BY <1>1, <1>3
    <2>2. cst[i].in = "C" <=> cst[i - 1].in = "ik_exec_code"
      BY <2>1 DEF CShape
    <2>3. QED BY <1>3, <2>1, <2>2
  <1>5. dst[1].in = "ik_exec_code" /\ dst # << >>
    <2>1. 1 \in 1 .. m
      BY <1>1
    <2>2. cst[1].in = "ik_exec_code"
      BY DEF CShape
    <2>3. dst # << >>
      BY <1>1, <1>3
    <2>4. QED BY <1>3, <2>1, <2>2, <2>3
  <1>6. CShape(dst)
    BY <1>3, <1>4, <1>5 DEF CShape, W
  <1>7. QED BY <1>3, <1>6

\* the calls that wait are within reach
LEMMA CallsLive ==
  ASSUME NEW cs, WellLinked(cs), NEW cst, CShape(cst), NEW nk, Matched(cs, cst, nk),
         NEW R, Closed(cs, R), nk \in R \cup {0}
  PROVE  \A i \in CallsOf(cst) : cst[i].k \in R
  <1> DEFINE n == Len(cst)
             T == {i \in CallsOf(cst) : cst[i].k \notin R}
  <1>1. n \in Nat /\ CallsOf(cst) \subseteq 2 .. n /\ CallsOf(cst) \subseteq Nat
    BY ShapeFacts
  <1>2. R \subseteq DOMAIN cs /\ \A i \in R : cs[i].next \in R \cup {0}
    BY DEF Closed
  <1>3. ASSUME NEW k \in R \cup {0} PROVE FirstOf(cs, k) \in R \cup {0}
    BY <1>2, <1>3, FirstIsSystem
  <1>4. ASSUME NEW i \in CallsOf(cst)
        PROVE  /\ cst[i].k \in DOMAIN cs /\ cst[i].k # 0
               /\ FirstOf(cs, cs[cst[i].k].next) = CallerOf(cst, i)
    <2>1. cst[i].k \in DOMAIN cs /\ FirstOf(cs, cs[cst[i].k].next) = CallerOf(cst, i)
      BY DEF Matched
    <2>2. 0 \notin DOMAIN cs
      BY StackAssumption DEF WellLinked
    <2>3. QED BY <2>1, <2>2
  <1>5. ASSUME T # {} PROVE FALSE
    <2>1. T \subseteq 0 .. n
      BY <1>1
    <2>2. PICK i \in T : \A j \in T : j <= i
      <3> HIDE DEF T, n
      <3>1. QED BY <1>1, <1>5, <2>1, GreatestNumber
    <2>3. i \in CallsOf(cst) /\ cst[i].k \notin R /\ i \in Nat /\ i <= n
      BY <1>1
    <2> DEFINE U == {j \in CallsOf(cst) : i < j}
    <2>4. CASE U = {}
      <3>1. i < n + 1 /\ \A h \in CallsOf(cst) : h < n + 1 => h <= i
        BY <1>1, <2>3, <2>4
      <3> DEFINE e == n + 1
      <3> HIDE DEF e
      <3>2. CallerOf(cst, e) = cst[i].k
        BY <1>1, <2>3, <3>1, CallerLast DEF e
      <3>3. FirstOf(cs, nk) = cst[i].k
        BY <3>2 DEF Matched, e
      <3>4. QED BY <1>3, <1>4, <2>3, <3>3
    <2>5. CASE U # {}
      <3>1. U \subseteq Nat
        BY <1>1
      <3>2. PICK j \in U : \A h \in U : j <= h
        <4> HIDE DEF U
        <4>1. QED BY <2>5, <3>1, LeastNumber
      <3>3. j \in CallsOf(cst) /\ i < j /\ j \in Nat
        BY <3>1
      <3>4. \A h \in CallsOf(cst) : h < j => h <= i
        <4> TAKE h \in CallsOf(cst)
        <4>1. h \in Nat /\ (i < h => j <= h)
          BY <1>1, <3>2
        <4>2. QED BY <2>3, <3>3, <4>1
      <3>5. CallerOf(cst, j) = cst[i].k
        BY <1>1, <2>3, <3>3, <3>4, CallerLast
      <3>6. j \notin T
        <4> HIDE DEF T
        <4>1. QED BY <2>2, <2>3, <3>3
      <3>7. cst[j].k \in R
        BY <3>3, <3>6
      <3>8. FirstOf(cs, cs[cst[j].k].next) \in R \cup {0}
        BY <1>2, <1>3, <3>7
      <3>9. QED BY <1>4, <2>3, <3>3, <3>5, <3>8
    <2>6. QED BY <2>4, <2>5
  <1>6. QED BY <1>5

\* what is dropped is none of the calls'
LEMMA MatchedRest ==
  ASSUME NEW cs, WellLinked(cs), Records(cs), NEW cst, CShape(cst), NEW nk, Matched(cs, cst, nk),
         NEW R, Closed(cs, R), nk \in R \cup {0}
  PROVE  Matched(Restrict(cs, R), cst, nk)
  <1> DEFINE ds == Restrict(cs, R)
  <1>1. /\ DOMAIN ds = R
        /\ \A i \in R : ds[i] = cs[i]
        /\ \A i \in R \cup {0} : FirstOf(ds, i) = FirstOf(cs, i)
    BY LinkedRest
  <1> HIDE DEF ds
  <1>2. FirstOf(ds, nk) = CallerOf(cst, Len(cst) + 1)
    BY <1>1 DEF Matched
  <1>3. ASSUME NEW i \in CallsOf(cst)
        PROVE  LET k == cst[i].k IN
               /\ k \in DOMAIN ds /\ ds[k].tag = "system" /\ ds[k].top = i - 1
               /\ FirstOf(ds, ds[k].next) = CallerOf(cst, i)
    <2> DEFINE k == cst[i].k
    <2>1. k \in R
      BY CallsLive
    <2>2. cs[k].next \in R \cup {0}
      BY <2>1 DEF Closed
    <2>3. cs[k].tag = "system" /\ cs[k].top = i - 1 /\ FirstOf(cs, cs[k].next) = CallerOf(cst, i)
      BY DEF Matched
    <2> HIDE DEF k
    <2>4. /\ k \in DOMAIN ds /\ ds[k].tag = "system" /\ ds[k].top = i - 1
          /\ FirstOf(ds, ds[k].next) = CallerOf(cst, i)
      BY <1>1, <2>1, <2>2, <2>3
    <2>5. QED BY <2>4 DEF k
  <1>4. QED BY <1>2, <1>3 DEF Matched, ds

\* continuations may come and go, as long as the calls' are the same
LEMMA MatchedKept ==
  ASSUME NEW cs, WellLinked(cs), NEW ds, NEW cst, NEW nk, Matched(cs, cst, nk), nk \in DOMAIN cs \cup {0},
         SystemsKept(cs, ds), SameFirst(cs, ds), NEW mk, FirstOf(ds, mk) = FirstOf(cs, nk)
  PROVE  Matched(ds, cst, mk)
  <1>1. ASSUME NEW i \in CallsOf(cst)
        PROVE  LET k == cst[i].k IN
               /\ k \in DOMAIN ds /\ ds[k].tag = "system" /\ ds[k].top = i - 1
               /\ FirstOf(ds, ds[k].next) = CallerOf(cst, i)
    <2> DEFINE k == cst[i].k
    <2>1. k \in DOMAIN cs /\ cs[k].tag = "system" /\ cs[k].top = i - 1 /\ FirstOf(cs, cs[k].next) = CallerOf(cst, i)
      BY DEF Matched
    <2> HIDE DEF k
    <2>2. ds[k] = cs[k] /\ cs[k].next \in DOMAIN cs \cup {0}
      BY <2>1 DEF WellLinked, SystemsKept
    <2>3. /\ k \in DOMAIN ds /\ ds[k].tag = "system" /\ ds[k].top = i - 1
          /\ FirstOf(ds, ds[k].next) = CallerOf(cst, i)
      BY <2>1, <2>2 DEF SystemsKept, SameFirst
    <2>4. QED BY <2>3 DEF k
  <1>2. FirstOf(ds, mk) = CallerOf(cst, Len(cst) + 1)
    BY DEF Matched
  <1>3. QED BY <1>1, <1>2 DEF Matched

\* C calls Scheme
LEMMA MatchedEnter ==
  ASSUME NEW cs, NEW cst, CShape(cst), NEW nk, Matched(cs, cst, nk),
         NEW dst, CShape(dst), Len(dst) = Len(cst) + 1, \A i \in 1 .. Len(cst) : dst[i] = cst[i],
         dst[Len(dst)].in = "ik_exec_code"
  PROVE  Matched(cs, dst, nk)
  <1> DEFINE n == Len(cst)
  <1>1. n \in Nat /\ Len(dst) = n + 1 /\ CallsOf(dst) \subseteq 2 .. n + 1
    BY ShapeFacts
  <1>2. /\ \A i \in 1 .. n : i \in CallsOf(dst) <=> i \in CallsOf(cst)
        /\ \A i \in 1 .. n + 1 : CallerOf(dst, i) = CallerOf(cst, i)
    <2>1. n <= Len(cst) /\ n <= Len(dst)
      BY <1>1
    <2> HIDE DEF n
    <2>2. \A i \in 1 .. n : dst[i] = cst[i]
      BY DEF n
    <2>3. QED BY <1>1, <2>1, <2>2, CallerSame
  <1>3. n + 1 \in 1 .. n + 1 /\ n + 1 \in 1 .. Len(dst)
    BY <1>1
  <1>4. CallerOf(dst, (n + 1) + 1) = CallerOf(dst, n + 1)
    <2> DEFINE m == n + 1
    <2>1. m \in 1 .. Len(dst) /\ dst[m].in # "C"
      BY <1>1, <1>3
    <2> HIDE DEF m
    <2>2. CallerOf(dst, m + 1) = CallerOf(dst, m)
      BY <2>1, CallerNext
    <2>3. QED BY <2>2 DEF m
  <1>5. FirstOf(cs, nk) = CallerOf(dst, Len(dst) + 1)
    <2>1. FirstOf(cs, nk) = CallerOf(cst, n + 1)
      BY DEF Matched
    <2>2. QED BY <1>1, <1>2, <1>3, <1>4, <2>1
  <1>6. ASSUME NEW i \in CallsOf(dst)
        PROVE  i \in CallsOf(cst) /\ dst[i].k = cst[i].k /\ CallerOf(dst, i) = CallerOf(cst, i)
    <2>1. i \in 1 .. n + 1 /\ dst[i].in = "C"
      BY <1>1 DEF CallsOf
    <2>2. i # n + 1
      BY <1>1, <2>1
    <2>3. i \in 1 .. n
      BY <1>1, <2>1, <2>2
    <2>4. QED BY <1>2, <2>1, <2>3
  <1>7. QED BY <1>5, <1>6 DEF Matched

\* Scheme calls C
LEMMA MatchedCall ==
  ASSUME NEW cs, NEW cst, CShape(cst), NEW nk, Matched(cs, cst, nk),
         NEW dst, CShape(dst), Len(dst) = Len(cst) + 1, \A i \in 1 .. Len(cst) : dst[i] = cst[i],
         NEW sk \in DOMAIN cs, dst[Len(dst)].in = "C", dst[Len(dst)].k = sk,
         WellLinked(cs), cs[sk].tag = "system", cs[sk].top = Len(cst),
         FirstOf(cs, cs[sk].next) = FirstOf(cs, nk)
  PROVE  Matched(cs, dst, sk)
  <1> DEFINE n == Len(cst)
             m == Len(dst)
  <1>1. n \in Nat /\ m = n + 1 /\ CallsOf(dst) \subseteq 2 .. n + 1 /\ m \in 1 .. n + 1
    BY ShapeFacts
  <1>2. /\ \A i \in 1 .. n : i \in CallsOf(dst) <=> i \in CallsOf(cst)
        /\ \A i \in 1 .. n + 1 : CallerOf(dst, i) = CallerOf(cst, i)
    <2>1. n <= Len(cst) /\ n <= Len(dst)
      BY <1>1
    <2> HIDE DEF n
    <2>2. \A i \in 1 .. n : dst[i] = cst[i]
      BY DEF n
    <2>3. QED BY <1>1, <2>1, <2>2, CallerSame
  <1>3. CallerOf(dst, m + 1) = sk
    <2>1. m \in 1 .. Len(dst)
      BY <1>1
    <2>2. QED BY <2>1, CallerNext
  <1>4. FirstOf(cs, sk) = sk
    BY FirstLaws
  <1>5. FirstOf(cs, cs[sk].next) = CallerOf(dst, m)
    <2>1. FirstOf(cs, nk) = CallerOf(cst, n + 1)
      BY DEF Matched
    <2>2. QED BY <1>1, <1>2, <2>1
  <1>6. ASSUME NEW i \in CallsOf(dst), i # m
        PROVE  i \in CallsOf(cst) /\ dst[i].k = cst[i].k /\ CallerOf(dst, i) = CallerOf(cst, i)
    <2>1. i \in 1 .. n /\ i \in 1 .. n + 1
      BY <1>1, <1>6
    <2>2. QED BY <1>2, <2>1
  <1>7. ASSUME NEW i \in CallsOf(dst)
        PROVE  /\ dst[i].k \in DOMAIN cs /\ cs[dst[i].k].tag = "system" /\ cs[dst[i].k].top = i - 1
               /\ FirstOf(cs, cs[dst[i].k].next) = CallerOf(dst, i)
    <2>1. CASE i = m
      <3>1. i - 1 = Len(cst)
        BY <1>1, <2>1
      <3>2. QED BY <1>5, <2>1, <3>1
    <2>2. CASE i # m
      <3>1. i \in CallsOf(cst) /\ dst[i].k = cst[i].k /\ CallerOf(dst, i) = CallerOf(cst, i)
        BY <1>6, <2>2
      <3>2. QED BY <3>1 DEF Matched
    <2>3. QED BY <2>1, <2>2
  <1>8. FirstOf(cs, sk) = CallerOf(dst, Len(dst) + 1)
    BY <1>3, <1>4
  <1> HIDE DEF m, n
  <1>9. QED BY <1>7, <1>8 DEF Matched

\* the innermost activation ends
LEMMA MatchedPop ==
  ASSUME NEW cs, NEW cst, CShape(cst), Len(cst) >= 2, NEW nk, Matched(cs, cst, nk),
         NEW dst, CShape(dst), Len(dst) = Len(cst) - 1, \A i \in 1 .. Len(cst) - 1 : dst[i] = cst[i],
         NEW mk, FirstOf(cs, mk) = CallerOf(cst, Len(cst))
  PROVE  Matched(cs, dst, mk)
  <1> DEFINE n == Len(dst)
  <1>1. n \in Nat /\ Len(cst) = n + 1 /\ CallsOf(dst) \subseteq 2 .. n
    <2>1. Len(cst) \in Nat /\ Len(dst) \in Nat /\ CallsOf(dst) \subseteq 2 .. Len(dst)
      BY ShapeFacts
    <2>2. QED BY <2>1
  <1>2. /\ \A i \in 1 .. n : i \in CallsOf(dst) <=> i \in CallsOf(cst)
        /\ \A i \in 1 .. n + 1 : CallerOf(dst, i) = CallerOf(cst, i)
    <2>1. n <= Len(cst) /\ n <= Len(dst) /\ Len(cst) - 1 = n
      BY <1>1
    <2> HIDE DEF n
    <2>2. \A i \in 1 .. n : dst[i] = cst[i]
      BY <2>1
    <2>3. QED BY <1>1, <2>1, <2>2, CallerSame
  <1>3. n + 1 \in 1 .. n + 1
    BY <1>1
  <1>4. FirstOf(cs, mk) = CallerOf(dst, Len(dst) + 1)
    BY <1>1, <1>2, <1>3
  <1>5. ASSUME NEW i \in CallsOf(dst)
        PROVE  i \in CallsOf(cst) /\ dst[i].k = cst[i].k /\ CallerOf(dst, i) = CallerOf(cst, i)
    <2>1. i \in 1 .. n /\ i \in 1 .. n + 1 /\ i \in 1 .. Len(cst) - 1
      BY <1>1
    <2>2. QED BY <1>2, <2>1
  <1>6. QED BY <1>4, <1>5 DEF Matched

-----------------------------------------------------------------------------
(* The words of areas *)

\* a frame below a redline and the frame of the check reach no lower than this
LEMMA Bounds ==
  /\ Longest \in Nat /\ Longest >= 3 /\ 2 * Longest + 3 <= Redline
  /\ Redline \in Nat /\ AreaSize \in Nat /\ Redline <= AreaSize
  /\ LowBase \in Nat /\ LowBase = Redline - Longest /\ LowBase - Longest >= 3
  /\ \A n \in Nat : 2 * n + 3 <= Redline => n <= Longest
  <1>1. Redline \in Nat /\ AreaSize \in Nat /\ Redline <= AreaSize /\ Redline >= 9
    BY AreaLarge
  <1> DEFINE l == Longest
  <1>2. l \in Nat /\ 2 * l <= Redline - 3 /\ Redline - 3 < 2 * l + 2
    BY <1>1 DEF Longest
  <1> HIDE DEF l
  <1>3. l >= 3 /\ 2 * l + 3 <= Redline /\ Redline - l \in Nat /\ Redline - l - l >= 3
    BY <1>1, <1>2
  <1>4. \A n \in Nat : 2 * n + 3 <= Redline => n <= l
    BY <1>1, <1>2
  <1>5. QED BY <1>1, <1>2, <1>3, <1>4 DEF l, LowBase

Area == 0 .. AreaSize - 1

\* c is b from a word on
SameFrom(b, c, at) == DOMAIN c = Area /\ \A j \in Area : at <= j => c[j] = b[j]

\* areas the same from a word on are the same from a later one on
LEMMA SameHigher ==
  ASSUME NEW b, NEW c, NEW at \in Int, SameFrom(b, c, at), NEW to \in Int, at <= to
  PROVE  SameFrom(b, c, to)
  BY DEF SameFrom, Area

\* words written change no other word
LEMMA WriteFacts ==
  ASSUME NEW b, DOMAIN b = Area, NEW at \in Int, NEW ws, Len(ws) \in Nat
  PROVE  /\ DOMAIN Write(b, at, ws) = Area
         /\ \A j \in Area : j < at => Write(b, at, ws)[j] = b[j]
         /\ SameFrom(b, Write(b, at, ws), at + Len(ws))
         /\ \A j \in 1 .. Len(ws) : at + j - 1 \in Area => Write(b, at, ws)[at + j - 1] = ws[j]
  <1> DEFINE n == Len(ws)
  <1>1. Area \subseteq Int /\ n \in Nat
    BY DEF Area
  <1> HIDE DEF n
  <1>2. Write(b, at, ws) = [i \in Area |-> IF i >= at /\ i < at + n THEN ws[i - at + 1] ELSE b[i]]
    BY DEF Write, n
  <1>3. ASSUME NEW j \in 1 .. n, at + j - 1 \in Area PROVE Write(b, at, ws)[at + j - 1] = ws[j]
    <2> DEFINE i == at + j - 1
    <2>1. i \in Area /\ i >= at /\ i < at + n /\ i - at + 1 = j
      BY <1>1, <1>3
    <2> HIDE DEF i
    <2>2. Write(b, at, ws)[i] = ws[j]
      BY <1>2, <2>1
    <2>3. QED BY <2>2 DEF i
  <1>4. \A j \in Area : at + n <= j => Write(b, at, ws)[j] = b[j]
    BY <1>1, <1>2
  <1>5. \A j \in Area : j < at => Write(b, at, ws)[j] = b[j]
    BY <1>1, <1>2
  <1>6. DOMAIN Write(b, at, ws) = Area
    BY <1>2
  <1>7. QED BY <1>3, <1>4, <1>5, <1>6 DEF n, SameFrom

\* clearing below a word changes nothing from it on
LEMMA ClearFacts ==
  ASSUME NEW b, DOMAIN b = Area, NEW at \in Int
  PROVE  /\ DOMAIN Clear(b, at) = Area
         /\ SameFrom(b, Clear(b, at), at)
  <1>1. Area \subseteq Int
    BY DEF Area
  <1>2. QED BY <1>1 DEF Clear, SameFrom

\* what a change of words below the base leaves
FramesOK(bs, a, fb, cs) ==
  /\ a \in {<<"area", n>> : n \in Areas} \cap DOMAIN bs
  /\ DOMAIN bs[a] = Area
  /\ fb \in LowBase .. AreaSize
  /\ \A i \in DOMAIN cs : cs[i].tag = "k" => FramesOf(bs, a, fb, cs[i])

\* what changes below the base leaves the frames of continuations whole
LEMMA FramesBelow ==
  ASSUME NEW bs, NEW a, NEW fb, NEW cs, FramesOK(bs, a, fb, cs),
         NEW c, SameFrom(bs[a], c, fb)
  PROVE  /\ FramesOK([bs EXCEPT ![a] = c], a, fb, cs)
         /\ [bs EXCEPT ![a] = c][a] = c /\ DOMAIN [bs EXCEPT ![a] = c] = DOMAIN bs
  <1> DEFINE ds == [bs EXCEPT ![a] = c]
  <1>1. /\ a \in DOMAIN bs /\ ds[a] = c /\ DOMAIN ds = DOMAIN bs
        /\ \A b \in DOMAIN bs : b # a => ds[b] = bs[b]
        /\ fb \in Nat /\ AreaSize \in Nat
    BY Bounds DEF FramesOK
  <1> HIDE DEF ds
  <1>2. DOMAIN c = Area /\ \A j \in Area : fb <= j => c[j] = bs[a][j]
    BY DEF SameFrom
  <1>3. ASSUME NEW i \in DOMAIN cs, cs[i].tag = "k" PROVE FramesOf(ds, a, fb, cs[i])
    <2> DEFINE k == cs[i]
    <2>1. FramesOf(bs, a, fb, k)
      BY <1>3 DEF FramesOK
    <2> HIDE DEF k
    <2>2. k.block \in DOMAIN bs /\ Framed(bs[k.block], k.top, k.top + k.size)
          /\ (k.block = a => fb <= k.top /\ k.top + k.size <= AreaSize)
      BY <2>1 DEF FramesOf
    <2>3. CASE k.block = a
      <3> DEFINE e == k.top + k.size
      <3>1. Framed(bs[a], k.top, e) /\ fb <= k.top /\ e <= AreaSize /\ k.top \in Int /\ e \in Int
        BY <2>2, <2>3 DEF Framed
      <3> HIDE DEF e
      <3>2. \A j \in k.top .. e - 1 : j \in Area /\ fb <= j
        BY <1>1, <3>1 DEF Area
      <3>3. \A j \in k.top .. e - 1 : c[j] = bs[a][j]
        BY <1>2, <3>2
      <3>4. Framed(c, k.top, e)
        BY <3>1, <3>3, FramedKept
      <3>5. ds[k.block] = c /\ k.block \in DOMAIN ds
        BY <1>1, <2>3
      <3>6. Framed(ds[k.block], k.top, k.top + k.size)
        BY <3>4, <3>5 DEF e
      <3>7. fb <= k.top /\ k.top + k.size <= AreaSize
        BY <2>2, <2>3
      <3>8. QED BY <3>5, <3>6, <3>7 DEF FramesOf, k
    <2>4. CASE k.block # a
      <3>1. ds[k.block] = bs[k.block] /\ k.block \in DOMAIN ds
        BY <1>1, <2>2, <2>4
      <3>2. Framed(ds[k.block], k.top, k.top + k.size)
        BY <2>2, <3>1
      <3>3. QED BY <2>4, <3>1, <3>2 DEF FramesOf, k
    <2>5. QED BY <2>3, <2>4
  <1>4. FramesOK(ds, a, fb, cs)
    BY <1>1, <1>2, <1>3 DEF FramesOK
  <1>5. QED BY <1>1, <1>4 DEF ds

\* the base moves down, and what was above it becomes a continuation
LEMMA FramesSealed ==
  ASSUME NEW bs, NEW a, NEW fb, NEW cs, FramesOK(bs, a, fb, cs),
         NEW fp \in LowBase .. fb - 2, Framed(bs[a], fp, fb - 1),
         NEW k, k \notin DOMAIN cs, NEW x, x.block = a, x.top = fp, x.size = fb - 1 - fp,
         NEW ds, ds = Also(cs, k, x)
  PROVE  FramesOK(bs, a, fp, ds)
  <1>1. fb \in Int /\ fb <= AreaSize /\ AreaSize \in Int /\ LowBase \in Int /\ fp \in Int /\ fp < fb
    BY Bounds DEF FramesOK
  <1>2. ASSUME NEW i \in DOMAIN cs, cs[i].tag = "k" PROVE FramesOf(bs, a, fp, cs[i])
    <2>1. FramesOf(bs, a, fb, cs[i])
      BY <1>2 DEF FramesOK
    <2> DEFINE y == cs[i]
    <2>2. y.top \in Int
      BY <2>1 DEF FramesOf, Framed
    <2> HIDE DEF y
    <2>3. FramesOf(bs, a, fp, y)
      BY <1>1, <2>1, <2>2 DEF FramesOf, y
    <2>4. QED BY <2>3 DEF y
  <1>3. FramesOf(bs, a, fp, x)
    <2>1. fp + (fb - 1 - fp) = fb - 1 /\ fb - 1 <= AreaSize
      BY <1>1
    <2>2. QED BY <1>1, <2>1 DEF FramesOf, FramesOK
  <1>4. \A i \in DOMAIN ds : ds[i] = IF i = k THEN x ELSE cs[i]
    BY DEF Also
  <1>5. DOMAIN ds = DOMAIN cs \cup {k}
    BY DEF Also
  <1>6. fp \in LowBase .. AreaSize
    BY <1>1
  <1>7. QED BY <1>2, <1>3, <1>4, <1>5, <1>6 DEF FramesOK

ContsOK(cs, nk, ss) ==
  /\ WellLinked(cs) /\ Records(cs)
  /\ nk \in DOMAIN cs \cup {0}
  /\ ss \in [Slot -> DOMAIN cs \cup {0, -1}]

\* what remains reachable remains as it was
LEMMA ReferFacts ==
  ASSUME NEW bs, NEW a, NEW fb, NEW cs, NEW nk, NEW ss, FramesOK(bs, a, fb, cs), ContsOK(cs, nk, ss),
         NEW ds, ds = Reachable(cs, nk, ss), NEW cb, cb = Restrict(bs, UsedBlocks(ds, a))
  PROVE  /\ FramesOK(cb, a, fb, ds) /\ ContsOK(ds, nk, ss) /\ cb[a] = bs[a]
         /\ FirstOf(ds, nk) = FirstOf(cs, nk)
         /\ nk # 0 => ds[nk] = cs[nk]
         /\ \A cst : CShape(cst) /\ Matched(cs, cst, nk) => Matched(ds, cst, nk)
  <1> DEFINE roots == {nk} \cup {ss[s] : s \in Slot}
             R == Reach(cs, roots)
  <1>1. WellLinked(cs) /\ Records(cs) /\ nk \in DOMAIN cs \cup {0} /\ ss \in [Slot -> DOMAIN cs \cup {0, -1}]
    BY DEF ContsOK
  <1>2. roots \subseteq DOMAIN cs \cup {0, -1}
    BY <1>1
  <1>3. Closed(cs, R) /\ \A i \in roots : i \in R \cup {0, -1}
    <2> HIDE DEF roots
    <2>1. QED BY <1>1, <1>2, ReachFacts
  <1>4. ds = Restrict(cs, R)
    BY DEF Reachable
  <1>5. -1 \notin DOMAIN cs /\ 0 \notin DOMAIN cs /\ -1 # 0
    BY <1>1, StackAssumption DEF WellLinked
  <1>6. nk \in R \cup {0} /\ \A s \in Slot : ss[s] \in R \cup {0, -1}
    <2>1. nk \in R \cup {0, -1}
      BY <1>3
    <2>2. QED BY <1>1, <1>3, <1>5, <2>1
  <1> HIDE DEF R, roots
  <1>7. /\ WellLinked(ds) /\ Records(ds) /\ DOMAIN ds = R
        /\ \A i \in R : ds[i] = cs[i]
        /\ \A i \in R \cup {0} : FirstOf(ds, i) = FirstOf(cs, i)
    BY <1>1, <1>3, <1>4, LinkedRest
  <1>8. ContsOK(ds, nk, ss)
    <2>1. ss = [s \in Slot |-> ss[s]]
      BY <1>1
    <2>2. ss \in [Slot -> R \cup {0, -1}]
      BY <1>6, <2>1
    <2>3. QED BY <1>6, <1>7, <2>2 DEF ContsOK
  <1>9. R \subseteq DOMAIN cs
    BY <1>3 DEF Closed
  <1>10. /\ a \in DOMAIN cb /\ cb[a] = bs[a]
         /\ \A i \in R : cs[i].tag = "k" => cs[i].block \in DOMAIN cb /\ cb[cs[i].block] = bs[cs[i].block]
    BY <1>7 DEF Restrict, UsedBlocks
  <1>11. FramesOK(cb, a, fb, ds)
    <2>1. ASSUME NEW i \in R, cs[i].tag = "k" PROVE FramesOf(cb, a, fb, cs[i])
      <3>1. FramesOf(bs, a, fb, cs[i])
        BY <1>9, <2>1 DEF FramesOK
      <3>2. QED BY <1>10, <2>1, <3>1 DEF FramesOf
    <2>2. QED BY <1>7, <1>10, <2>1 DEF FramesOK
  <1>12. ASSUME NEW cst, CShape(cst), Matched(cs, cst, nk) PROVE Matched(ds, cst, nk)
    BY <1>1, <1>3, <1>4, <1>6, <1>12, MatchedRest
  <1>13. QED BY <1>6, <1>7, <1>8, <1>10, <1>11, <1>12

-----------------------------------------------------------------------------
(* The invariant *)

\* the frames of continuations are whole, and above the stack
InvMemory == FramesOK(blocks, stack_base, frame_base, conts)
\* continuations lead to continuations, and end
InvConts == ContsOK(conts, next_k, slots)

\* the frames of the stack are whole, and leave room for what may still come
\* before the check at the entry of a procedure: one frame
InvPointer ==
  /\ \/ frame_pointer = frame_base /\ pc \in {"c", "arguments", "result", "dead"}
     \/ frame_pointer < frame_base /\ Framed(blocks[stack_base], frame_pointer, frame_base - 1)
  /\ frame_pointer \in 2 .. frame_base
  /\ argc \in 0 .. 2
  /\ pc = "scheme" => frame_pointer = frame_base - 1 \/ frame_pointer \in LowBase .. frame_base - 2
  /\ pc = "overflow" => frame_pointer < frame_base - 1 /\ FreeAreas # {}
  /\ pc = "reenter" =>
       /\ frame_pointer < frame_base - 1
       /\ \/ frame_pointer >= LowBase
          \/ frame_pointer + SizeAt(blocks[stack_base], frame_pointer) = frame_base - 1
  /\ pc = "underflow" => frame_pointer = frame_base - 1

\* the C stack is that of the calls on the chain, and Scheme code runs on top
InvC ==
  /\ CShape(cstack)
  /\ system_stack \in 1 .. Len(cstack) + 1
  /\ pc \notin {"dead", "across"} => Matched(conts, cstack, next_k)
  /\ pc \in {"scheme", "underflow", "reenter", "overflow"} =>
       system_stack = Len(cstack) /\ cstack[system_stack].in = "ik_exec_code"
  /\ pc \in {"c", "arguments", "result"} =>
       cstack[Len(cstack)].in = "C" /\ next_k = cstack[Len(cstack)].k

\* as it is when ik_exec_code, or the program, has ended
InvPc ==
  pc \in {"scheme", "underflow", "reenter", "overflow", "c", "arguments", "result", "done", "dead", "across"}

StackInv == InvMemory /\ InvConts /\ InvPointer /\ InvC /\ InvPc

\* the numbers
LEMMA Numbers ==
  ASSUME StackInv
  PROVE  /\ frame_base \in Int /\ LowBase <= frame_base /\ frame_base <= AreaSize
         /\ frame_pointer \in Int /\ 2 <= frame_pointer /\ frame_pointer <= frame_base
         /\ stack_base \in DOMAIN blocks /\ DOMAIN blocks[stack_base] = Area
         /\ LowBase \in Int /\ LowBase - Longest >= 3 /\ Longest >= 3 /\ Longest \in Int
         /\ AreaSize \in Int /\ Redline \in Int /\ Redline = LowBase + Longest
         /\ WellLinked(conts) /\ Records(conts) /\ next_k \in DOMAIN conts \cup {0}
         /\ slots \in [Slot -> DOMAIN conts \cup {0, -1}]
  BY Bounds DEF StackInv, InvMemory, InvConts, InvPointer, FramesOK, ContsOK

\* values on their way
LEMMA BelowFacts ==
  ASSUME NEW vs \in Results
  PROVE  Len(Below(vs)) = Len(vs) /\ Len(vs) \in 0 .. 2
  <1>1. Len(vs) \in Nat /\ Len(vs) <= 2 /\ DOMAIN vs = 1 .. Len(vs)
    BY StackAssumption
  <1> DEFINE ws == [i \in DOMAIN vs |-> Val(vs[i])]
             n == Len(vs)
  <1>2. Len(ws) = n
    <2> HIDE DEF n
    <2>1. n \in Nat /\ DOMAIN vs = 1 .. n
      BY <1>1 DEF n
    <2>2. QED BY <2>1
  <1> HIDE DEF ws, n
  <1>3. Below(vs) = [i \in 1 .. n |-> ws[(n - i) + 1]]
    BY <1>2 DEF Below, Reverse, ws
  <1>4. n \in Nat
    BY <1>1 DEF n
  <1>5. Len(Below(vs)) = n
    BY <1>3, <1>4
  <1>6. QED BY <1>1, <1>5 DEF n

\* it holds when the program starts: an empty stack over the handler
LEMMA InitKeeps ==
  ASSUME StackInit
  PROVE  StackInv
  <1>1. AreaSize \in Nat /\ AreaSize >= 9 /\ LowBase \in Nat /\ LowBase <= AreaSize
    BY AreaLarge, Bounds
  <1>2. stack_base \in {<<"area", n>> : n \in Areas}
    BY StackAssumption DEF StackInit
  <1>3. DOMAIN blocks = {stack_base} /\ DOMAIN blocks[stack_base] = Area /\ DOMAIN conts = {} /\ conts = << >>
    <2>1. DOMAIN << >> = {}
      OBVIOUS
    <2>2. QED BY <2>1 DEF StackInit, Area
  <1>4. InvMemory
    BY <1>1, <1>2, <1>3 DEF InvMemory, FramesOK, StackInit
  <1>5. WellLinked(conts)
    BY <1>3 DEF WellLinked
  <1>6. InvConts
    BY <1>3, <1>5 DEF InvConts, ContsOK, Records, StackInit
  <1>7. InvPointer
    <2>1. frame_pointer < frame_base /\ frame_pointer = frame_base - 1 /\ frame_base - 1 \in Int
      BY <1>1 DEF StackInit
    <2>2. Framed(blocks[stack_base], frame_pointer, frame_base - 1)
      BY <2>1, FramedNone
    <2>3. QED BY <1>1, <2>1, <2>2 DEF InvPointer, StackInit
  <1>8. CShape(cstack)
    <2> DEFINE x == [in |-> "ik_exec_code", k |-> 0]
               X == [in : {"ik_exec_code", "C"}, k : Int]
    <2>1. x \in X /\ x.in = "ik_exec_code"
      OBVIOUS
    <2>2. cstack = <<x>>
      BY DEF StackInit
    <2> HIDE DEF x, X
    <2>3. cstack \in Seq(X) /\ Len(cstack) = 1 /\ cstack[1] = x
      BY <2>1, <2>2
    <2>4. cstack # << >> /\ cstack[1].in = "ik_exec_code" /\ 2 .. Len(cstack) = {}
      BY <2>1, <2>2, <2>3
    <2>5. QED BY <2>3, <2>4 DEF CShape, X
  <1>9. Len(cstack) = 1 /\ cstack[1].in = "ik_exec_code"
    BY DEF StackInit
  <1>10. Matched(conts, cstack, next_k)
    <2>1. CallsOf(cstack) = {}
      <3>1. CallsOf(cstack) \subseteq 2 .. 1
        BY <1>8, <1>9, ShapeFacts
      <3>2. QED BY <3>1
    <2>2. FirstOf(conts, 0) = 0
      BY <1>5, FirstLaws
    <2>3. CallerOf(cstack, Len(cstack) + 1) = 0
      BY <2>1, CallerNone
    <2>4. QED BY <2>1, <2>2, <2>3 DEF Matched, StackInit
  <1>11. InvC
    BY <1>8, <1>9, <1>10 DEF InvC, StackInit
  <1>12. InvPc
    BY DEF InvPc, StackInit
  <1>13. QED BY <1>4, <1>6, <1>7, <1>11, <1>12 DEF StackInv

-----------------------------------------------------------------------------
(* Scheme code *)

\* a frame pushed below frames
LEMMA PushFrame ==
  ASSUME NEW b, DOMAIN b = Area, NEW top \in Int, NEW end \in Int, Framed(b, top, end), end < AreaSize,
         NEW f \in Frames, NEW at, at = top - Len(f), 0 <= at,
         NEW c, c = Write(b, at, f)
  PROVE  /\ SameFrom(b, c, top)
         /\ at \in Int /\ at < top /\ top - at <= Longest
         /\ Framed(c, at, end)
  <1>1. Len(f) \in Nat \ {0} /\ Len(f) <= Longest /\ AreaSize \in Nat
    BY FrameWords, Bounds
  <1> DEFINE n == Len(f)
  <1> HIDE DEF n
  <1>2. at \in Int /\ at + n = top /\ at < top /\ top - at <= Longest /\ n \in Nat \ {0} /\ n = Len(f)
    <2>1. n \in Nat \ {0} /\ n <= Longest /\ at = top - n
      BY <1>1 DEF n
    <2>2. Longest \in Nat
      BY Bounds
    <2>3. QED BY <2>1, <2>2 DEF n
  <1>3. /\ SameFrom(b, c, top)
        /\ \A j \in 1 .. n : at + j - 1 \in Area => c[at + j - 1] = f[j]
    <2>1. Len(f) \in Nat
      BY <1>2
    <2>2. /\ SameFrom(b, Write(b, at, f), at + Len(f))
          /\ \A j \in 1 .. Len(f) : at + j - 1 \in Area => Write(b, at, f)[at + j - 1] = f[j]
      BY <1>2, <2>1, WriteFacts
    <2>3. QED BY <1>2, <2>2
  <1>4. top <= end
    BY DEF Framed
  <1>5. Framed(c, top, end)
    <2>1. \A j \in top .. end - 1 : j \in Area /\ top <= j
      BY <1>1, <1>2 DEF Area
    <2>2. \A j \in top .. end - 1 : c[j] = b[j]
      BY <1>3, <2>1 DEF SameFrom
    <2>3. QED BY <2>2, FramedKept
  <1>6. \A j \in 1 .. n : c[top - n + j - 1] = f[j]
    <2> TAKE j \in 1 .. n
    <2>1. at + j - 1 \in Area /\ top - n + j - 1 = at + j - 1
      BY <1>1, <1>2, <1>4 DEF Area
    <2>2. QED BY <1>3, <2>1
  <1>7. Framed(c, top - n, end)
    BY <1>2, <1>5, <1>6, FramedPushed
  <1>8. top - n = at
    BY <1>2
  <1>9. QED BY <1>2, <1>3, <1>7, <1>8

\* a call leaves room: a frame is smaller than what the check left
LEMMA CallKeeps ==
  ASSUME StackInv, Call
  PROVE  StackInv'
  <1> USE DEF StackInv
  <1> DEFINE S == blocks[stack_base]
  <1>1. PICK f \in Frames :
          /\ pc = "scheme"
          /\ MustGrow(frame_pointer) => FreeAreas # {}
          /\ pc' = IF MustGrow(frame_pointer) THEN "overflow" ELSE "scheme"
          /\ blocks' = [blocks EXCEPT ![stack_base] = Push(S, f)]
          /\ frame_pointer' = frame_pointer - Len(f)
          /\ UNCHANGED <<stack_base, frame_base, conts, next_k, cstack, system_stack, slots, argc>>
    BY DEF Call, c_side
  <1> DEFINE c == Push(S, f)
             at == frame_pointer - Len(f)
  <1>2. /\ frame_base \in Int /\ LowBase <= frame_base /\ frame_base <= AreaSize
        /\ frame_pointer \in Int /\ 2 <= frame_pointer /\ frame_pointer <= frame_base
        /\ stack_base \in DOMAIN blocks /\ DOMAIN S = Area
        /\ LowBase \in Int /\ LowBase - Longest >= 3 /\ Longest >= 3 /\ Longest \in Int
        /\ AreaSize \in Int /\ Redline \in Int /\ Redline = LowBase + Longest
    BY Numbers
  <1>3. frame_pointer < frame_base /\ Framed(S, frame_pointer, frame_base - 1)
        /\ (frame_pointer = frame_base - 1 \/ frame_pointer \in LowBase .. frame_base - 2)
    BY <1>1 DEF InvPointer
  <1>4. Len(f) \in Nat \ {0} /\ Len(f) <= Longest
    BY FrameWords, Bounds
  <1>5. 0 <= at /\ at >= 2 /\ at < frame_pointer /\ (frame_pointer >= Redline => at >= LowBase)
    <2> DEFINE n == Len(f)
    <2> HIDE DEF n
    <2>1. n \in Nat \ {0} /\ n <= Longest /\ at = frame_pointer - n
      BY <1>4 DEF n
    <2> HIDE DEF at
    <2>2. QED BY <1>2, <1>3, <2>1
  <1>6. /\ SameFrom(S, c, frame_pointer)
        /\ at \in Int /\ at < frame_pointer /\ frame_pointer - at <= Longest
        /\ Framed(c, at, frame_base - 1)
    <2>1. frame_base - 1 \in Int /\ frame_base - 1 < AreaSize
      BY <1>2
    <2>2. c = Write(S, at, f)
      BY DEF Push
    <2> HIDE DEF c, S
    <2>3. at = frame_pointer - Len(f)
      OBVIOUS
    <2> HIDE DEF at
    <2>4. QED BY <1>2, <1>3, <1>5, <2>1, <2>2, <2>3, PushFrame
  <1> HIDE DEF c
  <1>7. FramesOK(blocks', stack_base, frame_base, conts) /\ blocks'[stack_base] = c /\ DOMAIN blocks' = DOMAIN blocks
    <2>1. SameFrom(S, c, frame_base)
      <3> HIDE DEF S
      <3>1. QED BY <1>2, <1>6, SameHigher
    <2>2. FramesOK(blocks, stack_base, frame_base, conts)
      BY DEF InvMemory
    <2>3. blocks' = [blocks EXCEPT ![stack_base] = c]
      BY <1>1 DEF c
    <2> HIDE DEF StackInv
    <2>4. FramesOK([blocks EXCEPT ![stack_base] = c], stack_base, frame_base, conts)
          /\ [blocks EXCEPT ![stack_base] = c][stack_base] = c /\ DOMAIN [blocks EXCEPT ![stack_base] = c] = DOMAIN blocks
      BY <2>1, <2>2, FramesBelow
    <2>5. QED BY <2>3, <2>4
  <1>8. InvMemory'
    BY <1>1, <1>7 DEF InvMemory
  <1>9. InvConts'
    BY <1>1 DEF InvConts
  <1>10. InvPointer'
    <2>1. frame_pointer' = at /\ at < frame_base /\ at \in 2 .. frame_base /\ at < frame_base - 1
      <3>1. frame_pointer' = at
        BY <1>1
      <3>2. at \in Int /\ at >= 2 /\ at < frame_pointer /\ frame_pointer <= frame_base - 1
        BY <1>2, <1>3, <1>5, <1>6
      <3> HIDE DEF at
      <3>3. QED BY <1>2, <3>1, <3>2
    <2>2. Framed(blocks'[stack_base'], frame_pointer', frame_base' - 1)
      BY <1>1, <1>6, <1>7
    <2>3. FreeAreas' = FreeAreas
      BY <1>7 DEF FreeAreas
    <2>4. argc' \in 0 .. 2
      BY <1>1 DEF InvPointer
    <2>5. pc' = "scheme" => at \in LowBase .. frame_base - 2
      <3>1. pc' = "scheme" => frame_pointer >= Redline
        BY <1>1, <1>2 DEF MustGrow
      <3> HIDE DEF at
      <3>2. QED BY <1>2, <1>5, <1>6, <2>1, <3>1
    <2>6. pc' = "overflow" => FreeAreas # {}
      BY <1>1
    <2>7. pc' \in {"scheme", "overflow"}
      BY <1>1
    <2> HIDE DEF at
    <2>8. frame_base' = frame_base
      BY <1>1
    <2>9. QED BY <2>1, <2>2, <2>3, <2>4, <2>5, <2>6, <2>7, <2>8 DEF InvPointer
  <1>11. InvC'
    BY <1>1 DEF InvC
  <1>12. InvPc'
    BY <1>1 DEF InvPc
  <1>13. QED BY <1>8, <1>9, <1>10, <1>11, <1>12

\* what a push of values below the frames leaves
LEMMA PushValues ==
  ASSUME NEW b, DOMAIN b = Area, NEW top \in Int, NEW end \in Int, Framed(b, top, end), end < AreaSize, 0 <= top,
         NEW c, SameFrom(b, c, top)
  PROVE  Framed(c, top, end)
  <1>1. \A j \in top .. end - 1 : j \in Area /\ top <= j
    BY Bounds DEF Area
  <1>2. \A j \in top .. end - 1 : c[j] = b[j]
    BY <1>1 DEF SameFrom
  <1>3. QED BY <1>2, FramedKept

\* a return leaves the frame above, or the underflow handler, on top
LEMMA ReturnKeeps ==
  ASSUME StackInv, Return
  PROVE  StackInv'
  <1> USE DEF StackInv
  <1> DEFINE S == blocks[stack_base]
  <1>1. PICK vs \in Results :
          /\ pc = "scheme"
          /\ blocks' = [blocks EXCEPT ![stack_base] = Push(S, Below(vs))]
          /\ argc' = Len(vs)
          /\ pc' = IF frame_pointer = frame_base - 1 THEN "underflow" ELSE "reenter"
          /\ UNCHANGED <<stack_base, frame_base, frame_pointer, conts, next_k, cstack, system_stack, slots>>
    BY DEF Return, c_side
  <1> DEFINE c == Push(S, Below(vs))
  <1>2. /\ frame_base \in Int /\ frame_base <= AreaSize /\ AreaSize \in Int
        /\ frame_pointer \in Int /\ 2 <= frame_pointer /\ frame_pointer <= frame_base
        /\ stack_base \in DOMAIN blocks /\ DOMAIN S = Area
    BY Numbers
  <1>3. frame_pointer < frame_base /\ Framed(S, frame_pointer, frame_base - 1)
        /\ (frame_pointer = frame_base - 1 \/ frame_pointer \in LowBase .. frame_base - 2)
    BY <1>1 DEF InvPointer
  <1>4. SameFrom(S, c, frame_pointer)
    <2> DEFINE ws == Below(vs)
               n == Len(vs)
               at == frame_pointer - n
    <2>1. Len(ws) = n /\ n \in 0 .. 2
      BY BelowFacts
    <2>2. c = Write(S, frame_pointer - Len(ws), ws)
      BY DEF Push
    <2> HIDE DEF c, S, ws, n
    <2>3. at \in Int /\ n \in Nat /\ at + n = frame_pointer
      BY <1>2, <2>1
    <2> HIDE DEF at
    <2>4. c = Write(S, at, ws)
      BY <2>1, <2>2 DEF at
    <2>5. SameFrom(S, Write(S, at, ws), at + Len(ws))
      BY <1>2, <2>1, <2>3, WriteFacts
    <2>6. QED BY <2>1, <2>3, <2>4, <2>5
  <1> HIDE DEF c
  <1>5. FramesOK(blocks', stack_base, frame_base, conts) /\ blocks'[stack_base] = c /\ DOMAIN blocks' = DOMAIN blocks
    <2>1. SameFrom(S, c, frame_base)
      <3> HIDE DEF S
      <3>1. QED BY <1>2, <1>4, SameHigher
    <2>2. FramesOK(blocks, stack_base, frame_base, conts)
      BY DEF InvMemory
    <2>3. blocks' = [blocks EXCEPT ![stack_base] = c]
      BY <1>1 DEF c
    <2> HIDE DEF StackInv
    <2>4. FramesOK([blocks EXCEPT ![stack_base] = c], stack_base, frame_base, conts)
          /\ [blocks EXCEPT ![stack_base] = c][stack_base] = c /\ DOMAIN [blocks EXCEPT ![stack_base] = c] = DOMAIN blocks
      BY <2>1, <2>2, FramesBelow
    <2>5. QED BY <2>3, <2>4
  <1>6. Framed(c, frame_pointer, frame_base - 1)
    <2>1. frame_base - 1 \in Int /\ frame_base - 1 < AreaSize /\ 0 <= frame_pointer
      BY <1>2
    <2> HIDE DEF S
    <2>2. QED BY <1>2, <1>3, <1>4, <2>1, PushValues
  <1>7. InvMemory'
    BY <1>1, <1>5 DEF InvMemory
  <1>8. InvConts'
    BY <1>1 DEF InvConts
  <1>9. InvPointer'
    <2>1. Len(vs) \in 0 .. 2
      BY BelowFacts
    <2>2. frame_pointer \in 2 .. frame_base
      BY <1>2
    <2>3. Framed(blocks'[stack_base'], frame_pointer', frame_base' - 1)
      BY <1>1, <1>5, <1>6
    <2>4. pc' = "reenter" => frame_pointer < frame_base - 1 /\ frame_pointer >= LowBase
      <3>1. pc' = "reenter" => frame_pointer \in LowBase .. frame_base - 2
        BY <1>1, <1>3
      <3>2. LowBase \in Int
        BY Numbers
      <3>3. QED BY <1>2, <3>1, <3>2
    <2>5. pc' = "underflow" => frame_pointer = frame_base - 1
      BY <1>1
    <2>6. QED BY <1>1, <1>3, <2>1, <2>2, <2>3, <2>4, <2>5 DEF InvPointer
  <1>10. InvC'
    BY <1>1 DEF InvC
  <1>11. InvPc'
    BY <1>1 DEF InvPc
  <1>12. QED BY <1>7, <1>8, <1>9, <1>10, <1>11

\* the size of the first frame in a row of words
LEMMA FirstSize ==
  ASSUME NEW b, NEW top, NEW end, Framed(b, top, end), top < end
  PROVE  framesize(Words(b, top, end)) = SizeAt(b, top)
  <1> DEFINE n == end - top
             ws == Words(b, top, end)
             m == SizeAt(b, top)
  <1>1. n \in Nat /\ top \in Int /\ end \in Int /\ n >= 1
    BY DEF Framed
  <1>2. \A i \in 1 .. n : ws[i] = b[top + i - 1]
    BY <1>1 DEF Words
  <1>3. m \in Nat \ {0} /\ top + m <= end /\ (FrameSize[b[top].rp] = 0 => m = Dynamic)
    <2> HIDE DEF m, ws, n
    <2>1. m = SizeAt(b, top)
      BY DEF m
    <2>2. QED BY <2>1, FramedRest
  <1>4. ws[1] = b[top]
    <2>1. 1 \in 1 .. n /\ top + 1 - 1 = top
      BY <1>1
    <2> HIDE DEF ws
    <2>2. QED BY <1>2, <2>1
  <1> HIDE DEF ws
  <1>5. CASE FrameSize[b[top].rp] = 0
    <2>1. 2 \in 1 .. n /\ top + 2 - 1 = top + 1
      BY <1>1, <1>3, <1>5 DEF Dynamic
    <2>2. ws[2] = b[top + 1]
      BY <1>2, <2>1
    <2>3. QED BY <1>4, <1>5, <2>2 DEF framesize, SizeAt, ws
  <1>6. CASE FrameSize[b[top].rp] # 0
    BY <1>4, <1>6 DEF framesize, SizeAt, ws
  <1>7. QED BY <1>5, <1>6

\* a frame put back after underflow goes on as one that was called
LEMMA ResumeKeeps ==
  ASSUME StackInv, Resume
  PROVE  StackInv'
  <1> USE DEF StackInv
  <1> DEFINE S == blocks[stack_base]
             fp == frame_pointer + framesize(Stack)
             c == Clear(S, fp)
  <1>1. /\ pc = "reenter" /\ pc' = "scheme"
        /\ frame_pointer' = fp /\ argc' = 0
        /\ blocks' = [blocks EXCEPT ![stack_base] = c]
        /\ UNCHANGED <<stack_base, frame_base, conts, next_k, cstack, system_stack, slots>>
    BY DEF Resume, c_side
  <1>2. /\ frame_base \in Int /\ frame_base <= AreaSize /\ AreaSize \in Int /\ LowBase \in Int
        /\ frame_pointer \in Int /\ 2 <= frame_pointer /\ frame_pointer <= frame_base
        /\ stack_base \in DOMAIN blocks /\ DOMAIN S = Area
    BY Numbers
  <1>3. /\ frame_pointer < frame_base - 1 /\ Framed(S, frame_pointer, frame_base - 1)
        /\ frame_pointer >= LowBase \/ frame_pointer + SizeAt(S, frame_pointer) = frame_base - 1
    BY <1>1, <1>2 DEF InvPointer
  <1> DEFINE m == SizeAt(S, frame_pointer)
  <1>4. fp = frame_pointer + m
    <2>1. Stack = Words(S, frame_pointer, frame_base - 1)
      BY <1>3 DEF Stack
    <2>2. framesize(Words(S, frame_pointer, frame_base - 1)) = m
      BY <1>3, FirstSize
    <2>3. QED BY <2>1, <2>2
  <1>5. m \in Nat \ {0} /\ frame_pointer + m <= frame_base - 1 /\ Framed(S, frame_pointer + m, frame_base - 1)
    BY <1>3, FramedRest
  <1> HIDE DEF m
  <1>6. fp \in Int /\ 2 <= fp /\ fp <= frame_base - 1 /\ (fp = frame_base - 1 \/ fp \in LowBase .. frame_base - 2)
    <2> HIDE DEF fp
    <2>1. fp = frame_pointer + m
      BY <1>4 DEF fp
    <2>2. QED BY <1>2, <1>3, <1>5, <2>1 DEF m
  <1>7. Framed(S, fp, frame_base - 1)
    BY <1>4, <1>5
  <1> HIDE DEF fp, S
  <1>8. SameFrom(S, c, fp)
    BY <1>2, <1>6, ClearFacts
  <1>9. Framed(c, fp, frame_base - 1)
    <2>1. frame_base - 1 \in Int /\ frame_base - 1 < AreaSize /\ 0 <= fp
      BY <1>2, <1>6
    <2> HIDE DEF c
    <2>2. QED BY <1>2, <1>6, <1>7, <1>8, <2>1, PushValues
  <1> HIDE DEF c
  <1>10. FramesOK(blocks', stack_base, frame_base, conts) /\ blocks'[stack_base] = c
    <2>1. SameFrom(S, c, frame_base)
      <3>1. fp <= frame_base
        BY <1>2, <1>6
      <3>2. QED BY <1>2, <1>6, <1>8, <3>1, SameHigher
    <2>2. FramesOK(blocks, stack_base, frame_base, conts)
      BY DEF InvMemory
    <2>3. SameFrom(blocks[stack_base], c, frame_base)
      BY <2>1 DEF S
    <2>4. FramesOK([blocks EXCEPT ![stack_base] = c], stack_base, frame_base, conts)
          /\ [blocks EXCEPT ![stack_base] = c][stack_base] = c
      BY <2>2, <2>3, FramesBelow
    <2>5. QED BY <1>1, <2>4
  <1>11. InvMemory'
    BY <1>1, <1>10 DEF InvMemory
  <1>12. InvConts'
    BY <1>1 DEF InvConts
  <1>13. InvPointer'
    <2>1. Framed(blocks'[stack_base'], frame_pointer', frame_base' - 1)
      BY <1>1, <1>9, <1>10
    <2>2. frame_pointer' = fp /\ frame_base' = frame_base /\ fp < frame_base /\ fp \in 2 .. frame_base
      BY <1>1, <1>2, <1>6
    <2>3. QED BY <1>1, <1>6, <2>1, <2>2 DEF InvPointer
  <1>14. InvC'
    BY <1>1 DEF InvC
  <1>15. InvPc'
    BY <1>1 DEF InvPc
  <1>16. QED BY <1>11, <1>12, <1>13, <1>14, <1>15

\* what Refer leaves
LEMMA AfterRefer ==
  ASSUME NEW bs, NEW a, NEW fb, NEW cs, NEW nk, NEW ss, FramesOK(bs, a, fb, cs), ContsOK(cs, nk, ss),
         Refer(bs, a, cs, nk, ss)
  PROVE  /\ FramesOK(blocks', a, fb, conts') /\ ContsOK(conts', next_k', slots')
         /\ blocks'[a] = bs[a] /\ next_k' = nk
         /\ \A cst : CShape(cst) /\ Matched(cs, cst, nk) => Matched(conts', cst, nk)
  <1>1. /\ next_k' = nk /\ slots' = ss /\ conts' = Reachable(cs, nk, ss)
        /\ blocks' = Restrict(bs, UsedBlocks(conts', a))
    BY DEF Refer
  <1> DEFINE ds == conts'
             cb == blocks'
  <1> HIDE DEF ds, cb
  <1>2. ds = Reachable(cs, nk, ss) /\ cb = Restrict(bs, UsedBlocks(ds, a))
    BY <1>1 DEF ds, cb
  <1>3. /\ FramesOK(cb, a, fb, ds) /\ ContsOK(ds, nk, ss) /\ cb[a] = bs[a]
        /\ \A cst : CShape(cst) /\ Matched(cs, cst, nk) => Matched(ds, cst, nk)
    BY <1>2, ReferFacts
  <1>4. QED BY <1>1, <1>3 DEF ds, cb

\* one more continuation, of frames or of a C function
LEMMA ContsMore ==
  ASSUME NEW cs, NEW nk, NEW ss, ContsOK(cs, nk, ss), NEW k \in Ids, k \notin DOMAIN cs,
         NEW x, x.next \in DOMAIN cs \cup {0},
         \/ x \in [tag : {"k"}, block : Block, top : Int, size : Nat \ {0}, next : Int]
         \/ x \in [tag : {"system"}, top : Int, next : Int]
  PROVE  /\ ContsOK(Also(cs, k, x), k, ss)
         /\ SameFirst(cs, Also(cs, k, x)) /\ SystemsKept(cs, Also(cs, k, x))
         /\ x.tag = "system" => FirstOf(Also(cs, k, x), k) = k
         /\ x.tag = "k" => FirstOf(Also(cs, k, x), k) = FirstOf(cs, x.next)
  <1> DEFINE ds == Also(cs, k, x)
  <1>1. /\ WellLinked(cs) /\ Records(cs)
        /\ ss \in [Slot -> DOMAIN cs \cup {0, -1}]
    BY DEF ContsOK
  <1>2. /\ WellLinked(ds) /\ SameFirst(cs, ds) /\ SystemsKept(cs, ds)
        /\ DOMAIN ds = DOMAIN cs \cup {k} /\ ds[k] = x
        /\ \A j \in DOMAIN cs : ds[j] = cs[j]
    <2>1. WellLinked(ds) /\ SameFirst(cs, ds) /\ SystemsKept(cs, ds)
      BY <1>1, LinkedMore
    <2>2. DOMAIN ds = DOMAIN cs \cup {k} /\ ds[k] = x /\ \A j \in DOMAIN cs : ds[j] = cs[j]
      BY DEF Also
    <2>3. QED BY <2>1, <2>2
  <1> HIDE DEF ds
  <1>3. Records(ds)
    <2>1. ASSUME NEW j \in DOMAIN ds
          PROVE  \/ ds[j] \in [tag : {"k"}, block : Block, top : Int, size : Nat \ {0}, next : Int]
                 \/ ds[j] \in [tag : {"system"}, top : Int, next : Int]
      <3>1. CASE j = k
        BY <1>2, <3>1
      <3>2. CASE j # k
        <4>1. j \in DOMAIN cs /\ ds[j] = cs[j]
          BY <1>2, <3>2
        <4>2. QED BY <1>1, <4>1 DEF Records
      <3>3. QED BY <3>1, <3>2
    <2>2. QED BY <2>1 DEF Records
  <1>4. ss \in [Slot -> DOMAIN ds \cup {0, -1}]
    BY <1>1, <1>2
  <1>5. FirstOf(ds, k) = IF x.tag = "system" THEN k ELSE FirstOf(cs, x.next)
    <2>1. k # 0 /\ k \in DOMAIN ds \cup {0}
      BY <1>2, StackAssumption
    <2>2. FirstOf(ds, k) = IF k = 0 \/ ds[k].tag = "system" THEN k ELSE FirstOf(ds, ds[k].next)
      BY <1>2, <2>1, FirstLaws
    <2>3. FirstOf(ds, x.next) = FirstOf(cs, x.next)
      BY <1>2 DEF SameFirst
    <2>4. QED BY <1>2, <2>1, <2>2, <2>3
  <1>6. ContsOK(ds, k, ss)
    BY <1>2, <1>3, <1>4 DEF ContsOK
  <1>8. /\ x.tag = "system" => FirstOf(ds, k) = k
        /\ x.tag = "k" => FirstOf(ds, k) = FirstOf(cs, x.next)
    BY <1>5
  <1>7. QED BY <1>2, <1>6, <1>8 DEF ds

\* the next of a continuation is a number
LEMMA NextInt ==
  ASSUME NEW cs, WellLinked(cs), NEW nk \in DOMAIN cs \cup {0}
  PROVE  nk \in Int
  <1>1. nk = 0 \/ nk \in Ids
    BY DEF WellLinked
  <1>2. Ids \subseteq Nat \ {0}
    BY StackAssumption
  <1>3. CASE nk = 0
    BY <1>3
  <1>4. CASE nk \in Ids
    BY <1>2, <1>4
  <1>5. QED BY <1>1, <1>3, <1>4

\* a sealed continuation is one
LEMMA SealedRecord ==
  ASSUME NEW nk \in Int,
         NEW b \in Block, NEW top \in Int, NEW size \in Nat \ {0},
         NEW x, x = [tag |-> "k", block |-> b, top |-> top, size |-> size, next |-> nk]
  PROVE  /\ x.next = nk /\ x.tag = "k"
         /\ x \in [tag : {"k"}, block : Block, top : Int, size : Nat \ {0}, next : Int]
  <1>1. nk \in Int
    OBVIOUS
  <1>2. x.next = nk /\ x.tag = "k"
    OBVIOUS
  <1>3. [tag |-> "k", block |-> b, top |-> top, size |-> size, next |-> nk]
          \in [tag : {"k"}, block : Block, top : Int, size : Nat \ {0}, next : Int]
    BY <1>1
  <1>4. QED BY <1>2, <1>3

\* the handler below a base
LEMMA HandlerFacts ==
  ASSUME NEW b, DOMAIN b = Area, NEW fp \in Int
  PROVE  SameFrom(b, Handler(b, fp), fp) /\ DOMAIN Handler(b, fp) = Area
  <1> DEFINE ws == <<UnderflowHandler>>
             at == fp - 1
  <1>1. Len(ws) = 1 /\ Len(ws) \in Nat /\ at \in Int /\ at + 1 = fp
    OBVIOUS
  <1> HIDE DEF ws, at
  <1>2. SameFrom(b, Write(b, at, ws), at + Len(ws)) /\ DOMAIN Write(b, at, ws) = Area
    BY <1>1, WriteFacts
  <1>3. Handler(b, fp) = Write(b, at, ws)
    BY DEF Handler, ws, at
  <1>4. QED BY <1>1, <1>2, <1>3

\* frame_base moves down: what follows of it for the memory, before any is dropped
LEMMA Sealing ==
  ASSUME NEW bs, NEW a, NEW fb, NEW cs, FramesOK(bs, a, fb, cs),
         NEW fp \in LowBase .. fb - 2, NEW c, SameFrom(bs[a], c, fb), Framed(c, fp, fb - 1),
         NEW k, k \notin DOMAIN cs, NEW x, x.block = a, x.top = fp, x.size = fb - 1 - fp
  PROVE  FramesOK([bs EXCEPT ![a] = Handler(c, fp)], a, fp, Also(cs, k, x))
  <1> DEFINE b1 == [bs EXCEPT ![a] = c]
             ds == Also(cs, k, x)
             h == Handler(c, fp)
  <1>1. FramesOK(b1, a, fb, cs) /\ b1[a] = c /\ DOMAIN b1 = DOMAIN bs
    <2>1. FramesOK([bs EXCEPT ![a] = c], a, fb, cs)
      BY FramesBelow
    <2>2. a \in DOMAIN bs
      BY DEF FramesOK
    <2>3. QED BY <2>1, <2>2
  <1> HIDE DEF b1, ds
  <1>2. FramesOK(b1, a, fp, ds)
    <2>1. Framed(b1[a], fp, fb - 1)
      BY <1>1
    <2>2. QED BY <1>1, <2>1, FramesSealed DEF ds
  <1>3. SameFrom(b1[a], h, fp)
    <2>1. fp \in Int /\ DOMAIN c = Area
      BY Bounds DEF SameFrom, FramesOK
    <2>2. QED BY <1>1, <2>1, HandlerFacts
  <1> HIDE DEF h
  <1>4. FramesOK([b1 EXCEPT ![a] = h], a, fp, ds)
    BY <1>2, <1>3, FramesBelow
  <1>5. [b1 EXCEPT ![a] = h] = [bs EXCEPT ![a] = h]
    BY DEF b1
  <1>6. QED BY <1>4, <1>5 DEF ds, h

\* call/cc seals the frames below the base: no frame has moved
LEMMA CaptureKeeps ==
  ASSUME StackInv, Capture
  PROVE  StackInv'
  <1> DEFINE S == blocks[stack_base]
  <1>1. PICK s \in Slot :
          /\ pc = "scheme" /\ Room(MaxFrames + 2)
          /\ IF frame_pointer = frame_base - 1
             THEN /\ Refer(blocks, stack_base, conts, next_k, [slots EXCEPT ![s] = next_k])
                  /\ UNCHANGED <<frame_base, frame_pointer>>
             ELSE /\ LET k == Free(DOMAIN conts)
                         size == frame_base - 1 - frame_pointer
                     IN  Refer([blocks EXCEPT ![stack_base] = Handler(@, frame_pointer)], stack_base,
                               Also(conts, k, Sealed(frame_pointer, size, next_k)), k,
                               [slots EXCEPT ![s] = k])
                  /\ frame_base' = frame_pointer
                  /\ frame_pointer' = frame_pointer - 1
          /\ UNCHANGED <<stack_base, cstack, system_stack, argc, pc>>
    BY DEF Capture, c_side
  <1>2. /\ frame_base \in Int /\ frame_base <= AreaSize /\ AreaSize \in Int /\ LowBase \in Int
        /\ LowBase - Longest >= 3 /\ Longest >= 3 /\ Longest \in Int
        /\ frame_pointer \in Int /\ 2 <= frame_pointer /\ frame_pointer <= frame_base
        /\ stack_base \in DOMAIN blocks /\ DOMAIN S = Area
    BY Numbers
  <1>3. frame_pointer < frame_base /\ Framed(S, frame_pointer, frame_base - 1)
        /\ (frame_pointer = frame_base - 1 \/ frame_pointer \in LowBase .. frame_base - 2)
    BY <1>1 DEF InvPointer, StackInv
  <1>4. FramesOK(blocks, stack_base, frame_base, conts) /\ ContsOK(conts, next_k, slots)
    BY DEF StackInv, InvMemory, InvConts
  <1>5. WellLinked(conts) /\ next_k \in DOMAIN conts \cup {0} /\ slots \in [Slot -> DOMAIN conts \cup {0, -1}]
    BY <1>4 DEF ContsOK
  <1>13. next_k \in Int
    BY <1>5, NextInt
  <1>6. CShape(cstack) /\ Matched(conts, cstack, next_k)
    BY <1>1 DEF StackInv, InvC
  <1>7. InvPc'
    BY <1>1 DEF InvPc
  <1>8. argc' \in 0 .. 2
    BY <1>1 DEF StackInv, InvPointer
  <1>9. ASSUME Matched(conts', cstack, next_k') PROVE InvC'
    <2>1. cstack' = cstack /\ system_stack' = system_stack /\ pc' = "scheme" /\ pc = "scheme"
      BY <1>1
    <2>2. InvC
      BY DEF StackInv
    <2>3. QED BY <1>9, <2>1, <2>2 DEF InvC
  <1>10. CASE frame_pointer = frame_base - 1
    <2> DEFINE ss == [slots EXCEPT ![s] = next_k]
    <2>1. ContsOK(conts, next_k, ss)
      BY <1>4, <1>5 DEF ContsOK
    <2>2. Refer(blocks, stack_base, conts, next_k, ss) /\ UNCHANGED <<frame_base, frame_pointer>>
      BY <1>1, <1>10
    <2> HIDE DEF ss
    <2>3. /\ FramesOK(blocks', stack_base, frame_base, conts') /\ ContsOK(conts', next_k', slots')
          /\ blocks'[stack_base] = blocks[stack_base] /\ next_k' = next_k
          /\ Matched(conts', cstack, next_k)
      BY <1>4, <1>6, <2>1, <2>2, AfterRefer
    <2>4. InvMemory' /\ InvConts'
      BY <1>1, <2>2, <2>3 DEF InvMemory, InvConts
    <2>5. InvC'
      BY <1>9, <2>3
    <2>6. InvPointer'
      <3>1. /\ frame_base' = frame_base /\ frame_pointer' = frame_pointer /\ blocks'[stack_base'] = S
            /\ pc' = "scheme" /\ frame_pointer \in 2 .. frame_base
        BY <1>1, <1>2, <2>2, <2>3
      <3> HIDE DEF S
      <3>2. QED BY <1>3, <1>8, <1>10, <3>1 DEF InvPointer
    <2>7. QED BY <1>7, <2>4, <2>5, <2>6 DEF StackInv
  <1>11. CASE frame_pointer # frame_base - 1
    <2> DEFINE k == Free(DOMAIN conts)
               size == frame_base - 1 - frame_pointer
               x == Sealed(frame_pointer, size, next_k)
               cs == Also(conts, k, x)
               ss == [slots EXCEPT ![s] = k]
               bs == [blocks EXCEPT ![stack_base] = Handler(S, frame_pointer)]
    <2>1. Refer(bs, stack_base, cs, k, ss) /\ frame_base' = frame_pointer /\ frame_pointer' = frame_pointer - 1
      BY <1>1, <1>11
    <2>2. k \in Ids /\ k \notin DOMAIN conts
      <3>1. DOMAIN conts \subseteq Ids
        BY <1>5 DEF WellLinked
      <3>2. MaxFrames + 2 \in Nat \ {0}
        BY StackAssumption
      <3>3. Cardinality(DOMAIN conts) + (MaxFrames + 2) <= Cardinality(Ids)
        BY <1>1 DEF Room
      <3> HIDE DEF k
      <3> DEFINE n == MaxFrames + 2
      <3> HIDE DEF n
      <3>4. Free(DOMAIN conts) \in Ids /\ Free(DOMAIN conts) \notin DOMAIN conts
        BY <3>1, <3>2, <3>3, FreeId DEF n
      <3>5. QED BY <3>4 DEF k
    <2>3. frame_pointer \in LowBase .. frame_base - 2 /\ size \in Nat \ {0}
      BY <1>2, <1>3, <1>11
    <2>4. x = [tag |-> "k", block |-> stack_base, top |-> frame_pointer, size |-> size, next |-> next_k]
      BY DEF Sealed, SealedSize
    <2>5. stack_base \in Block
      BY <1>4 DEF FramesOK, Block
    <2> HIDE DEF k, size, x
    <2>6. /\ ContsOK(cs, k, slots)
          /\ SameFirst(conts, cs) /\ SystemsKept(conts, cs)
          /\ DOMAIN cs = DOMAIN conts \cup {k}
          /\ FirstOf(cs, k) = FirstOf(conts, next_k)
      <3>1. /\ x.next = next_k /\ x.tag = "k"
            /\ x \in [tag : {"k"}, block : Block, top : Int, size : Nat \ {0}, next : Int]
        BY <1>2, <1>13, <2>3, <2>4, <2>5, SealedRecord
      <3>2. x.next \in DOMAIN conts \cup {0}
        BY <1>5, <3>1
      <3>3. ContsOK(cs, k, slots)
        BY <1>4, <2>2, <3>1, <3>2, ContsMore
      <3>4. SameFirst(conts, cs) /\ SystemsKept(conts, cs)
        BY <1>4, <2>2, <3>1, <3>2, ContsMore
      <3>5. DOMAIN cs = DOMAIN conts \cup {k}
        BY DEF Also
      <3>6. FirstOf(cs, k) = FirstOf(conts, x.next)
        BY <1>4, <2>2, <3>1, <3>2, ContsMore
      <3>7. QED BY <3>1, <3>3, <3>4, <3>5, <3>6
    <2>7. FramesOK(bs, stack_base, frame_pointer, cs)
      <3>1. x.block = stack_base /\ x.top = frame_pointer /\ x.size = frame_base - 1 - frame_pointer
        BY <2>4 DEF size
      <3>2. SameFrom(S, S, frame_base)
        BY <1>2 DEF SameFrom
      <3>3. QED BY <1>3, <1>4, <2>2, <2>3, <3>1, <3>2, Sealing
    <2> HIDE DEF cs, bs
    <2>8. ContsOK(cs, k, ss)
      <3>1. slots \in [Slot -> DOMAIN cs \cup {0, -1}] /\ k \in DOMAIN cs
        BY <2>6 DEF ContsOK
      <3>2. ss \in [Slot -> DOMAIN cs \cup {0, -1}]
        BY <3>1
      <3>3. QED BY <2>6, <3>2 DEF ContsOK
    <2> HIDE DEF ss
    <2>9. Matched(cs, cstack, k)
      BY <1>5, <1>6, <2>6, MatchedKept
    <2>10. /\ FramesOK(blocks', stack_base, frame_pointer, conts') /\ ContsOK(conts', next_k', slots')
           /\ next_k' = k
           /\ Matched(conts', cstack, k)
      BY <1>6, <2>1, <2>7, <2>8, <2>9, AfterRefer
    <2>11. InvMemory' /\ InvConts'
      BY <1>1, <2>1, <2>10 DEF InvMemory, InvConts
    <2>12. InvC'
      BY <1>9, <2>10
    <2>13. InvPointer'
      <3>1. /\ frame_pointer' = frame_base' - 1 /\ frame_base' \in Int /\ frame_pointer' \in 2 .. frame_base'
            /\ pc' = "scheme" /\ frame_pointer' \in Int /\ frame_pointer' < frame_base'
        BY <1>1, <1>2, <2>1, <2>3
      <3>2. Framed(blocks'[stack_base'], frame_pointer', frame_base' - 1)
        BY <3>1, FramedNone
      <3>3. QED BY <1>8, <3>1, <3>2 DEF InvPointer
    <2>14. QED BY <1>7, <2>11, <2>12, <2>13 DEF StackInv
  <1>12. QED BY <1>10, <1>11

\* what a step that drops continuations leaves of the invariant
LEMMA Referred ==
  ASSUME NEW bs, NEW a, NEW fb, NEW cs, NEW nk, NEW ss, FramesOK(bs, a, fb, cs), ContsOK(cs, nk, ss),
         Refer(bs, a, cs, nk, ss), stack_base' = a, frame_base' = fb,
         NEW cst, CShape(cst), Matched(cs, cst, nk), cstack' = cst
  PROVE  /\ InvMemory' /\ InvConts' /\ CShape(cstack') /\ Matched(conts', cstack', next_k')
         /\ blocks'[a] = bs[a] /\ next_k' = nk
  <1>1. /\ FramesOK(blocks', a, fb, conts') /\ ContsOK(conts', next_k', slots')
        /\ blocks'[a] = bs[a] /\ next_k' = nk
        /\ Matched(conts', cst, nk)
    BY AfterRefer
  <1>2. InvMemory' /\ InvConts'
    BY <1>1 DEF InvMemory, InvConts
  <1>3. QED BY <1>1, <1>2

\* what is the same from a word on, twice over, is the same
LEMMA SameThen ==
  ASSUME NEW b, NEW c, NEW d, NEW at, SameFrom(b, c, at), SameFrom(c, d, at)
  PROVE  SameFrom(b, d, at)
  BY DEF SameFrom

\* the values of a return into the handler
LEMMA ValuesFacts ==
  ASSUME NEW b, DOMAIN b = Area, NEW vs \in Results, NEW at \in Int
  PROVE  SameFrom(b, Write(b, at - Len(vs), Below(vs)), at)
  <1> DEFINE ws == Below(vs)
             n == Len(vs)
             to == at - n
  <1>1. Len(ws) = n /\ n \in 0 .. 2
    BY BelowFacts
  <1> HIDE DEF ws, n
  <1>2. to \in Int /\ n \in Nat /\ to + n = at
    BY <1>1
  <1> HIDE DEF to
  <1>3. SameFrom(b, Write(b, to, ws), to + Len(ws))
    BY <1>1, <1>2, WriteFacts
  <1>4. SameFrom(b, Write(b, to, ws), at)
    BY <1>1, <1>2, <1>3
  <1>5. QED BY <1>4 DEF ws, n, to

\* a throw drops the frames of the stack and leads to another chain
LEMMA ThrowKeeps ==
  ASSUME StackInv, Throw
  PROVE  StackInv'
  <1> DEFINE S == blocks[stack_base]
             C == Clear(S, frame_base - 1)
  <1>1. PICK s \in Slot, vs \in Results :
          /\ pc = "scheme" /\ slots[s] # -1
          /\ IF FirstSystem(slots[s]) = FirstSystem(next_k)
             THEN /\ pc' = "underflow" /\ argc' = Len(vs) /\ frame_pointer' = frame_base - 1
                  /\ Refer([blocks EXCEPT ![stack_base] =
                               Write(C, frame_base - 1 - Len(vs), Below(vs))],
                           stack_base, conts, slots[s], slots)
             ELSE pc' = "across" /\ UNCHANGED <<argc, frame_pointer, blocks, conts, next_k, slots>>
          /\ UNCHANGED <<stack_base, frame_base, cstack, system_stack>>
    BY DEF Throw, c_side
  <1>2. /\ frame_base \in Int /\ frame_base <= AreaSize /\ AreaSize \in Int /\ frame_base >= 6
        /\ frame_pointer \in Int /\ 2 <= frame_pointer /\ frame_pointer <= frame_base
        /\ stack_base \in DOMAIN blocks /\ DOMAIN S = Area
    BY Numbers
  <1>3. FramesOK(blocks, stack_base, frame_base, conts) /\ ContsOK(conts, next_k, slots)
    BY DEF StackInv, InvMemory, InvConts
  <1>4. WellLinked(conts) /\ next_k \in DOMAIN conts \cup {0} /\ slots \in [Slot -> DOMAIN conts \cup {0, -1}]
    BY <1>3 DEF ContsOK
  <1>5. CShape(cstack) /\ Matched(conts, cstack, next_k)
    BY <1>1 DEF StackInv, InvC
  <1>6. system_stack = Len(cstack) /\ cstack[system_stack].in = "ik_exec_code"
        /\ system_stack \in 1 .. Len(cstack) + 1
    BY <1>1 DEF StackInv, InvC
  <1>7. CASE FirstSystem(slots[s]) = FirstSystem(next_k)
    <2> DEFINE c == Write(C, frame_base - 1 - Len(vs), Below(vs))
               k == slots[s]
    <2>1. /\ pc' = "underflow" /\ argc' = Len(vs) /\ frame_pointer' = frame_base - 1
          /\ Refer([blocks EXCEPT ![stack_base] = c], stack_base, conts, k, slots)
      BY <1>1, <1>7
    <2>2. k \in DOMAIN conts \cup {0}
      BY <1>1, <1>4
    <2>3. FirstOf(conts, k) = FirstOf(conts, next_k)
      BY <1>7, Zenon DEF FirstSystem, FirstOf
    <2> HIDE DEF k
    <2>4. Matched(conts, cstack, k)
      <3>1. SystemsKept(conts, conts) /\ SameFirst(conts, conts)
        BY DEF SystemsKept, SameFirst
      <3>2. QED BY <1>4, <1>5, <2>3, <3>1, MatchedKept
    <2>5. SameFrom(S, c, frame_base)
      <3> DEFINE at == frame_base - 1
      <3>1. at \in Int /\ at <= frame_base
        BY <1>2
      <3> HIDE DEF at, S
      <3>2. SameFrom(S, Clear(S, at), at) /\ DOMAIN Clear(S, at) = Area
        BY <1>2, <3>1, ClearFacts
      <3> DEFINE D == Clear(S, at)
      <3> HIDE DEF D
      <3>3. SameFrom(D, Write(D, at - Len(vs), Below(vs)), at)
        BY <3>1, <3>2, ValuesFacts DEF D
      <3>4. SameFrom(S, Write(D, at - Len(vs), Below(vs)), at)
        BY <3>2, <3>3, SameThen DEF D
      <3>5. SameFrom(S, Write(D, at - Len(vs), Below(vs)), frame_base)
        BY <1>2, <3>1, <3>4, SameHigher
      <3>6. QED BY <3>5 DEF at, D
    <2> HIDE DEF c
    <2>6. FramesOK([blocks EXCEPT ![stack_base] = c], stack_base, frame_base, conts)
      BY <1>3, <2>5, FramesBelow
    <2>7. ContsOK(conts, k, slots)
      BY <1>3, <2>2 DEF ContsOK
    <2>8. InvMemory' /\ InvConts' /\ CShape(cstack') /\ Matched(conts', cstack', next_k')
      BY <1>1, <1>5, <2>1, <2>4, <2>6, <2>7, Referred
    <2>9. InvC'
      BY <1>1, <1>6, <2>1, <2>8 DEF InvC
    <2>10. InvPointer'
      <3>1. /\ frame_pointer' = frame_base' - 1 /\ frame_base' \in Int /\ frame_pointer' \in 2 .. frame_base'
            /\ frame_pointer' \in Int /\ frame_pointer' < frame_base'
        BY <1>1, <1>2, <2>1
      <3>2. Framed(blocks'[stack_base'], frame_pointer', frame_base' - 1)
        BY <3>1, FramedNone
      <3>3. argc' \in 0 .. 2
        BY <2>1, BelowFacts
      <3>4. QED BY <2>1, <3>1, <3>2, <3>3 DEF InvPointer
    <2>11. InvPc'
      BY <2>1 DEF InvPc
    <2>12. QED BY <2>8, <2>9, <2>10, <2>11 DEF StackInv
  <1>8. CASE FirstSystem(slots[s]) # FirstSystem(next_k)
    <2>1. /\ pc' = "across"
          /\ UNCHANGED <<argc, frame_pointer, blocks, conts, next_k, slots, stack_base, frame_base, cstack, system_stack>>
      BY <1>1, <1>8
    <2>2. InvMemory' /\ InvConts'
      BY <2>1 DEF StackInv, InvMemory, InvConts
    <2>3. InvPointer'
      BY <1>1, <2>1 DEF StackInv, InvPointer
    <2>4. InvC'
      BY <2>1 DEF StackInv, InvC
    <2>5. InvPc'
      BY <2>1 DEF InvPc
    <2>6. QED BY <2>2, <2>3, <2>4, <2>5 DEF StackInv
  <1>9. QED BY <1>7, <1>8

\* a new area; the frames of the old one are those of a continuation
LEMMA FramesElsewhere ==
  ASSUME NEW bs, NEW a, NEW fb, NEW cs, FramesOK(bs, a, fb, cs),
         NEW fp, fp < fb - 1, Framed(bs[a], fp, fb - 1),
         NEW n \in Areas, <<"area", n>> \notin DOMAIN bs, NEW new, DOMAIN new = Area,
         NEW k, NEW x, x.block = a, x.top = fp, x.size = fb - fp - 1
  PROVE  FramesOK(Also(bs, <<"area", n>>, new), <<"area", n>>, AreaSize, Also(cs, k, x))
  <1> DEFINE na == <<"area", n>>
             cb == Also(bs, na, new)
             ds == Also(cs, k, x)
  <1>1. /\ \A b \in DOMAIN bs : b \in DOMAIN cb /\ b # na /\ cb[b] = bs[b]
        /\ na \in DOMAIN cb /\ cb[na] = new
    BY DEF Also
  <1>2. na \in {<<"area", m>> : m \in Areas}
    OBVIOUS
  <1> HIDE DEF na, cb
  <1>3. \A i \in DOMAIN ds : ds[i] = IF i = k THEN x ELSE cs[i]
    BY DEF Also
  <1>4. \A i \in DOMAIN ds : i = k \/ i \in DOMAIN cs
    BY DEF Also
  <1> HIDE DEF ds
  <1>5. AreaSize \in LowBase .. AreaSize
    BY Bounds
  <1>6. ASSUME NEW y, y.block \in DOMAIN bs, Framed(bs[y.block], y.top, y.top + y.size)
        PROVE  FramesOf(cb, na, AreaSize, y)
    <2>1. y.block \in DOMAIN cb /\ y.block # na /\ cb[y.block] = bs[y.block]
      BY <1>1, <1>6
    <2>2. QED BY <1>6, <2>1 DEF FramesOf
  <1>7. ASSUME NEW i \in DOMAIN ds, ds[i].tag = "k" PROVE FramesOf(cb, na, AreaSize, ds[i])
    <2>1. CASE i = k
      <3>1. a \in DOMAIN bs /\ fb \in Int /\ fp \in Int
        BY Bounds DEF FramesOK, Framed
      <3>2. fp + (fb - fp - 1) = fb - 1
        BY <3>1
      <3>3. x.block \in DOMAIN bs /\ Framed(bs[x.block], x.top, x.top + x.size)
        BY <3>1, <3>2
      <3>4. QED BY <1>3, <1>6, <2>1, <3>3
    <2>2. CASE i # k
      <3>1. i \in DOMAIN cs /\ ds[i] = cs[i]
        BY <1>3, <1>4, <2>2
      <3>2. FramesOf(bs, a, fb, cs[i])
        BY <1>7, <3>1 DEF FramesOK
      <3>3. cs[i].block \in DOMAIN bs /\ Framed(bs[cs[i].block], cs[i].top, cs[i].top + cs[i].size)
        BY <3>2 DEF FramesOf
      <3>4. QED BY <1>6, <3>1, <3>3
    <2>3. QED BY <2>1, <2>2
  <1>8. FramesOK(cb, na, AreaSize, ds)
    BY <1>1, <1>2, <1>5, <1>7 DEF FramesOK
  <1>9. QED BY <1>8 DEF cb, ds, na

\* an overflow seals the full area and goes on in a new one with one frame
LEMMA StackOverflowKeeps ==
  ASSUME StackInv, StackOverflow
  PROVE  StackInv'
  <1> DEFINE S == blocks[stack_base]
             k == Free(DOMAIN conts)
             a == CHOOSE b \in FreeAreas : TRUE
             new == [i \in 0 .. AreaSize - 1 |->
                      CASE i = AreaSize - 1 -> UnderflowHandler
                        [] i = AreaSize - 2 -> Below(CHOOSE vs \in Results : Len(vs) = 1)[1]
                        [] OTHER -> Junk]
             size == frame_base - frame_pointer - 1
             x == Sealed(frame_pointer, size, next_k)
             bs == Also(blocks, a, new)
             cs == Also(conts, k, x)
  <1>1. /\ pc = "overflow" /\ Room(1)
        /\ Refer(bs, a, cs, k, slots)
        /\ stack_base' = a /\ frame_base' = AreaSize /\ frame_pointer' = AreaSize - 1
        /\ argc' = 1 /\ pc' = "underflow" /\ UNCHANGED <<cstack, system_stack>>
    BY DEF StackOverflow, c_side
  <1>2. /\ frame_base \in Int /\ frame_base <= AreaSize /\ AreaSize \in Int /\ AreaSize >= 9
        /\ frame_pointer \in Int /\ 2 <= frame_pointer /\ frame_pointer <= frame_base
        /\ stack_base \in DOMAIN blocks
    BY Numbers, AreaLarge
  <1>3. frame_pointer < frame_base - 1 /\ Framed(S, frame_pointer, frame_base - 1) /\ FreeAreas # {}
    BY <1>1, <1>2 DEF StackInv, InvPointer
  <1>4. FramesOK(blocks, stack_base, frame_base, conts) /\ ContsOK(conts, next_k, slots)
    BY DEF StackInv, InvMemory, InvConts
  <1>5. WellLinked(conts) /\ next_k \in DOMAIN conts \cup {0}
    BY <1>4 DEF ContsOK
  <1>6. CShape(cstack) /\ Matched(conts, cstack, next_k)
    BY <1>1 DEF StackInv, InvC
  <1>7. system_stack = Len(cstack) /\ cstack[system_stack].in = "ik_exec_code"
        /\ system_stack \in 1 .. Len(cstack) + 1
    BY <1>1 DEF StackInv, InvC
  <1>8. PICK n \in Areas : a = <<"area", n>> /\ a \notin DOMAIN blocks
    <2>1. a \in FreeAreas
      BY <1>3
    <2>2. QED BY <2>1 DEF FreeAreas
  <1>9. DOMAIN new = Area
    BY DEF Area
  <1> HIDE DEF a, new
  <1>10. k \in Ids /\ k \notin DOMAIN conts
    <2>1. DOMAIN conts \subseteq Ids
      BY <1>5 DEF WellLinked
    <2>2. Cardinality(DOMAIN conts) + 1 <= Cardinality(Ids) /\ 1 \in Nat \ {0}
      BY <1>1 DEF Room
    <2>3. Free(DOMAIN conts) \in Ids /\ Free(DOMAIN conts) \notin DOMAIN conts
      BY <2>1, <2>2, FreeId
    <2>4. QED BY <2>3
  <1>11. x = [tag |-> "k", block |-> stack_base, top |-> frame_pointer, size |-> size, next |-> next_k]
    BY DEF Sealed, SealedSize
  <1>12. stack_base \in Block /\ size \in Nat \ {0} /\ next_k \in Int
    BY <1>2, <1>3, <1>4, <1>5, NextInt DEF FramesOK, Block
  <1>13. x.block = stack_base /\ x.top = frame_pointer /\ x.size = frame_base - frame_pointer - 1
    BY <1>11
  <1> HIDE DEF k, size, x
  <1>14. /\ x.next = next_k /\ x.tag = "k"
         /\ x \in [tag : {"k"}, block : Block, top : Int, size : Nat \ {0}, next : Int]
    BY <1>2, <1>11, <1>12, SealedRecord
  <1>15. FramesOK(bs, a, AreaSize, cs)
    BY <1>3, <1>4, <1>8, <1>9, <1>13, FramesElsewhere
  <1>16. x.next \in DOMAIN conts \cup {0}
    BY <1>5, <1>14
  <1>17. ContsOK(cs, k, slots) /\ SystemsKept(conts, cs) /\ SameFirst(conts, cs)
    BY <1>4, <1>10, <1>14, <1>16, ContsMore
  <1>18. FirstOf(cs, k) = FirstOf(conts, next_k)
    BY <1>4, <1>10, <1>14, <1>16, ContsMore
  <1> HIDE DEF cs, bs
  <1>19. Matched(cs, cstack, k)
    BY <1>5, <1>6, <1>17, <1>18, MatchedKept
  <1>20. InvMemory' /\ InvConts' /\ CShape(cstack') /\ Matched(conts', cstack', next_k')
    BY <1>1, <1>6, <1>15, <1>17, <1>19, Referred
  <1>21. InvC'
    BY <1>1, <1>7, <1>20 DEF InvC
  <1>22. InvPointer'
    <2>1. /\ frame_pointer' = frame_base' - 1 /\ frame_base' \in Int /\ frame_pointer' \in 2 .. frame_base'
          /\ frame_pointer' \in Int /\ frame_pointer' < frame_base'
      BY <1>1, <1>2
    <2>2. Framed(blocks'[stack_base'], frame_pointer', frame_base' - 1)
      BY <2>1, FramedNone
    <2>3. argc' \in 0 .. 2
      BY <1>1
    <2>4. QED BY <1>1, <2>1, <2>2, <2>3 DEF InvPointer
  <1>23. InvPc'
    BY <1>1 DEF InvPc
  <1>24. QED BY <1>20, <1>21, <1>22, <1>23 DEF StackInv

-----------------------------------------------------------------------------
(* ik_exec_code *)

\* the end of the program, its last frame gone
LEMMA FinishKeeps ==
  ASSUME StackInv, Finish
  PROVE  StackInv'
  <1>1. /\ pc = "underflow" /\ pc' = "done"
        /\ UNCHANGED <<blocks, stack_base, frame_base, frame_pointer, conts, next_k, cstack, system_stack, slots, argc>>
    BY DEF Finish, memory, c_side
  <1>2. InvMemory' /\ InvConts'
    BY <1>1 DEF StackInv, InvMemory, InvConts
  <1>3. InvPointer'
    BY <1>1 DEF StackInv, InvPointer
  <1>4. InvC'
    BY <1>1 DEF StackInv, InvC
  <1>5. InvPc'
    BY <1>1 DEF InvPc
  <1>6. QED BY <1>2, <1>3, <1>4, <1>5 DEF StackInv

\* below a callback there is the call of a C function, and that of the first
\* system continuation
LEMMA CallBelow ==
  ASSUME NEW cs, NEW cst, CShape(cst), NEW nk, Matched(cs, cst, nk),
         cst[Len(cst)].in = "ik_exec_code", FirstOf(cs, nk) # 0
  PROVE  /\ Len(cst) >= 2
         /\ cst[Len(cst) - 1].in = "C" /\ cst[Len(cst) - 1].k = FirstOf(cs, nk)
         /\ CallerOf(cst, Len(cst)) = FirstOf(cs, nk)
  <1> DEFINE n == Len(cst)
             f == FirstOf(cs, nk)
  <1>1. n \in Nat \ {0} /\ CallsOf(cst) \subseteq 2 .. n
        /\ \A i \in 1 .. n : cst[i].in \in {"ik_exec_code", "C"}
    BY ShapeFacts
  <1>2. f = CallerOf(cst, n + 1)
    BY DEF Matched
  <1>3. CallerOf(cst, n + 1) = IF cst[n].in = "C" THEN cst[n].k ELSE CallerOf(cst, n)
    <2>1. n \in 1 .. Len(cst)
      BY <1>1
    <2> HIDE DEF n
    <2>2. QED BY <2>1, CallerNext
  <1>4. CallerOf(cst, n) = f
    BY <1>2, <1>3
  <1>5. n # 1
    <2>1. SUFFICES ASSUME n = 1 PROVE FALSE
      OBVIOUS
    <2>2. CallerOf(cst, 1) = 0
      <3>1. \A h \in CallsOf(cst) : ~(h < 1)
        BY <1>1
      <3>2. QED BY <3>1, CallerNone, Zenon
    <2>3. QED BY <1>4, <2>1, <2>2
  <1> DEFINE m == n - 1
  <1>6. m \in 1 .. n /\ n \in 2 .. n /\ m + 1 = n /\ n >= 2
    <2> HIDE DEF n
    <2>1. n \in Nat /\ n # 0 /\ n # 1
      BY <1>1, <1>5
    <2>2. QED BY <2>1
  <1>7. cst[m].in = "C"
    <2>1. cst[n].in = "C" <=> cst[n - 1].in = "ik_exec_code"
      BY <1>6 DEF CShape
    <2>2. QED BY <1>1, <1>6, <2>1
  <1>8. CallerOf(cst, m + 1) = IF cst[m].in = "C" THEN cst[m].k ELSE CallerOf(cst, m)
    <2>1. m \in 1 .. Len(cst)
      BY <1>6
    <2> HIDE DEF m
    <2>2. QED BY <2>1, CallerNext
  <1>9. cst[m].k = f
    <2> HIDE DEF n, m, f
    <2>1. QED BY <1>4, <1>6, <1>7, <1>8
  <1>10. QED BY <1>4, <1>6, <1>7, <1>9

\* an underflow to a system continuation goes back to the C frame it names
LEMMA UnderflowToCKeeps ==
  ASSUME StackInv, UnderflowToC
  PROVE  StackInv'
  <1> DEFINE S == blocks[stack_base]
             n == Len(cstack)
             c == Clear(S, frame_base - 1)
  <1>1. /\ pc = "underflow" /\ next_k # 0 /\ conts[next_k].tag = "system"
        /\ cstack' = SubSeq(cstack, 1, system_stack - 1)
        /\ frame_pointer' = frame_base /\ argc' = 0 /\ pc' = "c"
        /\ blocks' = [blocks EXCEPT ![stack_base] = c]
        /\ UNCHANGED <<stack_base, frame_base, conts, next_k, system_stack, slots>>
    BY DEF UnderflowToC
  <1>2. /\ frame_base \in Int /\ frame_base >= 6
        /\ stack_base \in DOMAIN blocks /\ DOMAIN S = Area
        /\ WellLinked(conts) /\ next_k \in DOMAIN conts \cup {0}
    BY Numbers
  <1>3. system_stack = n /\ cstack[n].in = "ik_exec_code"
        /\ CShape(cstack) /\ Matched(conts, cstack, next_k)
    BY <1>1 DEF StackInv, InvC
  <1>4. FirstOf(conts, next_k) = next_k
    <2>1. FirstOf(conts, next_k) = IF next_k = 0 \/ conts[next_k].tag = "system" THEN next_k
                                   ELSE FirstOf(conts, conts[next_k].next)
      BY <1>2, FirstLaws
    <2>2. QED BY <1>1, <2>1
  <1>5. /\ n >= 2
        /\ cstack[n - 1].in = "C" /\ cstack[n - 1].k = next_k
        /\ CallerOf(cstack, n) = next_k
    BY <1>1, <1>3, <1>4, CallBelow
  <1>6. n \in Nat
    BY <1>3, ShapeFacts
  <1>7. /\ CShape(cstack') /\ Len(cstack') = n - 1
        /\ \A i \in 1 .. n - 1 : cstack'[i] = cstack[i]
    <2>1. cstack' = SubSeq(cstack, 1, Len(cstack) - 1)
      BY <1>1, <1>3
    <2>2. QED BY <1>3, <1>5, <2>1, ShapePop
  <1>8. Matched(conts, cstack', next_k)
    <2>1. FirstOf(conts, next_k) = CallerOf(cstack, Len(cstack))
      BY <1>4, <1>5
    <2>2. QED BY <1>3, <1>5, <1>7, <2>1, MatchedPop
  <1>9. SameFrom(S, c, frame_base)
    <2> DEFINE at == frame_base - 1
    <2>1. at \in Int /\ at <= frame_base
      BY <1>2
    <2> HIDE DEF at, S
    <2>2. SameFrom(S, Clear(S, at), at)
      BY <1>2, <2>1, ClearFacts
    <2>3. SameFrom(S, Clear(S, at), frame_base)
      BY <1>2, <2>1, <2>2, SameHigher
    <2>4. QED BY <2>3 DEF at
  <1> HIDE DEF c
  <1>10. InvMemory'
    <2>1. FramesOK(blocks, stack_base, frame_base, conts)
      BY DEF StackInv, InvMemory
    <2>2. FramesOK([blocks EXCEPT ![stack_base] = c], stack_base, frame_base, conts)
      BY <1>9, <2>1, FramesBelow
    <2>3. QED BY <1>1, <2>2 DEF InvMemory
  <1>11. InvConts'
    BY <1>1 DEF StackInv, InvConts
  <1>12. InvPointer'
    BY <1>1, <1>2 DEF InvPointer
  <1>13. InvC'
    <2>1. system_stack' \in 1 .. Len(cstack') + 1
      BY <1>1, <1>3, <1>5, <1>6, <1>7
    <2>2. cstack'[Len(cstack')].in = "C" /\ next_k' = cstack'[Len(cstack')].k
      <3>1. n - 1 \in 1 .. n - 1
        BY <1>5, <1>6
      <3>2. QED BY <1>1, <1>5, <1>7, <3>1
    <2>3. Matched(conts', cstack', next_k')
      BY <1>1, <1>8
    <2>4. QED BY <1>1, <1>7, <2>1, <2>2, <2>3 DEF InvC
  <1>14. InvPc'
    BY <1>1 DEF InvPc
  <1>15. QED BY <1>10, <1>11, <1>12, <1>13, <1>14 DEF StackInv

Shifted(b, c, top, end, d) == \A j \in top .. end - 1 : c[j + d] = b[j]
\* the size of a frame is the same elsewhere
LEMMA SizeMoved ==
  ASSUME NEW b, NEW c, NEW top, NEW end, Framed(b, top, end), top < end, NEW d \in Int,
         Shifted(b, c, top, end, d)
  PROVE  SizeAt(c, top + d) = SizeAt(b, top)
  <1> DEFINE n == SizeAt(b, top)
  <1>1. n \in Nat \ {0} /\ top + n <= end /\ (FrameSize[b[top].rp] = 0 => n = Dynamic)
        /\ top \in Int /\ end \in Int
    <2>1. top \in Int /\ end \in Int
      BY DEF Framed
    <2>2. n = SizeAt(b, top)
      OBVIOUS
    <2> HIDE DEF n
    <2>3. n \in Nat \ {0} /\ top + n <= end
      BY <2>2, FramedRest
    <2>4. FrameSize[b[top].rp] = 0 => n = Dynamic
      BY <2>2, FramedRest
    <2>5. QED BY <2>1, <2>3, <2>4
  <1> HIDE DEF n
  <1>2. c[top + d] = b[top]
    <2>1. top \in top .. end - 1
      BY <1>1
    <2>2. QED BY <2>1 DEF Shifted
  <1>3. FrameSize[b[top].rp] = 0 => c[top + d + 1] = b[top + 1]
    <2>1. SUFFICES ASSUME FrameSize[b[top].rp] = 0 PROVE c[top + d + 1] = b[top + 1]
      OBVIOUS
    <2>2. top + 1 \in top .. end - 1 /\ top + d + 1 = (top + 1) + d
      BY <1>1, <2>1 DEF Dynamic
    <2>3. QED BY <2>2 DEF Shifted
  <1>4. top + d + 1 = (top + d) + 1
    OBVIOUS
  <1>5. QED BY <1>2, <1>3, <1>4 DEF SizeAt

\* k leads on to nk, which leads on as k did
LeadsOn(cs, k, ds, nk) == ds[k].next = nk /\ FirstOf(ds, nk) = FirstOf(cs, k)

\* ds is cs but for k, which keeps its first words, and nk, which gets the rest
Parted(cs, k, size, nk, ds) ==
  LET rest == [cs[k] EXCEPT !.top = @ + size, !.size = @ - size]
      one == [cs EXCEPT ![k].size = size, ![k].next = nk]
  IN  ds = Also(one, nk, rest)

\* the first frame of a continuation is split off
LEMMA SplitOff ==
  ASSUME NEW bs, NEW a, NEW fb, NEW cs, FramesOK(bs, a, fb, cs), NEW k, NEW ss, ContsOK(cs, k, ss),
         k # 0, cs[k].tag = "k", NEW nk \in Ids, nk \notin DOMAIN cs,
         NEW size, size = SizeAt(bs[cs[k].block], cs[k].top), size < cs[k].size,
         NEW ds, Parted(cs, k, size, nk, ds)
  PROVE  /\ FramesOK(bs, a, fb, ds) /\ ContsOK(ds, nk, ss)
         /\ SystemsKept(cs, ds) /\ SameFirst(cs, ds)
         /\ LeadsOn(cs, k, ds, nk)
  <1> DEFINE x == cs[k]
             y == ds[k]
             e == x.top + x.size
             B == bs[x.block]
             rest == [x EXCEPT !.top = @ + size, !.size = @ - size]
             one == [cs EXCEPT ![k].size = size, ![k].next = nk]
  <1>1. /\ WellLinked(cs) /\ Records(cs) /\ k \in DOMAIN cs
        /\ ss \in [Slot -> DOMAIN cs \cup {0, -1}]
    BY DEF ContsOK
  <1>2. x \in [tag : {"k"}, block : Block, top : Int, size : Nat \ {0}, next : Int]
    BY <1>1 DEF Records
  <1>3. DOMAIN one = DOMAIN cs /\ one[k] = [x EXCEPT !.size = size, !.next = nk]
        /\ \A j \in DOMAIN cs \ {k} : one[j] = cs[j]
    BY <1>1
  <1>4. /\ \A j : j \in DOMAIN ds <=> j \in DOMAIN cs \/ j = nk
        /\ y = [x EXCEPT !.size = size, !.next = nk]
        /\ ds[nk] = rest
        /\ \A j \in DOMAIN cs \ {k} : ds[j] = cs[j]
    BY <1>1, <1>3 DEF Also, Parted
  <1> HIDE DEF x, one, rest
  <1>5. FramesOf(bs, a, fb, x)
    BY <1>1 DEF FramesOK, x
  <1>6. /\ size \in Nat \ {0} /\ x.top + size < e
        /\ Framed(B, x.top + size, e) /\ Framed(B, x.top, x.top + size)
    <2>1. Framed(B, x.top, e) /\ x.top < e
      BY <1>2, <1>5 DEF FramesOf
    <2> HIDE DEF e, B
    <2>2. size = SizeAt(B, x.top)
      BY DEF B, x
    <2>3. size \in Nat \ {0} /\ Framed(B, x.top + size, e) /\ Framed(B, x.top, x.top + size)
      BY <2>1, <2>2, FramedRest
    <2>4. x.top + size < e
      BY <1>2, <2>3 DEF e, x
    <2>5. QED BY <2>3, <2>4
  <1>7. nk \in Int
    BY StackAssumption
  <1>8. /\ y.tag = "k" /\ y.block = x.block /\ y.top = x.top /\ y.size = size /\ y.next = nk
        /\ y \in [tag : {"k"}, block : Block, top : Int, size : Nat \ {0}, next : Int]
    BY <1>2, <1>4, <1>6, <1>7
  <1> HIDE DEF y
  <1>9. /\ rest.tag = "k" /\ rest.block = x.block /\ rest.top = x.top + size /\ rest.size = x.size - size
        /\ rest.next = x.next
        /\ rest \in [tag : {"k"}, block : Block, top : Int, size : Nat \ {0}, next : Int]
    <2>1. rest = [x EXCEPT !.top = x.top + size, !.size = x.size - size]
      BY DEF rest
    <2>2. x.size - size \in Nat \ {0} /\ x.top + size \in Int
      BY <1>2, <1>6 DEF x
    <2>3. QED BY <1>2, <2>1, <2>2
  <1>10. WellLinked(ds) /\ SameFirst(cs, ds) /\ SystemsKept(cs, ds)
    <2>1. ds[k].next = nk /\ ds[k].tag = "k" /\ ds[nk].next = cs[k].next /\ ds[nk].tag = "k" /\ cs[k].tag = "k"
      BY <1>4, <1>8, <1>9 DEF x, y
    <2>2. QED BY <1>1, <1>4, <2>1, LinkedSplit
  <1>11. Records(ds)
    <2>1. ASSUME NEW j \in DOMAIN ds
          PROVE  \/ ds[j] \in [tag : {"k"}, block : Block, top : Int, size : Nat \ {0}, next : Int]
                 \/ ds[j] \in [tag : {"system"}, top : Int, next : Int]
      <3>1. CASE j = k
        BY <1>8, <3>1 DEF y
      <3>2. CASE j = nk
        BY <1>4, <1>9, <3>2
      <3>3. CASE j # k /\ j # nk
        <4>1. j \in DOMAIN cs /\ ds[j] = cs[j]
          BY <1>4, <3>3
        <4>2. QED BY <1>1, <4>1 DEF Records
      <3>4. QED BY <3>1, <3>2, <3>3
    <2>2. QED BY <2>1 DEF Records
  <1>12. ContsOK(ds, nk, ss)
    <2>1. ss \in [Slot -> DOMAIN ds \cup {0, -1}] /\ nk \in DOMAIN ds \cup {0}
      BY <1>1, <1>4
    <2>2. QED BY <1>10, <1>11, <2>1 DEF ContsOK
  <1>13. FirstOf(ds, nk) = FirstOf(cs, k)
    <2>1. k \in DOMAIN ds \cup {0} /\ ds[k].tag # "system" /\ ds[k].next = nk
      BY <1>1, <1>4, <1>8 DEF y
    <2>2. FirstOf(ds, k) = IF k = 0 \/ ds[k].tag = "system" THEN k ELSE FirstOf(ds, ds[k].next)
      BY <1>10, <2>1, FirstLaws
    <2>3. FirstOf(ds, k) = FirstOf(cs, k)
      BY <1>1, <1>10 DEF SameFirst
    <2>4. QED BY <2>1, <2>2, <2>3
  <1>14. FramesOK(bs, a, fb, ds)
    <2>1. x.block \in DOMAIN bs /\ (x.block = a => fb <= x.top /\ e <= AreaSize)
      BY <1>5 DEF FramesOf
    <2>2. x.top \in Int /\ e \in Int /\ fb \in Int /\ AreaSize \in Int
      BY <1>2, Bounds DEF FramesOK
    <2>3. FramesOf(bs, a, fb, y)
      <3>1. Framed(bs[y.block], y.top, y.top + y.size)
        BY <1>6, <1>8
      <3>2. x.block = a => fb <= x.top /\ x.top + size <= AreaSize
        <4> HIDE DEF e
        <4>1. QED BY <1>6, <2>1, <2>2
      <3>3. QED BY <1>8, <2>1, <3>1, <3>2 DEF FramesOf
    <2>4. FramesOf(bs, a, fb, rest)
      <3>1. (x.top + size) + (x.size - size) = e
        <4>1. x.size \in Nat /\ size \in Nat /\ x.top \in Int
          BY <1>2, <1>6
        <4>2. QED BY <4>1
      <3>2. rest.top + rest.size = e
        BY <1>9, <3>1
      <3>3. Framed(bs[rest.block], rest.top, rest.top + rest.size)
        BY <1>6, <1>9, <3>2
      <3>4. rest.block = a => fb <= rest.top /\ rest.top + rest.size <= AreaSize
        <4>1. x.block = a => fb <= x.top + size /\ e <= AreaSize
          <5> HIDE DEF e
          <5>1. QED BY <1>6, <2>1, <2>2
        <4>2. QED BY <1>9, <3>2, <4>1
      <3>5. QED BY <1>9, <2>1, <3>3, <3>4 DEF FramesOf
    <2>5. ASSUME NEW j \in DOMAIN ds, ds[j].tag = "k" PROVE FramesOf(bs, a, fb, ds[j])
      <3>1. CASE j = k
        BY <2>3, <3>1 DEF y
      <3>2. CASE j = nk
        BY <1>4, <2>4, <3>2
      <3>3. CASE j # k /\ j # nk
        <4>1. j \in DOMAIN cs /\ ds[j] = cs[j]
          BY <1>4, <3>3
        <4>2. QED BY <2>5, <4>1 DEF FramesOK
      <3>4. QED BY <3>1, <3>2, <3>3
    <2>6. QED BY <2>5 DEF FramesOK
  <1>15. ds[k].next = nk
    BY <1>8 DEF y
  <1>16. LeadsOn(cs, k, ds, nk)
    BY <1>13, <1>15 DEF LeadsOn
  <1>17. QED BY <1>10, <1>12, <1>14, <1>16

\* the first frame at a word, and the words of a sequence
OneFrame(b, at, size) == Framed(b, at, at + size) /\ SizeAt(b, at) = size
Holds(ws, b, top, size) == Len(ws) = size /\ \A j \in 1 .. size : ws[j] = b[top + j - 1]

\* a frame that is copied to the stack
LEMMA CopiedBack ==
  ASSUME NEW b, DOMAIN b = Area, NEW B, NEW top \in Int, NEW size \in Nat \ {0},
         OneFrame(B, top, size),
         NEW at \in Int, 0 <= at, at + size <= AreaSize,
         NEW ws, Holds(ws, B, top, size)
  PROVE  /\ OneFrame(Write(b, at, ws), at, size)
         /\ SameFrom(b, Write(b, at, ws), at + size)
  <1> DEFINE c == Write(b, at, ws)
             d == at - top
             end == top + size
  <1>10. /\ Framed(B, top, top + size) /\ SizeAt(B, top) = size
         /\ Len(ws) = size /\ \A j \in 1 .. size : ws[j] = B[top + j - 1]
    BY DEF OneFrame, Holds
  <1>1. SameFrom(b, c, at + Len(ws)) /\ \A j \in 1 .. Len(ws) : at + j - 1 \in Area => c[at + j - 1] = ws[j]
    <2>1. Len(ws) \in Nat
      BY <1>10
    <2>2. QED BY <2>1, WriteFacts
  <1> HIDE DEF c
  <1>2. d \in Int /\ end \in Int /\ top < end /\ top + d = at /\ end + d = at + size
    OBVIOUS
  <1>3. \A j \in top .. end - 1 : c[j + d] = B[j]
    <2> TAKE j \in top .. end - 1
    <2> DEFINE i == j - top + 1
    <2>1. i \in 1 .. size /\ at + i - 1 = j + d /\ top + i - 1 = j /\ at + i - 1 \in Area
      BY AreaLarge DEF Area
    <2> HIDE DEF i, d
    <2>2. c[at + i - 1] = ws[i] /\ ws[i] = B[top + i - 1]
      BY <1>1, <1>10, <2>1
    <2>3. QED BY <2>1, <2>2
  <1> HIDE DEF d, end
  <1>4. Framed(B, top, end)
    BY <1>10 DEF end
  <1>5. Framed(c, top + d, end + d)
    BY <1>2, <1>3, <1>4, FramedMoved
  <1>6. SizeAt(c, top + d) = SizeAt(B, top)
    <2>1. top < end /\ d \in Int
      BY <1>2
    <2>2. Shifted(B, c, top, end, d)
      BY <1>3 DEF Shifted
    <2>3. QED BY <1>4, <2>1, <2>2, SizeMoved
  <1>7. SameFrom(b, c, at + size)
    BY <1>1, <1>10
  <1>8. Framed(c, at, at + size) /\ SizeAt(c, at) = size
    BY <1>2, <1>5, <1>6, <1>10
  <1>9. QED BY <1>7, <1>8 DEF c, OneFrame

\* the frames that a continuation gives up, and what is left of it
LEMMA FirstFrame ==
  ASSUME NEW bs, NEW a, NEW fb, NEW cs, FramesOK(bs, a, fb, cs), NEW k, NEW ss, ContsOK(cs, k, ss),
         k # 0, cs[k].tag = "k", NEW x, x = cs[k],
         NEW ws, ws = Words(bs[x.block], x.top, x.top + x.size),
         NEW size, size = framesize(ws)
  PROVE  /\ size = SizeAt(bs[x.block], x.top) /\ size \in Nat \ {0} /\ size <= x.size /\ size <= Longest
         /\ x.top \in Int /\ x.size \in Nat /\ x.next \in DOMAIN cs \cup {0}
         /\ OneFrame(bs[x.block], x.top, size)
         /\ Holds(SubSeq(ws, 1, size), bs[x.block], x.top, size)
  <1> DEFINE B == bs[x.block]
             top == x.top
             end == x.top + x.size
  <1>1. k \in DOMAIN cs /\ Records(cs) /\ WellLinked(cs)
    BY DEF ContsOK
  <1>2. x \in [tag : {"k"}, block : Block, top : Int, size : Nat \ {0}, next : Int]
    BY <1>1 DEF Records
  <1>3. Framed(B, top, end) /\ top \in Int /\ x.size \in Nat /\ top < end
    <2>1. FramesOf(bs, a, fb, x)
      BY <1>1 DEF FramesOK
    <2>2. QED BY <1>2, <2>1 DEF FramesOf
  <1>4. ws = Words(B, top, end)
    OBVIOUS
  <1>5. end - top = x.size
    BY <1>2
  <1> HIDE DEF B, end, top
  <1>6. size = SizeAt(B, top)
    BY <1>3, <1>4, FirstSize
  <1>7. size \in Nat \ {0} /\ top + size <= end /\ 2 * size + 3 <= Redline /\ Framed(B, top, top + size)
    BY <1>3, <1>6, FramedRest
  <1>8. size <= Longest
    BY <1>7, Bounds
  <1>9. end \in Int
    BY <1>3 DEF Framed
  <1>10. size <= x.size
    BY <1>3, <1>5, <1>7, <1>9
  <1>11. Len(ws) = x.size /\ ws = [i \in 1 .. x.size |-> B[top + i - 1]]
    <2> DEFINE n == x.size
    <2>1. n \in Nat /\ end - top = n
      BY <1>3, <1>5
    <2> HIDE DEF n
    <2>2. ws = [i \in 1 .. n |-> B[top + i - 1]]
      BY <1>4, <2>1 DEF Words
    <2>3. Len(ws) = n
      BY <2>1, <2>2
    <2>4. QED BY <2>2, <2>3 DEF n
  <1>12. Len(SubSeq(ws, 1, size)) = size /\ \A j \in 1 .. size : SubSeq(ws, 1, size)[j] = ws[j]
    <2>1. PICK W : ws \in Seq(W)
      BY <1>3, <1>4, FramedWords
    <2> DEFINE n == x.size
    <2>2. Len(ws) = n /\ n \in Nat /\ size <= n
      BY <1>3, <1>10, <1>11
    <2> HIDE DEF n
    <2>3. QED BY <1>7, <2>1, <2>2
  <1>13. \A j \in 1 .. size : SubSeq(ws, 1, size)[j] = B[top + j - 1]
    <2> TAKE j \in 1 .. size
    <2> DEFINE n == x.size
    <2>1. size \in Nat /\ n \in Nat /\ size <= n
      BY <1>3, <1>7, <1>10
    <2>2. j \in 1 .. n
      <3> HIDE DEF n
      <3>1. QED BY <2>1
    <2>3. QED BY <1>11, <1>12, <2>2
  <1>14. x.next \in DOMAIN cs \cup {0}
    BY <1>1 DEF WellLinked
  <1>15. QED BY <1>3, <1>6, <1>7, <1>8, <1>10, <1>12, <1>13, <1>14 DEF B, top, OneFrame, Holds

\* values moved down
LEMMA MovedDown ==
  ASSUME NEW b, DOMAIN b = Area, NEW base \in Int, NEW n \in Nat, NEW at \in Int,
         NEW vs, vs = Words(b, base - n, base), NEW low, low = at - n
  PROVE  SameFrom(b, Write(b, low, vs), at)
  <1>1. Len(vs) = n
    <2> DEFINE from == base - n
    <2>1. base - from = n
      OBVIOUS
    <2> HIDE DEF from
    <2>2. Words(b, from, base) = [i \in 1 .. n |-> b[from + i - 1]]
      BY <2>1 DEF Words
    <2>3. Len(Words(b, from, base)) = n
      BY <2>2
    <2>4. QED BY <2>3 DEF from
  <1>2. low \in Int /\ low + n = at
    OBVIOUS
  <1>3. SameFrom(b, Write(b, low, vs), low + Len(vs))
    BY <1>1, <1>2, WriteFacts
  <1>4. QED BY <1>1, <1>2, <1>3

\* an underflow splits a continuation, and copies its first frame to the stack
LEMMA UnderflowKeeps ==
  ASSUME StackInv, Underflow
  PROVE  StackInv'
  <1> DEFINE S == blocks[stack_base]
             k == conts[next_k]
             B == blocks[k.block]
             ws == ContWords(next_k)
             size == framesize(ws)
             nk == Free(DOMAIN conts)
             rest == [k EXCEPT !.top = @ + size, !.size = @ - size]
             one == [conts EXCEPT ![next_k].size = size, ![next_k].next = nk]
             fbase == frame_base - 1
             vs == Words(S, fbase - argc, fbase)
             M == Write(S, fbase - size - argc, vs)
             after == IF size < k.size THEN Also(one, nk, rest) ELSE conts
             at == fbase - size
             frame == SubSeq(ws, 1, size)
             C == Write(M, at, frame)
  <1>1. /\ pc = "underflow" /\ next_k # 0 /\ k.tag = "k"
        /\ size < k.size => Room(1)
        /\ IF size > k.size
           THEN pc' = "dead" /\ UNCHANGED <<blocks, conts, next_k, slots, frame_pointer>>
           ELSE /\ pc' = "reenter" /\ frame_pointer' = at
                /\ Refer([blocks EXCEPT ![stack_base] = C], stack_base, after, after[next_k].next, slots)
        /\ UNCHANGED <<stack_base, frame_base, cstack, system_stack, argc>>
    BY DEF Underflow, c_side
  <1>2. /\ frame_base \in Int /\ frame_base <= AreaSize /\ AreaSize \in Int /\ LowBase <= frame_base
        /\ LowBase \in Int /\ LowBase - Longest >= 3 /\ Longest \in Int
        /\ stack_base \in DOMAIN blocks /\ DOMAIN S = Area
        /\ WellLinked(conts) /\ next_k \in DOMAIN conts \cup {0}
    BY Numbers
  <1>3. argc \in 0 .. 2
    BY DEF StackInv, InvPointer
  <1>4. FramesOK(blocks, stack_base, frame_base, conts) /\ ContsOK(conts, next_k, slots)
    BY DEF StackInv, InvMemory, InvConts
  <1>5. CShape(cstack) /\ Matched(conts, cstack, next_k)
    BY <1>1 DEF StackInv, InvC
  <1>6. system_stack = Len(cstack) /\ cstack[system_stack].in = "ik_exec_code"
        /\ system_stack \in 1 .. Len(cstack) + 1
    BY <1>1 DEF StackInv, InvC
  <1>7. /\ size = SizeAt(B, k.top) /\ size \in Nat \ {0} /\ size <= k.size /\ size <= Longest
        /\ k.top \in Int /\ k.size \in Nat /\ k.next \in DOMAIN conts \cup {0}
        /\ OneFrame(B, k.top, size)
        /\ Holds(frame, B, k.top, size)
    <2>1. ws = Words(blocks[k.block], k.top, k.top + k.size) /\ size = framesize(ws) /\ k = conts[next_k]
      BY DEF ContWords
    <2> HIDE DEF ws, size, k
    <2>2. next_k # 0 /\ conts[next_k].tag = "k"
      BY <1>1 DEF k
    <2>3. QED BY <1>4, <2>1, <2>2, FirstFrame
  <1> HIDE DEF ws, size
  <1>8. /\ pc' = "reenter" /\ frame_pointer' = at
        /\ Refer([blocks EXCEPT ![stack_base] = C], stack_base, after, after[next_k].next, slots)
    <2>1. ~(size > k.size)
      <3>1. \A m, n \in Int : m <= n => ~(m > n)
        OBVIOUS
      <3>2. QED BY <1>7, <3>1
    <2>2. QED BY <1>1, <2>1
  <1>9. /\ FramesOK(blocks, stack_base, frame_base, after)
        /\ ContsOK(after, after[next_k].next, slots)
        /\ Matched(after, cstack, after[next_k].next)
    <2>1. CASE size < k.size
      <3>1. nk \in Ids /\ nk \notin DOMAIN conts
        <4>1. DOMAIN conts \subseteq Ids
          BY <1>2 DEF WellLinked
        <4>2. Cardinality(DOMAIN conts) + 1 <= Cardinality(Ids) /\ 1 \in Nat \ {0}
          BY <1>1, <2>1 DEF Room
        <4>3. Free(DOMAIN conts) \in Ids /\ Free(DOMAIN conts) \notin DOMAIN conts
          BY <4>1, <4>2, FreeId
        <4>4. QED BY <4>3
      <3>2. /\ size = SizeAt(blocks[conts[next_k].block], conts[next_k].top) /\ size < conts[next_k].size
            /\ next_k # 0 /\ conts[next_k].tag = "k"
        BY <1>1, <1>7, <2>1
      <3> DEFINE ds == Also(one, nk, rest)
      <3>3. Parted(conts, next_k, size, nk, ds)
        BY DEF Parted
      <3> HIDE DEF nk, rest, one, ds
      <3>4. FramesOK(blocks, stack_base, frame_base, ds) /\ ContsOK(ds, nk, slots)
            /\ SystemsKept(conts, ds) /\ SameFirst(conts, ds)
        BY <1>4, <3>1, <3>2, <3>3, SplitOff
      <3>10. LeadsOn(conts, next_k, ds, nk)
        BY <1>4, <3>1, <3>2, <3>3, SplitOff
      <3>5. FirstOf(ds, nk) = FirstOf(conts, next_k)
        BY <3>10 DEF LeadsOn
      <3>6. ds[next_k].next = nk
        BY <3>10 DEF LeadsOn
      <3>7. Matched(ds, cstack, nk)
        BY <1>2, <1>5, <3>4, <3>5, MatchedKept
      <3>8. after = ds
        BY <2>1 DEF ds
      <3>9. QED BY <3>4, <3>6, <3>7, <3>8
    <2>2. CASE ~(size < k.size)
      <3>1. after = conts
        BY <2>2
      <3>2. ContsOK(conts, k.next, slots)
        BY <1>4, <1>7 DEF ContsOK
      <3>3. FirstOf(conts, k.next) = FirstOf(conts, next_k)
        <4>1. FirstOf(conts, next_k) = IF next_k = 0 \/ conts[next_k].tag = "system" THEN next_k
                                       ELSE FirstOf(conts, conts[next_k].next)
          BY <1>2, FirstLaws
        <4>2. QED BY <1>1, <4>1
      <3>4. Matched(conts, cstack, k.next)
        <4>1. SystemsKept(conts, conts) /\ SameFirst(conts, conts)
          BY DEF SystemsKept, SameFirst
        <4> DEFINE mk == k.next
        <4>2. FirstOf(conts, mk) = FirstOf(conts, next_k)
          BY <3>3
        <4> HIDE DEF mk
        <4>3. Matched(conts, cstack, mk)
          BY <1>2, <1>5, <4>1, <4>2, MatchedKept
        <4>4. QED BY <4>3 DEF mk
      <3>5. QED BY <1>4, <3>1, <3>2, <3>4
    <2>3. QED BY <2>1, <2>2
  <1> HIDE DEF after, S, B, k
  <1>10. at \in Int /\ 2 <= at /\ at < fbase /\ at + size = fbase /\ fbase <= frame_base /\ at + size <= AreaSize
         /\ fbase \in Int
    BY <1>2, <1>7
  <1>11. DOMAIN M = Area /\ SameFrom(S, M, at)
    <2> DEFINE low == fbase - size - argc
    <2>1. low = at - argc /\ argc \in Nat
      BY <1>3, <1>7, <1>10
    <2>2. vs = Words(S, fbase - argc, fbase) /\ M = Write(S, low, vs)
      OBVIOUS
    <2> HIDE DEF low, at, vs, M, fbase
    <2>3. SameFrom(S, Write(S, low, vs), at)
      BY <1>2, <1>10, <2>1, <2>2, MovedDown
    <2>4. QED BY <2>2, <2>3 DEF SameFrom
  <1> HIDE DEF M, frame
  <1>12. OneFrame(C, at, size) /\ SameFrom(M, C, at + size)
    <2> HIDE DEF at
    <2>1. 0 <= at
      BY <1>10
    <2> DEFINE top == k.top
    <2>2. top \in Int /\ OneFrame(B, top, size) /\ Holds(frame, B, top, size)
      BY <1>7
    <2> HIDE DEF top
    <2>3. QED BY <1>7, <1>10, <1>11, <2>1, <2>2, CopiedBack
  <1> HIDE DEF C
  <1>13. SameFrom(S, C, frame_base)
    <2> HIDE DEF at, fbase
    <2>1. SameFrom(S, M, fbase)
      BY <1>10, <1>11, SameHigher
    <2>2. SameFrom(M, C, fbase)
      BY <1>10, <1>12
    <2>3. SameFrom(S, C, fbase)
      BY <2>1, <2>2, SameThen
    <2>4. QED BY <1>2, <1>10, <2>3, SameHigher
  <1>14. FramesOK([blocks EXCEPT ![stack_base] = C], stack_base, frame_base, after)
    <2>1. SameFrom(blocks[stack_base], C, frame_base)
      BY <1>13 DEF S
    <2>2. QED BY <1>9, <2>1, FramesBelow
  <1> DEFINE bs == [blocks EXCEPT ![stack_base] = C]
  <1>15. bs[stack_base] = C
    BY <1>2
  <1>16. /\ InvMemory' /\ InvConts' /\ CShape(cstack') /\ Matched(conts', cstack', next_k')
         /\ blocks'[stack_base] = bs[stack_base]
    <2>1. stack_base' = stack_base /\ frame_base' = frame_base /\ cstack' = cstack
      BY <1>1
    <2> DEFINE mk == after[next_k].next
    <2>2. Refer(bs, stack_base, after, mk, slots) /\ ContsOK(after, mk, slots) /\ Matched(after, cstack, mk)
          /\ FramesOK(bs, stack_base, frame_base, after)
      BY <1>8, <1>9, <1>14
    <2> HIDE DEF mk, bs
    <2>3. QED BY <1>5, <2>1, <2>2, Referred
  <1>17. InvC'
    BY <1>1, <1>6, <1>8, <1>16 DEF InvC
  <1>18. InvPointer'
    <2>1. /\ frame_pointer' = at /\ frame_base' = frame_base /\ blocks'[stack_base'] = C
      BY <1>1, <1>8, <1>15, <1>16
    <2>2. at < frame_base /\ at \in 2 .. frame_base /\ at < frame_base - 1 /\ at + size = frame_base - 1
      BY <1>2, <1>10
    <2>3. Framed(C, at, frame_base - 1)
      BY <1>10, <1>12 DEF OneFrame
    <2>4. argc' \in 0 .. 2
      BY <1>1, <1>3
    <2>5. at + SizeAt(C, at) = frame_base - 1
      BY <1>12, <2>2 DEF OneFrame
    <2> HIDE DEF at
    <2>6. QED BY <1>8, <2>1, <2>2, <2>3, <2>4, <2>5 DEF InvPointer
  <1>19. InvPc'
    BY <1>8 DEF InvPc
  <1>20. QED BY <1>16, <1>17, <1>18, <1>19 DEF StackInv

-----------------------------------------------------------------------------
(* Foreign calls *)

\* a system continuation has no frames
LEMMA FramesMoreSystem ==
  ASSUME NEW bs, NEW a, NEW fb, NEW cs, FramesOK(bs, a, fb, cs), NEW k, NEW x, x.tag # "k"
  PROVE  FramesOK(bs, a, fb, Also(cs, k, x))
  <1> DEFINE ds == Also(cs, k, x)
  <1>1. \A i \in DOMAIN ds : ds[i] = IF i = k THEN x ELSE cs[i]
    BY DEF Also
  <1>2. \A i \in DOMAIN ds : i = k \/ i \in DOMAIN cs
    BY DEF Also
  <1> HIDE DEF ds
  <1>3. FramesOK(bs, a, fb, ds)
    BY <1>1, <1>2 DEF FramesOK
  <1>4. QED BY <1>3 DEF ds

\* a foreign call seals the stack and marks where C begins
LEMMA ForeignCallKeeps ==
  ASSUME StackInv, ForeignCall
  PROVE  StackInv'
  <1> DEFINE S == blocks[stack_base]
             k == Free(DOMAIN conts)
             sk == Free(DOMAIN conts \cup {k})
  <1>1. PICK f \in Frames :
          LET fp == frame_pointer - Len(f)
          IN  /\ pc = "scheme" /\ Room(MaxFrames + 2) /\ ~MustGrow(frame_pointer)
              /\ Refer([blocks EXCEPT ![stack_base] = Handler(Push(S, f), fp)], stack_base,
                       Also(Also(conts, k, Sealed(fp, frame_base - 1 - fp, next_k)),
                            sk, [tag |-> "system", top |-> system_stack, next |-> k]),
                       sk, slots)
              /\ frame_base' = fp /\ frame_pointer' = fp - 1
              /\ cstack' = Append(SubSeq(cstack, 1, system_stack), [in |-> "C", k |-> sk])
              /\ pc' = "c"
              /\ UNCHANGED <<stack_base, system_stack, argc>>
    BY DEF ForeignCall
  <1> DEFINE fp == frame_pointer - Len(f)
             c == Push(S, f)
             size == frame_base - 1 - fp
             x == Sealed(fp, size, next_k)
             y == [tag |-> "system", top |-> system_stack, next |-> k]
             z == [in |-> "C", k |-> sk]
             cs == Also(conts, k, x)
             ds == Also(cs, sk, y)
             bs == [blocks EXCEPT ![stack_base] = Handler(c, fp)]
             n == Len(cstack)
  <1>2. /\ pc = "scheme" /\ Room(MaxFrames + 2) /\ ~MustGrow(frame_pointer)
        /\ Refer(bs, stack_base, ds, sk, slots)
        /\ frame_base' = fp /\ frame_pointer' = fp - 1
        /\ cstack' = Append(SubSeq(cstack, 1, system_stack), z)
        /\ pc' = "c"
        /\ UNCHANGED <<stack_base, system_stack, argc>>
    BY <1>1
  <1>3. /\ frame_base \in Int /\ frame_base <= AreaSize /\ AreaSize \in Int /\ LowBase \in Int
        /\ LowBase - Longest >= 3 /\ Longest >= 3 /\ Longest \in Int /\ Redline = LowBase + Longest
        /\ frame_pointer \in Int /\ 2 <= frame_pointer /\ frame_pointer <= frame_base
        /\ stack_base \in DOMAIN blocks /\ DOMAIN S = Area
    BY Numbers
  <1>4. frame_pointer < frame_base /\ Framed(S, frame_pointer, frame_base - 1) /\ frame_pointer >= Redline
        /\ frame_pointer <= frame_base - 1
    <2>1. frame_pointer < frame_base /\ Framed(S, frame_pointer, frame_base - 1)
      BY <1>2 DEF StackInv, InvPointer
    <2>2. frame_pointer >= Redline
      BY <1>2, <1>3 DEF MustGrow
    <2>3. QED BY <1>3, <2>1, <2>2
  <1>5. FramesOK(blocks, stack_base, frame_base, conts) /\ ContsOK(conts, next_k, slots)
    BY DEF StackInv, InvMemory, InvConts
  <1>6. WellLinked(conts) /\ next_k \in DOMAIN conts \cup {0}
    BY <1>5 DEF ContsOK
  <1>7. CShape(cstack) /\ Matched(conts, cstack, next_k)
        /\ system_stack = n /\ cstack[n].in = "ik_exec_code"
    BY <1>2 DEF StackInv, InvC
  <1>8. n \in Nat \ {0} /\ cstack \in Seq([in : {"ik_exec_code", "C"}, k : Int])
    BY <1>7, ShapeFacts
  <1>9. argc \in 0 .. 2
    BY DEF StackInv, InvPointer
  <1>10. /\ k \in Ids /\ k \notin DOMAIN conts
         /\ sk \in Ids /\ sk \notin DOMAIN conts \cup {k}
    <2>1. DOMAIN conts \subseteq Ids
      BY <1>6 DEF WellLinked
    <2> DEFINE m == MaxFrames + 2
    <2>2. m \in Nat /\ m >= 2
      BY StackAssumption
    <2>3. Cardinality(DOMAIN conts) + m <= Cardinality(Ids)
      BY <1>2 DEF Room
    <2> HIDE DEF m, k
    <2> DEFINE D == DOMAIN conts
    <2>4. D \subseteq Ids /\ Cardinality(D) + m <= Cardinality(Ids)
      BY <2>1, <2>3
    <2> HIDE DEF D
    <2>5. /\ Free(D) \in Ids /\ Free(D) \notin D
          /\ Free(D \cup {Free(D)}) \in Ids /\ Free(D \cup {Free(D)}) \notin D \cup {Free(D)}
      BY <2>2, <2>4, FreeIds
    <2>6. QED BY <2>5 DEF D, k
  <1> HIDE DEF k, sk
  <1>11. /\ fp \in Int /\ fp \in LowBase .. frame_base - 2 /\ fp >= 6 /\ size \in Nat \ {0}
         /\ SameFrom(S, c, frame_base) /\ Framed(c, fp, frame_base - 1)
    <2>1. Len(f) \in Nat \ {0} /\ Len(f) <= Longest
      BY FrameWords, Bounds
    <2> DEFINE l == Len(f)
    <2>2. fp \in Int /\ fp = frame_pointer - l /\ fp >= LowBase /\ fp <= frame_base - 2 /\ 0 <= fp /\ fp >= 6
      <3>1. l \in Nat \ {0} /\ l <= Longest
        BY <2>1
      <3> HIDE DEF l
      <3>2. QED BY <1>3, <1>4, <3>1 DEF l
    <2>3. frame_base - 1 \in Int /\ frame_base - 1 < AreaSize /\ c = Write(S, fp, f)
      BY <1>3 DEF Push
    <2>4. fp = frame_pointer - Len(f)
      OBVIOUS
    <2> HIDE DEF S, c, fp, l
    <2>5. SameFrom(S, c, frame_pointer) /\ Framed(c, fp, frame_base - 1)
      BY <1>3, <1>4, <2>2, <2>3, <2>4, PushFrame
    <2>6. SameFrom(S, c, frame_base)
      BY <1>3, <2>5, SameHigher
    <2>7. size \in Nat \ {0}
      BY <1>3, <2>2
    <2>8. QED BY <1>3, <2>2, <2>5, <2>6, <2>7
  <1> HIDE DEF c, fp
  <1>12. x = [tag |-> "k", block |-> stack_base, top |-> fp, size |-> size, next |-> next_k]
    BY DEF Sealed, SealedSize
  <1>13. stack_base \in Block /\ next_k \in Int
    BY <1>5, <1>6, NextInt DEF FramesOK, Block
  <1>14. x.block = stack_base /\ x.top = fp /\ x.size = frame_base - 1 - fp
    BY <1>12
  <1> HIDE DEF size, x
  <1>15. /\ x.next = next_k /\ x.tag = "k"
         /\ x \in [tag : {"k"}, block : Block, top : Int, size : Nat \ {0}, next : Int]
    BY <1>11, <1>12, <1>13, SealedRecord
  <1>16. FramesOK(bs, stack_base, fp, cs)
    BY <1>5, <1>10, <1>11, <1>14, Sealing
  <1>17. x.next \in DOMAIN conts \cup {0}
    BY <1>6, <1>15
  <1>18. ContsOK(cs, k, slots) /\ SystemsKept(conts, cs) /\ SameFirst(conts, cs)
    BY <1>5, <1>10, <1>15, <1>17, ContsMore
  <1>19. FirstOf(cs, k) = FirstOf(conts, next_k)
    BY <1>5, <1>10, <1>15, <1>17, ContsMore
  <1>20. k \in DOMAIN cs /\ sk \notin DOMAIN cs
    BY <1>10 DEF Also
  <1>21. /\ y.next = k /\ y.tag = "system" /\ y.top = n
         /\ y \in [tag : {"system"}, top : Int, next : Int]
    <2>1. k \in Int
      BY <1>10, StackAssumption
    <2>2. system_stack = n /\ n \in Int
      BY <1>7, <1>8
    <2> HIDE DEF n
    <2>3. QED BY <2>1, <2>2
  <1>22. z \in [in : {"ik_exec_code", "C"}, k : Int] /\ z.in = "C" /\ z.k = sk
    <2>1. sk \in Int
      BY <1>10, StackAssumption
    <2>2. QED BY <2>1
  <1>23. ds[sk] = y /\ sk \in DOMAIN ds
    BY DEF Also
  <1> HIDE DEF y, cs
  <1>24. FramesOK(bs, stack_base, fp, ds)
    <2>1. y.tag # "k"
      BY <1>21
    <2> HIDE DEF bs
    <2>2. QED BY <1>16, <2>1, FramesMoreSystem
  <1>25. y.next \in DOMAIN cs \cup {0}
    BY <1>20, <1>21
  <1>26. ContsOK(ds, sk, slots) /\ SystemsKept(cs, ds) /\ SameFirst(cs, ds)
    BY <1>10, <1>18, <1>20, <1>21, <1>25, ContsMore
  <1> HIDE DEF ds, bs
  <1>27. Matched(cs, cstack, k)
    BY <1>6, <1>7, <1>18, <1>19, MatchedKept
  <1>28. Matched(ds, cstack, k)
    <2>1. WellLinked(cs) /\ k \in DOMAIN cs \cup {0} /\ FirstOf(ds, k) = FirstOf(cs, k)
      BY <1>18, <1>20, <1>26 DEF ContsOK, SameFirst
    <2>2. QED BY <1>26, <1>27, <2>1, MatchedKept
  <1> DEFINE dst == Append(cstack, z)
  <1> HIDE DEF z
  <1>29. cstack' = dst
    <2>1. SubSeq(cstack, 1, system_stack) = cstack
      BY <1>7, <1>8
    <2>2. QED BY <1>2, <2>1
  <1>30. CShape(dst) /\ Len(dst) = n + 1 /\ dst[Len(dst)] = z /\ \A i \in 1 .. n : dst[i] = cstack[i]
    <2>1. z.in = "C" <=> cstack[Len(cstack)].in = "ik_exec_code"
      BY <1>7, <1>22
    <2>2. dst = Append(cstack, z)
      OBVIOUS
    <2>3. Len(dst) = n + 1 /\ dst[n + 1] = z /\ \A i \in 1 .. n : dst[i] = cstack[i]
      BY <1>8, <1>22
    <2> HIDE DEF dst, n
    <2>4. CShape(dst)
      BY <1>7, <1>22, <2>1, <2>2, ShapePush
    <2>5. QED BY <2>3, <2>4
  <1> HIDE DEF dst
  <1>31. Matched(ds, dst, sk)
    <2>1. WellLinked(ds)
      BY <1>26 DEF ContsOK
    <2>2. dst[Len(dst)].in = "C" /\ dst[Len(dst)].k = sk
      BY <1>22, <1>30
    <2>3. ds[sk].tag = "system" /\ ds[sk].top = Len(cstack) /\ FirstOf(ds, ds[sk].next) = FirstOf(ds, k)
      BY <1>21, <1>23
    <2>4. CShape(cstack) /\ CShape(dst) /\ Len(dst) = Len(cstack) + 1 /\ sk \in DOMAIN ds
      BY <1>7, <1>23, <1>30
    <2>5. \A i \in 1 .. Len(cstack) : dst[i] = cstack[i]
      BY <1>30
    <2> HIDE DEF n
    <2>6. QED BY <1>28, <2>1, <2>2, <2>3, <2>4, <2>5, MatchedCall
  <1>32. InvMemory' /\ InvConts' /\ CShape(cstack') /\ Matched(conts', cstack', next_k') /\ next_k' = sk
    BY <1>2, <1>24, <1>26, <1>29, <1>30, <1>31, Referred
  <1>33. InvC'
    <2>1. system_stack' \in 1 .. Len(cstack') + 1
      BY <1>2, <1>7, <1>8, <1>29, <1>30
    <2>2. cstack'[Len(cstack')].in = "C" /\ next_k' = cstack'[Len(cstack')].k
      BY <1>22, <1>29, <1>30, <1>32
    <2>3. QED BY <1>2, <1>32, <2>1, <2>2 DEF InvC
  <1>34. InvPointer'
    <2>1. /\ frame_pointer' = frame_base' - 1 /\ frame_base' \in Int /\ frame_pointer' \in 2 .. frame_base'
          /\ frame_pointer' \in Int /\ frame_pointer' < frame_base'
      BY <1>2, <1>11
    <2>2. Framed(blocks'[stack_base'], frame_pointer', frame_base' - 1)
      BY <2>1, FramedNone
    <2>3. argc' \in 0 .. 2
      BY <1>2, <1>9
    <2>4. QED BY <1>2, <2>1, <2>2, <2>3 DEF InvPointer
  <1>35. InvPc'
    BY <1>2 DEF InvPc
  <1>36. QED BY <1>32, <1>33, <1>34, <1>35 DEF StackInv

\* a callback begins above the C frame that calls it
LEMMA CallBackKeeps ==
  ASSUME StackInv, CallBack
  PROVE  StackInv'
  <1>1. /\ pc = "c" /\ pc' = "arguments" /\ frame_pointer' = frame_base
        /\ UNCHANGED <<blocks, stack_base, frame_base, conts, next_k, cstack, system_stack, slots, argc>>
    BY DEF CallBack, memory, c_side
  <1>2. frame_base \in Int /\ frame_base >= 6
    BY Numbers
  <1>3. InvMemory' /\ InvConts'
    BY <1>1 DEF StackInv, InvMemory, InvConts
  <1>4. InvPointer'
    BY <1>1, <1>2 DEF StackInv, InvPointer
  <1>5. InvC'
    BY <1>1 DEF StackInv, InvC
  <1>6. InvPc'
    BY <1>1 DEF InvPc
  <1>7. QED BY <1>3, <1>4, <1>5, <1>6 DEF StackInv

\* the result of C is on its way to the frame that called
LEMMA ForeignResultKeeps ==
  ASSUME StackInv, ForeignResult
  PROVE  StackInv'
  <1>1. /\ pc = "c" /\ pc' = "result"
        /\ UNCHANGED <<blocks, stack_base, frame_base, frame_pointer, conts, next_k, cstack, system_stack,
                       slots, argc>>
    BY DEF ForeignResult, memory, c_side
  <1>2. InvMemory' /\ InvConts'
    BY <1>1 DEF StackInv, InvMemory, InvConts
  <1>3. InvPointer'
    BY <1>1 DEF StackInv, InvPointer
  <1>4. InvC'
    BY <1>1 DEF StackInv, InvC
  <1>5. InvPc'
    BY <1>1 DEF InvPc
  <1>6. QED BY <1>2, <1>3, <1>4, <1>5 DEF StackInv

\* Scheme code is entered with the arguments of C on the stack
LEMMA EnterKeeps ==
  ASSUME StackInv, Enter
  PROVE  StackInv'
  <1> DEFINE S == blocks[stack_base]
             c == Handler(S, frame_base)
             n == Len(cstack)
             z == [in |-> "ik_exec_code", k |-> next_k]
  <1>1. /\ pc = "arguments" /\ pc' = "scheme" /\ frame_pointer' = frame_base - 1
        /\ blocks' = [blocks EXCEPT ![stack_base] = c]
        /\ cstack' = Append(cstack, z) /\ system_stack' = Len(cstack')
        /\ UNCHANGED <<stack_base, frame_base, conts, next_k, slots, argc>>
    BY DEF Enter
  <1>2. /\ frame_base \in Int /\ frame_base >= 6 /\ stack_base \in DOMAIN blocks /\ DOMAIN S = Area
        /\ WellLinked(conts) /\ next_k \in DOMAIN conts \cup {0}
    BY Numbers
  <1>3. CShape(cstack) /\ Matched(conts, cstack, next_k) /\ cstack[n].in = "C"
    BY <1>1 DEF StackInv, InvC
  <1>4. SameFrom(S, c, frame_base)
    <2> HIDE DEF S
    <2>1. QED BY <1>2, HandlerFacts
  <1> HIDE DEF c
  <1>5. InvMemory'
    <2>1. FramesOK(blocks, stack_base, frame_base, conts)
      BY DEF StackInv, InvMemory
    <2>2. FramesOK([blocks EXCEPT ![stack_base] = c], stack_base, frame_base, conts)
      BY <1>4, <2>1, FramesBelow
    <2>3. QED BY <1>1, <2>2 DEF InvMemory
  <1>6. InvConts'
    BY <1>1 DEF StackInv, InvConts
  <1>7. n \in Nat \ {0} /\ cstack \in Seq([in : {"ik_exec_code", "C"}, k : Int])
    BY <1>3, ShapeFacts
  <1>8. z \in [in : {"ik_exec_code", "C"}, k : Int] /\ z.in = "ik_exec_code"
    <2>1. next_k \in Int
      BY <1>2, NextInt
    <2>2. QED BY <2>1
  <1> DEFINE dst == Append(cstack, z)
  <1> HIDE DEF z
  <1>9. Len(dst) = n + 1 /\ dst[n + 1] = z /\ \A i \in 1 .. n : dst[i] = cstack[i]
    BY <1>7, <1>8
  <1>10. CShape(dst)
    <2>1. z.in = "C" <=> cstack[Len(cstack)].in = "ik_exec_code"
      BY <1>3, <1>8
    <2>2. dst = Append(cstack, z)
      OBVIOUS
    <2> HIDE DEF dst, n
    <2>3. QED BY <1>3, <1>8, <2>1, <2>2, ShapePush
  <1> HIDE DEF dst
  <1>11. Matched(conts, dst, next_k)
    <2>1. dst[Len(dst)].in = "ik_exec_code" /\ Len(dst) = Len(cstack) + 1
      BY <1>8, <1>9
    <2>2. \A i \in 1 .. Len(cstack) : dst[i] = cstack[i]
      BY <1>9
    <2>3. QED BY <1>3, <1>10, <2>1, <2>2, MatchedEnter
  <1>12. cstack' = dst
    BY <1>1 DEF dst
  <1>13. InvC'
    <2>1. system_stack' = Len(cstack') /\ cstack'[system_stack'].in = "ik_exec_code"
      BY <1>1, <1>8, <1>9, <1>12
    <2>2. system_stack' \in 1 .. Len(cstack') + 1
      BY <1>7, <1>9, <1>12, <2>1
    <2>3. Matched(conts', cstack', next_k') /\ CShape(cstack')
      BY <1>1, <1>10, <1>11, <1>12
    <2>4. QED BY <1>1, <2>1, <2>2, <2>3 DEF InvC
  <1>14. InvPointer'
    <2>1. /\ frame_pointer' = frame_base' - 1 /\ frame_base' \in Int /\ frame_pointer' \in 2 .. frame_base'
          /\ frame_pointer' \in Int /\ frame_pointer' < frame_base'
      BY <1>1, <1>2
    <2>2. Framed(blocks'[stack_base'], frame_pointer', frame_base' - 1)
      BY <2>1, FramedNone
    <2>3. argc' \in 0 .. 2
      BY <1>1 DEF StackInv, InvPointer
    <2>4. QED BY <1>1, <2>1, <2>2, <2>3 DEF InvPointer
  <1>15. InvPc'
    BY <1>1 DEF InvPc
  <1>16. QED BY <1>5, <1>6, <1>13, <1>14, <1>15 DEF StackInv

\* a foreign call is over: the continuations it pushed are popped
LEMMA ForeignReturnKeeps ==
  ASSUME StackInv, ForeignReturn
  PROVE  StackInv'
  <1> DEFINE S == blocks[stack_base]
             n == Len(cstack)
             k == conts[next_k]
  <1>1. PICK vs \in {rs \in Results : Len(rs) = 1} :
          /\ pc = "result"
          /\ IF next_k = 0 \/ k.tag # "system"
             THEN pc' = "dead"
             ELSE /\ pc' = "underflow" /\ frame_pointer' = frame_base - 1 /\ argc' = 1
                  /\ system_stack' = k.top
                  /\ cstack' = SubSeq(cstack, 1, n - 1)
                  /\ Refer([blocks EXCEPT ![stack_base] = Write(S, frame_base - 2, Below(vs))],
                           stack_base, conts, k.next, slots)
          /\ UNCHANGED <<stack_base, frame_base>>
    BY DEF ForeignReturn, Restored
  <1>2. /\ frame_base \in Int /\ frame_base >= 6 /\ stack_base \in DOMAIN blocks /\ DOMAIN S = Area
        /\ WellLinked(conts) /\ next_k \in DOMAIN conts \cup {0}
    BY Numbers
  <1>3. CShape(cstack) /\ Matched(conts, cstack, next_k) /\ cstack[n].in = "C" /\ next_k = cstack[n].k
    BY <1>1 DEF StackInv, InvC
  <1>4. FramesOK(blocks, stack_base, frame_base, conts) /\ ContsOK(conts, next_k, slots)
    BY DEF StackInv, InvMemory, InvConts
  <1>5. /\ n \in Nat \ {0} /\ n \in CallsOf(cstack) /\ CallsOf(cstack) \subseteq 2 .. n
        /\ cstack[n - 1].in = "ik_exec_code"
    <2>1. n \in Nat \ {0} /\ DOMAIN cstack = 1 .. n /\ CallsOf(cstack) \subseteq 2 .. n
          /\ \A i \in CallsOf(cstack) : cstack[i - 1].in = "ik_exec_code"
      BY <1>3, ShapeFacts
    <2>2. n \in CallsOf(cstack)
      BY <1>3, <2>1 DEF CallsOf
    <2>3. QED BY <2>1, <2>2
  <1>6. n >= 2
    BY <1>5
  <1>7. /\ next_k \in DOMAIN conts /\ k.tag = "system" /\ k.top = n - 1
        /\ FirstOf(conts, k.next) = CallerOf(cstack, n)
    BY <1>3, <1>5 DEF Matched
  <1>8. next_k # 0
    BY <1>2, <1>7, StackAssumption DEF WellLinked
  <1> DEFINE c == Write(S, frame_base - 2, Below(vs))
             dst == SubSeq(cstack, 1, n - 1)
             mk == k.next
  <1>9. /\ pc' = "underflow" /\ frame_pointer' = frame_base - 1 /\ argc' = 1
        /\ system_stack' = n - 1
        /\ cstack' = dst
        /\ Refer([blocks EXCEPT ![stack_base] = c], stack_base, conts, mk, slots)
        /\ UNCHANGED <<stack_base, frame_base>>
    BY <1>1, <1>7, <1>8
  <1>10. mk \in DOMAIN conts \cup {0}
    BY <1>2, <1>7 DEF WellLinked
  <1>11. CShape(dst) /\ Len(dst) = n - 1 /\ \A i \in 1 .. n - 1 : dst[i] = cstack[i]
    <2>1. dst = SubSeq(cstack, 1, Len(cstack) - 1)
      OBVIOUS
    <2> HIDE DEF dst
    <2>2. QED BY <1>3, <1>6, <2>1, ShapePop
  <1> HIDE DEF dst, mk
  <1>12. Matched(conts, dst, mk)
    <2>1. FirstOf(conts, mk) = CallerOf(cstack, Len(cstack))
      BY <1>7 DEF mk
    <2>2. QED BY <1>3, <1>6, <1>11, <2>1, MatchedPop
  <1>13. SameFrom(S, c, frame_base)
    <2> DEFINE at == frame_base - 1
    <2>5. vs \in Results /\ Len(vs) = 1
      OBVIOUS
    <2>6. at \in Int /\ at <= frame_base /\ at - 1 = frame_base - 2
      BY <1>2
    <2>1. at \in Int /\ at <= frame_base /\ at - Len(vs) = frame_base - 2
      BY <2>5, <2>6
    <2> HIDE DEF at, S
    <2>2. SameFrom(S, Write(S, at - Len(vs), Below(vs)), at)
      BY <1>2, <2>1, <2>5, ValuesFacts
    <2>3. SameFrom(S, c, at)
      <3> DEFINE l == Len(vs)
                 low == frame_base - 2
      <3>1. at - l = low
        BY <2>1
      <3> HIDE DEF l, low
      <3>2. SameFrom(S, Write(S, at - l, Below(vs)), at)
        BY <2>2 DEF l
      <3>3. SameFrom(S, Write(S, low, Below(vs)), at)
        BY <3>1, <3>2
      <3>4. QED BY <3>3 DEF low
    <2> HIDE DEF c
    <2>4. QED BY <1>2, <2>1, <2>3, SameHigher
  <1> HIDE DEF c
  <1>14. FramesOK([blocks EXCEPT ![stack_base] = c], stack_base, frame_base, conts)
    BY <1>4, <1>13, FramesBelow
  <1>15. ContsOK(conts, mk, slots)
    BY <1>4, <1>10 DEF ContsOK
  <1>16. InvMemory' /\ InvConts' /\ CShape(cstack') /\ Matched(conts', cstack', next_k')
    <2> DEFINE bs == [blocks EXCEPT ![stack_base] = c]
    <2>1. FramesOK(bs, stack_base, frame_base, conts) /\ Refer(bs, stack_base, conts, mk, slots)
      BY <1>9, <1>14
    <2> HIDE DEF bs
    <2>2. QED BY <1>9, <1>11, <1>12, <1>15, <2>1, Referred
  <1>17. InvC'
    <2>1. n - 1 \in 1 .. n - 1
      BY <1>5, <1>6
    <2>2. system_stack' = Len(cstack') /\ cstack'[system_stack'].in = "ik_exec_code"
      BY <1>5, <1>9, <1>11, <2>1
    <2>3. system_stack' \in 1 .. Len(cstack') + 1
      BY <1>9, <1>11, <2>1
    <2>4. QED BY <1>9, <1>16, <2>2, <2>3 DEF InvC
  <1>18. InvPointer'
    <2>1. /\ frame_pointer' = frame_base' - 1 /\ frame_base' \in Int /\ frame_pointer' \in 2 .. frame_base'
          /\ frame_pointer' \in Int /\ frame_pointer' < frame_base'
      BY <1>2, <1>9
    <2>2. Framed(blocks'[stack_base'], frame_pointer', frame_base' - 1)
      BY <2>1, FramedNone
    <2>3. argc' \in 0 .. 2
      BY <1>9
    <2>4. QED BY <1>9, <2>1, <2>2, <2>3 DEF InvPointer
  <1>19. InvPc'
    BY <1>9 DEF InvPc
  <1>20. QED BY <1>16, <1>17, <1>18, <1>19 DEF StackInv

-----------------------------------------------------------------------------
(* A collection *)

\* frames copied to the heap
LEMMA HeapWords ==
  ASSUME NEW b, NEW top, NEW end, Framed(b, top, end), NEW size, size = end - top
  PROVE  Framed(Words(b, top, end), 1, 1 + size)
  <1> DEFINE d == 1 - top
             c == Words(b, top, end)
  <1>1. top \in Int /\ end \in Int /\ size \in Nat /\ d \in Int /\ top + d = 1 /\ end + d = 1 + size
    BY DEF Framed
  <1>2. \A j \in top .. end - 1 : c[j + d] = b[j]
    <2>1. c = [i \in 1 .. size |-> b[top + i - 1]]
      BY DEF Words
    <2> HIDE DEF c
    <2> TAKE j \in top .. end - 1
    <2> DEFINE i == j + d
    <2>2. i \in 1 .. size /\ top + i - 1 = j
      BY <1>1
    <2> HIDE DEF i
    <2>3. c[i] = b[top + i - 1]
      BY <2>1, <2>2
    <2>4. QED BY <2>2, <2>3 DEF i
  <1> HIDE DEF c, d
  <1>3. Framed(c, top + d, end + d)
    BY <1>1, <1>2, FramedMoved
  <1>4. QED BY <1>1, <1>3 DEF c

\* the collection that finds frames, and copies those of continuations
Copied(bs, cs) ==
  LET end == frame_base - 1
      kept(b) == [i \in DOMAIN b |-> IF i <= end THEN b[i] ELSE Junk]
  IN  /\ cs = [i \in DOMAIN conts |-> IF conts[i].tag = "k"
                                      THEN [conts[i] EXCEPT !.block = <<"heap", i>>, !.top = 1]
                                      ELSE conts[i]]
      /\ bs = Also([b \in {<<"heap", i>> : i \in {j \in DOMAIN conts : conts[j].tag = "k"}} |-> ContWords(b[2])],
                   stack_base, kept(blocks[stack_base]))

\* frames copied to the heap are the frames they were
LEMMA CopiedFacts ==
  ASSUME StackInv, NEW bs, NEW cs, Copied(bs, cs)
  PROVE  /\ FramesOK(bs, stack_base, frame_base, cs) /\ ContsOK(cs, next_k, slots)
         /\ SystemsKept(conts, cs) /\ SameFirst(conts, cs)
         /\ \A j \in Area : j <= frame_base - 1 => bs[stack_base][j] = blocks[stack_base][j]
  <1> DEFINE S == blocks[stack_base]
             end == frame_base - 1
             kept == [i \in DOMAIN S |-> IF i <= end THEN S[i] ELSE Junk]
             live == {i \in DOMAIN conts : conts[i].tag = "k"}
  <1>1. /\ cs = [i \in DOMAIN conts |-> IF conts[i].tag = "k"
                                        THEN [conts[i] EXCEPT !.block = <<"heap", i>>, !.top = 1]
                                        ELSE conts[i]]
        /\ bs = Also([b \in {<<"heap", i>> : i \in live} |-> ContWords(b[2])], stack_base, kept)
    BY DEF Copied
  <1>2. /\ frame_base \in Int /\ stack_base \in DOMAIN blocks /\ DOMAIN S = Area
        /\ WellLinked(conts) /\ Records(conts) /\ next_k \in DOMAIN conts \cup {0}
        /\ slots \in [Slot -> DOMAIN conts \cup {0, -1}]
    BY Numbers
  <1>3. FramesOK(blocks, stack_base, frame_base, conts)
    BY DEF StackInv, InvMemory
  <1>4. PICK n \in Areas : stack_base = <<"area", n>>
    BY <1>3 DEF FramesOK
  <1>5. \A i : <<"heap", i>> # stack_base /\ <<"heap", i>>[2] = i
    BY <1>4
  <1>6. /\ stack_base \in DOMAIN bs /\ bs[stack_base] = kept
        /\ \A i \in live : <<"heap", i>> \in DOMAIN bs /\ bs[<<"heap", i>>] = ContWords(i)
    BY <1>1, <1>5 DEF Also
  <1>7. DOMAIN cs = DOMAIN conts
    BY <1>1
  <1>8. ASSUME NEW i \in DOMAIN conts, conts[i].tag # "k" PROVE cs[i] = conts[i]
    BY <1>1, <1>8
  <1>9. ASSUME NEW i \in DOMAIN conts, conts[i].tag = "k"
        PROVE  /\ cs[i].tag = "k" /\ cs[i].next = conts[i].next /\ cs[i].size = conts[i].size
               /\ cs[i].block = <<"heap", i>> /\ cs[i].top = 1
               /\ cs[i] \in [tag : {"k"}, block : Block, top : Int, size : Nat \ {0}, next : Int]
    <2>1. cs[i] = [conts[i] EXCEPT !.block = <<"heap", i>>, !.top = 1]
      BY <1>1, <1>9
    <2> DEFINE x == conts[i]
               hb == <<"heap", i>>
    <2>2. x \in [tag : {"k"}, block : Block, top : Int, size : Nat \ {0}, next : Int]
      BY <1>2, <1>9 DEF Records
    <2>3. hb \in Block
      <3>1. i \in Ids
        BY <1>2 DEF WellLinked
      <3>2. hb \in {<<"heap", j>> : j \in Ids}
        BY <3>1
      <3>3. QED BY <3>2 DEF Block
    <2> HIDE DEF x, hb
    <2>4. cs[i] = [x EXCEPT !.block = hb, !.top = 1]
      BY <2>1 DEF x, hb
    <2>5. /\ cs[i].tag = "k" /\ cs[i].next = x.next /\ cs[i].size = x.size
          /\ cs[i].block = hb /\ cs[i].top = 1
          /\ cs[i] \in [tag : {"k"}, block : Block, top : Int, size : Nat \ {0}, next : Int]
      <3> DEFINE y == cs[i]
      <3>1. y = [x EXCEPT !.block = hb, !.top = 1]
        BY <2>4
      <3> HIDE DEF y
      <3>2. y.tag = "k" /\ y.next = x.next /\ y.size = x.size /\ y.block = hb /\ y.top = 1
        BY <2>2, <3>1
      <3>3. y \in [tag : {"k"}, block : Block, top : Int, size : Nat \ {0}, next : Int]
        <4>1. /\ x.tag = "k" /\ x.size \in Nat \ {0} /\ x.next \in Int
              /\ y = [tag |-> x.tag, block |-> hb, top |-> 1, size |-> x.size, next |-> x.next]
          BY <2>2, <3>1
        <4>2. QED BY <2>3, <4>1
      <3>4. QED BY <3>2, <3>3 DEF y
    <2>6. QED BY <2>5 DEF x, hb
  <1> HIDE DEF live
  <1>10. WellLinked(cs) /\ SameFirst(conts, cs)
    <2>1. \A j \in DOMAIN conts : cs[j].next = conts[j].next /\ cs[j].tag = conts[j].tag
      BY <1>8, <1>9
    <2>2. QED BY <1>2, <1>7, <2>1, LinkedSame
  <1>11. SystemsKept(conts, cs)
    BY <1>7, <1>8 DEF SystemsKept
  <1>12. Records(cs)
    <2>1. ASSUME NEW i \in DOMAIN conts
          PROVE  \/ cs[i] \in [tag : {"k"}, block : Block, top : Int, size : Nat \ {0}, next : Int]
                 \/ cs[i] \in [tag : {"system"}, top : Int, next : Int]
      <3>1. CASE conts[i].tag = "k"
        BY <1>9, <3>1
      <3>2. CASE conts[i].tag # "k"
        BY <1>2, <1>8, <3>2 DEF Records
      <3>3. QED BY <3>1, <3>2
    <2>2. QED BY <1>7, <2>1 DEF Records
  <1>13. ContsOK(cs, next_k, slots)
    BY <1>2, <1>7, <1>10, <1>12 DEF ContsOK
  <1>14. ASSUME NEW i \in DOMAIN cs, cs[i].tag = "k" PROVE FramesOf(bs, stack_base, frame_base, cs[i])
    <2>1. i \in DOMAIN conts /\ conts[i].tag = "k" /\ i \in live
      BY <1>7, <1>8, <1>14 DEF live
    <2> DEFINE x == conts[i]
               e == x.top + x.size
               size == x.size
    <2>2. FramesOf(blocks, stack_base, frame_base, x)
      BY <1>3, <2>1 DEF FramesOK
    <2>3. x \in [tag : {"k"}, block : Block, top : Int, size : Nat \ {0}, next : Int]
      BY <1>2, <2>1 DEF Records
    <2>4. Framed(blocks[x.block], x.top, e) /\ size = e - x.top
      BY <2>2, <2>3 DEF FramesOf
    <2>5. ContWords(i) = Words(blocks[x.block], x.top, e)
      BY DEF ContWords
    <2> HIDE DEF x, e, size
    <2>6. Framed(ContWords(i), 1, 1 + size)
      BY <2>4, <2>5, HeapWords
    <2>7. cs[i].block = <<"heap", i>> /\ cs[i].top = 1 /\ cs[i].size = size
      BY <1>9, <2>1 DEF x, size
    <2>8. cs[i].block \in DOMAIN bs /\ bs[cs[i].block] = ContWords(i) /\ cs[i].block # stack_base
      BY <1>5, <1>6, <2>1, <2>7
    <2>9. QED BY <2>6, <2>7, <2>8 DEF FramesOf
  <1>15. DOMAIN kept = Area /\ \A j \in Area : j <= frame_base - 1 => kept[j] = S[j]
    BY <1>2
  <1> HIDE DEF kept
  <1>16. FramesOK(bs, stack_base, frame_base, cs)
    BY <1>3, <1>6, <1>14, <1>15 DEF FramesOK
  <1>17. QED BY <1>6, <1>10, <1>11, <1>13, <1>15, <1>16

\* a collection moves continuations and keeps what they hold
LEMMA CollectKeeps ==
  ASSUME StackInv, Collect
  PROVE  StackInv'
  <1>1. /\ pc \in {"scheme", "arguments", "result"}
        /\ \/ pc' = "dead" /\ UNCHANGED <<blocks, conts>>
           \/ Copied(blocks', conts') /\ frame_pointer <= frame_base - 1 /\ UNCHANGED pc
        /\ UNCHANGED <<stack_base, frame_base, frame_pointer, next_k, cstack, system_stack, slots, argc>>
    BY DEF Collect, Copied, c_side
  <1>2. /\ frame_base \in Int /\ frame_base <= AreaSize /\ AreaSize \in Int
        /\ frame_pointer \in Int /\ 2 <= frame_pointer /\ frame_pointer <= frame_base
        /\ WellLinked(conts) /\ next_k \in DOMAIN conts \cup {0}
    BY Numbers
  <1>3. CASE pc' = "dead" /\ UNCHANGED <<blocks, conts>>
    <2>1. InvMemory' /\ InvConts'
      BY <1>1, <1>3 DEF StackInv, InvMemory, InvConts
    <2>2. InvPointer'
      BY <1>1, <1>3 DEF StackInv, InvPointer
    <2>3. InvC'
      BY <1>1, <1>3 DEF StackInv, InvC
    <2>4. InvPc'
      BY <1>3 DEF InvPc
    <2>5. QED BY <2>1, <2>2, <2>3, <2>4 DEF StackInv
  <1>4. CASE Copied(blocks', conts') /\ frame_pointer <= frame_base - 1 /\ UNCHANGED pc
    <2>1. /\ FramesOK(blocks', stack_base, frame_base, conts') /\ ContsOK(conts', next_k, slots)
          /\ SystemsKept(conts, conts') /\ SameFirst(conts, conts')
          /\ \A j \in Area : j <= frame_base - 1 => blocks'[stack_base][j] = blocks[stack_base][j]
      BY <1>4, CopiedFacts
    <2>2. InvMemory' /\ InvConts'
      BY <1>1, <2>1 DEF InvMemory, InvConts
    <2>3. Matched(conts', cstack, next_k) /\ CShape(cstack)
      <3>1. Matched(conts, cstack, next_k) /\ CShape(cstack)
        BY <1>1 DEF StackInv, InvC
      <3>2. FirstOf(conts', next_k) = FirstOf(conts, next_k)
        BY <1>2, <2>1 DEF SameFirst
      <3>3. QED BY <1>2, <2>1, <3>1, <3>2, MatchedKept
    <2>4. InvC'
      BY <1>1, <1>4, <2>3 DEF StackInv, InvC
    <2>5. InvPointer'
      <3>1. CASE frame_pointer = frame_base
        BY <1>2, <1>4, <3>1
      <3>2. CASE frame_pointer # frame_base
        <4>1. frame_pointer < frame_base /\ Framed(blocks[stack_base], frame_pointer, frame_base - 1)
          BY <3>2 DEF StackInv, InvPointer
        <4>2. \A j \in frame_pointer .. (frame_base - 1) - 1 : j \in Area /\ j <= frame_base - 1
          BY <1>2 DEF Area
        <4>3. \A j \in frame_pointer .. (frame_base - 1) - 1 : blocks'[stack_base][j] = blocks[stack_base][j]
          BY <2>1, <4>2
        <4>4. Framed(blocks'[stack_base], frame_pointer, frame_base - 1)
          BY <4>1, <4>3, FramedKept
        <4>5. QED BY <1>1, <1>4, <4>1, <4>4 DEF StackInv, InvPointer
      <3>3. QED BY <3>1, <3>2
    <2>6. InvPc'
      BY <1>4 DEF StackInv, InvPc
    <2>7. QED BY <2>2, <2>4, <2>5, <2>6 DEF StackInv
  <1>5. QED BY <1>1, <1>3, <1>4

-----------------------------------------------------------------------------
(* The theorems *)

\* every step keeps the invariant
LEMMA NextKeeps == StackInv /\ [StackNext]_svars => StackInv'
  <1> SUFFICES ASSUME StackInv, [StackNext]_svars PROVE StackInv'
    OBVIOUS
  <1>1. CASE Call
    BY <1>1, CallKeeps
  <1>2. CASE Return
    BY <1>2, ReturnKeeps
  <1>3. CASE Resume
    BY <1>3, ResumeKeeps
  <1>4. CASE Capture
    BY <1>4, CaptureKeeps
  <1>5. CASE Throw
    BY <1>5, ThrowKeeps
  <1>6. CASE StackOverflow
    BY <1>6, StackOverflowKeeps
  <1>7. CASE Finish
    BY <1>7, FinishKeeps
  <1>8. CASE UnderflowToC
    BY <1>8, UnderflowToCKeeps
  <1>9. CASE Underflow
    BY <1>9, UnderflowKeeps
  <1>10. CASE ForeignCall
    BY <1>10, ForeignCallKeeps
  <1>11. CASE CallBack
    BY <1>11, CallBackKeeps
  <1>12. CASE Enter
    BY <1>12, EnterKeeps
  <1>13. CASE ForeignResult
    BY <1>13, ForeignResultKeeps
  <1>14. CASE ForeignReturn
    BY <1>14, ForeignReturnKeeps
  <1>15. CASE Collect
    BY <1>15, CollectKeeps
  <1>16. CASE UNCHANGED svars
    <2>1. UNCHANGED <<blocks, stack_base, frame_base, frame_pointer, conts, next_k, cstack, system_stack,
                      slots, argc, pc>>
      BY <1>16 DEF svars
    <2>2. InvMemory' /\ InvConts'
      BY <2>1 DEF StackInv, InvMemory, InvConts
    <2>3. InvPointer'
      BY <2>1 DEF StackInv, InvPointer, FreeAreas
    <2>4. InvC'
      BY <2>1 DEF StackInv, InvC
    <2>5. InvPc'
      BY <2>1 DEF StackInv, InvPc
    <2>6. QED BY <2>2, <2>3, <2>4, <2>5 DEF StackInv
  <1>17. QED BY <1>1, <1>2, <1>3, <1>4, <1>5, <1>6, <1>7, <1>8, <1>9, <1>10, <1>11, <1>12, <1>13, <1>14,
                <1>15, <1>16 DEF StackNext

\* the theorem the others rest on. Whatever the order of calls, returns,
\* overflows, underflows, captures, throws, foreign calls, callbacks and
\* collections, the frames of the stack and of every continuation are whole,
\* continuations lead to continuations and end, and the C stack is that of the
\* foreign calls and callbacks on the chain
THEOREM StackInvariant == StackSpec => []StackInv
  <1>1. StackInit => StackInv
    BY InitKeeps
  <1>2. QED BY <1>1, NextKeeps, PTL DEF StackSpec

\* the frame pointer stays within its area, above the arguments on their way:
\* the check at the entry of procedures against the redline
\* (ikarus-collect.c, ikarus-enter.s) is enough for every size of an area,
\* also after a frame is copied back by an underflow
THEOREM StackWithinArea == StackSpec => []WithinArea
  <1>1. StackInv => WithinArea
    <2> SUFFICES ASSUME StackInv PROVE WithinArea
      OBVIOUS
    <2>1. /\ frame_base \in Int /\ LowBase <= frame_base /\ frame_base <= AreaSize
          /\ frame_pointer \in Int /\ 2 <= frame_pointer /\ frame_pointer <= frame_base
          /\ stack_base \in DOMAIN blocks
          /\ AreaSize \in Int /\ next_k \in DOMAIN conts \cup {0}
      BY Numbers
    <2>2. argc \in 0 .. 2
      BY DEF StackInv, InvPointer
    <2>3. system_stack \in 1 .. Len(cstack) + 1
      BY DEF StackInv, InvC
    <2>4. frame_base \in 0 .. AreaSize /\ frame_pointer \in argc .. frame_base
      BY <2>1, <2>2
    <2>5. QED BY <2>1, <2>3, <2>4 DEF WithinArea
  <1>2. QED BY <1>1, StackInvariant, PTL

\* whole frames match up
LEMMA InvFrames == StackInv => FramesMatch
  <1> SUFFICES ASSUME StackInv PROVE FramesMatch
    OBVIOUS
  <1> DEFINE S == blocks[stack_base]
  <1>1. frame_base \in Int /\ frame_pointer \in Int /\ frame_pointer <= frame_base
    BY Numbers
  <1>2. frame_pointer = frame_base => pc \in {"c", "arguments", "result", "dead"}
    BY <1>1 DEF StackInv, InvPointer
  <1>3. Matches(Split(Stack))
    <2>1. CASE frame_pointer < frame_base - 1
      <3>1. Framed(S, frame_pointer, frame_base - 1)
        BY <1>1, <2>1 DEF StackInv, InvPointer
      <3>2. Stack = Words(S, frame_pointer, frame_base - 1)
        BY <2>1 DEF Stack
      <3>3. QED BY <3>1, <3>2, FramedSplit
    <2>2. CASE ~(frame_pointer < frame_base - 1)
      <3>1. Framed(S, 0, 0)
        BY FramedNone
      <3>2. Matches(Split(Words(S, 0, 0)))
        BY <3>1, FramedSplit
      <3>3. Words(S, 0, 0) = << >>
        <4>1. Words(S, 0, 0) = [i \in 1 .. 0 |-> S[0 + i - 1]]
          BY DEF Words
        <4>2. QED BY <4>1
      <3>4. Stack = << >>
        BY <2>2 DEF Stack
      <3>5. QED BY <3>2, <3>3, <3>4
    <2>3. QED BY <2>1, <2>2
  <1>4. ASSUME NEW i \in DOMAIN conts, conts[i].tag = "k" PROVE Matches(Split(ContWords(i)))
    <2> DEFINE x == conts[i]
    <2>1. FramesOf(blocks, stack_base, frame_base, x)
      BY <1>4 DEF StackInv, InvMemory, FramesOK
    <2>2. Framed(blocks[x.block], x.top, x.top + x.size)
      BY <2>1 DEF FramesOf
    <2>3. ContWords(i) = Words(blocks[x.block], x.top, x.top + x.size)
      BY DEF ContWords
    <2> HIDE DEF x
    <2>4. QED BY <2>2, <2>3, FramedSplit
  <1>5. QED BY <1>2, <1>3, <1>4 DEF FramesMatch

\* the words of the stack and those of each continuation are a sequence of
\* whole frames, each with the size that is stored before its return point: what
\* ik_underflow, the collector and call/cc rely on when they step over frames
THEOREM StackFramesMatch == StackSpec => []FramesMatch
  <1>1. QED BY InvFrames, StackInvariant, PTL

\* the system continuations on the chain are, in order, the calls of C
\* functions on the C stack: an underflow to one goes back to the C frame of the
\* foreign call that made it, and Scheme code runs under the newest ik_exec_code
THEOREM StackCStackMatches == StackSpec => []CStackMatches
  <1>1. StackInv => CStackMatches
    <2> SUFFICES ASSUME StackInv, pc \notin {"dead", "across"}
                 PROVE  /\ FirstSystem(next_k) = Caller(Len(cstack) + 1)
                        /\ \A i \in Calls :
                             LET k == conts[cstack[i].k] IN
                             /\ k.tag = "system" /\ k.top = i - 1 /\ cstack[i - 1].in = "ik_exec_code"
                             /\ FirstSystem(k.next) = Caller(i)
                        /\ pc \in {"scheme", "underflow", "reenter", "overflow"} =>
                             system_stack = Len(cstack) /\ cstack[system_stack].in = "ik_exec_code"
      BY DEF CStackMatches
    <2>1. \A k : FirstSystem(k) = FirstOf(conts, k)
      BY Zenon DEF FirstSystem, FirstOf
    <2>2. Calls = CallsOf(cstack)
      BY DEF Calls, CallsOf
    <2>3. \A i : Caller(i) = CallerOf(cstack, i)
      BY <2>2, Zenon DEF Caller, CallerOf
    <2>4. CShape(cstack) /\ Matched(conts, cstack, next_k)
      BY DEF StackInv, InvC
    <2>5. FirstOf(conts, next_k) = CallerOf(cstack, Len(cstack) + 1)
      BY <2>4 DEF Matched
    <2>6. ASSUME NEW i \in CallsOf(cstack)
          PROVE  LET k == conts[cstack[i].k] IN
                 /\ k.tag = "system" /\ k.top = i - 1 /\ cstack[i - 1].in = "ik_exec_code"
                 /\ FirstOf(conts, k.next) = CallerOf(cstack, i)
      BY <2>4, ShapeFacts DEF Matched
    <2>7. pc \in {"scheme", "underflow", "reenter", "overflow"} =>
            system_stack = Len(cstack) /\ cstack[system_stack].in = "ik_exec_code"
      BY DEF StackInv, InvC
    <2>8. QED BY <2>1, <2>2, <2>3, <2>5, <2>6, <2>7
  <1>2. QED BY <1>1, StackInvariant, PTL

-----------------------------------------------------------------------------
(* The refinement of Control                                                 *)
(*                                                                           *)
(* The frames of a program and the values on their way are those of a plain  *)
(* list, however the frames are sealed, split, copied back, moved to another *)
(* area or to the heap.  The list is read off the state as the row of frames *)
(* on the stack followed by the chain of continuations (ListIs).  Rows and   *)
(* chains are recursive functions: what they are is proved once, from their  *)
(* first frame (RowFirst) and first continuation (ChainLaws), and when two   *)
(* of them are equal, by looking at the places where they would differ       *)
(* (RowsAgree, ChainAgrees).  A step then only has to say what it leaves of  *)
(* each part.  InvTop is what StackInv lacks: while C runs, the stack holds  *)
(* no frame, so that what C is called above is a mark.                       *)

-----------------------------------------------------------------------------
(* Rows of frames *)

\* the frames in words top .. end - 1 of a block
RowOf(b, top, end) == Split(Words(b, top, end))
\* h says of each place what frames there are from it on
IsRows(b, top, end, h) ==
  /\ h[end] = << >>
  /\ \A k \in top .. end - 1 : b[k].w = "rp" => h[k] = <<Words(b, k, k + SizeAt(b, k))>> \o h[k + SizeAt(b, k)]

\* a part of a row of words is the words there
IsPart(b, top, end, i, k, n) == SubSeq(Words(b, top, end), i, i + n - 1) = Words(b, k, k + n)
\* words i .. i + n - 1 of a row are the words at the places they were read from
LEMMA PartOfWords ==
  ASSUME NEW b, NEW top \in Int, NEW end \in Int, NEW i \in Nat \ {0}, NEW n \in Nat \ {0},
         NEW at, at = top + i - 1, at + n <= end
  PROVE  IsPart(b, top, end, i, at, n)
  <1> DEFINE ws == Words(b, top, end)
             m == end - top
             k == top + i - 1
             W == {b[top + j - 1] : j \in 1 .. m}
  <1>1. m \in Nat /\ i \in 1 .. m /\ i + n - 1 \in 1 .. m /\ i <= i + n - 1
    OBVIOUS
  <1>2. ws = [j \in 1 .. m |-> b[top + j - 1]]
    BY DEF Words
  <1>3. ws \in Seq(W) /\ Len(ws) = m
    <2>1. \A j \in 1 .. m : b[top + j - 1] \in W
      OBVIOUS
    <2>2. ws \in [1 .. m -> W]
      <3> HIDE DEF W, m
      <3>1. QED BY <1>2, <2>1
    <2> HIDE DEF ws, W, m
    <2>3. QED BY <1>1, <2>2
  <1>4. \A j \in i .. i + n - 1 : ws[j] \in W
    <2> HIDE DEF ws, W
    <2> HIDE DEF m
    <2>1. \A j \in i .. i + n - 1 : j \in 1 .. m
      <3>1. m \in Int /\ 1 <= i /\ i + n - 1 <= m
        BY <1>1
      <3>2. QED BY <3>1
    <2>2. \A j \in 1 .. m : ws[j] \in W
      BY <1>3
    <2>3. QED BY <2>1, <2>2
  <1> DEFINE e == i + n - 1
             q == SubSeq(ws, i, e)
  <1>5. /\ q \in Seq(W) /\ Len(q) = n
        /\ \A j \in 1 .. n : q[j] = ws[i + j - 1]
    <2>1. i <= e /\ e - i + 1 = n /\ i \in 1 .. Len(ws) + 1 /\ e \in 0 .. Len(ws) /\ e \in Int
      BY <1>1, <1>3
    <2> HIDE DEF ws, W, e
    <2>2. /\ q \in Seq(W) /\ Len(q) = IF i <= e THEN e - i + 1 ELSE 0
          /\ \A j \in 1 .. e - i + 1 : q[j] = ws[i + j - 1]
      BY <1>3, <1>4, <2>1, SubSeqProperties DEF e
    <2>3. QED BY <2>1, <2>2
  <1>6. Words(b, k, k + n) = [j \in 1 .. n |-> b[k + j - 1]]
    BY DEF Words
  <1>7. \A j \in 1 .. n : q[j] = b[k + j - 1]
    <2> TAKE j \in 1 .. n
    <2>1. i + j - 1 \in 1 .. m /\ top + (i + j - 1) - 1 = k + j - 1
      BY <1>1
    <2>2. ws[i + j - 1] = b[top + (i + j - 1) - 1]
      BY <1>2, <2>1
    <2>3. QED BY <1>5, <2>1, <2>2
  <1>8. q = [j \in 1 .. n |-> q[j]]
    <2> HIDE DEF q, W
    <2>1. QED BY <1>5
  <1> HIDE DEF q
  <1>9. q = Words(b, k, k + n)
    BY <1>6, <1>7, <1>8
  <1>10. QED BY <1>9 DEF q, IsPart

\* Split is such an h
LEMMA RowsExist ==
  ASSUME NEW b, NEW top, NEW end, Framed(b, top, end)
  PROVE  \E h : IsRows(b, top, end, h) /\ h[top] = RowOf(b, top, end)
  <1> DEFINE n == end - top
             ws == Words(b, top, end)
             size == [i \in 1 .. n |-> SizeAt(b, top + i - 1)]
             g == CHOOSE g : IsSplit(ws, g)
             h == [k \in top .. end |-> g[k - top + 1]]
  <1>1. n \in Nat /\ top \in Int /\ end \in Int /\ top <= end
    BY DEF Framed
  <1>2. PICK W : ws \in Seq(W) /\ Len(ws) = n
    BY FramedWords
  <1>3. InFrames(ws, size)
    BY FramedSizes
  <1>4. IsSplit(ws, g)
    <2> HIDE DEF size, ws
    <2>1. \E x : IsSplit(ws, x)
      BY <1>2, <1>3, SplitExists
    <2>2. QED BY <2>1
  <1>5. Split(ws) = g[1]
    BY Zenon DEF Split, IsSplit
  <1>6. \A i \in 1 .. n : size[i] = SizeAt(b, top + i - 1) /\ ws[i] = b[top + i - 1]
    BY <1>1 DEF Words
  <1> HIDE DEF g, size, ws
  <1>7. h[end] = << >>
    <2>1. n + 1 \in 1 .. Len(ws) + 1 /\ n + 1 = Len(ws) + 1 /\ end - top + 1 = n + 1 /\ end \in top .. end
      BY <1>1, <1>2
    <2> DEFINE e == n + 1
    <2> HIDE DEF e
    <2>2. g[e] = << >>
      BY <1>2, <1>3, <1>4, <2>1, SplitAt DEF e
    <2>3. QED BY <2>1, <2>2 DEF e
  <1>8. ASSUME NEW k \in top .. end - 1, b[k].w = "rp"
        PROVE  h[k] = <<Words(b, k, k + SizeAt(b, k))>> \o h[k + SizeAt(b, k)]
    <2> DEFINE i == k - top + 1
               m == SizeAt(b, k)
    <2>1. k \in Int /\ i \in 1 .. n /\ i \in Nat \ {0} /\ top + i - 1 = k /\ k \in top .. end
      BY <1>1
    <2>2. m \in Nat \ {0} /\ k + m <= end
      BY <1>8 DEF Framed, FrameAt
    <2>3. size[i] = m /\ ws[i] = b[k]
      BY <1>6, <2>1
    <2>4. i \in 1 .. Len(ws) + 1 /\ i <= Len(ws) /\ ws[i].w = "rp"
      BY <1>1, <1>2, <1>8, <2>1, <2>3
    <2> HIDE DEF m, i
    <2>5. g[i] = <<SubSeq(ws, i, i + size[i] - 1)>> \o g[i + size[i]]
      BY <1>2, <1>3, <1>4, <2>4, SplitFrame
    <2>6. SubSeq(ws, i, i + m - 1) = Words(b, k, k + m)
      <3>1. IsPart(b, top, end, i, k, m)
        <4> HIDE DEF h, n
        <4>1. QED BY <1>1, <2>1, <2>2, PartOfWords
      <3>2. QED BY <3>1 DEF ws, IsPart
    <2>7. k + m \in top .. end /\ k + m - top + 1 = i + m
      BY <1>1, <2>1, <2>2 DEF i
    <2>8. h[k] = g[i] /\ h[k + m] = g[i + m]
      <3>1. \A j \in top .. end : h[j] = g[j - top + 1]
        OBVIOUS
      <3> DEFINE to == k + m
      <3> HIDE DEF h
      <3>2. to \in top .. end /\ to - top + 1 = i + m
        BY <1>1, <2>1, <2>2, <2>7
      <3>3. h[k] = g[i]
        <4>1. k - top + 1 = i
          BY DEF i
        <4> HIDE DEF i
        <4>2. h[k] = g[k - top + 1]
          BY <2>1, <3>1
        <4>3. QED BY <4>1, <4>2
      <3> HIDE DEF to
      <3>4. h[to] = g[i + m]
        <4>1. h[to] = g[to - top + 1]
          BY <3>1, <3>2
        <4>2. QED BY <3>2, <4>1
      <3>5. QED BY <3>3, <3>4 DEF to
    <2>9. QED BY <2>3, <2>5, <2>6, <2>8 DEF m
  <1>9. h[top] = RowOf(b, top, end)
    <2>1. top \in top .. end /\ top - top + 1 = 1
      BY <1>1
    <2>2. h[top] = g[1]
      BY <2>1
    <2>3. QED BY <1>5, <2>2 DEF RowOf, ws
  <1> HIDE DEF h
  <1>10. IsRows(b, top, end, h)
    BY <1>7, <1>8 DEF IsRows
  <1>11. QED BY <1>9, <1>10

\* and there is one only, where frames begin
LEMMA RowsAgree ==
  ASSUME NEW b, NEW top, NEW end, Framed(b, top, end), NEW low \in Int, low <= top, Framed(b, low, end),
         NEW g, IsRows(b, top, end, g), NEW h, IsRows(b, low, end, h)
  PROVE  g[top] = h[top]
  <1> DEFINE Differ(k) == (k = end \/ b[k].w = "rp") /\ g[k] # h[k]
             n == end - top
             T == {d \in 0 .. n : Differ(end - d)}
  <1>1. n \in Nat /\ top \in Int /\ end \in Int /\ top <= end /\ (top < end => b[top].w = "rp")
    BY DEF Framed
  <1>2. T = {}
    <2> SUFFICES ASSUME T # {} PROVE FALSE
      OBVIOUS
    <2>1. T \subseteq Nat
      OBVIOUS
    <2>2. PICK d \in T : \A e \in T : d <= e
      <3> HIDE DEF T
      <3>1. QED BY <2>1, LeastNumber
    <2>3. d \in 0 .. n /\ Differ(end - d)
      OBVIOUS
    <2> DEFINE k == end - d
               m == SizeAt(b, k)
    <2>4. k \in top .. end /\ k \in low .. end /\ d \in Int /\ k \in Int
      BY <1>1, <2>3
    <2>5. k # end
      <3>1. g[end] = << >> /\ h[end] = << >>
        BY DEF IsRows
      <3>2. QED BY <2>3, <3>1
    <2>6. k \in top .. end - 1 /\ k \in low .. end - 1 /\ b[k].w = "rp"
      BY <1>1, <2>3, <2>4, <2>5
    <2>7. FrameAt(b, k, end)
      BY <2>6 DEF Framed
    <2>8. m \in Nat \ {0} /\ k + m <= end /\ (k + m < end => b[k + m].w = "rp")
      BY <2>7 DEF FrameAt
    <2>9. /\ g[k] = <<Words(b, k, k + m)>> \o g[k + m]
          /\ h[k] = <<Words(b, k, k + m)>> \o h[k + m]
      BY <2>6 DEF IsRows
    <2>10. d - m \notin T
      <3>1. m > 0 /\ d - m < d /\ d - m \in Int
        <4> HIDE DEF m, T
        <4>1. QED BY <2>4, <2>8
      <3>2. QED BY <2>2, <2>4, <3>1
    <2>11. d - m \in 0 .. n /\ end - (d - m) = k + m
      <3> HIDE DEF m, T
      <3>1. d <= n /\ d = end - k
        BY <1>1, <2>3, <2>4
      <3>2. QED BY <1>1, <2>4, <2>8, <3>1
    <2>12. ~Differ(k + m)
      BY <2>10, <2>11
    <2>13. g[k + m] = h[k + m]
      <3>1. k + m = end \/ b[k + m].w = "rp"
        <4> HIDE DEF m, T, k
        <4>1. QED BY <1>1, <2>4, <2>8
      <3>2. QED BY <2>12, <3>1
    <2>14. QED BY <2>3, <2>9, <2>13
  <1>3. n \in 0 .. n /\ end - n = top
    BY <1>1
  <1>4. ~Differ(top)
    <2>1. n \notin T
      BY <1>2
    <2>2. QED BY <1>3, <2>1
  <1>5. top = end \/ b[top].w = "rp"
    BY <1>1
  <1>6. QED BY <1>4, <1>5

\* no words, no frames
LEMMA RowEmpty ==
  ASSUME NEW b, NEW top \in Int
  PROVE  RowOf(b, top, top) = << >>
  <1>1. Framed(b, top, top)
    BY FramedNone
  <1>2. PICK h : IsRows(b, top, top, h) /\ h[top] = RowOf(b, top, top)
    BY <1>1, RowsExist
  <1>3. QED BY <1>2 DEF IsRows

\* the first frame, and those after it
LEMMA RowFirst ==
  ASSUME NEW b, NEW top, NEW end, Framed(b, top, end), top < end, NEW size, size = SizeAt(b, top)
  PROVE  RowOf(b, top, end) = <<Words(b, top, top + size)>> \o RowOf(b, top + size, end)
  <1>1. /\ size \in Nat \ {0} /\ top + size <= end /\ b[top].w = "rp"
        /\ Framed(b, top + size, end) /\ top \in Int /\ end \in Int
    BY FramedRest DEF Framed
  <1>2. PICK h : IsRows(b, top, end, h) /\ h[top] = RowOf(b, top, end)
    BY RowsExist
  <1> DEFINE at == top + size
  <1>3. at \in Int /\ top <= at /\ Framed(b, at, end)
    BY <1>1
  <1> HIDE DEF at
  <1>4. PICK g : IsRows(b, at, end, g) /\ g[at] = RowOf(b, at, end)
    BY <1>3, RowsExist
  <1>5. g[at] = h[at]
    BY <1>1, <1>2, <1>3, <1>4, RowsAgree
  <1>6. top \in top .. end - 1
    BY <1>1
  <1>7. h[top] = <<Words(b, top, top + size)>> \o h[top + size]
    BY <1>1, <1>2, <1>6 DEF IsRows
  <1>8. QED BY <1>2, <1>4, <1>5, <1>7 DEF at

\* each of r is a frame: it begins with a return point
Plain(r) == \E W : r \in Seq(W) /\ \A x \in W : x[1].w = "rp"

\* what Split finds in a row of frames
LEMMA RowFrames ==
  ASSUME NEW b, NEW top, NEW end, Framed(b, top, end)
  PROVE  Plain(RowOf(b, top, end))
  <1> DEFINE K == {k \in top .. end - 1 : b[k].w = "rp"}
             W == {Words(b, k, k + SizeAt(b, k)) : k \in K}
             n == end - top
  <1>1. PICK h : IsRows(b, top, end, h) /\ h[top] = RowOf(b, top, end)
    BY RowsExist
  <1> DEFINE Bad(k) == (k = end \/ b[k].w = "rp") /\ h[k] \notin Seq(W)
             T == {d \in 0 .. n : Bad(end - d)}
  <1>2. n \in Nat /\ top \in Int /\ end \in Int /\ top <= end /\ (top < end => b[top].w = "rp")
    BY DEF Framed
  <1>3. T = {}
    <2> SUFFICES ASSUME T # {} PROVE FALSE
      OBVIOUS
    <2>1. T \subseteq Nat
      OBVIOUS
    <2>2. PICK d \in T : \A e \in T : d <= e
      <3> HIDE DEF T
      <3>1. QED BY <2>1, LeastNumber
    <2>3. d \in 0 .. n /\ Bad(end - d)
      OBVIOUS
    <2> DEFINE k == end - d
               m == SizeAt(b, k)
               f == Words(b, k, k + m)
    <2>4. k \in top .. end /\ d \in Int /\ k \in Int
      BY <1>2, <2>3
    <2>5. k # end
      <3>1. h[end] = << >> /\ << >> \in Seq(W)
        BY <1>1 DEF IsRows
      <3>2. QED BY <2>3, <3>1
    <2>6. k \in top .. end - 1 /\ b[k].w = "rp"
      BY <1>2, <2>3, <2>4, <2>5
    <2>7. FrameAt(b, k, end)
      BY <2>6 DEF Framed
    <2>8. m \in Nat \ {0} /\ k + m <= end /\ (k + m < end => b[k + m].w = "rp")
      BY <2>7 DEF FrameAt
    <2>9. h[k] = <<f>> \o h[k + m]
      BY <1>1, <2>6 DEF IsRows
    <2>10. d - m \notin T
      <3>1. m > 0 /\ d - m < d /\ d - m \in Int
        <4> HIDE DEF m, T
        <4>1. QED BY <2>4, <2>8
      <3>2. QED BY <2>2, <2>4, <3>1
    <2>11. d - m \in 0 .. n /\ end - (d - m) = k + m
      <3> HIDE DEF m, T
      <3>1. d <= n /\ d = end - k
        BY <1>2, <2>3, <2>4
      <3>2. QED BY <1>2, <2>4, <2>8, <3>1
    <2>12. ~Bad(k + m)
      BY <2>10, <2>11
    <2>13. h[k + m] \in Seq(W)
      <3>1. k + m = end \/ b[k + m].w = "rp"
        <4> HIDE DEF m, T, k
        <4>1. QED BY <1>2, <2>4, <2>8
      <3>2. QED BY <2>12, <3>1
    <2>14. f \in W
      BY <2>6
    <2> DEFINE r == h[k + m]
    <2>15. <<f>> \o r \in Seq(W)
      <3>1. r \in Seq(W)
        BY <2>13
      <3> HIDE DEF f, r, W
      <3>2. QED BY <2>14, <3>1, ConsFacts
    <2>16. QED BY <2>3, <2>9, <2>15
  <1>4. RowOf(b, top, end) \in Seq(W)
    <2>1. n \in 0 .. n /\ end - n = top
      BY <1>2
    <2>2. n \notin T
      BY <1>3
    <2>3. ~Bad(top)
      BY <2>1, <2>2
    <2>4. top = end \/ b[top].w = "rp"
      BY <1>2
    <2>5. QED BY <1>1, <2>3, <2>4
  <1>5. ASSUME NEW x \in W PROVE x[1].w = "rp"
    <2>1. PICK k \in K : x = Words(b, k, k + SizeAt(b, k))
      OBVIOUS
    <2> DEFINE m == SizeAt(b, k)
    <2>2. k \in top .. end - 1 /\ b[k].w = "rp" /\ k \in Int
      BY <1>2
    <2>3. m \in Nat \ {0}
      BY <2>2 DEF Framed, FrameAt
    <2>4. x[1] = b[k]
      <3> DEFINE e == k + m
      <3>1. x = Words(b, k, e)
        BY <2>1
      <3>2. 1 \in 1 .. e - k /\ k + 1 - 1 = k
        BY <2>2, <2>3
      <3> HIDE DEF e
      <3>3. x = [j \in 1 .. e - k |-> b[k + j - 1]]
        BY <3>1 DEF Words
      <3>4. QED BY <3>2, <3>3
    <2>5. QED BY <2>2, <2>4
  <1> HIDE DEF W
  <1>6. QED BY <1>4, <1>5 DEF Plain

\* the same words hold the same frames
LEMMA RowMoved ==
  ASSUME NEW b, NEW c, NEW top \in Int, NEW end \in Int, NEW d \in Int, Shifted(b, c, top, end, d)
  PROVE  RowOf(c, top + d, end + d) = RowOf(b, top, end)
  <1>1. (end + d) - (top + d) = end - top
    OBVIOUS
  <1>2. ASSUME NEW i \in 1 .. end - top PROVE c[(top + d) + i - 1] = b[top + i - 1]
    <2>1. top + i - 1 \in top .. end - 1 /\ (top + d) + i - 1 = (top + i - 1) + d
      OBVIOUS
    <2>2. QED BY <2>1 DEF Shifted
  <1> DEFINE n == end - top
             m == (end + d) - (top + d)
             u == [i \in 1 .. n |-> b[top + i - 1]]
             v == [i \in 1 .. m |-> c[(top + d) + i - 1]]
  <1>3. v = u
    BY <1>1, <1>2
  <1>4. Words(b, top, end) = u /\ Words(c, top + d, end + d) = v
    BY DEF Words
  <1>5. QED BY <1>3, <1>4 DEF RowOf

\* the frames in words that two blocks share are the same
LEMMA RowSame ==
  ASSUME NEW b, NEW c, NEW top \in Int, NEW end \in Int, \A j \in top .. end - 1 : c[j] = b[j]
  PROVE  RowOf(c, top, end) = RowOf(b, top, end)
  <1>1. Shifted(b, c, top, end, 0)
    BY DEF Shifted
  <1>2. RowOf(c, top + 0, end + 0) = RowOf(b, top, end)
    BY <1>1, RowMoved
  <1>3. top + 0 = top /\ end + 0 = end
    OBVIOUS
  <1>4. QED BY <1>2, <1>3

\* one frame
LEMMA RowOne ==
  ASSUME NEW b, NEW top \in Int, NEW size \in Nat \ {0}, OneFrame(b, top, size)
  PROVE  RowOf(b, top, top + size) = <<Words(b, top, top + size)>>
  <1> DEFINE e == top + size
             f == Words(b, top, e)
  <1>1. Framed(b, top, e) /\ size = SizeAt(b, top) /\ top < e /\ e \in Int
    BY DEF OneFrame
  <1>2. RowOf(b, top, e) = <<Words(b, top, top + size)>> \o RowOf(b, top + size, e)
    <2> HIDE DEF e
    <2>1. QED BY <1>1, RowFirst
  <1>3. RowOf(b, e, e) = << >>
    <2> HIDE DEF e
    <2>1. QED BY <1>1, RowEmpty
  <1>4. RowOf(b, top, e) = <<f>> \o << >>
    BY <1>2, <1>3
  <1>5. <<f>> \o << >> = <<f>>
    <2> HIDE DEF f
    <2>1. QED OBVIOUS
  <1>6. QED BY <1>4, <1>5

-----------------------------------------------------------------------------
(* Sequences end to end *)

\* what is at each place of two sequences end to end
LEMMA JoinFacts ==
  ASSUME NEW S, NEW s \in Seq(S), NEW T, NEW t \in Seq(T)
  PROVE  /\ s \o t \in Seq(S \cup T) /\ Len(s \o t) = Len(s) + Len(t)
         /\ \A i \in 1 .. Len(s) : (s \o t)[i] = s[i]
         /\ \A i \in 1 .. Len(t) : (s \o t)[Len(s) + i] = t[i]
  OBVIOUS

\* three sequences end to end
LEMMA JoinAssociative ==
  ASSUME NEW S, NEW s \in Seq(S), NEW T, NEW t \in Seq(T), NEW U, NEW u \in Seq(U)
  PROVE  (s \o t) \o u = s \o (t \o u)
  OBVIOUS

\* nothing joined to a sequence
LEMMA JoinNone ==
  ASSUME NEW S, NEW s \in Seq(S)
  PROVE  << >> \o s = s /\ s \o << >> = s
  OBVIOUS

-----------------------------------------------------------------------------
(* The frames of a chain *)

\* the frames of continuation i, or the mark of a foreign call
PartOf(bs, cs, i) ==
  IF cs[i].tag = "system" THEN <<MarkOf(i)>>
  ELSE RowOf(bs[cs[i].block], cs[i].top, cs[i].top + cs[i].size)

\* Chain, of blocks bs and continuations cs
ChainOf(bs, cs, k) ==
  LET from[i \in DOMAIN cs \cup {0}] ==
        IF i = 0 THEN <<>>
        ELSE IF cs[i].tag = "system" THEN <<MarkOf(i)>> \o from[cs[i].next]
        ELSE Split(Words(bs[cs[i].block], cs[i].top, cs[i].top + cs[i].size)) \o from[cs[i].next]
  IN  from[k]
IsChain(bs, cs, g) ==
  g = [i \in DOMAIN cs \cup {0} |->
        IF i = 0 THEN <<>>
        ELSE IF cs[i].tag = "system" THEN <<MarkOf(i)>> \o g[cs[i].next]
        ELSE Split(Words(bs[cs[i].block], cs[i].top, cs[i].top + cs[i].size)) \o g[cs[i].next]]

\* every continuation is whole frames
Chained(bs, cs) ==
  /\ WellLinked(cs) /\ Records(cs)
  /\ \A i \in DOMAIN cs : cs[i].tag = "k" => Framed(bs[cs[i].block], cs[i].top, cs[i].top + cs[i].size)

\* each of r is a frame or a mark of a system continuation
IsWait(cs, x) == x[1].w = "rp" \/ \E j \in DOMAIN cs : x = MarkOf(j)
Waits(cs, r) == \E W : r \in Seq(W) /\ \A x \in W : IsWait(cs, x)

\* continuations as StackInv has them are whole frames
LEMMA ChainedFrames ==
  ASSUME NEW bs, NEW a, NEW fb, NEW cs, FramesOK(bs, a, fb, cs), NEW nk, NEW ss, ContsOK(cs, nk, ss)
  PROVE  Chained(bs, cs)
  BY DEF FramesOK, FramesOf, ContsOK, Chained

\* what a continuation holds is frames, or a mark
LEMMA PartWaits ==
  ASSUME NEW bs, NEW cs, Chained(bs, cs), NEW i \in DOMAIN cs
  PROVE  Waits(cs, PartOf(bs, cs, i))
  <1>1. CASE cs[i].tag = "system"
    <2> DEFINE x == MarkOf(i)
    <2>1. IsWait(cs, x)
      BY DEF IsWait
    <2>2. PartOf(bs, cs, i) = <<x>>
      BY <1>1 DEF PartOf
    <2> HIDE DEF x
    <2>3. <<x>> \in Seq({x})
      OBVIOUS
    <2>4. \A y \in {x} : IsWait(cs, y)
      BY <2>1
    <2> DEFINE W == {x}
               r == <<x>>
    <2>5. r \in Seq(W) /\ \A y \in W : IsWait(cs, y)
      BY <2>3, <2>4
    <2> HIDE DEF r, W
    <2>6. Waits(cs, r)
      BY <2>5 DEF Waits
    <2>7. QED BY <2>2, <2>6 DEF r
  <1>2. CASE cs[i].tag # "system"
    <2>1. cs[i].tag = "k"
      BY <1>2 DEF Chained, Records
    <2> DEFINE b == bs[cs[i].block]
               top == cs[i].top
               end == cs[i].top + cs[i].size
    <2>2. Framed(b, top, end)
      BY <2>1 DEF Chained
    <2>3. PartOf(bs, cs, i) = RowOf(b, top, end)
      BY <1>2 DEF PartOf
    <2> HIDE DEF b, top, end
    <2>4. Plain(RowOf(b, top, end))
      BY <2>2, RowFrames
    <2>5. QED BY <2>3, <2>4 DEF Plain, Waits, IsWait
  <1>3. QED BY <1>1, <1>2

\* frames and marks, followed by frames and marks
LEMMA WaitsJoin ==
  ASSUME NEW cs, NEW r, Waits(cs, r), NEW s, Waits(cs, s)
  PROVE  Waits(cs, r \o s)
  <1>1. PICK V : r \in Seq(V) /\ \A x \in V : IsWait(cs, x)
    BY DEF Waits
  <1>2. PICK W : s \in Seq(W) /\ \A x \in W : IsWait(cs, x)
    BY DEF Waits
  <1>3. r \o s \in Seq(V \cup W)
    BY <1>1, <1>2, JoinFacts
  <1>4. \A x \in V \cup W : IsWait(cs, x)
    BY <1>1, <1>2
  <1>5. QED BY <1>3, <1>4 DEF Waits

\* Chain is defined
LEMMA ChainExists ==
  ASSUME NEW bs, NEW cs, Chained(bs, cs)
  PROVE  \E g : IsChain(bs, cs, g)
  <1> DEFINE E == DOMAIN cs \cup {0}
             D == DOMAIN cs
             part(i) == PartOf(bs, cs, i)
             U == UNION {ToSet(part(i)) : i \in D}
             V == Seq(U)
             next == [i \in D |-> cs[i].next]
             base == [i \in E |-> << >>]
             step == [i \in D |-> [x \in V |-> part(i) \o x]]
  <1>1. WellLinked(cs) /\ 0 \notin D
    BY StackAssumption DEF Chained, WellLinked
  <1>2. Falls(D, E, next)
    <2>1. D \subseteq E /\ next \in [D -> E]
      BY <1>1 DEF WellLinked
    <2>2. ASSUME NEW S \in SUBSET D, S # {} PROVE \E i \in S : next[i] \notin S
      <3>1. PICK i \in S : cs[i].next \notin S
        BY <1>1, <2>2 DEF WellLinked
      <3>2. QED BY <3>1
    <2> HIDE DEF D, E, next
    <2>3. QED BY <2>1, <2>2 DEF Falls, Grounded
  <1>3. ASSUME NEW i \in D, NEW x \in V PROVE part(i) \o x \in V
    <2> DEFINE p == part(i)
    <2>1. PICK W : p \in Seq(W)
      BY PartWaits DEF Waits
    <2>2. p \in Seq(ToSet(p)) /\ ToSet(p) \subseteq U
      <3>1. ToSet(p) \subseteq U
        OBVIOUS
      <3> HIDE DEF p, U
      <3>2. QED BY <2>1, <3>1, OfItsElements
    <2> HIDE DEF p, U
    <2>3. p \in Seq(U)
      BY <2>2
    <2>4. p \o x \in Seq(U)
      BY <2>3
    <2>5. QED BY <2>4 DEF p
  <1>4. base \in [E -> V] /\ step \in [D -> [V -> V]]
    <2>1. << >> \in V
      <3> HIDE DEF U
      <3>1. QED OBVIOUS
    <2> HIDE DEF V, D, E, part
    <2>2. QED BY <1>3, <2>1
  <1>5. PICK g \in [E -> V] : Along(D, E, next, base, step, g)
    <2> HIDE DEF D, E, next, base, step, V
    <2>1. QED BY <1>2, <1>4, AlongExists
  <1> DEFINE made(i) ==
        IF i = 0 THEN <<>>
        ELSE IF cs[i].tag = "system" THEN <<MarkOf(i)>> \o g[cs[i].next]
        ELSE Split(Words(bs[cs[i].block], cs[i].top, cs[i].top + cs[i].size)) \o g[cs[i].next]
  <1>6. ASSUME NEW i \in E PROVE g[i] = made(i)
    <2>1. g[i] = IF i \in D THEN step[i][g[next[i]]] ELSE base[i]
      BY <1>5 DEF Along
    <2>2. CASE i \in D
      <3>1. next[i] = cs[i].next /\ next[i] \in E /\ i # 0
        BY <1>1, <2>2 DEF WellLinked
      <3> DEFINE x == g[next[i]]
      <3>2. x \in V
        <4> HIDE DEF V
        <4>1. QED BY <1>5, <3>1
      <3>3. step[i][x] = part(i) \o x
        <4> HIDE DEF x, V, part
        <4>1. QED BY <2>2, <3>2
      <3> HIDE DEF E, next, base, step, V, D
      <3>4. g[i] = part(i) \o x
        BY <2>1, <2>2, <3>3
      <3>5. made(i) = part(i) \o x
        BY <3>1 DEF PartOf, RowOf
      <3>6. QED BY <3>4, <3>5
    <2>3. CASE i \notin D
      <3>1. i = 0 /\ base[i] = << >>
        BY <2>3
      <3> HIDE DEF D, E, base, step, next
      <3>2. QED BY <2>1, <2>3, <3>1
    <2>4. QED BY <2>2, <2>3
  <1>7. g = [i \in E |-> made(i)]
    <2>1. g = [i \in E |-> g[i]]
      <3> HIDE DEF V, E
      <3>1. QED BY <1>5
    <2> HIDE DEF E, made
    <2>2. QED BY <2>1, <1>6
  <1>8. IsChain(bs, cs, g)
    BY <1>7 DEF IsChain
  <1>9. QED BY <1>8

\* and is the parts, one after the other
LEMMA ChainLaws ==
  ASSUME NEW bs, NEW cs, Chained(bs, cs)
  PROVE  /\ ChainOf(bs, cs, 0) = << >>
         /\ \A i \in DOMAIN cs : ChainOf(bs, cs, i) = PartOf(bs, cs, i) \o ChainOf(bs, cs, cs[i].next)
  <1> DEFINE g == CHOOSE g : IsChain(bs, cs, g)
  <1>1. IsChain(bs, cs, g)
    BY ChainExists
  <1>2. \A k : ChainOf(bs, cs, k) = g[k]
    BY Zenon DEF ChainOf, IsChain
  <1>3. 0 \notin DOMAIN cs
    BY StackAssumption DEF Chained, WellLinked
  <1> HIDE DEF g
  <1>4. g[0] = << >>
    BY <1>1 DEF IsChain
  <1>5. ASSUME NEW i \in DOMAIN cs PROVE g[i] = PartOf(bs, cs, i) \o g[cs[i].next]
    <2>1. i \in DOMAIN cs \cup {0} /\ i # 0
      BY <1>3
    <2>2. g[i] = IF cs[i].tag = "system" THEN <<MarkOf(i)>> \o g[cs[i].next]
                 ELSE Split(Words(bs[cs[i].block], cs[i].top, cs[i].top + cs[i].size)) \o g[cs[i].next]
      BY <1>1, <2>1 DEF IsChain
    <2>3. QED BY <2>2 DEF PartOf, RowOf
  <1>6. QED BY <1>2, <1>4, <1>5

\* what is on a chain
LEMMA ChainWaits ==
  ASSUME NEW bs, NEW cs, Chained(bs, cs), NEW k \in DOMAIN cs \cup {0}
  PROVE  Waits(cs, ChainOf(bs, cs, k))
  <1> DEFINE T == {i \in DOMAIN cs : ~Waits(cs, ChainOf(bs, cs, i))}
  <1>1. Waits(cs, ChainOf(bs, cs, 0))
    <2>1. ChainOf(bs, cs, 0) = << >>
      BY ChainLaws
    <2>2. << >> \in Seq({}) /\ \A x \in {} : IsWait(cs, x)
      OBVIOUS
    <2> DEFINE W == {}
    <2>3. << >> \in Seq(W) /\ \A x \in W : IsWait(cs, x)
      BY <2>2
    <2> HIDE DEF W
    <2>4. Waits(cs, << >>)
      BY <2>3 DEF Waits
    <2>5. QED BY <2>1, <2>4
  <1>2. ASSUME T # {} PROVE FALSE
    <2>1. T \in SUBSET DOMAIN cs
      OBVIOUS
    <2>2. PICK i \in T : cs[i].next \notin T
      <3> HIDE DEF T
      <3>1. QED BY <1>2, <2>1 DEF Chained, WellLinked
    <2>3. i \in DOMAIN cs /\ cs[i].next \in DOMAIN cs \cup {0}
      BY DEF Chained, WellLinked
    <2>4. Waits(cs, ChainOf(bs, cs, cs[i].next))
      BY <1>1, <2>2, <2>3
    <2>5. Waits(cs, PartOf(bs, cs, i))
      BY <2>3, PartWaits
    <2>6. ChainOf(bs, cs, i) = PartOf(bs, cs, i) \o ChainOf(bs, cs, cs[i].next)
      BY <2>3, ChainLaws
    <2>7. Waits(cs, ChainOf(bs, cs, i))
      BY <2>4, <2>5, <2>6, WaitsJoin
    <2>8. QED BY <2>7
  <1>3. QED BY <1>1, <1>2

\* where each part of cs is still followed by what followed it, nothing is lost
Follows(bs, cs, bt, ds, R) ==
  /\ R \subseteq DOMAIN cs
  /\ \A i \in R :
       /\ cs[i].next \in R \cup {0}
       /\ ChainOf(bt, ds, i) = PartOf(bs, cs, i) \o ChainOf(bt, ds, cs[i].next)

\* two chains with the same parts in the same order are the same list: of the
\* places where they differ, one would lead out of the others (WellLinked)
LEMMA ChainAgrees ==
  ASSUME NEW bs, NEW cs, Chained(bs, cs), NEW bt, NEW ds, Chained(bt, ds), NEW R,
         Follows(bs, cs, bt, ds, R), NEW k \in R \cup {0}
  PROVE  ChainOf(bt, ds, k) = ChainOf(bs, cs, k)
  <1> DEFINE T == {i \in R : ChainOf(bt, ds, i) # ChainOf(bs, cs, i)}
  <1>1. ChainOf(bt, ds, 0) = ChainOf(bs, cs, 0)
    <2>1. ChainOf(bt, ds, 0) = << >> /\ ChainOf(bs, cs, 0) = << >>
      BY ChainLaws
    <2>2. QED BY <2>1
  <1>2. ASSUME T # {} PROVE FALSE
    <2>1. T \in SUBSET DOMAIN cs
      BY DEF Follows
    <2>2. PICK i \in T : cs[i].next \notin T
      <3> HIDE DEF T
      <3>1. QED BY <1>2, <2>1 DEF Chained, WellLinked
    <2>3. /\ i \in DOMAIN cs /\ cs[i].next \in R \cup {0}
          /\ ChainOf(bt, ds, i) = PartOf(bs, cs, i) \o ChainOf(bt, ds, cs[i].next)
      BY DEF Follows
    <2>4. ChainOf(bt, ds, cs[i].next) = ChainOf(bs, cs, cs[i].next)
      BY <1>1, <2>2, <2>3
    <2>5. ChainOf(bs, cs, i) = PartOf(bs, cs, i) \o ChainOf(bs, cs, cs[i].next)
      BY <2>3, ChainLaws
    <2>6. QED BY <2>3, <2>4, <2>5
  <1>3. QED BY <1>1, <1>2

\* in particular where each part is the same
PartsKept(bs, cs, bt, ds, R) ==
  /\ R \subseteq DOMAIN cs /\ R \subseteq DOMAIN ds
  /\ \A i \in R :
       /\ cs[i].next \in R \cup {0} /\ ds[i].next = cs[i].next
       /\ PartOf(bt, ds, i) = PartOf(bs, cs, i)

\* continuations that keep their parts keep their chains
LEMMA ChainKept ==
  ASSUME NEW bs, NEW cs, Chained(bs, cs), NEW bt, NEW ds, Chained(bt, ds), NEW R,
         PartsKept(bs, cs, bt, ds, R), NEW k \in R \cup {0}
  PROVE  ChainOf(bt, ds, k) = ChainOf(bs, cs, k)
  <1>1. ASSUME NEW i \in R
        PROVE  /\ cs[i].next \in R \cup {0}
               /\ ChainOf(bt, ds, i) = PartOf(bs, cs, i) \o ChainOf(bt, ds, cs[i].next)
    <2>1. i \in DOMAIN ds /\ cs[i].next \in R \cup {0} /\ ds[i].next = cs[i].next
          /\ PartOf(bt, ds, i) = PartOf(bs, cs, i)
      BY DEF PartsKept
    <2>2. ChainOf(bt, ds, i) = PartOf(bt, ds, i) \o ChainOf(bt, ds, ds[i].next)
      BY <2>1, ChainLaws
    <2>3. QED BY <2>1, <2>2
  <1>2. Follows(bs, cs, bt, ds, R)
    BY <1>1 DEF Follows, PartsKept
  <1>3. QED BY <1>2, ChainAgrees

\* Chain is ChainOf
LEMMA ChainIs == \A k : Chain(k) = ChainOf(blocks, conts, k)
  BY Zenon DEF Chain, ChainOf, ContWords

\* ... and after a step
LEMMA ChainIsNext == \A k : Chain(k)' = ChainOf(blocks', conts', k)
  BY Zenon DEF Chain, ChainOf, ContWords

-----------------------------------------------------------------------------
(* Marks *)

Marks == {MarkOf(i) : i \in Ids}
Edge(c) == Abstract!Boundary(c)

\* no two continuations have the same mark, no frame is a mark, and NoCont starts no list
LEMMA MarksDiffer ==
  /\ \A i, j : MarkOf(i) = MarkOf(j) => i = j
  /\ \A x : x[1].w = "rp" => x \notin Marks
  /\ \A cs, x : WellLinked(cs) /\ IsWait(cs, x) => x # NoCont[1] /\ (x \in Marks \/ x[1].w = "rp")
  <1>1. \A i : MarkOf(i)[1] = [w |-> "mark", k |-> i]
    BY DEF MarkOf
  <1>2. ASSUME NEW i PROVE MarkOf(i)[1].w = "mark" /\ MarkOf(i)[1].k = i
    <2> DEFINE r == [w |-> "mark", k |-> i]
    <2>1. r.w = "mark" /\ r.k = i
      OBVIOUS
    <2>2. MarkOf(i)[1] = r
      BY <1>1
    <2> HIDE DEF r
    <2>3. QED BY <2>1, <2>2
  <1>3. NoCont[1][1].w = "none"
    BY DEF NoCont
  <1>4. ASSUME NEW cs, NEW x, WellLinked(cs), IsWait(cs, x)
        PROVE  x # NoCont[1] /\ (x \in Marks \/ x[1].w = "rp")
    <2>1. CASE x[1].w = "rp"
      BY <1>3, <2>1
    <2>2. CASE \E j \in DOMAIN cs : x = MarkOf(j)
      <3>1. PICK j \in DOMAIN cs : x = MarkOf(j)
        BY <2>2
      <3>2. j \in Ids
        BY <1>4, <3>1 DEF WellLinked
      <3>3. x[1].w = "mark"
        BY <1>2, <3>1
      <3>4. QED BY <1>3, <3>1, <3>2, <3>3 DEF Marks
    <2>3. QED BY <1>4, <2>1, <2>2 DEF IsWait
  <1>5. QED BY <1>2, <1>4 DEF Marks

\* the innermost mark is not in frames before it
LEMMA EdgeAfter ==
  ASSUME NEW r, Plain(r), NEW S, NEW s \in Seq(S)
  PROVE  Edge(r \o s) = Edge(s)
  <1>1. PICK W : r \in Seq(W) /\ \A x \in W : x[1].w = "rp"
    BY DEF Plain
  <1> DEFINE t == r \o s
             n == Len(r)
             m == Len(s)
  <1>2. /\ t \in Seq(W \cup S) /\ Len(t) = n + m /\ n \in Nat /\ m \in Nat
        /\ \A i \in 1 .. n : t[i] = r[i]
        /\ \A i \in 1 .. m : t[n + i] = s[i]
        /\ DOMAIN t = 1 .. n + m /\ DOMAIN s = 1 .. m
    BY <1>1, JoinFacts
  <1>3. \A i \in 1 .. n : t[i] \notin Marks
    BY <1>1, <1>2, MarksDiffer
  <1> HIDE DEF t, n, m
  <1>4. ASSUME NEW x \in Edge(t) PROVE x \in Edge(s)
    <2>1. PICK j \in DOMAIN t : x = t[j] /\ t[j] \in Marks /\ \A h \in 1 .. j - 1 : t[h] \notin Marks
      BY <1>4 DEF Edge, Abstract!Boundary, Marks
    <2> DEFINE i == j - n
    <2>2. j \in Int /\ 1 <= j /\ j <= n + m
      BY <1>2, <2>1
    <2>3. n < j
      BY <1>2, <1>3, <2>1, <2>2
    <2>4. i \in 1 .. m /\ n + i = j
      BY <1>2, <2>2, <2>3
    <2>5. s[i] = x
      BY <1>2, <2>1, <2>4
    <2>6. \A h \in 1 .. i - 1 : s[h] \notin Marks
      <3> TAKE h \in 1 .. i - 1
      <3>1. h \in 1 .. m /\ n + h \in 1 .. j - 1
        BY <1>2, <2>2, <2>3
      <3>2. QED BY <1>2, <2>1, <3>1
    <2> HIDE DEF i
    <2>7. QED BY <1>2, <2>1, <2>4, <2>5, <2>6 DEF Edge, Abstract!Boundary, Marks
  <1>5. ASSUME NEW x \in Edge(s) PROVE x \in Edge(t)
    <2>1. PICK i \in DOMAIN s : x = s[i] /\ s[i] \in Marks /\ \A h \in 1 .. i - 1 : s[h] \notin Marks
      BY <1>5 DEF Edge, Abstract!Boundary, Marks
    <2> DEFINE j == n + i
    <2>2. i \in 1 .. m /\ i \in Int
      BY <1>2, <2>1
    <2>3. j \in DOMAIN t /\ t[j] = x
      BY <1>2, <2>1, <2>2
    <2>4. \A h \in 1 .. j - 1 : t[h] \notin Marks
      <3> TAKE h \in 1 .. j - 1
      <3>1. CASE h <= n
        BY <1>2, <1>3, <2>2, <3>1
      <3>2. CASE h > n
        <4> DEFINE e == h - n
        <4>1. e \in 1 .. i - 1 /\ e \in 1 .. m /\ n + e = h
          BY <1>2, <2>2, <3>2
        <4>2. t[n + e] = s[e] /\ s[e] \notin Marks
          BY <1>2, <2>1, <4>1
        <4>3. QED BY <4>1, <4>2
      <3>3. QED BY <1>2, <2>2, <3>1, <3>2
    <2> HIDE DEF j
    <2>5. QED BY <2>1, <2>3, <2>4 DEF Edge, Abstract!Boundary, Marks
  <1>6. Edge(t) = Edge(s)
    BY <1>4, <1>5
  <1>7. QED BY <1>6 DEF t

\* a mark comes before what follows it
LEMMA EdgeFirst ==
  ASSUME NEW k \in Ids, NEW S, NEW s \in Seq(S)
  PROVE  Edge(<<MarkOf(k)>> \o s) = {MarkOf(k)}
  <1> DEFINE x == MarkOf(k)
             t == <<x>> \o s
             n == Len(s)
  <1>1. x \in Marks
    BY DEF Marks
  <1> HIDE DEF x
  <1>2. t[1] = x /\ DOMAIN t = 1 .. n + 1 /\ n \in Nat
    OBVIOUS
  <1> HIDE DEF t, n
  <1>3. ASSUME NEW y \in Edge(t) PROVE y = x
    <2>1. PICK j \in DOMAIN t : y = t[j] /\ t[j] \in Marks /\ \A h \in 1 .. j - 1 : t[h] \notin Marks
      BY <1>3 DEF Edge, Abstract!Boundary, Marks
    <2>2. j = 1
      BY <1>1, <1>2, <2>1
    <2>3. QED BY <1>2, <2>1, <2>2
  <1>4. x \in Edge(t)
    <2>1. 1 \in DOMAIN t /\ \A h \in 1 .. 1 - 1 : t[h] \notin Marks
      BY <1>2
    <2>2. QED BY <1>1, <1>2, <2>1 DEF Edge, Abstract!Boundary, Marks
  <1>5. Edge(t) = {x}
    BY <1>3, <1>4
  <1>6. QED BY <1>5 DEF t, x

\* no mark where nothing waits
LEMMA EdgeNone == Edge(<< >>) = {}
  BY DEF Edge, Abstract!Boundary

\* the innermost mark of a chain is that of its first system continuation
LEMMA ChainEdge ==
  ASSUME NEW bs, NEW cs, Chained(bs, cs), NEW k \in DOMAIN cs \cup {0}
  PROVE  Edge(ChainOf(bs, cs, k)) = IF FirstOf(cs, k) = 0 THEN {} ELSE {MarkOf(FirstOf(cs, k))}
  <1> DEFINE Good(i) == Edge(ChainOf(bs, cs, i)) = IF FirstOf(cs, i) = 0 THEN {} ELSE {MarkOf(FirstOf(cs, i))}
             T == {i \in DOMAIN cs : ~Good(i)}
  <1>1. WellLinked(cs) /\ DOMAIN cs \subseteq Ids /\ 0 \notin Ids /\ Records(cs)
    BY StackAssumption DEF Chained, WellLinked
  <1>2. Good(0)
    <2>1. ChainOf(bs, cs, 0) = << >> /\ FirstOf(cs, 0) = 0
      BY <1>1, ChainLaws, FirstLaws
    <2>2. QED BY <2>1, EdgeNone
  <1>3. ASSUME T # {} PROVE FALSE
    <2>1. T \in SUBSET DOMAIN cs
      OBVIOUS
    <2>2. PICK i \in T : cs[i].next \notin T
      <3> HIDE DEF T
      <3>1. QED BY <1>1, <1>3, <2>1 DEF WellLinked
    <2>3. i \in DOMAIN cs /\ cs[i].next \in DOMAIN cs \cup {0} /\ ~Good(i) /\ i \in Ids /\ i # 0
      BY <1>1 DEF WellLinked
    <2> DEFINE rest == ChainOf(bs, cs, cs[i].next)
               part == PartOf(bs, cs, i)
    <2>4. Good(cs[i].next)
      BY <1>2, <2>2, <2>3
    <2>5. PICK S : rest \in Seq(S)
      BY <2>3, ChainWaits DEF Waits
    <2>6. ChainOf(bs, cs, i) = part \o rest
      BY <2>3, ChainLaws
    <2>7. FirstOf(cs, i) = IF i = 0 \/ cs[i].tag = "system" THEN i ELSE FirstOf(cs, cs[i].next)
      BY <1>1, <2>3, FirstLaws
    <2>8. CASE cs[i].tag = "system"
      <3>1. part = <<MarkOf(i)>>
        BY <2>8 DEF PartOf
      <3>2. Edge(part \o rest) = {MarkOf(i)}
        <4> HIDE DEF part, rest
        <4>1. QED BY <2>3, <2>5, <3>1, EdgeFirst
      <3>3. FirstOf(cs, i) = i
        BY <2>7, <2>8
      <3>4. QED BY <2>3, <2>6, <3>2, <3>3
    <2>9. CASE cs[i].tag # "system"
      <3>1. cs[i].tag = "k"
        BY <1>1, <2>3, <2>9 DEF Records
      <3>2. Plain(part)
        <4>1. Framed(bs[cs[i].block], cs[i].top, cs[i].top + cs[i].size)
          BY <2>3, <3>1 DEF Chained
        <4>2. part = RowOf(bs[cs[i].block], cs[i].top, cs[i].top + cs[i].size)
          BY <2>9 DEF PartOf
        <4>3. QED BY <4>1, <4>2, RowFrames
      <3>3. Edge(part \o rest) = Edge(rest)
        <4> HIDE DEF part, rest
        <4>1. QED BY <2>5, <3>2, EdgeAfter
      <3>4. FirstOf(cs, i) = FirstOf(cs, cs[i].next)
        BY <2>3, <2>7, <2>9
      <3>5. QED BY <2>3, <2>4, <2>6, <3>3, <3>4
    <2>10. QED BY <2>8, <2>9
  <1>4. QED BY <1>2, <1>3

\* two chains have the same innermost mark if and only if they have the same
\* first system continuation
LEMMA EdgesEqual ==
  ASSUME NEW bs, NEW cs, Chained(bs, cs), NEW j \in DOMAIN cs \cup {0}, NEW k \in DOMAIN cs \cup {0}
  PROVE  Edge(ChainOf(bs, cs, j)) = Edge(ChainOf(bs, cs, k)) <=> FirstOf(cs, j) = FirstOf(cs, k)
  <1> DEFINE J == FirstOf(cs, j)
             K == FirstOf(cs, k)
  <1>1. Edge(ChainOf(bs, cs, j)) = IF J = 0 THEN {} ELSE {MarkOf(J)}
    BY ChainEdge
  <1>2. Edge(ChainOf(bs, cs, k)) = IF K = 0 THEN {} ELSE {MarkOf(K)}
    BY ChainEdge
  <1> HIDE DEF J, K
  <1>3. QED BY <1>1, <1>2, MarksDiffer DEF J, K

-----------------------------------------------------------------------------
(* What waits, and the values on their way *)

\* the frames of the stack
TopRow(b, fp, fb) == IF fp < fb - 1 THEN RowOf(b, fp, fb - 1) ELSE << >>

\* no words are no frames
LEMMA SplitNone == Split(<< >>) = << >>
  <1>1. ASSUME NEW b PROVE Words(b, 0, 0) = << >>
    BY DEF Words
  <1>2. ASSUME NEW b PROVE Split(Words(b, 0, 0)) = << >>
    BY RowEmpty DEF RowOf
  <1>3. Words(0, 0, 0) = << >> /\ Split(Words(0, 0, 0)) = << >>
    BY <1>1, <1>2
  <1>4. QED BY <1>3

\* what waits is the frames of the stack, then those of the continuations
LEMMA WaitingIs ==
  Waiting = TopRow(blocks[stack_base], frame_pointer, frame_base) \o ChainOf(blocks, conts, next_k)
  <1>1. Split(Stack) = TopRow(blocks[stack_base], frame_pointer, frame_base)
    BY SplitNone, Zenon DEF Stack, TopRow, RowOf
  <1>2. QED BY <1>1, ChainIs, Zenon DEF Waiting

\* ... and after a step
LEMMA WaitingIsNext ==
  Waiting' = TopRow(blocks'[stack_base'], frame_pointer', frame_base') \o ChainOf(blocks', conts', next_k')
  <1>1. Split(Stack') = TopRow(blocks'[stack_base'], frame_pointer', frame_base')
    BY SplitNone, Zenon DEF Stack, TopRow, RowOf
  <1>2. Chain(next_k)' = ChainOf(blocks', conts', next_k')
    BY Zenon DEF Chain, ChainOf, ContWords
  <1>3. QED BY <1>1, <1>2, Zenon DEF Waiting

GotOf(b, fp, n) == [i \in 1 .. n |-> b[fp - i].v]

\* the values below a return point, the first one next to it
LEMMA GotWords ==
  ASSUME NEW b, NEW fp \in Int, NEW n \in Nat, NEW ws, ws = Reverse(Words(b, fp - n, fp))
  PROVE  [i \in DOMAIN ws |-> ws[i].v] = GotOf(b, fp, n)
  <1> DEFINE u == Words(b, fp - n, fp)
             low == fp - n
             m == fp - low
  <1>1. u = [i \in 1 .. m |-> b[low + i - 1]] /\ m = n
    BY DEF Words
  <1>2. Len(u) = n
    <2> HIDE DEF m, low, u
    <2>1. QED BY <1>1
  <1>3. ws = [i \in 1 .. Len(u) |-> u[(Len(u) - i) + 1]]
    BY DEF Reverse
  <1>4. ASSUME NEW i \in 1 .. n PROVE ws[i] = b[fp - i]
    <2> DEFINE j == (n - i) + 1
    <2>1. j \in 1 .. n /\ low + j - 1 = fp - i
      OBVIOUS
    <2>2. u[j] = b[low + j - 1]
      <3> HIDE DEF u, j, low, m
      <3>1. QED BY <1>1, <2>1
    <2>3. ws[i] = u[j]
      <3> HIDE DEF u
      <3>1. QED BY <1>2, <1>3
    <2>4. QED BY <2>1, <2>2, <2>3
  <1>5. DOMAIN ws = 1 .. n
    <2> HIDE DEF u
    <2>1. QED BY <1>2, <1>3
  <1>6. QED BY <1>4, <1>5 DEF GotOf

\* the values on their way are those below the frame pointer
LEMMA GotIs ==
  ASSUME StackInv
  PROVE  Got = GotOf(blocks[stack_base], frame_pointer, argc)
  <1>1. frame_pointer \in Int /\ argc \in Nat
    BY Numbers DEF StackInv, InvPointer
  <1>2. QED BY <1>1, GotWords DEF Got

\* ... and after a step
LEMMA GotIsNext ==
  ASSUME frame_pointer' \in Int, argc' \in Nat
  PROVE  Got' = GotOf(blocks'[stack_base'], frame_pointer', argc')
  BY GotWords DEF Got

\* the values of a return are below the return point
LEMMA GotWritten ==
  ASSUME NEW b, DOMAIN b = Area, NEW vs \in Results, NEW fp \in Int, 2 <= fp, fp < AreaSize
  PROVE  GotOf(Write(b, fp - Len(vs), Below(vs)), fp, Len(vs)) = vs
  <1> DEFINE n == Len(vs)
             ws == Below(vs)
             at == fp - n
             c == Write(b, at, ws)
  <1>1. n \in 0 .. 2 /\ Len(ws) = n /\ at \in Int
    BY BelowFacts
  <1>2. \A j \in 1 .. n : at + j - 1 \in Area => c[at + j - 1] = ws[j]
    <2>1. Len(ws) \in Nat
      BY <1>1
    <2> HIDE DEF n, ws, at
    <2>2. \A j \in 1 .. Len(ws) : at + j - 1 \in Area => Write(b, at, ws)[at + j - 1] = ws[j]
      BY <1>1, <2>1, WriteFacts
    <2>3. QED BY <1>1, <2>2
  <1>3. vs \in Seq(ToSet(vs))
    BY StackAssumption
  <1>4. ASSUME NEW i \in 1 .. n PROVE c[fp - i].v = vs[i]
    <2> DEFINE j == (n - i) + 1
    <2>1. j \in 1 .. n /\ at + j - 1 = fp - i /\ at + j - 1 \in Area /\ (n - j) + 1 = i
      BY <1>1, AreaLarge DEF Area
    <2>2. c[fp - i] = ws[j]
      <3> HIDE DEF c, ws, n, at, j
      <3>1. QED BY <1>2, <2>1
    <2>3. ws[j] = Val(vs[i])
      <3> DEFINE u == [h \in DOMAIN vs |-> Val(vs[h])]
      <3>1. Len(u) = n /\ ws = [h \in 1 .. Len(u) |-> u[(Len(u) - h) + 1]]
        <4>1. DOMAIN vs = 1 .. n
          BY <1>3
        <4>2. u = [h \in 1 .. n |-> Val(vs[h])]
          BY <4>1
        <4>3. Len(u) = n
          <5> HIDE DEF u, n
          <5>1. QED BY <1>1, <4>2
        <4>4. QED BY <4>3 DEF Below, Reverse
      <3>2. u[i] = Val(vs[i])
        BY <1>3
      <3> HIDE DEF u, ws, n, j
      <3>3. ws[j] = u[(n - j) + 1]
        BY <2>1, <3>1
      <3>4. QED BY <2>1, <3>2, <3>3
    <2>4. QED BY <2>2, <2>3 DEF Val
  <1> HIDE DEF c
  <1>5. GotOf(c, fp, n) = [i \in 1 .. n |-> vs[i]]
    BY <1>4 DEF GotOf
  <1>6. vs = [i \in 1 .. n |-> vs[i]]
    BY <1>3
  <1>7. QED BY <1>5, <1>6 DEF c

-----------------------------------------------------------------------------
(* What steps leave of chains *)

KeepsChains(bs, cs, bt, ds) == \A k \in DOMAIN cs \cup {0} : ChainOf(bt, ds, k) = ChainOf(bs, cs, k)

\* one after the other
LEMMA KeepsThen ==
  ASSUME NEW bs, NEW cs, NEW bt, NEW ds, KeepsChains(bs, cs, bt, ds), DOMAIN cs \subseteq DOMAIN ds,
         NEW bu, NEW es, KeepsChains(bt, ds, bu, es)
  PROVE  KeepsChains(bs, cs, bu, es)
  <1> SUFFICES ASSUME NEW k \in DOMAIN cs \cup {0} PROVE ChainOf(bu, es, k) = ChainOf(bs, cs, k)
    BY DEF KeepsChains
  <1>1. k \in DOMAIN ds \cup {0}
    OBVIOUS
  <1>2. ChainOf(bt, ds, k) = ChainOf(bs, cs, k)
    BY DEF KeepsChains
  <1>3. ChainOf(bu, es, k) = ChainOf(bt, ds, k)
    BY <1>1 DEF KeepsChains
  <1>4. QED BY <1>2, <1>3

\* words below frame_base
LEMMA ChainsBelow ==
  ASSUME NEW bs, NEW a, NEW fb, NEW cs, FramesOK(bs, a, fb, cs), WellLinked(cs), Records(cs),
         NEW c, SameFrom(bs[a], c, fb), NEW bt, bt = [bs EXCEPT ![a] = c]
  PROVE  KeepsChains(bs, cs, bt, cs)
  <1>1. FramesOK(bt, a, fb, cs) /\ bt[a] = c /\ DOMAIN bt = DOMAIN bs
    <2>1. /\ FramesOK([bs EXCEPT ![a] = c], a, fb, cs)
          /\ [bs EXCEPT ![a] = c][a] = c /\ DOMAIN [bs EXCEPT ![a] = c] = DOMAIN bs
      BY ONLY FramesOK(bs, a, fb, cs), SameFrom(bs[a], c, fb), FramesBelow
    <2>2. QED BY <2>1
  <1>2. Chained(bs, cs) /\ Chained(bt, cs)
    BY <1>1 DEF Chained, FramesOK, FramesOf
  <1>3. ASSUME NEW i \in DOMAIN cs PROVE PartOf(bt, cs, i) = PartOf(bs, cs, i)
    <2>1. CASE cs[i].tag = "system"
      BY <2>1 DEF PartOf
    <2>2. CASE cs[i].tag # "system"
      <3>1. cs[i].tag = "k"
        BY <2>2 DEF Records
      <3> DEFINE B == bs[cs[i].block]
                 C == bt[cs[i].block]
                 top == cs[i].top
                 end == top + cs[i].size
      <3>2. /\ cs[i].block \in DOMAIN bs /\ Framed(B, top, end)
            /\ cs[i].block = a => fb <= top /\ end <= AreaSize
        BY <3>1 DEF FramesOK, FramesOf
      <3>3. top \in Int /\ end \in Int
        BY <3>2 DEF Framed
      <3>4. \A j \in top .. end - 1 : C[j] = B[j]
        <4>1. CASE cs[i].block # a
          <5>1. C = B
            BY <3>2, <4>1
          <5>2. QED BY <5>1
        <4>2. CASE cs[i].block = a
          <5>1. C = c /\ B = bs[a]
            BY <1>1, <4>2
          <5>2. fb \in Int /\ 0 <= fb /\ AreaSize \in Int
            BY Bounds DEF FramesOK
          <5>3. fb <= top /\ end <= AreaSize
            BY <3>2, <4>2
          <5> HIDE DEF B, C, top, end
          <5>4. \A j \in top .. end - 1 : j \in Area /\ fb <= j
            BY <3>3, <5>2, <5>3 DEF Area
          <5>5. QED BY <5>1, <5>4 DEF SameFrom
        <4>3. QED BY <4>1, <4>2
      <3>5. PartOf(bs, cs, i) = RowOf(B, top, end) /\ PartOf(bt, cs, i) = RowOf(C, top, end)
        BY <2>2 DEF PartOf
      <3> HIDE DEF B, C, top, end
      <3>6. QED BY <3>3, <3>4, <3>5, RowSame
    <2>3. QED BY <2>1, <2>2
  <1> DEFINE R == DOMAIN cs
  <1>4. PartsKept(bs, cs, bt, cs, R)
    BY <1>3 DEF PartsKept, WellLinked
  <1> HIDE DEF R
  <1>5. \A k \in R \cup {0} : ChainOf(bt, cs, k) = ChainOf(bs, cs, k)
    BY <1>2, <1>4, ChainKept
  <1>6. QED BY <1>5 DEF KeepsChains, R

\* a continuation that leads to one that is there
OneMoreOn(bs, cs, k, x, ds) ==
  /\ KeepsChains(bs, cs, bs, ds)
  /\ ChainOf(bs, ds, k) = PartOf(bs, ds, k) \o ChainOf(bs, cs, x.next)
  /\ DOMAIN ds = DOMAIN cs \cup {k} /\ ds[k] = x

\* a new continuation, in front of a chain, leaves the other chains as they are
LEMMA ChainsMore ==
  ASSUME NEW bs, NEW cs, Chained(bs, cs), NEW k, k \notin DOMAIN cs, NEW x, x.next \in DOMAIN cs \cup {0},
         NEW ds, ds = Also(cs, k, x), Chained(bs, ds)
  PROVE  OneMoreOn(bs, cs, k, x, ds)
  <1>1. DOMAIN ds = DOMAIN cs \cup {k} /\ ds[k] = x /\ \A i \in DOMAIN cs : ds[i] = cs[i]
    BY DEF Also
  <1> DEFINE R == DOMAIN cs
  <1>2. PartsKept(bs, cs, bs, ds, R)
    <2>1. \A i \in R : i \in DOMAIN ds /\ cs[i].next \in R \cup {0} /\ ds[i] = cs[i]
      BY <1>1 DEF Chained, WellLinked
    <2> HIDE DEF R
    <2>2. \A i \in R : PartOf(bs, ds, i) = PartOf(bs, cs, i)
      BY <2>1 DEF PartOf
    <2>3. R \subseteq DOMAIN cs
      BY DEF R
    <2>4. QED BY <2>1, <2>2, <2>3 DEF PartsKept
  <1> HIDE DEF R
  <1>3. \A i \in R \cup {0} : ChainOf(bs, ds, i) = ChainOf(bs, cs, i)
    BY <1>2, ChainKept
  <1>4. ChainOf(bs, ds, k) = PartOf(bs, ds, k) \o ChainOf(bs, ds, ds[k].next)
    <2>1. \A i \in DOMAIN ds : ChainOf(bs, ds, i) = PartOf(bs, ds, i) \o ChainOf(bs, ds, ds[i].next)
      BY ChainLaws
    <2>2. k \in DOMAIN ds
      BY <1>1
    <2>3. QED BY <2>1, <2>2
  <1>5. ChainOf(bs, ds, x.next) = ChainOf(bs, cs, x.next)
    BY <1>3 DEF R
  <1>6. QED BY <1>1, <1>3, <1>4, <1>5 DEF OneMoreOn, KeepsChains, R

\* what is dropped was on no chain that is still referred to
LEMMA ReferChains ==
  ASSUME NEW bs, NEW a, NEW fb, NEW cs, NEW nk, NEW ss, FramesOK(bs, a, fb, cs), ContsOK(cs, nk, ss),
         NEW ds, ds = Reachable(cs, nk, ss), NEW cb, cb = Restrict(bs, UsedBlocks(ds, a))
  PROVE  /\ ChainOf(cb, ds, nk) = ChainOf(bs, cs, nk)
         /\ \A s \in Slot : ss[s] # -1 => ChainOf(cb, ds, ss[s]) = ChainOf(bs, cs, ss[s])
  <1> DEFINE roots == {nk} \cup {ss[s] : s \in Slot}
             R == Reach(cs, roots)
  <1>1. WellLinked(cs) /\ Records(cs) /\ nk \in DOMAIN cs \cup {0} /\ ss \in [Slot -> DOMAIN cs \cup {0, -1}]
    BY DEF ContsOK
  <1>2. roots \subseteq DOMAIN cs \cup {0, -1}
    BY <1>1
  <1>3. Closed(cs, R) /\ \A i \in roots : i \in R \cup {0, -1}
    <2> HIDE DEF roots
    <2>1. QED BY <1>1, <1>2, ReachFacts
  <1>4. ds = Restrict(cs, R)
    BY DEF Reachable
  <1>5. -1 \notin DOMAIN cs /\ 0 \notin DOMAIN cs /\ -1 # 0
    BY <1>1, StackAssumption DEF WellLinked
  <1>6. nk \in R \cup {0} /\ \A s \in Slot : ss[s] # -1 => ss[s] \in R \cup {0}
    <2>1. nk \in R \cup {0, -1}
      BY <1>3
    <2>2. QED BY <1>1, <1>3, <1>5, <2>1
  <1> HIDE DEF R, roots
  <1>7. DOMAIN ds = R /\ \A i \in R : ds[i] = cs[i]
    BY <1>1, <1>3, <1>4, LinkedRest
  <1>8. R \subseteq DOMAIN cs /\ \A i \in R : cs[i].next \in R \cup {0}
    BY <1>3 DEF Closed
  <1>9. \A i \in R : cs[i].tag = "k" => cb[cs[i].block] = bs[cs[i].block]
    BY <1>7 DEF Restrict, UsedBlocks
  <1>10. FramesOK(cb, a, fb, ds) /\ ContsOK(ds, nk, ss)
    BY ReferFacts
  <1>11. Chained(bs, cs) /\ Chained(cb, ds)
    BY <1>10, ChainedFrames
  <1>12. ASSUME NEW i \in R PROVE PartOf(cb, ds, i) = PartOf(bs, cs, i)
    <2>1. ds[i] = cs[i]
      BY <1>7
    <2>2. cs[i].tag \in {"k", "system"}
      BY <1>1, <1>8 DEF Records
    <2>3. cs[i].tag = "k" => cb[cs[i].block] = bs[cs[i].block]
      BY <1>9
    <2>4. QED BY <2>1, <2>2, <2>3 DEF PartOf
  <1>13. PartsKept(bs, cs, cb, ds, R)
    BY <1>7, <1>8, <1>12 DEF PartsKept
  <1>14. \A k \in R \cup {0} : ChainOf(cb, ds, k) = ChainOf(bs, cs, k)
    BY <1>11, <1>13, ChainKept
  <1>15. QED BY <1>6, <1>14

\* the same, of a step
LEMMA ChainsReferred ==
  ASSUME NEW bs, NEW a, NEW fb, NEW cs, NEW nk, NEW ss, FramesOK(bs, a, fb, cs), ContsOK(cs, nk, ss),
         Refer(bs, a, cs, nk, ss)
  PROVE  /\ ChainOf(blocks', conts', next_k') = ChainOf(bs, cs, nk)
         /\ \A s \in Slot : ss[s] # -1 => ChainOf(blocks', conts', ss[s]) = ChainOf(bs, cs, ss[s])
         /\ slots' = ss /\ next_k' = nk /\ blocks'[a] = bs[a]
  <1>1. /\ next_k' = nk /\ slots' = ss
        /\ conts' = Reachable(cs, nk, ss)
        /\ blocks' = Restrict(bs, UsedBlocks(conts', a))
    BY DEF Refer
  <1>2. ASSUME NEW ds, ds = Reachable(cs, nk, ss), NEW cb, cb = Restrict(bs, UsedBlocks(ds, a))
        PROVE  /\ ChainOf(cb, ds, nk) = ChainOf(bs, cs, nk)
               /\ \A s \in Slot : ss[s] # -1 => ChainOf(cb, ds, ss[s]) = ChainOf(bs, cs, ss[s])
    BY <1>2, ReferChains
  <1>3. blocks'[a] = bs[a]
    BY AfterRefer
  <1>4. QED BY <1>1, <1>2, <1>3

\* continuations in the program's hands that keep their chains
LEMMA SavedKept ==
  ASSUME slots' = slots,
         \A s \in Slot : slots[s] # -1 => ChainOf(blocks', conts', slots[s]) = ChainOf(blocks, conts, slots[s])
  PROVE  saved' = saved
  <1>1. \A s \in Slot : slots[s] # -1 => Chain(slots[s])' = Chain(slots[s])
    <2> SUFFICES ASSUME NEW s \in Slot, slots[s] # -1 PROVE Chain(slots[s])' = Chain(slots[s])
      OBVIOUS
    <2>1. Chain(slots[s]) = ChainOf(blocks, conts, slots[s])
      BY ChainIs
    <2>2. Chain(slots[s])' = ChainOf(blocks', conts', slots'[s])
      BY Zenon DEF Chain, ChainOf, ContWords
    <2>3. QED BY <2>1, <2>2
  <1>2. ASSUME NEW s \in Slot
        PROVE  (IF slots[s] = -1 THEN NoCont ELSE Chain(slots[s]))' = IF slots[s] = -1 THEN NoCont ELSE Chain(slots[s])
    BY <1>1 DEF NoCont
  <1>3. QED BY <1>2 DEF saved

\* a slot that holds a continuation holds what waits there
LEMMA SavedIs ==
  ASSUME NEW s \in Slot, slots[s] # -1
  PROVE  saved[s] = ChainOf(blocks, conts, slots[s])
  BY ChainIs DEF saved

-----------------------------------------------------------------------------
(* Each step is one of the list, or none *)

\* C runs with no frame of Scheme above it
InvTop == pc \in {"c", "arguments", "result"} => frame_pointer >= frame_base - 1

\* an underflow to C comes when the stack has no frame left, and a foreign call seals
\* those it had; what runs in between leaves the frame pointer alone
LEMMA TopKeeps ==
  ASSUME StackInv, InvTop, StackNext \/ UNCHANGED svars
  PROVE  InvTop'
  <1>1. frame_base \in Int /\ frame_pointer \in Int
    BY Numbers
  <1>2. CASE Call
    BY <1>2 DEF Call, InvTop
  <1>3. CASE Return
    BY <1>3 DEF Return, InvTop
  <1>4. CASE Resume
    BY <1>4 DEF Resume, InvTop
  <1>5. CASE Capture
    <2>1. pc' = "scheme"
      BY <1>5 DEF Capture
    <2>2. QED BY <2>1 DEF InvTop
  <1>6. CASE Throw
    <2>1. pc' \in {"underflow", "across"}
      BY <1>6 DEF Throw
    <2>2. QED BY <2>1 DEF InvTop
  <1>7. CASE StackOverflow
    <2>1. pc' = "underflow"
      BY <1>7 DEF StackOverflow
    <2>2. QED BY <2>1 DEF InvTop
  <1>8. CASE Finish
    BY <1>8 DEF Finish, InvTop
  <1>9. CASE UnderflowToC
    BY <1>1, <1>9 DEF UnderflowToC, InvTop
  <1>10. CASE Underflow
    <2>1. pc' \in {"dead", "reenter"}
      BY <1>10 DEF Underflow
    <2>2. QED BY <2>1 DEF InvTop
  <1>11. CASE ForeignCall
    <2>1. PICK f \in Frames : frame_base' = frame_pointer - Len(f) /\ frame_pointer' = frame_pointer - Len(f) - 1
      BY <1>11 DEF ForeignCall
    <2>2. Len(f) \in Int
      BY FrameWords
    <2>3. QED BY <1>1, <2>1, <2>2 DEF InvTop
  <1>12. CASE CallBack
    BY <1>1, <1>12 DEF CallBack, InvTop, memory
  <1>13. CASE Enter
    BY <1>13 DEF Enter, InvTop
  <1>14. CASE ForeignResult
    BY <1>14 DEF ForeignResult, InvTop, memory
  <1>15. CASE ForeignReturn
    <2>1. pc' \in {"dead", "underflow"}
      BY <1>15 DEF ForeignReturn
    <2>2. QED BY <2>1 DEF InvTop
  <1>16. CASE Collect
    <2>1. frame_base' = frame_base /\ frame_pointer' = frame_pointer /\ pc' \in {"dead", pc}
      BY <1>16 DEF Collect
    <2>2. QED BY <2>1 DEF InvTop
  <1>17. CASE UNCHANGED svars
    BY <1>17 DEF svars, InvTop
  <1>18. CASE pc \in {"done", "dead", "across"} /\ UNCHANGED svars
    BY <1>17, <1>18
  <1>19. QED
    BY <1>2, <1>3, <1>4, <1>5, <1>6, <1>7, <1>8, <1>9, <1>10, <1>11, <1>12, <1>13, <1>14, <1>15, <1>16,
       <1>17, <1>18 DEF StackNext

\* above the handler there is nothing
LEMMA TopIs ==
  ASSUME NEW b, NEW fp \in Int, NEW fb \in Int
  PROVE  /\ fp >= fb - 1 => TopRow(b, fp, fb) = << >>
         /\ fp <= fb - 1 => TopRow(b, fp, fb) = RowOf(b, fp, fb - 1)
  <1>1. fp >= fb - 1 => TopRow(b, fp, fb) = << >>
    BY DEF TopRow
  <1>2. CASE fp = fb - 1
    <2> DEFINE e == fb - 1
    <2>1. e \in Int /\ fp = e
      BY <1>2
    <2> HIDE DEF e
    <2>2. RowOf(b, fp, e) = << >>
      BY <2>1, RowEmpty
    <2>3. TopRow(b, fp, fb) = << >>
      BY <1>1, <1>2
    <2>4. QED BY <1>1, <2>2, <2>3 DEF e
  <1>3. CASE fp < fb - 1
    BY <1>1, <1>3 DEF TopRow
  <1>4. CASE fp > fb - 1
    BY <1>1, <1>4
  <1>5. QED BY <1>1, <1>2, <1>3, <1>4

\* what the instance says of each step
LEMMA CallBackStep ==
  ASSUME ctl' = ctl, saved' = saved, where = "c", where' = "scheme", got' = got
  PROVE  Abstract!CtlNext
  BY DEF Abstract!CtlNext, Abstract!CallBack

\* a frame more is a call
LEMMA CallStep ==
  ASSUME NEW f \in Frames, ctl' = <<f>> \o ctl, saved' = saved, where = "scheme", where' = "scheme", got' = got
  PROVE  Abstract!CtlNext
  BY DEF Abstract!CtlNext, Abstract!Call

\* who runs, and what is on its way
LEMMA WhereIs ==
  /\ pc \in {"scheme", "overflow"} => where = "scheme" /\ got = << >>
  /\ pc \in {"underflow", "reenter"} => where = "returning" /\ got = Got
  /\ pc \in {"c", "arguments", "result"} => where = "c" /\ got = << >>
  /\ pc \in {"done", "dead", "across"} => where = pc /\ got = << >>
  <1>1. /\ pc \in {"scheme", "overflow"} => where = "scheme"
        /\ pc \in {"underflow", "reenter"} => where = "returning"
        /\ pc \in {"c", "arguments", "result"} => where = "c"
        /\ pc \in {"done", "dead", "across"} => where = pc
    BY DEF where
  <1>2. got = IF where = "returning" THEN Got ELSE << >>
    BY DEF got
  <1>3. QED BY <1>1, <1>2

\* ... and after a step
LEMMA WhereIsNext ==
  /\ pc' \in {"scheme", "overflow"} => where' = "scheme" /\ got' = << >>
  /\ pc' \in {"underflow", "reenter"} => where' = "returning" /\ got' = Got'
  /\ pc' \in {"c", "arguments", "result"} => where' = "c" /\ got' = << >>
  /\ pc' \in {"done", "dead", "across"} => where' = pc' /\ got' = << >>
  <1>1. /\ pc' \in {"scheme", "overflow"} => where' = "scheme"
        /\ pc' \in {"underflow", "reenter"} => where' = "returning"
        /\ pc' \in {"c", "arguments", "result"} => where' = "c"
        /\ pc' \in {"done", "dead", "across"} => where' = pc'
    BY DEF where
  <1>2. got' = IF where' = "returning" THEN Got' ELSE << >>
    BY DEF got
  <1>3. QED BY <1>1, <1>2

\* the list is the frames of the stack and then the chain
LEMMA ListIs ==
  ASSUME StackInv
  PROVE  /\ ctl = TopRow(blocks[stack_base], frame_pointer, frame_base) \o ChainOf(blocks, conts, next_k)
         /\ Chained(blocks, conts)
         /\ Plain(TopRow(blocks[stack_base], frame_pointer, frame_base))
         /\ Waits(conts, ChainOf(blocks, conts, next_k))
  <1>1. frame_base \in Int /\ frame_pointer \in Int /\ next_k \in DOMAIN conts \cup {0}
    BY Numbers
  <1>2. Chained(blocks, conts)
    BY ChainedFrames DEF StackInv, InvMemory, InvConts
  <1>3. Waits(conts, ChainOf(blocks, conts, next_k))
    BY <1>1, <1>2, ChainWaits
  <1>4. Plain(TopRow(blocks[stack_base], frame_pointer, frame_base))
    <2>1. CASE frame_pointer < frame_base - 1
      <3>1. Framed(blocks[stack_base], frame_pointer, frame_base - 1)
        BY <1>1, <2>1 DEF StackInv, InvPointer
      <3>2. QED BY <2>1, <3>1, RowFrames DEF TopRow
    <2>2. CASE ~(frame_pointer < frame_base - 1)
      <3> DEFINE W == {}
      <3>1. << >> \in Seq(W) /\ \A x \in W : x[1].w = "rp"
        OBVIOUS
      <3> HIDE DEF W
      <3>2. Plain(<< >>)
        BY <3>1 DEF Plain
      <3>3. QED BY <2>2, <3>2 DEF TopRow
    <2>3. QED BY <2>1, <2>2
  <1>5. ctl = TopRow(blocks[stack_base], frame_pointer, frame_base) \o ChainOf(blocks, conts, next_k)
    BY WaitingIs DEF ctl
  <1>6. QED BY <1>2, <1>3, <1>4, <1>5

\* the list after a step, whatever the step does
LEMMA ListIsNext ==
  ctl' = TopRow(blocks'[stack_base'], frame_pointer', frame_base') \o ChainOf(blocks', conts', next_k')
  BY WaitingIsNext DEF ctl

\* a step that writes below the base
LEMMA BelowKeeps ==
  ASSUME StackInv, NEW c, SameFrom(blocks[stack_base], c, frame_base),
         blocks' = [blocks EXCEPT ![stack_base] = c], conts' = conts, next_k' = next_k, slots' = slots
  PROVE  /\ saved' = saved /\ blocks'[stack_base] = c
         /\ ChainOf(blocks', conts', next_k') = ChainOf(blocks, conts, next_k)
  <1>1. FramesOK(blocks, stack_base, frame_base, conts) /\ WellLinked(conts) /\ Records(conts)
        /\ stack_base \in DOMAIN blocks
    BY Numbers DEF StackInv, InvMemory
  <1>2. KeepsChains(blocks, conts, blocks', conts)
    BY <1>1, ChainsBelow
  <1>3. next_k \in DOMAIN conts \cup {0} /\ slots \in [Slot -> DOMAIN conts \cup {0, -1}]
    BY Numbers
  <1>4. \A s \in Slot : slots[s] # -1 => ChainOf(blocks', conts', slots[s]) = ChainOf(blocks, conts, slots[s])
    BY <1>2, <1>3 DEF KeepsChains
  <1>5. saved' = saved
    BY <1>4, SavedKept
  <1>6. ChainOf(blocks', conts', next_k') = ChainOf(blocks, conts, next_k)
    BY <1>2, <1>3 DEF KeepsChains
  <1>7. blocks'[stack_base] = c
    BY <1>1
  <1>8. QED BY <1>5, <1>6, <1>7

\* words below the stack
LEMMA TopSame ==
  ASSUME NEW b, NEW c, NEW fp \in Int, 0 <= fp, NEW fb \in Int, fb <= AreaSize, SameFrom(b, c, fp)
  PROVE  TopRow(c, fp, fb) = TopRow(b, fp, fb)
  <1> DEFINE e == fb - 1
  <1>1. e \in Int /\ AreaSize \in Int
    BY Bounds
  <1>2. \A j \in fp .. e - 1 : c[j] = b[j]
    <2>1. \A j \in fp .. e - 1 : j \in Area /\ fp <= j
      BY <1>1 DEF Area
    <2>2. QED BY <2>1 DEF SameFrom
  <1> HIDE DEF e
  <1>3. RowOf(c, fp, e) = RowOf(b, fp, e)
    BY <1>1, <1>2, RowSame
  <1>4. QED BY <1>3 DEF TopRow, e

-----------------------------------------------------------------------------
(* Calls and returns *)

\* a frame pushed below frames comes before them
RowPushed(b, c, at, top, end, f) == RowOf(c, at, end) = <<f>> \o RowOf(b, top, end)
\* the words of a frame, written below a row of frames, are one frame more
LEMMA PushedRow ==
  ASSUME NEW b, DOMAIN b = Area, NEW top \in Int, NEW end \in Int, Framed(b, top, end), end < AreaSize,
         NEW f \in Frames, NEW at, at = top - Len(f), 0 <= at,
         NEW c, c = Write(b, at, f)
  PROVE  RowPushed(b, c, at, top, end, f)
  <1> DEFINE n == Len(f)
  <1>1. /\ SameFrom(b, c, top) /\ Framed(c, at, end) /\ at \in Int /\ at < top
    BY PushFrame
  <1>2. /\ f \in Seq(ToSet(f)) /\ n \in Nat \ {0}
        /\ f[1].w = "rp"
        /\ IF FrameSize[f[1].rp] = 0 THEN n = Dynamic /\ f[2].size = Dynamic
           ELSE n = FrameSize[f[1].rp]
    BY FrameWords
  <1>3. top <= end /\ at + n = top /\ AreaSize \in Int
    BY <1>2, Bounds DEF Framed
  <1>4. \A j \in 1 .. n : c[at + j - 1] = f[j]
    <2>1. \A j \in 1 .. n : at + j - 1 \in Area
      BY <1>1, <1>2, <1>3 DEF Area
    <2>2. Len(f) \in Nat
      BY <1>2
    <2>3. \A j \in 1 .. Len(f) : at + j - 1 \in Area => Write(b, at, f)[at + j - 1] = f[j]
      BY <1>1, <2>2, WriteFacts
    <2>4. QED BY <2>1, <2>3
  <1> HIDE DEF n
  <1>5. c[at] = f[1] /\ (n >= 2 => c[at + 1] = f[2])
    <2>1. 1 \in 1 .. n /\ at + 1 - 1 = at /\ (n >= 2 => 2 \in 1 .. n) /\ at + 2 - 1 = at + 1
      BY <1>1, <1>2
    <2>2. QED BY <1>4, <2>1
  <1>6. SizeAt(c, at) = n
    BY <1>2, <1>5 DEF SizeAt, Dynamic
  <1>7. Words(c, at, top) = f
    <2>1. top - at = n
      BY <1>1, <1>2, <1>3
    <2>2. Words(c, at, top) = [j \in 1 .. n |-> c[at + j - 1]]
      BY <2>1 DEF Words
    <2>3. f = [j \in 1 .. n |-> f[j]]
      BY <1>2 DEF n
    <2>4. QED BY <1>4, <2>2, <2>3
  <1>8. RowOf(c, at, end) = <<Words(c, at, at + n)>> \o RowOf(c, at + n, end)
    <2>1. at < end
      BY <1>1, <1>3
    <2>2. QED BY <1>1, <1>6, <2>1, RowFirst
  <1>9. RowOf(c, top, end) = RowOf(b, top, end)
    <2>1. \A j \in top .. end - 1 : j \in Area /\ top <= j
      BY <1>1, <1>3 DEF Area
    <2>2. \A j \in top .. end - 1 : c[j] = b[j]
      BY <1>1, <2>1 DEF SameFrom
    <2>3. QED BY <2>2, RowSame
  <1>10. QED BY <1>3, <1>7, <1>8, <1>9 DEF RowPushed

\* one more before a list of frames and a chain
LEMMA OneMore ==
  ASSUME NEW r, Plain(r), NEW cs, NEW s, Waits(cs, s), NEW f
  PROVE  (<<f>> \o r) \o s = <<f>> \o (r \o s)
  <1>1. PICK V : r \in Seq(V)
    BY DEF Plain
  <1>2. PICK W : s \in Seq(W)
    BY DEF Waits
  <1>3. <<f>> \in Seq({f})
    OBVIOUS
  <1> DEFINE q == <<f>>
             T == {f}
  <1>4. q \in Seq(T)
    BY <1>3
  <1> HIDE DEF q, T
  <1>5. (q \o r) \o s = q \o (r \o s)
    BY <1>1, <1>2, <1>4, JoinAssociative
  <1>6. QED BY <1>5 DEF q

\* a call puts a frame on the list: the words it writes are below those that wait
LEMMA CallImplements ==
  ASSUME StackInv, Call
  PROVE  Abstract!CtlNext
  <1> DEFINE S == blocks[stack_base]
  <1>1. PICK f \in Frames :
          /\ pc = "scheme"
          /\ pc' \in {"overflow", "scheme"}
          /\ blocks' = [blocks EXCEPT ![stack_base] = Push(S, f)]
          /\ frame_pointer' = frame_pointer - Len(f)
          /\ UNCHANGED <<stack_base, frame_base, conts, next_k, slots, argc>>
    BY DEF Call
  <1> DEFINE c == Push(S, f)
             at == frame_pointer - Len(f)
  <1>2. /\ frame_base \in Int /\ frame_base <= AreaSize /\ AreaSize \in Int
        /\ frame_pointer \in Int /\ 2 <= frame_pointer
        /\ DOMAIN S = Area /\ LowBase \in Int /\ LowBase - Longest >= 3 /\ Longest \in Int
        /\ LowBase <= frame_base
    BY Numbers
  <1>3. frame_pointer < frame_base /\ Framed(S, frame_pointer, frame_base - 1)
        /\ (frame_pointer = frame_base - 1 \/ frame_pointer \in LowBase .. frame_base - 2)
    BY <1>1 DEF InvPointer, StackInv
  <1>4. Len(f) \in Nat \ {0} /\ Len(f) <= Longest
    BY FrameWords, Bounds
  <1>5. 0 <= at /\ at \in Int /\ at < frame_pointer
    <2> DEFINE n == Len(f)
    <2> HIDE DEF n
    <2>1. n \in Nat \ {0} /\ n <= Longest /\ at = frame_pointer - n
      BY <1>4 DEF n
    <2> HIDE DEF at
    <2>2. QED BY <1>2, <1>3, <2>1
  <1>6. /\ SameFrom(S, c, frame_pointer)
        /\ RowOf(c, at, frame_base - 1) = <<f>> \o RowOf(S, frame_pointer, frame_base - 1)
    <2> DEFINE e == frame_base - 1
    <2>1. e \in Int /\ e < AreaSize /\ Framed(S, frame_pointer, e)
      BY <1>2, <1>3
    <2>2. c = Write(S, at, f) /\ at = frame_pointer - Len(f)
      BY DEF Push
    <2> HIDE DEF c, S, at, e
    <2>3. SameFrom(S, c, frame_pointer)
      BY <1>2, <1>5, <2>1, <2>2, PushFrame
    <2>4. RowPushed(S, c, at, frame_pointer, e, f)
      BY <1>2, <1>5, <2>1, <2>2, PushedRow
    <2>5. QED BY <2>3, <2>4 DEF e, RowPushed
  <1>7. /\ saved' = saved /\ blocks'[stack_base] = c
        /\ ChainOf(blocks', conts', next_k') = ChainOf(blocks, conts, next_k)
    <2>1. SameFrom(S, c, frame_base)
      <3> HIDE DEF S, c
      <3>1. QED BY <1>2, <1>3, <1>6, SameHigher
    <2>2. blocks' = [blocks EXCEPT ![stack_base] = c]
      BY <1>1
    <2> HIDE DEF c
    <2>3. QED BY <1>1, <2>1, <2>2, BelowKeeps
  <1> DEFINE r == TopRow(S, frame_pointer, frame_base)
             t == TopRow(c, at, frame_base)
             s == ChainOf(blocks, conts, next_k)
  <1>8. t = <<f>> \o r
    <2>1. at < frame_base - 1 /\ frame_pointer <= frame_base - 1
      <3> HIDE DEF at
      <3>1. QED BY <1>2, <1>3, <1>5
    <2>2. t = RowOf(c, at, frame_base - 1)
      BY <2>1 DEF TopRow
    <2>3. r = RowOf(S, frame_pointer, frame_base - 1)
      <3> HIDE DEF S
      <3>1. QED BY <1>2, <2>1, TopIs
    <2>4. QED BY <1>6, <2>2, <2>3
  <1>9. ctl = r \o s /\ Plain(r) /\ Waits(conts, s)
    BY ListIs
  <1>10. ctl' = t \o s
    <2>1. ctl' = TopRow(blocks'[stack_base'], frame_pointer', frame_base') \o ChainOf(blocks', conts', next_k')
      BY ListIsNext
    <2>2. blocks'[stack_base'] = c /\ frame_pointer' = at /\ frame_base' = frame_base
      BY <1>1, <1>7
    <2> HIDE DEF c, at
    <2>3. QED BY <1>7, <2>1, <2>2
  <1> HIDE DEF r, s, t
  <1>11. ctl' = <<f>> \o ctl
    BY <1>8, <1>9, <1>10, OneMore
  <1>12. where = "scheme" /\ where' = "scheme" /\ got' = got
    BY <1>1, WhereIs, WhereIsNext
  <1>13. QED BY <1>7, <1>11, <1>12, CallStep

\* a return puts values on their way and leaves the frames above them alone
LEMMA ReturnImplements ==
  ASSUME StackInv, Return
  PROVE  Abstract!CtlNext
  <1> DEFINE S == blocks[stack_base]
  <1>1. PICK vs \in Results :
          /\ pc = "scheme"
          /\ blocks' = [blocks EXCEPT ![stack_base] = Push(S, Below(vs))]
          /\ argc' = Len(vs)
          /\ pc' = IF frame_pointer = frame_base - 1 THEN "underflow" ELSE "reenter"
          /\ UNCHANGED <<stack_base, frame_base, frame_pointer, conts, next_k, slots>>
    BY DEF Return
  <1> DEFINE c == Push(S, Below(vs))
  <1>2. /\ frame_base \in Int /\ frame_base <= AreaSize /\ AreaSize \in Int
        /\ frame_pointer \in Int /\ 2 <= frame_pointer
        /\ DOMAIN S = Area
    BY Numbers
  <1>3. frame_pointer < frame_base
    BY <1>1 DEF InvPointer, StackInv
  <1>4. Len(Below(vs)) = Len(vs) /\ Len(vs) \in 0 .. 2
    BY BelowFacts
  <1>5. c = Write(S, frame_pointer - Len(vs), Below(vs))
    BY <1>4 DEF Push
  <1>6. SameFrom(S, c, frame_pointer)
    <2> HIDE DEF S, c
    <2>1. SameFrom(S, Write(S, frame_pointer - Len(vs), Below(vs)), frame_pointer)
      BY <1>2, ValuesFacts
    <2>2. QED BY <1>5, <2>1
  <1>7. GotOf(c, frame_pointer, Len(vs)) = vs
    <2>1. frame_pointer < AreaSize
      BY <1>2, <1>3
    <2> HIDE DEF S, c
    <2>2. GotOf(Write(S, frame_pointer - Len(vs), Below(vs)), frame_pointer, Len(vs)) = vs
      BY <1>2, <2>1, GotWritten
    <2>3. QED BY <1>5, <2>2
  <1>8. /\ saved' = saved /\ blocks'[stack_base] = c
        /\ ChainOf(blocks', conts', next_k') = ChainOf(blocks, conts, next_k)
    <2>1. SameFrom(S, c, frame_base)
      <3> HIDE DEF S, c
      <3>1. QED BY <1>2, <1>3, <1>6, SameHigher
    <2>2. blocks' = [blocks EXCEPT ![stack_base] = c]
      BY <1>1
    <2> HIDE DEF c
    <2>3. QED BY <1>1, <2>1, <2>2, BelowKeeps
  <1>9. TopRow(c, frame_pointer, frame_base) = TopRow(S, frame_pointer, frame_base)
    <2> HIDE DEF S, c
    <2>1. QED BY <1>2, <1>6, TopSame
  <1>10. ctl' = ctl
    <2>1. ctl' = TopRow(blocks'[stack_base'], frame_pointer', frame_base') \o ChainOf(blocks', conts', next_k')
      BY ListIsNext
    <2>2. ctl = TopRow(S, frame_pointer, frame_base) \o ChainOf(blocks, conts, next_k)
      BY ListIs
    <2>3. blocks'[stack_base'] = c /\ frame_pointer' = frame_pointer /\ frame_base' = frame_base
      BY <1>1, <1>8
    <2> HIDE DEF c, S
    <2>4. QED BY <1>8, <1>9, <2>1, <2>2, <2>3
  <1>11. where = "scheme" /\ where' = "returning" /\ got' = vs
    <2>1. pc' \in {"underflow", "reenter"}
      BY <1>1
    <2>2. where = "scheme" /\ where' = "returning" /\ got' = Got'
      BY <1>1, <2>1, WhereIs, WhereIsNext
    <2>3. argc' \in Nat /\ frame_pointer' \in Int /\ blocks'[stack_base'] = c /\ argc' = Len(vs)
          /\ frame_pointer' = frame_pointer
      BY <1>1, <1>2, <1>4, <1>8
    <2> HIDE DEF c
    <2>4. Got' = GotOf(blocks'[stack_base'], frame_pointer', argc')
      BY <2>3, GotIsNext
    <2>5. QED BY <1>7, <2>2, <2>3, <2>4
  <1>12. QED BY <1>8, <1>10, <1>11 DEF Abstract!CtlNext, Abstract!Return

\* values arrive at a frame, at C, or at the end
LEMMA ArriveAtFrame ==
  ASSUME NEW f, f[1].w = "rp", NEW S, NEW rest \in Seq(S), ctl = <<f>> \o rest, ctl' = rest,
         saved' = saved, where = "returning", where' = "scheme", got' = << >>
  PROVE  Abstract!CtlNext
  <1> DEFINE T == S \cup {f}
  <1>1. rest \in Seq(T) /\ f \in T
    OBVIOUS
  <1> HIDE DEF T
  <1>2. ctl # << >> /\ Head(ctl) = f /\ Tail(ctl) = rest
    BY <1>1, ConsFacts
  <1>3. f \notin Marks
    BY MarksDiffer
  <1>4. ctl' = Tail(ctl) /\ Head(ctl) \notin Marks
    BY <1>2, <1>3
  <1>5. QED BY <1>2, <1>4 DEF Abstract!CtlNext, Abstract!Arrive, Marks

\* values that reach a mark: C runs
LEMMA ArriveAtC ==
  ASSUME NEW k \in Ids, NEW S, NEW rest \in Seq(S), ctl = <<MarkOf(k)>> \o rest, ctl' = ctl,
         saved' = saved, where = "returning", where' = "c", got' = << >>
  PROVE  Abstract!CtlNext
  <1> DEFINE m == MarkOf(k)
             T == S \cup {m}
  <1>1. m \in Marks
    BY DEF Marks
  <1>2. rest \in Seq(T) /\ m \in T
    OBVIOUS
  <1> HIDE DEF T, m
  <1>3. ctl = <<m>> \o rest
    BY DEF m
  <1>4. ctl # << >> /\ Head(ctl) = m
    BY <1>2, <1>3, ConsFacts
  <1>5. Head(ctl) \in Marks
    BY <1>1, <1>4
  <1>6. QED BY <1>4, <1>5 DEF Abstract!CtlNext, Abstract!Arrive, Marks

\* the innermost frame takes the values, and leaves the list: it is the first row of
\* the stack, after a return as after an underflow that copied it back
LEMMA ResumeImplements ==
  ASSUME StackInv, Resume
  PROVE  Abstract!CtlNext
  <1> DEFINE S == blocks[stack_base]
             fp == frame_pointer + framesize(Stack)
             c == Clear(S, fp)
             e == frame_base - 1
  <1>1. /\ pc = "reenter" /\ pc' = "scheme"
        /\ frame_pointer' = fp
        /\ blocks' = [blocks EXCEPT ![stack_base] = c]
        /\ UNCHANGED <<stack_base, frame_base, conts, next_k, slots>>
    BY DEF Resume
  <1>2. /\ frame_base \in Int /\ frame_base <= AreaSize
        /\ frame_pointer \in Int /\ 2 <= frame_pointer
        /\ DOMAIN S = Area
    BY Numbers
  <1>3. frame_pointer < e /\ Framed(S, frame_pointer, e) /\ e \in Int
    BY <1>1, <1>2 DEF InvPointer, StackInv
  <1> DEFINE m == SizeAt(S, frame_pointer)
  <1>4. fp = frame_pointer + m
    <2>1. Stack = Words(S, frame_pointer, e)
      BY <1>3 DEF Stack
    <2>2. framesize(Words(S, frame_pointer, e)) = m
      <3> HIDE DEF e, S
      <3>1. QED BY <1>3, FirstSize DEF m
    <2>3. QED BY <2>1, <2>2
  <1>5. m \in Nat \ {0} /\ frame_pointer + m <= e /\ Framed(S, frame_pointer + m, e)
    <2> HIDE DEF S, e
    <2>1. QED BY <1>3, FramedRest
  <1> DEFINE f == Words(S, frame_pointer, frame_pointer + m)
             r == RowOf(S, fp, e)
             s == ChainOf(blocks, conts, next_k)
  <1>6. RowOf(S, frame_pointer, e) = <<f>> \o r
    <2> HIDE DEF S, e, m, fp
    <2>1. RowOf(S, frame_pointer, e) = <<Words(S, frame_pointer, frame_pointer + m)>> \o RowOf(S, frame_pointer + m, e)
      BY <1>3, RowFirst DEF m
    <2>2. QED BY <1>4, <2>1
  <1>7. f[1].w = "rp"
    <2> DEFINE to == frame_pointer + m
    <2>1. 1 \in 1 .. to - frame_pointer /\ frame_pointer + 1 - 1 = frame_pointer
      BY <1>2, <1>5
    <2>2. S[frame_pointer].w = "rp"
      BY <1>3 DEF Framed
    <2> HIDE DEF S, to
    <2>3. Words(S, frame_pointer, to)[1] = S[frame_pointer]
      BY <2>1 DEF Words
    <2>4. QED BY <2>2, <2>3 DEF to
  <1> HIDE DEF m, f
  <1>8. fp \in Int /\ 2 <= fp /\ fp <= e
    BY <1>2, <1>3, <1>4, <1>5
  <1>9. Plain(r)
    <2>1. Framed(S, fp, e)
      BY <1>4, <1>5
    <2> HIDE DEF S, fp, e
    <2>2. QED BY <2>1, RowFrames
  <1> HIDE DEF fp
  <1>10. SameFrom(S, c, fp)
    <2> HIDE DEF S
    <2>1. QED BY <1>2, <1>8, ClearFacts
  <1>11. /\ saved' = saved /\ blocks'[stack_base] = c
         /\ ChainOf(blocks', conts', next_k') = s
    <2>1. SameFrom(S, c, frame_base)
      <3>1. fp <= frame_base
        BY <1>2, <1>8
      <3> HIDE DEF S, c
      <3>2. QED BY <1>2, <1>8, <1>10, <3>1, SameHigher
    <2>2. blocks' = [blocks EXCEPT ![stack_base] = c]
      BY <1>1
    <2> HIDE DEF c
    <2>3. QED BY <1>1, <2>1, <2>2, BelowKeeps
  <1> HIDE DEF c
  <1>12. ctl = <<f>> \o (r \o s) /\ Waits(conts, s)
    <2>1. ctl = TopRow(S, frame_pointer, frame_base) \o s /\ Waits(conts, s)
      BY ListIs
    <2>2. TopRow(S, frame_pointer, frame_base) = <<f>> \o r
      BY <1>3, <1>6 DEF TopRow
    <2> HIDE DEF r, s
    <2>3. (<<f>> \o r) \o s = <<f>> \o (r \o s)
      BY <1>9, <2>1, OneMore
    <2>4. QED BY <2>1, <2>2, <2>3
  <1>13. ctl' = r \o s
    <2>1. ctl' = TopRow(blocks'[stack_base'], frame_pointer', frame_base') \o ChainOf(blocks', conts', next_k')
      BY ListIsNext
    <2>2. blocks'[stack_base'] = c /\ frame_pointer' = fp /\ frame_base' = frame_base
      BY <1>1, <1>11
    <2>3. TopRow(c, fp, frame_base) = TopRow(S, fp, frame_base)
      <3> HIDE DEF S
      <3>1. QED BY <1>2, <1>8, <1>10, TopSame
    <2>4. TopRow(S, fp, frame_base) = r
      <3> HIDE DEF S
      <3>1. QED BY <1>2, <1>8, TopIs
    <2> HIDE DEF S, r, s
    <2>5. QED BY <1>11, <2>1, <2>2, <2>3, <2>4
  <1>14. \E W : r \o s \in Seq(W)
    <2>1. PICK V : r \in Seq(V)
      BY <1>9 DEF Plain
    <2>2. PICK W : s \in Seq(W)
      BY <1>12 DEF Waits
    <2> HIDE DEF r, s
    <2>3. r \o s \in Seq(V \cup W)
      BY <2>1, <2>2, JoinFacts
    <2>4. QED BY <2>3
  <1>15. where = "returning" /\ where' = "scheme" /\ got' = << >>
    BY <1>1, WhereIs, WhereIsNext
  <1> DEFINE rest == r \o s
  <1>16. /\ \E W : rest \in Seq(W)
         /\ ctl = <<f>> \o rest /\ ctl' = rest
    BY <1>12, <1>13, <1>14
  <1> HIDE DEF rest
  <1>17. QED BY <1>7, <1>11, <1>15, <1>16, ArriveAtFrame

\* with no continuation left, the values are the program's result
LEMMA FinishImplements ==
  ASSUME StackInv, Finish
  PROVE  Abstract!CtlNext
  <1>1. /\ pc = "underflow" /\ pc' = "done" /\ next_k = 0
        /\ UNCHANGED <<blocks, stack_base, frame_base, frame_pointer, conts, next_k, slots>>
    BY DEF Finish, memory
  <1>2. /\ frame_pointer = frame_base - 1 /\ frame_pointer \in Int /\ frame_base \in Int
        /\ Chained(blocks, conts)
    BY <1>1, ListIs, Numbers DEF StackInv, InvPointer
  <1>3. TopRow(blocks[stack_base], frame_pointer, frame_base) = << >>
    BY <1>2, TopIs
  <1>4. ChainOf(blocks, conts, next_k) = << >>
    BY <1>1, <1>2, ChainLaws
  <1>5. ctl = << >>
    <2>1. ctl = << >> \o << >>
      BY <1>3, <1>4, ListIs
    <2>2. << >> \o << >> = << >>
      OBVIOUS
    <2>3. QED BY <2>1, <2>2
  <1>6. ctl' = ctl
    <2>1. ctl' = TopRow(blocks[stack_base], frame_pointer, frame_base) \o ChainOf(blocks, conts, next_k)
      BY <1>1, ListIsNext
    <2>2. QED BY <2>1, ListIs
  <1>7. saved' = saved
    BY <1>1, SavedKept
  <1>8. where = "returning" /\ where' = "done" /\ got' = << >>
    BY <1>1, WhereIs, WhereIsNext
  <1>9. QED BY <1>5, <1>6, <1>7, <1>8 DEF Abstract!CtlNext, Abstract!Arrive

\* values that reach a system continuation go to C
LEMMA UnderflowToCImplements ==
  ASSUME StackInv, UnderflowToC
  PROVE  Abstract!CtlNext
  <1> DEFINE S == blocks[stack_base]
             fp == frame_base - 1
             c == Clear(S, fp)
             s == ChainOf(blocks, conts, next_k)
  <1>1. /\ pc = "underflow" /\ next_k # 0 /\ conts[next_k].tag = "system"
        /\ frame_pointer' = frame_base /\ pc' = "c"
        /\ blocks' = [blocks EXCEPT ![stack_base] = c]
        /\ UNCHANGED <<stack_base, frame_base, conts, next_k, slots>>
    BY DEF UnderflowToC
  <1>2. /\ frame_base \in Int /\ DOMAIN S = Area /\ WellLinked(conts) /\ next_k \in DOMAIN conts \cup {0}
        /\ fp \in Int /\ fp <= frame_base
    BY Numbers
  <1>3. frame_pointer = fp
    BY <1>1 DEF StackInv, InvPointer
  <1>4. /\ saved' = saved /\ blocks'[stack_base] = c
        /\ ChainOf(blocks', conts', next_k') = s
    <2>1. SameFrom(S, c, frame_base)
      <3> HIDE DEF S, fp
      <3>1. SameFrom(S, c, fp)
        BY <1>2, ClearFacts
      <3> HIDE DEF c
      <3>2. QED BY <1>2, <3>1, SameHigher
    <2>2. blocks' = [blocks EXCEPT ![stack_base] = c]
      BY <1>1
    <2> HIDE DEF c
    <2>3. QED BY <1>1, <2>1, <2>2, BelowKeeps
  <1>5. ctl = << >> \o s /\ Waits(conts, s) /\ Chained(blocks, conts)
    <2>1. TopRow(S, frame_pointer, frame_base) = << >>
      <3> HIDE DEF S
      <3>1. QED BY <1>2, <1>3, TopIs
    <2>2. QED BY <2>1, ListIs
  <1>6. ctl' = << >> \o s
    <2>1. ctl' = TopRow(blocks'[stack_base'], frame_pointer', frame_base') \o ChainOf(blocks', conts', next_k')
      BY ListIsNext
    <2>2. blocks'[stack_base'] = c /\ frame_pointer' = frame_base /\ frame_base' = frame_base
      BY <1>1, <1>4
    <2>3. TopRow(c, frame_base, frame_base) = << >>
      <3> HIDE DEF c
      <3>1. QED BY <1>2, TopIs
    <2> HIDE DEF c, s
    <2>4. QED BY <1>4, <2>1, <2>2, <2>3
  <1> DEFINE rest == ChainOf(blocks, conts, conts[next_k].next)
  <1>7. s = <<MarkOf(next_k)>> \o rest
    <2>1. next_k \in DOMAIN conts
      BY <1>1, <1>2
    <2>2. s = PartOf(blocks, conts, next_k) \o rest
      BY <1>5, <2>1, ChainLaws
    <2>3. PartOf(blocks, conts, next_k) = <<MarkOf(next_k)>>
      BY <1>1 DEF PartOf
    <2>4. QED BY <2>2, <2>3
  <1>8. PICK W : rest \in Seq(W)
    <2>1. conts[next_k].next \in DOMAIN conts \cup {0}
      BY <1>1, <1>2 DEF WellLinked
    <2>2. Waits(conts, rest)
      BY <1>5, <2>1, ChainWaits
    <2>3. QED BY <2>2 DEF Waits
  <1>9. next_k \in Ids
    BY <1>1, <1>2 DEF WellLinked
  <1>10. << >> \o s = s
    <2>1. PICK V : s \in Seq(V)
      BY <1>5 DEF Waits
    <2> HIDE DEF s
    <2>2. QED BY <2>1, JoinNone
  <1>11. where = "returning" /\ where' = "c" /\ got' = << >>
    BY <1>1, WhereIs, WhereIsNext
  <1> HIDE DEF rest, s
  <1>12. ctl = <<MarkOf(next_k)>> \o rest /\ ctl' = ctl
    BY <1>5, <1>6, <1>7, <1>10
  <1>13. QED BY <1>4, <1>8, <1>9, <1>11, <1>12, ArriveAtC

\* the list is the chain when C runs, and at the handler
LEMMA ListIsChain ==
  ASSUME StackInv, frame_pointer >= frame_base - 1
  PROVE  ctl = ChainOf(blocks, conts, next_k) /\ Waits(conts, ChainOf(blocks, conts, next_k))
  <1> DEFINE s == ChainOf(blocks, conts, next_k)
  <1>1. frame_base \in Int /\ frame_pointer \in Int
    BY Numbers
  <1>2. TopRow(blocks[stack_base], frame_pointer, frame_base) = << >>
    BY <1>1, TopIs
  <1>3. ctl = << >> \o s /\ Waits(conts, s)
    BY <1>2, ListIs
  <1>4. PICK V : s \in Seq(V)
    BY <1>3 DEF Waits
  <1> HIDE DEF s
  <1>5. << >> \o s = s
    BY <1>4, JoinNone
  <1>6. QED BY <1>3, <1>5 DEF s

-----------------------------------------------------------------------------
(* Callbacks *)

\* the list after a step that leaves no frame on the stack
LEMMA ListIsChainNext ==
  ASSUME frame_base' \in Int, frame_pointer' \in Int, frame_pointer' >= frame_base' - 1,
         NEW cs, NEW s, Waits(cs, s), ChainOf(blocks', conts', next_k') = s
  PROVE  ctl' = s
  <1>1. ctl' = TopRow(blocks'[stack_base'], frame_pointer', frame_base') \o s
    BY ListIsNext
  <1>2. TopRow(blocks'[stack_base'], frame_pointer', frame_base') = << >>
    BY TopIs
  <1>3. PICK V : s \in Seq(V)
    BY DEF Waits
  <1>4. << >> \o s = s
    BY <1>3, JoinNone
  <1>5. QED BY <1>1, <1>2, <1>4

\* generic_callback converts its arguments: nothing that waits changes
LEMMA CallBackImplements ==
  ASSUME StackInv, InvTop, CallBack
  PROVE  UNCHANGED Abstract!cvars
  <1>1. /\ pc = "c" /\ pc' = "arguments" /\ frame_pointer' = frame_base
        /\ UNCHANGED <<blocks, stack_base, frame_base, conts, next_k, slots>>
    BY DEF CallBack, memory
  <1>2. frame_base \in Int /\ frame_pointer >= frame_base - 1
    BY <1>1, Numbers DEF InvTop
  <1>3. ctl = ChainOf(blocks, conts, next_k) /\ Waits(conts, ChainOf(blocks, conts, next_k))
    BY <1>2, ListIsChain
  <1>4. frame_base' \in Int /\ frame_pointer' \in Int /\ frame_pointer' >= frame_base' - 1
    BY <1>1, <1>2
  <1> DEFINE s == ChainOf(blocks, conts, next_k)
  <1>5. ChainOf(blocks', conts', next_k') = s
    BY <1>1
  <1> HIDE DEF s
  <1>6. ctl' = s
    BY <1>3, <1>4, <1>5, ListIsChainNext DEF s
  <1>7. saved' = saved
    BY <1>1, SavedKept
  <1>8. where' = where /\ got' = got
    BY <1>1, WhereIs, WhereIsNext
  <1>9. QED BY <1>3, <1>6, <1>7, <1>8 DEF Abstract!cvars, s

\* a foreign function returns: its result is yet to be converted
LEMMA ForeignResultImplements ==
  ASSUME StackInv, ForeignResult
  PROVE  UNCHANGED Abstract!cvars
  <1>1. /\ pc = "c" /\ pc' = "result"
        /\ UNCHANGED <<blocks, stack_base, frame_base, frame_pointer, conts, next_k, slots>>
    BY DEF ForeignResult, memory
  <1>2. ctl' = ctl
    <2>1. ctl' = TopRow(blocks[stack_base], frame_pointer, frame_base) \o ChainOf(blocks, conts, next_k)
      BY <1>1, ListIsNext
    <2>2. QED BY <2>1, ListIs
  <1>3. saved' = saved
    BY <1>1, SavedKept
  <1>4. where' = where /\ got' = got
    BY <1>1, WhereIs, WhereIsNext
  <1>5. QED BY <1>2, <1>3, <1>4 DEF Abstract!cvars

\* ik_exec_code starts Scheme code above the mark, which stays where it is
LEMMA EnterImplements ==
  ASSUME StackInv, InvTop, Enter
  PROVE  Abstract!CtlNext
  <1> DEFINE S == blocks[stack_base]
             c == Handler(S, frame_base)
             s == ChainOf(blocks, conts, next_k)
  <1>1. /\ pc = "arguments" /\ pc' = "scheme" /\ frame_pointer' = frame_base - 1
        /\ blocks' = [blocks EXCEPT ![stack_base] = c]
        /\ UNCHANGED <<stack_base, frame_base, conts, next_k, slots>>
    BY DEF Enter
  <1>2. /\ frame_base \in Int /\ DOMAIN S = Area /\ frame_pointer >= frame_base - 1
    BY <1>1, Numbers DEF InvTop
  <1>3. ctl = s /\ Waits(conts, s)
    BY <1>2, ListIsChain
  <1>4. SameFrom(S, c, frame_base)
    <2> HIDE DEF S
    <2>1. QED BY <1>2, HandlerFacts
  <1> HIDE DEF c
  <1>5. saved' = saved /\ ChainOf(blocks', conts', next_k') = s
    BY <1>1, <1>4, BelowKeeps
  <1>6. frame_base' \in Int /\ frame_pointer' \in Int /\ frame_pointer' >= frame_base' - 1
    BY <1>1, <1>2
  <1> HIDE DEF s
  <1>7. ctl' = s
    BY <1>3, <1>5, <1>6, ListIsChainNext
  <1>8. where = "c" /\ where' = "scheme" /\ got' = got
    BY <1>1, WhereIs, WhereIsNext
  <1>9. QED BY <1>3, <1>5, <1>7, <1>8, CallBackStep

\* what is sealed comes before the chain it is sealed to
SealedChain(bs, cs, c, fp, fb, nk, bt, ds, k) ==
  /\ KeepsChains(bs, cs, bt, ds)
  /\ ChainOf(bt, ds, k) = RowOf(c, fp, fb - 1) \o ChainOf(bs, cs, nk)

-----------------------------------------------------------------------------
(* Continuations captured and invoked *)

\* a captured stack is one continuation more: the row that was on the stack is now
\* the first part of a chain, and no other chain changes
LEMMA SealChains ==
  ASSUME NEW bs, NEW a, NEW fb, NEW cs, FramesOK(bs, a, fb, cs), NEW nk, NEW ss, ContsOK(cs, nk, ss),
         NEW fp \in LowBase .. fb - 2, NEW c, SameFrom(bs[a], c, fb), Framed(c, fp, fb - 1),
         NEW k, k \notin DOMAIN cs, NEW x, x.tag = "k", x.block = a, x.top = fp, x.size = fb - 1 - fp, x.next = nk,
         NEW bt, bt = [bs EXCEPT ![a] = Handler(c, fp)], NEW ds, ds = Also(cs, k, x), Chained(bt, ds)
  PROVE  SealedChain(bs, cs, c, fp, fb, nk, bt, ds, k)
  <1> DEFINE h == Handler(c, fp)
  <1>1. /\ a \in DOMAIN bs /\ fb \in Int /\ fp \in Int /\ fp <= fb - 2 /\ fb <= AreaSize /\ AreaSize \in Int
        /\ 0 <= fp /\ fp <= fb
    BY Bounds DEF FramesOK
  <1>2. WellLinked(cs) /\ Records(cs) /\ nk \in DOMAIN cs \cup {0}
    BY DEF ContsOK
  <1>3. DOMAIN c = Area
    BY DEF SameFrom
  <1>4. SameFrom(c, h, fp)
    BY <1>1, <1>3, HandlerFacts
  <1> HIDE DEF h
  <1>5. SameFrom(bs[a], h, fb)
    <2>1. SameFrom(c, h, fb)
      BY <1>1, <1>4, SameHigher
    <2>2. QED BY <2>1, SameThen
  <1>6. KeepsChains(bs, cs, bt, cs) /\ bt[a] = h
    <2>1. bt = [bs EXCEPT ![a] = h]
      BY DEF h
    <2>2. KeepsChains(bs, cs, bt, cs)
      BY <1>2, <1>5, <2>1, ChainsBelow
    <2>3. QED BY <1>1, <2>1, <2>2
  <1>7. Chained(bt, cs)
    <2>1. bt = [bs EXCEPT ![a] = h]
      BY DEF h
    <2>2. FramesOK([bs EXCEPT ![a] = h], a, fb, cs)
      BY <1>5, FramesBelow
    <2>3. FramesOK(bt, a, fb, cs)
      BY <2>1, <2>2
    <2>4. QED BY <2>3, ChainedFrames
  <1>8. /\ KeepsChains(bt, cs, bt, ds)
        /\ ChainOf(bt, ds, k) = PartOf(bt, ds, k) \o ChainOf(bt, cs, nk)
        /\ DOMAIN ds = DOMAIN cs \cup {k} /\ ds[k] = x
    <2>1. x.next \in DOMAIN cs \cup {0}
      BY <1>2
    <2>2. Chained(bt, ds) /\ k \notin DOMAIN cs /\ ds = Also(cs, k, x)
      OBVIOUS
    <2>3. OneMoreOn(bt, cs, k, x, ds)
      BY <1>7, <2>1, <2>2, ChainsMore
    <2>4. QED BY <2>3 DEF OneMoreOn
  <1>9. KeepsChains(bs, cs, bt, ds)
    BY <1>6, <1>8, KeepsThen
  <1>10. PartOf(bt, ds, k) = RowOf(c, fp, fb - 1)
    <2> DEFINE e == fb - 1
    <2>1. e \in Int /\ fp + (fb - 1 - fp) = e
      BY <1>1
    <2>2. PartOf(bt, ds, k) = RowOf(h, fp, fp + (fb - 1 - fp))
      BY <1>6, <1>8 DEF PartOf
    <2>3. \A j \in fp .. e - 1 : j \in Area /\ fp <= j
      BY <1>1 DEF Area
    <2>4. \A j \in fp .. e - 1 : h[j] = c[j]
      BY <1>4, <2>3 DEF SameFrom
    <2> HIDE DEF e
    <2>5. RowOf(h, fp, e) = RowOf(c, fp, e)
      BY <1>1, <2>1, <2>4, RowSame
    <2>6. QED BY <2>1, <2>2, <2>5 DEF e
  <1>11. ChainOf(bt, cs, nk) = ChainOf(bs, cs, nk)
    BY <1>2, <1>6 DEF KeepsChains
  <1>12. QED BY <1>8, <1>9, <1>10, <1>11 DEF SealedChain

\* a slot gets what waits
LEMMA SavedWith ==
  ASSUME NEW s \in Slot, NEW k, k # -1, slots \in [Slot -> Int], slots' = [slots EXCEPT ![s] = k],
         ChainOf(blocks', conts', k) = ctl,
         \A t \in Slot : t # s /\ slots[t] # -1 => ChainOf(blocks', conts', slots[t]) = ChainOf(blocks, conts, slots[t])
  PROVE  saved' = [saved EXCEPT ![s] = ctl]
  <1>1. ASSUME NEW t \in Slot
        PROVE  (IF slots[t] = -1 THEN NoCont ELSE Chain(slots[t]))' =
               IF t = s THEN ctl ELSE IF slots[t] = -1 THEN NoCont ELSE Chain(slots[t])
    <2>1. Chain(slots[t])' = ChainOf(blocks', conts', slots'[t])
      BY Zenon DEF Chain, ChainOf, ContWords
    <2>2. Chain(slots[t]) = ChainOf(blocks, conts, slots[t])
      BY ChainIs
    <2>3. slots'[t] = IF t = s THEN k ELSE slots[t]
      OBVIOUS
    <2>4. CASE t = s
      BY <2>1, <2>3, <2>4
    <2>5. CASE t # s
      BY <2>1, <2>2, <2>3, <2>5 DEF NoCont
    <2>6. QED BY <2>4, <2>5
  <1> DEFINE new(t) == IF t = s THEN ctl ELSE IF slots[t] = -1 THEN NoCont ELSE Chain(slots[t])
             old(t) == IF slots[t] = -1 THEN NoCont ELSE Chain(slots[t])
  <1>2. saved = [t \in Slot |-> old(t)]
    BY DEF saved
  <1>3. saved' = [t \in Slot |-> new(t)]
    BY <1>1 DEF saved
  <1>4. \A t \in Slot : new(t) = IF t = s THEN ctl ELSE old(t)
    OBVIOUS
  <1> DEFINE c == ctl
  <1> HIDE DEF old, new, c
  <1>5. \A t \in Slot : new(t) = IF t = s THEN c ELSE old(t)
    BY <1>4 DEF c
  <1>6. saved' = [saved EXCEPT ![s] = c]
    BY <1>2, <1>3, <1>5
  <1>7. QED BY <1>6 DEF c

\* call/cc keeps the list, whether it seals the stack or finds it empty
LEMMA CaptureImplements ==
  ASSUME StackInv, Capture
  PROVE  Abstract!CtlNext
  <1> DEFINE S == blocks[stack_base]
  <1>1. PICK s \in Slot :
          /\ pc = "scheme" /\ Room(MaxFrames + 2)
          /\ IF frame_pointer = frame_base - 1
             THEN /\ Refer(blocks, stack_base, conts, next_k, [slots EXCEPT ![s] = next_k])
                  /\ UNCHANGED <<frame_base, frame_pointer>>
             ELSE /\ LET k == Free(DOMAIN conts)
                         size == frame_base - 1 - frame_pointer
                     IN  Refer([blocks EXCEPT ![stack_base] = Handler(@, frame_pointer)], stack_base,
                               Also(conts, k, Sealed(frame_pointer, size, next_k)), k,
                               [slots EXCEPT ![s] = k])
                  /\ frame_base' = frame_pointer
                  /\ frame_pointer' = frame_pointer - 1
          /\ UNCHANGED <<stack_base, argc, pc>>
    BY DEF Capture
  <1>2. /\ frame_base \in Int /\ frame_base <= AreaSize /\ AreaSize \in Int /\ LowBase \in Int
        /\ frame_pointer \in Int /\ 2 <= frame_pointer /\ frame_pointer <= frame_base
        /\ stack_base \in DOMAIN blocks /\ DOMAIN S = Area
    BY Numbers
  <1>3. frame_pointer < frame_base /\ Framed(S, frame_pointer, frame_base - 1)
        /\ (frame_pointer = frame_base - 1 \/ frame_pointer \in LowBase .. frame_base - 2)
    BY <1>1 DEF InvPointer, StackInv
  <1>4. FramesOK(blocks, stack_base, frame_base, conts) /\ ContsOK(conts, next_k, slots)
    BY DEF StackInv, InvMemory, InvConts
  <1>5. WellLinked(conts) /\ next_k \in DOMAIN conts \cup {0} /\ slots \in [Slot -> DOMAIN conts \cup {0, -1}]
        /\ DOMAIN conts \subseteq Ids
    BY <1>4 DEF ContsOK, WellLinked
  <1>6. next_k \in Int /\ next_k # -1
    BY <1>5, StackAssumption
  <1>7. where = "scheme" /\ where' = "scheme" /\ got' = got
    BY <1>1, WhereIs, WhereIsNext
  <1>8. slots \in [Slot -> Int]
    <2>1. \A i \in DOMAIN conts : i \in Int
      <3>1. \A i \in Ids : i \in Int
        BY StackAssumption
      <3>2. DOMAIN conts \subseteq Ids
        BY <1>5
      <3>3. QED BY <3>1, <3>2, Zenon
    <2>2. \A i \in DOMAIN conts \cup {0, -1} : i \in Int
      BY <2>1
    <2>3. \A t \in Slot : slots[t] \in Int
      BY <1>5, <2>2
    <2>4. slots = [t \in Slot |-> slots[t]]
      BY <1>5
    <2>5. QED BY <2>3, <2>4
  <1>9. ASSUME ctl' = ctl, saved' = [saved EXCEPT ![s] = ctl] PROVE Abstract!CtlNext
    BY <1>7, <1>9 DEF Abstract!CtlNext, Abstract!Capture
  <1>10. CASE frame_pointer = frame_base - 1
    <2> DEFINE ss == [slots EXCEPT ![s] = next_k]
    <2>1. ContsOK(conts, next_k, ss)
      BY <1>4, <1>5 DEF ContsOK
    <2>2. Refer(blocks, stack_base, conts, next_k, ss) /\ UNCHANGED <<frame_base, frame_pointer>>
      BY <1>1, <1>10
    <2>3. ss[s] = next_k /\ \A t \in Slot : t # s => ss[t] = slots[t]
      BY <1>5
    <2> HIDE DEF ss
    <2>4. /\ ChainOf(blocks', conts', next_k') = ChainOf(blocks, conts, next_k)
          /\ \A t \in Slot : ss[t] # -1 => ChainOf(blocks', conts', ss[t]) = ChainOf(blocks, conts, ss[t])
          /\ slots' = ss /\ next_k' = next_k
      BY <1>4, <2>1, <2>2, ChainsReferred
    <2>5. ctl = ChainOf(blocks, conts, next_k) /\ Waits(conts, ChainOf(blocks, conts, next_k))
      BY <1>2, <1>10, ListIsChain
    <2>6. frame_base' \in Int /\ frame_pointer' \in Int /\ frame_pointer' >= frame_base' - 1
      BY <1>2, <1>10, <2>2
    <2> DEFINE q == ChainOf(blocks, conts, next_k)
    <2>7. ctl' = q
      <3> HIDE DEF q
      <3>1. QED BY <2>4, <2>5, <2>6, ListIsChainNext DEF q
    <2>8. saved' = [saved EXCEPT ![s] = ctl]
      <3>1. slots' = [slots EXCEPT ![s] = next_k]
        BY <2>4 DEF ss
      <3>2. ChainOf(blocks', conts', next_k) = ctl
        BY <2>4, <2>5
      <3>3. \A t \in Slot : t # s /\ slots[t] # -1 => ChainOf(blocks', conts', slots[t]) = ChainOf(blocks, conts, slots[t])
        BY <2>3, <2>4
      <3>4. QED BY <1>6, <1>8, <3>1, <3>2, <3>3, SavedWith
    <2>9. QED BY <1>9, <2>5, <2>7, <2>8
  <1>11. CASE frame_pointer # frame_base - 1
    <2> DEFINE k == Free(DOMAIN conts)
               size == frame_base - 1 - frame_pointer
               x == Sealed(frame_pointer, size, next_k)
               cs == Also(conts, k, x)
               ss == [slots EXCEPT ![s] = k]
               bs == [blocks EXCEPT ![stack_base] = Handler(S, frame_pointer)]
    <2>1. Refer(bs, stack_base, cs, k, ss) /\ frame_base' = frame_pointer /\ frame_pointer' = frame_pointer - 1
      BY <1>1, <1>11
    <2>2. k \in Ids /\ k \notin DOMAIN conts
      <3>1. MaxFrames + 2 \in Nat \ {0}
        BY StackAssumption
      <3>2. Cardinality(DOMAIN conts) + (MaxFrames + 2) <= Cardinality(Ids)
        BY <1>1 DEF Room
      <3> HIDE DEF k
      <3> DEFINE n == MaxFrames + 2
      <3> HIDE DEF n
      <3>3. Free(DOMAIN conts) \in Ids /\ Free(DOMAIN conts) \notin DOMAIN conts
        BY <1>5, <3>1, <3>2, FreeId DEF n
      <3>4. QED BY <3>3 DEF k
    <2>3. frame_pointer \in LowBase .. frame_base - 2 /\ size \in Nat \ {0}
      BY <1>2, <1>3, <1>11
    <2>4. x = [tag |-> "k", block |-> stack_base, top |-> frame_pointer, size |-> size, next |-> next_k]
      BY DEF Sealed, SealedSize
    <2>5. stack_base \in Block
      BY <1>4 DEF FramesOK, Block
    <2>6. x.block = stack_base /\ x.top = frame_pointer /\ x.size = frame_base - 1 - frame_pointer
      BY <2>4
    <2>7. ss[s] = k /\ \A t \in Slot : t # s => ss[t] = slots[t]
      BY <1>5
    <2> HIDE DEF k, size, x
    <2>8. /\ x.next = next_k /\ x.tag = "k"
          /\ x \in [tag : {"k"}, block : Block, top : Int, size : Nat \ {0}, next : Int]
      BY <1>2, <1>6, <2>3, <2>4, <2>5, SealedRecord
    <2>9. ContsOK(cs, k, slots)
      <3>1. x.next \in DOMAIN conts \cup {0}
        BY <1>5, <2>8
      <3>2. QED BY <1>4, <2>2, <2>8, <3>1, ContsMore
    <2>10. SameFrom(S, S, frame_base)
      BY <1>2 DEF SameFrom
    <2>11. FramesOK(bs, stack_base, frame_pointer, cs)
      BY <1>3, <1>4, <2>2, <2>3, <2>6, <2>10, Sealing
    <2>12. DOMAIN cs = DOMAIN conts \cup {k}
      BY DEF Also
    <2>13. bs = [blocks EXCEPT ![stack_base] = Handler(S, frame_pointer)] /\ cs = Also(conts, k, x)
      OBVIOUS
    <2> HIDE DEF cs, bs
    <2>14. ContsOK(cs, k, ss)
      <3>1. slots \in [Slot -> DOMAIN cs \cup {0, -1}] /\ k \in DOMAIN cs
        BY <2>9, <2>12 DEF ContsOK
      <3>2. ss \in [Slot -> DOMAIN cs \cup {0, -1}]
        BY <3>1
      <3>3. QED BY <2>9, <3>2 DEF ContsOK
    <2>15. Chained(bs, cs)
      BY <2>9, <2>11, ChainedFrames
    <2>16. SealedChain(blocks, conts, S, frame_pointer, frame_base, next_k, bs, cs, k)
      <3> HIDE DEF S
      <3>1. FramesOK(blocks, stack_base, frame_base, conts) /\ SameFrom(blocks[stack_base], S, frame_base)
        BY <1>4, <2>10 DEF S
      <3>2. QED BY <1>3, <1>4, <2>2, <2>3, <2>6, <2>8, <2>13, <2>15, <3>1, SealChains
    <2> HIDE DEF ss
    <2>17. /\ ChainOf(blocks', conts', next_k') = ChainOf(bs, cs, k)
           /\ \A t \in Slot : ss[t] # -1 => ChainOf(blocks', conts', ss[t]) = ChainOf(bs, cs, ss[t])
           /\ slots' = ss /\ next_k' = k
      BY <2>1, <2>11, <2>14, ChainsReferred
    <2> DEFINE q == ChainOf(bs, cs, k)
    <2>18. ctl = q
      <3>1. ctl = TopRow(S, frame_pointer, frame_base) \o ChainOf(blocks, conts, next_k)
        BY ListIs
      <3>2. TopRow(S, frame_pointer, frame_base) = RowOf(S, frame_pointer, frame_base - 1)
        <4> HIDE DEF S
        <4>1. QED BY <1>2, <1>3, TopIs
      <3>3. ChainOf(bs, cs, k) = RowOf(S, frame_pointer, frame_base - 1) \o ChainOf(blocks, conts, next_k)
        BY <2>16 DEF SealedChain
      <3>4. QED BY <3>1, <3>2, <3>3
    <2>19. ctl' = q
      <3>1. frame_base' \in Int /\ frame_pointer' \in Int /\ frame_pointer' >= frame_base' - 1
        BY <1>2, <2>1
      <3>2. Waits(cs, q)
        BY <2>12, <2>15, ChainWaits
      <3> HIDE DEF q
      <3>3. QED BY <2>17, <3>1, <3>2, ListIsChainNext DEF q
    <2>20. saved' = [saved EXCEPT ![s] = ctl]
      <3>1. slots' = [slots EXCEPT ![s] = k] /\ k # -1
        BY <2>2, <2>17, StackAssumption DEF ss
      <3>2. ChainOf(blocks', conts', k) = ctl
        BY <2>17, <2>18
      <3>3. ASSUME NEW t \in Slot, t # s, slots[t] # -1
            PROVE  ChainOf(blocks', conts', slots[t]) = ChainOf(blocks, conts, slots[t])
        <4>1. ChainOf(blocks', conts', slots[t]) = ChainOf(bs, cs, slots[t])
          BY <2>7, <2>17, <3>3
        <4>2. slots[t] \in DOMAIN conts \cup {0}
          BY <1>5, <3>3
        <4>3. ChainOf(bs, cs, slots[t]) = ChainOf(blocks, conts, slots[t])
          BY <2>16, <4>2 DEF SealedChain, KeepsChains
        <4>4. QED BY <4>1, <4>3
      <3>4. QED BY <1>8, <3>1, <3>2, <3>3, SavedWith
    <2> HIDE DEF q
    <2>21. QED BY <1>9, <2>18, <2>19, <2>20
  <1>12. QED BY <1>10, <1>11

\* what waits is something: a slot with a continuation is not empty
LEMMA WaitsSome ==
  ASSUME NEW cs, WellLinked(cs), NEW r, Waits(cs, r)
  PROVE  r # NoCont
  <1>1. SUFFICES ASSUME r = NoCont PROVE FALSE
    OBVIOUS
  <1>2. PICK W : r \in Seq(W) /\ \A x \in W : IsWait(cs, x)
    BY DEF Waits
  <1>3. Len(r) = 1
    BY <1>1 DEF NoCont
  <1>4. r[1] \in W
    BY <1>2, <1>3
  <1>5. QED BY <1>1, <1>2, <1>4, MarksDiffer

\* a continuation is put back above the mark it was captured above; above another
\* one nothing is promised
LEMMA ThrowImplements ==
  ASSUME StackInv, Throw
  PROVE  Abstract!CtlNext
  <1> DEFINE S == blocks[stack_base]
             C == Clear(S, frame_base - 1)
  <1>1. PICK s \in Slot, vs \in Results :
          /\ pc = "scheme" /\ slots[s] # -1
          /\ IF FirstSystem(slots[s]) = FirstSystem(next_k)
             THEN /\ pc' = "underflow" /\ argc' = Len(vs) /\ frame_pointer' = frame_base - 1
                  /\ Refer([blocks EXCEPT ![stack_base] =
                               Write(C, frame_base - 1 - Len(vs), Below(vs))],
                           stack_base, conts, slots[s], slots)
             ELSE pc' = "across" /\ UNCHANGED <<argc, frame_pointer, blocks, conts, next_k, slots>>
          /\ UNCHANGED <<stack_base, frame_base, cstack, system_stack>>
    BY DEF Throw, c_side
  <1>2. /\ frame_base \in Int /\ frame_base <= AreaSize /\ AreaSize \in Int /\ frame_base >= 6
        /\ DOMAIN S = Area /\ stack_base \in DOMAIN blocks
    BY Numbers
  <1>3. FramesOK(blocks, stack_base, frame_base, conts) /\ ContsOK(conts, next_k, slots)
    BY DEF StackInv, InvMemory, InvConts
  <1>4. /\ WellLinked(conts) /\ Records(conts)
        /\ next_k \in DOMAIN conts \cup {0} /\ slots \in [Slot -> DOMAIN conts \cup {0, -1}]
    BY <1>3 DEF ContsOK
  <1> DEFINE k == slots[s]
             q == ChainOf(blocks, conts, k)
             r == TopRow(S, frame_pointer, frame_base)
             w == ChainOf(blocks, conts, next_k)
  <1>5. k \in DOMAIN conts \cup {0} /\ k # -1
    BY <1>1, <1>4
  <1>6. ctl = r \o w /\ Chained(blocks, conts) /\ Plain(r) /\ Waits(conts, w)
    BY ListIs
  <1>7. Edge(ctl) = Edge(w)
    <2>1. PICK V : w \in Seq(V)
      BY <1>6 DEF Waits
    <2> HIDE DEF r, w
    <2>2. Edge(r \o w) = Edge(w)
      BY <1>6, <2>1, EdgeAfter
    <2>3. QED BY <1>6, <2>2
  <1>8. saved[s] = q
    BY <1>1, SavedIs
  <1>9. Waits(conts, q) /\ (Edge(q) = Edge(w) <=> FirstOf(conts, k) = FirstOf(conts, next_k))
    <2> HIDE DEF k
    <2>1. Waits(conts, q)
      BY <1>5, <1>6, ChainWaits
    <2>2. Edge(q) = Edge(w) <=> FirstOf(conts, k) = FirstOf(conts, next_k)
      BY <1>4, <1>5, <1>6, EdgesEqual
    <2>3. QED BY <2>1, <2>2
  <1>10. saved[s] # NoCont
    <2> HIDE DEF q
    <2>1. q # NoCont
      BY <1>4, <1>9, WaitsSome
    <2>2. QED BY <1>8, <2>1
  <1>11. FirstOf(conts, k) = FirstSystem(slots[s]) /\ FirstOf(conts, next_k) = FirstSystem(next_k)
    BY Zenon DEF FirstSystem, FirstOf
  <1>12. (Abstract!Boundary(saved[s]) = Abstract!Boundary(ctl)) <=> (FirstSystem(slots[s]) = FirstSystem(next_k))
    <2>1. Edge(saved[s]) = Edge(q)
      BY <1>8
    <2>2. Edge(saved[s]) = Edge(ctl) <=> FirstSystem(slots[s]) = FirstSystem(next_k)
      <3> HIDE DEF q, w, k
      <3>1. QED BY <1>7, <1>9, <1>11, <2>1
    <2>3. QED BY <2>2 DEF Edge
  <1>13. where = "scheme"
    BY <1>1, WhereIs
  <1> HIDE DEF r, w
  <1>14. CASE FirstSystem(slots[s]) = FirstSystem(next_k)
    <2> DEFINE at == frame_base - 1
               D == Clear(S, at)
               c == Write(D, at - Len(vs), Below(vs))
               bs == [blocks EXCEPT ![stack_base] = c]
    <2>1. /\ pc' = "underflow" /\ argc' = Len(vs) /\ frame_pointer' = at
          /\ Refer(bs, stack_base, conts, k, slots)
          /\ UNCHANGED <<stack_base, frame_base>>
      BY <1>1, <1>14
    <2>2. at \in Int /\ at <= frame_base /\ 2 <= at /\ at < AreaSize
      BY <1>2
    <2>3. DOMAIN D = Area /\ SameFrom(S, D, at)
      <3> HIDE DEF at, S
      <3>1. QED BY <1>2, <2>2, ClearFacts
    <2>4. SameFrom(S, c, frame_base)
      <3> HIDE DEF at, S, D
      <3>1. SameFrom(D, c, at)
        BY <2>2, <2>3, ValuesFacts
      <3> HIDE DEF c
      <3>2. SameFrom(S, c, at)
        BY <2>3, <3>1, SameThen
      <3>3. QED BY <1>2, <2>2, <3>2, SameHigher
    <2>5. GotOf(c, at, Len(vs)) = vs
      <3> HIDE DEF at, D
      <3>1. QED BY <2>2, <2>3, GotWritten
    <2> HIDE DEF c
    <2>6. bs[stack_base] = c
      BY <1>2
    <2>7. FramesOK([blocks EXCEPT ![stack_base] = c], stack_base, frame_base, conts)
      BY <1>3, <2>4, FramesBelow
    <2>8. ContsOK(conts, k, slots)
      <3> HIDE DEF k
      <3>1. QED BY <1>3, <1>5 DEF ContsOK
    <2>9. bs = [blocks EXCEPT ![stack_base] = c]
      OBVIOUS
    <2> HIDE DEF bs, at, k
    <2>10. KeepsChains(blocks, conts, bs, conts)
      BY <1>3, <1>4, <2>4, <2>9, ChainsBelow
    <2>11. FramesOK(bs, stack_base, frame_base, conts)
      BY <2>7, <2>9
    <2>12. /\ ChainOf(blocks', conts', next_k') = ChainOf(bs, conts, k)
           /\ \A t \in Slot : slots[t] # -1 => ChainOf(blocks', conts', slots[t]) = ChainOf(bs, conts, slots[t])
           /\ slots' = slots /\ next_k' = k /\ blocks'[stack_base] = bs[stack_base]
      BY <2>1, <2>8, <2>11, ChainsReferred
    <2>13. ChainOf(blocks', conts', next_k') = q
      BY <1>5, <2>10, <2>12 DEF KeepsChains
    <2>14. saved' = saved
      <3>1. \A t \in Slot : slots[t] # -1 => slots[t] \in DOMAIN conts \cup {0}
        BY <1>4
      <3>2. \A t \in Slot : slots[t] # -1 => ChainOf(blocks', conts', slots[t]) = ChainOf(blocks, conts, slots[t])
        BY <2>10, <2>12, <3>1 DEF KeepsChains
      <3>3. QED BY <2>12, <3>2, SavedKept
    <2>15. ctl' = q
      <3>1. frame_base' \in Int /\ frame_pointer' \in Int /\ frame_pointer' >= frame_base' - 1
        BY <1>2, <2>1, <2>2 DEF at
      <3> HIDE DEF q
      <3>2. QED BY <1>9, <2>13, <3>1, ListIsChainNext
    <2>16. where' = "returning" /\ got' = vs
      <3>1. where' = "returning" /\ got' = Got'
        BY <2>1, WhereIsNext
      <3>2. /\ argc' \in Nat /\ frame_pointer' \in Int /\ blocks'[stack_base'] = c
            /\ argc' = Len(vs) /\ frame_pointer' = at
        BY <2>1, <2>2, <2>6, <2>12, BelowFacts
      <3>3. Got' = GotOf(blocks'[stack_base'], frame_pointer', argc')
        BY <3>2, GotIsNext
      <3>4. QED BY <2>5, <3>1, <3>2, <3>3
    <2>17. ctl' = saved[s]
      BY <1>8, <2>15
    <2> HIDE DEF q
    <2>18. QED BY <1>10, <1>12, <1>13, <1>14, <2>14, <2>16, <2>17 DEF Abstract!CtlNext, Abstract!Throw
  <1>15. CASE FirstSystem(slots[s]) # FirstSystem(next_k)
    <2>1. /\ pc' = "across"
          /\ UNCHANGED <<argc, frame_pointer, blocks, conts, next_k, slots, stack_base, frame_base>>
      BY <1>1, <1>15
    <2>2. ctl' = ctl
      <3>1. ctl' = TopRow(blocks[stack_base], frame_pointer, frame_base) \o ChainOf(blocks, conts, next_k)
        BY <2>1, ListIsNext
      <3>2. QED BY <3>1, ListIs
    <2>3. saved' = saved
      BY <2>1, SavedKept
    <2>4. where' = "across" /\ got' = got
      BY <1>1, <2>1, WhereIs, WhereIsNext
    <2> HIDE DEF q, k
    <2>5. QED BY <1>10, <1>12, <1>13, <1>15, <2>2, <2>3, <2>4 DEF Abstract!CtlNext, Abstract!Throw
  <1>16. QED BY <1>14, <1>15

\* the mark of the call that returns goes, and the values are on their way to the
\* frame below it
LEMMA ForeignReturnImplements ==
  ASSUME StackInv, InvTop, ForeignReturn
  PROVE  Abstract!CtlNext
  <1> DEFINE S == blocks[stack_base]
             k == conts[next_k]
  <1>1. PICK vs \in {rs \in Results : Len(rs) = 1} :
          /\ pc = "result"
          /\ IF next_k = 0 \/ k.tag # "system"
             THEN pc' = "dead" /\ UNCHANGED <<blocks, frame_pointer, conts, next_k, slots, argc>>
             ELSE /\ pc' = "underflow" /\ frame_pointer' = frame_base - 1 /\ argc' = 1
                  /\ Refer([blocks EXCEPT ![stack_base] = Write(S, frame_base - 2, Below(vs))],
                           stack_base, conts, k.next, slots)
          /\ UNCHANGED <<stack_base, frame_base>>
    BY DEF ForeignReturn
  <1>2. /\ frame_base \in Int /\ frame_base >= 6 /\ stack_base \in DOMAIN blocks /\ DOMAIN S = Area
        /\ WellLinked(conts) /\ Records(conts) /\ next_k \in DOMAIN conts \cup {0}
        /\ frame_base <= AreaSize /\ AreaSize \in Int
        /\ slots \in [Slot -> DOMAIN conts \cup {0, -1}]
    BY Numbers
  <1>3. FramesOK(blocks, stack_base, frame_base, conts) /\ ContsOK(conts, next_k, slots)
    BY DEF StackInv, InvMemory, InvConts
  <1>4. where = "c" /\ got = << >>
    BY <1>1, WhereIs
  <1>5. CASE next_k = 0 \/ k.tag # "system"
    <2>1. pc' = "dead" /\ UNCHANGED <<blocks, frame_pointer, conts, next_k, slots, argc, stack_base, frame_base>>
      BY <1>1, <1>5
    <2>2. ctl' = ctl
      <3>1. ctl' = TopRow(blocks[stack_base], frame_pointer, frame_base) \o ChainOf(blocks, conts, next_k)
        BY <2>1, ListIsNext
      <3>2. QED BY <3>1, ListIs
    <2>3. saved' = saved
      BY <2>1, SavedKept
    <2>4. where' = "dead" /\ got' = got
      BY <1>4, <2>1, WhereIsNext
    <2>5. QED BY <1>4, <2>2, <2>3, <2>4 DEF Abstract!CtlNext, Abstract!Die
  <1>6. CASE ~(next_k = 0 \/ k.tag # "system")
    <2> DEFINE at == frame_base - 1
               c == Write(S, at - Len(vs), Below(vs))
               bs == [blocks EXCEPT ![stack_base] = c]
               mk == k.next
               rest == ChainOf(blocks, conts, mk)
               s == ChainOf(blocks, conts, next_k)
    <2>1. vs \in Results /\ Len(vs) = 1
      OBVIOUS
    <2>2. at \in Int /\ at <= frame_base /\ 2 <= at /\ at < AreaSize /\ at - Len(vs) = frame_base - 2
      <3>1. at \in Int /\ at <= frame_base /\ 2 <= at /\ at < AreaSize /\ at - 1 = frame_base - 2
        BY <1>2
      <3> HIDE DEF at
      <3>2. QED BY <2>1, <3>1
    <2>3. c = Write(S, frame_base - 2, Below(vs))
      <3> DEFINE m == at - Len(vs)
      <3>1. m = frame_base - 2
        BY <2>2
      <3> HIDE DEF m
      <3>2. QED BY <3>1 DEF m
    <2>4. /\ pc' = "underflow" /\ frame_pointer' = at /\ argc' = 1
          /\ Refer([blocks EXCEPT ![stack_base] = c], stack_base, conts, mk, slots)
          /\ UNCHANGED <<stack_base, frame_base>>
      <3>1. /\ pc' = "underflow" /\ frame_pointer' = at /\ argc' = 1
            /\ Refer([blocks EXCEPT ![stack_base] = Write(S, frame_base - 2, Below(vs))], stack_base, conts, mk, slots)
            /\ UNCHANGED <<stack_base, frame_base>>
        BY <1>1, <1>6
      <3> DEFINE d == Write(S, frame_base - 2, Below(vs))
      <3>2. c = d
        BY <2>3
      <3> HIDE DEF c, d, mk
      <3>3. Refer([blocks EXCEPT ![stack_base] = d], stack_base, conts, mk, slots)
        BY <3>1 DEF d
      <3>4. QED BY <3>1, <3>2, <3>3
    <2>5. next_k \in DOMAIN conts /\ next_k \in Ids /\ mk \in DOMAIN conts \cup {0}
      BY <1>2, <1>6 DEF WellLinked
    <2>6. SameFrom(S, c, frame_base)
      <3> HIDE DEF at, S
      <3>1. SameFrom(S, c, at)
        BY <1>2, <2>1, <2>2, ValuesFacts
      <3> HIDE DEF c
      <3>2. QED BY <1>2, <2>2, <3>1, SameHigher
    <2>7. GotOf(c, at, Len(vs)) = vs
      <3> HIDE DEF at, S
      <3>1. QED BY <1>2, <2>1, <2>2, GotWritten
    <2> HIDE DEF c
    <2>8. bs[stack_base] = c
      BY <1>2
    <2>9. FramesOK([blocks EXCEPT ![stack_base] = c], stack_base, frame_base, conts)
      BY <1>3, <2>6, FramesBelow
    <2>10. ContsOK(conts, mk, slots)
      <3> HIDE DEF mk
      <3>1. QED BY <1>3, <2>5 DEF ContsOK
    <2>11. bs = [blocks EXCEPT ![stack_base] = c]
      OBVIOUS
    <2>12. Refer(bs, stack_base, conts, mk, slots)
      BY <2>4
    <2>13. s = <<MarkOf(next_k)>> \o rest /\ Waits(conts, s) /\ Chained(blocks, conts)
      <3>1. Chained(blocks, conts) /\ Waits(conts, s)
        BY ListIs
      <3>2. s = PartOf(blocks, conts, next_k) \o rest
        BY <2>5, <3>1, ChainLaws
      <3>3. PartOf(blocks, conts, next_k) = <<MarkOf(next_k)>>
        BY <1>6 DEF PartOf
      <3>4. QED BY <3>1, <3>2, <3>3
    <2> HIDE DEF bs, mk
    <2>14. Waits(conts, rest)
      BY <2>5, <2>13, ChainWaits
    <2>15. KeepsChains(blocks, conts, bs, conts)
      BY <1>2, <1>3, <2>6, <2>11, ChainsBelow
    <2>16. FramesOK(bs, stack_base, frame_base, conts)
      BY <2>9, <2>11
    <2>17. /\ ChainOf(blocks', conts', next_k') = ChainOf(bs, conts, mk)
           /\ \A t \in Slot : slots[t] # -1 => ChainOf(blocks', conts', slots[t]) = ChainOf(bs, conts, slots[t])
           /\ slots' = slots /\ next_k' = mk /\ blocks'[stack_base] = bs[stack_base]
      BY <2>10, <2>12, <2>16, ChainsReferred
    <2>18. ChainOf(blocks', conts', next_k') = rest
      BY <2>5, <2>15, <2>17 DEF KeepsChains
    <2>19. saved' = saved
      <3>1. \A t \in Slot : slots[t] # -1 => slots[t] \in DOMAIN conts \cup {0}
        BY <1>2
      <3>2. \A t \in Slot : slots[t] # -1 => ChainOf(blocks', conts', slots[t]) = ChainOf(blocks, conts, slots[t])
        BY <2>15, <2>17, <3>1 DEF KeepsChains
      <3>3. QED BY <2>17, <3>2, SavedKept
    <2>20. ctl = s
      <3>1. frame_pointer >= frame_base - 1
        BY <1>1 DEF InvTop
      <3>2. QED BY <3>1, ListIsChain
    <2>21. ctl' = rest
      <3>1. frame_base' \in Int /\ frame_pointer' \in Int /\ frame_pointer' >= frame_base' - 1
        BY <1>2, <2>2, <2>4 DEF at
      <3> HIDE DEF rest
      <3>2. QED BY <2>14, <2>18, <3>1, ListIsChainNext
    <2>22. Tail(ctl) = rest
      <3>1. PICK W : rest \in Seq(W)
        BY <2>14 DEF Waits
      <3> DEFINE m == MarkOf(next_k)
                 T == W \cup {m}
      <3>2. rest \in Seq(T) /\ m \in T
        <4> HIDE DEF rest, m
        <4>1. QED BY <3>1
      <3>3. s = <<m>> \o rest
        BY <2>13
      <3> HIDE DEF rest, s, T, m
      <3>4. Tail(s) = rest
        BY <3>2, <3>3, ConsFacts
      <3>5. QED BY <2>20, <3>4
    <2>23. where' = "returning" /\ got' = vs
      <3>1. where' = "returning" /\ got' = Got'
        BY <2>4, WhereIsNext
      <3>2. /\ argc' \in Nat /\ frame_pointer' \in Int /\ blocks'[stack_base'] = c
            /\ argc' = Len(vs) /\ frame_pointer' = at
        BY <2>1, <2>2, <2>4, <2>8, <2>17
      <3>3. Got' = GotOf(blocks'[stack_base'], frame_pointer', argc')
        BY <3>2, GotIsNext
      <3>4. QED BY <2>7, <3>1, <3>2, <3>3
    <2>24. ctl' = Tail(ctl)
      BY <2>21, <2>22
    <2>25. QED BY <1>4, <2>19, <2>23, <2>24 DEF Abstract!CtlNext, Abstract!ForeignReturn
  <1>7. QED BY <1>5, <1>6

-----------------------------------------------------------------------------
(* Foreign calls *)

\* a name that no continuation has is on no list
LEMMA FreshMark ==
  ASSUME NEW cs, NEW r, Waits(cs, r), NEW k, k \notin DOMAIN cs
  PROVE  \A i \in DOMAIN r : r[i] # MarkOf(k)
  <1>1. PICK W : r \in Seq(W) /\ \A x \in W : IsWait(cs, x)
    BY DEF Waits
  <1>2. SUFFICES ASSUME NEW i \in DOMAIN r, r[i] = MarkOf(k) PROVE FALSE
    OBVIOUS
  <1>3. r[i] \in W
    BY <1>1
  <1>4. IsWait(cs, MarkOf(k))
    BY <1>1, <1>2, <1>3
  <1>5. ~(MarkOf(k)[1].w = "rp")
    <2> DEFINE x == [w |-> "mark", k |-> k]
    <2>1. x.w # "rp"
      OBVIOUS
    <2>2. MarkOf(k)[1] = x
      BY DEF MarkOf
    <2> HIDE DEF x
    <2>3. QED BY <2>1, <2>2
  <1>6. PICK j \in DOMAIN cs : MarkOf(k) = MarkOf(j)
    <2> DEFINE x == MarkOf(k)
    <2>1. IsWait(cs, x) /\ ~(x[1].w = "rp")
      BY <1>4, <1>5
    <2> HIDE DEF x
    <2>2. \E j \in DOMAIN cs : x = MarkOf(j)
      BY <2>1 DEF IsWait
    <2>3. QED BY <2>2 DEF x
  <1>7. QED BY <1>6, MarksDiffer

\* two more before a list
LEMMA TwoMore ==
  ASSUME NEW cs, NEW s, Waits(cs, s), NEW m, NEW f
  PROVE  <<m>> \o (<<f>> \o s) = <<m, f>> \o s
  <1>1. PICK W : s \in Seq(W)
    BY DEF Waits
  <1> DEFINE p == <<m>>
             q == <<f>>
             r == <<m, f>>
             M == {m}
             F == {f}
  <1>2. p \in Seq(M) /\ q \in Seq(F)
    OBVIOUS
  <1>3. p \o q = r
    <2>1. Len(p) = 1 /\ Len(q) = 1 /\ p[1] = m /\ q[1] = f
      OBVIOUS
    <2>2. r \in Seq({m, f}) /\ Len(r) = 2 /\ r[1] = m /\ r[2] = f
      OBVIOUS
    <2> HIDE DEF p, q, r, M, F
    <2>3. p \o q \in Seq(M \cup F) /\ Len(p \o q) = 2 /\ (p \o q)[1] = m /\ (p \o q)[2] = f
      <3>1. 1 \in 1 .. Len(p) /\ 1 \in 1 .. Len(q) /\ Len(p) + 1 = 2
        BY <2>1
      <3>2. /\ p \o q \in Seq(M \cup F) /\ Len(p \o q) = Len(p) + Len(q)
            /\ \A i \in 1 .. Len(p) : (p \o q)[i] = p[i]
            /\ \A i \in 1 .. Len(q) : (p \o q)[Len(p) + i] = q[i]
        BY <1>2, JoinFacts
      <3>3. QED BY <2>1, <3>1, <3>2
    <2> DEFINE t == p \o q
    <2>4. /\ t \in Seq(M \cup F) /\ Len(t) = 2 /\ t[1] = m /\ t[2] = f
      BY <2>3
    <2> HIDE DEF t
    <2>5. \A i \in 1 .. 2 : t[i] = r[i]
      BY <2>2, <2>4
    <2>6. t = r
      <3>1. DOMAIN t = 1 .. 2 /\ DOMAIN r = 1 .. 2
        BY <2>2, <2>4
      <3>2. t = [i \in 1 .. 2 |-> t[i]] /\ r = [i \in 1 .. 2 |-> r[i]]
        BY <2>2, <2>4, <3>1
      <3>3. QED BY <2>5, <3>2
    <2>7. QED BY <2>6 DEF t
  <1> HIDE DEF p, q, r, M, F
  <1>4. (p \o q) \o s = p \o (q \o s)
    BY <1>1, <1>2, JoinAssociative
  <1>5. p \o (q \o s) = r \o s
    BY <1>3, <1>4
  <1>6. QED BY <1>5, Zenon DEF p, q, r

\* a mark that waits nowhere, above the frame of the call, is a foreign call
LEMMA ForeignCallStep ==
  ASSUME NEW f \in Frames, NEW m \in Marks,
         \A i \in DOMAIN ctl : ctl[i] # m,
         \A s \in Slot : saved[s] # NoCont => \A i \in DOMAIN saved[s] : saved[s][i] # m,
         ctl' = <<m, f>> \o ctl, saved' = saved, where = "scheme", where' = "c", got' = got
  PROVE  Abstract!CtlNext
  <1>1. m \in {MarkOf(i) : i \in Ids}
    BY DEF Marks
  <1>2. \A c \in {ctl} \cup {saved[s] : s \in {t \in Slot : saved[t] # NoCont}} :
          \A i \in DOMAIN c : c[i] # m
    <2> DEFINE l == ctl
               v == saved
    <2>1. /\ \A i \in DOMAIN l : l[i] # m
          /\ \A s \in Slot : v[s] # NoCont => \A i \in DOMAIN v[s] : v[s][i] # m
      OBVIOUS
    <2> HIDE DEF l, v
    <2>2. \A c \in {l} \cup {v[s] : s \in {t \in Slot : v[t] # NoCont}} :
            \A i \in DOMAIN c : c[i] # m
      BY <2>1
    <2>3. QED BY <2>2 DEF l, v
  <1>3. QED BY <1>1, <1>2 DEF Abstract!CtlNext, Abstract!ForeignCall

\* ikrt_ffi_call seals the frame of the call and puts a system continuation in front:
\* its mark is new, since the list names every continuation that is in use
LEMMA ForeignCallImplements ==
  ASSUME StackInv, ForeignCall
  PROVE  Abstract!CtlNext
  <1> DEFINE S == blocks[stack_base]
             k == Free(DOMAIN conts)
             sk == Free(DOMAIN conts \cup {k})
  <1>1. PICK f \in Frames :
          LET fp == frame_pointer - Len(f)
          IN  /\ pc = "scheme" /\ Room(MaxFrames + 2) /\ ~MustGrow(frame_pointer)
              /\ Refer([blocks EXCEPT ![stack_base] = Handler(Push(S, f), fp)], stack_base,
                       Also(Also(conts, k, Sealed(fp, frame_base - 1 - fp, next_k)),
                            sk, [tag |-> "system", top |-> system_stack, next |-> k]),
                       sk, slots)
              /\ frame_base' = fp /\ frame_pointer' = fp - 1
              /\ pc' = "c"
              /\ UNCHANGED <<stack_base, system_stack, argc>>
    BY DEF ForeignCall
  <1> DEFINE fp == frame_pointer - Len(f)
             c == Push(S, f)
             size == frame_base - 1 - fp
             x == Sealed(fp, size, next_k)
             y == [tag |-> "system", top |-> system_stack, next |-> k]
             cs == Also(conts, k, x)
             ds == Also(cs, sk, y)
             bs == [blocks EXCEPT ![stack_base] = Handler(c, fp)]
  <1>2. /\ pc = "scheme" /\ Room(MaxFrames + 2) /\ ~MustGrow(frame_pointer)
        /\ Refer(bs, stack_base, ds, sk, slots)
        /\ frame_base' = fp /\ frame_pointer' = fp - 1
        /\ pc' = "c"
        /\ UNCHANGED stack_base
    BY <1>1
  <1>3. /\ frame_base \in Int /\ frame_base <= AreaSize /\ AreaSize \in Int /\ LowBase \in Int
        /\ LowBase - Longest >= 3 /\ Longest >= 3 /\ Longest \in Int /\ Redline = LowBase + Longest
        /\ frame_pointer \in Int /\ 2 <= frame_pointer /\ frame_pointer <= frame_base
        /\ stack_base \in DOMAIN blocks /\ DOMAIN S = Area
    BY Numbers
  <1>4. frame_pointer < frame_base /\ Framed(S, frame_pointer, frame_base - 1) /\ frame_pointer >= Redline
        /\ frame_pointer <= frame_base - 1
    <2>1. frame_pointer < frame_base /\ Framed(S, frame_pointer, frame_base - 1)
      BY <1>2 DEF StackInv, InvPointer
    <2>2. frame_pointer >= Redline
      BY <1>2, <1>3 DEF MustGrow
    <2>3. QED BY <1>3, <2>1, <2>2
  <1>5. FramesOK(blocks, stack_base, frame_base, conts) /\ ContsOK(conts, next_k, slots)
    BY DEF StackInv, InvMemory, InvConts
  <1>6. WellLinked(conts) /\ next_k \in DOMAIN conts \cup {0} /\ slots \in [Slot -> DOMAIN conts \cup {0, -1}]
    BY <1>5 DEF ContsOK
  <1>7. system_stack \in Int
    <2>1. CShape(cstack) /\ system_stack = Len(cstack)
      BY <1>2 DEF StackInv, InvC
    <2>2. QED BY <2>1, ShapeFacts
  <1>8. /\ k \in Ids /\ k \notin DOMAIN conts
        /\ sk \in Ids /\ sk \notin DOMAIN conts \cup {k}
    <2>1. DOMAIN conts \subseteq Ids
      BY <1>6 DEF WellLinked
    <2> DEFINE m == MaxFrames + 2
    <2>2. m \in Nat /\ m >= 2
      BY StackAssumption
    <2>3. Cardinality(DOMAIN conts) + m <= Cardinality(Ids)
      BY <1>2 DEF Room
    <2> HIDE DEF m, k
    <2> DEFINE D == DOMAIN conts
    <2>4. D \subseteq Ids /\ Cardinality(D) + m <= Cardinality(Ids)
      BY <2>1, <2>3
    <2> HIDE DEF D
    <2>5. /\ Free(D) \in Ids /\ Free(D) \notin D
          /\ Free(D \cup {Free(D)}) \in Ids /\ Free(D \cup {Free(D)}) \notin D \cup {Free(D)}
      BY <2>2, <2>4, FreeIds
    <2>6. QED BY <2>5 DEF D, k
  <1> HIDE DEF k, sk
  <1>9. /\ fp \in Int /\ fp \in LowBase .. frame_base - 2 /\ fp >= 6 /\ size \in Nat \ {0}
        /\ SameFrom(S, c, frame_base) /\ Framed(c, fp, frame_base - 1)
        /\ RowPushed(S, c, fp, frame_pointer, frame_base - 1, f)
    <2>1. Len(f) \in Nat \ {0} /\ Len(f) <= Longest
      BY FrameWords, Bounds
    <2> DEFINE l == Len(f)
    <2>2. fp \in Int /\ fp = frame_pointer - l /\ fp >= LowBase /\ fp <= frame_base - 2 /\ 0 <= fp /\ fp >= 6
      <3>1. l \in Nat \ {0} /\ l <= Longest
        BY <2>1
      <3> HIDE DEF l
      <3>2. QED BY <1>3, <1>4, <3>1 DEF l
    <2> DEFINE e == frame_base - 1
    <2>3. e \in Int /\ e < AreaSize /\ c = Write(S, fp, f) /\ Framed(S, frame_pointer, e)
      BY <1>3, <1>4 DEF Push
    <2>4. fp = frame_pointer - Len(f)
      OBVIOUS
    <2> HIDE DEF S, c, fp, l, e
    <2>5. SameFrom(S, c, frame_pointer) /\ Framed(c, fp, e)
      BY <1>3, <1>4, <2>2, <2>3, <2>4, PushFrame
    <2>6. SameFrom(S, c, frame_base)
      BY <1>3, <2>5, SameHigher
    <2>7. size \in Nat \ {0}
      BY <1>3, <2>2
    <2>8. RowPushed(S, c, fp, frame_pointer, e, f)
      BY <1>3, <1>4, <2>2, <2>3, <2>4, PushedRow
    <2>9. QED BY <1>3, <2>2, <2>5, <2>6, <2>7, <2>8 DEF e
  <1> HIDE DEF c, fp
  <1>10. x = [tag |-> "k", block |-> stack_base, top |-> fp, size |-> size, next |-> next_k]
    BY DEF Sealed, SealedSize
  <1>11. stack_base \in Block /\ next_k \in Int
    BY <1>5, <1>6, NextInt DEF FramesOK, Block
  <1>12. x.block = stack_base /\ x.top = fp /\ x.size = frame_base - 1 - fp
    BY <1>10
  <1> HIDE DEF size, x
  <1>13. /\ x.next = next_k /\ x.tag = "k"
         /\ x \in [tag : {"k"}, block : Block, top : Int, size : Nat \ {0}, next : Int]
    BY <1>9, <1>10, <1>11, SealedRecord
  <1>14. FramesOK(bs, stack_base, fp, cs)
    BY <1>5, <1>8, <1>9, <1>12, Sealing
  <1>15. x.next \in DOMAIN conts \cup {0}
    BY <1>6, <1>13
  <1>16. ContsOK(cs, k, slots)
    BY <1>5, <1>8, <1>13, <1>15, ContsMore
  <1>17. k \in DOMAIN cs /\ sk \notin DOMAIN cs
    BY <1>8 DEF Also
  <1>18. /\ y.next = k /\ y.tag = "system"
         /\ y \in [tag : {"system"}, top : Int, next : Int]
    <2>1. k \in Int
      BY <1>8, StackAssumption
    <2>2. QED BY <1>7, <2>1
  <1>19. Chained(bs, cs)
    <2> HIDE DEF bs, cs
    <2>1. QED BY <1>14, <1>16, ChainedFrames
  <1>20. bs = [blocks EXCEPT ![stack_base] = Handler(c, fp)] /\ cs = Also(conts, k, x) /\ ds = Also(cs, sk, y)
    OBVIOUS
  <1> HIDE DEF y, cs
  <1>21. FramesOK(bs, stack_base, fp, ds)
    <2>1. y.tag # "k"
      BY <1>18
    <2> HIDE DEF bs
    <2>2. QED BY <1>14, <2>1, FramesMoreSystem
  <1>22. y.next \in DOMAIN cs \cup {0}
    BY <1>17, <1>18
  <1>23. ContsOK(ds, sk, slots)
    BY <1>8, <1>16, <1>17, <1>18, <1>22, ContsMore
  <1> HIDE DEF ds, bs
  <1>24. Chained(bs, ds)
    BY <1>21, <1>23, ChainedFrames
  <1>25. SealedChain(blocks, conts, c, fp, frame_base, next_k, bs, cs, k)
    <2> HIDE DEF S
    <2>1. SameFrom(blocks[stack_base], c, frame_base) /\ Framed(c, fp, frame_base - 1)
      BY <1>9 DEF S
    <2>2. QED BY <1>5, <1>8, <1>9, <1>12, <1>13, <1>19, <1>20, <2>1, SealChains
  <1>26. OneMoreOn(bs, cs, sk, y, ds)
    BY <1>17, <1>19, <1>20, <1>22, <1>24, ChainsMore
  <1> DEFINE w == ChainOf(blocks, conts, next_k)
             r == RowOf(S, frame_pointer, frame_base - 1)
             q == ChainOf(bs, ds, sk)
             m == MarkOf(sk)
  <1>27. ctl = r \o w /\ Plain(r) /\ Waits(conts, w)
    <2>1. TopRow(S, frame_pointer, frame_base) = r
      <3> HIDE DEF S
      <3>1. QED BY <1>3, <1>4, TopIs
    <2>2. QED BY <2>1, ListIs
  <1>28. Waits(conts, ctl)
    <2>1. Waits(conts, r)
      BY <1>27 DEF Plain, Waits, IsWait
    <2> HIDE DEF r, w
    <2>2. QED BY <1>27, <2>1, WaitsJoin
  <1>29. ChainOf(bs, cs, k) = <<f>> \o ctl
    <2>1. ChainOf(bs, cs, k) = RowOf(c, fp, frame_base - 1) \o w
      BY <1>25 DEF SealedChain
    <2>2. RowOf(c, fp, frame_base - 1) = <<f>> \o r
      BY <1>9 DEF RowPushed
    <2> HIDE DEF r, w
    <2>3. (<<f>> \o r) \o w = <<f>> \o (r \o w)
      BY <1>27, OneMore
    <2>4. QED BY <1>27, <2>1, <2>2, <2>3
  <1>30. q = <<m>> \o (<<f>> \o ctl)
    <2>1. q = PartOf(bs, ds, sk) \o ChainOf(bs, cs, y.next) /\ ds[sk] = y
      BY <1>26 DEF OneMoreOn
    <2>2. PartOf(bs, ds, sk) = <<m>>
      BY <1>18, <2>1 DEF PartOf
    <2>3. QED BY <1>18, <1>29, <2>1, <2>2
  <1>31. q = <<m, f>> \o ctl
    <2> DEFINE l == ctl
    <2>1. Waits(conts, l) /\ q = <<m>> \o (<<f>> \o l)
      BY <1>28, <1>30
    <2> HIDE DEF q, m, l
    <2>2. <<m>> \o (<<f>> \o l) = <<m, f>> \o l
      BY <2>1, TwoMore
    <2>3. q = <<m, f>> \o l
      BY <2>1, <2>2
    <2>4. QED BY <2>3 DEF l
  <1>32. KeepsChains(blocks, conts, bs, ds)
    <2>1. KeepsChains(blocks, conts, bs, cs) /\ KeepsChains(bs, cs, bs, ds)
      BY <1>25, <1>26 DEF SealedChain, OneMoreOn
    <2>2. DOMAIN conts \subseteq DOMAIN cs
      BY DEF cs, Also
    <2>3. QED BY <2>1, <2>2, KeepsThen
  <1>33. /\ ChainOf(blocks', conts', next_k') = q
         /\ \A t \in Slot : slots[t] # -1 => ChainOf(blocks', conts', slots[t]) = ChainOf(bs, ds, slots[t])
         /\ slots' = slots
    BY <1>2, <1>21, <1>23, ChainsReferred
  <1>34. saved' = saved
    <2>1. \A t \in Slot : slots[t] # -1 => slots[t] \in DOMAIN conts \cup {0}
      BY <1>6
    <2>2. \A t \in Slot : slots[t] # -1 => ChainOf(blocks', conts', slots[t]) = ChainOf(blocks, conts, slots[t])
      BY <1>32, <1>33, <2>1 DEF KeepsChains
    <2>3. QED BY <1>33, <2>2, SavedKept
  <1>35. ctl' = q
    <2>1. frame_base' \in Int /\ frame_pointer' \in Int /\ frame_pointer' >= frame_base' - 1
      BY <1>2, <1>9
    <2>2. sk \in DOMAIN ds
      BY <1>20 DEF Also
    <2>3. Waits(ds, q)
      BY <1>24, <2>2, ChainWaits
    <2> HIDE DEF q
    <2>4. QED BY <1>33, <2>1, <2>3, ListIsChainNext
  <1>36. where = "scheme" /\ where' = "c" /\ got' = got
    BY <1>2, WhereIs, WhereIsNext
  <1>37. sk \notin DOMAIN conts /\ m \in Marks
    BY <1>8 DEF Marks
  <1>38. \A i \in DOMAIN ctl : ctl[i] # m
    BY <1>28, <1>37, FreshMark
  <1>39. ASSUME NEW s \in Slot, saved[s] # NoCont PROVE \A i \in DOMAIN saved[s] : saved[s][i] # m
    <2>1. slots[s] # -1
      BY <1>39 DEF saved
    <2>2. saved[s] = ChainOf(blocks, conts, slots[s])
      BY <2>1, SavedIs
    <2>3. slots[s] \in DOMAIN conts \cup {0} /\ Chained(blocks, conts)
      BY <1>6, <2>1, ListIs
    <2>4. Waits(conts, saved[s])
      BY <2>2, <2>3, ChainWaits
    <2>5. QED BY <1>37, <2>4, FreshMark
  <1> HIDE DEF m, q
  <1>40. ctl' = <<m, f>> \o ctl
    BY <1>31, <1>35
  <1>41. QED BY <1>34, <1>36, <1>37, <1>38, <1>39, <1>40, ForeignCallStep

-----------------------------------------------------------------------------
(* Overflow *)

\* blocks that hold no continuation
LEMMA BlocksElsewhere ==
  ASSUME NEW bs, NEW cs, Chained(bs, cs), NEW bt,
         \A i \in DOMAIN cs : cs[i].tag = "k" => bt[cs[i].block] = bs[cs[i].block]
  PROVE  Chained(bt, cs) /\ KeepsChains(bs, cs, bt, cs)
  <1>1. Chained(bt, cs)
    BY DEF Chained
  <1> DEFINE R == DOMAIN cs
  <1>2. \A i \in R : cs[i].next \in R \cup {0}
    BY DEF Chained, WellLinked
  <1>3. \A i \in R : cs[i].tag = "k" \/ cs[i].tag = "system"
    BY DEF Chained, Records
  <1>4. \A i \in R : PartOf(bt, cs, i) = PartOf(bs, cs, i)
    BY <1>3 DEF PartOf
  <1>5. R \subseteq DOMAIN cs
    OBVIOUS
  <1>6. DOMAIN cs \cup {0} = R \cup {0}
    OBVIOUS
  <1> HIDE DEF R
  <1>7. PartsKept(bs, cs, bt, cs, R)
    BY <1>2, <1>4, <1>5 DEF PartsKept
  <1>8. \A i \in R \cup {0} : ChainOf(bt, cs, i) = ChainOf(bs, cs, i)
    BY <1>1, <1>7, ChainKept
  <1>9. QED BY <1>1, <1>6, <1>8 DEF KeepsChains

\* ik_stack_overflow seals the frames in the old area and goes on in a new one, whose
\* handler hands them one value: nothing but a return
LEMMA StackOverflowImplements ==
  ASSUME StackInv, StackOverflow
  PROVE  Abstract!CtlNext
  <1> DEFINE S == blocks[stack_base]
             k == Free(DOMAIN conts)
             a == CHOOSE b \in FreeAreas : TRUE
             vs == CHOOSE rs \in Results : Len(rs) = 1
             new == [i \in 0 .. AreaSize - 1 |->
                      CASE i = AreaSize - 1 -> UnderflowHandler
                        [] i = AreaSize - 2 -> Below(vs)[1]
                        [] OTHER -> Junk]
             size == frame_base - frame_pointer - 1
             x == Sealed(frame_pointer, size, next_k)
             bs == Also(blocks, a, new)
             cs == Also(conts, k, x)
  <1>1. /\ pc = "overflow" /\ Room(1)
        /\ Refer(bs, a, cs, k, slots)
        /\ stack_base' = a /\ frame_base' = AreaSize /\ frame_pointer' = AreaSize - 1
        /\ argc' = 1 /\ pc' = "underflow"
    BY DEF StackOverflow
  <1>2. /\ frame_base \in Int /\ frame_base <= AreaSize /\ AreaSize \in Int /\ AreaSize >= 9
        /\ frame_pointer \in Int /\ 2 <= frame_pointer /\ frame_pointer <= frame_base
        /\ stack_base \in DOMAIN blocks /\ DOMAIN S = Area
    BY Numbers, AreaLarge
  <1>3. frame_pointer < frame_base - 1 /\ Framed(S, frame_pointer, frame_base - 1) /\ FreeAreas # {}
    BY <1>1, <1>2 DEF StackInv, InvPointer
  <1>4. FramesOK(blocks, stack_base, frame_base, conts) /\ ContsOK(conts, next_k, slots)
    BY DEF StackInv, InvMemory, InvConts
  <1>5. /\ WellLinked(conts) /\ next_k \in DOMAIN conts \cup {0}
        /\ slots \in [Slot -> DOMAIN conts \cup {0, -1}]
    BY <1>4 DEF ContsOK
  <1>6. PICK n \in Areas : a = <<"area", n>> /\ a \notin DOMAIN blocks
    <2>1. a \in FreeAreas
      BY <1>3
    <2>2. QED BY <2>1 DEF FreeAreas
  <1>7. vs \in Results /\ Len(vs) = 1
    BY StackAssumption
  <1>8. DOMAIN new = Area /\ new[AreaSize - 2] = Below(vs)[1]
    <2> DEFINE m == AreaSize - 2
               v == Below(vs)[1]
    <2>1. m \in 0 .. AreaSize - 1 /\ m # AreaSize - 1
      BY <1>2
    <2> HIDE DEF v, vs
    <2>2. new[m] = v
      <3> HIDE DEF m
      <3>1. new = [i \in 0 .. AreaSize - 1 |->
                    CASE i = AreaSize - 1 -> UnderflowHandler [] i = m -> v [] OTHER -> Junk]
        BY DEF m, v
      <3>2. QED BY <2>1, <3>1
    <2>3. QED BY <2>2 DEF Area, v
  <1> HIDE DEF a, new, vs
  <1>9. k \in Ids /\ k \notin DOMAIN conts
    <2>1. DOMAIN conts \subseteq Ids
      BY <1>5 DEF WellLinked
    <2>2. Cardinality(DOMAIN conts) + 1 <= Cardinality(Ids) /\ 1 \in Nat \ {0}
      BY <1>1 DEF Room
    <2>3. Free(DOMAIN conts) \in Ids /\ Free(DOMAIN conts) \notin DOMAIN conts
      BY <2>1, <2>2, FreeId
    <2>4. QED BY <2>3
  <1>10. x = [tag |-> "k", block |-> stack_base, top |-> frame_pointer, size |-> size, next |-> next_k]
    BY DEF Sealed, SealedSize
  <1>11. stack_base \in Block /\ size \in Nat \ {0} /\ next_k \in Int /\ frame_pointer + size = frame_base - 1
    BY <1>2, <1>3, <1>4, <1>5, NextInt DEF FramesOK, Block
  <1>12. x.block = stack_base /\ x.top = frame_pointer /\ x.size = frame_base - frame_pointer - 1
    BY <1>10
  <1>13. x.size = size
    BY <1>10
  <1> HIDE DEF k, size, x
  <1>14. /\ x.next = next_k /\ x.tag = "k"
         /\ x \in [tag : {"k"}, block : Block, top : Int, size : Nat \ {0}, next : Int]
    BY <1>2, <1>10, <1>11, SealedRecord
  <1>15. FramesOK(bs, a, AreaSize, cs)
    BY <1>3, <1>4, <1>6, <1>8, <1>12, FramesElsewhere
  <1>16. x.next \in DOMAIN conts \cup {0}
    BY <1>5, <1>14
  <1>17. ContsOK(cs, k, slots)
    BY <1>4, <1>9, <1>14, <1>16, ContsMore
  <1>18. (\A b \in DOMAIN blocks : bs[b] = blocks[b]) /\ bs[a] = new
    BY <1>6 DEF Also
  <1>19. cs = Also(conts, k, x) /\ DOMAIN cs = DOMAIN conts \cup {k}
    BY DEF Also
  <1> HIDE DEF cs, bs
  <1>20. Chained(bs, cs) /\ Chained(blocks, conts)
    BY <1>4, <1>15, <1>17, ChainedFrames
  <1>21. Chained(bs, conts) /\ KeepsChains(blocks, conts, bs, conts)
    <2>1. \A i \in DOMAIN conts : conts[i].tag = "k" => bs[conts[i].block] = blocks[conts[i].block]
      BY <1>4, <1>18 DEF FramesOK, FramesOf
    <2>2. QED BY <1>20, <2>1, BlocksElsewhere
  <1>22. OneMoreOn(bs, conts, k, x, cs)
    BY <1>9, <1>16, <1>19, <1>20, <1>21, ChainsMore
  <1>23. KeepsChains(blocks, conts, bs, cs)
    BY <1>21, <1>22, KeepsThen DEF OneMoreOn
  <1> DEFINE w == ChainOf(blocks, conts, next_k)
             r == RowOf(S, frame_pointer, frame_base - 1)
             q == ChainOf(bs, cs, k)
  <1>24. ctl = r \o w
    <2>1. TopRow(S, frame_pointer, frame_base) = r
      BY <1>3 DEF TopRow
    <2>2. QED BY <2>1, ListIs
  <1>25. q = r \o w
    <2>1. q = PartOf(bs, cs, k) \o ChainOf(bs, conts, x.next) /\ cs[k] = x
      BY <1>22 DEF OneMoreOn
    <2>2. PartOf(bs, cs, k) = RowOf(bs[x.block], x.top, x.top + x.size)
      BY <1>14, <2>1 DEF PartOf
    <2>3. bs[x.block] = S /\ x.top = frame_pointer /\ x.top + x.size = frame_base - 1
      BY <1>2, <1>11, <1>12, <1>13, <1>18
    <2>4. ChainOf(bs, conts, x.next) = w
      BY <1>5, <1>14, <1>21 DEF KeepsChains
    <2>5. QED BY <2>1, <2>2, <2>3, <2>4
  <1>26. /\ ChainOf(blocks', conts', next_k') = q
         /\ \A t \in Slot : slots[t] # -1 => ChainOf(blocks', conts', slots[t]) = ChainOf(bs, cs, slots[t])
         /\ slots' = slots /\ blocks'[a] = bs[a]
    BY <1>1, <1>15, <1>17, ChainsReferred
  <1>27. saved' = saved
    <2>1. \A t \in Slot : slots[t] # -1 => slots[t] \in DOMAIN conts \cup {0}
      BY <1>5
    <2>2. \A t \in Slot : slots[t] # -1 => ChainOf(blocks', conts', slots[t]) = ChainOf(blocks, conts, slots[t])
      BY <1>23, <1>26, <2>1 DEF KeepsChains
    <2>3. QED BY <1>26, <2>2, SavedKept
  <1>28. ctl' = ctl
    <2>1. frame_base' \in Int /\ frame_pointer' \in Int /\ frame_pointer' >= frame_base' - 1
      BY <1>1, <1>2
    <2>2. k \in DOMAIN cs
      BY <1>19
    <2>3. Waits(cs, q)
      BY <1>20, <2>2, ChainWaits
    <2> HIDE DEF q
    <2>4. ctl' = q
      BY <1>26, <2>1, <2>3, ListIsChainNext
    <2>5. QED BY <1>24, <1>25, <2>4
  <1>29. GotOf(new, AreaSize - 1, 1) = vs
    <2> DEFINE b == Write(S, AreaSize - 1 - Len(vs), Below(vs))
               fp == AreaSize - 1
               at == AreaSize - 2
    <2>1. fp \in Int /\ 2 <= fp /\ fp < AreaSize /\ fp - 1 = at /\ at \in Int /\ at \in Area /\ at + 1 - 1 = at
      BY <1>2 DEF Area
    <2>2. GotOf(b, fp, 1) = vs
      <3> HIDE DEF S, fp
      <3>1. GotOf(Write(S, fp - Len(vs), Below(vs)), fp, Len(vs)) = vs
        BY <1>2, <1>7, <2>1, GotWritten
      <3>2. QED BY <1>7, <3>1 DEF fp
    <2>3. b = Write(S, at, Below(vs))
      <3>1. fp - Len(vs) = at
        BY <1>7, <2>1
      <3> DEFINE l == fp - Len(vs)
      <3>2. l = at
        BY <3>1
      <3> HIDE DEF l, at, S
      <3>3. Write(S, l, Below(vs)) = Write(S, at, Below(vs))
        BY <3>2
      <3>4. QED BY <3>3 DEF l
    <2> HIDE DEF b
    <2>4. b[at] = Below(vs)[1]
      <3> DEFINE ws == Below(vs)
      <3>1. Len(ws) = 1
        BY <1>7, BelowFacts
      <3> HIDE DEF S, ws, at
      <3>2. \A j \in 1 .. Len(ws) : at + j - 1 \in Area => Write(S, at, ws)[at + j - 1] = ws[j]
        BY <1>2, <2>1, <3>1, WriteFacts
      <3>3. b = Write(S, at, ws)
        BY <2>3 DEF ws
      <3>4. b[at] = ws[1]
        BY <2>1, <3>1, <3>2, <3>3
      <3>5. QED BY <3>4 DEF ws
    <2>5. new[at] = b[at]
      BY <1>8, <2>4
    <2>6. \A i \in 1 .. 1 : new[fp - i].v = b[fp - i].v
      <3> HIDE DEF fp, at
      <3>1. QED BY <2>1, <2>5
    <2>7. GotOf(new, fp, 1) = GotOf(b, fp, 1)
      <3> HIDE DEF fp
      <3>1. QED BY <2>6 DEF GotOf
    <2>8. QED BY <2>2, <2>7
  <1>30. where = "scheme" /\ where' = "returning" /\ got' = vs
    <2>1. where = "scheme" /\ where' = "returning" /\ got' = Got'
      BY <1>1, WhereIs, WhereIsNext
    <2>2. /\ argc' \in Nat /\ frame_pointer' \in Int /\ blocks'[stack_base'] = new
          /\ argc' = 1 /\ frame_pointer' = AreaSize - 1
      BY <1>1, <1>2, <1>18, <1>26
    <2>3. Got' = GotOf(blocks'[stack_base'], frame_pointer', argc')
      BY <2>2, GotIsNext
    <2>4. QED BY <1>29, <2>1, <2>2, <2>3
  <1>31. QED BY <1>7, <1>27, <1>28, <1>30 DEF Abstract!CtlNext, Abstract!Return

-----------------------------------------------------------------------------
(* Collection *)

\* the frames of a continuation, once copied to the heap
LEMMA RowCopied ==
  ASSUME NEW b, NEW top \in Int, NEW size \in Nat, NEW c, c = Words(b, top, top + size)
  PROVE  RowOf(c, 1, 1 + size) = RowOf(b, top, top + size)
  <1>1. c = [i \in 1 .. size |-> b[top + i - 1]]
    <2>1. top + size - top = size
      OBVIOUS
    <2>2. QED BY <2>1 DEF Words
  <1>2. Words(c, 1, 1 + size) = [i \in 1 .. size |-> c[1 + i - 1]]
    <2>1. 1 + size - 1 = size
      OBVIOUS
    <2>2. QED BY <2>1 DEF Words
  <1>3. \A i \in 1 .. size : c[1 + i - 1] = b[top + i - 1]
    <2> TAKE i \in 1 .. size
    <2>1. 1 + i - 1 = i
      OBVIOUS
    <2> HIDE DEF Words
    <2>2. c[i] = b[top + i - 1]
      BY <1>1
    <2>3. QED BY <2>1, <2>2
  <1>4. Words(c, 1, 1 + size) = c
    BY <1>1, <1>2, <1>3
  <1>5. QED BY <1>4 DEF RowOf

\* a collection moves the frames of continuations and keeps every chain
LEMMA CopiedChains ==
  ASSUME StackInv, NEW bs, NEW cs, Copied(bs, cs)
  PROVE  KeepsChains(blocks, conts, bs, cs)
  <1> DEFINE S == blocks[stack_base]
             end == frame_base - 1
             kept == [i \in DOMAIN S |-> IF i <= end THEN S[i] ELSE Junk]
             live == {i \in DOMAIN conts : conts[i].tag = "k"}
  <1>1. /\ cs = [i \in DOMAIN conts |-> IF conts[i].tag = "k"
                                        THEN [conts[i] EXCEPT !.block = <<"heap", i>>, !.top = 1]
                                        ELSE conts[i]]
        /\ bs = Also([b \in {<<"heap", i>> : i \in live} |-> ContWords(b[2])], stack_base, kept)
    BY DEF Copied
  <1>2. WellLinked(conts) /\ Records(conts)
    BY Numbers
  <1>3. FramesOK(blocks, stack_base, frame_base, conts) /\ ContsOK(conts, next_k, slots)
    BY DEF StackInv, InvMemory, InvConts
  <1>4. PICK n \in Areas : stack_base = <<"area", n>>
    BY <1>3 DEF FramesOK
  <1>5. \A i : <<"heap", i>> # stack_base /\ <<"heap", i>>[2] = i
    BY <1>4
  <1>6. \A i \in live : bs[<<"heap", i>>] = ContWords(i)
    BY <1>1, <1>5 DEF Also
  <1>7. DOMAIN cs = DOMAIN conts
    BY <1>1
  <1>8. Chained(blocks, conts) /\ Chained(bs, cs)
    <2>1. FramesOK(bs, stack_base, frame_base, cs) /\ ContsOK(cs, next_k, slots)
      BY CopiedFacts
    <2>2. QED BY <1>3, <2>1, ChainedFrames
  <1>9. ASSUME NEW i \in DOMAIN conts
        PROVE  cs[i].next = conts[i].next /\ PartOf(bs, cs, i) = PartOf(blocks, conts, i)
    <2>1. CASE conts[i].tag = "k"
      <3> DEFINE x == conts[i]
                 hb == <<"heap", i>>
                 y == cs[i]
                 w == ContWords(i)
      <3>1. y = [x EXCEPT !.block = hb, !.top = 1]
        BY <1>1, <2>1
      <3>2. x \in [tag : {"k"}, block : Block, top : Int, size : Nat \ {0}, next : Int]
        BY <1>2, <2>1 DEF Records
      <3>3. bs[hb] = w
        BY <1>6, <2>1
      <3>4. w = Words(blocks[x.block], x.top, x.top + x.size)
        BY DEF ContWords
      <3>5. PartOf(blocks, conts, i) = RowOf(blocks[x.block], x.top, x.top + x.size)
        BY <2>1 DEF PartOf
      <3>6. PartOf(bs, cs, i) = IF y.tag = "system" THEN <<MarkOf(i)>>
                                ELSE RowOf(bs[y.block], y.top, y.top + y.size)
        BY DEF PartOf
      <3> HIDE DEF x, hb, y, w
      <3>7. y.tag = "k" /\ y.next = x.next /\ y.size = x.size /\ y.block = hb /\ y.top = 1
        BY <3>1, <3>2
      <3>8. PartOf(bs, cs, i) = RowOf(w, 1, 1 + x.size)
        BY <3>3, <3>6, <3>7
      <3>9. x.top \in Int /\ x.size \in Nat
        BY <3>2
      <3>10. RowOf(w, 1, 1 + x.size) = RowOf(blocks[x.block], x.top, x.top + x.size)
        BY <3>4, <3>9, RowCopied
      <3>11. QED BY <3>5, <3>7, <3>8, <3>10 DEF x, y
    <2>2. CASE conts[i].tag # "k"
      <3>1. cs[i] = conts[i] /\ conts[i].tag = "system"
        BY <1>1, <1>2, <2>2 DEF Records
      <3>2. QED BY <3>1 DEF PartOf
    <2>3. QED BY <2>1, <2>2
  <1> DEFINE R == DOMAIN conts
  <1>10. \A i \in R : conts[i].next \in R \cup {0}
    BY <1>2 DEF WellLinked
  <1>11. R \subseteq DOMAIN conts /\ R \subseteq DOMAIN cs /\ DOMAIN conts \cup {0} = R \cup {0}
    BY <1>7
  <1>12. \A i \in R : cs[i].next = conts[i].next /\ PartOf(bs, cs, i) = PartOf(blocks, conts, i)
    BY <1>9
  <1> HIDE DEF R
  <1>13. PartsKept(blocks, conts, bs, cs, R)
    BY <1>10, <1>11, <1>12 DEF PartsKept
  <1>14. \A i \in R \cup {0} : ChainOf(bs, cs, i) = ChainOf(blocks, conts, i)
    BY <1>8, <1>13, ChainKept
  <1>15. QED BY <1>11, <1>14 DEF KeepsChains

\* a collection copies the frames of the continuations in use and drops the others:
\* no list changes.  It may end the process while C converts values
LEMMA CollectImplements ==
  ASSUME StackInv, Collect
  PROVE  Abstract!CtlNext \/ UNCHANGED Abstract!cvars
  <1>1. /\ pc \in {"scheme", "arguments", "result"}
        /\ \/ /\ pc' = "dead" /\ UNCHANGED <<blocks, conts>>
              /\ ~(frame_pointer <= frame_base - 1 /\ FramesMatch)
           \/ Copied(blocks', conts') /\ frame_pointer <= frame_base - 1 /\ UNCHANGED pc
        /\ UNCHANGED <<stack_base, frame_base, frame_pointer, next_k, slots, argc>>
    BY DEF Collect, Copied, FramesMatch
  <1>2. /\ frame_base \in Int /\ frame_base <= AreaSize /\ AreaSize \in Int
        /\ frame_pointer \in Int /\ 2 <= frame_pointer /\ frame_pointer <= frame_base
        /\ next_k \in DOMAIN conts \cup {0} /\ slots \in [Slot -> DOMAIN conts \cup {0, -1}]
    BY Numbers
  <1>3. CASE pc' = "dead" /\ UNCHANGED <<blocks, conts>> /\ ~(frame_pointer <= frame_base - 1 /\ FramesMatch)
    <2>1. frame_pointer = frame_base
      BY <1>2, <1>3, InvFrames
    <2>2. pc \in {"arguments", "result"}
      BY <1>1, <1>2, <2>1 DEF StackInv, InvPointer
    <2>3. where = "c" /\ where' = "dead" /\ got' = got
      BY <1>3, <2>2, WhereIs, WhereIsNext
    <2>4. ctl' = ctl
      <3>1. ctl' = TopRow(blocks[stack_base], frame_pointer, frame_base) \o ChainOf(blocks, conts, next_k)
        BY <1>1, <1>3, ListIsNext
      <3>2. QED BY <3>1, ListIs
    <2>5. saved' = saved
      BY <1>1, <1>3, SavedKept
    <2>6. QED BY <2>3, <2>4, <2>5 DEF Abstract!CtlNext, Abstract!Die
  <1>4. CASE Copied(blocks', conts') /\ frame_pointer <= frame_base - 1 /\ UNCHANGED pc
    <2>1. KeepsChains(blocks, conts, blocks', conts')
      BY <1>4, CopiedChains
    <2>2. \A j \in Area : j <= frame_base - 1 => blocks'[stack_base][j] = blocks[stack_base][j]
      BY <1>4, CopiedFacts
    <2>3. RowOf(blocks'[stack_base], frame_pointer, frame_base - 1) = RowOf(blocks[stack_base], frame_pointer, frame_base - 1)
      <3> DEFINE e == frame_base - 1
                 S == blocks[stack_base]
                 T == blocks'[stack_base]
      <3>1. \A j \in frame_pointer .. e - 1 : j \in Area /\ j <= frame_base - 1
        BY <1>2 DEF Area
      <3>2. \A j \in frame_pointer .. e - 1 : T[j] = S[j]
        BY <2>2, <3>1
      <3>3. e \in Int
        BY <1>2
      <3> HIDE DEF e, S, T
      <3>4. RowOf(T, frame_pointer, e) = RowOf(S, frame_pointer, e)
        BY <1>2, <3>2, <3>3, RowSame
      <3>5. QED BY <3>4 DEF e, S, T
    <2>4. TopRow(blocks'[stack_base], frame_pointer, frame_base) = TopRow(blocks[stack_base], frame_pointer, frame_base)
      BY <2>3 DEF TopRow
    <2>5. ChainOf(blocks', conts', next_k) = ChainOf(blocks, conts, next_k)
      BY <1>2, <2>1 DEF KeepsChains
    <2>6. ctl' = ctl
      <3>1. ctl' = TopRow(blocks'[stack_base], frame_pointer, frame_base) \o ChainOf(blocks', conts', next_k)
        BY <1>1, ListIsNext
      <3>2. QED BY <2>4, <2>5, <3>1, ListIs
    <2>7. saved' = saved
      <3>1. \A t \in Slot : slots[t] # -1 => slots[t] \in DOMAIN conts \cup {0}
        BY <1>2
      <3>2. \A t \in Slot : slots[t] # -1 => ChainOf(blocks', conts', slots[t]) = ChainOf(blocks, conts, slots[t])
        BY <2>1, <3>1 DEF KeepsChains
      <3>3. QED BY <1>1, <3>2, SavedKept
    <2>8. where' = where /\ got' = got
      BY <1>1, <1>4, WhereIs, WhereIsNext
    <2>9. QED BY <2>6, <2>7, <2>8 DEF Abstract!cvars
  <1>5. QED BY <1>1, <1>3, <1>4

\* the first frame of k comes before what is left of it, from nk on
SplitChain(bs, cs, k, size, ds, nk) ==
  /\ KeepsChains(bs, cs, bs, ds)
  /\ ChainOf(bs, cs, k) = <<Words(bs[cs[k].block], cs[k].top, cs[k].top + size)>> \o ChainOf(bs, ds, nk)

-----------------------------------------------------------------------------
(* Underflow *)

\* what a split makes of a continuation
PartedParts(x, y, z, size, nk) ==
  /\ y.tag = "k" /\ y.block = x.block /\ y.top = x.top /\ y.size = size /\ y.next = nk
  /\ z.tag = "k" /\ z.block = x.block /\ z.top = x.top + size /\ z.size = x.size - size /\ z.next = x.next

\* the two continuations that a split leaves
LEMMA PartedFacts ==
  ASSUME NEW cs, Records(cs), NEW k \in DOMAIN cs, cs[k].tag = "k", NEW nk, nk \notin DOMAIN cs,
         NEW size, NEW ds, Parted(cs, k, size, nk, ds)
  PROVE  /\ PartedParts(cs[k], ds[k], ds[nk], size, nk)
         /\ \A j \in DOMAIN cs \ {k} : ds[j] = cs[j]
  <1> DEFINE x == cs[k]
             rest == [x EXCEPT !.top = @ + size, !.size = @ - size]
             one == [cs EXCEPT ![k].size = size, ![k].next = nk]
  <1>1. x \in [tag : {"k"}, block : Block, top : Int, size : Nat \ {0}, next : Int]
    BY DEF Records
  <1>2. DOMAIN one = DOMAIN cs /\ one[k] = [x EXCEPT !.size = size, !.next = nk]
        /\ \A j \in DOMAIN cs \ {k} : one[j] = cs[j]
    OBVIOUS
  <1>3. /\ ds[k] = [x EXCEPT !.size = size, !.next = nk]
        /\ ds[nk] = rest
        /\ \A j \in DOMAIN cs \ {k} : ds[j] = cs[j]
    BY <1>2 DEF Also, Parted
  <1> DEFINE y == ds[k]
             z == ds[nk]
  <1>4. /\ y = [x EXCEPT !.size = size, !.next = nk]
        /\ z = [x EXCEPT !.top = x.top + size, !.size = x.size - size]
    BY <1>3
  <1> HIDE DEF x, y, z
  <1>5. PartedParts(x, y, z, size, nk)
    BY <1>1, <1>4 DEF PartedParts
  <1>6. QED BY <1>3, <1>5 DEF x, y, z

\* the first frame of a split continuation, followed by the chain of the rest, is the
\* chain that it was
LEMMA SplitChains ==
  ASSUME NEW bs, NEW cs, Chained(bs, cs), NEW k \in DOMAIN cs, cs[k].tag = "k", NEW nk, nk \notin DOMAIN cs,
         NEW size, size = SizeAt(bs[cs[k].block], cs[k].top), size < cs[k].size,
         NEW ds, Parted(cs, k, size, nk, ds), Chained(bs, ds), k \in DOMAIN ds, nk \in DOMAIN ds,
         DOMAIN cs \subseteq DOMAIN ds
  PROVE  SplitChain(bs, cs, k, size, ds, nk)
  <1> DEFINE x == cs[k]
             B == bs[x.block]
             top == x.top
             e == x.top + x.size
             f == Words(B, top, top + size)
             r == RowOf(B, top + size, e)
             t == ChainOf(bs, ds, x.next)
  <1>1. WellLinked(cs) /\ Records(cs)
    BY DEF Chained
  <1>2. /\ PartedParts(cs[k], ds[k], ds[nk], size, nk)
        /\ \A j \in DOMAIN cs \ {k} : ds[j] = cs[j]
    BY <1>1, PartedFacts
  <1>3. x \in [tag : {"k"}, block : Block, top : Int, size : Nat \ {0}, next : Int]
    BY <1>1 DEF Records
  <1>4. Framed(B, top, e) /\ top < e /\ top \in Int /\ e \in Int
    <2>1. Framed(bs[cs[k].block], cs[k].top, cs[k].top + cs[k].size)
      BY DEF Chained
    <2>2. x.top \in Int /\ x.size \in Nat \ {0}
      BY <1>3
    <2>3. top < e /\ top \in Int /\ e \in Int
      BY <2>2
    <2>4. QED BY <2>1, <2>3
  <1>5. size = SizeAt(B, top)
    OBVIOUS
  <1>6. size \in Nat \ {0} /\ Framed(B, top + size, e) /\ Framed(B, top, top + size) /\ top + size <= e
    <2> HIDE DEF B, top, e
    <2>1. QED BY <1>4, <1>5, FramedRest
  <1>7. PartOf(bs, cs, k) = <<f>> \o r
    <2>1. PartOf(bs, cs, k) = RowOf(B, top, e)
      BY DEF PartOf
    <2> HIDE DEF B, top, e
    <2>2. RowOf(B, top, e) = <<Words(B, top, top + size)>> \o RowOf(B, top + size, e)
      BY <1>4, <1>5, RowFirst
    <2>3. QED BY <2>1, <2>2
  <1>8. PartOf(bs, ds, k) = <<f>> /\ ds[k].next = nk
    <2>1. PartOf(bs, ds, k) = RowOf(B, top, top + size) /\ ds[k].next = nk
      BY <1>2 DEF PartOf, PartedParts
    <2>2. OneFrame(B, top, size)
      BY <1>5, <1>6 DEF OneFrame
    <2> HIDE DEF B, top
    <2>3. RowOf(B, top, top + size) = <<Words(B, top, top + size)>>
      BY <1>4, <1>6, <2>2, RowOne
    <2>4. QED BY <2>1, <2>3
  <1>9. PartOf(bs, ds, nk) = r /\ ds[nk].next = x.next
    <2>1. PartOf(bs, ds, nk) = RowOf(B, top + size, (x.top + size) + (x.size - size)) /\ ds[nk].next = x.next
      BY <1>2 DEF PartOf, PartedParts
    <2>2. (x.top + size) + (x.size - size) = e
      <3>1. x.top \in Int /\ x.size \in Int /\ size \in Int
        BY <1>3, <1>6
      <3>2. QED BY <3>1
    <2>3. QED BY <2>1, <2>2
  <1>10. x.next \in DOMAIN cs \cup {0}
    BY <1>1 DEF WellLinked
  <1>11. Plain(r) /\ Waits(ds, t)
    <2>1. x.next \in DOMAIN ds \cup {0}
      BY <1>10
    <2>2. Waits(ds, t)
      BY <2>1, ChainWaits
    <2> HIDE DEF B, top, e, t, x
    <2>3. QED BY <1>6, <2>2, RowFrames
  <1>12. /\ ChainOf(bs, ds, k) = <<f>> \o ChainOf(bs, ds, nk)
         /\ ChainOf(bs, ds, nk) = r \o t
    <2>1. \A i \in DOMAIN ds : ChainOf(bs, ds, i) = PartOf(bs, ds, i) \o ChainOf(bs, ds, ds[i].next)
      BY ChainLaws
    <2>2. /\ ChainOf(bs, ds, k) = PartOf(bs, ds, k) \o ChainOf(bs, ds, ds[k].next)
          /\ ChainOf(bs, ds, nk) = PartOf(bs, ds, nk) \o ChainOf(bs, ds, ds[nk].next)
      BY <2>1
    <2>3. QED BY <1>8, <1>9, <2>2
  <1>13. ChainOf(bs, ds, k) = PartOf(bs, cs, k) \o ChainOf(bs, ds, cs[k].next)
    <2>1. t = ChainOf(bs, ds, cs[k].next)
      OBVIOUS
    <2> HIDE DEF f, r, t
    <2>2. (<<f>> \o r) \o t = <<f>> \o (r \o t)
      BY <1>11, OneMore
    <2>3. QED BY <1>7, <1>12, <2>1, <2>2
  <1>14. ASSUME NEW j \in DOMAIN cs, j # k
         PROVE  ChainOf(bs, ds, j) = PartOf(bs, cs, j) \o ChainOf(bs, ds, cs[j].next)
    <2>1. ds[j] = cs[j] /\ j \in DOMAIN ds
      BY <1>2, <1>14
    <2>2. ChainOf(bs, ds, j) = PartOf(bs, ds, j) \o ChainOf(bs, ds, ds[j].next)
      BY <2>1, ChainLaws
    <2>3. PartOf(bs, ds, j) = PartOf(bs, cs, j)
      BY <2>1 DEF PartOf
    <2>4. QED BY <2>1, <2>2, <2>3
  <1> DEFINE R == DOMAIN cs
  <1>15. R \subseteq DOMAIN cs /\ DOMAIN cs \cup {0} = R \cup {0}
    OBVIOUS
  <1>16. \A i \in R : /\ cs[i].next \in R \cup {0}
                      /\ ChainOf(bs, ds, i) = PartOf(bs, cs, i) \o ChainOf(bs, ds, cs[i].next)
    BY <1>1, <1>13, <1>14 DEF WellLinked
  <1>17. k \in R
    OBVIOUS
  <1> HIDE DEF R
  <1>18. Follows(bs, cs, bs, ds, R)
    BY <1>15, <1>16 DEF Follows
  <1>19. \A i \in R \cup {0} : ChainOf(bs, ds, i) = ChainOf(bs, cs, i)
    BY <1>18, ChainAgrees
  <1>20. KeepsChains(bs, cs, bs, ds)
    BY <1>15, <1>19 DEF KeepsChains
  <1>21. ChainOf(bs, cs, k) = <<f>> \o ChainOf(bs, ds, nk)
    BY <1>12, <1>17, <1>19
  <1>22. QED BY <1>20, <1>21 DEF SplitChain

\* values moved down are the values they were
LEMMA MovedValues ==
  ASSUME NEW b, DOMAIN b = Area, NEW base \in Int, NEW n \in Nat, NEW at \in Int, n <= at, at <= AreaSize,
         NEW vs, vs = Words(b, base - n, base), NEW low, low = at - n
  PROVE  \A i \in 1 .. n : Write(b, low, vs)[at - i] = b[base - i]
  <1> DEFINE from == base - n
  <1>1. base - from = n /\ from \in Int
    OBVIOUS
  <1> HIDE DEF from
  <1>2. Words(b, from, base) = [i \in 1 .. n |-> b[from + i - 1]]
    BY <1>1 DEF Words
  <1>3. Len(Words(b, from, base)) = n
    BY <1>2
  <1>4. vs = Words(b, from, base)
    BY DEF from
  <1>5. Len(vs) = n /\ low \in Int
    BY <1>3, <1>4
  <1>6. \A j \in 1 .. Len(vs) : low + j - 1 \in Area => Write(b, low, vs)[low + j - 1] = vs[j]
    BY <1>5, WriteFacts
  <1> DEFINE c == Write(b, low, vs)
  <1> HIDE DEF c
  <1>7. ASSUME NEW i \in 1 .. n PROVE c[at - i] = b[base - i]
    <2> DEFINE j == (n - i) + 1
    <2>1. j \in 1 .. n /\ low + j - 1 = at - i /\ from + j - 1 = base - i
      BY DEF from
    <2>2. at - i \in Area
      BY Bounds DEF Area
    <2> HIDE DEF j
    <2>3. c[low + j - 1] = vs[j]
      BY <1>5, <1>6, <2>1, <2>2 DEF c
    <2>4. vs[j] = b[from + j - 1]
      BY <1>2, <1>4, <2>1
    <2>5. QED BY <2>1, <2>3, <2>4
  <1>8. QED BY <1>7 DEF c

\* a frame copied to the stack is the frame it was
LEMMA CopiedWords ==
  ASSUME NEW b, DOMAIN b = Area, NEW B, NEW top \in Int, NEW size \in Nat \ {0},
         NEW at \in Int, 0 <= at, at + size <= AreaSize, NEW ws, Holds(ws, B, top, size)
  PROVE  Words(Write(b, at, ws), at, at + size) = Words(B, top, top + size)
  <1> DEFINE c == Write(b, at, ws)
  <1>1. Len(ws) = size /\ \A j \in 1 .. size : ws[j] = B[top + j - 1]
    BY DEF Holds
  <1>2. \A j \in 1 .. size : at + j - 1 \in Area => c[at + j - 1] = ws[j]
    <2>1. Len(ws) \in Nat
      BY <1>1
    <2>2. \A j \in 1 .. Len(ws) : at + j - 1 \in Area => c[at + j - 1] = ws[j]
      BY <2>1, WriteFacts
    <2> HIDE DEF c
    <2>3. QED BY <1>1, <2>2
  <1>3. \A j \in 1 .. size : at + j - 1 \in Area
    BY Bounds DEF Area
  <1> HIDE DEF c
  <1>4. \A j \in 1 .. size : c[at + j - 1] = B[top + j - 1]
    BY <1>1, <1>2, <1>3
  <1>5. at + size - at = size /\ top + size - top = size
    OBVIOUS
  <1>6. Words(c, at, at + size) = [j \in 1 .. size |-> c[at + j - 1]]
    BY <1>5 DEF Words
  <1>7. Words(B, top, top + size) = [j \in 1 .. size |-> B[top + j - 1]]
    BY <1>5 DEF Words
  <1>8. Words(c, at, at + size) = Words(B, top, top + size)
    BY <1>4, <1>6, <1>7
  <1>9. QED BY <1>8 DEF c

\* ik_underflow splits the first frame off, copies it to the base of the stack and
\* moves the values below it: the frame is the first of the list before and after
LEMMA UnderflowImplements ==
  ASSUME StackInv, Underflow
  PROVE  UNCHANGED Abstract!cvars
  <1> DEFINE S == blocks[stack_base]
             k == conts[next_k]
             B == blocks[k.block]
             ws == ContWords(next_k)
             size == framesize(ws)
             nk == Free(DOMAIN conts)
             rest == [k EXCEPT !.top = @ + size, !.size = @ - size]
             one == [conts EXCEPT ![next_k].size = size, ![next_k].next = nk]
             fbase == frame_base - 1
             vs == Words(S, fbase - argc, fbase)
             M == Write(S, fbase - size - argc, vs)
             after == IF size < k.size THEN Also(one, nk, rest) ELSE conts
             at == fbase - size
             frame == SubSeq(ws, 1, size)
             C == Write(M, at, frame)
  <1>1. /\ pc = "underflow" /\ next_k # 0 /\ k.tag = "k"
        /\ size < k.size => Room(1)
        /\ IF size > k.size
           THEN pc' = "dead" /\ UNCHANGED <<blocks, conts, next_k, slots, frame_pointer>>
           ELSE /\ pc' = "reenter" /\ frame_pointer' = at
                /\ Refer([blocks EXCEPT ![stack_base] = C], stack_base, after, after[next_k].next, slots)
        /\ UNCHANGED <<stack_base, frame_base, argc>>
    BY DEF Underflow
  <1>2. /\ frame_base \in Int /\ frame_base <= AreaSize /\ AreaSize \in Int /\ LowBase <= frame_base
        /\ LowBase \in Int /\ LowBase - Longest >= 3 /\ Longest \in Int
        /\ stack_base \in DOMAIN blocks /\ DOMAIN S = Area
        /\ WellLinked(conts) /\ next_k \in DOMAIN conts \cup {0}
        /\ slots \in [Slot -> DOMAIN conts \cup {0, -1}]
    BY Numbers
  <1>3. argc \in 0 .. 2 /\ frame_pointer = fbase
    BY <1>1 DEF StackInv, InvPointer
  <1>4. FramesOK(blocks, stack_base, frame_base, conts) /\ ContsOK(conts, next_k, slots)
    BY DEF StackInv, InvMemory, InvConts
  <1>5. Chained(blocks, conts)
    BY ListIs
  <1>6. next_k \in DOMAIN conts
    BY <1>1, <1>2
  <1>7. /\ size = SizeAt(B, k.top) /\ size \in Nat \ {0} /\ size <= k.size /\ size <= Longest
        /\ k.top \in Int /\ k.size \in Nat /\ k.next \in DOMAIN conts \cup {0}
        /\ OneFrame(B, k.top, size)
        /\ Holds(frame, B, k.top, size)
    <2>1. ws = Words(blocks[k.block], k.top, k.top + k.size) /\ size = framesize(ws) /\ k = conts[next_k]
      BY DEF ContWords
    <2> HIDE DEF ws, size, k
    <2>2. next_k # 0 /\ conts[next_k].tag = "k"
      BY <1>1 DEF k
    <2>3. QED BY <1>4, <2>1, <2>2, FirstFrame
  <1> HIDE DEF ws, size
  <1>8. /\ pc' = "reenter" /\ frame_pointer' = at
        /\ Refer([blocks EXCEPT ![stack_base] = C], stack_base, after, after[next_k].next, slots)
    <2>1. ~(size > k.size)
      <3>1. \A m, n \in Int : m <= n => ~(m > n)
        OBVIOUS
      <3>2. QED BY <1>7, <3>1
    <2>2. QED BY <1>1, <2>1
  <1> DEFINE f == Words(B, k.top, k.top + size)
             mk == after[next_k].next
             w == ChainOf(blocks, after, mk)
             q == ChainOf(blocks, conts, next_k)
  <1>9. /\ FramesOK(blocks, stack_base, frame_base, after)
        /\ ContsOK(after, mk, slots)
        /\ KeepsChains(blocks, conts, blocks, after)
        /\ q = <<f>> \o w
    <2>1. CASE size < k.size
      <3>1. nk \in Ids /\ nk \notin DOMAIN conts
        <4>1. DOMAIN conts \subseteq Ids
          BY <1>2 DEF WellLinked
        <4>2. Cardinality(DOMAIN conts) + 1 <= Cardinality(Ids) /\ 1 \in Nat \ {0}
          BY <1>1, <2>1 DEF Room
        <4>3. Free(DOMAIN conts) \in Ids /\ Free(DOMAIN conts) \notin DOMAIN conts
          BY <4>1, <4>2, FreeId
        <4>4. QED BY <4>3
      <3>2. /\ size = SizeAt(blocks[conts[next_k].block], conts[next_k].top) /\ size < conts[next_k].size
            /\ next_k # 0 /\ conts[next_k].tag = "k"
        BY <1>1, <1>7, <2>1
      <3> DEFINE ds == Also(one, nk, rest)
      <3>3. Parted(conts, next_k, size, nk, ds)
        BY DEF Parted
      <3>4. DOMAIN conts \subseteq DOMAIN ds /\ nk \in DOMAIN ds
        BY DEF Also
      <3>5. f = Words(blocks[conts[next_k].block], conts[next_k].top, conts[next_k].top + size)
        OBVIOUS
      <3> HIDE DEF nk, rest, one, ds
      <3>6. FramesOK(blocks, stack_base, frame_base, ds) /\ ContsOK(ds, nk, slots)
        BY <1>4, <3>1, <3>2, <3>3, SplitOff
      <3>7. LeadsOn(conts, next_k, ds, nk)
        BY <1>4, <3>1, <3>2, <3>3, SplitOff
      <3>8. ds[next_k].next = nk
        BY <3>7 DEF LeadsOn
      <3>9. Chained(blocks, ds)
        BY <3>6, ChainedFrames
      <3>10. next_k \in DOMAIN ds
        BY <1>6, <3>4
      <3>11. SplitChain(blocks, conts, next_k, size, ds, nk)
        BY <1>5, <1>6, <3>1, <3>2, <3>3, <3>4, <3>9, <3>10, SplitChains
      <3>12. after = ds
        BY <2>1 DEF ds
      <3>13. ChainOf(blocks, conts, next_k) = <<f>> \o ChainOf(blocks, ds, nk)
        BY <3>5, <3>11 DEF SplitChain
      <3> HIDE DEF after, f
      <3>14. QED BY <3>6, <3>8, <3>11, <3>12, <3>13 DEF SplitChain
    <2>2. CASE ~(size < k.size)
      <3>1. after = conts
        BY <2>2
      <3>2. k.size = size
        <4>1. \A m, n \in Int : m <= n /\ ~(m < n) => n = m
          OBVIOUS
        <4>2. QED BY <1>7, <2>2, <4>1
      <3>3. ContsOK(conts, k.next, slots)
        BY <1>4, <1>7 DEF ContsOK
      <3>4. q = PartOf(blocks, conts, next_k) \o ChainOf(blocks, conts, k.next)
        BY <1>5, <1>6, ChainLaws
      <3>5. PartOf(blocks, conts, next_k) = RowOf(B, k.top, k.top + size)
        BY <1>1, <3>2 DEF PartOf
      <3>6. RowOf(B, k.top, k.top + size) = <<f>>
        <4> DEFINE top == k.top
        <4>1. top \in Int /\ OneFrame(B, top, size)
          BY <1>7
        <4>2. f = Words(B, top, top + size)
          OBVIOUS
        <4> HIDE DEF top, B, f
        <4>3. RowOf(B, top, top + size) = <<Words(B, top, top + size)>>
          BY <1>7, <4>1, RowOne
        <4>4. RowOf(B, top, top + size) = <<f>>
          BY <4>2, <4>3
        <4>5. QED BY <4>4 DEF top
      <3>7. KeepsChains(blocks, conts, blocks, conts)
        BY DEF KeepsChains
      <3>8. mk = k.next
        BY <3>1
      <3> HIDE DEF after, mk, f, B, k
      <3>9. QED BY <1>4, <3>1, <3>3, <3>4, <3>5, <3>6, <3>7, <3>8
    <2>3. QED BY <2>1, <2>2
  <1> HIDE DEF after, S, B, k, f, mk
  <1>10. at \in Int /\ 2 <= at /\ at < fbase /\ at + size = fbase /\ fbase <= frame_base /\ at + size <= AreaSize
         /\ fbase \in Int
    BY <1>2, <1>7
  <1>11. DOMAIN M = Area /\ SameFrom(S, M, at) /\ \A i \in 1 .. argc : M[at - i] = S[fbase - i]
    <2> DEFINE low == fbase - size - argc
    <2>1. low = at - argc /\ argc \in Nat /\ argc <= at /\ at <= AreaSize
      <3>1. argc \in Nat /\ argc <= 2
        BY <1>3
      <3>2. at = fbase - size /\ low = fbase - size - argc
        OBVIOUS
      <3>3. size \in Nat /\ fbase \in Int /\ AreaSize \in Int
        BY <1>2, <1>7, <1>10
      <3> HIDE DEF low, at, fbase, vs, M
      <3>4. QED BY <1>10, <3>1, <3>2, <3>3
    <2>2. vs = Words(S, fbase - argc, fbase) /\ M = Write(S, low, vs)
      OBVIOUS
    <2> HIDE DEF low, at, vs, M, fbase
    <2>3. SameFrom(S, Write(S, low, vs), at)
      BY <1>2, <1>10, <2>1, <2>2, MovedDown
    <2>4. \A i \in 1 .. argc : Write(S, low, vs)[at - i] = S[fbase - i]
      BY <1>2, <1>10, <2>1, <2>2, MovedValues
    <2>5. QED BY <2>2, <2>3, <2>4 DEF SameFrom
  <1> HIDE DEF M, frame
  <1>12. /\ OneFrame(C, at, size) /\ SameFrom(M, C, at + size)
         /\ Words(C, at, at + size) = f
         /\ \A j \in Area : j < at => C[j] = M[j]
    <2> HIDE DEF at
    <2>1. 0 <= at
      BY <1>10
    <2> DEFINE top == k.top
    <2>2. top \in Int /\ OneFrame(B, top, size) /\ Holds(frame, B, top, size)
      BY <1>7
    <2>3. f = Words(B, top, top + size)
      BY DEF f
    <2> HIDE DEF top
    <2>4. OneFrame(C, at, size) /\ SameFrom(M, C, at + size)
      BY <1>7, <1>10, <1>11, <2>1, <2>2, CopiedBack
    <2>5. Words(C, at, at + size) = Words(B, top, top + size)
      <3>1. DOMAIN M = Area
        BY <1>11
      <3>2. size \in Nat \ {0} /\ at \in Int /\ at + size <= AreaSize
        BY <1>7, <1>10
      <3>3. Words(Write(M, at, frame), at, at + size) = Words(B, top, top + size)
        BY <2>1, <2>2, <3>1, <3>2, CopiedWords
      <3>4. QED BY <3>3
    <2>6. Len(frame) \in Nat
      BY <1>7, <2>2 DEF Holds
    <2>7. \A j \in Area : j < at => Write(M, at, frame)[j] = M[j]
      BY <1>10, <1>11, <2>6, WriteFacts
    <2>8. QED BY <2>3, <2>4, <2>5, <2>7
  <1> HIDE DEF C
  <1>13. SameFrom(S, C, frame_base)
    <2> HIDE DEF at, fbase
    <2>1. SameFrom(S, M, fbase)
      BY <1>10, <1>11, SameHigher
    <2>2. SameFrom(M, C, fbase)
      BY <1>10, <1>12
    <2>3. SameFrom(S, C, fbase)
      BY <2>1, <2>2, SameThen
    <2>4. QED BY <1>2, <1>10, <2>3, SameHigher
  <1> DEFINE bs == [blocks EXCEPT ![stack_base] = C]
  <1>14. bs[stack_base] = C
    BY <1>2
  <1>15. FramesOK(bs, stack_base, frame_base, after)
    <2>1. SameFrom(blocks[stack_base], C, frame_base)
      BY <1>13 DEF S
    <2>2. QED BY <1>9, <2>1, FramesBelow
  <1>16. bs = [blocks EXCEPT ![stack_base] = C] /\ Refer(bs, stack_base, after, mk, slots)
    BY <1>8 DEF mk
  <1> HIDE DEF bs
  <1>17. KeepsChains(blocks, after, bs, after)
    <2>1. SameFrom(blocks[stack_base], C, frame_base) /\ WellLinked(after) /\ Records(after)
      BY <1>9, <1>13 DEF S, ContsOK
    <2>2. QED BY <1>9, <1>16, <2>1, ChainsBelow
  <1>18. /\ ChainOf(blocks', conts', next_k') = ChainOf(bs, after, mk)
         /\ \A t \in Slot : slots[t] # -1 => ChainOf(blocks', conts', slots[t]) = ChainOf(bs, after, slots[t])
         /\ slots' = slots /\ blocks'[stack_base] = bs[stack_base]
    <2>1. ContsOK(after, mk, slots)
      BY <1>9
    <2>2. Refer(bs, stack_base, after, mk, slots)
      BY <1>16
    <2> HIDE DEF w, q, at, fbase, vs, nk, rest, one
    <2>3. /\ ChainOf(blocks', conts', next_k') = ChainOf(bs, after, mk)
          /\ \A s \in Slot : slots[s] # -1 => ChainOf(blocks', conts', slots[s]) = ChainOf(bs, after, slots[s])
          /\ slots' = slots /\ next_k' = mk /\ blocks'[stack_base] = bs[stack_base]
      BY <1>15, <2>1, <2>2, ChainsReferred
    <2>4. QED BY <2>3
  <1>19. mk \in DOMAIN after \cup {0} /\ slots \in [Slot -> DOMAIN after \cup {0, -1}]
    BY <1>9 DEF ContsOK
  <1>20. ChainOf(blocks', conts', next_k') = w
    BY <1>17, <1>18, <1>19 DEF KeepsChains
  <1>21. saved' = saved
    <2>1. \A t \in Slot : slots[t] # -1 => slots[t] \in DOMAIN conts \cup {0} /\ slots[t] \in DOMAIN after \cup {0}
      BY <1>2, <1>19
    <2>2. \A t \in Slot : slots[t] # -1 => ChainOf(blocks', conts', slots[t]) = ChainOf(blocks, conts, slots[t])
      BY <1>9, <1>17, <1>18, <2>1 DEF KeepsChains
    <2>3. QED BY <1>18, <2>2, SavedKept
  <1>22. ctl = q
    <2>1. frame_pointer >= frame_base - 1
      BY <1>2, <1>3
    <2>2. QED BY <2>1, ListIsChain
  <1>23. ctl' = <<f>> \o w
    <2>1. ctl' = TopRow(blocks'[stack_base'], frame_pointer', frame_base') \o ChainOf(blocks', conts', next_k')
      BY ListIsNext
    <2>2. blocks'[stack_base'] = C /\ frame_pointer' = at /\ frame_base' = frame_base
      BY <1>1, <1>8, <1>14, <1>18
    <2>3. TopRow(C, at, frame_base) = <<f>>
      <3>1. TopRow(C, at, frame_base) = RowOf(C, at, fbase)
        BY <1>10 DEF TopRow
      <3> HIDE DEF at
      <3>2. RowOf(C, at, at + size) = <<Words(C, at, at + size)>>
        BY <1>7, <1>10, <1>12, RowOne
      <3>3. QED BY <1>10, <1>12, <3>1, <3>2
    <2> HIDE DEF at, w
    <2>4. QED BY <1>20, <2>1, <2>2, <2>3
  <1>24. where' = where /\ got' = got
    <2>1. where = "returning" /\ got = Got /\ where' = "returning" /\ got' = Got'
      BY <1>1, <1>8, WhereIs, WhereIsNext
    <2>2. /\ argc' \in Nat /\ argc' = argc /\ argc \in Nat
          /\ frame_pointer' \in Int /\ frame_pointer' = at /\ blocks'[stack_base'] = C
      BY <1>1, <1>3, <1>8, <1>10, <1>14, <1>18
    <2>3. Got' = GotOf(C, at, argc)
      <3>1. Got' = GotOf(blocks'[stack_base'], frame_pointer', argc')
        BY <2>2, GotIsNext
      <3> HIDE DEF at
      <3>2. QED BY <2>2, <3>1
    <2>4. Got = GotOf(S, fbase, argc)
      BY <1>3, GotIs DEF S
    <2>5. \A i \in 1 .. argc : C[at - i].v = S[fbase - i].v
      <3> HIDE DEF fbase
      <3>1. ASSUME NEW i \in 1 .. argc PROVE at - i \in Area /\ at - i < at
        BY <1>2, <1>3, <1>10 DEF Area
      <3> HIDE DEF at
      <3>2. QED BY <1>11, <1>12, <3>1
    <2>6. GotOf(C, at, argc) = GotOf(S, fbase, argc)
      <3> HIDE DEF at, fbase
      <3>1. QED BY <2>5 DEF GotOf
    <2>7. QED BY <2>1, <2>3, <2>4, <2>6
  <1>25. ctl' = ctl
    BY <1>9, <1>22, <1>23
  <1>26. QED BY <1>21, <1>24, <1>25 DEF Abstract!cvars

-----------------------------------------------------------------------------
(* Every behaviour *)

\* a program starts with nothing waiting and nothing kept
LEMMA InitImplements ==
  ASSUME StackInit
  PROVE  InvTop /\ Abstract!CtlInit
  <1>1. StackInv
    BY InitKeeps
  <1>2. /\ frame_base = AreaSize /\ frame_pointer = AreaSize - 1 /\ next_k = 0 /\ pc = "scheme"
        /\ slots = [s \in Slot |-> -1]
    BY DEF StackInit
  <1>3. frame_base \in Int /\ frame_pointer >= frame_base - 1
    BY <1>1, <1>2, Numbers
  <1>4. ctl = << >>
    <2>1. ctl = ChainOf(blocks, conts, next_k)
      BY <1>1, <1>3, ListIsChain
    <2>2. Chained(blocks, conts)
      BY <1>1, ListIs
    <2>3. ChainOf(blocks, conts, 0) = << >>
      BY <2>2, ChainLaws
    <2>4. QED BY <1>2, <2>1, <2>3
  <1>5. saved = [s \in Slot |-> NoCont]
    BY <1>2 DEF saved
  <1>6. where = "scheme" /\ got = << >>
    BY <1>2, WhereIs
  <1>7. InvTop
    BY <1>2 DEF InvTop
  <1>8. QED BY <1>4, <1>5, <1>6, <1>7 DEF Abstract!CtlInit

\* nothing changes below, nothing changes above
LEMMA StutterImplements ==
  ASSUME StackInv, UNCHANGED svars
  PROVE  UNCHANGED Abstract!cvars
  <1>1. UNCHANGED <<blocks, stack_base, frame_base, frame_pointer, conts, next_k, slots, argc, pc>>
    BY DEF svars
  <1>2. ctl' = ctl
    <2>1. ctl = TopRow(blocks[stack_base], frame_pointer, frame_base) \o ChainOf(blocks, conts, next_k)
      BY ListIs
    <2>2. QED BY <1>1, <2>1, ListIsNext
  <1>3. saved' = saved
    BY <1>1, SavedKept
  <1>4. where' = where
    BY <1>1 DEF where
  <1>5. Got' = Got
    <2>1. frame_pointer \in Int /\ argc \in Nat
      BY Numbers DEF StackInv, InvPointer
    <2>2. Got' = GotOf(blocks'[stack_base'], frame_pointer', argc')
      BY <1>1, <2>1, GotIsNext
    <2>3. QED BY <1>1, <2>2, GotIs
  <1>6. got' = got
    <2>1. got = IF where = "returning" THEN Got ELSE << >>
      BY DEF got
    <2>2. got' = IF where' = "returning" THEN Got' ELSE << >>
      BY DEF got
    <2>3. QED BY <1>4, <1>5, <2>1, <2>2
  <1>7. QED BY <1>2, <1>3, <1>4, <1>6 DEF Abstract!cvars

\* every step of the stack is a step of the list, or leaves it as it is
LEMMA StepImplements ==
  ASSUME StackInv, InvTop, StackNext \/ UNCHANGED svars
  PROVE  Abstract!CtlNext \/ UNCHANGED Abstract!cvars
  <1>1. CASE Call
    BY <1>1, CallImplements
  <1>2. CASE Return
    BY <1>2, ReturnImplements
  <1>3. CASE Resume
    BY <1>3, ResumeImplements
  <1>4. CASE Capture
    BY <1>4, CaptureImplements
  <1>5. CASE Throw
    BY <1>5, ThrowImplements
  <1>6. CASE StackOverflow
    BY <1>6, StackOverflowImplements
  <1>7. CASE Finish
    BY <1>7, FinishImplements
  <1>8. CASE UnderflowToC
    BY <1>8, UnderflowToCImplements
  <1>9. CASE Underflow
    BY <1>9, UnderflowImplements
  <1>10. CASE ForeignCall
    BY <1>10, ForeignCallImplements
  <1>11. CASE CallBack
    BY <1>11, CallBackImplements
  <1>12. CASE Enter
    BY <1>12, EnterImplements
  <1>13. CASE ForeignResult
    BY <1>13, ForeignResultImplements
  <1>14. CASE ForeignReturn
    BY <1>14, ForeignReturnImplements
  <1>15. CASE Collect
    BY <1>15, CollectImplements
  <1>16. CASE UNCHANGED svars
    BY <1>16, StutterImplements
  <1>17. QED BY <1>1, <1>2, <1>3, <1>4, <1>5, <1>6, <1>7, <1>8, <1>9, <1>10, <1>11, <1>12, <1>13,
                <1>14, <1>15, <1>16 DEF StackNext

\* The frames and values of a program are those of a plain list, whatever the
\* stack does with them: sealing at call/cc (ikarus-enter.s), splitting at an
\* underflow (ikarus-runtime.c), moving to a new area at an overflow, copying by
\* a collection (ikarus-collect.c), marks of foreign calls (ikarus-ffi.c).  For
\* every frame, value, area size and number of continuations.
THEOREM StackImplementsControl == StackSpec => ImplementsControl
  <1>1. StackInit => InvTop /\ Abstract!CtlInit
    BY InitImplements
  <1>2. StackInv /\ InvTop /\ [StackNext]_svars => InvTop'
    BY TopKeeps
  <1>3. StackInv /\ InvTop /\ [StackNext]_svars => [Abstract!CtlNext]_(Abstract!cvars)
    BY StepImplements
  <1>4. QED BY <1>1, <1>2, <1>3, StackInvariant, PTL DEF StackSpec, ImplementsControl, Abstract!CtlSpec

=============================================================================
